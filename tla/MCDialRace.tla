----------------------------- MODULE MCDialRace -----------------------------
(* Instances of DialRace for TLC: candidate lists of length 0 to 3. *)
EXTENDS DialRace

=============================================================================
