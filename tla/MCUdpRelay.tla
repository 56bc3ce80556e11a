----------------------------- MODULE MCUdpRelay -----------------------------
(* One prober against one target; the relay's deadline covers two attempts, *)
(* as it does in the code (5 s against 2 s and 0.5 s).                      *)
EXTENDS UdpRelay
=============================================================================
