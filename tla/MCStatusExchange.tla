-------------------------- MODULE MCStatusExchange --------------------------
(* One connection; the server's deadline is later than the client's, as it  *)
(* is with the defaults, and both pass before the clock stops.              *)
EXTENDS StatusExchange
=============================================================================
