--------------------------- MODULE MCBedrockProbe ---------------------------
(* Two candidates, one port that every socket gets again, and two probes or  *)
(* more within the pings allowed.                                            *)
EXTENDS BedrockProbe
=============================================================================
