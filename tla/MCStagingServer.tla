--------------------------- MODULE MCStagingServer ---------------------------
(* Instances of StagingServer for TLC. *)
EXTENDS StagingServer

CONSTANTS j4, j6, b4

\* Java on both families and Bedrock on IPv4.
MCJava == {j4, j6}
MCBedrock == {b4}
MCOrder == <<j4, j6, b4>>

=============================================================================
