---------------------------- MODULE MCTextSession ----------------------------
(* Instances of TextSession for TLC. *)
EXTENDS TextSession

\* Every combination of limits, intervals shorter and longer than the timeout.
MCConfigs ==
    [count : {0, 2}, deadline : {0, 3}, interval : {1, 2}, timeout : {1, 4}]

=============================================================================
