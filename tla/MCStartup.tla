----------------------------- MODULE MCStartup ------------------------------
(* What happens before the first probe, in two stages that are run one by    *)
(* one: the command line, and the preparation of every request that a        *)
(* command line can lead to.  The other stage is at rest.                    *)
EXTENDS MCCommandLine, MCPrepare

VARIABLE stage

MCInit ==
    \/ /\ stage = "command line"
       /\ request = (CHOOSE r \in Requests : TRUE) /\ ctxDone = FALSE
       /\ Init /\ PrepareInit
    \/ /\ stage = "preparation"
       /\ args = <<>>
       /\ Init /\ PrepareInit

MCNext ==
    \/ stage = "command line" /\ Next /\ UNCHANGED <<prepareVars, stage>>
    \/ stage = "preparation" /\ PrepareNext /\ UNCHANGED <<vars, stage>>

MCSpec == MCInit /\ [][MCNext]_<<vars, prepareVars, stage>>

=============================================================================
