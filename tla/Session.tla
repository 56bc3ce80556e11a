------------------------------- MODULE Session -------------------------------
(***************************************************************************)
(* What a text session promises, without the loop that keeps the promise:  *)
(* one probe at a time, none decided on once a limit is reached, at most   *)
(* one more sent after a cancellation, an end only for one of three        *)
(* reasons, and an exit status that follows from the counts.  TextSession  *)
(* implements this specification (TextSession!ImplementsSession).          *)
(***************************************************************************)
EXTENDS Integers

CONSTANTS Configs, Running

VARIABLES
    cfg,        \* count, deadline, interval and timeout; 0 is no limit
    clock,
    cancelled,
    grace,      \* a probe may still start
    sent, answered,
    due,        \* a probe is decided on and not sent yet
    open,       \* a probe is on its way
    status      \* Running, or the exit status

vars == <<cfg, clock, cancelled, grace, sent, answered, due, open, status>>

CountLeft == cfg.count > 0 => sent < cfg.count
TimeLeft  == cfg.deadline > 0 => clock < cfg.deadline

Init ==
    /\ cfg \in Configs
    /\ clock = 0
    /\ cancelled \in BOOLEAN /\ grace = TRUE
    /\ sent = 0 /\ answered = 0 /\ due = FALSE /\ open = FALSE
    /\ status = Running

Decide ==
    /\ status = Running /\ ~ due /\ ~ open
    /\ CountLeft /\ TimeLeft /\ grace
    /\ due' = TRUE
    /\ UNCHANGED <<cfg, clock, cancelled, grace, sent, answered, open, status>>

\* What was decided in time is sent, even if the clock has moved on.
Send ==
    /\ due
    /\ sent' = sent + 1
    /\ due' = FALSE /\ open' = TRUE
    /\ grace' = ~ cancelled
    /\ UNCHANGED <<cfg, clock, cancelled, answered, status>>

Complete ==
    /\ open
    /\ open' = FALSE
    /\ answered' \in {answered, answered + 1}
    /\ UNCHANGED <<cfg, clock, cancelled, grace, sent, due, status>>

\* With both limits set only a full count of replies is a success.
Finish ==
    /\ status = Running /\ ~ due /\ ~ open
    /\ cancelled \/ ~ CountLeft \/ ~ TimeLeft
    /\ status' = IF /\ answered > 0
                    /\ cfg.count > 0 /\ cfg.deadline > 0 => answered = cfg.count
                 THEN 0 ELSE 1
    /\ UNCHANGED <<cfg, clock, cancelled, grace, sent, answered, due, open>>

Cancel ==
    /\ ~ cancelled
    /\ cancelled' = TRUE
    /\ UNCHANGED <<cfg, clock, grace, sent, answered, due, open, status>>

Tick ==
    /\ clock' = clock + 1
    /\ UNCHANGED <<cfg, cancelled, grace, sent, answered, due, open, status>>

Next == Decide \/ Send \/ Complete \/ Finish \/ Cancel \/ Tick

Spec == Init /\ [][Next]_vars

=============================================================================
