----------------------------- MODULE AlertTurns -----------------------------
(***************************************************************************)
(* The turns that the queued alerts of AlertOutbox take: its steps, with a *)
(* history of who has been passed by.                                      *)
(***************************************************************************)
EXTENDS AlertOutbox

\* <<r, s>>: s had its turn and was moved back, and r, which could have been
\* sent ever since, still waits for a turn.  No line of the code reads it.
VARIABLE passed

turnVars == <<vars, passed>>

\* The alert whose turn a step is.
Turn == IF pc = "dispatch" /\ pc' \in {"dispatch", "sending"} THEN batch \ batch' ELSE {}

MovedBehind ==
    IF DeferAlerts THEN (Deliverable \ deferred) \X (deferred \cap pending) ELSE {}

TurnInit == Init /\ passed = {}

TurnNext ==
    /\ Next
    /\ passed' = {x \in passed \cup MovedBehind :
                    x[1] \in Deliverable' \ Turn /\ x[2] \in pending'}

TurnSpec == TurnInit /\ [][TurnNext]_turnVars

FairTurnSpec == TurnSpec /\ Fairness

\* An alert that was moved back after a failed delivery gets no other turn
\* before every alert that was waiting at that time, and could have been sent
\* in every state since, has had one: a dispatch cut short by its deadline, a
\* failed discard or newly queued alerts do not let it jump the queue
\* (deferAlerts, ORDER BY in pendingAlerts).  Where deferAlerts fails nothing
\* is moved, and nothing is claimed.
TurnsInOrder == pc = "dispatch" => \A x \in passed : ~First(x[2])

-----------------------------------------------------------------------------
(* What makes it inductive: who waits is ahead in the table, and is read   *)
(* with the batch if the one that passed it is.                            *)
TurnInv ==
    /\ passed \subseteq Row \X Row
    /\ \A x \in passed :
         /\ x[1] \in Deliverable /\ x[2] \in pending /\ x \in before
         /\ x[1] \notin deferred /\ x[1] # cur
         /\ x[2] \in batch => x[1] \in batch
=============================================================================
