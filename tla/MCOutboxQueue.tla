---------------------------- MODULE MCOutboxQueue ---------------------------
(* More queued alerts than one batch holds: whether every alert gets its   *)
(* turn, and none of them two before the others have had one.              *)
EXTENDS AlertTurns

CONSTANTS d1, t1, reset, credits, early

MCPeriodOf == [e \in Event |-> NoPeriod]
=============================================================================
