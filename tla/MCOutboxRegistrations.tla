------------------------ MODULE MCOutboxRegistrations -----------------------
(* One phone that registers, replaces and clears its token, leaves and     *)
(* comes back while reminders of one danger period are queued and in       *)
(* flight.                                                                 *)
EXTENDS AlertOutbox

CONSTANTS d1, t1, t2, reminder1, reminder2, period

MCPeriodOf == [e \in {reminder1, reminder2} |-> period]
=============================================================================
