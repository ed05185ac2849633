---------------------------- MODULE MCDeliveries ----------------------------
(* A phone is registered, a second one may come; two widget tokens; one    *)
(* tester beside the poller.                                               *)
EXTENDS Deliveries, TLC
CONSTANTS d1, d2, t1, t2

Phone(alert, widget) == [alert |-> alert, widget |-> widget]
MCStarts == {(d1 :> Phone(FALSE, t1)) @@ (d2 :> None)}
=============================================================================
