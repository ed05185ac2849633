---------------------------- MODULE MCForecasts ----------------------------
(* A tick is a quarter of an hour.  One window rises, falls, fills up and starts a  *)
(* new cycle, another one is stale or without a reset time.                *)
EXTENDS Forecasts
CONSTANTS w1, w2

Fresh(used, clock, length) == [stale |-> FALSE, used |-> used, clock |-> clock, length |-> length]
Failed == [stale |-> TRUE, used |-> 0, clock |-> None, length |-> None]

MCReports ==
    {[w \in {w1, w2} |-> IF w = w1 THEN r ELSE Fresh(20, None, None)] :
        r \in {Fresh(used, 9, 10) : used \in {10, 11, 70}} \cup {Fresh(100, 16, None)}}
    \cup {[w \in {w1, w2} |-> IF w = w1 THEN Failed ELSE Fresh(20, 16, 10)]}
=============================================================================
