--------------------------- MODULE MCEngineWindows --------------------------
(* One usage window that is reported with and without a reset time, fails  *)
(* to be reported, and meets two rules and three ways of not being heard.  *)
EXTENDS EventEngine

CONSTANTS p1, UsedChoices, ResetChoices

RuleAt(early, danger) == [enabled |-> TRUE, early |-> early, danger |-> danger]

Listening(rule) == [on |-> TRUE, hidden |-> {}, rule |-> [p \in Provider |-> rule],
                    creditsOn |-> [p \in Provider |-> TRUE]]

Usual == Listening(RuleAt(80, 10))

MCSettings == {Usual, Listening(RuleAt(80, 20)),
               Listening([RuleAt(80, 10) EXCEPT !.enabled = FALSE]),
               [Usual EXCEPT !.on = FALSE], [Usual EXCEPT !.hidden = {p1}]}

MCReadings == [window : [used : UsedChoices, resetsAt : ResetChoices \cup {None}],
               credits : {None}]
=============================================================================
