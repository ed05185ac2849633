--------------------------- MODULE MCEngineCredits --------------------------
(* Two providers whose reset credits rise and fall.                        *)
EXTENDS EventEngine

CONSTANTS p1, p2, CreditsChoices

MCSettings ==
    [on : BOOLEAN, hidden : {{}},
     rule : {[p \in Provider |-> [enabled |-> TRUE, early |-> 80, danger |-> 10]]},
     creditsOn : {[p \in Provider |-> TRUE], [p \in Provider |-> p # p1]}]

MCReadings == [window : {None}, credits : CreditsChoices \cup {None}]
=============================================================================
