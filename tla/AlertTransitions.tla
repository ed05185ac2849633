-------------------------- MODULE AlertTransitions --------------------------
(***************************************************************************)
(* What the event engine promises: one report of the providers is observed *)
(* in one indivisible step.  The new baselines, the claims on event keys   *)
(* and the alerts handed to the outbox move together, and an alert comes   *)
(* from the difference between a saved baseline and the report, never      *)
(* from the report alone.                                                  *)
(***************************************************************************)
EXTENDS AlertRules

VARIABLES
    baseline,    \* the last window observed of each provider
    credits,     \* the last reset credits observed of each provider
    claimed,     \* event keys not to be alerted again
    alerted      \* event keys an alert was queued for

transitionVars == <<baseline, credits, claimed, alerted>>

Heard(snapshot, s) == {p \in Provider : p \notin s.hidden /\ snapshot[p] # None}

WindowsHeard(snapshot, s) == {p \in Heard(snapshot, s) : snapshot[p].window # None}
CreditsHeard(snapshot, s) == {p \in Heard(snapshot, s) : snapshot[p].credits # None}

\* First-seen data establishes a baseline and calls for nothing.
WindowCalls(p, prev, reading, s, now) ==
    IF prev # None /\ s.on /\ s.rule[p].enabled
    THEN DetectWindowEvents(p, prev, reading.window, s.rule[p], now)
    ELSE {}

CreditsCalls(p, prev, reading, s) ==
    IF prev # None /\ s.on /\ s.creditsOn[p] /\ reading.credits > prev
    THEN {CreditsKey(p, reading.credits)}
    ELSE {}

\* A decrease re-arms every credits key of the provider.
Rearmed(p, prev, reading, keys) ==
    IF prev # None /\ prev > reading.credits
    THEN {k \in keys : k[1] = "credits" /\ k[2] = p}
    ELSE {}

TransitionsInit ==
    /\ baseline = [p \in Provider |-> None]
    /\ credits = [p \in Provider |-> None]
    /\ claimed = {}
    /\ alerted = {}

Observe(snapshot, s, now) ==
    LET windows == WindowsHeard(snapshot, s)
        counts  == CreditsHeard(snapshot, s)
        called  == (UNION {WindowCalls(p, baseline[p], snapshot[p], s, now) : p \in windows})
                       \cup (UNION {CreditsCalls(p, credits[p], snapshot[p], s) : p \in counts})
        rearmed == (UNION {Rearmed(p, credits[p], snapshot[p], claimed) : p \in counts})
    IN /\ baseline' = [p \in Provider |-> IF p \in windows THEN Saved(snapshot[p].window)
                                                           ELSE baseline[p]]
       /\ credits' = [p \in Provider |-> IF p \in counts THEN snapshot[p].credits
                                                         ELSE credits[p]]
       /\ claimed' = (claimed \cup called) \ rearmed
       /\ alerted' = alerted \cup (called \ claimed)

TransitionsNext ==
    \E snapshot \in [Provider -> Readings \cup {None}], s \in SettingsChoices, now \in Instants :
        Observe(snapshot, s, now)

TransitionsSpec == TransitionsInit /\ [][TransitionsNext]_transitionVars
=============================================================================
