----------------------------- MODULE AlertRules -----------------------------
(***************************************************************************)
(* The pure part of the event engine: which alerts a new report of a usage *)
(* window calls for, given the saved baseline, and the keys that identify  *)
(* them.  Instants are natural numbers of ticks, with TicksPerSecond ticks *)
(* in a second: the baseline and the keys keep whole seconds, a report     *)
(* keeps its fraction.                                                     *)
(***************************************************************************)
EXTENDS Integers, FiniteSets

CONSTANTS
    Provider,         \* provider ids, each with one usage window
    TicksPerSecond,
    None,             \* nil: no reset time, no window, no credits, no report
    Instants,         \* when a poll may happen
    Readings,         \* what a provider may report
    SettingsChoices   \* the settings a poll may find

ASSUME RulesAssumption ==
    /\ TicksPerSecond \in Nat \ {0}
    /\ None \notin Int
    /\ None \notin [used : Nat, resetsAt : Nat \cup {None}]

\* Window as reported, and WindowState as saved.
Window == [used : Nat, resetsAt : Nat \cup {None}]

\* What a snapshot says of a provider that answered and is not stale.
Reading == [window : Window \cup {None}, credits : Nat \cup {None}]

\* AlertRule: early is a bound on what is used, danger on what remains.
Rule == [enabled : BOOLEAN, early : Nat, danger : Nat]

\* Settings, with EffectiveRule applied: rule is the one of the provider's
\* window, creditsOn the enabled flag of the provider's own rule.
Settings == [on : BOOLEAN, hidden : SUBSET Provider,
             rule : [Provider -> Rule], creditsOn : [Provider -> BOOLEAN]]

ASSUME InputsAssumption ==
    /\ Instants \subseteq Nat
    /\ Readings \subseteq Reading
    /\ SettingsChoices \subseteq Settings

\* time.RFC3339 drops the fraction of a second.
ToSecond(r) == IF r = None THEN None ELSE r - (r % TicksPerSecond)

\* Mutant: the fraction of the reset time is kept.
SavedExactly(w) == w

\* What setWindowState keeps of a window.
Saved(w) == [w EXCEPT !.resetsAt = ToSecond(@)]

\* eventKey (a missing reset time is the token "epoch") and creditsEventKey.
WindowKey(kind, p, r) == <<kind, p, ToSecond(r)>>
CreditsKey(p, n)      == <<"credits", p, n>>

Kind == {"early", "danger", "reset", "tibo"}
Key  == (Kind \X Provider \X (Nat \cup {None})) \cup ({"credits"} \X Provider \X Nat)

RemainingPercent(used) == IF used > 100 THEN 0 ELSE 100 - used

IsSurpriseReset(prevUsed, curUsed) ==
    prevUsed - curUsed >= 50 \/ (prevUsed >= 20 /\ curUsed <= 5)

CrossesEarly(prev, w, rule) == prev.used < rule.early /\ w.used >= rule.early

\* Mutant: what remains must be below the threshold, not at it.
CrossesDangerStrictly(prev, w, rule) ==
    100 - prev.used > rule.danger /\ RemainingPercent(w.used) < rule.danger

CrossesDanger(prev, w, rule) ==
    100 - prev.used > rule.danger /\ RemainingPercent(w.used) <= rule.danger

\* The saved reset time has passed, and something says the reset happened.
ResetDetected(prev, w, now) ==
    /\ prev.resetsAt # None
    /\ prev.resetsAt <= now
    /\ w.resetsAt # prev.resetsAt \/ w.used < prev.used

SurpriseDetected(prev, w, now) ==
    /\ prev.resetsAt # None
    /\ prev.resetsAt > now
    /\ IsSurpriseReset(prev.used, w.used)

Detected(kind, prev, w, rule, now) ==
    CASE kind = "early"  -> CrossesEarly(prev, w, rule)
      [] kind = "danger" -> CrossesDanger(prev, w, rule)
      [] kind = "reset"  -> ResetDetected(prev, w, now)
      [] kind = "tibo"   -> SurpriseDetected(prev, w, now)

\* Thresholds belong to the new cycle, resets to the one they end.
DetectWindowEvents(p, prev, w, rule, now) ==
    {WindowKey(kind, p, IF kind \in {"early", "danger"} THEN w.resetsAt ELSE prev.resetsAt) :
        kind \in {k \in Kind : Detected(k, prev, w, rule, now)}}
=============================================================================
