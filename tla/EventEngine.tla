---------------------------- MODULE EventEngine -----------------------------
(***************************************************************************)
(* The event engine of usagewidgetd: EventEngine.ProcessDetailed, one      *)
(* SQLite transaction that walks the providers of a snapshot, detects what *)
(* changed since the saved baselines, claims event keys, moves the         *)
(* baselines, and then queues every emitted alert.  Any of these           *)
(* statements can fail, and the process can be killed between any two.     *)
(*                                                                         *)
(* Danger reminders, which the same transaction may add, repeat a state    *)
(* rather than report a transition: they are in AlertOutbox, with the      *)
(* per-device rows that an alert is queued as.                             *)
(***************************************************************************)
EXTENDS AlertRules

VARIABLES
    db,          \* window_state, events, and what was queued: committed
    tx,          \* the same as the engine sees it
    pc,          \* "idle", or "processing" with a transaction open
    poll,        \* the snapshot and settings being processed
    todo,        \* what the loop over providers has yet to look at
    emitted,     \* result.Emitted not yet queued
    now          \* PollResult.PolledAt of the latest poll

vars == <<db, tx, pc, poll, todo, emitted, now>>

\* baseline: rows of window_state for windows; credits: the "#credits" rows;
\* claimed: rows of events.  queued and requeued are history: keys enqueued
\* ever, and more than once.
Database == [baseline : [Provider -> Window \cup {None}],
             credits  : [Provider -> Nat \cup {None}],
             claimed  : SUBSET Key,
             queued   : SUBSET Key,
             requeued : SUBSET Key]

Poll == [snapshot : [Provider -> Readings \cup {None}], settings : SettingsChoices]

Item == {"window", "credits"} \X Provider

Init ==
    /\ db = [baseline |-> [p \in Provider |-> None],
             credits  |-> [p \in Provider |-> None],
             claimed |-> {}, queued |-> {}, requeued |-> {}]
    /\ tx = db
    /\ pc = "idle"
    /\ poll = None
    /\ todo = {}
    /\ emitted = {}
    /\ now = 0

\* Providers the loop does not skip as hidden, stale, failed or absent.
Heard(snapshot, s) == {p \in Provider \ s.hidden : snapshot[p] # None}

Begin ==
    /\ pc = "idle"
    /\ pc' = "processing"
    /\ \E snapshot \in [Provider -> Readings \cup {None}], s \in SettingsChoices, t \in Instants :
        /\ t >= now
        /\ now' = t
        /\ poll' = [snapshot |-> snapshot, settings |-> s]
        /\ LET heard == Heard(snapshot, s)
           IN todo' = ({"window"} \X {p \in heard : snapshot[p].window # None})
                      \cup ({"credits"} \X {p \in heard : snapshot[p].credits # None})
    /\ UNCHANGED <<db, tx, emitted>>

\* Mutant: claim does not ask EventNotified.
ClaimAlways(keys) == keys

\* claim: which of the keys this transaction is the first to record.
Claim(keys) == keys \ tx.claimed

\* Mutant: a provider seen for the first time is compared with no usage.
WindowEventsFirstSeen(p, w, s) ==
    LET prev == IF tx.baseline[p] = None THEN [used |-> 0, resetsAt |-> None]
                                         ELSE tx.baseline[p]
    IN IF s.on /\ s.rule[p].enabled THEN DetectWindowEvents(p, prev, w, s.rule[p], now) ELSE {}

WindowEvents(p, w, s) ==
    LET prev == tx.baseline[p]
    IN IF prev # None /\ s.on /\ s.rule[p].enabled
       THEN DetectWindowEvents(p, prev, w, s.rule[p], now)
       ELSE {}

\* One window of the loop.
ProcessWindow(p) ==
    /\ <<"window", p>> \in todo
    /\ LET w       == poll.snapshot[p].window
           claimed == Claim(WindowEvents(p, w, poll.settings))
       IN /\ tx' = [tx EXCEPT !.baseline[p] = Saved(w), !.claimed = @ \cup claimed]
          /\ emitted' = emitted \cup claimed
    /\ todo' = todo \ {<<"window", p>>}
    /\ UNCHANGED <<db, pc, poll, now>>

\* Mutant: a decrease re-arms nothing.
SetCreditsStateOnly(d, p, n) == [d EXCEPT !.credits[p] = n]

SetCreditsState(d, p, n) ==
    LET rearmed == {k \in d.claimed : /\ k[1] = "credits" /\ k[2] = p
                                      /\ d.credits[p] # None /\ d.credits[p] > n}
    IN [d EXCEPT !.credits[p] = n, !.claimed = @ \ rearmed]

\* The credits of a provider, after its windows.
ProcessCredits(p) ==
    /\ <<"credits", p>> \in todo
    /\ <<"window", p>> \notin todo
    /\ LET n       == poll.snapshot[p].credits
           s       == poll.settings
           prev    == tx.credits[p]
           rose    == prev # None /\ s.on /\ s.creditsOn[p] /\ n > prev
           claimed == Claim(IF rose THEN {CreditsKey(p, n)} ELSE {})
       IN /\ tx' = SetCreditsState([tx EXCEPT !.claimed = @ \cup claimed], p, n)
          /\ emitted' = emitted \cup claimed
    /\ todo' = todo \ {<<"credits", p>>}
    /\ UNCHANGED <<db, pc, poll, now>>

\* enqueueAlert for one emitted event.
Enqueue(k) ==
    /\ pc = "processing"
    /\ todo = {}
    /\ k \in emitted
    /\ tx' = [tx EXCEPT !.queued = @ \cup {k}, !.requeued = @ \cup ({k} \cap tx.queued)]
    /\ emitted' = emitted \ {k}
    /\ UNCHANGED <<db, pc, poll, todo, now>>

\* Mutant: result.Emitted survives into the next poll.
EndedKeepsEmitted ==
    /\ pc' = "idle"
    /\ tx' = db'
    /\ poll' = None
    /\ todo' = {}
    /\ UNCHANGED <<emitted, now>>

Ended ==
    /\ pc' = "idle"
    /\ tx' = db'
    /\ poll' = None
    /\ todo' = {}
    /\ emitted' = {}
    /\ UNCHANGED now

Commit ==
    /\ pc = "processing"
    /\ todo = {}
    /\ emitted = {}
    /\ db' = tx
    /\ Ended

\* Mutant: the statements run outside of a transaction.
RollbackNothing ==
    /\ pc = "processing"
    /\ db' = tx
    /\ Ended

\* A statement returned an error, or the process was killed.
Rollback ==
    /\ pc = "processing"
    /\ UNCHANGED db
    /\ Ended

Next ==
    \/ Begin
    \/ \E p \in Provider : ProcessWindow(p) \/ ProcessCredits(p)
    \/ \E k \in emitted : Enqueue(k)
    \/ Commit
    \/ Rollback

Spec == Init /\ [][Next]_vars

-----------------------------------------------------------------------------
(* Properties.                                                             *)

\* Every part has its type, and outside of a transaction nothing is at work
\* and the engine sees what is committed.
TypeOK ==
    /\ db \in Database
    /\ tx \in Database
    /\ pc \in {"idle", "processing"}
    /\ pc = "processing" => poll \in Poll
    /\ pc = "idle" => tx = db /\ todo = {} /\ emitted = {}
    /\ todo \subseteq Item
    /\ emitted \subseteq Key
    /\ now \in Nat

\* A claim is never left behind without its alert: after any failure or kill,
\* an event key that will not be alerted again has been queued.
ClaimedWasQueued == db.claimed \subseteq db.queued

\* A window alerts at most once per kind and reset cycle, however often its
\* usage crosses the threshold, the poll fails or the server restarts.  Only
\* credits alerts, which a decrease re-arms, may use a key again.
AtMostOncePerCycle == \A k \in db.requeued : k[1] = "credits"

\* No increase of the reset credits can meet a claim left by an earlier one:
\* the keys still claimed are at or below the saved count.
RisesArmed ==
    \A k \in db.claimed : k[1] = "credits" =>
        /\ db.credits[k[2]] # None
        /\ k[3] <= db.credits[k[2]]

\* The alerts that a move of the saved baseline of a window asks for.
WindowHeard(p) ==
    LET prev == db.baseline[p]
        new  == db'.baseline[p]
        rule == poll.settings.rule[p]
    IN (prev # None /\ new # prev /\ poll.settings.on /\ rule.enabled) =>
        /\ (prev.used < rule.early /\ rule.early <= new.used) =>
                <<"early", p, new.resetsAt>> \in db'.queued
        /\ (prev.used < 100 - rule.danger /\ 100 - rule.danger <= new.used) =>
                <<"danger", p, new.resetsAt>> \in db'.queued
        /\ (/\ prev.resetsAt # None /\ prev.resetsAt <= now
            /\ new.used < prev.used \/ new.resetsAt # prev.resetsAt) =>
                <<"reset", p, prev.resetsAt>> \in db'.queued

\* The alert that a rise of the saved reset credits asks for: a new one.
RiseHeard(p) ==
    LET prev == db.credits[p]
        new  == db'.credits[p]
    IN (prev # None /\ new # prev /\ poll.settings.on /\ poll.settings.creditsOn[p]) =>
        (new > prev => <<"credits", p, new>> \in (db'.claimed \ db.claimed) \cap db'.queued)

AllHeard == \A p \in Provider : WindowHeard(p) /\ RiseHeard(p)

\* The saved baselines move past a threshold, past a reset or up in credits
\* only together with the alert for it: a transition the settings want heard
\* is not lost by a failed or interrupted poll, it is found again.
TransitionsHeard == [][AllHeard]_db

\* What ties claims, alerts and credits together in a database and the events
\* still to be queued from it: every claim has its alert, a window key stays
\* claimed once it has one and gets only one, and claimed credits are at or
\* below the saved count.  Saved reset times are whole seconds.
Accounted(d, unqueued) ==
    /\ \A p \in Provider : d.baseline[p] # None => Saved(d.baseline[p]) = d.baseline[p]
    /\ d.claimed \subseteq d.queued \cup unqueued
    /\ \A k \in d.queued \cup unqueued : k[1] # "credits" => k \in d.claimed
    /\ \A k \in d.requeued \cup (unqueued \cap d.queued) : k[1] = "credits"
    /\ \A k \in d.claimed : k[1] = "credits" =>
        /\ d.credits[k[2]] # None
        /\ k[3] <= d.credits[k[2]]

\* The strengthening of the invariants: both databases are accounted for, and
\* only what the snapshot holds is left to do.
InTransaction ==
    /\ pc = "processing" => now \in Instants
    /\ Accounted(db, {})
    /\ Accounted(tx, emitted)
    /\ \A p \in Provider :
        /\ <<"window", p>> \in todo => poll.snapshot[p].window \in Window
        /\ <<"credits", p>> \in todo => poll.snapshot[p].credits \in Nat

\* The engine implements one indivisible observation of the whole report.
Transitions == INSTANCE AlertTransitions WITH
    baseline <- db.baseline,
    credits  <- db.credits,
    claimed  <- db.claimed,
    alerted  <- db.queued

ObservesAtOnce == Transitions!TransitionsSpec

\* What the open transaction has observed of the report so far, in the terms
\* of the abstract step: the invariant behind ObservesAtOnce.
WindowsDone == {p \in Transitions!WindowsHeard(poll.snapshot, poll.settings) :
                    <<"window", p>> \notin todo}
CreditsDone == {p \in Transitions!CreditsHeard(poll.snapshot, poll.settings) :
                    <<"credits", p>> \notin todo}

CalledBy(p) == Transitions!WindowCalls(p, db.baseline[p], poll.snapshot[p], poll.settings, now)
RaisedBy(p) == Transitions!CreditsCalls(p, db.credits[p], poll.snapshot[p], poll.settings)
RearmedBy(p) == Transitions!Rearmed(p, db.credits[p], poll.snapshot[p], db.claimed)

Called == (UNION {CalledBy(p) : p \in WindowsDone}) \cup (UNION {RaisedBy(p) : p \in CreditsDone})

ObservedSoFar ==
    /\ \A p \in Provider :
        /\ <<"window", p>> \in todo => p \in Transitions!WindowsHeard(poll.snapshot, poll.settings)
        /\ <<"credits", p>> \in todo => p \in Transitions!CreditsHeard(poll.snapshot, poll.settings)
        /\ tx.baseline[p] = IF p \in WindowsDone THEN Saved(poll.snapshot[p].window)
                                                ELSE db.baseline[p]
        /\ tx.credits[p] = IF p \in CreditsDone THEN poll.snapshot[p].credits
                                               ELSE db.credits[p]
    /\ tx.claimed = (db.claimed \cup Called) \ (UNION {RearmedBy(p) : p \in CreditsDone})
    /\ tx.queued \cup emitted = db.queued \cup (Called \ db.claimed)

Progress == pc = "processing" => ObservedSoFar

\* An alert about a window comes with a change of its saved baseline: a
\* report that says what was already saved alerts nothing.
AlertsAreTransitions ==
    [][\A k \in db'.claimed \ db.claimed :
        k[1] # "credits" => db'.baseline[k[2]] # db.baseline[k[2]]]_db

\* A window without a reset time whose usage starts over at zero is alerted
\* again when it crosses the early threshold in the new cycle.
ClocklessCyclesAlertAgain ==
    [][\A p \in Provider :
        LET prev == db.baseline[p]
            new  == db'.baseline[p]
            rule == poll.settings.rule[p]
        IN (/\ prev # None /\ new # prev
            /\ poll.settings.on /\ rule.enabled
            /\ new.resetsAt = None
            /\ prev.used = 0 /\ rule.early > 0 /\ rule.early <= new.used) =>
                <<"early", p, None>> \in db'.claimed \ db.claimed]_db
=============================================================================
