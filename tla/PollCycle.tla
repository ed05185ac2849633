----------------------------- MODULE PollCycle -----------------------------
(***************************************************************************)
(* One poll after the other, as Poller.pollOnceUnlocked runs them: settings,*)
(* upstream fetch, normalisation, the merge with the stored snapshot, the  *)
(* comparison with it, the save, the event engine, the dispatch, and the   *)
(* outcome that goes to the database and to the health of the API.  Every  *)
(* statement may fail, and the process may be killed between any two; the  *)
(* snapshot and the latest outcomes survive in the database.               *)
(*                                                                         *)
(* PollFlight shows that polls do not overlap, so one poll is enough here. *)
(* Polls are numbered, and the number stands for the time a poll began.    *)
(***************************************************************************)
EXTENDS UsageReport

CONSTANTS
    Upstreams,      \* what the upstream may answer to a fetch
    Stored,         \* snapshots an earlier version may have left, or None
    Hidden,         \* lists of hidden providers
    Interval,       \* pollIntervalMinutes
    OutcomeLimit,   \* poll_runs rows kept (50)
    Notifiers,      \* what NewNotifier may return: "apns", or "noop" without APNs
    MaxPolls,       \* bound on the number of polls
    MaxFaults       \* bound on failing statements and kills

\* A snapshot at time 0 is one that no poll of the model has saved.
IsSnapshot(s) ==
    /\ s = [at |-> s.at, stale |-> s.stale, providers |-> s.providers]
    /\ s.at \in 0..MaxPolls /\ s.stale \in BOOLEAN /\ IsProviders(s.providers)

\* A body, if it is a report, reports finitely many resources.
IsAnswer(body) ==
    Envelope(body) # None =>
        LET providers == Envelope(body).providers
        IN  \A raw \in DOMAIN providers :
                providers[raw].stale \in BOOLEAN /\ IsFiniteSet(DOMAIN providers[raw].resources)

ASSUME CycleAssumption ==
    /\ \A up \in Upstreams : \A body \in Fetched(up) : IsAnswer(body)
    /\ \A s \in Stored \ {None} : IsSnapshot(s) /\ s.at = 0
    /\ Notifiers \subseteq {"apns", "noop"}
    /\ OutcomeLimit \in Nat \ {0} /\ Interval \in {1, 5, 15, 30, 60}
    /\ MaxPolls \in Nat /\ MaxFaults \in Nat

VARIABLES
    snapshot,   \* the row of snapshots: [at, stale, providers], or None
    outcomes,   \* the rows of poll_runs, oldest first
    health,     \* the collector fields of the API, in memory
    delivery,   \* its widgetDelivery, in memory: whether its status and detail tell
                \* of an early return of the last dispatch of changed data
    notifier,   \* the notifier of this process
    place,      \* the statement the poll is about to run
    poll,       \* what the poll has worked out so far
    faults,
    basis,      \* history: the last report saved, unless a later fetch failed
    runs,       \* history: every poll that came to an end, oldest first
    boot,       \* history: how many of them before the process started
    push        \* history: whether a push for the data saved last is owed, was lost
                \* to an early return of dispatch, or is settled

dataVars == <<snapshot, outcomes>>
process == <<health, delivery, notifier>>
history == <<basis, runs, boot, push>>
vars == <<dataVars, process, place, poll, faults, history>>

Place == {"idle", "fetch", "mark", "normalize", "preserve", "compare", "save", "engine",
          "dispatch", "outcome", "record"}

NoPoll == [at |-> 0, body |-> None, draft |-> <<>>, changed |-> FALSE, unread |-> FALSE,
           success |-> FALSE]

-----------------------------------------------------------------------------
(* Health.                                                                 *)

FreshHealth == [lastPoll |-> 0, lastSuccess |-> 0, lastChanged |-> 0, failures |-> 0]

\* Mutant: a success does not end the row of failures.
RecordPollOutcomeKeepsFailures(h, r) ==
    [lastPoll    |-> r.at,
     lastSuccess |-> IF r.success THEN r.at ELSE h.lastSuccess,
     lastChanged |-> IF r.success /\ r.changed THEN r.at ELSE h.lastChanged,
     failures    |-> IF r.success THEN h.failures ELSE h.failures + 1]

\* RecordPollOutcome; lastPollError is set exactly when failures > 0.
RecordPollOutcome(h, r) ==
    [lastPoll    |-> r.at,
     lastSuccess |-> IF r.success THEN r.at ELSE h.lastSuccess,
     lastChanged |-> IF r.success /\ r.changed THEN r.at ELSE h.lastChanged,
     failures    |-> IF r.success THEN 0 ELSE h.failures + 1]

\* NewAPI: the outcomes, recorded once more.
Replayed(rows) ==
    LET h[n \in 0..Len(rows)] == IF n = 0 THEN FreshHealth ELSE RecordPollOutcome(h[n - 1], rows[n])
    IN  h[Len(rows)]

\* collector.Status of handleHealth.
HealthStatus(h) ==
    CASE h.failures > 0 /\ h.lastSuccess = 0 -> "down"
      [] h.failures > 0 /\ h.lastSuccess > 0 -> "degraded"
      [] h.failures = 0 /\ h.lastSuccess > 0 -> "ok"
      [] OTHER -> "starting"

-----------------------------------------------------------------------------
(* The merge with the stored snapshot.                                     *)

Entry(ps, id) == ps[CHOOSE i \in DOMAIN ps : ps[i].id = id]
HasEntry(ps, id) == \E i \in DOMAIN ps : ps[i].id = id
HasWindows(ps, id) == \E i \in DOMAIN ps : ps[i].id = id /\ ps[i].windows # {}

\* The last useful state of a provider, as stale.
Kept(p) == [id |-> p.id, stale |-> TRUE, error |-> FALSE, windows |-> p.windows, credits |-> p.credits]

\* Mutant: a provider that failed gets its last windows, but not as stale.
FilledAsCurrent(current, previous) ==
    IF current.error /\ current.windows = {} /\ HasWindows(previous, current.id)
    THEN [Entry(previous, current.id) EXCEPT !.stale = current.stale, !.error = FALSE]
    ELSE current

\* A provider that failed gets its last useful windows and credits, as stale.
Filled(current, previous) ==
    IF current.error /\ current.windows = {} /\ HasWindows(previous, current.id)
    THEN Kept(Entry(previous, current.id))
    ELSE current

\* Mutant: providers that the report leaves out are not carried over.
PreservedOnlyReported(ps, previous) ==
    LET now == Project(ps)
        old == Project(previous)
    IN  [i \in DOMAIN now |-> Filled(now[i], old)]

\* preserveLastKnownProviderUsage.
Preserved(ps, previous) ==
    LET now   == Project(ps)
        old   == Project(previous)
        left  == {i \in DOMAIN old : /\ ~HasEntry(now, old[i].id)
                                     /\ old[i].windows # {} /\ KeepPlanProvider(old[i])}
    IN  [i \in DOMAIN now |-> Filled(now[i], old)]
        \o InSequence([i \in left |-> Kept(old[i])], Len(old))

WithForecasts(p, on) ==
    [p EXCEPT !.windows = {[w EXCEPT !.forecast = on /\ w.clock # None /\ w.label # ""] : w \in @}]

\* clearForecasts.
ClearForecasts(ps) == [i \in DOMAIN ps |-> WithForecasts(ps[i], FALSE)]

\* The forecasts that SaveSnapshotWithForecasts sets or clears: whether a
\* window gets one, from its pace (its history is modelled in Forecasts).
Enriched(ps) == [i \in DOMAIN ps |-> WithForecasts(ps[i], ~ps[i].stale /\ ~ps[i].error)]

\* handleGetSnapshot: the stored snapshot as a phone gets it at a given age,
\* in minutes, and without the hidden providers.
Served(age, hidden) ==
    LET fresh == IF 2 * Interval < 10 THEN 10 ELSE 2 * Interval
        stale == snapshot.stale \/ age > fresh
        ps    == Project(IF stale THEN ClearForecasts(snapshot.providers) ELSE snapshot.providers)
        shown == {i \in DOMAIN ps : \A id \in hidden : Canonical[id] # ps[i].id}
    IN  [stale |-> stale, providers |-> InSequence([i \in shown |-> ps[i]], Len(ps))]

\* What a user can see of the providers, forecasts aside.
Visible(s) == IF s = None THEN <<>> ELSE ClearForecasts(s.providers)

\* What the upstream says of a provider, under any alias: the sets of windows
\* reported as current, and whether one of the aliases is reported as stale.
\* The mapping is the property's, not the code's.
EntriesOf(env, id) == {env.providers[raw] : raw \in {raw \in DOMAIN env.providers : Canonical[raw] = id}}
Reported(body) ==
    [id \in Catalog |->
        LET entries == EntriesOf(Envelope(body), id)
        IN  [current |-> {Windows(e.resources) : e \in {e \in entries : ~e.stale}} \ {{}},
             stale   |-> \E e \in entries : e.stale]]

Nothing == [id \in Catalog |-> [current |-> {}, stale |-> FALSE]]

-----------------------------------------------------------------------------
Init ==
    /\ snapshot \in Stored
    /\ outcomes = <<>>
    /\ health = FreshHealth /\ delivery = "other" /\ notifier \in Notifiers
    /\ place = "idle"
    /\ poll = NoPoll
    /\ faults = 0
    /\ basis = Nothing
    /\ runs = <<>>
    /\ boot = 0
    /\ push = "settled"

Begin ==
    /\ place = "idle" /\ poll.at < MaxPolls
    /\ poll' = [NoPoll EXCEPT !.at = poll.at + 1]
    /\ place' = "fetch"
    /\ UNCHANGED <<dataVars, process, faults, history>>

\* Everything is over but the outcome, whether the poll succeeded or not.
Finish(success) ==
    /\ place' = "outcome"
    /\ poll' = [poll EXCEPT !.success = success]

Fault == faults < MaxFaults /\ faults' = faults + 1

LoadSettingsFails ==
    /\ place = "fetch" /\ Fault
    /\ Finish(FALSE)
    /\ UNCHANGED <<dataVars, process, history>>

\* The settings are loaded and the upstream is asked.
Fetch ==
    /\ place = "fetch"
    /\ \E up \in Upstreams :
          \/ Fetched(up) = {} /\ place' = "mark" /\ UNCHANGED poll
          \/ \E body \in Fetched(up) :
                place' = "normalize" /\ poll' = [poll EXCEPT !.body = body]
    /\ UNCHANGED <<dataVars, process, faults, history>>

\* markStale; the time of the snapshot stays.
MarkStale ==
    /\ place = "mark"
    /\ snapshot' = IF snapshot = None \/ snapshot.stale THEN snapshot
                   ELSE [snapshot EXCEPT !.stale = TRUE, !.providers = ClearForecasts(@)]
    /\ basis' = Nothing
    /\ Finish(FALSE)
    /\ UNCHANGED <<outcomes, process, faults, runs, boot, push>>

\* Its read or its write fails.
MarkStaleFails ==
    /\ place = "mark" /\ Fault
    /\ Finish(FALSE)
    /\ UNCHANGED <<dataVars, process, history>>

\* Normalize; a body it does not recognise ends the poll, and the snapshot
\* is not marked stale.
Normalize ==
    /\ place = "normalize"
    /\ IF Envelope(poll.body) = None
       THEN Finish(FALSE)
       ELSE \E ps \in Normalized(Envelope(poll.body)) :
               poll' = [poll EXCEPT !.draft = ps] /\ place' = "preserve"
    /\ UNCHANGED <<dataVars, process, faults, history>>

Preserve ==
    /\ place = "preserve"
    /\ poll' = [poll EXCEPT !.draft = IF snapshot = None THEN @ ELSE Preserved(@, snapshot.providers)]
    /\ place' = "compare"
    /\ UNCHANGED <<dataVars, process, faults, history>>

\* LatestSnapshot fails: the draft is saved without the earlier windows.
PreserveFails ==
    /\ place = "preserve" /\ Fault
    /\ poll' = [poll EXCEPT !.unread = TRUE]
    /\ place' = "compare"
    /\ UNCHANGED <<dataVars, process, history>>

\* Mutant: the snapshot is compared with itself, after it was saved.
CompareWithSaved ==
    /\ place = "compare"
    /\ poll' = [poll EXCEPT !.changed = FALSE]
    /\ place' = "save"
    /\ UNCHANGED <<dataVars, process, faults, history>>

\* snapshotChanged: the stored providers have their forecasts, the new ones
\* do not have theirs yet.
Compare ==
    /\ place = "compare"
    /\ poll' = [poll EXCEPT !.changed = snapshot = None \/ snapshot.providers # poll.draft]
    /\ place' = "save"
    /\ UNCHANGED <<dataVars, process, faults, history>>

CompareFails ==
    /\ place = "compare" /\ Fault
    /\ poll' = [poll EXCEPT !.changed = TRUE]
    /\ place' = "save"
    /\ UNCHANGED <<dataVars, process, history>>

\* SaveSnapshotWithForecasts.
Save ==
    /\ place = "save"
    /\ snapshot' = [at |-> poll.at, stale |-> FALSE, providers |-> Enriched(poll.draft)]
    /\ basis' = Reported(poll.body)
    /\ push' = IF ClearForecasts(Enriched(poll.draft)) # Visible(snapshot) THEN "owed" ELSE push
    /\ place' = "engine"
    /\ UNCHANGED <<outcomes, process, poll, faults, runs, boot>>

SaveFails ==
    /\ place = "save" /\ Fault
    /\ Finish(FALSE)
    /\ UNCHANGED <<dataVars, process, history>>

\* ProcessDetailed, modelled in EventEngine.
Engine ==
    /\ place = "engine"
    /\ place' = "dispatch"
    /\ UNCHANGED <<dataVars, process, poll, faults, history>>

\* A push that is owed will not be sent any more, for a reason.
Lost(reason) == push' = IF push = "owed" THEN reason ELSE push

\* It fails: the poll counts as a success, and there is no dispatch; no push
\* is owed any more.
EngineFails ==
    /\ place = "engine" /\ Fault
    /\ Finish(TRUE)
    /\ Lost("settled")
    /\ UNCHANGED <<dataVars, process, basis, runs, boot>>

\* RecordWidgetDelivery, for changed data only.
RecordWidgetDelivery(end) == delivery' = IF poll.changed THEN end ELSE delivery

\* Mutant: what dispatch returns before the refreshes is not recorded.
DispatchEndsUnrecorded ==
    /\ place = "dispatch"
    /\ \/ notifier = "noop" /\ UNCHANGED faults
       \/ notifier # "noop" /\ Fault
    /\ Lost("dispatch")
    /\ Finish(TRUE)
    /\ UNCHANGED <<dataVars, process, basis, runs, boot>>

\* dispatch returns before the alerts and the refreshes: APNs is not set up,
\* or the devices, the queue, the settings or the snapshot cannot be read.
\* The poll is a success all the same.
DispatchEnds ==
    /\ place = "dispatch"
    /\ \/ notifier = "noop" /\ UNCHANGED faults /\ RecordWidgetDelivery("disabled")
       \/ notifier # "noop" /\ Fault /\ RecordWidgetDelivery("unread")
    /\ Lost("dispatch")
    /\ Finish(TRUE)
    /\ UNCHANGED <<dataVars, health, notifier, basis, runs, boot>>

\* It comes through to the refreshes, which are for changed data only; the
\* alerts are modelled in AlertOutbox, each refresh and its fate in Deliveries.
Dispatch ==
    /\ place = "dispatch" /\ notifier # "noop"
    /\ RecordWidgetDelivery("other")
    /\ push' = IF poll.changed THEN "settled" ELSE push
    /\ Finish(TRUE)
    /\ UNCHANGED <<dataVars, health, notifier, faults, basis, runs, boot>>

Pruned(rows) ==
    IF Len(rows) <= OutcomeLimit THEN rows ELSE SubSeq(rows, Len(rows) - OutcomeLimit + 1, Len(rows))

\* A success carries changed, a failure does not.
Outcome == [at |-> poll.at, success |-> poll.success, changed |-> poll.success /\ poll.changed]

\* SavePollOutcome.
SaveOutcome ==
    /\ place = "outcome"
    /\ outcomes' = Pruned(Append(outcomes, Outcome))
    /\ runs' = Append(runs, [outcome |-> Outcome, saved |-> TRUE, heard |-> FALSE])
    /\ place' = "record"
    /\ UNCHANGED <<snapshot, process, poll, faults, basis, boot, push>>

SaveOutcomeFails ==
    /\ place = "outcome" /\ Fault
    /\ runs' = Append(runs, [outcome |-> Outcome, saved |-> FALSE, heard |-> FALSE])
    /\ place' = "record"
    /\ UNCHANGED <<dataVars, process, poll, basis, boot, push>>

Record ==
    /\ place = "record"
    /\ health' = RecordPollOutcome(health, Outcome)
    /\ runs' = [runs EXCEPT ![Len(runs)] =
                  [outcome |-> Outcome, saved |-> runs[Len(runs)].saved, heard |-> TRUE]]
    /\ place' = "idle"
    /\ poll' = [NoPoll EXCEPT !.at = poll.at]
    /\ UNCHANGED <<dataVars, delivery, notifier, faults, basis, boot, push>>

\* The process is killed and started again, maybe with other settings for
\* APNs; NewAPI reads the outcomes back, and knows nothing of deliveries.
Restart ==
    /\ Fault
    /\ health' = Replayed(outcomes)
    /\ place' = "idle"
    /\ poll' = [NoPoll EXCEPT !.at = poll.at]
    /\ delivery' = "other" /\ notifier' \in Notifiers
    /\ boot' = Len(runs)
    /\ push' = "settled"
    /\ UNCHANGED <<dataVars, basis, runs>>

Next ==
    \/ Begin \/ LoadSettingsFails \/ Fetch \/ MarkStale \/ MarkStaleFails \/ Normalize
    \/ Preserve \/ PreserveFails \/ Compare \/ CompareFails \/ Save \/ SaveFails
    \/ Engine \/ EngineFails \/ Dispatch \/ DispatchEnds \/ SaveOutcome \/ SaveOutcomeFails \/ Record \/ Restart

Spec == Init /\ [][Next]_vars

-----------------------------------------------------------------------------
(* What must hold.                                                         *)

OutcomeRow == [at : 1..MaxPolls, success : BOOLEAN, changed : BOOLEAN]
Run == [outcome : OutcomeRow, saved : BOOLEAN, heard : BOOLEAN]
HealthFields == [lastPoll : 0..MaxPolls, lastSuccess : 0..MaxPolls, lastChanged : 0..MaxPolls, failures : Nat]

IsPoll(p) ==
    /\ p = [at |-> p.at, body |-> p.body, draft |-> p.draft, changed |-> p.changed, unread |-> p.unread,
            success |-> p.success]
    /\ p.at \in 0..MaxPolls /\ {p.changed, p.unread, p.success} \subseteq BOOLEAN
    /\ IsProviders(p.draft)

TypeOK ==
    /\ snapshot # None => IsSnapshot(snapshot)
    /\ outcomes \in Seq(OutcomeRow) /\ Len(outcomes) <= OutcomeLimit
    /\ health \in HealthFields
    /\ place \in Place /\ IsPoll(poll)
    /\ faults \in 0..MaxFaults
    /\ runs \in Seq(Run) /\ boot \in 0..Len(runs)
    /\ delivery \in {"disabled", "unread", "other"} /\ notifier \in Notifiers
    /\ push \in {"settled", "owed", "dispatch"}

\* What GET /v1/snapshot shows as current, for a provider, is what the last
\* report that was saved says of it, and everything that report says is there,
\* once, unless it is hidden, whichever aliases, plugins and errors came with
\* it; when one alias is stale and another one current, either may win.  So a
\* provider that fails within a report never looks current.  When a later fetch
\* fails nothing looks current any more, unless marking the snapshot fails too.
\* A poll that fails in another way (its settings cannot be loaded, the body is
\* no report, the snapshot cannot be saved) does not mark it: the report before
\* goes on looking current until it is older than two intervals, although
\* docs/TECHNICAL_BRIEF.md:113 says that a failed poll does not look current.
Shown(windows) == {[w EXCEPT !.forecast = FALSE] : w \in windows}
CurrentWasReported ==
    snapshot # None /\ snapshot.at > 0 =>
        \A hidden \in Hidden :
            LET served  == Served((poll.at - snapshot.at) * Interval, hidden)
                current == {i \in DOMAIN served.providers :
                               /\ ~served.stale
                               /\ ~served.providers[i].stale /\ ~served.providers[i].error}
                ids     == {served.providers[i].id : i \in current}
            IN  /\ \A i, j \in DOMAIN served.providers : served.providers[i].id = served.providers[j].id => i = j
                /\ \A i \in current : Shown(served.providers[i].windows) \in basis[served.providers[i].id].current
                /\ {id \in Catalog : basis[id].current # {} /\ ~basis[id].stale} \ {Canonical[id] : id \in hidden} \subseteq
                       IF served.stale THEN Catalog ELSE ids
                /\ poll.at - snapshot.at > 2 /\ Interval >= 5 => current = {}

\* The last useful windows of a provider are not replaced by an empty state:
\* not by an error, not by its absence, not by a failed poll.  There are two
\* exceptions: the stored snapshot could not be read for the merge, and the
\* report lists the provider as stale, with no windows and no error.
Emptied(id) == \E i \in DOMAIN poll.draft :
    poll.draft[i].id = id /\ poll.draft[i].stale /\ ~poll.draft[i].error /\ poll.draft[i].windows = {}
UsefulWindowsKept ==
    [][snapshot # None =>
         \A id \in Catalog : HasWindows(snapshot.providers, id) =>
             \/ HasWindows(snapshot'.providers, id)
             \/ poll.unread
             \/ Emptied(id)]_snapshot

\* Health agrees with the polls that have come to an end, over restarts:
\* nothing is forgotten but what could not be saved and what is older than
\* the rows kept, and the status is ok exactly when the last poll succeeded.
SavedAfter(i, n) == {j \in i + 1..n : runs[j].saved}
Remembered ==
    {i \in DOMAIN runs :
        IF i > boot THEN runs[i].heard
        ELSE runs[i].saved /\ Cardinality(SavedAfter(i, boot)) < OutcomeLimit}
Latest(os) == IF os = {} THEN 0 ELSE CHOOSE n \in {o.at : o \in os} : \A o \in os : o.at <= n
Agrees(h, known) ==
    LET good == {o \in known : o.success}
    IN  /\ h.lastPoll = Latest(known)
        /\ h.lastSuccess = Latest(good)
        /\ h.lastChanged = Latest({o \in good : o.changed})
        /\ h.failures = Cardinality({o \in known : o.at > Latest(good)})
        /\ HealthStatus(h) = "ok" <=> good # {} /\ Latest(good) = Latest(known)
HealthTrue == Agrees(health, {runs[i].outcome : i \in Remembered})

\* When a poll saves other data than before, that poll goes through to the
\* refreshes of the widgets, or the push is lost, since no later poll sends it:
\* to an engine that fails, to a kill, or to a dispatch that returns early.
\* The last of these shows in health until changed data is dispatched again,
\* as "APNs disabled" or as what could not be read; the first two do not.
Accounted ==
    \/ push = "settled"
    \/ push = "dispatch" /\ delivery \in {"disabled", "unread"}
PushAccounted == place \in {"outcome", "record", "idle"} => Accounted

-----------------------------------------------------------------------------
(* What makes these invariants inductive.                                  *)

\* The polls that came to an end, in the order they began; the one whose
\* outcome is to be recorded is the last of them.
RunsInOrder ==
    /\ \A i, j \in DOMAIN runs : i < j => runs[i].outcome.at < runs[j].outcome.at
    /\ \A i \in DOMAIN runs : runs[i].outcome.at <= poll.at
    /\ place \notin {"idle", "record"} => \A i \in DOMAIN runs : runs[i].outcome.at < poll.at
    /\ place # "idle" => poll.at > 0
    /\ place = "record" =>
          Len(runs) > boot /\ runs[Len(runs)].outcome = Outcome /\ ~runs[Len(runs)].heard

\* The rows of poll_runs are the latest of the outcomes that were saved.
OutcomesKept ==
    /\ \A m, n \in DOMAIN outcomes : m < n => outcomes[m].at < outcomes[n].at
    /\ \A n \in DOMAIN outcomes : \E i \in DOMAIN runs :
          /\ runs[i].saved /\ outcomes[n] = runs[i].outcome
          /\ Cardinality(SavedAfter(i, Len(runs))) = Len(outcomes) - n
    /\ \A i \in DOMAIN runs :
          runs[i].saved /\ Cardinality(SavedAfter(i, Len(runs))) < OutcomeLimit =>
              \E n \in DOMAIN outcomes : outcomes[n] = runs[i].outcome

\* Other data than before was found to be other data, and the push is ahead;
\* one that is lost is accounted for.
PushOwed ==
    /\ push = "owed" => poll.changed /\ place \in {"engine", "dispatch"}
    /\ push # "owed" => Accounted
    /\ place = "save" /\ ~poll.changed => snapshot # None /\ snapshot.providers = poll.draft

\* Entries of the catalog, each provider once.
Sound(ps) ==
    /\ IsProviders(ps)
    /\ \A i \in DOMAIN ps : ps[i].id \in Catalog
    /\ \A i, j \in DOMAIN ps : ps[i].id = ps[j].id => i = j

\* They show as current what was reported as current, and all that was.
Reflects(ps, said) ==
    /\ Sound(ps)
    /\ \A i \in DOMAIN ps :
          ~ps[i].stale /\ ~ps[i].error => Shown(ps[i].windows) \in said[ps[i].id].current
    /\ \A id \in Catalog : said[id].current # {} /\ ~said[id].stale =>
          \E i \in DOMAIN ps : ps[i].id = id /\ ~ps[i].stale /\ ~ps[i].error

\* The draft is what the body says, and the last useful windows are in it.
DraftTrue ==
    /\ place = "normalize" => IsAnswer(poll.body)
    /\ place \in {"preserve", "compare", "save"} => Reflects(poll.draft, Reported(poll.body))
    /\ place = "preserve" => \A i \in DOMAIN poll.draft : KeepPlanProvider(poll.draft[i])
    /\ place \in {"compare", "save"} /\ snapshot # None /\ ~poll.unread =>
          \A id \in Catalog : HasWindows(snapshot.providers, id) =>
              HasWindows(poll.draft, id) \/ Emptied(id)

SnapshotTrue ==
    snapshot # None /\ snapshot.at > 0 /\ ~snapshot.stale => Reflects(snapshot.providers, basis)

CycleInv ==
    /\ TypeOK
    /\ RunsInOrder /\ OutcomesKept /\ HealthTrue
    /\ PushOwed
    /\ DraftTrue /\ SnapshotTrue
=============================================================================
