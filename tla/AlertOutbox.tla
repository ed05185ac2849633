---------------------------- MODULE AlertOutbox ----------------------------
(***************************************************************************)
(* The durable alert outbox of usagewidgetd: the pending_alerts queue, the *)
(* device registrations it is addressed to, the danger-reminder cadence,   *)
(* and the dispatch loop of the poller that drains it through APNs.        *)
(*                                                                         *)
(* Every SQLite statement or transaction is one step; the HTTP handlers    *)
(* that change registrations interleave with the poller between any two of *)
(* its steps, in particular while an APNs request is in flight.  The       *)
(* process can be killed between any two steps, and any store write of the *)
(* dispatch loop can fail (there is no busy timeout).                      *)
(*                                                                         *)
(* What the event engine decides (which alerts a poll emits, which windows *)
(* are in danger) and what the settings and the snapshot say of a queued   *)
(* alert at dispatch time are inputs here.                                 *)
(***************************************************************************)
EXTENDS Naturals, FiniteSets, Functions

CONSTANTS
    Device,        \* device ids
    Token,         \* APNs device tokens
    NoToken,       \* the empty token
    Keep,          \* a registration request that omits the token
    Event,         \* event keys
    Threshold,     \* early_threshold, danger_threshold and danger_reminder
    Reminder,      \* danger_reminder
    Period,        \* danger periods: window, reset epoch, policy fingerprint
    NoPeriod,
    PeriodOf,      \* the danger period an event belongs to
    MaxDevices,    \* registration limit
    BatchSize,     \* pendingAlertBatchSize
    MaxCalls       \* bound: registration requests in a behaviour

ASSUME OutboxAssumption ==
    /\ IsFiniteSet(Device) /\ IsFiniteSet(Event)
    /\ NoToken \notin Token
    /\ Keep \notin Token \cup {NoToken}
    /\ NoPeriod \notin Period
    /\ PeriodOf \in [Event -> Period \cup {NoPeriod}]
    /\ Reminder \subseteq Threshold
    /\ Threshold \subseteq Event
    /\ \A e \in Event : PeriodOf[e] # NoPeriod => e \in Threshold
    /\ \A e \in Reminder : PeriodOf[e] # NoPeriod
    /\ MaxDevices \in Nat
    /\ BatchSize \in Nat \ {0}
    /\ MaxCalls \in Nat

VARIABLES
    calls,        \* registration requests so far; source of fresh generations
    generation,   \* devices.registration_generation, 0 for "no row"
    apnsToken,    \* devices.apns_token
    pending,      \* rows of pending_alerts
    before,       \* the rowid order on them
    cadence,      \* alert_delivery_state
    aged,         \* rows whose created_at is past the retention
    lapsed,       \* threshold events whose reset time has passed
    pc,           \* where the poll goroutine is
    batch,        \* rows of this dispatch not yet looked at
    deferred,     \* deferredAlerts
    cur,          \* the row in flight
    seenToken,    \* pendingAlert.Token, as read with the batch
    seenGen       \* pendingAlert.RegistrationGeneration, as read with it

\* APNs, and what really happened: no line of the code reads these.
VARIABLES
    deadTokens,   \* tokens APNs answers with a terminal error
    accepted,     \* <<row, token>>: APNs took this still queued row
    delivered,    \* <<device, period>> APNs took an alert of, this registration
    excused       \* rows that may be sent again: a fault or a rotation

store    == <<generation, apnsToken, pending, before, cadence>>
memory   == <<pc, batch, deferred, cur, seenToken, seenGen>>
clock    == <<aged, lapsed>>
history  == <<accepted, delivered, excused>>
vars     == <<calls, store, memory, clock, deadTokens, history>>

Row         == Event \X Device
EventOf(r)  == r[1]
DeviceOf(r) == r[2]
NoRow       == <<>>

Registered   == {d \in Device : generation[d] # 0}
Reachable    == {d \in Device : apnsToken[d] # NoToken}
RowsOf(d)    == {r \in pending : DeviceOf(r) = d}
Overdue      == {r \in pending : r \in aged \/ EventOf(r) \in lapsed}

-----------------------------------------------------------------------------
(* The rowid order as a relation: rows leave it, join it at the back in    *)
(* the order they are inserted, or are moved to the back.                  *)

Without(R, gone) == {p \in R : p[1] \notin gone /\ p[2] \notin gone}

Appended(R, S, new, rank) ==
    R \cup (S \X new) \cup {p \in new \X new : rank[p[1]] < rank[p[2]]}

\* Mutant: a deferral that does nothing.
MovedBackNot(R, S, back) == R

MovedBack(R, S, back) ==
    {p \in R : p[1] \in back <=> p[2] \in back} \cup ((S \ back) \X back)

\* DELETE FROM pending_alerts: the rows leave the table, and with them what
\* is known about each.
Remove(gone) ==
    /\ pending' = pending \ gone
    /\ before' = Without(before, gone)
    /\ aged' = aged \ gone
    /\ accepted' = {a \in accepted : a[1] \notin gone}
    /\ excused' = excused \ gone

Forgotten ==
    /\ batch' = {}
    /\ deferred' = {}
    /\ cur' = NoRow
    /\ seenToken' = [d \in Device |-> NoToken]
    /\ seenGen' = [d \in Device |-> 0]

Init ==
    /\ calls = 0
    /\ generation = [d \in Device |-> 0]
    /\ apnsToken = [d \in Device |-> NoToken]
    /\ pending = {} /\ before = {}
    /\ cadence = [x \in Device \X Period |-> "never"]
    /\ aged = {} /\ lapsed = {}
    /\ pc = "idle" /\ batch = {} /\ deferred = {} /\ cur = NoRow
    /\ seenToken = [d \in Device |-> NoToken]
    /\ seenGen = [d \in Device |-> 0]
    /\ deadTokens = {}
    /\ accepted = {} /\ delivered = {} /\ excused = {}

-----------------------------------------------------------------------------
(* The HTTP handlers.                                                      *)

\* POST /v1/devices.  A new device gets a fresh generation; an update keeps
\* it.  Keep leaves the token alone, NoToken clears it.
Upsert(d, req) ==
    /\ calls < MaxCalls
    /\ d \in Registered \/ Cardinality(Registered) < MaxDevices
    /\ calls' = calls + 1
    /\ generation' = [generation EXCEPT ![d] = IF @ = 0 THEN calls + 1 ELSE @]
    /\ apnsToken' = [apnsToken EXCEPT ![d] = IF req = Keep THEN @ ELSE req]
    /\ UNCHANGED <<pending, before, cadence, memory, clock, deadTokens, history>>

\* Mutant: the cadence outlives the device.
DeleteDeviceKeepsCadence(d) ==
    /\ d \in Registered
    /\ generation' = [generation EXCEPT ![d] = 0]
    /\ apnsToken' = [apnsToken EXCEPT ![d] = NoToken]
    /\ Remove(RowsOf(d))
    /\ delivered' = {x \in delivered : x[1] # d}
    /\ UNCHANGED <<calls, memory, cadence, lapsed, deadTokens>>

\* DELETE /v1/devices/{deviceID}: one transaction over every table that
\* mentions the device.
DeleteDevice(d) ==
    /\ d \in Registered
    /\ generation' = [generation EXCEPT ![d] = 0]
    /\ apnsToken' = [apnsToken EXCEPT ![d] = NoToken]
    /\ Remove(RowsOf(d))
    /\ cadence' = [x \in Device \X Period |->
                     IF x[1] = d THEN "never" ELSE cadence[x]]
    /\ delivered' = {x \in delivered : x[1] # d}
    /\ UNCHANGED <<calls, memory, lapsed, deadTokens>>

Api == \E d \in Device : DeleteDevice(d) \/ \E req \in Token \cup {NoToken, Keep} : Upsert(d, req)

-----------------------------------------------------------------------------
(* Time and APNs.                                                          *)

\* A row reaches the 24 hour retention.
Age ==
    /\ \E r \in pending \ aged : aged' = aged \cup {r}
    /\ UNCHANGED <<calls, store, memory, lapsed, deadTokens, history>>

\* The reset time carried by a threshold alert passes; all the alerts of a
\* danger period carry the same one.
Lapse ==
    /\ \E e \in Threshold \ lapsed :
         lapsed' = lapsed \cup {e} \cup
            {f \in Threshold : PeriodOf[f] = PeriodOf[e] /\ PeriodOf[e] # NoPeriod}
    /\ UNCHANGED <<calls, store, memory, aged, deadTokens, history>>

\* The repeat interval since the last delivery of a period runs out.
IntervalElapses ==
    /\ \E x \in Device \X Period :
         cadence[x] = "recent" /\ cadence' = [cadence EXCEPT ![x] = "elapsed"]
    /\ UNCHANGED <<calls, generation, apnsToken, pending, before, memory, clock,
                   deadTokens, history>>

\* The app is removed from a phone, or its token is replaced.
TokenDies ==
    /\ \E t \in Token \ deadTokens : deadTokens' = deadTokens \cup {t}
    /\ UNCHANGED <<calls, store, memory, clock, history>>

World == Age \/ Lapse \/ IntervalElapses \/ TokenDies

-----------------------------------------------------------------------------
(* EventEngine.ProcessDetailed: the transaction that expires old and       *)
(* obsolete alerts and queues the new ones.  A poll that fails before its  *)
(* commit leaves the outbox as it was and dispatches nothing.              *)

\* Mutant: a queued reminder does not count.
DangerDeliveryDueIgnoresQueue(d, p, rows) == cadence[<<d, p>>] # "recent"

\* DangerDeliveryDue, over the rows left after expiry.
DangerDeliveryDue(d, p, rows) ==
    /\ \A r \in rows : ~(DeviceOf(r) = d /\ PeriodOf[EventOf(r)] = p)
    /\ cadence[<<d, p>>] # "recent"

\* A poll emits at most one alert of a danger period.  The key of a threshold
\* is claimed for good and that of a reminder carries the time of the poll, so
\* neither is the key of a queued row; the key of credits may be, or of a row
\* that this poll has just expired.
Emittable(emit) ==
    /\ \A e, f \in emit : e # f /\ PeriodOf[e] = PeriodOf[f] => PeriodOf[e] = NoPeriod
    /\ \A r \in pending : EventOf(r) \in emit => EventOf(r) \notin Threshold

\* The recipients of an event: every device with a token, or the devices a
\* reminder is due for.
EnqueueTargets(e, rows) ==
    {d \in Reachable : e \in Reminder => DangerDeliveryDue(d, PeriodOf[e], rows)}

ProcessDetailed(emit, obsolete) ==
    LET gone == Overdue \cup {r \in pending : EventOf(r) \in obsolete}
        left == pending \ gone
        new  == {r \in Row : EventOf(r) \in emit
                              /\ DeviceOf(r) \in EnqueueTargets(EventOf(r), left)} \ left
    IN  /\ pc = "idle" /\ pc' = "loading"
        /\ Emittable(emit)
        /\ pending' = left \cup new
        /\ \E rank \in Injection(new, 1 .. Cardinality(new)) :
             before' = Appended(Without(before, gone), left, new, rank)
        /\ aged' = aged \ gone
        /\ accepted' = {a \in accepted : a[1] \notin gone}
        /\ excused' = excused \ gone
        /\ UNCHANGED <<calls, generation, apnsToken, cadence, lapsed, batch, deferred,
                       cur, seenToken, seenGen, deadTokens, delivered>>

Process == \E emit \in SUBSET Event, obsolete \in SUBSET Threshold :
             emit \cap obsolete = {} /\ ProcessDetailed(emit, obsolete)

-----------------------------------------------------------------------------
(* Poller.dispatch.                                                        *)

Deliverable == {r \in pending \ Overdue : DeviceOf(r) \in Reachable}

\* pendingAlerts: expire, then the oldest BatchSize rows whose device has a
\* token, each with the token and generation of its device.
PendingAlerts ==
    /\ pc = "loading"
    /\ Remove(Overdue)
    /\ batch' = {r \in Deliverable :
                   Cardinality({q \in Deliverable : <<q, r>> \in before}) < BatchSize}
    /\ seenToken' = apnsToken
    /\ seenGen' = generation
    /\ pc' = "dispatch"
    /\ UNCHANGED <<calls, generation, apnsToken, cadence, lapsed, deferred, cur,
                   deadTokens, delivered>>

\* APNs is disabled, or a read that dispatch starts with fails.
SkipDispatch ==
    /\ pc = "loading"
    /\ pc' = "idle"
    /\ UNCHANGED <<calls, store, batch, deferred, cur, seenToken, seenGen, clock,
                   deadTokens, history>>

First(r) == r \in batch /\ \A q \in batch : <<q, r>> \notin before

\* The settings or the snapshot rule the alert out: acknowledgeAlert.
Discard(r) ==
    /\ pc = "dispatch" /\ First(r)
    /\ batch' = batch \ {r}
    /\ Remove({r})
    /\ UNCHANGED <<calls, generation, apnsToken, cadence, pc, deferred, cur, seenToken,
                   seenGen, lapsed, deadTokens, delivered>>

\* acknowledgeAlert fails: the row stays where it is, ahead of the others.
DiscardFails(r) ==
    /\ pc = "dispatch" /\ First(r)
    /\ batch' = batch \ {r}
    /\ UNCHANGED <<calls, store, pc, deferred, cur, seenToken, seenGen, clock,
                   deadTokens, history>>

\* The provider is stale, failing or absent: the snapshot cannot tell.
Postpone(r) ==
    /\ pc = "dispatch" /\ First(r)
    /\ EventOf(r) \notin lapsed
    /\ batch' = batch \ {r}
    /\ deferred' = deferred \cup {r}
    /\ UNCHANGED <<calls, store, pc, cur, seenToken, seenGen, clock, deadTokens, history>>

SendAlert(r) ==
    /\ pc = "dispatch" /\ First(r)
    /\ EventOf(r) \notin lapsed
    /\ batch' = batch \ {r}
    /\ cur' = r
    /\ pc' = "sending"
    /\ UNCHANGED <<calls, store, deferred, seenToken, seenGen, clock, deadTokens, history>>

Heed(r)  == Discard(r) \/ Postpone(r) \/ SendAlert(r)
Consider == \E r \in batch : Heed(r)

-----------------------------------------------------------------------------
(* The answers to a request in flight.                                     *)

SentTo == seenToken[DeviceOf(cur)]

\* What APNs taking the alert means to its recipient.
Taken ==
    /\ SentTo \notin deadTokens
    /\ accepted' = accepted \cup (({cur} \cap pending) \X {SentTo})
    /\ delivered' = delivered \cup
         {x \in {DeviceOf(cur)} \X Period :
            x[2] = PeriodOf[EventOf(cur)] /\ generation[x[1]] = seenGen[x[1]]}

Accept ==
    /\ pc = "sending"
    /\ Taken
    /\ pc' = "accepted"
    /\ UNCHANGED <<calls, store, batch, deferred, cur, seenToken, seenGen, clock,
                   deadTokens, excused>>

\* APNs takes the alert but the answer is lost to a timeout or a broken
\* connection: SendAlert returns an error.
AcceptUnheard ==
    /\ pc = "sending"
    /\ Taken
    /\ excused' = excused \cup ({cur} \cap pending)
    /\ pc' = "dispatch"
    /\ deferred' = deferred \cup {cur}
    /\ cur' = NoRow
    /\ UNCHANGED <<calls, store, batch, seenToken, seenGen, clock, deadTokens>>

SendFails ==
    /\ pc = "sending"
    /\ pc' = "dispatch"
    /\ deferred' = deferred \cup {cur}
    /\ cur' = NoRow
    /\ UNCHANGED <<calls, store, batch, seenToken, seenGen, clock, deadTokens, history>>

\* APNSError.TerminalDeviceToken
Terminal ==
    /\ pc = "sending"
    /\ SentTo \in deadTokens
    /\ pc' = "terminal"
    /\ UNCHANGED <<calls, store, batch, deferred, cur, seenToken, seenGen, clock,
                   deadTokens, history>>

Answer == Accept \/ AcceptUnheard \/ SendFails \/ Terminal

-----------------------------------------------------------------------------
(* completeAlert and rejectAlert.                                          *)

\* Mutant: the token of the answer is not compared with the current one.
SameRegistrationAnyToken ==
    LET d == DeviceOf(cur) IN d \in Registered /\ generation[d] = seenGen[d]

\* The registration the batch was read with is still the current one.
SameRegistration ==
    LET d == DeviceOf(cur)
    IN  d \in Registered /\ apnsToken[d] = seenToken[d] /\ generation[d] = seenGen[d]

Acknowledged ==
    LET x == <<DeviceOf(cur), PeriodOf[EventOf(cur)]>>
    IN  /\ Remove({cur})
        /\ cadence' = IF x[2] = NoPeriod THEN cadence
                                         ELSE [cadence EXCEPT ![x] = "recent"]

\* Mutant: the cadence is recorded whether or not a row was deleted.
CompleteAlertAnyway ==
    LET x == <<DeviceOf(cur), PeriodOf[EventOf(cur)]>>
    IN  /\ pc = "accepted"
        /\ IF SameRegistration THEN Remove({cur})
                               ELSE UNCHANGED <<pending, before, aged, accepted, excused>>
        /\ cadence' = IF x[1] \in Registered /\ x[2] # NoPeriod
                      THEN [cadence EXCEPT ![x] = "recent"] ELSE cadence
        /\ pc' = "dispatch"
        /\ cur' = NoRow
        /\ UNCHANGED <<calls, generation, apnsToken, batch, deferred, seenToken, seenGen,
                       lapsed, deadTokens, delivered>>

\* Mutant: the row is deleted only if it has no cadence to record.
CompleteAlertForgets ==
    /\ pc = "accepted"
    /\ IF PeriodOf[EventOf(cur)] = NoPeriod
       THEN Remove({cur})
       ELSE UNCHANGED <<pending, before, aged, accepted, excused>>
    /\ pc' = "dispatch"
    /\ cur' = NoRow
    /\ UNCHANGED <<calls, generation, apnsToken, cadence, batch, deferred, seenToken,
                   seenGen, lapsed, deadTokens, delivered>>

CompleteAlert ==
    /\ pc = "accepted"
    /\ IF cur \in pending /\ SameRegistration
       THEN Acknowledged
       ELSE /\ excused' = excused \cup ({cur} \cap pending)
            /\ UNCHANGED <<pending, before, aged, accepted, cadence>>
    /\ pc' = "dispatch"
    /\ cur' = NoRow
    /\ UNCHANGED <<calls, generation, apnsToken, batch, deferred, seenToken, seenGen,
                   lapsed, deadTokens, delivered>>

CompleteFails ==
    /\ pc = "accepted"
    /\ excused' = excused \cup ({cur} \cap pending)
    /\ pc' = "dispatch"
    /\ cur' = NoRow
    /\ UNCHANGED <<calls, store, batch, deferred, seenToken, seenGen, clock, deadTokens,
                   accepted, delivered>>

\* Mutant: whatever token the device has is cleared.
RejectAlertAnyToken ==
    LET d == DeviceOf(cur)
    IN  /\ pc = "terminal"
        /\ apnsToken' = [apnsToken EXCEPT ![d] = NoToken]
        /\ Remove(RowsOf(d))
        /\ pc' = "dispatch"
        /\ deferred' = deferred \cup {cur}
        /\ cur' = NoRow
        /\ UNCHANGED <<calls, generation, cadence, batch, seenToken, seenGen, lapsed,
                       deadTokens, delivered>>

\* UPDATE devices SET apns_token = '' WHERE device_id = ? AND apns_token = ?,
\* and the queue of the device with it.
RejectAlert ==
    LET d == DeviceOf(cur)
    IN  /\ pc = "terminal"
        /\ IF apnsToken[d] = SentTo
           THEN apnsToken' = [apnsToken EXCEPT ![d] = NoToken] /\ Remove(RowsOf(d))
           ELSE UNCHANGED <<apnsToken, pending, before, aged, accepted, excused>>
        /\ pc' = "dispatch"
        /\ deferred' = deferred \cup {cur}
        /\ cur' = NoRow
        /\ UNCHANGED <<calls, generation, cadence, batch, seenToken, seenGen, lapsed,
                       deadTokens, delivered>>

RejectFails ==
    /\ pc = "terminal"
    /\ pc' = "dispatch"
    /\ deferred' = deferred \cup {cur}
    /\ cur' = NoRow
    /\ UNCHANGED <<calls, store, batch, seenToken, seenGen, clock, deadTokens, history>>

Settle == CompleteAlert \/ RejectAlert

-----------------------------------------------------------------------------
(* The end of a dispatch, and of the process.                              *)

\* Mutant: what a dispatch leaves of its batch is moved back too.
DeferAlertsWholeBatch ==
    /\ pc = "dispatch"
    /\ before' = MovedBack(before, pending, (deferred \cup batch) \cap pending)
    /\ pc' = "idle"
    /\ Forgotten
    /\ UNCHANGED <<calls, generation, apnsToken, pending, cadence, clock, deadTokens, history>>

\* The loop is through the batch, or its deadline has passed.
DeferAlerts ==
    /\ pc = "dispatch"
    /\ before' = MovedBack(before, pending, deferred \cap pending)
    /\ pc' = "idle"
    /\ Forgotten
    /\ UNCHANGED <<calls, generation, apnsToken, pending, cadence, clock, deadTokens, history>>

DeferFails ==
    /\ pc = "dispatch"
    /\ pc' = "idle"
    /\ Forgotten
    /\ UNCHANGED <<calls, store, clock, deadTokens, history>>

\* The poll goroutine is detached: a signal ends the process around it.
Crash ==
    /\ pc # "idle"
    /\ pc' = "idle"
    /\ Forgotten
    /\ excused' = IF pc = "accepted" THEN excused \cup ({cur} \cap pending) ELSE excused
    /\ UNCHANGED <<calls, store, clock, deadTokens, accepted, delivered>>

Poller == Process \/ PendingAlerts \/ Consider \/ Answer \/ Settle \/ DeferAlerts

\* What is left undone: a skipped dispatch, a failed transaction, a kill.
Fault == \/ SkipDispatch \/ CompleteFails \/ RejectFails \/ DeferFails \/ Crash
         \/ \E r \in batch : DiscardFails(r)

Next == Api \/ World \/ Poller \/ Fault

Spec == Init /\ [][Next]_vars

-----------------------------------------------------------------------------
(* Fairness, for the liveness property only.  The poll loop runs until the *)
(* process is stopped and every request has a deadline, so its steps are   *)
(* weakly fair.  Kills and failing transactions are taken to stop.  The    *)
(* deadline may go on cutting dispatches short, but not for ever before    *)
(* the alert whose turn it is: that much is asked of a dispatch, hence the *)
(* strong fairness.                                                        *)

Fairness ==
    /\ <>[][Fault => Api \/ World \/ Poller]_vars
    /\ WF_vars(Poller)
    /\ \A r \in Row : SF_vars(Heed(r))

-----------------------------------------------------------------------------
(* Properties.                                                             *)

StoreOK ==
    /\ calls \in 0 .. MaxCalls
    /\ generation \in [Device -> 0 .. MaxCalls]
    /\ apnsToken \in [Device -> Token \cup {NoToken}]
    /\ pending \subseteq Row
    /\ before \subseteq pending \X pending
    /\ cadence \in [Device \X Period -> {"never", "recent", "elapsed"}]

MemoryOK ==
    /\ pc \in {"idle", "loading", "dispatch", "sending", "accepted", "terminal"}
    /\ batch \subseteq Row
    /\ deferred \subseteq Row
    /\ cur \in Row \cup {NoRow}
    /\ pc \in {"sending", "accepted", "terminal"} => cur \in Row
    /\ seenToken \in [Device -> Token \cup {NoToken}]
    /\ seenGen \in [Device -> 0 .. MaxCalls]

WorldOK ==
    /\ aged \subseteq pending
    /\ lapsed \subseteq Threshold
    /\ deadTokens \subseteq Token
    /\ accepted \subseteq pending \X (Token \cup {NoToken})
    /\ delivered \subseteq Device \X Period
    /\ excused \subseteq pending

\* Types, and the shape of the dispatcher's memory in each of its states.
\* What is noted of a row (its age, its answers) goes with the row.
TypeOK == StoreOK /\ MemoryOK /\ WorldOK

\* Nothing is queued for, and no cadence is kept of, a device that is not
\* registered: a delivery that outlives DELETE /v1/devices must not write a
\* row back that a later registration under the same id would inherit
\* (DeleteDevice, completeAlert, RecordDangerDelivery).
NoOrphans ==
    /\ \A r \in pending : DeviceOf(r) \in Registered
    /\ \A d \in Device, p \in Period : cadence[<<d, p>>] # "never" => d \in Registered
    /\ \A d \in Reachable : d \in Registered

\* The cadence row of a danger period says the truth about this very
\* registration: APNs took an alert of that period for it.  Otherwise a
\* re-registered phone would stay silent for a whole repeat interval.
CadenceTruthful ==
    \A d \in Device, p \in Period :
        cadence[<<d, p>>] # "never" => <<d, p>> \in delivered

\* Failing deliveries do not pile reminders up: at most one reminder of a
\* danger period is queued for a device at any time (DangerDeliveryDue).
OneReminderPerPeriod ==
    \A r, s \in pending :
        /\ DeviceOf(r) = DeviceOf(s)
        /\ {EventOf(r), EventOf(s)} \subseteq Reminder
        /\ PeriodOf[EventOf(r)] = PeriodOf[EventOf(s)]
        => r = s

\* A row APNs has taken stays queued, to be sent once more, only after a
\* fault (a lost answer, a failed commit, a kill) or because the
\* registration changed while the request was in flight.
DuplicatesExplained ==
    \A a \in accepted : a[1] \in excused \/ (pc = "accepted" /\ cur = a[1])

\* What the other properties rest on while a request is in flight: fresh
\* generations are larger than any seen, the answer is about the token it was
\* sent to, and a positive answer is on record for the registration it is for.
InFlight ==
    /\ \A d \in Device : generation[d] <= calls /\ seenGen[d] <= calls
    /\ pc = "terminal" => SentTo \in deadTokens
    /\ pc = "accepted" /\ cur \in pending => <<cur, SentTo>> \in accepted
    /\ pc = "accepted" =>
         LET x == <<DeviceOf(cur), PeriodOf[EventOf(cur)]>>
         IN  /\ x[1] \in Registered /\ generation[x[1]] = seenGen[x[1]]
             /\ x[2] \in Period
             => x \in delivered

\* Expired, or ruled out by the engine or by the dispatcher's validation.
RuledOut(r) ==
    \/ r \in Overdue
    \/ pc = "idle" /\ EventOf(r) \in Threshold
    \/ pc = "dispatch" /\ First(r)

\* An alert leaves the queue only for a reason its recipient would accept:
\* it was ruled out, its device was deleted, APNs took it at the token the
\* device still has, or that token is dead.  In particular an answer about
\* a replaced token loses nothing (completeAlert, rejectAlert).
LossJustifiedStep ==
    \A r \in pending \ pending' :
        LET d == DeviceOf(r)
        IN  \/ RuledOut(r)
            \/ generation[d] # 0 /\ generation'[d] = 0
            \/ <<r, apnsToken[d]>> \in accepted
            \/ apnsToken[d] \in deadTokens /\ apnsToken'[d] = NoToken
LossJustified == [][LossJustifiedStep]_vars

\* The poller never unregisters a live token: whatever the app registers
\* while an old token is being refused survives the refusal (rejectAlert).
LiveTokenKeptStep ==
    pc # pc' => \A d \in Device : apnsToken'[d] # apnsToken[d] => apnsToken[d] \in deadTokens
LiveTokenKept == [][LiveTokenKeptStep]_vars

\* No starvation: an alert whose device has a token does not wait forever
\* behind failing deliveries or behind more rows than a batch holds; it is
\* looked at, or it leaves, at the latest when its time is over: the same key
\* may then be queued anew (pendingAlerts, deferAlerts).
Waiting(r)   == r \in pending /\ DeviceOf(r) \in Reachable
LookedAt(r)  == cur = r \/ r \in deferred
NoStarvation == \A r \in Row : Waiting(r) ~> (LookedAt(r) \/ ~Waiting(r) \/ r \in Overdue)
=============================================================================
