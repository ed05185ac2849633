---------------------------- MODULE Deliveries -----------------------------
(***************************************************************************)
(* Pushes outside of the alert queue: the widget refreshes at the end of a *)
(* dispatch and the readiness tests that users ask for, over one APNs      *)
(* client with a cached provider token.  The phones register, rotate their *)
(* tokens and leave at any time; APNs may stop accepting a device token or *)
(* a provider token at any time; a request may get no answer.              *)
(***************************************************************************)
EXTENDS Integers, Sequences, FiniteSets

CONSTANTS
    None,       \* no device, no token, no push
    Device,
    Token,      \* widget tokens; of alert tokens only the presence matters
    Tester,     \* requests to POST /v1/readiness/{deviceID}/test
    Poller,     \* the sender that is not a tester
    Budget,     \* widgetDeliveryBudget
    Starts,     \* tables of devices to start from
    MaxLeft,    \* bound on the time a dispatch may have left
    MaxChanges, \* bound on the changes of registrations
    MaxTokens,  \* bound on the provider tokens built
    MaxFaults   \* bound on failing statements, lost requests and kills

Sender == Tester \cup {Poller}

\* A row of devices, a push, a list of refreshes, and a readiness test.
DeviceRow == [alert : BOOLEAN, widget : Token \cup {None}]
PushState == [to : Token \cup {None}, at : {"sent", "invalidate", "again"},
              first : Nat \cup {None}, token : Nat]
BatchState == [todo : Seq([device : Device, token : Token]), all : Nat, left : Nat, start : Nat,
               share : Nat, at : {"alerts", "widgets"}]
TestState == [device : Device, todo : Seq(Token \cup {None})]

ASSUME DeliveryAssumption ==
    /\ Poller \notin Tester
    /\ IsFiniteSet(Device)
    /\ None \notin Nat \cup Token \cup DeviceRow \cup PushState \cup BatchState \cup TestState
    /\ Starts \subseteq [Device -> DeviceRow \cup {None}]
    /\ Budget \in Nat \ {0} /\ MaxLeft \in Nat /\ MaxLeft >= Budget
    /\ {MaxChanges, MaxTokens, MaxFaults} \subseteq Nat

VARIABLES
    devices,    \* the table devices: [alert, widget], or None
    generation, \* devices.registration_generation, 0 for no row
    results,    \* device_test_results: the registration that was there when the
                \* row was saved, or None
    provider,   \* the cached provider token, or None
    built,      \* provider tokens built so far
    push,       \* the push of each sender, or None
    batch,      \* the widget refreshes of the dispatch, or None
    test,       \* the test of each tester, or None
    dead,       \* device tokens APNs does not know any more
    refused,    \* provider tokens APNs does not accept any more
    changes, faults

tables == <<devices, generation, results>>
apns == <<dead, refused>>
vars == <<tables, provider, built, push, batch, test, apns, changes, faults>>

Init ==
    /\ devices \in Starts
    /\ generation = [d \in Device |-> IF devices[d] = None THEN 0 ELSE 1]
    /\ results = [d \in Device |-> None]
    /\ provider = None
    /\ built = 0
    /\ push = [s \in Sender |-> None]
    /\ batch = None
    /\ test = [h \in Tester |-> None]
    /\ dead = {}
    /\ refused = {}
    /\ changes = 0
    /\ faults = 0

Fault == faults < MaxFaults /\ faults' = faults + 1

-----------------------------------------------------------------------------
(* The phones, and APNs.                                                   *)

\* A phone registers, under a new generation, or sends another widget token;
\* none clears the old one.
PostDevice(d, token) ==
    /\ changes < MaxChanges
    /\ devices[d] # None => token # devices[d].widget
    /\ changes' = changes + 1
    /\ devices' = [devices EXCEPT ![d] =
          IF @ = None THEN [alert |-> TRUE, widget |-> token]
          ELSE [@ EXCEPT !.widget = token]]
    /\ generation' = [generation EXCEPT ![d] = IF @ = 0 THEN 1 + changes' ELSE @]
    /\ UNCHANGED <<results, provider, built, push, batch, test, apns, faults>>

\* Mutant: the test result stays when its device leaves.
DeleteDeviceKeepsResult(d) ==
    /\ changes < MaxChanges /\ devices[d] # None
    /\ changes' = changes + 1
    /\ devices' = [devices EXCEPT ![d] = None]
    /\ generation' = [generation EXCEPT ![d] = 0]
    /\ UNCHANGED <<results, provider, built, push, batch, test, apns, faults>>

\* DeleteDevice: its test result goes with it, in one transaction.
DeleteDevice(d) ==
    /\ changes < MaxChanges /\ devices[d] # None
    /\ changes' = changes + 1
    /\ devices' = [devices EXCEPT ![d] = None]
    /\ generation' = [generation EXCEPT ![d] = 0]
    /\ results' = [results EXCEPT ![d] = None]
    /\ UNCHANGED <<provider, built, push, batch, test, apns, faults>>

Phones == \E d \in Device : DeleteDevice(d) \/ \E token \in Token \cup {None} : PostDevice(d, token)

TokenDies ==
    /\ \E token \in Token \ dead : dead' = dead \cup {token}
    /\ UNCHANGED <<tables, provider, built, push, batch, test, refused, changes, faults>>

\* APNs refuses the tokens built so far: they are too old, or the key changed.
ProviderTokenRefused ==
    /\ built > 0 /\ built < MaxTokens /\ refused # 1..built
    /\ refused' = 1..built
    /\ UNCHANGED <<tables, provider, built, push, batch, test, dead, changes, faults>>

-----------------------------------------------------------------------------
(* apnsClient.push: at most two requests, with a new provider token for    *)
(* the second one.                                                         *)

\* providerToken, under its mutex: the cached one unless it is 40 minutes old.
Obtain ==
    \/ provider # None /\ UNCHANGED <<provider, built>>
    \/ built < MaxTokens /\ built' = built + 1 /\ provider' = built'

\* A push to a widget token, or to an alert token (None), which APNs knows.
StartPush(s, to) ==
    /\ push[s] = None
    /\ Obtain
    /\ push' = [push EXCEPT ![s] = [to |-> to, at |-> "sent", first |-> None, token |-> provider']]

\* APNs refuses the provider token of the first request.
Refused(s) ==
    /\ push[s] # None /\ push[s].at = "sent" /\ push[s].first = None
    /\ push[s].token \in refused
    /\ push' = [push EXCEPT ![s].at = "invalidate", ![s].first = push[s].token]
    /\ UNCHANGED <<tables, provider, built, batch, test, apns, changes, faults>>

\* Mutant: the cached token stays, to be used until it is 40 minutes old.
InvalidateNothing(s) ==
    /\ push[s] # None /\ push[s].at = "invalidate"
    /\ push' = [push EXCEPT ![s].at = "again"]
    /\ UNCHANGED <<tables, provider, built, batch, test, apns, changes, faults>>

\* invalidateProviderToken: whichever token is cached by now is dropped.
Invalidate(s) ==
    /\ push[s] # None /\ push[s].at = "invalidate"
    /\ provider' = None
    /\ push' = [push EXCEPT ![s].at = "again"]
    /\ UNCHANGED <<tables, built, batch, test, apns, changes, faults>>

SendAgain(s) ==
    /\ push[s] # None /\ push[s].at = "again"
    /\ Obtain
    /\ push' = [push EXCEPT ![s].at = "sent", ![s].token = provider']
    /\ UNCHANGED <<tables, batch, test, apns, changes, faults>>

Push(s) == Refused(s) \/ Invalidate(s) \/ SendAgain(s)

\* A push ends with the answer of APNs, or without one.
EndPush(s, answer) ==
    /\ push[s] # None /\ push[s].at = "sent"
    /\ CASE answer = "lost"                 -> TRUE
         [] answer = "InvalidProviderToken" -> push[s].token \in refused /\ push[s].first # None
         [] answer = "Unregistered"         -> push[s].token \notin refused /\ push[s].to \in dead
         [] answer = "ok"                   -> push[s].token \notin refused /\ push[s].to \notin dead
    /\ push' = [push EXCEPT ![s] = None]

-----------------------------------------------------------------------------
(* The widget refreshes of a dispatch for a changed snapshot.              *)

\* The devices with a widget token, in any order, as ListDevices reads them.
Listed ==
    LET with == {d \in Device : devices[d] # None /\ devices[d].widget # None}
        rows == {s \in [1..Cardinality(with) -> with] : \A i, j \in DOMAIN s : s[i] = s[j] => i = j}
    IN  {[i \in DOMAIN s |-> [device |-> s[i], token |-> devices[s[i]].widget]] : s \in rows}

\* dispatch begins: it reads the devices first, and keeps Budget of its time
\* for them, however long the alerts take.
BeginDispatch ==
    /\ batch = None
    /\ \E list \in Listed, left \in {Budget \div 2, MaxLeft} :
          batch' = [todo |-> list, all |-> Len(list), left |-> left, start |-> left,
                    share |-> 0, at |-> "alerts"]
    /\ UNCHANGED <<tables, provider, built, push, test, apns, changes, faults>>

AtMost(a, b) == IF a < b THEN a ELSE b

\* The alerts are over, by their deadline at the latest; the widgets get what
\* is left, and no more than Budget.
AlertsEnd ==
    /\ batch # None /\ batch.at = "alerts"
    /\ \E t \in 0..(IF batch.left > Budget THEN batch.left - Budget ELSE 0) :
          batch' = [batch EXCEPT !.at = "widgets", !.left = AtMost(@ - t, Budget)]
    /\ UNCHANGED <<tables, provider, built, push, test, apns, changes, faults>>

\* Mutant: every device may use all the time that is left.
ShareAll == batch.left

\* The time of the next device: what is left, by the devices that are left.
Share == batch.left \div Len(batch.todo)

Refresh ==
    /\ batch # None /\ batch.at = "widgets"
    /\ batch.todo # <<>> /\ batch.left > 0
    /\ batch' = [batch EXCEPT !.share = Share]
    /\ StartPush(Poller, batch.todo[1].token)
    /\ UNCHANGED <<tables, test, apns, changes, faults>>

\* Mutant: the token is cleared whatever it is by now.
WithoutTokenAny(d, token) ==
    IF devices[d] = None THEN devices ELSE [devices EXCEPT ![d].widget = None]

\* ClearWidgetToken.
WithoutToken(d, token) ==
    IF devices[d] = None \/ devices[d].widget # token THEN devices
    ELSE [devices EXCEPT ![d].widget = None]

\* A refresh ends, within its share of the time; a terminal answer clears the
\* token, unless that fails.
Refreshed ==
    /\ batch # None
    /\ \E answer \in {"lost", "InvalidProviderToken", "Unregistered", "ok"}, t \in 0..batch.share :
          /\ EndPush(Poller, answer)
          /\ \/ answer # "lost" /\ UNCHANGED faults
             \/ answer \in {"lost", "Unregistered"} /\ Fault
          /\ IF answer = "Unregistered" /\ faults' = faults
             THEN devices' = WithoutToken(batch.todo[1].device, batch.todo[1].token)
             ELSE UNCHANGED devices
          /\ batch' = [batch EXCEPT !.todo = Tail(@), !.left = @ - t]
    /\ UNCHANGED <<generation, results, provider, built, test, apns, changes>>

\* No device is left, or no time; the delivery is recorded for health.
EndDispatch ==
    /\ batch # None /\ batch.at = "widgets" /\ push[Poller] = None
    /\ batch.todo = <<>> \/ batch.left = 0
    /\ batch' = None
    /\ UNCHANGED <<tables, provider, built, push, test, apns, changes, faults>>

Dispatch == BeginDispatch \/ AlertsEnd \/ Refresh \/ Refreshed \/ EndDispatch

-----------------------------------------------------------------------------
(* Readiness tests: an alert, then a widget refresh, then the result.      *)

\* The device is read.  The limit of a test a minute (readinessTestAt) takes no
\* behaviour away: any time may pass between two tests of this model.
BeginTest(h, d) ==
    /\ test[h] = None /\ devices[d] # None
    /\ test' = [test EXCEPT ![h] =
          [device |-> d,
           todo |-> (IF devices[d].alert THEN <<None>> ELSE <<>>) \o
                    (IF devices[d].widget # None THEN <<devices[d].widget>> ELSE <<>>)]]
    /\ UNCHANGED <<tables, provider, built, push, batch, apns, changes, faults>>

\* The next token of the device, the alert first.
TestPush(h) ==
    /\ test[h] # None /\ test[h].todo # <<>>
    /\ StartPush(h, test[h].todo[1])
    /\ UNCHANGED <<tables, batch, test, apns, changes, faults>>

TestAnswered(h) ==
    /\ \/ \E answer \in {"InvalidProviderToken", "Unregistered", "ok"} :
             EndPush(h, answer) /\ UNCHANGED faults
       \/ EndPush(h, "lost") /\ Fault
    /\ test' = [test EXCEPT ![h].todo = Tail(@)]
    /\ UNCHANGED <<tables, provider, built, batch, apns, changes>>

\* SaveDeviceTestResult: for a device that is registered, which may be a later
\* registration under the id than the one that the test is of; or it fails.
SaveTestResult(h) ==
    /\ test[h] # None /\ test[h].todo = <<>>
    /\ LET d == test[h].device
       IN  \/ /\ results' = IF devices[d] = None THEN results
                            ELSE [results EXCEPT ![d] = generation[d]]
              /\ UNCHANGED faults
           \/ Fault /\ UNCHANGED results
    /\ test' = [test EXCEPT ![h] = None]
    /\ UNCHANGED <<devices, generation, provider, built, push, batch, apns, changes>>

Test(h) == TestPush(h) \/ TestAnswered(h) \/ SaveTestResult(h) \/ \E d \in Device : BeginTest(h, d)

\* The process is killed and started again.
Restart ==
    /\ Fault
    /\ provider' = None
    /\ push' = [s \in Sender |-> None]
    /\ batch' = None
    /\ test' = [h \in Tester |-> None]
    /\ UNCHANGED <<tables, built, apns, changes>>

Next ==
    \/ Phones \/ TokenDies \/ ProviderTokenRefused
    \/ \E s \in Sender : Push(s)
    \/ Dispatch
    \/ \E h \in Tester : Test(h)
    \/ Restart

Spec == Init /\ [][Next]_vars

-----------------------------------------------------------------------------
(* What must hold.                                                         *)

TypeOK ==
    /\ devices \in [Device -> DeviceRow \cup {None}]
    /\ generation \in [Device -> 0..MaxChanges + 1] /\ results \in [Device -> 1..MaxChanges + 1 \cup {None}]
    /\ provider \in {None} \cup 1..built /\ built \in 0..MaxTokens
    /\ dead \subseteq Token /\ refused \subseteq 1..built
    /\ push \in [Sender -> PushState \cup {None}]
    /\ batch \in BatchState \cup {None}
    /\ test \in [Tester -> TestState \cup {None}]
    /\ changes \in 0..MaxChanges /\ faults \in 0..MaxFaults

\* A push fails for its provider token only when APNs has refused two of them:
\* the second request never goes out with the token that the first was refused
\* with, whatever other senders do to the cache in between.
SecondTokenIsNew ==
    \A s \in Sender : push[s] # None /\ push[s].first # None /\ push[s].at = "sent" =>
        push[s].first \in refused /\ push[s].token > push[s].first

\* A slow device does not cost the next one its refresh, which nobody sends
\* again: as long as devices are to be refreshed there is time left for each,
\* its fair part of what the dispatch had for widgets at least.
FairPart == AtMost(batch.start, Budget) \div batch.all
RefreshesGetTheirTime ==
    batch # None /\ batch.at = "widgets" /\ batch.todo # <<>> =>
        IF push[Poller] = None THEN batch.left >= FairPart * Len(batch.todo)
        ELSE batch.left - batch.share >= FairPart * (Len(batch.todo) - 1)

\* Only a widget token that APNs has declared dead is taken from a device, and
\* not the one that replaced it while the refresh was under way.
LiveWidgetTokenKept ==
    [][\A d \in Device :
         devices[d] # None /\ devices'[d] # None /\ changes' = changes
             /\ devices'[d].widget # devices[d].widget => devices[d].widget \in dead]_vars

\* A test result is shown only to the registration that was there when it was
\* saved: it goes with its device and is not written after it, so that a phone
\* registered later under the id does not inherit it.  The test may have begun
\* before, though: when its device leaves and is registered again in the course
\* of it, SaveDeviceTestResult, which compares the id only, saves it for the
\* new registration.
ResultsOfRegistration ==
    \A d \in Device : results[d] # None => devices[d] # None /\ results[d] = generation[d]

-----------------------------------------------------------------------------
(* What makes these invariants inductive.                                  *)

\* A push that is to go out again has seen its first token refused, and what
\* is cached by then, if anything, is newer.
PushesInOrder ==
    \A s \in Sender : push[s] # None =>
        /\ push[s].token \in 1..built
        /\ push[s].at # "sent" \/ push[s].first # None => push[s].first \in refused
        /\ push[s].at = "again" => provider = None \/ provider > push[s].first

\* The poller pushes to the next device of its dispatch, within the share of
\* that device, and a tester to the next token of its test.
PushesBelong ==
    /\ push[Poller] # None =>
          /\ batch # None /\ batch.at = "widgets" /\ batch.todo # <<>>
          /\ push[Poller].to = batch.todo[1].token
          /\ batch.share <= batch.left
    /\ \A h \in Tester : push[h] # None => test[h] # None /\ test[h].todo # <<>>

\* Nothing is used up before the widgets get their turn.
BatchWhole ==
    batch # None =>
        /\ batch.at = "alerts" => batch.left = batch.start /\ Len(batch.todo) = batch.all
        /\ batch.todo # <<>> => batch.all > 0

\* Exactly the registered devices have a generation.
RegistrationsKnown == \A d \in Device : generation[d] = 0 <=> devices[d] = None

DeliveryInv ==
    /\ TypeOK /\ PushesInOrder /\ PushesBelong /\ BatchWhole
    /\ SecondTokenIsNew /\ RefreshesGetTheirTime
    /\ ResultsOfRegistration /\ RegistrationsKnown
=============================================================================
