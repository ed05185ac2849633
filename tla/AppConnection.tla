--------------------------- MODULE AppConnection ---------------------------
(***************************************************************************)
(* The connection of the iOS app: AppModel with its calls in flight while  *)
(* the user switches servers, the Keychain pair that app and widget share  *)
(* and migrate from the items of older versions, and the registration of   *)
(* the widget's push token.  AppModel runs on the main actor: it is left   *)
(* at an await only, and each Keychain operation is atomic by itself.      *)
(* What is shown is told apart by the connection it was fetched with.      *)
(***************************************************************************)
EXTENDS Naturals, Sequences

CONSTANTS
    None,
    Server,     \* connections: a URL with its bearer token
    Old,        \* the connection an older version of the app has left
    Call,       \* calls of AppModel that may be in flight together
    MaxConnects,\* bound on connection attempts
    MaxTokens,  \* bound on widget tokens issued by iOS
    MaxFaults   \* bound on failing requests, failing Keychain operations and kills

\* What a piece of data was fetched with; AppModel, what a call does next, a
\* call in flight, and a call of the Keychain.
Origin == Server \cup {None}
Serial == Nat \cup {None}
ShownState == [snapshot : Origin, preferences : Origin, health : Origin, settings : Origin,
               readiness : Origin]
ModelState == [credentials : Origin, generation : Nat, attempts : Nat, shown : ShownState]
Method == {"connect", "saving", "refresh", "apply", "ask", "readiness", "register"}
ThenState == [op : Method, only : Serial]
CallState == [op : Method, generation : Nat, server : Server, token : Serial, then : Seq(ThenState)]
LoadPlace == {"pair", "url", "token", "publish", "again"}
SavePlace == {"update", "add"}
KeychainState == [op : {"load", "save"}, value : Origin, result : Origin, had : BOOLEAN,
                  at : LoadPlace \cup SavePlace \cup {"clear", "clear token", "done", "failed"}]

ASSUME AppAssumption ==
    /\ Old \in Server
    /\ None \notin Server \cup Nat \cup ModelState \cup CallState \cup KeychainState
    /\ {MaxConnects, MaxTokens, MaxFaults} \subseteq Nat

VARIABLES
    pair,       \* the Keychain item connectionCredentials
    legacy,     \* the items of older versions that are there: url, token
    mirror,     \* mirrored credentials of older versions in the App Group
    keychain,   \* the Keychain call of each process: [op, value, at, result, had]
    cache,      \* by connection: the origin of the saved snapshot, preferences
    app,        \* AppModel, or None while it does not run
    calls,      \* its calls in flight
    pending,    \* pendingWidgetToken in the App Group
    issued,     \* widget tokens issued
    registered, \* the widget token each server has
    faults

items == <<pair, legacy>>
shared == <<mirror, cache>>
tokens == <<pending, issued, registered>>
vars == <<items, keychain, shared, app, calls, tokens, faults>>

Process == {"app", "widget"}
Nothing == [snapshot |-> None, preferences |-> None]

Init ==
    /\ \/ pair \in {None, Old} /\ legacy = {}
       \/ pair = None /\ legacy \in {{"url", "token"}, {"token"}}
    /\ mirror \in {None, Old}
    /\ keychain = [p \in Process |-> None]
    /\ cache = [s \in Server |-> IF s = Old THEN [snapshot |-> s, preferences |-> s] ELSE Nothing]
    /\ app = None
    /\ calls = [c \in Call |-> None]
    /\ pending = None /\ issued = 0
    /\ registered = [s \in Server |-> None]
    /\ faults = 0

Fault == faults < MaxFaults /\ faults' = faults + 1

-----------------------------------------------------------------------------
(* KeychainStore: save, load with its migration, one item at a time.       *)

Stored == pair # None \/ legacy = {"url", "token"}

\* had: whether credentials were there when the load began, for the properties.
LoadCall == [op |-> "load", value |-> None, at |-> "pair", result |-> None, had |-> Stored]
SaveCall(s) == [op |-> "save", value |-> s, at |-> "update", result |-> None, had |-> Stored]

At(p, at) == keychain[p] # None /\ keychain[p].at = at
Goes(p, at) == keychain' = [keychain EXCEPT ![p].at = at]
Returns(p, result) == keychain' = [keychain EXCEPT ![p].at = "done", ![p].result = result]

\* Mutant: an item that is not there ends the load with nothing.
MissingForGood(p) == Returns(p, None)

\* A legacy item is missing: a concurrent save may have removed it.
Missing(p) == Goes(p, "again")

\* Mutant: the legacy items are written over the pair of another process.
PublishedOver == Old

\* What the pair is once the legacy items are added: one that is there stays.
Published == IF pair = None THEN Old ELSE pair

\* load: the pair, or else the legacy items published as one unless another
\* process has done so, and the pair that is there afterwards.
Load(p) ==
    \/ /\ At(p, "pair")
       /\ IF pair # None THEN Returns(p, pair) ELSE Goes(p, "url")
       /\ UNCHANGED items
    \/ /\ At(p, "url")
       /\ IF "url" \in legacy THEN Goes(p, "token") ELSE Missing(p)
       /\ UNCHANGED items
    \/ /\ At(p, "token")
       /\ IF "token" \in legacy THEN Goes(p, "publish") ELSE Missing(p)
       /\ UNCHANGED items
    \/ /\ At(p, "publish")
       /\ pair' = Published
       /\ Goes(p, "clear") /\ UNCHANGED legacy
    \/ At(p, "again") /\ Returns(p, pair) /\ UNCHANGED items

\* save: update the pair, or add it; update it when another process was faster.
Save(p) ==
    \/ /\ At(p, "update")
       /\ IF pair # None THEN pair' = keychain[p].value /\ Goes(p, "clear")
          ELSE Goes(p, "add") /\ UNCHANGED pair
       /\ UNCHANGED legacy
    \/ /\ At(p, "add")
       /\ IF pair = None THEN pair' = keychain[p].value /\ Goes(p, "clear")
          ELSE Goes(p, "update") /\ UNCHANGED pair
       /\ UNCHANGED legacy

\* clearLegacyItems, the last but one step of a load and the last of a save.
ClearLegacy(p) ==
    \/ At(p, "clear") /\ legacy' = legacy \ {"url"} /\ Goes(p, "clear token") /\ UNCHANGED pair
    \/ /\ At(p, "clear token") /\ legacy' = legacy \ {"token"}
       /\ IF keychain[p].op = "load" THEN Goes(p, "again") ELSE Returns(p, keychain[p].value)
       /\ UNCHANGED pair

\* A Keychain operation fails, and with it the call.
KeychainFails(p) ==
    /\ keychain[p] # None /\ keychain[p].at \notin {"done", "failed"}
    /\ Fault
    /\ Goes(p, "failed")
    /\ UNCHANGED items

Keychain(p) ==
    /\ \/ (Load(p) \/ Save(p) \/ ClearLegacy(p)) /\ UNCHANGED faults
       \/ KeychainFails(p)
    /\ UNCHANGED <<shared, app, calls, tokens>>

Ended(p) == At(p, "done") \/ At(p, "failed")

\* The widget extension loads the credentials, for its timeline.
WidgetLoads ==
    /\ keychain["widget"] = None
    /\ keychain' = [keychain EXCEPT !["widget"] = LoadCall]
    /\ UNCHANGED <<items, shared, app, calls, tokens, faults>>

\* It fetches the snapshot, and keeps it for the connection it was fetched with
\* if the Keychain still has that one.
WidgetEnds ==
    /\ Ended("widget")
    /\ LET s == keychain["widget"].result
       IN  \/ s # None /\ pair = s /\ cache' = [cache EXCEPT ![s].snapshot = s]
           \/ UNCHANGED cache
    /\ keychain' = [keychain EXCEPT !["widget"] = None]
    /\ UNCHANGED <<items, mirror, app, calls, tokens, faults>>

-----------------------------------------------------------------------------
(* AppModel: launch, kill, and its calls in flight.                        *)

\* The main actor waits for the Keychain.
Busy == keychain["app"] # None

Model(s) ==
    [credentials |-> s, generation |-> 0, attempts |-> 0,
     shown |-> [snapshot    |-> IF s = None THEN None ELSE cache[s].snapshot,
                preferences |-> IF s = None THEN None ELSE cache[s].preferences,
                health |-> None, settings |-> None, readiness |-> None]]

Launch ==
    /\ app = None /\ ~Busy
    /\ keychain' = [keychain EXCEPT !["app"] = LoadCall]
    /\ UNCHANGED <<items, shared, app, calls, tokens, faults>>

\* AppModel.init: the pair, or else the mirrored credentials, which are saved.
\* A load that fails counts as one that finds nothing.
Launched ==
    /\ app = None /\ Ended("app")
    /\ LET k == keychain["app"]
       IN  \/ /\ k.op = "load" /\ k.result = None /\ mirror # None
              /\ keychain' = [keychain EXCEPT !["app"] = SaveCall(mirror)]
              /\ UNCHANGED <<app, mirror>>
           \/ /\ k.op = "load" /\ ~(k.result = None /\ mirror # None)
              /\ app' = Model(k.result)
              /\ mirror' = IF k.result # None THEN None ELSE mirror
              /\ keychain' = [keychain EXCEPT !["app"] = None]
           \/ /\ k.op = "save"
              /\ app' = Model(k.value)
              /\ mirror' = IF k.at = "done" THEN None ELSE mirror
              /\ keychain' = [keychain EXCEPT !["app"] = None]
    /\ UNCHANGED <<items, cache, calls, tokens, faults>>

\* The app is killed, within a call of the Keychain too.
Kill ==
    /\ app # None \/ Busy
    /\ Fault
    /\ app' = None
    /\ keychain' = [keychain EXCEPT !["app"] = None]
    /\ calls' = [c \in Call |-> None]
    /\ UNCHANGED <<items, shared, tokens>>

\* What a method awaits next, and what its caller does: [op, only], where only
\* is the generation it is guarded by.
Then(op) == [op |-> op, only |-> None]

\* The call of a method, with the generation and the connection of its start.
NewCall(op, then) ==
    [op |-> op, generation |-> app.generation, server |-> app.credentials,
     token |-> IF op = "register" THEN pending ELSE None, then |-> then]

\* refresh when the user pulls, refresh and registerTokensIfNeeded when the app
\* comes to the front, applySettings and saveSettings, a forcePoll or a
\* runReadinessTest ("ask") and then refreshReadiness, registerTokensIfNeeded.
Begin(c) ==
    /\ app # None /\ ~Busy /\ calls[c] = None /\ app.credentials # None
    /\ \E start \in {<<"refresh", <<>> >>, <<"refresh", <<Then("register")>> >>, <<"apply", <<>> >>,
                     <<"ask", <<Then("readiness")>> >>, <<"register", <<>> >>} :
          calls' = [calls EXCEPT ![c] = NewCall(start[1], start[2])]
    /\ UNCHANGED <<items, keychain, shared, app, tokens, faults>>

\* saveConnection: the health of another server is asked for first.
Connect(c, s) ==
    /\ app # None /\ ~Busy /\ calls[c] = None /\ app.attempts < MaxConnects
    /\ app' = [app EXCEPT !.attempts = @ + 1]
    /\ calls' = [calls EXCEPT ![c] =
          [op |-> "connect", generation |-> app'.attempts, server |-> s, token |-> None, then |-> <<>>]]
    /\ UNCHANGED <<items, keychain, shared, tokens, faults>>

\* The call goes on with what comes next, or after it when its guard does not
\* let it pass, or ends.
Continue(c, then, model) ==
    LET skip == then # <<>> /\ Head(then).only \notin {None, model.generation}
        left == IF skip THEN Tail(then) ELSE then
    IN  calls' = [calls EXCEPT ![c] =
           IF left = <<>> \/ model.credentials = None THEN None
           ELSE [op |-> Head(left).op, generation |-> model.generation, server |-> model.credentials,
                 token |-> IF Head(left).op = "register" THEN pending ELSE None, then |-> Tail(left)]]

InFlight(c, op) == app # None /\ ~Busy /\ calls[c] # None /\ calls[c].op = op

\* The health is there: unless another attempt was begun, the pair is saved.
HealthFetched(c) ==
    /\ InFlight(c, "connect")
    /\ \/ /\ calls[c].generation = app.attempts
          /\ keychain' = [keychain EXCEPT !["app"] = SaveCall(calls[c].server)]
          /\ calls' = [calls EXCEPT ![c].op = "saving"]
          /\ UNCHANGED faults
       \/ /\ calls[c].generation # app.attempts
          /\ calls' = [calls EXCEPT ![c] = None]
          /\ UNCHANGED <<keychain, faults>>
       \/ Fault /\ calls' = [calls EXCEPT ![c] = None] /\ UNCHANGED keychain
    /\ UNCHANGED <<items, shared, app, tokens>>

\* The pair is saved, or not: then the connection stays what it is.
Connected(c) ==
    /\ app # None /\ Ended("app") /\ calls[c] # None /\ calls[c].op = "saving"
    /\ keychain' = [keychain EXCEPT !["app"] = None]
    /\ IF At("app", "done")
       THEN LET s == calls[c].server
            IN  /\ app' = [app EXCEPT !.credentials = s, !.generation = @ + 1,
                        !.shown = [snapshot |-> cache[s].snapshot, preferences |-> cache[s].preferences,
                                   health |-> s, settings |-> None, readiness |-> None]]
                /\ mirror' = None
                /\ Continue(c, <<Then("refresh"), [op |-> "register", only |-> app'.generation]>>, app')
       ELSE calls' = [calls EXCEPT ![c] = None] /\ UNCHANGED <<app, mirror>>
    /\ UNCHANGED <<items, cache, tokens, faults>>

\* Mutant: an answer is taken for the connection the app has by now.
CurrentAnyway(c) == TRUE

\* guard connectionGeneration == generation, after every await.
Current(c) == calls[c].generation = app.generation

\* Snapshot, health and settings, fetched at the same time, are all there.
Refreshed(c) ==
    /\ InFlight(c, "refresh")
    /\ IF Current(c)
       THEN LET s == calls[c].server
            IN  /\ app' = [app EXCEPT !.shown.snapshot = s, !.shown.health = s,
                                      !.shown.settings = s, !.shown.preferences = s]
                /\ cache' = [cache EXCEPT ![app.credentials] = [snapshot |-> s, preferences |-> s]]
       ELSE UNCHANGED <<app, cache>>
    /\ Continue(c, calls[c].then, app)
    /\ UNCHANGED <<items, keychain, mirror, tokens, faults>>

\* One of the three has failed: what is saved for the connection is shown.
RefreshFailed(c) ==
    /\ InFlight(c, "refresh") /\ Fault
    /\ app' = IF Current(c) /\ cache[app.credentials].snapshot # None
              THEN [app EXCEPT !.shown.snapshot = cache[app.credentials].snapshot] ELSE app
    /\ Continue(c, calls[c].then, app)
    /\ UNCHANGED <<items, keychain, shared, tokens>>

\* The settings as the server has taken them; a refresh follows.
SettingsPut(c) ==
    /\ InFlight(c, "apply")
    /\ IF Current(c)
       THEN /\ app' = [app EXCEPT !.shown.settings = calls[c].server, !.shown.preferences = calls[c].server]
            /\ cache' = [cache EXCEPT ![app.credentials].preferences = calls[c].server]
            /\ Continue(c, <<Then("refresh")>>, app)
       ELSE UNCHANGED <<app, cache>> /\ Continue(c, <<>>, app)
    /\ UNCHANGED <<items, keychain, mirror, tokens, faults>>

\* A poll or a test was answered; after a poll, a refresh follows.
Asked(c) ==
    /\ InFlight(c, "ask")
    /\ \E next \in {<<>>} \cup (IF Current(c) THEN {<<Then("refresh")>>} ELSE {}) :
          Continue(c, next \o calls[c].then, app)
    /\ UNCHANGED <<items, keychain, shared, app, tokens, faults>>

ReadinessFetched(c) ==
    /\ InFlight(c, "readiness")
    /\ app' = IF Current(c) THEN [app EXCEPT !.shown.health = calls[c].server, !.shown.readiness = calls[c].server]
              ELSE app
    /\ Continue(c, calls[c].then, app)
    /\ UNCHANGED <<items, keychain, shared, tokens, faults>>

\* The server has the device, with the widget token if one was pending, which
\* is pending no more.
DeviceRegistered(c) ==
    /\ InFlight(c, "register")
    /\ LET token == calls[c].token
       IN  /\ registered' = IF token = None THEN registered
                            ELSE [registered EXCEPT ![calls[c].server] = token]
           /\ pending' = IF Current(c) /\ token # None THEN None ELSE pending
    /\ Continue(c, calls[c].then, app)
    /\ UNCHANGED <<items, keychain, shared, app, issued, faults>>

\* Any other request fails, or its answer is lost: only an error is shown.
RequestFails(c) ==
    /\ app # None /\ ~Busy /\ calls[c] # None
    /\ calls[c].op \in {"apply", "ask", "readiness", "register"}
    /\ Fault
    /\ registered' \in {registered} \cup
          (IF calls[c].token = None THEN {} ELSE {[registered EXCEPT ![calls[c].server] = calls[c].token]})
    /\ Continue(c, calls[c].then, app)
    /\ UNCHANGED <<items, keychain, shared, app, pending, issued>>

\* pushTokenDidChange, in the widget extension.
TokenIssued ==
    /\ issued < MaxTokens
    /\ issued' = issued + 1
    /\ pending' = issued'
    /\ UNCHANGED <<items, keychain, shared, app, calls, registered, faults>>

Answer(c) ==
    \/ HealthFetched(c) \/ Connected(c) \/ Refreshed(c) \/ RefreshFailed(c) \/ SettingsPut(c)
    \/ Asked(c) \/ ReadinessFetched(c) \/ DeviceRegistered(c) \/ RequestFails(c)

Next ==
    \/ \E p \in Process : Keychain(p)
    \/ WidgetLoads \/ WidgetEnds
    \/ Launch \/ Launched \/ Kill
    \/ \E c \in Call : Begin(c) \/ Answer(c) \/ \E s \in Server : Connect(c, s)
    \/ TokenIssued

Spec == Init /\ [][Next]_vars

-----------------------------------------------------------------------------
(* What must hold.                                                         *)

TypeOK ==
    /\ pair \in Origin /\ legacy \subseteq {"url", "token"} /\ mirror \in Origin
    /\ keychain \in [Process -> KeychainState \cup {None}]
    /\ cache \in [Server -> [snapshot : Origin, preferences : Origin]]
    /\ app \in ModelState \cup {None} /\ calls \in [Call -> CallState \cup {None}]
    /\ issued \in 0..MaxTokens /\ pending \in Serial /\ registered \in [Server -> Serial]
    /\ faults \in 0..MaxFaults

\* Nothing of another server is shown, or saved as its data, however late the
\* answers of the servers that the user has left arrive.
ShownIsOfConnection ==
    /\ app # None => \A field \in DOMAIN app.shown : app.shown[field] \in {None, app.credentials}
    /\ \A s \in Server : cache[s].snapshot \in {None, s} /\ cache[s].preferences \in {None, s}

\* A load that began with credentials in the Keychain returns some, whatever the
\* other process migrates, saves and clears meanwhile, unless an operation
\* fails: nobody takes a server in use for one never set up.
LoadsFindCredentials ==
    \A p \in Process : At(p, "done") /\ keychain[p].op = "load" /\ keychain[p].had =>
        keychain[p].result # None

\* The pair, once there, changes only when the user connects to a server: no
\* migration writes an older one over it.  But for one case: a launch that could
\* not load the pair takes the mirrored credentials, if they are still there.
OnlyUsersReplace ==
    [][pair # None /\ pair' # pair =>
         \/ app # None /\ \E c \in Call : calls[c] # None /\ calls[c].op = "saving" /\ pair' = calls[c].server
         \/ app = None /\ Busy /\ keychain["app"].op = "save" /\ keychain["app"].had /\ pair' = mirror]_vars

\* The pending widget token is dropped only when the server that the app is
\* connected to has got one.
DroppedTokenArrived ==
    [][pending # None /\ pending' = None => registered'[app.credentials] # None]_vars

-----------------------------------------------------------------------------
(* What makes these invariants inductive.                                  *)

\* A call that passes the guard is one of the connection the app has.
CallsOfConnection ==
    /\ app = None => \A c \in Call : calls[c] = None
    /\ \A c \in Call : calls[c] # None /\ calls[c].op \notin {"connect", "saving"} =>
          /\ calls[c].generation <= app.generation
          /\ Current(c) => calls[c].server = app.credentials

\* The legacy items go one after the other, and not before the pair is there.
KeychainInOrder ==
    /\ "url" \in legacy => "token" \in legacy
    /\ \A p \in Process : keychain[p] # None =>
          /\ keychain[p].had \/ keychain[p].at \in {"token", "publish"} => Stored
          /\ keychain[p].at \in {"clear", "clear token"} => pair # None
          /\ keychain[p].at = "again" /\ keychain[p].had => pair # None
          /\ keychain[p].at = "clear token" => "url" \notin legacy
          /\ keychain[p].op = "save" => keychain[p].value # None /\ keychain[p].at \notin LoadPlace
          /\ keychain[p].op = "load" => keychain[p].at \notin SavePlace

\* Who loads and who saves what.
SavesAreKnown ==
    /\ keychain["widget"] # None => keychain["widget"].op = "load"
    /\ Busy /\ app # None =>
          /\ keychain["app"].op = "save"
          /\ \E c \in Call : calls[c] # None /\ calls[c].op = "saving" /\ calls[c].server = keychain["app"].value
    /\ Busy /\ app = None /\ keychain["app"].op = "save" =>
          /\ keychain["app"].value = mirror
          /\ ~keychain["app"].had /\ keychain["app"].at \in SavePlace => ~Stored

AppInv ==
    /\ TypeOK /\ CallsOfConnection /\ KeychainInOrder /\ SavesAreKnown
    /\ ShownIsOfConnection /\ LoadsFindCredentials
=============================================================================
