------------------------ MODULE AppConnectionProofs ------------------------
(***************************************************************************)
(* Theorems about AppConnection, for any servers, calls, connection        *)
(* attempts, failures and kills.                                           *)
(***************************************************************************)
EXTENDS AppConnection, SequenceTheorems, TLAPS

USE DEF items, shared, tokens, Process

\* The initial state.
LEMMA AppInit == Init => AppInv
<1> SUFFICES ASSUME Init
             PROVE  AppInv
  OBVIOUS
<1>1. TypeOK
  BY AppAssumption DEF Init, TypeOK, Origin, Serial, Nothing
<1>2. ShownIsOfConnection /\ CallsOfConnection
  BY AppAssumption DEF Init, ShownIsOfConnection, CallsOfConnection, Nothing
<1>3. KeychainInOrder /\ SavesAreKnown /\ LoadsFindCredentials
  BY DEF Init, KeychainInOrder, SavesAreKnown, LoadsFindCredentials, At, Busy
<1> QED
  BY <1>1, <1>2, <1>3 DEF AppInv

-----------------------------------------------------------------------------
(* The Keychain.                                                           *)

\* What holds of a call of the Keychain by itself.
CallInOrder(k) ==
    /\ k.had \/ k.at \in {"token", "publish"} => Stored
    /\ k.at \in {"clear", "clear token"} => pair # None
    /\ k.at = "again" /\ k.had => pair # None
    /\ k.at = "clear token" => "url" \notin legacy
    /\ k.op = "save" => k.value # None /\ k.at \notin LoadPlace
    /\ k.op = "load" => k.at \notin SavePlace
    /\ k.at = "done" /\ k.op = "load" /\ k.had => k.result # None

\* What a step does to the items: the pair stays once it is there, and the
\* legacy items go only when it is there.
ItemsKept ==
    /\ pair' \in Origin /\ legacy' \subseteq legacy
    /\ "url" \in legacy' => "token" \in legacy'
    /\ pair # None => pair' # None
    /\ legacy' # legacy => pair # None

LEMMA StoredKept ==
    ASSUME TypeOK, ItemsKept, Stored
    PROVE  Stored'
BY DEF TypeOK, ItemsKept, Stored

\* A step of process p within its call.
CallMoves(p) ==
    /\ keychain[p] # None /\ keychain[p] \in KeychainState
    /\ keychain' = [keychain EXCEPT ![p] = keychain'[p]]
    /\ keychain'[p] \in KeychainState
    /\ keychain'[p].op = keychain[p].op /\ keychain'[p].value = keychain[p].value
    /\ keychain'[p].had = keychain[p].had

LEMMA GoesTo ==
    ASSUME TypeOK, NEW p \in Process, keychain[p] # None,
           NEW at \in LoadPlace \cup SavePlace \cup {"clear", "clear token", "failed"}, Goes(p, at)
    PROVE  CallMoves(p) /\ keychain'[p].at = at /\ keychain'[p].result = keychain[p].result
<1>1. keychain \in [Process -> KeychainState \cup {None}] /\ keychain[p] \in KeychainState
  BY DEF TypeOK
<1>2. keychain' = [keychain EXCEPT ![p] = [keychain[p] EXCEPT !.at = at]]
  BY <1>1 DEF Goes
<1>3. [keychain[p] EXCEPT !.at = at] \in KeychainState
  BY <1>1 DEF KeychainState
<1>4. keychain'[p] = [keychain[p] EXCEPT !.at = at]
  BY <1>1, <1>2
<1> QED
  BY <1>1, <1>2, <1>3, <1>4 DEF CallMoves, KeychainState

LEMMA ReturnsWith ==
    ASSUME TypeOK, NEW p \in Process, keychain[p] # None, NEW s \in Origin, Returns(p, s)
    PROVE  CallMoves(p) /\ keychain'[p].at = "done" /\ keychain'[p].result = s
<1>1. keychain \in [Process -> KeychainState \cup {None}] /\ keychain[p] \in KeychainState
  BY DEF TypeOK
<1>2. keychain' = [keychain EXCEPT ![p] = [keychain[p] EXCEPT !.at = "done", !.result = s]]
  BY <1>1 DEF Returns
<1>3. [keychain[p] EXCEPT !.at = "done", !.result = s] \in KeychainState
  BY <1>1 DEF KeychainState
<1>4. keychain'[p] = [keychain[p] EXCEPT !.at = "done", !.result = s]
  BY <1>1, <1>2
<1> QED
  BY <1>1, <1>2, <1>3, <1>4 DEF CallMoves, KeychainState

\* What the invariant says of a call that is there.
LEMMA CallThere ==
    ASSUME AppInv, NEW p \in Process, keychain[p] # None
    PROVE  /\ TypeOK /\ keychain[p] \in KeychainState /\ CallInOrder(keychain[p])
           /\ pair \in Origin /\ legacy \subseteq {"url", "token"}
           /\ "url" \in legacy => "token" \in legacy
BY DEF AppInv, TypeOK, KeychainInOrder, LoadsFindCredentials, At, CallInOrder

LEMMA LoadStep ==
    ASSUME AppInv, NEW p \in Process, Load(p)
    PROVE  /\ ItemsKept /\ CallMoves(p) /\ CallInOrder(keychain[p])'
           /\ pair' # pair => keychain[p].at = "publish" /\ pair = None
           /\ keychain[p].at \in LoadPlace /\ keychain'[p].at \notin SavePlace
<1> USE AppAssumption DEF LoadPlace, SavePlace
<1>1. /\ TypeOK /\ keychain[p] # None /\ keychain[p] \in KeychainState /\ CallInOrder(keychain[p])
      /\ pair \in Origin /\ legacy \subseteq {"url", "token"}
      /\ "url" \in legacy => "token" \in legacy
  BY CallThere DEF Load, At
<1>2. keychain[p].at \in LoadPlace => keychain[p].op = "load"
  BY <1>1 DEF KeychainState, CallInOrder
<1>3. CASE /\ At(p, "pair")
           /\ IF pair # None THEN Returns(p, pair) ELSE Goes(p, "url")
           /\ UNCHANGED items
  <2>1. CallMoves(p) /\ \/ pair # None /\ keychain'[p].at = "done" /\ keychain'[p].result = pair
                        \/ keychain'[p].at = "url"
    BY <1>1, <1>3, GoesTo, ReturnsWith
  <2> QED
    BY <1>1, <1>2, <1>3, <2>1 DEF At, ItemsKept, CallMoves, CallInOrder, Stored
<1>4. CASE /\ At(p, "url")
           /\ IF "url" \in legacy THEN Goes(p, "token") ELSE Missing(p)
           /\ UNCHANGED items
  <2>1. CallMoves(p) /\ \/ "url" \in legacy /\ keychain'[p].at = "token"
                        \/ "url" \notin legacy /\ keychain'[p].at = "again"
    BY <1>1, <1>4, GoesTo DEF Missing
  <2> QED
    BY <1>1, <1>2, <1>4, <2>1 DEF At, ItemsKept, CallMoves, CallInOrder, Stored
<1>5. CASE /\ At(p, "token")
           /\ IF "token" \in legacy THEN Goes(p, "publish") ELSE Missing(p)
           /\ UNCHANGED items
  <2>1. CallMoves(p) /\ \/ "token" \in legacy /\ keychain'[p].at = "publish"
                        \/ "token" \notin legacy /\ keychain'[p].at = "again"
    BY <1>1, <1>5, GoesTo DEF Missing
  <2> QED
    BY <1>1, <1>2, <1>5, <2>1 DEF At, ItemsKept, CallMoves, CallInOrder, Stored
<1>6. CASE /\ At(p, "publish")
           /\ pair' = Published
           /\ Goes(p, "clear") /\ UNCHANGED legacy
  <2>1. CallMoves(p) /\ keychain'[p].at = "clear"
    BY <1>1, <1>6, GoesTo
  <2>2. pair' \in Origin /\ pair' # None /\ (pair' # pair => pair = None)
    BY <1>1, <1>6 DEF Published, Origin
  <2> QED
    BY <1>1, <1>2, <1>6, <2>1, <2>2 DEF At, ItemsKept, CallMoves, CallInOrder, Stored
<1>7. CASE At(p, "again") /\ Returns(p, pair) /\ UNCHANGED items
  <2>1. CallMoves(p) /\ keychain'[p].at = "done" /\ keychain'[p].result = pair
    BY <1>1, <1>7, ReturnsWith
  <2> QED
    BY <1>1, <1>2, <1>7, <2>1 DEF At, ItemsKept, CallMoves, CallInOrder, Stored
<1> QED
  BY <1>3, <1>4, <1>5, <1>6, <1>7 DEF Load

LEMMA SaveStep ==
    ASSUME AppInv, NEW p \in Process, Save(p)
    PROVE  /\ ItemsKept /\ CallMoves(p) /\ CallInOrder(keychain[p])'
           /\ keychain[p].op = "save" /\ keychain[p].at \in SavePlace
           /\ UNCHANGED legacy
           /\ \/ UNCHANGED pair
              \/ pair' = keychain[p].value /\ keychain'[p].at \notin SavePlace
<1> USE AppAssumption DEF LoadPlace, SavePlace
<1>1. /\ TypeOK /\ keychain[p] # None /\ keychain[p] \in KeychainState /\ CallInOrder(keychain[p])
      /\ pair \in Origin /\ legacy \subseteq {"url", "token"}
      /\ "url" \in legacy => "token" \in legacy
  BY CallThere DEF Save, At
<1>2. /\ keychain[p].at \in SavePlace => keychain[p].op = "save" /\ keychain[p].value # None
      /\ keychain[p].value \in Origin
  BY <1>1 DEF KeychainState, CallInOrder
<1>3. CASE /\ At(p, "update")
           /\ IF pair # None THEN pair' = keychain[p].value /\ Goes(p, "clear")
              ELSE Goes(p, "add") /\ UNCHANGED pair
           /\ UNCHANGED legacy
  <2>1. CallMoves(p) /\ \/ pair' = keychain[p].value /\ keychain'[p].at = "clear"
                        \/ pair = None /\ keychain'[p].at = "add" /\ UNCHANGED pair
    BY <1>1, <1>3, GoesTo
  <2> QED
    BY <1>1, <1>2, <1>3, <2>1 DEF At, ItemsKept, CallMoves, CallInOrder, Stored
<1>4. CASE /\ At(p, "add")
           /\ IF pair = None THEN pair' = keychain[p].value /\ Goes(p, "clear")
              ELSE Goes(p, "update") /\ UNCHANGED pair
           /\ UNCHANGED legacy
  <2>1. CallMoves(p) /\ \/ pair' = keychain[p].value /\ keychain'[p].at = "clear"
                        \/ keychain'[p].at = "update" /\ UNCHANGED pair
    BY <1>1, <1>4, GoesTo
  <2> QED
    BY <1>1, <1>2, <1>4, <2>1 DEF At, ItemsKept, CallMoves, CallInOrder, Stored
<1> QED
  BY <1>3, <1>4 DEF Save

LEMMA ClearStep ==
    ASSUME AppInv, NEW p \in Process, ClearLegacy(p)
    PROVE  /\ ItemsKept /\ CallMoves(p) /\ CallInOrder(keychain[p])'
           /\ pair # None /\ UNCHANGED pair
           /\ keychain'[p].at \notin SavePlace
<1> USE AppAssumption DEF LoadPlace, SavePlace
<1>1. /\ TypeOK /\ keychain[p] # None /\ keychain[p] \in KeychainState /\ CallInOrder(keychain[p])
      /\ pair \in Origin /\ legacy \subseteq {"url", "token"}
      /\ "url" \in legacy => "token" \in legacy
  BY CallThere DEF ClearLegacy, At
<1>2. /\ keychain[p].op \in {"load", "save"} /\ keychain[p].value \in Origin
  BY <1>1 DEF KeychainState
<1>3. CASE At(p, "clear") /\ legacy' = legacy \ {"url"} /\ Goes(p, "clear token") /\ UNCHANGED pair
  <2>1. CallMoves(p) /\ keychain'[p].at = "clear token"
    BY <1>1, <1>3, GoesTo
  <2> QED
    BY <1>1, <1>2, <1>3, <2>1 DEF At, ItemsKept, CallMoves, CallInOrder, Stored
<1>4. CASE /\ At(p, "clear token") /\ legacy' = legacy \ {"token"}
           /\ IF keychain[p].op = "load" THEN Goes(p, "again") ELSE Returns(p, keychain[p].value)
           /\ UNCHANGED pair
  <2>1. CallMoves(p) /\ \/ keychain[p].op = "load" /\ keychain'[p].at = "again"
                        \/ keychain[p].op # "load" /\ keychain'[p].at = "done"
    BY <1>1, <1>2, <1>4, GoesTo, ReturnsWith
  <2> QED
    BY <1>1, <1>2, <1>4, <2>1 DEF At, ItemsKept, CallMoves, CallInOrder, Stored
<1> QED
  BY <1>3, <1>4 DEF ClearLegacy

LEMMA FailStep ==
    ASSUME AppInv, NEW p \in Process, KeychainFails(p)
    PROVE  /\ ItemsKept /\ CallMoves(p) /\ CallInOrder(keychain[p])'
           /\ UNCHANGED items
           /\ keychain'[p].at \notin SavePlace
<1> USE AppAssumption DEF LoadPlace, SavePlace
<1>1. /\ TypeOK /\ keychain[p] # None /\ keychain[p] \in KeychainState /\ CallInOrder(keychain[p])
      /\ pair \in Origin /\ legacy \subseteq {"url", "token"}
      /\ "url" \in legacy => "token" \in legacy
  BY CallThere DEF KeychainFails
<1>2. CallMoves(p) /\ keychain'[p].at = "failed" /\ UNCHANGED items
  BY <1>1, GoesTo DEF KeychainFails
<1> QED
  BY <1>1, <1>2 DEF ItemsKept, CallMoves, CallInOrder, Stored

\* A step of the Keychain, of one process, leaves the call of the other one in
\* order: what a call relies on, once there, stays.
LEMMA AppKeychain ==
    ASSUME AppInv, NEW p \in Process, Keychain(p)
    PROVE  AppInv'
<1> USE DEF LoadPlace, SavePlace
<1>1. /\ ItemsKept /\ CallMoves(p) /\ CallInOrder(keychain[p])'
      /\ UNCHANGED <<shared, app, calls, tokens>>
      /\ faults' \in 0..MaxFaults
  <2>1. CASE (Load(p) \/ Save(p) \/ ClearLegacy(p)) /\ UNCHANGED faults
    BY <2>1, LoadStep, SaveStep, ClearStep DEF Keychain, AppInv, TypeOK
  <2>2. CASE KeychainFails(p)
    BY <2>2, FailStep, AppAssumption DEF Keychain, KeychainFails, Fault, AppInv, TypeOK
  <2> QED
    BY <2>1, <2>2 DEF Keychain
<1>2. \A q \in Process \ {p} : keychain'[q] = keychain[q]
  BY <1>1 DEF CallMoves, AppInv, TypeOK
<1>3. TypeOK /\ (Stored => Stored')
  BY <1>1, StoredKept DEF AppInv
<1>4. TypeOK'
  BY <1>1, <1>3 DEF TypeOK, ItemsKept, CallMoves
<1>5. \A q \in Process \ {p} : keychain[q] # None => CallInOrder(keychain[q])'
  <2> SUFFICES ASSUME NEW q \in Process, q # p, keychain[q] # None
               PROVE  CallInOrder(keychain[q])'
    OBVIOUS
  <2>1. CallInOrder(keychain[q])
    BY CallThere
  <2> QED
    BY <1>1, <1>2, <1>3, <2>1 DEF CallInOrder, ItemsKept
<1>6. KeychainInOrder' /\ LoadsFindCredentials'
  <2>1. \A q \in Process : keychain'[q] # None => CallInOrder(keychain[q])'
    BY <1>1, <1>2, <1>5
  <2> QED
    BY <1>1, <2>1 DEF KeychainInOrder, LoadsFindCredentials, CallInOrder, ItemsKept, At
<1>7. SavesAreKnown'
  <2>1. /\ \A q \in Process : keychain'[q] = None <=> keychain[q] = None
        /\ \A q \in Process : keychain[q] # None =>
              keychain'[q].op = keychain[q].op /\ keychain'[q].value = keychain[q].value
                 /\ keychain'[q].had = keychain[q].had
    BY <1>1, <1>2, AppAssumption DEF CallMoves
  <2>2. ASSUME Busy, app = None, keychain["app"].op = "save",
               ~keychain["app"].had, keychain'["app"].at \in SavePlace
        PROVE  ~Stored'
    <3>1. CASE p = "app"
      <4>1. keychain["app"].at \in SavePlace
        BY <2>2, <3>1, LoadStep, SaveStep, ClearStep, FailStep DEF Keychain
      <4>2. ~Stored
        BY <2>2, <4>1 DEF AppInv, SavesAreKnown
      <4>3. UNCHANGED items
        BY <2>2, <3>1, <4>1, <4>2, LoadStep, SaveStep, ClearStep, FailStep DEF Keychain
      <4> QED
        BY <4>2, <4>3 DEF Stored
    <3>2. CASE p = "widget"
      <4>1. ~Stored
        BY <1>2, <2>2, <3>2 DEF AppInv, SavesAreKnown
      <4>2. keychain["widget"] # None /\ keychain["widget"].op = "load"
        BY <1>1, <3>2 DEF CallMoves, AppInv, SavesAreKnown
      <4>3. keychain["widget"].at # "publish"
        BY <4>1, <4>2, CallThere DEF CallInOrder
      <4>4. pair' = pair
        BY <3>2, <4>2, <4>3, LoadStep, SaveStep, ClearStep, FailStep DEF Keychain
      <4>5. legacy' \subseteq legacy /\ legacy \subseteq {"url", "token"}
        BY <1>1, <1>3 DEF ItemsKept, TypeOK
      <4> QED
        BY <4>1, <4>4, <4>5 DEF Stored
    <3> QED
      BY <3>1, <3>2
  <2> QED
    BY <1>1, <2>1, <2>2 DEF AppInv, SavesAreKnown, Busy
<1>8. CallsOfConnection' /\ ShownIsOfConnection'
  BY <1>1 DEF AppInv, CallsOfConnection, Current, ShownIsOfConnection
<1> QED
  BY <1>4, <1>6, <1>7, <1>8 DEF AppInv
-----------------------------------------------------------------------------
(* Loads that begin and end.                                               *)

\* A Keychain call that begins is in order, and the other one stays so.
LEMMA CallBegins ==
    ASSUME AppInv, NEW p \in Process, NEW k \in KeychainState,
           keychain' = [keychain EXCEPT ![p] = k], CallInOrder(k), UNCHANGED items
    PROVE  /\ keychain' \in [Process -> KeychainState \cup {None}]
           /\ KeychainInOrder' /\ LoadsFindCredentials'
           /\ keychain'[p] = k /\ k # None
           /\ \A q \in Process \ {p} : keychain'[q] = keychain[q]
<1>1. k # None /\ keychain \in [Process -> KeychainState \cup {None}]
  BY AppAssumption DEF AppInv, TypeOK
<1>2. \A q \in Process : keychain'[q] # None => CallInOrder(keychain'[q])
  BY <1>1, CallThere
<1>3. "url" \in legacy => "token" \in legacy
  BY DEF AppInv, KeychainInOrder
<1> QED
  BY <1>1, <1>2, <1>3 DEF CallInOrder, KeychainInOrder, LoadsFindCredentials, Stored, At

LEMMA CallIsOver ==
    ASSUME AppInv, NEW p \in Process, keychain' = [keychain EXCEPT ![p] = None], UNCHANGED items
    PROVE  /\ keychain' \in [Process -> KeychainState \cup {None}]
           /\ KeychainInOrder' /\ LoadsFindCredentials'
           /\ keychain'[p] = None
           /\ \A q \in Process \ {p} : keychain'[q] = keychain[q]
<1>1. keychain \in [Process -> KeychainState \cup {None}]
  BY DEF AppInv, TypeOK
<1>2. \A q \in Process : keychain'[q] # None => CallInOrder(keychain'[q])
  BY <1>1, CallThere
<1>3. "url" \in legacy => "token" \in legacy
  BY DEF AppInv, KeychainInOrder
<1> QED
  BY <1>1, <1>2, <1>3 DEF CallInOrder, KeychainInOrder, LoadsFindCredentials, Stored, At

\* The calls of the Keychain are as they were, and so are the items.
LEMMA KeychainIdle ==
    ASSUME AppInv, UNCHANGED <<items, keychain>>
    PROVE  /\ keychain' \in [Process -> KeychainState \cup {None}]
           /\ KeychainInOrder' /\ LoadsFindCredentials'
BY DEF AppInv, TypeOK, KeychainInOrder, LoadsFindCredentials, Stored, At

LEMMA LoadCallOK == LoadCall \in KeychainState /\ CallInOrder(LoadCall)
<1>1. Stored \in BOOLEAN
  BY DEF Stored
<1> QED
  BY <1>1 DEF LoadCall, KeychainState, CallInOrder, LoadPlace, SavePlace, Origin

LEMMA SaveCallOK ==
    ASSUME NEW s \in Server
    PROVE  SaveCall(s) \in KeychainState /\ CallInOrder(SaveCall(s))
<1>1. Stored \in BOOLEAN
  BY DEF Stored
<1> QED
  BY <1>1, AppAssumption DEF SaveCall, KeychainState, CallInOrder, LoadPlace, SavePlace, Origin

LEMMA AppWidget ==
    ASSUME AppInv, WidgetLoads \/ WidgetEnds
    PROVE  AppInv'
<1>1. UNCHANGED <<items, mirror, app, calls, tokens, faults>>
  BY DEF WidgetLoads, WidgetEnds
<1>2. CallsOfConnection'
  BY <1>1 DEF AppInv, CallsOfConnection, Current
<1>3. CASE WidgetLoads
  <2>1. /\ keychain' \in [Process -> KeychainState \cup {None}]
        /\ KeychainInOrder' /\ LoadsFindCredentials'
        /\ keychain'["widget"] = LoadCall
        /\ keychain'["app"] = keychain["app"]
    BY <1>3, CallBegins, LoadCallOK DEF WidgetLoads
  <2>2. UNCHANGED cache
    BY <1>3 DEF WidgetLoads
  <2>3. TypeOK' /\ ShownIsOfConnection'
    BY <1>1, <2>1, <2>2 DEF AppInv, TypeOK, ShownIsOfConnection
  <2>4. SavesAreKnown'
    BY <1>1, <2>1 DEF AppInv, SavesAreKnown, Busy, Stored, LoadCall
  <2> QED
    BY <1>2, <2>1, <2>3, <2>4 DEF AppInv
<1>4. CASE WidgetEnds
  <2>1. /\ keychain' \in [Process -> KeychainState \cup {None}]
        /\ KeychainInOrder' /\ LoadsFindCredentials'
        /\ keychain'["widget"] = None
        /\ keychain'["app"] = keychain["app"]
    BY <1>1, <1>4, CallIsOver DEF WidgetEnds
  <2>2. /\ cache \in [Server -> [snapshot : Origin, preferences : Origin]]
        /\ \A s \in Server : cache[s].snapshot \in {None, s} /\ cache[s].preferences \in {None, s}
    BY DEF AppInv, TypeOK, ShownIsOfConnection
  <2>3. \/ UNCHANGED cache
        \/ \E s \in Server : cache' = [cache EXCEPT ![s].snapshot = s]
    <3>1. pair \in Origin
      BY DEF AppInv, TypeOK
    <3> QED
      BY <1>4, <3>1 DEF WidgetEnds, Origin
  <2>4. /\ cache' \in [Server -> [snapshot : Origin, preferences : Origin]]
        /\ \A s \in Server : cache'[s].snapshot \in {None, s} /\ cache'[s].preferences \in {None, s}
    BY <2>2, <2>3 DEF Origin
  <2>5. TypeOK' /\ ShownIsOfConnection'
    BY <1>1, <2>1, <2>4 DEF AppInv, TypeOK, ShownIsOfConnection
  <2>6. SavesAreKnown'
    BY <1>1, <2>1 DEF AppInv, SavesAreKnown, Busy, Stored
  <2> QED
    BY <1>2, <2>1, <2>5, <2>6 DEF AppInv
<1> QED
  BY <1>3, <1>4

-----------------------------------------------------------------------------
(* The launch and the kill of the app.                                     *)

LEMMA AppLaunch ==
    ASSUME AppInv, Launch
    PROVE  AppInv'
<1>1. UNCHANGED <<items, shared, app, calls, tokens, faults>> /\ app = None
  BY DEF Launch
<1>2. /\ keychain' \in [Process -> KeychainState \cup {None}]
      /\ KeychainInOrder' /\ LoadsFindCredentials'
      /\ keychain'["app"] = LoadCall
      /\ keychain'["widget"] = keychain["widget"]
  BY CallBegins, LoadCallOK DEF Launch
<1>3. TypeOK' /\ ShownIsOfConnection' /\ CallsOfConnection'
  BY <1>1, <1>2 DEF AppInv, TypeOK, ShownIsOfConnection, CallsOfConnection, Current
<1>4. SavesAreKnown'
  BY <1>1, <1>2 DEF AppInv, SavesAreKnown, LoadCall
<1> QED
  BY <1>2, <1>3, <1>4 DEF AppInv

\* What a model shows after a launch was saved for its connection.
LEMMA ModelOK ==
    ASSUME AppInv, NEW s \in Origin
    PROVE  /\ Model(s) \in ModelState /\ Model(s) # None
           /\ \A field \in DOMAIN Model(s).shown : Model(s).shown[field] \in {None, Model(s).credentials}
<1>1. /\ s # None => cache[s].snapshot \in {None, s} /\ cache[s].preferences \in {None, s}
      /\ None \in Origin
  BY DEF AppInv, ShownIsOfConnection, Origin
<1>2. Model(s) \in ModelState
  BY <1>1 DEF Model, ModelState, ShownState
<1> QED
  BY <1>1, <1>2, AppAssumption DEF Model

LEMMA AppLaunched ==
    ASSUME AppInv, Launched
    PROVE  AppInv'
<1> DEFINE k == keychain["app"]
<1>1. /\ UNCHANGED <<items, cache, calls, tokens, faults>>
      /\ app = None /\ k # None /\ k.at \in {"done", "failed"} /\ TypeOK
      /\ \A c \in Call : calls[c] = None
  BY DEF Launched, Ended, At, AppInv, CallsOfConnection
<1>2. k \in KeychainState /\ k.result \in Origin /\ k.value \in Origin
  BY <1>1, CallThere DEF KeychainState
<1>3. CASE /\ k.op = "load" /\ k.result = None /\ mirror # None
           /\ keychain' = [keychain EXCEPT !["app"] = SaveCall(mirror)]
           /\ UNCHANGED <<app, mirror>>
  <2>1. mirror \in Server
    BY <1>1, <1>3 DEF TypeOK, Origin
  <2>2. /\ keychain' \in [Process -> KeychainState \cup {None}]
        /\ KeychainInOrder' /\ LoadsFindCredentials'
        /\ keychain'["app"] = SaveCall(mirror)
        /\ keychain'["widget"] = keychain["widget"]
    BY <1>1, <1>3, <2>1, CallBegins, SaveCallOK
  <2>3. TypeOK' /\ ShownIsOfConnection' /\ CallsOfConnection'
    BY <1>1, <1>3, <2>2 DEF AppInv, TypeOK, ShownIsOfConnection, CallsOfConnection, Current
  <2>4. SavesAreKnown'
    BY <1>1, <1>3, <2>2 DEF AppInv, SavesAreKnown, SaveCall, Stored
  <2> QED
    BY <2>2, <2>3, <2>4 DEF AppInv
<1>4. CASE /\ keychain' = [keychain EXCEPT !["app"] = None]
           /\ mirror' \in {None, mirror}
           /\ \E s \in Origin : app' = Model(s)
  <2>1. PICK s \in Origin : app' = Model(s)
    BY <1>4
  <2>2. /\ keychain' \in [Process -> KeychainState \cup {None}]
        /\ KeychainInOrder' /\ LoadsFindCredentials'
        /\ keychain'["app"] = None
        /\ keychain'["widget"] = keychain["widget"]
    BY <1>1, <1>4, CallIsOver
  <2>3. /\ app' \in ModelState /\ app' # None
        /\ \A field \in DOMAIN app'.shown : app'.shown[field] \in {None, app'.credentials}
    BY <2>1, ModelOK
  <2>4. TypeOK'
    BY <1>1, <1>4, <2>2, <2>3 DEF TypeOK, Origin
  <2>5. ShownIsOfConnection' /\ CallsOfConnection'
    BY <1>1, <2>3 DEF AppInv, ShownIsOfConnection, CallsOfConnection
  <2>6. SavesAreKnown'
    BY <2>2 DEF AppInv, SavesAreKnown, Busy
  <2> QED
    BY <2>2, <2>4, <2>5, <2>6 DEF AppInv
<1> QED
  BY <1>2, <1>3, <1>4 DEF Launched

\* Nothing but what is saved outlives the app.
LEMMA AppKill ==
    ASSUME AppInv, Kill
    PROVE  AppInv'
<1>1. /\ UNCHANGED <<items, shared, tokens>>
      /\ app' = None /\ calls' = [c \in Call |-> None]
      /\ keychain' = [keychain EXCEPT !["app"] = None]
      /\ faults' \in 0..MaxFaults
  BY AppAssumption DEF Kill, Fault, AppInv, TypeOK
<1>2. /\ keychain' \in [Process -> KeychainState \cup {None}]
      /\ KeychainInOrder' /\ LoadsFindCredentials'
      /\ keychain'["app"] = None
      /\ keychain'["widget"] = keychain["widget"]
  BY <1>1, CallIsOver
<1>3. TypeOK' /\ ShownIsOfConnection' /\ CallsOfConnection' /\ SavesAreKnown'
  BY <1>1, <1>2 DEF AppInv, TypeOK, ShownIsOfConnection, CallsOfConnection, SavesAreKnown, Busy
<1> QED
  BY <1>2, <1>3 DEF AppInv
-----------------------------------------------------------------------------
(* The calls of the app.                                                   *)

\* A call that goes on is one of the connection the app has by then.
LEMMA ContinueOK ==
    ASSUME TypeOK, NEW c \in Call, NEW then \in Seq(ThenState), NEW model \in ModelState,
           Continue(c, then, model)
    PROVE  /\ calls' \in [Call -> CallState \cup {None}]
           /\ \A d \in Call \ {c} : calls'[d] = calls[d]
           /\ calls'[c] # None => /\ calls'[c].generation = model.generation
                                  /\ calls'[c].server = model.credentials
<1> DEFINE skip == then # <<>> /\ Head(then).only \notin {None, model.generation}
           left == IF skip THEN Tail(then) ELSE then
           next == [op |-> Head(left).op, generation |-> model.generation, server |-> model.credentials,
                    token |-> IF Head(left).op = "register" THEN pending ELSE None, then |-> Tail(left)]
<1>1. calls' = [calls EXCEPT ![c] = IF left = <<>> \/ model.credentials = None THEN None ELSE next]
  BY DEF Continue
<1>2. left \in Seq(ThenState)
  BY HeadTailProperties
<1>3. left # <<>> => Head(left) \in ThenState /\ Tail(left) \in Seq(ThenState)
  BY <1>2, HeadTailProperties
<1> HIDE DEF left
<1>4. left # <<>> /\ model.credentials # None => next \in CallState
  <2>1. /\ model.credentials \in Server \cup {None} /\ model.generation \in Nat
        /\ pending \in Serial /\ None \in Serial
    BY DEF ModelState, Origin, Serial, TypeOK
  <2> QED
    BY <1>3, <2>1 DEF CallState, ThenState
<1>5. calls \in [Call -> CallState \cup {None}]
  BY DEF TypeOK
<1> QED
  BY <1>1, <1>4, <1>5

\* What an answered call may do: AppModel keeps its connection, and what it
\* shows and saves is of that one.
AnswerTaken ==
    /\ app' \in ModelState /\ app' # None
    /\ app'.generation = app.generation /\ app'.credentials = app.credentials
    /\ cache' \in [Server -> [snapshot : Origin, preferences : Origin]]
    /\ ShownIsOfConnection'

LEMMA AnswerKeeps ==
    ASSUME AppInv, NEW c \in Call, NEW then \in Seq(ThenState), Continue(c, then, app),
           app # None, ~Busy, AnswerTaken, UNCHANGED <<items, keychain, mirror, issued>>,
           faults' \in 0..MaxFaults, pending' \in Serial, registered' \in [Server -> Serial]
    PROVE  AppInv'
<1>1. TypeOK /\ app \in ModelState
  BY DEF AppInv, TypeOK
<1>2. /\ calls' \in [Call -> CallState \cup {None}]
      /\ \A d \in Call \ {c} : calls'[d] = calls[d]
      /\ calls'[c] # None => calls'[c].generation = app.generation /\ calls'[c].server = app.credentials
  BY <1>1, ContinueOK
<1>3. TypeOK'
  BY <1>1, <1>2 DEF TypeOK, AnswerTaken
<1>4. CallsOfConnection'
  <2>1. app.generation \in Nat
    BY <1>1 DEF ModelState
  <2> QED
    BY <1>2, <2>1 DEF AppInv, CallsOfConnection, Current, AnswerTaken
<1>5. KeychainInOrder' /\ LoadsFindCredentials' /\ SavesAreKnown'
  <2>1. SavesAreKnown'
    BY DEF AppInv, SavesAreKnown, Busy
  <2> QED
    BY <2>1, KeychainIdle
<1> QED
  BY <1>3, <1>4, <1>5 DEF AppInv, AnswerTaken

\* A call that is in flight, and what is shown meanwhile.
LEMMA FlightOK ==
    ASSUME AppInv, NEW c \in Call, app # None, calls[c] # None
    PROVE  /\ TypeOK /\ app \in ModelState /\ app.credentials \in Origin
           /\ app.shown \in ShownState
           /\ app.shown.snapshot \in {None, app.credentials}
           /\ app.shown.preferences \in {None, app.credentials}
           /\ app.shown.health \in {None, app.credentials}
           /\ app.shown.settings \in {None, app.credentials}
           /\ app.shown.readiness \in {None, app.credentials}
           /\ calls[c] \in CallState /\ calls[c].server \in Server
           /\ calls[c].then \in Seq(ThenState) /\ calls[c].token \in Serial
           /\ calls[c].op \notin {"connect", "saving"} /\ Current(c) => calls[c].server = app.credentials
           /\ cache \in [Server -> [snapshot : Origin, preferences : Origin]]
           /\ \A s \in Server : cache[s].snapshot \in {None, s} /\ cache[s].preferences \in {None, s}
           /\ pending \in Serial /\ registered \in [Server -> Serial] /\ faults \in 0..MaxFaults
<1>1. TypeOK /\ app \in ModelState /\ calls[c] \in CallState
  BY DEF AppInv, TypeOK
<1>2. app.shown \in ShownState /\ app.credentials \in Origin
  BY <1>1 DEF ModelState
<1>3. DOMAIN app.shown = {"snapshot", "preferences", "health", "settings", "readiness"}
  BY <1>2 DEF ShownState
<1>4. \A field \in DOMAIN app.shown : app.shown[field] \in {None, app.credentials}
  BY DEF AppInv, ShownIsOfConnection
<1>5. /\ calls[c].server \in Server /\ calls[c].then \in Seq(ThenState) /\ calls[c].token \in Serial
  BY <1>1 DEF CallState
<1>6. calls[c].op \notin {"connect", "saving"} /\ Current(c) => calls[c].server = app.credentials
  BY DEF AppInv, CallsOfConnection
<1>7. \A s \in Server : cache[s].snapshot \in {None, s} /\ cache[s].preferences \in {None, s}
  BY DEF AppInv, ShownIsOfConnection
<1> QED
  BY <1>1, <1>2, <1>3, <1>4, <1>5, <1>6, <1>7 DEF TypeOK

\* The model shows other data of its connection.
LEMMA ShowsOK ==
    ASSUME app \in ModelState,
           NEW shown \in ShownState, app' = [app EXCEPT !.shown = shown],
           shown.snapshot \in {None, app.credentials}, shown.preferences \in {None, app.credentials},
           shown.health \in {None, app.credentials}, shown.settings \in {None, app.credentials},
           shown.readiness \in {None, app.credentials}
    PROVE  /\ app' \in ModelState /\ app' # None
           /\ app'.generation = app.generation /\ app'.credentials = app.credentials
           /\ \A field \in DOMAIN app'.shown : app'.shown[field] \in {None, app'.credentials}
<1>1. DOMAIN shown = {"snapshot", "preferences", "health", "settings", "readiness"}
  BY DEF ShownState
<1>2. \A field \in DOMAIN shown : shown[field] \in {None, app.credentials}
  BY <1>1
<1>3. app' \in ModelState /\ app'.shown = shown
  BY DEF ModelState
<1> QED
  BY <1>2, <1>3, AppAssumption DEF ModelState

LEMMA AppRefreshed ==
    ASSUME AppInv, NEW c \in Call, Refreshed(c)
    PROVE  AppInv'
<1>1. /\ app # None /\ ~Busy /\ calls[c] # None /\ calls[c].op = "refresh"
      /\ Continue(c, calls[c].then, app)
      /\ UNCHANGED <<items, keychain, mirror, tokens, faults>>
  BY DEF Refreshed, InFlight
<1>2. AnswerTaken
  <2>1. CASE ~Current(c)
    <3>1. UNCHANGED <<app, cache>>
      BY <2>1 DEF Refreshed
    <3> QED
      BY <1>1, <3>1 DEF AnswerTaken, AppInv, TypeOK, ShownIsOfConnection
  <2>2. CASE Current(c)
    <3> DEFINE s == calls[c].server
               shown == [app.shown EXCEPT !.snapshot = s, !.health = s, !.settings = s, !.preferences = s]
    <3>1. s \in Server /\ s = app.credentials /\ app \in ModelState /\ app.shown \in ShownState
      BY <1>1, <2>2, FlightOK
    <3>2. /\ app' = [app EXCEPT !.shown = shown]
          /\ cache' = [cache EXCEPT ![s] = [snapshot |-> s, preferences |-> s]]
      BY <2>2, <3>1 DEF Refreshed, ModelState, ShownState
    <3>3. /\ shown \in ShownState /\ shown.readiness = app.shown.readiness
          /\ shown.snapshot = s /\ shown.health = s /\ shown.settings = s /\ shown.preferences = s
      BY <3>1 DEF ShownState, Origin
    <3>4. app.shown.readiness \in {None, app.credentials}
      BY <1>1, FlightOK
    <3> HIDE DEF shown
    <3>5. /\ app' \in ModelState /\ app' # None
          /\ app'.generation = app.generation /\ app'.credentials = app.credentials
          /\ \A field \in DOMAIN app'.shown : app'.shown[field] \in {None, app'.credentials}
      BY <3>1, <3>2, <3>3, <3>4, ShowsOK
    <3>6. /\ cache' \in [Server -> [snapshot : Origin, preferences : Origin]]
          /\ \A t \in Server : cache'[t].snapshot \in {None, t} /\ cache'[t].preferences \in {None, t}
      BY <1>1, <3>1, <3>2, FlightOK DEF Origin
    <3> QED
      BY <3>5, <3>6 DEF AnswerTaken, ShownIsOfConnection
  <2> QED
    BY <2>1, <2>2
<1> QED
  BY <1>1, <1>2, FlightOK, AnswerKeeps

LEMMA AppRefreshFailed ==
    ASSUME AppInv, NEW c \in Call, RefreshFailed(c)
    PROVE  AppInv'
<1>1. /\ app # None /\ ~Busy /\ calls[c] # None /\ calls[c].op = "refresh"
      /\ Continue(c, calls[c].then, app)
      /\ UNCHANGED <<items, keychain, shared, tokens>>
      /\ faults' \in 0..MaxFaults
  BY AppAssumption DEF RefreshFailed, InFlight, Fault, AppInv, TypeOK
<1>2. AnswerTaken
  <2>1. CASE UNCHANGED app
    BY <1>1, <2>1 DEF AnswerTaken, AppInv, TypeOK, ShownIsOfConnection
  <2>2. CASE /\ Current(c)
             /\ app' = [app EXCEPT !.shown.snapshot = cache[app.credentials].snapshot]
    <3> DEFINE s == cache[app.credentials].snapshot
               shown == [app.shown EXCEPT !.snapshot = s]
    <3>1. app.credentials \in Server /\ app \in ModelState /\ app.shown \in ShownState
      BY <1>1, <2>2, FlightOK
    <3>2. s \in {None, app.credentials} /\ s \in Origin
      BY <1>1, <3>1, FlightOK DEF Origin
    <3> HIDE DEF s
    <3>3. app' = [app EXCEPT !.shown = shown]
      BY <2>2, <3>1 DEF s, ModelState, ShownState
    <3>4. /\ shown \in ShownState /\ shown.readiness = app.shown.readiness
          /\ shown.health = app.shown.health /\ shown.settings = app.shown.settings
          /\ shown.preferences = app.shown.preferences /\ shown.snapshot = s
      BY <3>1, <3>2 DEF ShownState
    <3> HIDE DEF shown
    <3>5. /\ app' \in ModelState /\ app' # None
          /\ app'.generation = app.generation /\ app'.credentials = app.credentials
          /\ \A field \in DOMAIN app'.shown : app'.shown[field] \in {None, app'.credentials}
      BY <1>1, <3>1, <3>2, <3>3, <3>4, FlightOK, ShowsOK
    <3> QED
      BY <1>1, <3>5 DEF AnswerTaken, AppInv, TypeOK, ShownIsOfConnection
  <2> QED
    BY <2>1, <2>2 DEF RefreshFailed
<1> QED
  BY <1>1, <1>2, FlightOK, AnswerKeeps

LEMMA AppSettingsPut ==
    ASSUME AppInv, NEW c \in Call, SettingsPut(c)
    PROVE  AppInv'
<1>1. /\ app # None /\ ~Busy /\ calls[c] # None /\ calls[c].op = "apply"
      /\ UNCHANGED <<items, keychain, mirror, tokens, faults>>
  BY DEF SettingsPut, InFlight
<1>2. \E then \in Seq(ThenState) : Continue(c, then, app)
  <2>1. <<>> \in Seq(ThenState) /\ <<Then("refresh")>> \in Seq(ThenState)
    BY DEF Then, ThenState, Method, Serial
  <2> QED
    BY <2>1 DEF SettingsPut
<1>3. AnswerTaken
  <2>1. CASE ~Current(c)
    <3>1. UNCHANGED <<app, cache>>
      BY <2>1 DEF SettingsPut
    <3> QED
      BY <1>1, <3>1 DEF AnswerTaken, AppInv, TypeOK, ShownIsOfConnection
  <2>2. CASE Current(c)
    <3> DEFINE s == calls[c].server
               shown == [app.shown EXCEPT !.settings = s, !.preferences = s]
    <3>1. s \in Server /\ s = app.credentials /\ app \in ModelState /\ app.shown \in ShownState
      BY <1>1, <2>2, FlightOK
    <3>2. /\ app' = [app EXCEPT !.shown = shown]
          /\ cache' = [cache EXCEPT ![s].preferences = s]
      BY <2>2, <3>1 DEF SettingsPut, ModelState, ShownState
    <3>3. /\ shown \in ShownState /\ shown.readiness = app.shown.readiness
          /\ shown.snapshot = app.shown.snapshot /\ shown.health = app.shown.health
          /\ shown.settings = s /\ shown.preferences = s
      BY <3>1 DEF ShownState, Origin
    <3> HIDE DEF shown
    <3>4. /\ app' \in ModelState /\ app' # None
          /\ app'.generation = app.generation /\ app'.credentials = app.credentials
          /\ \A field \in DOMAIN app'.shown : app'.shown[field] \in {None, app'.credentials}
      BY <1>1, <3>1, <3>2, <3>3, FlightOK, ShowsOK
    <3>5. /\ cache' \in [Server -> [snapshot : Origin, preferences : Origin]]
          /\ \A t \in Server : cache'[t].snapshot \in {None, t} /\ cache'[t].preferences \in {None, t}
      BY <1>1, <3>1, <3>2, FlightOK DEF Origin
    <3> QED
      BY <3>4, <3>5 DEF AnswerTaken, ShownIsOfConnection
  <2> QED
    BY <2>1, <2>2
<1> QED
  BY <1>1, <1>2, <1>3, FlightOK, AnswerKeeps

LEMMA AppReadinessFetched ==
    ASSUME AppInv, NEW c \in Call, ReadinessFetched(c)
    PROVE  AppInv'
<1>1. /\ app # None /\ ~Busy /\ calls[c] # None /\ calls[c].op = "readiness"
      /\ Continue(c, calls[c].then, app)
      /\ UNCHANGED <<items, keychain, shared, tokens, faults>>
  BY DEF ReadinessFetched, InFlight
<1>2. AnswerTaken
  <2>1. CASE ~Current(c)
    <3>1. UNCHANGED app
      BY <2>1 DEF ReadinessFetched
    <3> QED
      BY <1>1, <3>1 DEF AnswerTaken, AppInv, TypeOK, ShownIsOfConnection
  <2>2. CASE Current(c)
    <3> DEFINE s == calls[c].server
               shown == [app.shown EXCEPT !.health = s, !.readiness = s]
    <3>1. s \in Server /\ s = app.credentials /\ app \in ModelState /\ app.shown \in ShownState
      BY <1>1, <2>2, FlightOK
    <3>2. app' = [app EXCEPT !.shown = shown]
      BY <2>2, <3>1 DEF ReadinessFetched, ModelState, ShownState
    <3>3. /\ shown \in ShownState /\ shown.readiness = s /\ shown.health = s
          /\ shown.snapshot = app.shown.snapshot
          /\ shown.settings = app.shown.settings /\ shown.preferences = app.shown.preferences
      BY <3>1 DEF ShownState, Origin
    <3> HIDE DEF shown
    <3>4. /\ app' \in ModelState /\ app' # None
          /\ app'.generation = app.generation /\ app'.credentials = app.credentials
          /\ \A field \in DOMAIN app'.shown : app'.shown[field] \in {None, app'.credentials}
      BY <1>1, <3>1, <3>2, <3>3, FlightOK, ShowsOK
    <3> QED
      BY <1>1, <3>4 DEF AnswerTaken, AppInv, TypeOK, ShownIsOfConnection
  <2> QED
    BY <2>1, <2>2
<1> QED
  BY <1>1, <1>2, FlightOK, AnswerKeeps
\* The model and the cache are as they were.
LEMMA NothingShown ==
    ASSUME AppInv, app # None, UNCHANGED <<app, cache>>
    PROVE  AnswerTaken
BY DEF AnswerTaken, AppInv, TypeOK, ShownIsOfConnection

LEMMA AppAsked ==
    ASSUME AppInv, NEW c \in Call, Asked(c)
    PROVE  AppInv'
<1>1. /\ app # None /\ ~Busy /\ calls[c] # None /\ calls[c].op = "ask"
      /\ UNCHANGED <<items, keychain, shared, app, tokens, faults>>
  BY DEF Asked, InFlight
<1>2. PICK next \in {<<>>} \cup (IF Current(c) THEN {<<Then("refresh")>>} ELSE {}) :
          Continue(c, next \o calls[c].then, app)
  BY DEF Asked
<1>3. next \in Seq(ThenState)
  <2>1. <<>> \in Seq(ThenState) /\ <<Then("refresh")>> \in Seq(ThenState)
    BY DEF Then, ThenState, Method, Serial
  <2> HIDE DEF Then
  <2> QED
    BY <1>2, <2>1
<1>4. next \o calls[c].then \in Seq(ThenState)
  BY <1>1, <1>3, FlightOK, ConcatProperties
<1> QED
  BY <1>1, <1>2, <1>4, NothingShown, FlightOK, AnswerKeeps

LEMMA AppDeviceRegistered ==
    ASSUME AppInv, NEW c \in Call, DeviceRegistered(c)
    PROVE  AppInv'
<1>1. /\ app # None /\ ~Busy /\ calls[c] # None /\ calls[c].op = "register"
      /\ Continue(c, calls[c].then, app)
      /\ UNCHANGED <<items, keychain, shared, app, issued, faults>>
  BY DEF DeviceRegistered, InFlight
<1>2. pending' \in Serial /\ registered' \in [Server -> Serial]
  <2>1. /\ pending' \in {None, pending}
        /\ registered' \in {registered, [registered EXCEPT ![calls[c].server] = calls[c].token]}
    BY DEF DeviceRegistered
  <2> QED
    BY <1>1, <2>1, FlightOK DEF Serial
<1> QED
  BY <1>1, <1>2, NothingShown, FlightOK, AnswerKeeps

LEMMA AppRequestFails ==
    ASSUME AppInv, NEW c \in Call, RequestFails(c)
    PROVE  AppInv'
<1>1. /\ app # None /\ ~Busy /\ calls[c] # None
      /\ calls[c].op \in {"apply", "ask", "readiness", "register"}
      /\ Continue(c, calls[c].then, app)
      /\ UNCHANGED <<items, keychain, shared, app, pending, issued>>
      /\ faults' \in 0..MaxFaults
  BY AppAssumption DEF RequestFails, Fault, AppInv, TypeOK
<1>2. registered' \in {registered, [registered EXCEPT ![calls[c].server] = calls[c].token]}
  BY DEF RequestFails
<1>3. registered' \in [Server -> Serial] /\ pending' \in Serial
  BY <1>1, <1>2, FlightOK
<1> QED
  BY <1>1, <1>3, NothingShown, FlightOK, AnswerKeeps

\* A call that begins is of the present connection, or an attempt to connect.
LEMMA AppBegin ==
    ASSUME AppInv, NEW c \in Call, Begin(c) \/ \E s \in Server : Connect(c, s)
    PROVE  AppInv'
<1>1. /\ app # None /\ ~Busy /\ calls[c] = None /\ TypeOK /\ app \in ModelState
      /\ UNCHANGED <<items, keychain, shared, tokens, faults>>
  BY DEF Begin, Connect, AppInv, TypeOK
<1>2. PICK call \in CallState :
          /\ calls' = [calls EXCEPT ![c] = call]
          /\ call.op # "connect" => call.generation = app.generation /\ call.server = app.credentials
  <2>1. CASE Begin(c)
    <3>1. PICK op \in Method, then \in Seq(ThenState) : calls' = [calls EXCEPT ![c] = NewCall(op, then)]
      <4> DEFINE register == <<Then("register")>>
                 readiness == <<Then("readiness")>>
                 nothing == <<>>
      <4>1. /\ register \in Seq(ThenState) /\ readiness \in Seq(ThenState) /\ nothing \in Seq(ThenState)
            /\ {"refresh", "apply", "ask", "register"} \subseteq Method
        BY DEF Then, ThenState, Method, Serial
      <4> HIDE DEF register, readiness, nothing
      <4>2. PICK start \in {<<"refresh", nothing>>, <<"refresh", register>>, <<"apply", nothing>>,
                             <<"ask", readiness>>, <<"register", nothing>>} :
                calls' = [calls EXCEPT ![c] = NewCall(start[1], start[2])]
        BY <2>1 DEF Begin, register, readiness, nothing
      <4>3. start[1] \in Method /\ start[2] \in Seq(ThenState)
        BY <4>1, <4>2
      <4> QED
        BY <4>2, <4>3
    <3>2. NewCall(op, then) \in CallState
      BY <1>1, <2>1, <3>1 DEF Begin, NewCall, CallState, ModelState, Origin, Serial, TypeOK
    <3> QED
      BY <3>1, <3>2 DEF NewCall
  <2>2. CASE \E s \in Server : Connect(c, s)
    <3>1. PICK s \in Server :
              /\ app' = [app EXCEPT !.attempts = @ + 1]
              /\ calls' = [calls EXCEPT ![c] =
                    [op |-> "connect", generation |-> app'.attempts, server |-> s, token |-> None, then |-> <<>>]]
      BY <2>2 DEF Connect
    <3>2. app'.attempts \in Nat
      BY <1>1, <3>1 DEF ModelState
    <3>3. [op |-> "connect", generation |-> app'.attempts, server |-> s, token |-> None, then |-> <<>>] \in CallState
      BY <3>2 DEF CallState, Method, Serial
    <3> QED
      BY <3>1, <3>3
  <2> QED
    BY <2>1, <2>2
<1>3. /\ app' \in ModelState /\ app' # None /\ app'.shown = app.shown
      /\ app'.generation = app.generation /\ app'.credentials = app.credentials
  BY <1>1, AppAssumption DEF Begin, Connect, ModelState
<1>4. TypeOK'
  BY <1>1, <1>2, <1>3 DEF TypeOK
<1>5. CallsOfConnection'
  <2>1. app.generation \in Nat /\ call # None
    BY <1>1, AppAssumption DEF ModelState
  <2> QED
    BY <1>1, <1>2, <1>3, <2>1 DEF AppInv, CallsOfConnection, Current, TypeOK
<1>6. ShownIsOfConnection'
  BY <1>1, <1>3 DEF AppInv, ShownIsOfConnection
<1>7. SavesAreKnown' /\ KeychainInOrder' /\ LoadsFindCredentials'
  <2>1. SavesAreKnown'
    BY <1>1 DEF AppInv, SavesAreKnown, Busy
  <2> QED
    BY <1>1, <2>1, KeychainIdle
<1> QED
  BY <1>4, <1>5, <1>6, <1>7 DEF AppInv

LEMMA AppHealthFetched ==
    ASSUME AppInv, NEW c \in Call, HealthFetched(c)
    PROVE  AppInv'
<1>1. /\ app # None /\ ~Busy /\ calls[c] # None /\ calls[c].op = "connect" /\ TypeOK
      /\ app \in ModelState /\ calls[c] \in CallState
      /\ UNCHANGED <<items, shared, app, tokens>>
      /\ faults' \in 0..MaxFaults
  BY AppAssumption DEF HealthFetched, InFlight, Fault, AppInv, TypeOK
<1>2. ShownIsOfConnection'
  BY <1>1 DEF AppInv, ShownIsOfConnection
<1>3. CASE /\ keychain' = [keychain EXCEPT !["app"] = SaveCall(calls[c].server)]
           /\ calls' = [calls EXCEPT ![c].op = "saving"]
  <2>1. calls[c].server \in Server
    BY <1>1 DEF CallState
  <2>2. /\ keychain' \in [Process -> KeychainState \cup {None}]
        /\ KeychainInOrder' /\ LoadsFindCredentials'
        /\ keychain'["app"] = SaveCall(calls[c].server)
        /\ keychain'["widget"] = keychain["widget"]
    BY <1>1, <1>3, <2>1, CallBegins, SaveCallOK
  <2>3. /\ calls' \in [Call -> CallState \cup {None}]
        /\ calls'[c] # None /\ calls'[c].op = "saving" /\ calls'[c].server = calls[c].server
        /\ \A d \in Call \ {c} : calls'[d] = calls[d]
    BY <1>1, <1>3, AppAssumption DEF CallState, Method, TypeOK
  <2>4. TypeOK'
    BY <1>1, <2>2, <2>3 DEF TypeOK
  <2>5. CallsOfConnection'
    BY <1>1, <2>3 DEF AppInv, CallsOfConnection, Current
  <2>6. SavesAreKnown'
    BY <1>1, <2>2, <2>3 DEF AppInv, SavesAreKnown, Busy, SaveCall
  <2> QED
    BY <1>2, <2>2, <2>4, <2>5, <2>6 DEF AppInv
<1>4. CASE calls' = [calls EXCEPT ![c] = None] /\ UNCHANGED keychain
  <2>1. TypeOK' /\ CallsOfConnection'
    BY <1>1, <1>4 DEF AppInv, TypeOK, CallsOfConnection, Current
  <2>2. SavesAreKnown'
    BY <1>1, <1>4 DEF AppInv, SavesAreKnown, Busy
  <2> QED
    BY <1>1, <1>2, <1>4, <2>1, <2>2, KeychainIdle DEF AppInv
<1> QED
  BY <1>3, <1>4 DEF HealthFetched

\* With a new connection no call in flight is current any more.
LEMMA AppConnected ==
    ASSUME AppInv, NEW c \in Call, Connected(c)
    PROVE  AppInv'
<1>1. /\ app # None /\ Busy /\ calls[c] # None /\ calls[c].op = "saving" /\ TypeOK
      /\ app \in ModelState /\ calls[c] \in CallState
      /\ keychain' = [keychain EXCEPT !["app"] = None]
      /\ UNCHANGED <<items, cache, tokens, faults>>
  BY DEF Connected, Ended, At, Busy, AppInv, TypeOK
<1>2. /\ keychain' \in [Process -> KeychainState \cup {None}]
      /\ KeychainInOrder' /\ LoadsFindCredentials'
      /\ keychain'["app"] = None
      /\ keychain'["widget"] = keychain["widget"]
  BY <1>1, CallIsOver
<1>3. SavesAreKnown'
  BY <1>2 DEF AppInv, SavesAreKnown, Busy
<1>4. CASE At("app", "done")
  <2> DEFINE s == calls[c].server
             shown == [snapshot |-> cache[s].snapshot, preferences |-> cache[s].preferences,
                       health |-> s, settings |-> None, readiness |-> None]
  <2>1. /\ app' = [app EXCEPT !.credentials = s, !.generation = @ + 1, !.shown = shown]
        /\ mirror' = None
        /\ Continue(c, <<Then("refresh"), [op |-> "register", only |-> app'.generation]>>, app')
    BY <1>4 DEF Connected
  <2>2. s \in Server /\ s # None
    BY <1>1, AppAssumption DEF CallState
  <2>3. /\ cache[s].snapshot \in {None, s} /\ cache[s].preferences \in {None, s}
        /\ cache[s].snapshot \in Origin /\ cache[s].preferences \in Origin
    BY <2>2 DEF AppInv, ShownIsOfConnection, Origin
  <2>4. shown \in ShownState /\ \A field \in DOMAIN shown : shown[field] \in {None, s}
    BY <2>2, <2>3 DEF ShownState, Origin
  <2> HIDE DEF shown
  <2>5. /\ app' \in ModelState /\ app'.generation = app.generation + 1 /\ app.generation \in Nat
        /\ app'.credentials = s /\ app'.shown = shown
    <3>1. app.generation \in Nat /\ app.generation + 1 \in Nat /\ s \in Origin
      BY <1>1, <2>2 DEF ModelState, Origin
    <3> QED
      BY <1>1, <2>1, <2>4, <3>1 DEF ModelState
  <2>6. app' # None
    BY <2>5, AppAssumption
  <2>7. <<Then("refresh"), [op |-> "register", only |-> app'.generation]>> \in Seq(ThenState)
    BY <2>5 DEF Then, ThenState, Method, Serial
  <2>8. /\ calls' \in [Call -> CallState \cup {None}]
        /\ \A d \in Call \ {c} : calls'[d] = calls[d]
        /\ calls'[c] # None => calls'[c].generation = app'.generation /\ calls'[c].server = app'.credentials
    BY <1>1, <2>1, <2>5, <2>7, ContinueOK
  <2>9. TypeOK'
    BY <1>1, <1>2, <2>1, <2>5, <2>8 DEF TypeOK, Origin
  <2>10. CallsOfConnection'
    <3>1. \A d \in Call : calls[d] # None => calls[d].generation \in Nat
      BY <1>1 DEF TypeOK, CallState
    <3> QED
      BY <1>1, <2>5, <2>6, <2>8, <3>1 DEF AppInv, CallsOfConnection, Current
  <2>11. ShownIsOfConnection'
    BY <1>1, <2>4, <2>5 DEF AppInv, ShownIsOfConnection
  <2> QED
    BY <1>2, <1>3, <2>9, <2>10, <2>11 DEF AppInv
<1>5. CASE ~At("app", "done")
  <2>1. calls' = [calls EXCEPT ![c] = None] /\ UNCHANGED <<app, mirror>>
    BY <1>5 DEF Connected
  <2>2. TypeOK' /\ CallsOfConnection' /\ ShownIsOfConnection'
    BY <1>1, <1>2, <2>1 DEF AppInv, TypeOK, CallsOfConnection, Current, ShownIsOfConnection
  <2> QED
    BY <1>2, <1>3, <2>2 DEF AppInv
<1> QED
  BY <1>4, <1>5

LEMMA AppTokenIssued ==
    ASSUME AppInv, TokenIssued
    PROVE  AppInv'
<1>1. /\ UNCHANGED <<items, keychain, shared, app, calls, registered, faults>>
      /\ issued' \in 0..MaxTokens /\ pending' \in Serial
  BY AppAssumption DEF TokenIssued, AppInv, TypeOK, Serial
<1>2. TypeOK' /\ CallsOfConnection' /\ ShownIsOfConnection'
  BY <1>1 DEF AppInv, TypeOK, CallsOfConnection, Current, ShownIsOfConnection
<1>3. SavesAreKnown'
  BY <1>1 DEF AppInv, SavesAreKnown, Busy, Stored
<1> QED
  BY <1>1, <1>2, <1>3, KeychainIdle DEF AppInv

-----------------------------------------------------------------------------
(* The theorems.                                                           *)

LEMMA AppStep == AppInv /\ [Next]_vars => AppInv'
<1> SUFFICES ASSUME AppInv, [Next]_vars
             PROVE  AppInv'
  OBVIOUS
<1>1. CASE UNCHANGED vars
  <2>1. TypeOK' /\ CallsOfConnection' /\ ShownIsOfConnection'
    BY <1>1 DEF vars, AppInv, TypeOK, CallsOfConnection, Current, ShownIsOfConnection
  <2>2. SavesAreKnown'
    BY <1>1 DEF vars, AppInv, SavesAreKnown, Busy, Stored
  <2> QED
    BY <1>1, <2>1, <2>2, KeychainIdle DEF vars, AppInv
<1>2. CASE \E p \in Process : Keychain(p)
  BY <1>2, AppKeychain
<1>3. CASE WidgetLoads \/ WidgetEnds
  BY <1>3, AppWidget
<1>4. CASE Launch \/ Launched \/ Kill
  BY <1>4, AppLaunch, AppLaunched, AppKill
<1>5. ASSUME NEW c \in Call, Begin(c) \/ \E s \in Server : Connect(c, s)
      PROVE  AppInv'
  BY <1>5, AppBegin
<1>6. ASSUME NEW c \in Call, Answer(c)
      PROVE  AppInv'
  BY <1>6, AppHealthFetched, AppConnected, AppRefreshed, AppRefreshFailed, AppSettingsPut, AppAsked,
     AppReadinessFetched, AppDeviceRegistered, AppRequestFails DEF Answer
<1>7. CASE TokenIssued
  BY <1>7, AppTokenIssued
<1> QED
  BY <1>1, <1>2, <1>3, <1>4, <1>5, <1>6, <1>7 DEF Next

\* AppInv holds throughout.
THEOREM AppCorrect == Spec => []AppInv
BY AppInit, AppStep, PTL DEF Spec

\* The types of the Keychain, the model, its calls and what is saved.
THEOREM AppTypeCorrect == Spec => []TypeOK
<1>1. AppInv => TypeOK
  BY DEF AppInv
<1> QED
  BY <1>1, AppCorrect, PTL

\* What AppModel shows and saves was fetched with the connection it has, for
\* any number of servers and of calls in flight.
THEOREM ShownCorrect == Spec => []ShownIsOfConnection
<1>1. AppInv => ShownIsOfConnection
  BY DEF AppInv
<1> QED
  BY <1>1, AppCorrect, PTL

\* KeychainStore.load finds the credentials that were there when it began,
\* however the migrations of app and widget interleave.
THEOREM LoadsCorrect == Spec => []LoadsFindCredentials
<1>1. AppInv => LoadsFindCredentials
  BY DEF AppInv
<1> QED
  BY <1>1, AppCorrect, PTL

\* Nothing but a connection of the user replaces the pair in the Keychain, save
\* for a launch that failed to load it and has mirrored credentials.
THEOREM ReplaceCorrect == Spec => OnlyUsersReplace
<1> DEFINE Replaced ==
      pair # None /\ pair' # pair =>
         \/ app # None /\ \E c \in Call : calls[c] # None /\ calls[c].op = "saving" /\ pair' = calls[c].server
         \/ app = None /\ Busy /\ keychain["app"].op = "save" /\ keychain["app"].had /\ pair' = mirror
<1>1. ASSUME AppInv, [Next]_vars
      PROVE  Replaced
  <2> SUFFICES ASSUME pair # None, pair' # pair
               PROVE  Replaced
    OBVIOUS
  <2>1. PICK p \in Process : Load(p) \/ Save(p) \/ ClearLegacy(p) \/ KeychainFails(p)
    BY <1>1 DEF Next, vars, Keychain, WidgetLoads, WidgetEnds, Launch, Launched, Kill, Begin, Connect,
                Answer, HealthFetched, Connected, Refreshed, RefreshFailed, SettingsPut, Asked,
                ReadinessFetched, DeviceRegistered, RequestFails, TokenIssued
  <2>2. /\ keychain[p] # None /\ keychain[p].op = "save" /\ keychain[p].at \in SavePlace
        /\ pair' = keychain[p].value
    BY <1>1, <2>1, LoadStep, SaveStep, ClearStep, FailStep DEF CallMoves
  <2>3. p = "app" /\ Busy
    BY <1>1, <2>2 DEF AppInv, SavesAreKnown, Busy
  <2>4. keychain["app"].had \in BOOLEAN /\ Stored
    BY <1>1, <2>2, <2>3, CallThere DEF KeychainState, Stored
  <2> QED
    BY <1>1, <2>2, <2>3, <2>4 DEF AppInv, SavesAreKnown
<1>2. AppInv /\ [Next]_vars => [Replaced]_vars
  BY <1>1
<1> QED
  BY <1>2, AppCorrect, PTL DEF Spec, OnlyUsersReplace

\* registerTokensIfNeeded drops the pending widget token only when the server
\* of the present connection has one.
THEOREM DroppedTokenCorrect == Spec => DroppedTokenArrived
<1> DEFINE Arrived == pending # None /\ pending' = None => registered'[app.credentials] # None
<1>1. ASSUME AppInv, [Next]_vars
      PROVE  Arrived
  <2> SUFFICES ASSUME pending # None, pending' = None
               PROVE  registered'[app.credentials] # None
    OBVIOUS
  <2>1. issued' = issued + 1 => issued' # None
    BY <1>1, AppAssumption DEF AppInv, TypeOK
  <2>2. PICK c \in Call : DeviceRegistered(c)
    BY <1>1, <2>1 DEF Next, vars, Keychain, WidgetLoads, WidgetEnds, Launch, Launched, Kill, Begin, Connect,
                Answer, HealthFetched, Connected, Refreshed, RefreshFailed, SettingsPut, Asked,
                ReadinessFetched, RequestFails, TokenIssued
  <2>3. app # None /\ calls[c] # None /\ calls[c].op = "register"
    BY <2>2 DEF DeviceRegistered, InFlight
  <2>4. Current(c) /\ calls[c].token # None
    BY <2>2 DEF DeviceRegistered
  <2>5. /\ calls[c].server = app.credentials /\ calls[c].server \in Server
        /\ registered \in [Server -> Serial]
    BY <1>1, <2>3, <2>4, FlightOK
  <2> QED
    BY <2>2, <2>4, <2>5 DEF DeviceRegistered
<1>2. AppInv /\ [Next]_vars => [Arrived]_vars
  BY <1>1
<1> QED
  BY <1>2, AppCorrect, PTL DEF Spec, DroppedTokenArrived
=============================================================================
