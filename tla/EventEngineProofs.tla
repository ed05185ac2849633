-------------------------- MODULE EventEngineProofs -------------------------
(***************************************************************************)
(* What EventEngine does for every set of providers, reports and settings; *)
(* and that its transaction implements AlertTransitions: what is committed *)
(* is one observation of the whole report.                                 *)
(***************************************************************************)
EXTENDS EventEngine, TLAPS

-----------------------------------------------------------------------------
(* Keys and saved windows.                                                 *)

\* Truncation to the second keeps an instant an instant.
LEMMA SecondType ==
    ASSUME NEW r \in Nat \cup {None}
    PROVE  ToSecond(r) \in Nat \cup {None}
<1>1. CASE r = None
  BY <1>1 DEF ToSecond
<1>2. CASE r # None
  <2>1. r \in Nat /\ TicksPerSecond \in Nat \ {0}
    BY <1>2, RulesAssumption
  <2>2. r % TicksPerSecond \in Nat /\ r % TicksPerSecond <= r
    BY <2>1
  <2>3. r - (r % TicksPerSecond) \in Nat
    BY <2>1, <2>2
  <2> QED
    BY <1>2, <2>3 DEF ToSecond
<1> QED
  BY <1>1, <1>2

\* A saved window is a window.
LEMMA SavedType ==
    ASSUME NEW w \in Window
    PROVE  Saved(w) \in Window
BY SecondType DEF Saved, Window

\* Saving what was saved changes nothing.
LEMMA SavedTwice ==
    ASSUME NEW w \in Window
    PROVE  Saved(Saved(w)) = Saved(w)
<1>1. ASSUME NEW r \in Nat
      PROVE  (r - (r % TicksPerSecond)) % TicksPerSecond = 0
  <2>1. TicksPerSecond \in Nat \ {0} /\ (r \div TicksPerSecond) \in Int
    BY RulesAssumption
  <2>2. r = TicksPerSecond * (r \div TicksPerSecond) + (r % TicksPerSecond)
    BY <2>1
  <2>3. r - (r % TicksPerSecond) = TicksPerSecond * (r \div TicksPerSecond)
    BY <2>1, <2>2
  <2>4. ASSUME NEW q \in Int
        PROVE  (TicksPerSecond * q) % TicksPerSecond = 0
    BY <2>1
  <2> QED
    BY <2>1, <2>3, <2>4
<1>2. w.resetsAt \in Nat \cup {None}
  BY DEF Window
<1>3. ToSecond(ToSecond(w.resetsAt)) = ToSecond(w.resetsAt)
  <2>1. CASE w.resetsAt = None
    BY <2>1 DEF ToSecond
  <2>2. CASE w.resetsAt # None
    <3>1. w.resetsAt \in Nat /\ ToSecond(w.resetsAt) \in Nat \cup {None}
      BY <1>2, <2>2, SecondType
    <3>2. ToSecond(w.resetsAt) = w.resetsAt - (w.resetsAt % TicksPerSecond)
      BY <2>2 DEF ToSecond
    <3>3. CASE ToSecond(w.resetsAt) = None
      BY <3>3 DEF ToSecond
    <3>4. CASE ToSecond(w.resetsAt) # None
      <4>1. ToSecond(w.resetsAt) % TicksPerSecond = 0
        BY <1>1, <3>1, <3>2
      <4>2. ToSecond(w.resetsAt) - 0 = ToSecond(w.resetsAt)
        BY <3>1, <3>4
      <4> QED
        BY <3>4, <4>1, <4>2 DEF ToSecond
    <3> QED
      BY <3>3, <3>4
  <2> QED
    BY <2>1, <2>2
<1> QED
  BY <1>3 DEF Saved, Window

\* Window events have window keys, never credits keys.
LEMMA DetectedKeys ==
    ASSUME NEW p \in Provider, NEW prev \in Window, NEW w \in Window,
           NEW rule, NEW t
    PROVE  /\ DetectWindowEvents(p, prev, w, rule, t) \subseteq Key
           /\ \A k \in DetectWindowEvents(p, prev, w, rule, t) : k[1] # "credits"
<1> SUFFICES ASSUME NEW kind \in Kind
             PROVE  LET r == IF kind \in {"early", "danger"} THEN w.resetsAt ELSE prev.resetsAt
                    IN WindowKey(kind, p, r) \in Key /\ WindowKey(kind, p, r)[1] # "credits"
  BY DEF DetectWindowEvents
<1> DEFINE r == IF kind \in {"early", "danger"} THEN w.resetsAt ELSE prev.resetsAt
<1>1. r \in Nat \cup {None}
  BY DEF Window
<1>2. ToSecond(r) \in Nat \cup {None}
  BY <1>1, SecondType
<1> QED
  BY <1>2 DEF WindowKey, Kind, Key

-----------------------------------------------------------------------------
(* Types.                                                                  *)

\* A transaction starts with a work list drawn from the snapshot.
LEMMA BeginOK ==
    ASSUME TypeOK, InTransaction, Begin
    PROVE  TypeOK' /\ InTransaction'
<1> PICK snapshot \in [Provider -> Readings \cup {None}], s \in SettingsChoices, t \in Instants :
        /\ now' = t
        /\ poll' = [snapshot |-> snapshot, settings |-> s]
        /\ LET heard == Heard(snapshot, s)
           IN todo' = ({"window"} \X {p \in heard : snapshot[p].window # None})
                      \cup ({"credits"} \X {p \in heard : snapshot[p].credits # None})
  BY DEF Begin
<1>1. TypeOK'
  BY InputsAssumption DEF TypeOK, Begin, Poll, Item, Heard
<1>2. \A p \in Provider :
        /\ <<"window", p>> \in todo' => snapshot[p].window \in Window
        /\ <<"credits", p>> \in todo' => snapshot[p].credits \in Nat
  BY InputsAssumption DEF Heard, Reading
<1>3. InTransaction'
  BY <1>2 DEF Begin, InTransaction, Accounted
<1> QED
  BY <1>1, <1>3

\* The events of a window have window keys.
LEMMA WindowEventKeys ==
    ASSUME TypeOK, NEW p \in Provider, NEW w \in Window, NEW s
    PROVE  /\ WindowEvents(p, w, s) \subseteq Key
           /\ \A k \in WindowEvents(p, w, s) : k[1] # "credits"
<1>1. CASE tx.baseline[p] = None
  BY <1>1 DEF WindowEvents
<1>2. CASE tx.baseline[p] # None
  <2>1. tx.baseline[p] \in Window
    BY <1>2 DEF TypeOK, Database
  <2> QED
    BY <2>1, DetectedKeys DEF WindowEvents
<1> QED
  BY <1>1, <1>2

\* One window of the loop: its fresh keys are claimed and emitted together.
LEMMA ProcessWindowOK ==
    ASSUME TypeOK, InTransaction, NEW p \in Provider, ProcessWindow(p)
    PROVE  TypeOK' /\ InTransaction'
<1> DEFINE w     == poll.snapshot[p].window
           fresh == Claim(WindowEvents(p, w, poll.settings))
<1>1. w \in Window
  BY DEF InTransaction, ProcessWindow
<1>2. fresh \subseteq Key /\ fresh \cap tx.claimed = {} /\ \A k \in fresh : k[1] # "credits"
  BY <1>1, WindowEventKeys DEF Claim
<1>3. /\ tx' = [tx EXCEPT !.baseline[p] = Saved(w), !.claimed = @ \cup fresh]
      /\ emitted' = emitted \cup fresh
  BY DEF ProcessWindow
<1>4. /\ tx' \in Database
      /\ tx'.claimed = tx.claimed \cup fresh
      /\ tx'.queued = tx.queued /\ tx'.requeued = tx.requeued /\ tx'.credits = tx.credits
      /\ tx'.baseline = [tx.baseline EXCEPT ![p] = Saved(w)]
  <2> HIDE DEF w, fresh
  <2>1. Saved(w) \in Window
    BY <1>1, SavedType
  <2> QED
    BY <1>2, <1>3, <2>1 DEF TypeOK, Database
<1> HIDE DEF w, fresh
<1>5. TypeOK'
  BY <1>2, <1>3, <1>4 DEF TypeOK, ProcessWindow
<1>6. \A q \in Provider : tx'.baseline[q] # None => Saved(tx'.baseline[q]) = tx'.baseline[q]
  BY <1>1, <1>4, SavedTwice DEF TypeOK, Database, InTransaction, Accounted
<1>7. Accounted(tx', emitted')
  BY <1>2, <1>3, <1>4, <1>6 DEF InTransaction, Accounted
<1> QED
  BY <1>5, <1>7 DEF InTransaction, ProcessWindow, Accounted

\* The credits of a provider: a rise claims a key above the saved count, and
\* any fall drops the keys above the new one.
LEMMA ProcessCreditsOK ==
    ASSUME TypeOK, InTransaction, NEW p \in Provider, ProcessCredits(p)
    PROVE  TypeOK' /\ InTransaction'
<1> DEFINE n     == poll.snapshot[p].credits
           s     == poll.settings
           rose  == tx.credits[p] # None /\ s.on /\ s.creditsOn[p] /\ n > tx.credits[p]
           fresh == Claim(IF rose THEN {CreditsKey(p, n)} ELSE {})
           mid   == [tx EXCEPT !.claimed = @ \cup fresh]
           gone  == {k \in mid.claimed : /\ k[1] = "credits" /\ k[2] = p
                                         /\ mid.credits[p] # None /\ mid.credits[p] > n}
<1>1. n \in Nat
  BY DEF InTransaction, ProcessCredits
<1>2. tx.credits[p] \in Nat \cup {None}
  BY DEF TypeOK, Database
<1>3. /\ fresh \subseteq {CreditsKey(p, n)} /\ fresh \cap tx.claimed = {}
      /\ fresh # {} => tx.credits[p] \in Nat /\ n > tx.credits[p]
  BY <1>2 DEF Claim
<1>4. fresh \subseteq Key
  <2>1. CreditsKey(p, n) \in Key
    BY <1>1 DEF CreditsKey, Key
  <2> HIDE DEF fresh, n
  <2> QED
    BY <1>3, <2>1
<1>5. /\ tx' = [mid EXCEPT !.credits[p] = n, !.claimed = @ \ gone]
      /\ emitted' = emitted \cup fresh
  BY DEF ProcessCredits, SetCreditsState
<1>6. /\ mid.claimed = tx.claimed \cup fresh /\ mid.credits = tx.credits
      /\ gone \subseteq mid.claimed
      /\ \A k \in gone : k[1] = "credits"
      /\ tx.credits[p] # None /\ tx.credits[p] > n =>
            \A k \in mid.claimed : k[1] = "credits" /\ k[2] = p => k \in gone
  BY DEF TypeOK, Database
<1>7. /\ tx' \in Database
      /\ tx'.claimed = (tx.claimed \cup fresh) \ gone
      /\ tx'.credits = [tx.credits EXCEPT ![p] = n]
      /\ tx'.queued = tx.queued /\ tx'.requeued = tx.requeued /\ tx'.baseline = tx.baseline
  <2> HIDE DEF n, fresh, gone
  <2> QED
    BY <1>1, <1>4, <1>5 DEF TypeOK, Database
<1> HIDE DEF n, s, rose, fresh, mid, gone
<1>8. TypeOK'
  BY <1>4, <1>5, <1>7 DEF TypeOK, ProcessCredits
<1>9. \A k \in fresh : k[1] = "credits" /\ k[2] = p /\ k[3] = n
  BY <1>3 DEF CreditsKey
<1>10. \A k \in tx'.claimed : k[1] = "credits" => tx'.credits[k[2]] # None /\ k[3] <= tx'.credits[k[2]]
  <2> SUFFICES ASSUME NEW k \in tx'.claimed, k[1] = "credits"
               PROVE  tx'.credits[k[2]] # None /\ k[3] <= tx'.credits[k[2]]
    OBVIOUS
  <2>1. k \in Key /\ k[2] \in Provider
    BY <1>7 DEF Database, Key, Kind
  <2>2. CASE k \in fresh
    BY <2>2, <1>1, <1>7, <1>9, RulesAssumption DEF TypeOK, Database
  <2>3. CASE k \in tx.claimed /\ k[2] # p
    BY <2>1, <2>3, <1>7 DEF InTransaction, Accounted, TypeOK, Database
  <2>4. CASE k \in tx.claimed /\ k[2] = p
    <3>1. tx.credits[p] # None /\ k[3] <= tx.credits[p] /\ ~ (tx.credits[p] > n)
      BY <2>4, <1>6, <1>7 DEF InTransaction, Accounted
    <3>2. k[3] \in Nat
      BY <2>1 DEF Key, Kind
    <3> QED
      BY <2>4, <3>1, <3>2, <1>1, <1>2, <1>7, RulesAssumption DEF TypeOK, Database
  <2> QED
    BY <1>7, <2>2, <2>3, <2>4
<1>11. Accounted(tx', emitted')
  BY <1>3, <1>5, <1>6, <1>7, <1>9, <1>10 DEF InTransaction, Accounted
<1> QED
  BY <1>8, <1>11 DEF InTransaction, ProcessCredits, Accounted

\* One alert queued: a window key for the first time, unlike a credits key.
LEMMA EnqueueOK ==
    ASSUME TypeOK, InTransaction, NEW k \in emitted, Enqueue(k)
    PROVE  TypeOK' /\ InTransaction'
<1>1. /\ tx' = [tx EXCEPT !.queued = @ \cup {k}, !.requeued = @ \cup ({k} \cap tx.queued)]
      /\ emitted' = emitted \ {k}
  BY DEF Enqueue
<1>2. /\ tx' \in Database
      /\ tx'.queued = tx.queued \cup {k}
      /\ tx'.requeued = tx.requeued \cup ({k} \cap tx.queued)
      /\ tx'.claimed = tx.claimed /\ tx'.credits = tx.credits /\ tx'.baseline = tx.baseline
  BY <1>1 DEF TypeOK, Database
<1>3. TypeOK'
  BY <1>2 DEF TypeOK, Enqueue
<1>4. Accounted(tx', emitted')
  BY <1>1, <1>2 DEF InTransaction, Accounted
<1> QED
  BY <1>3, <1>4 DEF InTransaction, Enqueue, Accounted

\* Committing what is accounted for, or dropping it.
LEMMA EndOK ==
    ASSUME TypeOK, InTransaction, Commit \/ Rollback
    PROVE  TypeOK' /\ InTransaction'
BY DEF TypeOK, InTransaction, Accounted, Commit, Rollback, Ended

\* An empty database is accounted for.
LEMMA EngineInit == Init => TypeOK /\ InTransaction
BY DEF Init, TypeOK, InTransaction, Accounted, Database

\* The invariant is inductive.
LEMMA EngineStep ==
    TypeOK /\ InTransaction /\ [Next]_vars => TypeOK' /\ InTransaction'
<1> SUFFICES ASSUME TypeOK, InTransaction, [Next]_vars
             PROVE  TypeOK' /\ InTransaction'
  OBVIOUS
<1>1. CASE Begin
  BY <1>1, BeginOK
<1>2. ASSUME NEW p \in Provider, ProcessWindow(p)
      PROVE  TypeOK' /\ InTransaction'
  BY <1>2, ProcessWindowOK
<1>3. ASSUME NEW p \in Provider, ProcessCredits(p)
      PROVE  TypeOK' /\ InTransaction'
  BY <1>3, ProcessCreditsOK
<1>4. ASSUME NEW k \in emitted, Enqueue(k)
      PROVE  TypeOK' /\ InTransaction'
  BY <1>4, EnqueueOK
<1>5. CASE Commit \/ Rollback
  BY <1>5, EndOK
<1>6. CASE UNCHANGED vars
  BY <1>6 DEF vars, TypeOK, InTransaction, Accounted
<1> QED
  BY <1>1, <1>2, <1>3, <1>4, <1>5, <1>6 DEF Next

\* Both databases are accounted for in every state.
LEMMA EngineInvariant == Spec => [](TypeOK /\ InTransaction)
BY EngineInit, EngineStep, PTL DEF Spec

\* The engine's state keeps its type.
THEOREM EngineTypeCorrect == Spec => []TypeOK
BY EngineInvariant, PTL

\* A claim without its alert is never committed.
THEOREM ClaimsCorrect == Spec => []ClaimedWasQueued
<1>1. InTransaction => ClaimedWasQueued
  BY DEF InTransaction, Accounted, ClaimedWasQueued
<1> QED
  BY <1>1, EngineInvariant, PTL

\* No window key is queued a second time.
THEOREM OncePerCycleCorrect == Spec => []AtMostOncePerCycle
<1>1. InTransaction => AtMostOncePerCycle
  BY DEF InTransaction, Accounted, AtMostOncePerCycle
<1> QED
  BY <1>1, EngineInvariant, PTL

\* Claimed credits keys never exceed the saved count.
THEOREM RisesCorrect == Spec => []RisesArmed
<1>1. InTransaction => RisesArmed
  BY DEF InTransaction, Accounted, RisesArmed
<1> QED
  BY <1>1, EngineInvariant, PTL

-----------------------------------------------------------------------------
(* The abstract step read with the engine's own operators.                 *)

\* Both modules detect window events by the same rules.
LEMMA SameRules ==
    ASSUME NEW p, NEW prev, NEW reading, NEW s, NEW t
    PROVE  Transitions!WindowCalls(p, prev, reading, s, t) =
             IF prev # None /\ s.on /\ s.rule[p].enabled
             THEN DetectWindowEvents(p, prev, reading.window, s.rule[p], t)
             ELSE {}
BY Zenon DEF Transitions!WindowCalls, Transitions!DetectWindowEvents, DetectWindowEvents,
   Transitions!Kind, Kind, Transitions!Detected, Detected, Transitions!WindowKey, WindowKey,
   Transitions!ToSecond, ToSecond, Transitions!CrossesEarly, CrossesEarly,
   Transitions!CrossesDanger, CrossesDanger, Transitions!RemainingPercent, RemainingPercent,
   Transitions!ResetDetected, ResetDetected, Transitions!SurpriseDetected, SurpriseDetected,
   Transitions!IsSurpriseReset, IsSurpriseReset

\* Both save the same of a window.
LEMMA SameSaved ==
    ASSUME NEW w
    PROVE  Transitions!Saved(w) = Saved(w)
BY Zenon DEF Transitions!Saved, Saved, Transitions!ToSecond, ToSecond

\* A credits observation calls for at most the key of the count it reports.
LEMMA RaisedKeys ==
    ASSUME NEW p, NEW prev, NEW reading, NEW s
    PROVE  Transitions!CreditsCalls(p, prev, reading, s) =
             IF prev # None /\ s.on /\ s.creditsOn[p] /\ reading.credits > prev
             THEN {CreditsKey(p, reading.credits)}
             ELSE {}
BY Zenon DEF Transitions!CreditsCalls, Transitions!CreditsKey, CreditsKey

\* The work list starts with what the abstract step looks at.
LEMMA SameHeard ==
    ASSUME NEW snapshot, NEW s
    PROVE  /\ Transitions!WindowsHeard(snapshot, s) =
                {p \in Heard(snapshot, s) : snapshot[p].window # None}
           /\ Transitions!CreditsHeard(snapshot, s) =
                {p \in Heard(snapshot, s) : snapshot[p].credits # None}
BY DEF Transitions!WindowsHeard, Transitions!CreditsHeard, Transitions!Heard, Heard

\* Re-arming takes all claimed credits keys of the provider, or none.
LEMMA RearmedKeys ==
    ASSUME NEW p
    PROVE  RearmedBy(p) = IF db.credits[p] # None /\ db.credits[p] > poll.snapshot[p].credits
                          THEN {k \in db.claimed : k[1] = "credits" /\ k[2] = p}
                          ELSE {}
BY DEF RearmedBy, Transitions!Rearmed

\* What the abstract step calls for a window are window keys.
LEMMA CalledKeys ==
    ASSUME TypeOK, pc = "processing", NEW p \in Transitions!WindowsHeard(poll.snapshot, poll.settings)
    PROVE  \A k \in CalledBy(p) : k[1] # "credits"
<1>1. p \in Provider /\ poll.snapshot[p].window \in Window
  BY InputsAssumption, SameHeard DEF TypeOK, Poll, Heard, Reading
<1>2. CASE db.baseline[p] = None
  BY <1>2, SameRules DEF CalledBy
<1>3. CASE db.baseline[p] # None
  <2>1. db.baseline[p] \in Window
    BY <1>1, <1>3 DEF TypeOK, Database
  <2> QED
    BY <1>1, <2>1, SameRules, DetectedKeys DEF CalledBy
<1> QED
  BY <1>2, <1>3

\* What it calls for credits are credits keys of that provider.
LEMMA RaisedByKeys ==
    ASSUME NEW p
    PROVE  \A k \in RaisedBy(p) : k[1] = "credits" /\ k[2] = p
BY RaisedKeys DEF RaisedBy, CreditsKey

-----------------------------------------------------------------------------
(* Every step of the transaction keeps to the abstract step.               *)

\* Nothing is observed yet when the transaction begins.
LEMMA BeginProgress ==
    ASSUME TypeOK, Begin
    PROVE  Progress'
<1> PICK snapshot \in [Provider -> Readings \cup {None}], s \in SettingsChoices, t \in Instants :
        /\ now' = t
        /\ poll' = [snapshot |-> snapshot, settings |-> s]
        /\ LET heard == Heard(snapshot, s)
           IN todo' = ({"window"} \X {p \in heard : snapshot[p].window # None})
                      \cup ({"credits"} \X {p \in heard : snapshot[p].credits # None})
  BY DEF Begin
<1>1. /\ Transitions!WindowsHeard(snapshot, s) = {p \in Heard(snapshot, s) : snapshot[p].window # None}
      /\ Transitions!CreditsHeard(snapshot, s) = {p \in Heard(snapshot, s) : snapshot[p].credits # None}
  BY SameHeard
<1>2. poll'.snapshot = snapshot /\ poll'.settings = s
  OBVIOUS
<1>3. WindowsDone' = {} /\ CreditsDone' = {}
  BY <1>1, <1>2 DEF WindowsDone, CreditsDone
<1>4. Called' = {}
  BY <1>3 DEF Called
<1>5. tx' = db' /\ emitted' = {}
  BY DEF Begin, TypeOK
<1>6. \A p \in Provider :
        /\ <<"window", p>> \in todo' => p \in Transitions!WindowsHeard(snapshot, s)
        /\ <<"credits", p>> \in todo' => p \in Transitions!CreditsHeard(snapshot, s)
  BY <1>1
<1> QED
  BY <1>2, <1>3, <1>4, <1>5, <1>6 DEF Progress, ObservedSoFar

\* A window processed is a window observed, with the keys it calls for.
LEMMA WindowProgress ==
    ASSUME TypeOK, InTransaction, Progress, NEW p \in Provider, ProcessWindow(p)
    PROVE  Progress'
<1> DEFINE w     == poll.snapshot[p].window
           calls == WindowEvents(p, w, poll.settings)
           fresh == Claim(calls)
           gone  == (UNION {RearmedBy(q) : q \in CreditsDone})
<1>1. /\ pc = "processing"
      /\ p \in Transitions!WindowsHeard(poll.snapshot, poll.settings)
      /\ p \notin WindowsDone
      /\ tx.baseline[p] = db.baseline[p]
  <2>1. pc = "processing"
    BY DEF ProcessWindow, TypeOK
  <2> QED
    BY <2>1 DEF ProcessWindow, Progress, ObservedSoFar, WindowsDone
<1>2. calls = CalledBy(p)
  BY <1>1, SameRules DEF WindowEvents, CalledBy
<1>3. /\ UNCHANGED <<db, pc, poll, now>>
      /\ tx' = [tx EXCEPT !.baseline[p] = Saved(w), !.claimed = @ \cup fresh]
      /\ emitted' = emitted \cup fresh
      /\ todo' = todo \ {<<"window", p>>}
  BY DEF ProcessWindow
<1>4. /\ tx'.baseline = [tx.baseline EXCEPT ![p] = Saved(w)]
      /\ tx'.claimed = tx.claimed \cup fresh
      /\ tx'.credits = tx.credits /\ tx'.queued = tx.queued
  <2> HIDE DEF w, fresh
  <2> QED
    BY <1>3 DEF TypeOK, Database
<1>5. WindowsDone' = WindowsDone \cup {p} /\ CreditsDone' = CreditsDone
  BY <1>1, <1>3 DEF WindowsDone, CreditsDone
<1>6. /\ \A q : CalledBy(q)' = CalledBy(q)
      /\ \A q : RaisedBy(q)' = RaisedBy(q)
      /\ \A q : RearmedBy(q)' = RearmedBy(q)
  BY <1>3 DEF CalledBy, RaisedBy, RearmedBy
<1>7. Called' = Called \cup calls
  <2> HIDE DEF calls
  <2>1. Called' = (UNION {CalledBy(q) : q \in WindowsDone \cup {p}}) \cup (UNION {RaisedBy(q) : q \in CreditsDone})
    BY <1>5, <1>6 DEF Called
  <2> QED
    BY <2>1, <1>2 DEF Called
<1>8. (UNION {RearmedBy(q)' : q \in CreditsDone'}) = gone
  BY <1>5, <1>6
<1>9. /\ \A k \in calls : k[1] # "credits"
      /\ \A k \in gone : k[1] = "credits"
  BY <1>1, <1>2, CalledKeys, RearmedKeys
<1>10. /\ tx.claimed = (db.claimed \cup Called) \ gone
       /\ tx.queued \cup emitted = db.queued \cup (Called \ db.claimed)
       /\ fresh = calls \ tx.claimed
  BY <1>1 DEF Progress, ObservedSoFar, Claim
<1> HIDE DEF w, calls, fresh, gone
<1>11. tx'.claimed = (db'.claimed \cup Called') \ gone
  BY <1>3, <1>4, <1>7, <1>9, <1>10
<1>12. tx'.queued \cup emitted' = db'.queued \cup (Called' \ db'.claimed)
  BY <1>3, <1>4, <1>7, <1>9, <1>10
<1>13. \A q \in Provider :
        /\ <<"window", q>> \in todo' => q \in Transitions!WindowsHeard(poll.snapshot, poll.settings)
        /\ <<"credits", q>> \in todo' => q \in Transitions!CreditsHeard(poll.snapshot, poll.settings)
        /\ tx'.baseline[q] = IF q \in WindowsDone' THEN Saved(poll.snapshot[q].window) ELSE db.baseline[q]
        /\ tx'.credits[q] = IF q \in CreditsDone' THEN poll.snapshot[q].credits ELSE db.credits[q]
  BY <1>1, <1>3, <1>4, <1>5 DEF Progress, ObservedSoFar, TypeOK, Database, w
<1> QED
  BY <1>3, <1>8, <1>11, <1>12, <1>13 DEF Progress, ObservedSoFar

\* Credits processed are credits observed: a rise adds its key, a fall takes
\* the keys claimed before the transaction, for there are no later ones.
LEMMA CreditsProgress ==
    ASSUME TypeOK, InTransaction, Progress, NEW p \in Provider, ProcessCredits(p)
    PROVE  Progress'
<1> DEFINE n     == poll.snapshot[p].credits
           s     == poll.settings
           rose  == tx.credits[p] # None /\ s.on /\ s.creditsOn[p] /\ n > tx.credits[p]
           calls == IF rose THEN {CreditsKey(p, n)} ELSE {}
           fresh == Claim(calls)
           mid   == [tx EXCEPT !.claimed = @ \cup fresh]
           lost  == {k \in mid.claimed : /\ k[1] = "credits" /\ k[2] = p
                                         /\ mid.credits[p] # None /\ mid.credits[p] > n}
           gone  == (UNION {RearmedBy(q) : q \in CreditsDone})
<1>1. /\ pc = "processing"
      /\ p \in Transitions!CreditsHeard(poll.snapshot, poll.settings)
      /\ p \notin CreditsDone
      /\ tx.credits[p] = db.credits[p]
  <2>1. pc = "processing"
    BY DEF ProcessCredits, TypeOK
  <2> QED
    BY <2>1 DEF ProcessCredits, Progress, ObservedSoFar, CreditsDone
<1>2. calls = RaisedBy(p)
  BY <1>1, RaisedKeys DEF RaisedBy
<1>3. /\ UNCHANGED <<db, pc, poll, now>>
      /\ tx' = [mid EXCEPT !.credits[p] = n, !.claimed = @ \ lost]
      /\ emitted' = emitted \cup fresh
      /\ todo' = todo \ {<<"credits", p>>}
  BY DEF ProcessCredits, SetCreditsState
<1>4. /\ mid.claimed = tx.claimed \cup fresh
      /\ mid.credits = tx.credits
  BY DEF TypeOK, Database
<1>5. /\ tx'.credits = [tx.credits EXCEPT ![p] = n]
      /\ tx'.claimed = (tx.claimed \cup fresh) \ lost
      /\ tx'.baseline = tx.baseline /\ tx'.queued = tx.queued
  <2> HIDE DEF n, fresh, lost
  <2> QED
    BY <1>3 DEF TypeOK, Database
<1>6. CreditsDone' = CreditsDone \cup {p} /\ WindowsDone' = WindowsDone
  BY <1>1, <1>3 DEF WindowsDone, CreditsDone
<1>7. /\ \A q : CalledBy(q)' = CalledBy(q)
      /\ \A q : RaisedBy(q)' = RaisedBy(q)
      /\ \A q : RearmedBy(q)' = RearmedBy(q)
  BY <1>3 DEF CalledBy, RaisedBy, RearmedBy
<1>8. Called' = Called \cup calls
  <2> HIDE DEF calls
  <2>1. Called' = (UNION {CalledBy(q) : q \in WindowsDone}) \cup (UNION {RaisedBy(q) : q \in CreditsDone \cup {p}})
    BY <1>6, <1>7 DEF Called
  <2>2. (UNION {RaisedBy(q) : q \in CreditsDone \cup {p}}) = (UNION {RaisedBy(q) : q \in CreditsDone}) \cup calls
    BY <1>2
  <2> QED
    BY <2>1, <2>2 DEF Called
<1>9. (UNION {RearmedBy(q)' : q \in CreditsDone'}) = gone \cup RearmedBy(p)
  BY <1>6, <1>7
<1>10. /\ tx.claimed = (db.claimed \cup Called) \ gone
       /\ tx.queued \cup emitted = db.queued \cup (Called \ db.claimed)
       /\ fresh = calls \ tx.claimed
  BY <1>1 DEF Progress, ObservedSoFar, Claim
<1>11. /\ \A k \in calls : k[1] = "credits" /\ k[2] = p
       /\ \A k \in gone : k[1] = "credits" /\ k[2] # p
  BY <1>1, <1>2, RaisedByKeys, RearmedKeys
<1>12. \A k \in Called : k[1] = "credits" => k[2] # p
  <2>1. \A q \in WindowsDone : \A k \in CalledBy(q) : k[1] # "credits"
    BY <1>1, CalledKeys DEF WindowsDone
  <2>2. \A q \in CreditsDone : \A k \in RaisedBy(q) : k[2] # p
    BY <1>1, RaisedByKeys
  <2> SUFFICES ASSUME NEW k \in Called, k[1] = "credits"
               PROVE  k[2] # p
    OBVIOUS
  <2>3. PICK q : (q \in WindowsDone /\ k \in CalledBy(q)) \/ (q \in CreditsDone /\ k \in RaisedBy(q))
    BY DEF Called
  <2> QED
    BY <2>1, <2>2, <2>3
<1>13. n \in Nat /\ tx.credits[p] \in Nat \cup {None}
  BY DEF InTransaction, ProcessCredits, TypeOK, Database
<1>14. tx'.claimed = (db.claimed \cup Called') \ (gone \cup RearmedBy(p))
  <2>1. CASE tx.credits[p] # None /\ tx.credits[p] > n
    <3>1. calls = {} /\ fresh = {}
      BY <1>13, <2>1 DEF Claim
    <3>2. lost = {k \in tx.claimed : k[1] = "credits" /\ k[2] = p}
      BY <1>4, <2>1, <3>1
    <3>3. RearmedBy(p) = {k \in db.claimed : k[1] = "credits" /\ k[2] = p}
      BY <1>1, <2>1, RearmedKeys
    <3> HIDE DEF n, s, rose, calls, fresh, mid, lost, gone
    <3> QED
      BY <1>5, <1>8, <1>10, <1>11, <1>12, <3>1, <3>2, <3>3
  <2>2. CASE ~ (tx.credits[p] # None /\ tx.credits[p] > n)
    <3>1. lost = {} /\ RearmedBy(p) = {}
      BY <1>1, <1>4, <2>2, RearmedKeys
    <3> HIDE DEF n, s, rose, calls, fresh, mid, lost, gone
    <3> QED
      BY <1>5, <1>8, <1>10, <1>11, <3>1
  <2> QED
    BY <2>1, <2>2
<1> HIDE DEF n, s, rose, calls, fresh, mid, lost, gone
<1>15. tx'.queued \cup emitted' = db.queued \cup (Called' \ db.claimed)
  BY <1>3, <1>5, <1>8, <1>10, <1>11, <1>12
<1>16. \A q \in Provider : tx'.credits[q] = IF q \in CreditsDone' THEN poll.snapshot[q].credits
                                                              ELSE db.credits[q]
  <2>1. \A q \in Provider : tx'.credits[q] = IF q = p THEN n ELSE tx.credits[q]
    BY <1>5 DEF TypeOK, Database
  <2>2. \A q \in Provider : tx.credits[q] = IF q \in CreditsDone THEN poll.snapshot[q].credits
                                                               ELSE db.credits[q]
    BY <1>1 DEF Progress, ObservedSoFar
  <2> QED
    BY <2>1, <2>2, <1>6 DEF n
<1>17. \A q \in Provider :
        /\ <<"window", q>> \in todo' => q \in Transitions!WindowsHeard(poll.snapshot, poll.settings)
        /\ <<"credits", q>> \in todo' => q \in Transitions!CreditsHeard(poll.snapshot, poll.settings)
        /\ tx'.baseline[q] = IF q \in WindowsDone' THEN Saved(poll.snapshot[q].window) ELSE db.baseline[q]
  BY <1>1, <1>3, <1>5, <1>6 DEF Progress, ObservedSoFar
<1> QED
  BY <1>3, <1>9, <1>14, <1>15, <1>16, <1>17 DEF Progress, ObservedSoFar

\* Queueing an emitted alert changes nothing that was observed.
LEMMA EnqueueProgress ==
    ASSUME TypeOK, Progress, NEW k \in emitted, Enqueue(k)
    PROVE  Progress'
<1>1. /\ UNCHANGED <<db, pc, poll, todo, now>>
      /\ tx'.baseline = tx.baseline /\ tx'.credits = tx.credits /\ tx'.claimed = tx.claimed
      /\ tx'.queued \cup emitted' = tx.queued \cup emitted
  BY DEF Enqueue, TypeOK, Database
<1>2. /\ WindowsDone' = WindowsDone /\ CreditsDone' = CreditsDone
      /\ \A q : CalledBy(q)' = CalledBy(q)
      /\ \A q : RaisedBy(q)' = RaisedBy(q)
      /\ \A q : RearmedBy(q)' = RearmedBy(q)
  BY <1>1 DEF WindowsDone, CreditsDone, CalledBy, RaisedBy, RearmedBy
<1>3. Called' = Called
  BY <1>2 DEF Called
<1> QED
  BY <1>1, <1>2, <1>3 DEF Progress, ObservedSoFar

\* The invariant behind the refinement is inductive.
LEMMA ProgressStep ==
    TypeOK /\ InTransaction /\ Progress /\ [Next]_vars => Progress'
<1> SUFFICES ASSUME TypeOK, InTransaction, Progress, [Next]_vars
             PROVE  Progress'
  OBVIOUS
<1>1. CASE Begin
  BY <1>1, BeginProgress
<1>2. ASSUME NEW p \in Provider, ProcessWindow(p)
      PROVE  Progress'
  BY <1>2, WindowProgress
<1>3. ASSUME NEW p \in Provider, ProcessCredits(p)
      PROVE  Progress'
  BY <1>3, CreditsProgress
<1>4. ASSUME NEW k \in emitted, Enqueue(k)
      PROVE  Progress'
  BY <1>4, EnqueueProgress
<1>5. CASE Commit \/ Rollback
  BY <1>5 DEF Commit, Rollback, Ended, Progress
<1>6. CASE UNCHANGED vars
  <2>1. /\ UNCHANGED <<db, tx, pc, poll, todo, emitted, now>>
        /\ WindowsDone' = WindowsDone /\ CreditsDone' = CreditsDone
        /\ \A q : CalledBy(q)' = CalledBy(q)
        /\ \A q : RaisedBy(q)' = RaisedBy(q)
        /\ \A q : RearmedBy(q)' = RearmedBy(q)
    BY <1>6 DEF vars, WindowsDone, CreditsDone, CalledBy, RaisedBy, RearmedBy
  <2>2. Called' = Called
    BY <2>1 DEF Called
  <2> QED
    BY <2>1, <2>2 DEF Progress, ObservedSoFar
<1> QED
  BY <1>1, <1>2, <1>3, <1>4, <1>5, <1>6 DEF Next

-----------------------------------------------------------------------------
(* The refinement.                                                         *)

\* A commit is one observation of the whole report.
LEMMA CommitObserves ==
    ASSUME TypeOK, InTransaction, Progress, Commit
    PROVE  Transitions!TransitionsNext
<1>1. /\ pc = "processing" /\ todo = {} /\ emitted = {} /\ db' = tx
      /\ poll \in Poll
  BY DEF Commit, TypeOK
<1> DEFINE windows == Transitions!WindowsHeard(poll.snapshot, poll.settings)
           counts  == Transitions!CreditsHeard(poll.snapshot, poll.settings)
<1>2. WindowsDone = windows /\ CreditsDone = counts
  BY <1>1 DEF WindowsDone, CreditsDone
<1>3. /\ Called = (UNION {CalledBy(p) : p \in windows}) \cup (UNION {RaisedBy(p) : p \in counts})
      /\ tx.claimed = (db.claimed \cup Called) \ (UNION {RearmedBy(p) : p \in counts})
      /\ tx.queued = db.queued \cup (Called \ db.claimed)
  BY <1>1, <1>2 DEF Progress, ObservedSoFar, Called
<1>4. tx.baseline = [p \in Provider |-> IF p \in windows THEN Transitions!Saved(poll.snapshot[p].window)
                                                          ELSE db.baseline[p]]
  <2>1. \A p \in Provider : tx.baseline[p] = IF p \in windows THEN Transitions!Saved(poll.snapshot[p].window)
                                                               ELSE db.baseline[p]
    BY <1>1, <1>2, SameSaved DEF Progress, ObservedSoFar
  <2>2. tx.baseline = [p \in Provider |-> tx.baseline[p]]
    BY DEF TypeOK, Database
  <2> QED
    BY <2>1, <2>2
<1>5. tx.credits = [p \in Provider |-> IF p \in counts THEN poll.snapshot[p].credits
                                                        ELSE db.credits[p]]
  BY <1>1, <1>2 DEF Progress, ObservedSoFar, TypeOK, Database
<1>6. Transitions!Observe(poll.snapshot, poll.settings, now)
  BY <1>1, <1>3, <1>4, <1>5 DEF Transitions!Observe, CalledBy, RaisedBy, RearmedBy
<1>7. /\ poll.snapshot \in [Provider -> Readings \cup {None}]
      /\ poll.settings \in SettingsChoices
      /\ now \in Instants
  BY <1>1 DEF Poll, InTransaction
<1> QED
  BY <1>6, <1>7 DEF Transitions!TransitionsNext

\* Every step of the engine is one observation or leaves the committed state
\* alone.
LEMMA EveryStepObserves ==
    TypeOK /\ InTransaction /\ Progress /\ [Next]_vars =>
        [Transitions!TransitionsNext]_(Transitions!transitionVars)
<1> SUFFICES ASSUME TypeOK, InTransaction, Progress, [Next]_vars
             PROVE  Transitions!TransitionsNext \/ UNCHANGED db
  BY DEF Transitions!transitionVars
<1>1. CASE Commit
  BY <1>1, CommitObserves
<1>2. CASE ~ Commit
  BY <1>2 DEF Next, Begin, ProcessWindow, ProcessCredits, Enqueue, Rollback, vars
<1> QED
  BY <1>1, <1>2

\* The progress of a transaction is known in every state.
LEMMA ProgressInvariant == Spec => [](TypeOK /\ InTransaction /\ Progress)
<1>1. Init => Progress
  BY DEF Init, Progress
<1> QED
  BY <1>1, EngineInit, EngineStep, ProgressStep, PTL DEF Spec

\* ProcessDetailed as a whole, with its failures and kills, behaves as one
\* indivisible observation of each report.
THEOREM EngineImplementsTransitions == Spec => ObservesAtOnce
<1>1. Init => Transitions!TransitionsInit
  BY DEF Init, Transitions!TransitionsInit
<1> QED
  BY <1>1, EveryStepObserves, ProgressInvariant, PTL
     DEF Spec, ObservesAtOnce, Transitions!TransitionsSpec

-----------------------------------------------------------------------------
(* No transition is lost.                                                  *)

\* A committed window was observed against the baseline it replaces.
LEMMA CommittedWindow ==
    ASSUME TypeOK, Progress, Commit,
           NEW p \in Provider, db'.baseline[p] # db.baseline[p]
    PROVE  LET w == poll.snapshot[p].window
           IN /\ w \in Window
              /\ db'.baseline[p] = Saved(w)
              /\ CalledBy(p) \subseteq Called
<1>1. pc = "processing" /\ todo = {} /\ db' = tx
  BY DEF Commit
<1>2. p \in WindowsDone
  BY <1>1 DEF Progress, ObservedSoFar
<1>3. p \in Transitions!WindowsHeard(poll.snapshot, poll.settings)
  BY <1>2 DEF WindowsDone
<1>4. poll.snapshot[p].window \in Window
  BY <1>1, <1>3, InputsAssumption, SameHeard DEF TypeOK, Poll, Heard, Reading
<1> QED
  BY <1>1, <1>2, <1>4 DEF Progress, ObservedSoFar, Called

\* Whatever the report called for has been queued once it is committed.
LEMMA CommittedCalls ==
    ASSUME InTransaction, Progress, Commit
    PROVE  Called \subseteq db'.queued
<1>1. pc = "processing" /\ emitted = {} /\ db' = tx
  BY DEF Commit
<1>2. tx.queued = db.queued \cup (Called \ db.claimed)
  BY <1>1 DEF Progress, ObservedSoFar
<1>3. db.claimed \subseteq db.queued
  BY DEF InTransaction, Accounted
<1> QED
  BY <1>1, <1>2, <1>3

\* A commit queues every alert the move of a window's baseline asks for.
LEMMA CommitHearsWindow ==
    ASSUME TypeOK, InTransaction, Progress, Commit, NEW p \in Provider
    PROVE  WindowHeard(p)
<1> SUFFICES ASSUME db.baseline[p] # None, db'.baseline[p] # db.baseline[p],
                    poll.settings.on, poll.settings.rule[p].enabled
             PROVE  WindowHeard(p)
  BY DEF WindowHeard
<1> DEFINE prev == db.baseline[p]
           new  == db'.baseline[p]
           rule == poll.settings.rule[p]
           w    == poll.snapshot[p].window
<1>1. w \in Window /\ new = Saved(w) /\ CalledBy(p) \subseteq Called
  BY CommittedWindow
<1>2. CalledBy(p) = DetectWindowEvents(p, prev, w, rule, now)
  BY SameRules DEF CalledBy
<1>3. prev \in Window /\ Saved(prev) = prev
  BY DEF TypeOK, Database, InTransaction, Accounted
<1>4. rule \in Rule
  <2>1. poll.settings \in Settings
    BY InputsAssumption DEF TypeOK, Commit, Poll
  <2> QED
    BY <2>1 DEF Settings
<1>5. Called \subseteq db'.queued
  BY CommittedCalls
<1> HIDE DEF prev, new, rule, w
<1>6. new.used = w.used /\ new.resetsAt = ToSecond(w.resetsAt) /\ ToSecond(prev.resetsAt) = prev.resetsAt
  BY <1>1, <1>3 DEF Saved, Window
<1>7. ASSUME prev.used < rule.early, rule.early <= new.used
      PROVE  <<"early", p, new.resetsAt>> \in CalledBy(p)
  <2>1. "early" \in Kind /\ Detected("early", prev, w, rule, now)
    BY <1>1, <1>4, <1>6, <1>7 DEF Kind, Detected, CrossesEarly, Rule, Window
  <2> QED
    BY <1>2, <1>6, <2>1 DEF DetectWindowEvents, WindowKey
<1>8. ASSUME prev.used < 100 - rule.danger, 100 - rule.danger <= new.used
      PROVE  <<"danger", p, new.resetsAt>> \in CalledBy(p)
  <2>1. "danger" \in Kind /\ Detected("danger", prev, w, rule, now)
    BY <1>1, <1>3, <1>4, <1>6, <1>8 DEF Kind, Detected, CrossesDanger, RemainingPercent, Rule, Window
  <2> QED
    BY <1>2, <1>6, <2>1 DEF DetectWindowEvents, WindowKey
<1>9. ASSUME prev.resetsAt # None, prev.resetsAt <= now,
             new.used < prev.used \/ new.resetsAt # prev.resetsAt
      PROVE  <<"reset", p, prev.resetsAt>> \in CalledBy(p)
  <2>1. "reset" \in Kind /\ Detected("reset", prev, w, rule, now)
    BY <1>6, <1>9 DEF Kind, Detected, ResetDetected
  <2> QED
    BY <1>2, <1>6, <2>1 DEF DetectWindowEvents, WindowKey
<1> QED
  BY <1>1, <1>5, <1>7, <1>8, <1>9 DEF prev, new, rule, WindowHeard

\* A commit that raises the saved credits queues a fresh alert for them.
LEMMA CommitHearsRise ==
    ASSUME TypeOK, InTransaction, Progress, Commit, NEW p \in Provider
    PROVE  RiseHeard(p)
<1> SUFFICES ASSUME db.credits[p] # None, db'.credits[p] # db.credits[p],
                    poll.settings.on, poll.settings.creditsOn[p],
                    db'.credits[p] > db.credits[p]
             PROVE  <<"credits", p, db'.credits[p]>> \in (db'.claimed \ db.claimed) \cap db'.queued
  BY DEF RiseHeard
<1> DEFINE n == poll.snapshot[p].credits
           k == CreditsKey(p, n)
<1>1. pc = "processing" /\ todo = {} /\ emitted = {} /\ db' = tx
  BY DEF Commit
<1>2. p \in CreditsDone /\ db'.credits[p] = n
  BY <1>1 DEF Progress, ObservedSoFar
<1>3. k \in RaisedBy(p)
  BY <1>2, RaisedKeys DEF RaisedBy
<1>4. k \in Called
  BY <1>2, <1>3 DEF Called
<1>5. k \in db'.queued
  BY <1>4, CommittedCalls
<1>6. n \in Nat /\ db.credits[p] \in Nat
  <2>1. db.credits[p] \in Nat /\ tx.credits[p] \in Nat \cup {None}
    BY DEF TypeOK, Database
  <2>2. n # None
    BY <1>2, SameHeard DEF CreditsDone
  <2> QED
    BY <1>1, <1>2, <2>1, <2>2
<1>7. k[1] = "credits" /\ k[2] = p /\ k[3] = n
  BY DEF CreditsKey
<1>8. k \notin db.claimed
  <2> SUFFICES ASSUME k \in db.claimed
               PROVE  FALSE
    OBVIOUS
  <2>1. n <= db.credits[p]
    BY <1>7 DEF InTransaction, Accounted
  <2> QED
    BY <1>2, <1>6, <2>1
<1>9. k \notin UNION {RearmedBy(q) : q \in CreditsDone}
  BY <1>8, RearmedKeys
<1>10. k \in tx.claimed
  BY <1>1, <1>4, <1>9 DEF Progress, ObservedSoFar
<1> QED
  BY <1>1, <1>2, <1>5, <1>8, <1>10 DEF CreditsKey

\* A baseline never moves past a threshold, a reset or a rise in credits
\* without the alert, whatever fails and whenever the server is killed.
THEOREM TransitionsHeardCorrect == Spec => TransitionsHeard
<1>1. TypeOK /\ InTransaction /\ Progress /\ [Next]_vars => [AllHeard]_db
  <2> SUFFICES ASSUME TypeOK, InTransaction, Progress, [Next]_vars, ~ UNCHANGED db
               PROVE  AllHeard
    OBVIOUS
  <2>1. Commit
    BY DEF Next, Begin, ProcessWindow, ProcessCredits, Enqueue, Rollback, vars
  <2> QED
    BY <2>1, CommitHearsWindow, CommitHearsRise DEF AllHeard
<1> QED
  BY <1>1, ProgressInvariant, PTL DEF Spec, TransitionsHeard

=============================================================================
