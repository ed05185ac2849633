-------------------------- MODULE DeliveriesProofs -------------------------
(***************************************************************************)
(* Theorems about Deliveries, for any phones, tokens, testers and times.   *)
(***************************************************************************)
EXTENDS Deliveries, SequenceTheorems, FiniteSetTheorems, TLAPS

USE DEF tables, apns

\* The parts of the invariant that only the table of devices, only the
\* provider tokens, and only the pushes can disturb.
Tokens    == PushesInOrder /\ SecondTokenIsNew
Refreshes == PushesBelong /\ BatchWhole /\ RefreshesGetTheirTime
Registrations == ResultsOfRegistration /\ RegistrationsKnown

\* The initial state.
LEMMA DeliveryInit == Init => DeliveryInv
<1> SUFFICES ASSUME Init
             PROVE  DeliveryInv
  OBVIOUS
<1>1. TypeOK
  BY DeliveryAssumption DEF Init, TypeOK
<1>2. Tokens /\ Refreshes /\ Registrations
  BY DEF Init, Tokens, Refreshes, PushesInOrder, SecondTokenIsNew, PushesBelong, BatchWhole,
         RefreshesGetTheirTime, Registrations, ResultsOfRegistration, RegistrationsKnown, Sender
<1> QED
  BY <1>1, <1>2 DEF DeliveryInv, Tokens, Refreshes, Registrations

-----------------------------------------------------------------------------
(* The phones, and APNs.                                                   *)

\* A registration, or the end of one, touches the table of devices only.
LEMMA DeliveryPhones ==
    ASSUME DeliveryInv, Phones
    PROVE  DeliveryInv'
<1> USE DEF DeliveryInv, Registrations
<1>1. UNCHANGED <<provider, built, push, batch, test, apns, faults>>
  BY DEF Phones, PostDevice, DeleteDevice
<1>2. ASSUME NEW d \in Device, NEW token \in Token \cup {None}, PostDevice(d, token)
      PROVE  TypeOK' /\ Registrations'
  <2>1. /\ changes' = changes + 1 /\ changes' \in 1..MaxChanges /\ results' = results
        /\ devices' = [devices EXCEPT ![d] =
              IF devices[d] = None THEN [alert |-> TRUE, widget |-> token]
              ELSE [devices[d] EXCEPT !.widget = token]]
        /\ generation' = [generation EXCEPT ![d] =
              IF generation[d] = 0 THEN 1 + changes' ELSE generation[d]]
    BY <1>2, DeliveryAssumption DEF PostDevice, TypeOK
  <2>2. devices'[d] \in DeviceRow
    BY <2>1 DEF TypeOK, DeviceRow
  <2>3. devices' \in [Device -> DeviceRow \cup {None}] /\ devices'[d] # None
    BY <2>1, <2>2, DeliveryAssumption DEF TypeOK
  <2>4. generation' \in [Device -> 0..MaxChanges + 1] /\ generation'[d] # 0
    BY <2>1, DeliveryAssumption DEF TypeOK
  <2>5. \A e \in Device \ {d} : devices'[e] = devices[e] /\ generation'[e] = generation[e]
    BY <2>1 DEF TypeOK
  <2>6. TypeOK'
    BY <1>1, <2>1, <2>3, <2>4, DeliveryAssumption DEF TypeOK
  <2>7. RegistrationsKnown'
    BY <2>3, <2>4, <2>5 DEF RegistrationsKnown
  <2>8. results[d] # None => devices[d] # None /\ generation[d] # 0
    BY DEF ResultsOfRegistration, RegistrationsKnown
  <2>9. results[d] # None => generation'[d] = generation[d]
    BY <2>1, <2>8 DEF TypeOK
  <2>10. ResultsOfRegistration'
    BY <2>1, <2>3, <2>5, <2>9 DEF ResultsOfRegistration
  <2> QED
    BY <2>6, <2>7, <2>10
<1>3. ASSUME NEW d \in Device, DeleteDevice(d)
      PROVE  TypeOK' /\ Registrations'
  BY <1>1, <1>3, DeliveryAssumption DEF DeleteDevice, TypeOK, Registrations, ResultsOfRegistration, RegistrationsKnown
<1>4. TypeOK' /\ Registrations'
  BY <1>2, <1>3 DEF Phones
<1>5. PushesInOrder' /\ SecondTokenIsNew'
  BY <1>1 DEF PushesInOrder, SecondTokenIsNew
<1>6. PushesBelong' /\ BatchWhole' /\ RefreshesGetTheirTime'
  BY <1>1 DEF PushesBelong, BatchWhole, RefreshesGetTheirTime, FairPart
<1> QED
  BY <1>4, <1>5, <1>6

\* APNs declares a token dead, or refuses the provider tokens there are.
LEMMA DeliveryApns ==
    ASSUME DeliveryInv, TokenDies \/ ProviderTokenRefused
    PROVE  DeliveryInv'
<1> USE DEF DeliveryInv, Registrations
<1>1. UNCHANGED <<tables, provider, built, push, batch, test, changes, faults>>
  BY DEF TokenDies, ProviderTokenRefused
<1>2. dead' \subseteq Token /\ refused' \subseteq 1..built /\ refused \subseteq refused'
  BY DEF TokenDies, ProviderTokenRefused, TypeOK
<1>3. TypeOK' /\ Registrations'
  BY <1>1, <1>2 DEF TypeOK, Registrations, ResultsOfRegistration, RegistrationsKnown
<1>4. PushesInOrder' /\ SecondTokenIsNew'
  BY <1>1, <1>2 DEF PushesInOrder, SecondTokenIsNew
<1>5. PushesBelong' /\ BatchWhole' /\ RefreshesGetTheirTime'
  BY <1>1 DEF PushesBelong, BatchWhole, RefreshesGetTheirTime, FairPart
<1> QED
  BY <1>3, <1>4, <1>5

-----------------------------------------------------------------------------
(* Pushes.                                                                 *)

\* The provider token of a request is built already; a new one is newer than
\* all of those.
LEMMA ObtainOK ==
    ASSUME TypeOK, Obtain
    PROVE  /\ built' \in built..MaxTokens
           /\ provider' \in 1..built'
           /\ provider' = provider \/ provider' > built
BY DeliveryAssumption DEF Obtain, TypeOK

\* A push that starts carries a token that was built, and has none refused.
LEMMA StartPushOK ==
    ASSUME DeliveryInv, NEW s \in Sender, NEW to \in Token \cup {None}, StartPush(s, to),
           UNCHANGED refused
    PROVE  /\ push' \in [Sender -> PushState \cup {None}]
           /\ provider' \in {None} \cup 1..built' /\ built' \in 0..MaxTokens
           /\ refused' \subseteq 1..built'
           /\ PushesInOrder' /\ SecondTokenIsNew'
           /\ push'[s] # None /\ push'[s].to = to
           /\ \A r \in Sender \ {s} : push'[r] = push[r]
<1> USE DEF DeliveryInv, Registrations
<1>1. PICK new : new = [to |-> to, at |-> "sent", first |-> None, token |-> provider']
  OBVIOUS
<1>2. push' = [push EXCEPT ![s] = new] /\ Obtain
  BY <1>1 DEF StartPush
<1>3. /\ built' \in built..MaxTokens /\ built \in Nat /\ built' \in Nat
      /\ provider' \in 1..built' /\ provider' \in Nat
      /\ provider' = provider \/ provider' > built
  BY <1>2, ObtainOK, DeliveryAssumption DEF TypeOK
<1>4. new \in PushState /\ new # None
  BY <1>1, <1>3, DeliveryAssumption DEF PushState
<1>5. PushesInOrder'
  BY <1>1, <1>2, <1>3, <1>4 DEF PushesInOrder, TypeOK, PushState
<1>6. SecondTokenIsNew'
  BY <1>1, <1>2, <1>3, <1>4 DEF SecondTokenIsNew, TypeOK
<1> QED
  BY <1>1, <1>2, <1>3, <1>4, <1>5, <1>6 DEF TypeOK

\* The first request is refused, the cached token dropped, and the second
\* request sent with a newer one.
LEMMA DeliveryPush ==
    ASSUME DeliveryInv, NEW s \in Sender, Push(s)
    PROVE  DeliveryInv'
<1> USE DEF DeliveryInv, Registrations
<1>1. UNCHANGED <<tables, batch, test, apns, changes, faults>>
  BY DEF Push, Refused, Invalidate, SendAgain
<1>2. push[s] # None /\ push[s] \in PushState
  BY DEF Push, Refused, Invalidate, SendAgain, TypeOK
<1>3. \A r \in Sender : /\ push'[r] = None <=> push[r] = None
                        /\ push[r] # None => push'[r].to = push[r].to
  BY <1>2, DeliveryAssumption DEF Push, Refused, Invalidate, SendAgain, TypeOK, PushState
<1>4. Registrations' /\ PushesBelong' /\ BatchWhole' /\ RefreshesGetTheirTime'
  BY <1>1, <1>3 DEF Registrations, ResultsOfRegistration, RegistrationsKnown, PushesBelong, BatchWhole, RefreshesGetTheirTime, FairPart, Sender
<1>5. CASE Refused(s)
  <2>1. TypeOK'
    BY <1>1, <1>2, <1>5 DEF Refused, TypeOK, PushState
  <2>2. PushesInOrder' /\ SecondTokenIsNew'
    BY <1>2, <1>5 DEF Refused, PushesInOrder, SecondTokenIsNew, TypeOK, PushState
  <2> QED
    BY <1>4, <2>1, <2>2
<1>6. CASE Invalidate(s)
  <2>1. TypeOK'
    BY <1>1, <1>2, <1>6 DEF Invalidate, TypeOK, PushState
  <2>2. PushesInOrder' /\ SecondTokenIsNew'
    BY <1>2, <1>6 DEF Invalidate, PushesInOrder, SecondTokenIsNew, TypeOK, PushState
  <2> QED
    BY <1>4, <2>1, <2>2
<1>7. CASE SendAgain(s)
  <2>1. /\ built' \in built..MaxTokens /\ built \in Nat /\ built' \in Nat
        /\ provider' \in 1..built' /\ provider' \in Nat
        /\ provider' = provider \/ provider' > built
    BY <1>7, ObtainOK, DeliveryAssumption DEF SendAgain, TypeOK
  <2>2. TypeOK'
    <3>1. push' \in [Sender -> PushState \cup {None}]
      BY <1>2, <1>7, <2>1 DEF SendAgain, TypeOK, PushState
    <3>2. built' \in 0..MaxTokens /\ refused' \subseteq 1..built' /\ provider' \in {None} \cup 1..built'
      BY <1>1, <2>1, DeliveryAssumption DEF TypeOK
    <3> QED
      BY <1>1, <3>1, <3>2 DEF TypeOK
  <2>3. push[s].at = "again" /\ push[s].first \in refused /\ push[s].first \in 1..built
    BY <1>2, <1>7 DEF SendAgain, PushesInOrder, TypeOK
  <2>4. provider' > push[s].first
    BY <1>2, <2>1, <2>3, DeliveryAssumption DEF PushesInOrder, TypeOK
  <2>5. PushesInOrder' /\ SecondTokenIsNew'
    BY <1>2, <1>7, <2>1, <2>3, <2>4 DEF SendAgain, PushesInOrder, SecondTokenIsNew, TypeOK, PushState
  <2> QED
    BY <1>4, <2>2, <2>5
<1> QED
  BY <1>5, <1>6, <1>7 DEF Push

-----------------------------------------------------------------------------
(* The refreshes of a dispatch.                                            *)

\* The devices that a dispatch lists are finitely many, with their tokens.
LEMMA ListedOK ==
    ASSUME TypeOK, NEW list \in Listed
    PROVE  list \in Seq([device : Device, token : Token])
<1> DEFINE with == {d \in Device : devices[d] # None /\ devices[d].widget # None}
<1>1. IsFiniteSet(with)
  BY FS_Subset, DeliveryAssumption
<1>2. Cardinality(with) \in Nat
  BY <1>1, FS_CardinalityType
<1> HIDE DEF with
<1>3. \A d \in with : [device |-> d, token |-> devices[d].widget] \in [device : Device, token : Token]
  BY DEF TypeOK, DeviceRow, with
<1>4. PICK s \in [1..Cardinality(with) -> with] :
          list = [i \in DOMAIN s |-> [device |-> s[i], token |-> devices[s[i]].widget]]
  BY DEF Listed, with
<1>5. list \in [1..Cardinality(with) -> [device : Device, token : Token]]
  BY <1>3, <1>4
<1>6. ASSUME NEW S, NEW n \in Nat
      PROVE  [1..n -> S] \subseteq Seq(S)
  <2>1. Seq(S) = UNION {[1..m -> S] : m \in Nat}
    BY SeqDef
  <2> QED
    BY <2>1
<1> QED
  BY <1>2, <1>5, <1>6

\* What is left of a list that is not empty.
LEMMA HeadOfList ==
    ASSUME NEW S, NEW s \in Seq(S), s # <<>>
    PROVE  /\ Len(s) \in Nat \ {0}
           /\ s[1] \in S
           /\ Tail(s) \in Seq(S) /\ Len(Tail(s)) = Len(s) - 1
<1>1. Len(s) \in Nat \ {0}
  BY EmptySeq, LenProperties
<1> QED
  BY <1>1, ElementOfSeq, HeadTailProperties

\* A fair part of what there is leaves as many fair parts as there are others.
LEMMA FairShare ==
    ASSUME NEW part \in Nat, NEW left \in Nat, NEW n \in Nat \ {0}, left >= part * n
    PROVE  /\ left \div n \in 0..left
           /\ left - (left \div n) >= part * (n - 1)
<1> DEFINE share == left \div n
<1>1. share \in Nat /\ share * n <= left
  OBVIOUS
<1> HIDE DEF share
<1>2. share * (n - 1) \in Nat /\ share * n = share * (n - 1) + share
  BY <1>1
<1>3. part * n = part * (n - 1) + part
  OBVIOUS
<1>4. CASE share >= part
  <2>1. share * (n - 1) >= part * (n - 1)
    BY <1>1, <1>4
  <2> QED
    BY <1>1, <1>2, <2>1 DEF share
<1>5. CASE share < part
  BY <1>1, <1>2, <1>3, <1>5 DEF share
<1> QED
  BY <1>1, <1>4, <1>5

\* A dispatch begins with the time it has, and hands the widgets theirs.
LEMMA DeliveryBegins ==
    ASSUME DeliveryInv, BeginDispatch \/ AlertsEnd
    PROVE  DeliveryInv'
<1> USE DEF DeliveryInv, Registrations
<1>1. UNCHANGED <<tables, provider, built, push, test, apns, changes, faults>>
  BY DEF BeginDispatch, AlertsEnd
<1>2. Registrations' /\ PushesInOrder' /\ SecondTokenIsNew'
  BY <1>1 DEF Registrations, ResultsOfRegistration, RegistrationsKnown, PushesInOrder, SecondTokenIsNew
<1>3. CASE BeginDispatch
  <2>1. PICK list \in Listed, left \in {Budget \div 2, MaxLeft} :
            batch' = [todo |-> list, all |-> Len(list), left |-> left, start |-> left,
                      share |-> 0, at |-> "alerts"]
    BY <1>3 DEF BeginDispatch
  <2>2. list \in Seq([device : Device, token : Token]) /\ Len(list) \in Nat /\ left \in Nat
    <3>1. list \in Seq([device : Device, token : Token])
      BY ListedOK
    <3>2. Len(list) \in Nat
      BY <3>1, LenProperties
    <3>3. left \in Nat
      BY DeliveryAssumption
    <3> QED
      BY <3>1, <3>2, <3>3
  <2>3. batch' \in BatchState
    BY <2>1, <2>2 DEF BatchState
  <2>4. push[Poller] = None
    BY <1>3 DEF BeginDispatch, PushesBelong
  <2>5. TypeOK'
    BY <1>1, <2>3 DEF TypeOK
  <2>6. PushesBelong' /\ BatchWhole' /\ RefreshesGetTheirTime'
    BY <1>1, <2>1, <2>2, <2>4 DEF PushesBelong, BatchWhole, RefreshesGetTheirTime
  <2> QED
    BY <1>2, <2>5, <2>6
<1>4. CASE AlertsEnd
  <2>1. batch \in BatchState /\ batch # None /\ batch.at = "alerts"
    BY <1>4 DEF AlertsEnd, TypeOK
  <2>2. /\ batch.left \in Nat /\ batch.start \in Nat /\ batch.all \in Nat
        /\ Len(batch.todo) \in Nat /\ batch.left = batch.start /\ Len(batch.todo) = batch.all
        /\ batch.todo # <<>> => batch.all > 0
    BY <2>1 DEF BatchState, BatchWhole
  <2>3. PICK t \in 0..(IF batch.left > Budget THEN batch.left - Budget ELSE 0) :
            batch' = [batch EXCEPT !.at = "widgets", !.left = AtMost(@ - t, Budget)]
    BY <1>4 DEF AlertsEnd
  <2>4. AtMost(batch.left - t, Budget) = AtMost(batch.start, Budget) /\ AtMost(batch.start, Budget) \in Nat
    BY <2>2, DeliveryAssumption DEF AtMost
  <2>5. batch' \in BatchState /\ batch' # None /\ push[Poller] = None
    BY <2>1, <2>3, <2>4, DeliveryAssumption DEF BatchState, PushesBelong
  <2>6. TypeOK'
    BY <1>1, <2>5 DEF TypeOK
  <2>7. PushesBelong' /\ BatchWhole'
    BY <1>1, <2>1, <2>2, <2>3, <2>5 DEF PushesBelong, BatchWhole, BatchState
  <2>8. RefreshesGetTheirTime'
    <3> SUFFICES ASSUME batch'.todo # <<>>
                 PROVE  batch'.left >= FairPart' * Len(batch'.todo)
      BY <1>1, <2>5 DEF RefreshesGetTheirTime
    <3>1. /\ batch'.todo = batch.todo /\ batch'.all = batch.all /\ batch'.start = batch.start
          /\ batch'.left = AtMost(batch.start, Budget)
      BY <2>1, <2>3, <2>4 DEF BatchState
    <3>2. batch.all \in Nat \ {0}
      BY <2>2, <3>1
    <3> DEFINE time == AtMost(batch.start, Budget)
    <3>3. \A n \in Nat \ {0}, m \in Nat : m >= (m \div n) * n
      OBVIOUS
    <3>4. time >= (time \div batch.all) * batch.all
      BY <2>4, <3>2, <3>3
    <3> QED
      BY <2>2, <3>1, <3>4 DEF FairPart
  <2> QED
    BY <1>2, <2>6, <2>7, <2>8
<1> QED
  BY <1>3, <1>4

\* The next device gets its share, and its refresh starts.
LEMMA DeliveryRefresh ==
    ASSUME DeliveryInv, Refresh
    PROVE  DeliveryInv'
<1> USE DEF DeliveryInv, Registrations
<1>1. batch \in BatchState /\ batch # None /\ batch.at = "widgets" /\ batch.todo # <<>> /\ push[Poller] = None
  BY DEF Refresh, TypeOK, StartPush
<1>2. /\ batch.todo \in Seq([device : Device, token : Token]) /\ Len(batch.todo) \in Nat \ {0}
      /\ batch.todo[1].token \in Token
      /\ batch.left \in Nat /\ batch.start \in Nat /\ batch.all \in Nat \ {0}
      /\ Len(batch.todo) \in Nat \ {0}
  <2>1. batch.todo \in Seq([device : Device, token : Token])
    BY <1>1 DEF BatchState
  <2>2. Len(batch.todo) \in Nat \ {0} /\ batch.todo[1] \in [device : Device, token : Token]
    BY <1>1, <2>1, HeadOfList
  <2> QED
    BY <1>1, <2>1, <2>2 DEF BatchState, BatchWhole
<1>3. /\ batch' = [batch EXCEPT !.share = Share]
      /\ StartPush(Poller, batch.todo[1].token)
      /\ UNCHANGED <<tables, test, apns, changes, faults>>
  BY DEF Refresh
<1>4. FairPart \in Nat /\ FairPart' = FairPart
  <2>1. AtMost(batch.start, Budget) \in Nat
    BY <1>2, DeliveryAssumption DEF AtMost
  <2>2. batch'.start = batch.start /\ batch'.all = batch.all
    BY <1>1, <1>3 DEF BatchState
  <2> QED
    BY <1>2, <2>1, <2>2 DEF FairPart
<1>5. batch.left >= FairPart * Len(batch.todo)
  BY <1>1 DEF RefreshesGetTheirTime
<1>6. Share \in 0..batch.left /\ batch.left - Share >= FairPart * (Len(batch.todo) - 1)
  BY <1>2, <1>4, <1>5, FairShare DEF Share
<1>7. batch' \in BatchState /\ batch' # None
  <2>1. Share \in Nat
    BY <1>2, <1>6
  <2>2. batch' \in BatchState
    BY <1>1, <1>3, <2>1 DEF BatchState
  <2> QED
    BY <2>2, DeliveryAssumption
<1>8. /\ push' \in [Sender -> PushState \cup {None}]
      /\ provider' \in {None} \cup 1..built' /\ built' \in 0..MaxTokens
      /\ refused' \subseteq 1..built'
      /\ PushesInOrder' /\ SecondTokenIsNew'
      /\ push'[Poller] # None /\ push'[Poller].to = batch.todo[1].token
      /\ \A r \in Sender \ {Poller} : push'[r] = push[r]
  BY <1>2, <1>3, StartPushOK DEF Sender
<1>9. TypeOK' /\ Registrations'
  BY <1>3, <1>7, <1>8 DEF TypeOK, Registrations, ResultsOfRegistration, RegistrationsKnown
<1>10. PushesBelong' /\ BatchWhole'
  <2>1. batch'.todo = batch.todo /\ batch'.at = "widgets" /\ batch'.share <= batch'.left /\ batch'.all = batch.all
    BY <1>1, <1>2, <1>3, <1>6 DEF BatchState
  <2>2. \A h \in Tester : push'[h] = push[h]
    BY <1>8, DeliveryAssumption DEF Sender
  <2> QED
    BY <1>1, <1>2, <1>3, <1>7, <1>8, <2>1, <2>2 DEF PushesBelong, BatchWhole
<1>11. RefreshesGetTheirTime'
  <2>1. batch'.todo = batch.todo /\ batch'.left = batch.left /\ batch'.share = Share
    BY <1>1, <1>3 DEF BatchState
  <2> QED
    BY <1>4, <1>6, <1>8, <2>1 DEF RefreshesGetTheirTime
<1> QED
  BY <1>8, <1>9, <1>10, <1>11

\* A refresh ends within its share, and only a refused token is cleared.
LEMMA WithoutTokenOK ==
    ASSUME TypeOK, NEW d \in Device, NEW token \in Token
    PROVE  /\ WithoutToken(d, token) \in [Device -> DeviceRow \cup {None}]
           /\ \A e \in Device : WithoutToken(d, token)[e] = None <=> devices[e] = None
           /\ \A e \in Device : WithoutToken(d, token)[e] # devices[e] =>
                 devices[e] # None /\ devices[e].widget = token
BY DeliveryAssumption DEF WithoutToken, TypeOK, DeviceRow

\* The push of a sender that ends leaves the others as they are.
LEMMA EndPushOK ==
    ASSUME DeliveryInv, NEW s \in Sender, NEW answer, EndPush(s, answer),
           UNCHANGED <<provider, built, refused>>
    PROVE  /\ push' \in [Sender -> PushState \cup {None}]
           /\ push[s] # None /\ push'[s] = None
           /\ \A r \in Sender \ {s} : push'[r] = push[r]
           /\ PushesInOrder' /\ SecondTokenIsNew'
<1> USE DEF DeliveryInv, Registrations
<1>1. push[s] # None /\ push' = [push EXCEPT ![s] = None]
  BY DEF EndPush
<1>2. PushesInOrder' /\ SecondTokenIsNew'
  BY <1>1 DEF PushesInOrder, SecondTokenIsNew, TypeOK
<1> QED
  BY <1>1, <1>2 DEF TypeOK

LEMMA DeliveryRefreshed ==
    ASSUME DeliveryInv, Refreshed
    PROVE  DeliveryInv'
<1> USE DEF DeliveryInv, Registrations
<1>1. UNCHANGED <<generation, results, provider, built, test, apns, changes>> /\ batch # None
  BY DEF Refreshed
<1>2. PICK answer \in {"lost", "InvalidProviderToken", "Unregistered", "ok"}, t \in 0..batch.share :
          /\ EndPush(Poller, answer)
          /\ \/ answer # "lost" /\ UNCHANGED faults
             \/ answer \in {"lost", "Unregistered"} /\ Fault
          /\ IF answer = "Unregistered" /\ faults' = faults
             THEN devices' = WithoutToken(batch.todo[1].device, batch.todo[1].token)
             ELSE UNCHANGED devices
          /\ batch' = [batch EXCEPT !.todo = Tail(@), !.left = @ - t]
  BY DEF Refreshed
<1>3. /\ push' \in [Sender -> PushState \cup {None}]
      /\ push[Poller] # None /\ push'[Poller] = None
      /\ \A r \in Sender \ {Poller} : push'[r] = push[r]
      /\ PushesInOrder' /\ SecondTokenIsNew'
  BY <1>1, <1>2, EndPushOK DEF Sender
<1>4. batch \in BatchState /\ batch.at = "widgets" /\ batch.todo # <<>> /\ batch.share <= batch.left
  BY <1>3 DEF TypeOK, PushesBelong
<1>5. /\ batch.todo \in Seq([device : Device, token : Token])
      /\ batch.left \in Nat /\ batch.share \in Nat /\ batch.start \in Nat /\ batch.all \in Nat
  BY <1>4 DEF BatchState
<1>6. /\ batch.todo[1] \in [device : Device, token : Token]
      /\ Tail(batch.todo) \in Seq([device : Device, token : Token])
      /\ Len(Tail(batch.todo)) = Len(batch.todo) - 1
      /\ Len(batch.todo) \in Nat \ {0}
  BY <1>4, <1>5, HeadOfList
<1>7. batch' \in BatchState /\ batch' # None
  <2>1. batch.left - t \in Nat
    BY <1>4, <1>5
  <2>2. batch' \in BatchState
    BY <1>2, <1>4, <1>6, <2>1 DEF BatchState
  <2> QED
    BY <2>2, DeliveryAssumption
<1>8. /\ devices' \in [Device -> DeviceRow \cup {None}]
      /\ \A e \in Device : devices'[e] = None <=> devices[e] = None
  BY <1>2, <1>6, WithoutTokenOK DEF TypeOK
<1>9. faults' \in 0..MaxFaults
  BY <1>2, DeliveryAssumption DEF Fault, TypeOK
<1>10. TypeOK' /\ Registrations'
  BY <1>1, <1>3, <1>7, <1>8, <1>9 DEF TypeOK, Registrations, ResultsOfRegistration, RegistrationsKnown
<1>11. /\ batch'.todo = Tail(batch.todo) /\ batch'.left = batch.left - t
       /\ batch'.at = batch.at /\ batch'.all = batch.all /\ batch'.start = batch.start
  BY <1>2, <1>4 DEF BatchState
<1>12. PushesBelong' /\ BatchWhole'
  <2>1. \A h \in Tester : push'[h] = push[h]
    BY <1>3, DeliveryAssumption DEF Sender
  <2> QED
    BY <1>1, <1>3, <1>4, <1>11, <2>1 DEF PushesBelong, BatchWhole
<1>13. RefreshesGetTheirTime'
  <2>1. batch.left - batch.share >= FairPart * (Len(batch.todo) - 1)
    BY <1>1, <1>3, <1>4 DEF RefreshesGetTheirTime
  <2>2. FairPart' = FairPart
    BY <1>11 DEF FairPart
  <2>3. batch'.left >= batch.left - batch.share
    BY <1>5, <1>11
  <2>4. CASE batch'.todo = <<>>
    BY <2>4 DEF RefreshesGetTheirTime
  <2>5. CASE batch'.todo # <<>>
    <3>1. batch.all \in Nat \ {0}
      BY <1>1, <1>4, <1>5 DEF BatchWhole
    <3>2. FairPart \in Nat
      <4>1. AtMost(batch.start, Budget) \in Nat
        BY <1>5, DeliveryAssumption DEF AtMost
      <4> QED
        BY <3>1, <4>1 DEF FairPart
    <3>3. batch'.left >= FairPart * (Len(batch.todo) - 1)
      <4> DEFINE needed == FairPart * (Len(batch.todo) - 1)
      <4>1. needed \in Int
        BY <1>6, <3>2
      <4> HIDE DEF needed
      <4>2. batch.left - batch.share >= needed
        BY <2>1 DEF needed
      <4>3. batch'.left >= needed
        BY <1>5, <1>11, <2>3, <4>1, <4>2
      <4> QED
        BY <4>3 DEF needed
    <3> QED
      BY <1>3, <1>6, <1>11, <2>2, <3>3 DEF RefreshesGetTheirTime
  <2> QED
    BY <2>4, <2>5
<1> QED
  BY <1>3, <1>10, <1>12, <1>13

\* A dispatch ends when nothing is in flight for it.
LEMMA DeliveryEnds ==
    ASSUME DeliveryInv, EndDispatch
    PROVE  DeliveryInv'
<1> USE DEF DeliveryInv, Registrations
<1>1. /\ UNCHANGED <<tables, provider, built, push, test, apns, changes, faults>>
      /\ batch' = None /\ push[Poller] = None
  BY DEF EndDispatch
<1>2. TypeOK' /\ Registrations'
  BY <1>1 DEF TypeOK, Registrations, ResultsOfRegistration, RegistrationsKnown
<1>3. PushesInOrder' /\ SecondTokenIsNew'
  BY <1>1 DEF PushesInOrder, SecondTokenIsNew
<1>4. PushesBelong' /\ BatchWhole' /\ RefreshesGetTheirTime'
  BY <1>1 DEF PushesBelong, BatchWhole, RefreshesGetTheirTime
<1> QED
  BY <1>2, <1>3, <1>4

-----------------------------------------------------------------------------
(* The readiness tests.                                                    *)

\* A test begins with the tokens of its device.
LEMMA DeliveryBeginTest ==
    ASSUME DeliveryInv, NEW h \in Tester, NEW d \in Device, BeginTest(h, d)
    PROVE  DeliveryInv'
<1> USE DEF DeliveryInv, Registrations
<1> DEFINE todo == (IF devices[d].alert THEN <<None>> ELSE <<>>) \o
                   (IF devices[d].widget # None THEN <<devices[d].widget>> ELSE <<>>)
<1>1. /\ test[h] = None /\ devices[d] # None
      /\ test' = [test EXCEPT ![h] = [device |-> d, todo |-> todo]]
      /\ UNCHANGED <<tables, provider, built, push, batch, apns, changes, faults>>
  BY DEF BeginTest
<1>2. todo \in Seq(Token \cup {None})
  <2>1. devices[d].widget \in Token \cup {None}
    BY <1>1 DEF TypeOK, DeviceRow
  <2>2. /\ (IF devices[d].alert THEN <<None>> ELSE <<>>) \in Seq(Token \cup {None})
        /\ (IF devices[d].widget # None THEN <<devices[d].widget>> ELSE <<>>) \in Seq(Token \cup {None})
    <3>1. /\ <<None>> \in Seq(Token \cup {None}) /\ <<>> \in Seq(Token \cup {None})
          /\ <<devices[d].widget>> \in Seq(Token \cup {None})
      BY <2>1
    <3> QED
      BY <3>1, Zenon
  <2> QED
    BY <2>2, ConcatProperties
<1> HIDE DEF todo
<1>3. [device |-> d, todo |-> todo] \in TestState
  BY <1>2 DEF TestState
<1>4. TypeOK' /\ Registrations'
  BY <1>1, <1>3 DEF TypeOK, Registrations, ResultsOfRegistration, RegistrationsKnown
<1>5. PushesInOrder' /\ SecondTokenIsNew'
  BY <1>1 DEF PushesInOrder, SecondTokenIsNew
<1>6. push[h] = None
  BY <1>1 DEF PushesBelong
<1>7. PushesBelong' /\ BatchWhole' /\ RefreshesGetTheirTime'
  BY <1>1, <1>6 DEF PushesBelong, BatchWhole, RefreshesGetTheirTime, FairPart, TypeOK
<1> QED
  BY <1>4, <1>5, <1>7

\* A tester is not the poller: its push is none of a dispatch.
LEMMA DeliveryTestPush ==
    ASSUME DeliveryInv, NEW h \in Tester, TestPush(h)
    PROVE  DeliveryInv'
<1> USE DEF DeliveryInv, Registrations
<1>1. /\ test[h] # None /\ test[h].todo # <<>> /\ test[h] \in TestState
      /\ StartPush(h, test[h].todo[1])
      /\ UNCHANGED <<tables, batch, test, apns, changes, faults>>
  BY DEF TestPush, TypeOK
<1>2. test[h].todo[1] \in Token \cup {None}
  BY <1>1, HeadOfList DEF TestState
<1>3. /\ push' \in [Sender -> PushState \cup {None}]
      /\ provider' \in {None} \cup 1..built' /\ built' \in 0..MaxTokens
      /\ refused' \subseteq 1..built'
      /\ PushesInOrder' /\ SecondTokenIsNew'
      /\ \A r \in Sender \ {h} : push'[r] = push[r]
  BY <1>1, <1>2, StartPushOK DEF Sender
<1>4. TypeOK' /\ Registrations'
  BY <1>1, <1>3 DEF TypeOK, Registrations, ResultsOfRegistration, RegistrationsKnown
<1>5. push'[Poller] = push[Poller]
  BY <1>3, DeliveryAssumption DEF Sender
<1>6. PushesBelong' /\ BatchWhole' /\ RefreshesGetTheirTime'
  BY <1>1, <1>3, <1>5 DEF PushesBelong, BatchWhole, RefreshesGetTheirTime, FairPart, Sender
<1> QED
  BY <1>3, <1>4, <1>6

LEMMA DeliveryTestAnswered ==
    ASSUME DeliveryInv, NEW h \in Tester, TestAnswered(h)
    PROVE  DeliveryInv'
<1> USE DEF DeliveryInv, Registrations
<1>1. PICK answer : EndPush(h, answer)
  BY DEF TestAnswered
<1>2. /\ test' = [test EXCEPT ![h].todo = Tail(@)]
      /\ UNCHANGED <<tables, provider, built, batch, apns, changes>>
      /\ faults' \in 0..MaxFaults
  BY DeliveryAssumption DEF TestAnswered, Fault, TypeOK
<1>3. /\ push' \in [Sender -> PushState \cup {None}]
      /\ push[h] # None /\ push'[h] = None
      /\ \A r \in Sender \ {h} : push'[r] = push[r]
      /\ PushesInOrder' /\ SecondTokenIsNew'
  BY <1>1, <1>2, EndPushOK DEF Sender
<1>4. test[h] \in TestState /\ test[h].todo # <<>>
  BY <1>3 DEF PushesBelong, TypeOK
<1>5. Tail(test[h].todo) \in Seq(Token \cup {None})
  BY <1>4, HeadOfList DEF TestState
<1>6. test' \in [Tester -> TestState \cup {None}]
  BY <1>2, <1>4, <1>5 DEF TestState, TypeOK
<1>7. TypeOK' /\ Registrations'
  BY <1>2, <1>3, <1>6 DEF TypeOK, Registrations, ResultsOfRegistration, RegistrationsKnown
<1>8. push'[Poller] = push[Poller] /\ \A g \in Tester \ {h} : test'[g] = test[g] /\ push'[g] = push[g]
  BY <1>2, <1>3, DeliveryAssumption DEF Sender, TypeOK
<1>9. PushesBelong' /\ BatchWhole' /\ RefreshesGetTheirTime'
  BY <1>2, <1>3, <1>8 DEF PushesBelong, BatchWhole, RefreshesGetTheirTime, FairPart
<1> QED
  BY <1>3, <1>7, <1>9

\* The row is written only beside the row of the device.
LEMMA DeliverySaveTestResult ==
    ASSUME DeliveryInv, NEW h \in Tester, SaveTestResult(h)
    PROVE  DeliveryInv'
<1> USE DEF DeliveryInv, Registrations
<1>1. /\ test[h] # None /\ test[h].todo = <<>> /\ test[h] \in TestState
      /\ test' = [test EXCEPT ![h] = None]
      /\ UNCHANGED <<devices, generation, provider, built, push, batch, apns, changes>>
  BY DEF SaveTestResult, TypeOK
<1>2. test[h].device \in Device
  BY <1>1 DEF TestState
<1>3. \/ results' = results
      \/ devices[test[h].device] # None /\ results' = [results EXCEPT ![test[h].device] = generation[test[h].device]]
  BY DEF SaveTestResult
<1>4. faults' \in 0..MaxFaults
  BY DeliveryAssumption DEF SaveTestResult, Fault, TypeOK
<1>5. TypeOK' /\ Registrations'
  <2> DEFINE d == test[h].device
  <2>1. devices[d] # None => generation[d] \in 1..MaxChanges + 1
    BY <1>2, DeliveryAssumption DEF TypeOK, RegistrationsKnown
  <2>2. results' \in [Device -> 1..MaxChanges + 1 \cup {None}]
    BY <1>3, <2>1 DEF TypeOK
  <2>3. TypeOK'
    BY <1>1, <1>4, <2>2 DEF TypeOK
  <2>4. \A e \in Device : \/ results'[e] = results[e]
                          \/ devices[e] # None /\ results'[e] = generation[e]
    BY <1>2, <1>3 DEF TypeOK
  <2>5. ResultsOfRegistration'
    BY <1>1, <2>4 DEF ResultsOfRegistration
  <2> QED
    BY <1>1, <2>3, <2>5 DEF Registrations, RegistrationsKnown
<1>6. PushesInOrder' /\ SecondTokenIsNew'
  BY <1>1 DEF PushesInOrder, SecondTokenIsNew
<1>7. push[h] = None
  BY <1>1 DEF PushesBelong
<1>8. PushesBelong' /\ BatchWhole' /\ RefreshesGetTheirTime'
  BY <1>1, <1>7 DEF PushesBelong, BatchWhole, RefreshesGetTheirTime, FairPart, TypeOK
<1> QED
  BY <1>5, <1>6, <1>8

\* A kill leaves the tables, and what APNs holds against tokens.
LEMMA DeliveryRestart ==
    ASSUME DeliveryInv, Restart
    PROVE  DeliveryInv'
<1> USE DEF DeliveryInv, Registrations
<1>1. TypeOK' /\ Registrations'
  BY DeliveryAssumption DEF Restart, Fault, TypeOK, Registrations, ResultsOfRegistration, RegistrationsKnown
<1>2. /\ PushesInOrder' /\ SecondTokenIsNew' /\ PushesBelong' /\ BatchWhole'
      /\ RefreshesGetTheirTime'
  BY DEF Restart, PushesInOrder, SecondTokenIsNew, PushesBelong, BatchWhole, RefreshesGetTheirTime, Sender
<1> QED
  BY <1>1, <1>2

-----------------------------------------------------------------------------
(* The theorems.                                                           *)

LEMMA DeliveryStep == DeliveryInv /\ [Next]_vars => DeliveryInv'
<1> SUFFICES ASSUME DeliveryInv, [Next]_vars
             PROVE  DeliveryInv'
  OBVIOUS
<1>1. CASE UNCHANGED vars
  BY <1>1 DEF vars, DeliveryInv, TypeOK, PushesInOrder, PushesBelong, BatchWhole,
              SecondTokenIsNew, RefreshesGetTheirTime, FairPart, Registrations, ResultsOfRegistration, RegistrationsKnown
<1>2. CASE Phones
  BY <1>2, DeliveryPhones
<1>3. CASE TokenDies \/ ProviderTokenRefused
  BY <1>3, DeliveryApns
<1>4. CASE \E s \in Sender : Push(s)
  BY <1>4, DeliveryPush
<1>5. CASE Dispatch
  BY <1>5, DeliveryBegins, DeliveryRefresh, DeliveryRefreshed, DeliveryEnds DEF Dispatch
<1>6. CASE \E h \in Tester : Test(h)
  BY <1>6, DeliveryBeginTest, DeliveryTestPush, DeliveryTestAnswered, DeliverySaveTestResult DEF Test
<1>7. CASE Restart
  BY <1>7, DeliveryRestart
<1> QED
  BY <1>1, <1>2, <1>3, <1>4, <1>5, <1>6, <1>7 DEF Next

\* DeliveryInv holds throughout.
THEOREM DeliveryCorrect == Spec => []DeliveryInv
BY DeliveryInit, DeliveryStep, PTL DEF Spec

\* The types of the tables, the pushes, the dispatch and the tests.
THEOREM DeliveryTypeCorrect == Spec => []TypeOK
<1>1. DeliveryInv => TypeOK
  BY DEF DeliveryInv
<1> QED
  BY <1>1, DeliveryCorrect, PTL

\* The second request of apnsClient.push never carries the provider token
\* that the first was refused with, whatever other senders cache or drop.
THEOREM SecondTokenCorrect == Spec => []SecondTokenIsNew
<1>1. DeliveryInv => SecondTokenIsNew
  BY DEF DeliveryInv
<1> QED
  BY <1>1, DeliveryCorrect, PTL

\* deliverWidgets leaves every device its fair part of the time at least,
\* for any number of devices and any budget.
THEOREM RefreshTimeCorrect == Spec => []RefreshesGetTheirTime
<1>1. DeliveryInv => RefreshesGetTheirTime
  BY DEF DeliveryInv
<1> QED
  BY <1>1, DeliveryCorrect, PTL

\* No registration is shown a test result that was saved before it: DeleteDevice
\* removes the row, and SaveDeviceTestResult writes none for a device that has
\* left.
THEOREM ResultsCorrect == Spec => []ResultsOfRegistration
<1>1. DeliveryInv => ResultsOfRegistration
  BY DEF DeliveryInv
<1> QED
  BY <1>1, DeliveryCorrect, PTL

\* ClearWidgetToken takes a token from a device only when APNs has declared
\* that very token dead.
THEOREM LiveWidgetCorrect == Spec => LiveWidgetTokenKept
<1> DEFINE Kept(d) == devices[d] # None /\ devices'[d] # None /\ changes' = changes
                         /\ devices'[d].widget # devices[d].widget => devices[d].widget \in dead
<1>1. ASSUME DeliveryInv, [Next]_vars
      PROVE  \A d \in Device : Kept(d)
  <2>1. CASE Refreshed
    <3>1. PICK answer \in {"lost", "InvalidProviderToken", "Unregistered", "ok"} :
              /\ EndPush(Poller, answer)
              /\ IF answer = "Unregistered" /\ faults' = faults
                 THEN devices' = WithoutToken(batch.todo[1].device, batch.todo[1].token)
                 ELSE UNCHANGED devices
      BY <2>1 DEF Refreshed
    <3>2. push[Poller] # None /\ batch # None /\ batch.todo # <<>> /\ push[Poller].to = batch.todo[1].token
      BY <1>1, <3>1 DEF EndPush, DeliveryInv, PushesBelong
    <3>3. CASE UNCHANGED devices
      BY <3>3
    <3>4. CASE /\ answer = "Unregistered"
               /\ devices' = WithoutToken(batch.todo[1].device, batch.todo[1].token)
      <4>1. batch.todo[1].token \in dead
        BY <3>1, <3>2, <3>4 DEF EndPush
      <4>2. batch.todo[1] \in [device : Device, token : Token]
        BY <1>1, <3>2, HeadOfList DEF DeliveryInv, TypeOK, BatchState
      <4>3. \A d \in Device : devices'[d] # devices[d] => devices[d].widget = batch.todo[1].token
        BY <1>1, <3>4, <4>2, WithoutTokenOK DEF DeliveryInv
      <4> QED
        BY <4>1, <4>3
    <3> QED
      BY <3>1, <3>3, <3>4
  <2>2. CASE Phones
    <3>1. changes' = changes + 1 /\ changes \in Nat
      BY <1>1, <2>2, DeliveryAssumption DEF Phones, PostDevice, DeleteDevice, DeliveryInv, TypeOK
    <3> QED
      BY <3>1
  <2>3. CASE UNCHANGED devices
    BY <2>3
  <2> QED
    BY <1>1, <2>1, <2>2, <2>3
       DEF Next, vars, TokenDies, ProviderTokenRefused, Push, Refused, Invalidate, SendAgain,
           Dispatch, BeginDispatch, AlertsEnd, Refresh, EndDispatch,
           Test, TestPush, TestAnswered, SaveTestResult, BeginTest, Restart
<1>2. DeliveryInv /\ [Next]_vars => [\A d \in Device : Kept(d)]_vars
  BY <1>1
<1> QED
  BY <1>2, DeliveryCorrect, PTL DEF Spec, LiveWidgetTokenKept
=============================================================================
