------------------------- MODULE AlertOutboxProofs --------------------------
(***************************************************************************)
(* Theorems about the alert outbox, for any number of devices, tokens,     *)
(* events, danger periods, batch sizes and registration requests.          *)
(***************************************************************************)
EXTENDS AlertTurns, FiniteSetTheorems, TLAPS

USE DEF Row, EventOf, DeviceOf, NoRow

-----------------------------------------------------------------------------
(* Types.                                                                  *)

\* Deleting rows keeps the queue, its order and the notes about it typed.
LEMMA RemoveOK ==
    ASSUME TypeOK, NEW gone, Remove(gone)
    PROVE  /\ pending' \subseteq Row
           /\ before' \subseteq pending' \X pending'
           /\ aged' \subseteq pending'
           /\ accepted' \subseteq pending' \X (Token \cup {NoToken})
           /\ excused' \subseteq pending'
BY DEF TypeOK, StoreOK, WorldOK, Remove, Without

\* The dispatcher's memory starts out, and starts over, typed.
LEMMA ForgottenOK ==
    ASSUME Forgotten, pc' = "idle", MaxCalls \in Nat
    PROVE  MemoryOK'
BY DEF Forgotten, MemoryOK

\* The empty outbox has its type.
LEMMA TypeInit == OutboxAssumption /\ Init => TypeOK
BY DEF OutboxAssumption, Init, TypeOK, StoreOK, MemoryOK, WorldOK

\* A registration keeps the types: its generation is at most MaxCalls.
LEMMA TypeUpsert ==
    ASSUME OutboxAssumption, TypeOK, NEW d \in Device,
           NEW req \in Token \cup {NoToken, Keep}, Upsert(d, req)
    PROVE  TypeOK'
BY DEF OutboxAssumption, TypeOK, StoreOK, MemoryOK, WorldOK, Upsert, memory, clock, history

\* Deleting a device, its rows and its cadence keeps the types.
LEMMA TypeDeleteDevice ==
    ASSUME OutboxAssumption, TypeOK, NEW d \in Device, DeleteDevice(d)
    PROVE  TypeOK'
<1>1. Remove(RowsOf(d))
  BY DEF DeleteDevice
<1>2. /\ pending' \subseteq Row
      /\ before' \subseteq pending' \X pending'
      /\ aged' \subseteq pending'
      /\ accepted' \subseteq pending' \X (Token \cup {NoToken})
      /\ excused' \subseteq pending'
  BY <1>1, RemoveOK
<1>3. StoreOK'
  BY <1>2 DEF OutboxAssumption, TypeOK, StoreOK, DeleteDevice
<1>4. MemoryOK'
  BY DEF TypeOK, MemoryOK, DeleteDevice, memory
<1>5. WorldOK'
  BY <1>2 DEF TypeOK, WorldOK, DeleteDevice
<1> QED
  BY <1>3, <1>4, <1>5 DEF TypeOK

\* The passing of time and the death of a token keep the types.
LEMMA TypeWorld ==
    ASSUME TypeOK, World
    PROVE  TypeOK'
BY DEF TypeOK, StoreOK, MemoryOK, WorldOK, World, Age, Lapse, IntervalElapses, TokenDies,
       store, memory, clock, history

\* A poll's transaction keeps the types: what it queues are rows.
LEMMA TypeProcess ==
    ASSUME TypeOK, NEW emit, NEW obsolete, ProcessDetailed(emit, obsolete)
    PROVE  TypeOK'
BY DEF TypeOK, StoreOK, MemoryOK, WorldOK, ProcessDetailed, Appended, Without

\* Reading a batch keeps the types: it is a set of queued rows.
LEMMA TypePendingAlerts ==
    ASSUME TypeOK, PendingAlerts
    PROVE  TypeOK'
BY RemoveOK DEF TypeOK, StoreOK, MemoryOK, WorldOK, PendingAlerts, Deliverable

\* Discarding, postponing or sending a row keeps the types.
LEMMA TypeConsider ==
    ASSUME TypeOK, NEW r \in batch, Heed(r) \/ DiscardFails(r)
    PROVE  TypeOK'
<1>1. CASE Discard(r)
  <2>1. Remove({r})
    BY <1>1 DEF Discard
  <2> QED
    BY <1>1, <2>1, RemoveOK DEF TypeOK, StoreOK, MemoryOK, WorldOK, Discard
<1>2. CASE DiscardFails(r)
  BY <1>2 DEF TypeOK, StoreOK, MemoryOK, WorldOK, DiscardFails, store, clock, history
<1>3. CASE Postpone(r)
  BY <1>3 DEF TypeOK, StoreOK, MemoryOK, WorldOK, Postpone, store, clock, history
<1>4. CASE SendAlert(r)
  BY <1>4 DEF TypeOK, StoreOK, MemoryOK, WorldOK, SendAlert, store, clock, history
<1> QED
  BY <1>1, <1>2, <1>3, <1>4 DEF Heed

\* What APNs taking an alert adds to the history is typed.
LEMMA TakenOK ==
    ASSUME TypeOK, cur \in Row, Taken
    PROVE  /\ accepted' \subseteq pending \X (Token \cup {NoToken})
           /\ delivered' \subseteq Device \X Period
BY DEF TypeOK, StoreOK, MemoryOK, WorldOK, Taken, SentTo

\* Any answer to the request in flight keeps the types.
LEMMA TypeAnswer ==
    ASSUME TypeOK, Answer
    PROVE  TypeOK'
<1>1. cur \in Row /\ pc = "sending"
  BY DEF TypeOK, MemoryOK, Answer, Accept, AcceptUnheard, SendFails, Terminal
<1>2. CASE Accept
  BY <1>1, <1>2, TakenOK DEF TypeOK, StoreOK, MemoryOK, WorldOK, Accept, store, clock
<1>3. CASE AcceptUnheard
  BY <1>1, <1>3, TakenOK DEF TypeOK, StoreOK, MemoryOK, WorldOK, AcceptUnheard, store, clock
<1>4. CASE SendFails
  BY <1>1, <1>4 DEF TypeOK, StoreOK, MemoryOK, WorldOK, SendFails, store, clock, history
<1>5. CASE Terminal
  BY <1>1, <1>5 DEF TypeOK, StoreOK, MemoryOK, WorldOK, Terminal, store, clock, history
<1> QED
  BY <1>2, <1>3, <1>4, <1>5 DEF Answer

\* Acknowledging a taken alert, or failing to, keeps the types.
LEMMA TypeCompleteAlert ==
    ASSUME OutboxAssumption, TypeOK, CompleteAlert
    PROVE  TypeOK'
<1>1. cur \in Row /\ pc = "accepted"
  BY DEF TypeOK, MemoryOK, CompleteAlert
<1>2. MemoryOK'
  BY DEF TypeOK, MemoryOK, CompleteAlert
<1>3. CASE cur \in pending /\ SameRegistration
  <2>1. Acknowledged
    BY <1>3 DEF CompleteAlert
  <2>2. Remove({cur})
    BY <2>1 DEF Acknowledged
  <2>3. cadence' \in [Device \X Period -> {"never", "recent", "elapsed"}]
    <3>1. PeriodOf[EventOf(cur)] \in Period \cup {NoPeriod}
      BY <1>1 DEF OutboxAssumption
    <3> QED
      BY <1>1, <2>1, <3>1 DEF Acknowledged, TypeOK, StoreOK
  <2> QED
    BY <1>2, <2>2, <2>3, RemoveOK DEF TypeOK, StoreOK, WorldOK, CompleteAlert
<1>4. CASE ~(cur \in pending /\ SameRegistration)
  BY <1>2, <1>4 DEF TypeOK, StoreOK, WorldOK, CompleteAlert
<1> QED
  BY <1>3, <1>4

\* Refusing a token, or leaving it alone, keeps the types.
LEMMA TypeRejectAlert ==
    ASSUME TypeOK, RejectAlert
    PROVE  TypeOK'
<1> DEFINE d == DeviceOf(cur)
<1>1. cur \in Row /\ pc = "terminal"
  BY DEF TypeOK, MemoryOK, RejectAlert
<1>2. MemoryOK'
  BY <1>1 DEF TypeOK, MemoryOK, RejectAlert
<1>3. CASE apnsToken[d] = SentTo
  <2>1. Remove(RowsOf(d))
    BY <1>3 DEF RejectAlert
  <2>2. apnsToken' \in [Device -> Token \cup {NoToken}]
    BY <1>3 DEF RejectAlert, TypeOK, StoreOK
  <2>3. /\ pending' \subseteq Row
        /\ before' \subseteq pending' \X pending'
        /\ aged' \subseteq pending'
        /\ accepted' \subseteq pending' \X (Token \cup {NoToken})
        /\ excused' \subseteq pending'
    BY <2>1, RemoveOK
  <2> QED
    BY <1>2, <2>2, <2>3 DEF TypeOK, StoreOK, WorldOK, RejectAlert
<1>4. CASE apnsToken[d] # SentTo
  BY <1>2, <1>4 DEF TypeOK, StoreOK, WorldOK, RejectAlert
<1> QED
  BY <1>3, <1>4

\* Moving rows to the back relates queued rows only.
LEMMA TypeDeferAlerts ==
    ASSUME OutboxAssumption, TypeOK, DeferAlerts
    PROVE  TypeOK'
<1>1. MemoryOK'
  BY ForgottenOK DEF DeferAlerts, OutboxAssumption
<1> QED
  BY <1>1 DEF TypeOK, StoreOK, WorldOK, DeferAlerts, MovedBack, clock, history

\* No fault and no kill leaves a value outside its type.
LEMMA TypeFault ==
    ASSUME OutboxAssumption, TypeOK, Fault
    PROVE  TypeOK'
<1>1. CASE SkipDispatch
  BY <1>1 DEF SkipDispatch, TypeOK, StoreOK, MemoryOK, WorldOK, store, clock, history
<1>2. CASE CompleteFails
  BY <1>2 DEF CompleteFails, TypeOK, StoreOK, MemoryOK, WorldOK, store, clock
<1>3. CASE RejectFails
  BY <1>3 DEF RejectFails, TypeOK, StoreOK, MemoryOK, WorldOK, store, clock, history
<1>4. CASE DeferFails
  <2>1. MemoryOK'
    BY <1>4, ForgottenOK DEF DeferFails, OutboxAssumption
  <2> QED
    BY <1>4, <2>1 DEF DeferFails, TypeOK, StoreOK, WorldOK, store, clock, history
<1>5. CASE Crash
  <2>1. MemoryOK'
    BY <1>5, ForgottenOK DEF Crash, OutboxAssumption
  <2> QED
    BY <1>5, <2>1 DEF Crash, TypeOK, StoreOK, WorldOK, store, clock
<1>6. CASE \E r \in batch : DiscardFails(r)
  BY <1>6, TypeConsider
<1> QED
  BY <1>1, <1>2, <1>3, <1>4, <1>5, <1>6 DEF Fault

\* Every step keeps the types.
LEMMA TypeStep ==
    ASSUME OutboxAssumption, TypeOK, [Next]_vars
    PROVE  TypeOK'
<1>1. CASE Api
  BY <1>1, TypeUpsert, TypeDeleteDevice DEF Api
<1>2. CASE World
  BY <1>2, TypeWorld
<1>3. CASE Process
  BY <1>3, TypeProcess DEF Process
<1>4. CASE PendingAlerts
  BY <1>4, TypePendingAlerts
<1>5. CASE Consider
  BY <1>5, TypeConsider DEF Consider
<1>6. CASE Answer
  BY <1>6, TypeAnswer
<1>7. CASE Settle
  BY <1>7, TypeCompleteAlert, TypeRejectAlert DEF Settle
<1>8. CASE DeferAlerts
  BY <1>8, TypeDeferAlerts
<1>9. CASE Fault
  BY <1>9, TypeFault
<1>10. CASE UNCHANGED vars
  BY <1>10 DEF vars, store, memory, clock, history, TypeOK, StoreOK, MemoryOK, WorldOK
<1> QED
  BY <1>1, <1>2, <1>3, <1>4, <1>5, <1>6, <1>7, <1>8, <1>9, <1>10 DEF Next, Poller

\* The outbox is always typed: in every reachable state the dispatcher holds
\* a row when it says it does, and nothing is noted of a row that is gone.
THEOREM TypeCorrect == Spec => []TypeOK
<1>1. Init => TypeOK
  BY OutboxAssumption, TypeInit
<1>2. TypeOK /\ [Next]_vars => TypeOK'
  BY OutboxAssumption, TypeStep
<1> QED
  BY <1>1, <1>2, PTL DEF Spec

-----------------------------------------------------------------------------
(* The order of the queue, and the turns in it.                            *)

\* The rowid order, as a relation, is a strict total order on the queued rows.
QueueOrder ==
    /\ \A r \in pending : <<r, r>> \notin before
    /\ \A r, s \in pending : r = s \/ <<r, s>> \in before \/ <<s, r>> \in before
    /\ \A r, s, t \in pending :
         <<r, s>> \in before /\ <<s, t>> \in before => <<r, t>> \in before

\* Every step keeps the rowid order strict, total and transitive.
LEMMA OrderStep ==
    ASSUME TypeOK, QueueOrder, [Next]_vars
    PROVE  QueueOrder'
<1> USE DEF QueueOrder
<1>1. ASSUME NEW gone, Remove(gone)
      PROVE  QueueOrder'
  BY <1>1 DEF Remove, Without
<1>2. CASE Process
  <2>1. PICK emit \in SUBSET Event, obsolete \in SUBSET Threshold :
               ProcessDetailed(emit, obsolete)
    BY <1>2 DEF Process
  <2> DEFINE gone == Overdue \cup {r \in pending : EventOf(r) \in obsolete}
             left == pending \ gone
             new  == {r \in Row : EventOf(r) \in emit
                        /\ DeviceOf(r) \in EnqueueTargets(EventOf(r), left)} \ left
  <2>2. PICK rank \in Injection(new, 1 .. Cardinality(new)) :
               before' = Appended(Without(before, gone), left, new, rank)
    BY <2>1 DEF ProcessDetailed
  <2>3. pending' = left \cup new
    BY <2>1 DEF ProcessDetailed
  <2>4. left \cap new = {} /\ left \subseteq pending
    OBVIOUS
  <2> HIDE DEF gone, left, new
  <2>5. /\ \A r \in new : rank[r] \in 1 .. Cardinality(new)
        /\ \A r, s \in new : rank[r] = rank[s] => r = s
    BY <2>2 DEF Injection, IsInjective
  <2>6. \A r, s : <<r, s>> \in before' <=>
            \/ <<r, s>> \in before /\ r \notin gone /\ s \notin gone
            \/ r \in left /\ s \in new
            \/ r \in new /\ s \in new /\ rank[r] < rank[s]
    BY <2>2 DEF Appended, Without
  <2>7. \A r \in left : r \notin gone
    BY DEF left
  <2>8. \A r, s : <<r, s>> \in before => r \in pending /\ s \in pending
    BY DEF TypeOK, StoreOK
  <2>9. \A r, s : <<r, s>> \in before /\ r \notin gone /\ s \notin gone
                    => r \in left /\ s \in left
    BY <2>8 DEF left
  <2>10. ASSUME NEW r \in pending'
         PROVE  <<r, r>> \notin before'
    <3>1. CASE r \in left
      BY <2>4, <2>6, <3>1
    <3>2. CASE r \in new
      BY <2>4, <2>5, <2>6, <2>9, <3>2
    <3> QED
      BY <2>3, <3>1, <3>2
  <2>11. ASSUME NEW r \in pending', NEW s \in pending'
         PROVE  r = s \/ <<r, s>> \in before' \/ <<s, r>> \in before'
    <3>1. CASE r \in left /\ s \in left
      BY <2>4, <2>6, <2>7, <3>1
    <3>2. CASE r \in new /\ s \in new
      BY <2>5, <2>6, <3>2
    <3> QED
      BY <2>3, <2>6, <3>1, <3>2
  <2>12. ASSUME NEW r \in pending', NEW s \in pending', NEW t \in pending',
                <<r, s>> \in before', <<s, t>> \in before'
         PROVE  <<r, t>> \in before'
    BY <2>3, <2>4, <2>5, <2>6, <2>7, <2>9, <2>12
  <2> QED
    BY <2>10, <2>11, <2>12
<1>3. CASE DeferAlerts
  <2>1. pending' = pending
    BY <1>3 DEF DeferAlerts
  <2> DEFINE back == deferred \cap pending
  <2>2. \A r, s \in pending : <<r, s>> \in before' <=>
            \/ <<r, s>> \in before /\ (r \in back <=> s \in back)
            \/ r \notin back /\ s \in back
    BY <1>3 DEF DeferAlerts, MovedBack
  <2> HIDE DEF back
  <2> QED
    BY <2>1, <2>2
<1>4. CASE Api
  <2>1. CASE \E d \in Device : DeleteDevice(d)
    BY <1>1, <2>1 DEF DeleteDevice
  <2>2. CASE \E d \in Device, req \in Token \cup {NoToken, Keep} : Upsert(d, req)
    BY <2>2 DEF Upsert
  <2> QED
    BY <1>4, <2>1, <2>2 DEF Api
<1>5. CASE World
  BY <1>5 DEF World, Age, Lapse, IntervalElapses, TokenDies, store
<1>6. CASE PendingAlerts
  BY <1>1, <1>6 DEF PendingAlerts
<1>7. CASE Consider
  BY <1>1, <1>7 DEF Consider, Heed, Discard, Postpone, SendAlert, store
<1>8. CASE Answer
  BY <1>8 DEF Answer, Accept, AcceptUnheard, SendFails, Terminal, store
<1>9. CASE CompleteAlert
  <2>1. CASE Acknowledged
    BY <1>1, <2>1 DEF Acknowledged
  <2>2. CASE UNCHANGED <<pending, before>>
    BY <2>2
  <2> QED
    BY <1>9, <2>1, <2>2 DEF CompleteAlert
<1>10. CASE RejectAlert
  <2>1. CASE Remove(RowsOf(DeviceOf(cur)))
    BY <1>1, <2>1
  <2>2. CASE UNCHANGED <<pending, before>>
    BY <2>2
  <2> QED
    BY <1>10, <2>1, <2>2 DEF RejectAlert
<1>11. CASE Fault
  BY <1>11 DEF Fault, SkipDispatch, CompleteFails, RejectFails, DeferFails, Crash,
               DiscardFails, store
<1>12. CASE UNCHANGED vars
  BY <1>12 DEF vars, store
<1> QED
  BY <1>2, <1>3, <1>4, <1>5, <1>6, <1>7, <1>8, <1>9, <1>10, <1>11, <1>12
     DEF Next, Poller, Settle

\* Every step keeps who is waiting ahead of who has passed it, in the table
\* and in the batch.
LEMMA TurnStep ==
    ASSUME OutboxAssumption, TypeOK, QueueOrder, TurnInv, TurnNext
    PROVE  TurnInv'
<1> USE DEF TurnInv
<1>1. /\ \A x \in passed' : x \in passed \/ x \in MovedBehind
      /\ \A x \in passed' : x[1] \in Deliverable' /\ x[1] \notin Turn /\ x[2] \in pending'
  BY DEF TurnNext
<1>2. passed' \subseteq Row \X Row
  <2>1. MovedBehind \subseteq Row \X Row
    BY DEF MovedBehind, Deliverable, TypeOK, StoreOK, MemoryOK
  <2> QED
    BY <1>1, <2>1
<1>3. \A x \in passed : x[1] \in pending /\ x[2] \in pending /\ x[1] \in Row
  BY DEF Deliverable
<1>4. ASSUME DeferAlerts, NEW x \in passed'
      PROVE  x \in before' /\ x[1] \notin deferred' /\ x[1] # cur' /\ (x[2] \in batch' => x[1] \in batch')
  <2>1. deferred' = {} /\ batch' = {} /\ cur' = NoRow
    BY <1>4 DEF DeferAlerts, Forgotten
  <2>2. x[1] # NoRow
    BY <1>2, <1>4
  <2>3. x = <<x[1], x[2]>>
    BY <1>2, <1>4
  <2>4. CASE x \in passed
    <3>1. x \in before /\ x[1] \notin deferred
      BY <2>4
    <3>2. before' = MovedBack(before, pending, deferred \cap pending)
      BY <1>4 DEF DeferAlerts
    <3>3. x \in before'
      <4> DEFINE a == x[1]
                 b == x[2]
      <4>1. <<a, b>> \in before /\ a \notin deferred /\ a \in pending /\ b \in pending
        BY <1>3, <2>3, <2>4, <3>1
      <4>2. x = <<a, b>>
        BY <2>3
      <4> HIDE DEF a, b
      <4>3. <<a, b>> \in before'
        BY <3>2, <4>1 DEF MovedBack
      <4> QED
        BY <4>2, <4>3
    <3> QED
      BY <2>1, <2>2, <3>1, <3>3
  <2>5. CASE x \in MovedBehind
    <3>1. x[1] \in pending \ deferred /\ x[2] \in deferred \cap pending
      BY <1>4, <2>5 DEF MovedBehind, Deliverable
    <3> QED
      BY <1>4, <2>1, <2>2, <2>3, <3>1 DEF DeferAlerts, MovedBack
  <2> QED
    BY <1>1, <1>4, <2>4, <2>5
<1>5. ASSUME ~DeferAlerts
      PROVE  \A x \in passed' : x \in passed
  BY <1>1, <1>5 DEF MovedBehind
<1>6. ASSUME NEW gone, Remove(gone), ~DeferAlerts
      PROVE  \A x \in passed' : x \in before'
  <2>1. \A x \in passed' : x \in before /\ x[1] \in pending' /\ x[2] \in pending'
    BY <1>1, <1>5, <1>6 DEF Deliverable
  <2>2. pending' = pending \ gone /\ before' = {p \in before : p[1] \notin gone /\ p[2] \notin gone}
    BY <1>6 DEF Remove, Without
  <2> QED
    BY <2>1, <2>2, Zenon
<1>7. ASSUME ~DeferAlerts, UNCHANGED before
      PROVE  \A x \in passed' : x \in before'
  BY <1>5, <1>7
<1>8. ASSUME ~DeferAlerts, UNCHANGED <<batch, deferred, cur>>
      PROVE  \A x \in passed' : x[1] \notin deferred' /\ x[1] # cur' /\ (x[2] \in batch' => x[1] \in batch')
  BY <1>5, <1>8
<1>9. CASE DeferAlerts
  BY <1>1, <1>2, <1>4, <1>9
<1>10. CASE Api /\ ~DeferAlerts
  <2>1. UNCHANGED <<batch, deferred, cur>>
    BY <1>10 DEF Api, DeleteDevice, Upsert, memory
  <2>2. (\E gone : Remove(gone)) \/ UNCHANGED before
    BY <1>10 DEF Api, DeleteDevice, Upsert
  <2> QED
    BY <1>1, <1>2, <1>6, <1>7, <1>8, <1>10, <2>1, <2>2
<1>11. CASE World /\ ~DeferAlerts
  <2>1. UNCHANGED <<before, batch, deferred, cur>>
    BY <1>11 DEF World, Age, Lapse, IntervalElapses, TokenDies, store, memory
  <2> QED
    BY <1>1, <1>2, <1>7, <1>8, <1>11, <2>1
<1>12. CASE Process
  <2>1. PICK emit \in SUBSET Event, obsolete \in SUBSET Threshold :
               emit \cap obsolete = {} /\ ProcessDetailed(emit, obsolete)
    BY <1>12 DEF Process
  <2>2. ~DeferAlerts /\ UNCHANGED <<batch, deferred, cur>>
    BY <2>1 DEF ProcessDetailed, DeferAlerts
  <2> DEFINE gone == Overdue \cup {r \in pending : EventOf(r) \in obsolete}
             left == pending \ gone
             new  == {r \in Row : EventOf(r) \in emit
                        /\ DeviceOf(r) \in EnqueueTargets(EventOf(r), left)} \ left
  <2>3. ASSUME NEW x \in passed'
        PROVE  x \in before'
    <3>1. x \in passed /\ x = <<x[1], x[2]>>
      BY <1>2, <1>5, <2>2, <2>3
    <3>2. x \in before /\ x[1] \in pending \ Overdue /\ x[2] \in pending
      BY <3>1 DEF Deliverable
    <3>3. x[1] \in left \cup new /\ x[2] \in left \cup new
      BY <1>1, <2>1, <2>3 DEF ProcessDetailed, Deliverable
    <3>4. x[1] \in left
      BY <2>1, <3>2, <3>3
    <3>5. /\ left \X new \subseteq before'
          /\ Without(before, gone) \subseteq before'
      BY <2>1 DEF ProcessDetailed, Appended
    <3>6. CASE x[2] \in new
      BY <3>1, <3>4, <3>5, <3>6
    <3>7. CASE x[2] \in left
      BY <3>2, <3>4, <3>5, <3>7 DEF Without
    <3> QED
      BY <3>3, <3>6, <3>7
  <2> QED
    BY <1>1, <1>2, <1>8, <2>2, <2>3
<1>13. CASE PendingAlerts
  <2>1. /\ ~DeferAlerts /\ UNCHANGED <<deferred, cur>>
        /\ Remove(Overdue)
        /\ batch' = {r \in Deliverable :
                       Cardinality({q \in Deliverable : <<q, r>> \in before}) < BatchSize}
    BY <1>13 DEF PendingAlerts, DeferAlerts
  <2>2. ASSUME NEW x \in passed', x[2] \in batch'
        PROVE  x[1] \in batch'
    <3> DEFINE Ahead(r) == {q \in Deliverable : <<q, r>> \in before}
    <3>1. x \in passed /\ x[1] \in Deliverable /\ <<x[1], x[2]>> \in before
      BY <1>2, <1>5, <2>1, <2>2
    <3>2. Ahead(x[1]) \subseteq Ahead(x[2])
      BY <2>1, <2>2, <3>1 DEF QueueOrder, Deliverable
    <3>3. IsFiniteSet(Row)
      BY FS_Product DEF OutboxAssumption
    <3>4. IsFiniteSet(Ahead(x[2]))
      <4>1. Ahead(x[2]) \subseteq Row
        BY DEF Deliverable, TypeOK, StoreOK
      <4> QED
        BY <3>3, <4>1, FS_Subset
    <3>5. /\ Cardinality(Ahead(x[1])) <= Cardinality(Ahead(x[2]))
          /\ Cardinality(Ahead(x[1])) \in Nat /\ Cardinality(Ahead(x[2])) \in Nat
      BY <3>2, <3>4, FS_Subset, FS_CardinalityType
    <3>6. Cardinality(Ahead(x[2])) < BatchSize
      BY <2>1, <2>2
    <3>7. Cardinality(Ahead(x[1])) < BatchSize
      <4> HIDE DEF Ahead
      <4> QED
        BY <3>5, <3>6 DEF OutboxAssumption
    <3> QED
      BY <2>1, <3>1, <3>7
  <2>3. \A x \in passed' : x \in before'
    BY <1>6, <2>1
  <2> QED
    BY <1>1, <1>2, <1>5, <2>1, <2>2, <2>3
<1>14. CASE \E r \in batch : Heed(r) \/ DiscardFails(r)
  <2>1. PICK r \in batch : Heed(r) \/ DiscardFails(r)
    BY <1>14
  <2>2. /\ pc = "dispatch" /\ pc' \in {"dispatch", "sending"}
        /\ batch' = batch \ {r}
        /\ deferred' \subseteq deferred \cup {r}
        /\ cur' \in {cur, r}
        /\ Remove({r}) \/ UNCHANGED before
    BY <2>1 DEF Heed, Discard, DiscardFails, Postpone, SendAlert, store
  <2>3. Turn = {r}
    BY <2>2 DEF Turn
  <2>4. ~DeferAlerts
    BY <2>2 DEF DeferAlerts
  <2>5. \A x \in passed' : x \in before'
    BY <1>6, <1>7, <2>2, <2>4
  <2>6. \A x \in passed' : x \in passed /\ x[1] # r
    BY <1>1, <1>5, <2>3, <2>4
  <2>7. \A x \in passed' : x[1] \notin deferred' /\ x[1] # cur' /\ (x[2] \in batch' => x[1] \in batch')
    BY <2>2, <2>6
  <2> QED
    BY <1>1, <1>2, <2>5, <2>7
<1>15. CASE Answer \/ Settle \/ CompleteFails \/ RejectFails
  <2>1. /\ ~DeferAlerts /\ UNCHANGED batch
        /\ deferred' \subseteq deferred \cup {cur}
        /\ cur' \in {cur, NoRow}
        /\ (\E gone : Remove(gone)) \/ UNCHANGED before
    BY <1>15 DEF Answer, Accept, AcceptUnheard, SendFails, Terminal, Settle, CompleteAlert,
                 Acknowledged, RejectAlert, CompleteFails, RejectFails, DeferAlerts, store
  <2>2. \A x \in passed' : x[1] \notin deferred' /\ x[1] # cur' /\ (x[2] \in batch' => x[1] \in batch')
    <3>1. \A x \in passed' : x \in passed /\ x[1] # NoRow
      BY <1>2, <1>5, <2>1
    <3> QED
      BY <2>1, <3>1
  <2> QED
    BY <1>1, <1>2, <1>6, <1>7, <2>1, <2>2
<1>16. CASE SkipDispatch
  <2>1. ~DeferAlerts /\ UNCHANGED <<before, batch, deferred, cur>>
    BY <1>16 DEF SkipDispatch, DeferAlerts, store
  <2> QED
    BY <1>1, <1>2, <1>7, <1>8, <2>1
<1>17. CASE (DeferFails \/ Crash) /\ ~DeferAlerts
  <2>1. /\ UNCHANGED before
        /\ deferred' = {} /\ batch' = {} /\ cur' = NoRow
    BY <1>17 DEF DeferFails, Crash, Forgotten, store
  <2>2. \A x \in passed' : x[1] # NoRow
    BY <1>2
  <2> QED
    BY <1>1, <1>2, <1>7, <1>17, <2>1, <2>2
<1> QED
  BY <1>9, <1>10, <1>11, <1>12, <1>13, <1>14, <1>15, <1>16, <1>17
     DEF TurnNext, Next, Poller, Consider, Fault

\* No alert gets a second turn before each one that it was moved behind, and
\* that could be sent all the time, has had one, however the dispatches are
\* cut short and whatever else is queued, deleted or registered meanwhile.
THEOREM TurnsCorrect == TurnSpec => []TurnsInOrder
<1>1. Init => TypeOK /\ QueueOrder
  BY OutboxAssumption, TypeInit DEF Init, QueueOrder
<1>2. TurnInit => TypeOK /\ QueueOrder /\ TurnInv
  BY <1>1 DEF TurnInit, TurnInv
<1>3. [TurnNext]_turnVars => [Next]_vars
  BY DEF TurnNext, turnVars
<1>4. TypeOK /\ QueueOrder /\ [Next]_vars => TypeOK' /\ QueueOrder'
  BY OutboxAssumption, TypeStep, OrderStep
<1>5. TypeOK /\ QueueOrder /\ TurnInv /\ [TurnNext]_turnVars => TurnInv'
  <2>1. CASE TurnNext
    BY <2>1, OutboxAssumption, TurnStep
  <2>2. CASE UNCHANGED turnVars
    BY <2>2 DEF turnVars, vars, store, memory, clock, TurnInv, Deliverable, Overdue, Reachable
  <2> QED
    BY <2>1, <2>2
<1>6. TurnInv => TurnsInOrder
  BY DEF TurnInv, TurnsInOrder, First
<1> QED
  BY <1>2, <1>3, <1>4, <1>5, <1>6, PTL DEF TurnSpec

-----------------------------------------------------------------------------
(* Registrations: what a request in flight knows of them, and what is kept *)
(* of devices that are gone.                                               *)

\* An unregistered device has nothing queued, no cadence and no token.
LEMMA OrphanStep ==
    ASSUME OutboxAssumption, TypeOK, NoOrphans, [Next]_vars
    PROVE  NoOrphans'
<1> USE DEF NoOrphans, Registered, Reachable
<1>1. CASE Api
  <2>1. ASSUME NEW d \in Device, DeleteDevice(d)
        PROVE  NoOrphans'
    <3>1. pending' = pending \ RowsOf(d) /\ UNCHANGED calls
      BY <2>1 DEF DeleteDevice, Remove
    <3> QED
      BY <2>1, <3>1 DEF DeleteDevice, RowsOf, TypeOK, StoreOK
  <2>2. ASSUME NEW d \in Device, NEW req \in Token \cup {NoToken, Keep}, Upsert(d, req)
        PROVE  NoOrphans'
    <3>1. \A c \in Device : generation[c] # 0 => generation'[c] # 0
      BY <2>2 DEF Upsert, TypeOK, StoreOK, OutboxAssumption
    <3>2. generation'[d] # 0
      BY <2>2 DEF Upsert, TypeOK, StoreOK, OutboxAssumption
    <3> QED
      BY <2>2, <3>1, <3>2 DEF Upsert, TypeOK, StoreOK
  <2> QED
    BY <1>1, <2>1, <2>2 DEF Api
<1>2. CASE World
  <2>1. CASE IntervalElapses
    BY <2>1 DEF IntervalElapses, TypeOK, StoreOK
  <2> QED
    BY <1>2, <2>1 DEF World, Age, Lapse, TokenDies, store
<1>3. CASE Process
  <2>1. UNCHANGED <<generation, apnsToken, cadence>>
    BY <1>3 DEF Process, ProcessDetailed
  <2>2. \A r \in pending' : r \in pending \/ DeviceOf(r) \in Reachable
    BY <1>3 DEF Process, ProcessDetailed, EnqueueTargets
  <2> QED
    BY <2>1, <2>2 DEF TypeOK, StoreOK
<1>4. CASE PendingAlerts
  BY <1>4 DEF PendingAlerts, Remove
<1>5. CASE Consider
  BY <1>5 DEF Consider, Heed, Discard, Postpone, SendAlert, Remove, store
<1>6. CASE Answer
  BY <1>6 DEF Answer, Accept, AcceptUnheard, SendFails, Terminal, store
<1>7. CASE CompleteAlert
  <2>1. CASE cur \in pending /\ SameRegistration
    <3>1. Acknowledged /\ UNCHANGED <<generation, apnsToken>>
      BY <1>7, <2>1 DEF CompleteAlert
    <3>2. pending' \subseteq pending
      BY <3>1 DEF Acknowledged, Remove
    <3>3. \A d \in Device, p \in Period :
             cadence'[<<d, p>>] # "never" => cadence[<<d, p>>] # "never" \/ d = DeviceOf(cur)
      BY <3>1 DEF Acknowledged, TypeOK, StoreOK
    <3> QED
      BY <2>1, <3>1, <3>2, <3>3 DEF SameRegistration
  <2> QED
    BY <1>7, <2>1 DEF CompleteAlert
<1>8. CASE RejectAlert
  <2>1. UNCHANGED <<generation, cadence>> /\ pending' \subseteq pending
    BY <1>8 DEF RejectAlert, Remove
  <2>2. \A d \in Device : apnsToken'[d] # NoToken => apnsToken[d] # NoToken
    BY <1>8 DEF RejectAlert, TypeOK, StoreOK
  <2> QED
    BY <2>1, <2>2
<1>9. CASE DeferAlerts \/ Fault
  BY <1>9 DEF DeferAlerts, Fault, SkipDispatch, CompleteFails, RejectFails, DeferFails,
              Crash, DiscardFails, store
<1>10. CASE UNCHANGED vars
  BY <1>10 DEF vars, store
<1> QED
  BY <1>1, <1>2, <1>3, <1>4, <1>5, <1>6, <1>7, <1>8, <1>9, <1>10 DEF Next, Poller, Settle

\* No delivery that outlives its device leaves anything behind for the next
\* registration under the same id.
THEOREM NoOrphansCorrect == Spec => []NoOrphans
<1>1. Init => NoOrphans
  BY DEF Init, NoOrphans, Registered, Reachable
<1>2. TypeOK /\ NoOrphans /\ [Next]_vars => NoOrphans'
  BY OutboxAssumption, OrphanStep
<1> QED
  BY <1>1, <1>2, TypeCorrect, PTL DEF Spec

\* Only DELETE /v1/devices and a new registration change what a request in
\* flight relies on, and both change the generation.
LEMMA InFlightStep ==
    ASSUME OutboxAssumption, TypeOK, InFlight, [Next]_vars
    PROVE  InFlight'
<1> USE DEF InFlight, Registered, SentTo
<1>1. ASSUME NEW d \in Device, DeleteDevice(d)
      PROVE  InFlight'
  <2>1. UNCHANGED <<calls, pc, cur, seenToken, seenGen, deadTokens>>
    BY <1>1 DEF DeleteDevice, memory
  <2>2. /\ \A c \in Device : generation'[c] = IF c = d THEN 0 ELSE generation[c]
        /\ calls \in Nat
    BY <1>1 DEF DeleteDevice, TypeOK, StoreOK, OutboxAssumption
  <2>3. \A r \in pending' : r \in pending /\ \A t : <<r, t>> \in accepted => <<r, t>> \in accepted'
    BY <1>1 DEF DeleteDevice, Remove
  <2>4. \A x \in delivered : x[1] # d => x \in delivered'
    BY <1>1 DEF DeleteDevice
  <2>5. \A c \in Device : generation'[c] <= calls' /\ seenGen'[c] <= calls'
    BY <2>1, <2>2
  <2>6. pc = "accepted" => cur \in Row
    BY DEF TypeOK, MemoryOK
  <2>7. pc' = "accepted" =>
          LET x == <<DeviceOf(cur), PeriodOf[EventOf(cur)]>>
          IN  x[1] \in Registered' /\ generation'[x[1]] = seenGen'[x[1]] /\ x[2] \in Period
                => x \in delivered'
    BY <2>1, <2>2, <2>4, <2>6
  <2>8. pc' = "accepted" /\ cur' \in pending' => <<cur', SentTo'>> \in accepted'
    BY <2>1, <2>3
  <2> QED
    BY <2>1, <2>5, <2>7, <2>8
<1>2. ASSUME NEW d \in Device, NEW req \in Token \cup {NoToken, Keep}, Upsert(d, req)
      PROVE  InFlight'
  <2>1. UNCHANGED <<pc, cur, pending, seenToken, seenGen, deadTokens, accepted, delivered>>
    BY <1>2 DEF Upsert, memory, history
  <2>2. /\ calls \in Nat /\ calls' = calls + 1
        /\ \A c \in Device : generation'[c] = IF c = d /\ generation[c] = 0 THEN calls + 1
                                                                         ELSE generation[c]
        /\ \A c \in Device : generation[c] \in Nat /\ seenGen[c] \in Nat
    BY <1>2 DEF Upsert, TypeOK, StoreOK, MemoryOK, OutboxAssumption
  <2>3. \A c \in Device : generation'[c] <= calls' /\ seenGen'[c] <= calls'
    BY <2>1, <2>2
  <2>4. \A c \in Device : generation'[c] = seenGen'[c] => generation'[c] = generation[c]
    BY <2>1, <2>2
  <2> QED
    BY <2>1, <2>3, <2>4 DEF TypeOK, StoreOK, MemoryOK
<1>3. CASE World
  BY <1>3 DEF World, Age, Lapse, IntervalElapses, TokenDies, store, memory, clock, history
<1>4. CASE Process
  BY <1>4 DEF Process, ProcessDetailed
<1>5. CASE PendingAlerts
  BY <1>5 DEF PendingAlerts
<1>6. CASE Consider
  BY <1>6 DEF Consider, Heed, Discard, Postpone, SendAlert, store
<1>7. CASE Answer
  <2>1. CASE Accept
    <3>1. cur \in Row
      BY <2>1 DEF Accept, TypeOK, MemoryOK
    <3>2. cur \in pending => <<cur, SentTo>> \in accepted'
      BY <2>1 DEF Accept, Taken
    <3>3. ASSUME generation[DeviceOf(cur)] = seenGen[DeviceOf(cur)],
                 PeriodOf[EventOf(cur)] \in Period
          PROVE  <<DeviceOf(cur), PeriodOf[EventOf(cur)]>> \in delivered'
      BY <2>1, <3>1, <3>3 DEF Accept, Taken
    <3> QED
      BY <2>1, <3>1, <3>2, <3>3 DEF Accept, store
  <2>2. CASE AcceptUnheard \/ SendFails \/ Terminal
    BY <2>2 DEF AcceptUnheard, SendFails, Terminal, store
  <2> QED
    BY <1>7, <2>1, <2>2 DEF Answer
<1>8. CASE Settle
  BY <1>8 DEF Settle, CompleteAlert, RejectAlert
<1>9. CASE DeferAlerts \/ DeferFails \/ Crash
  <2>1. /\ UNCHANGED <<calls, generation>> /\ pc' = "idle"
        /\ \A d \in Device : seenGen'[d] = 0
    BY <1>9 DEF DeferAlerts, DeferFails, Crash, Forgotten, store
  <2> QED
    BY <2>1 DEF TypeOK, StoreOK, OutboxAssumption
<1>10. CASE Fault /\ ~DeferFails /\ ~Crash
  BY <1>10 DEF Fault, SkipDispatch, CompleteFails, RejectFails, DiscardFails, store
<1>11. CASE UNCHANGED vars
  BY <1>11 DEF vars, store, memory, clock, history
<1> QED
  BY <1>1, <1>2, <1>3, <1>4, <1>5, <1>6, <1>7, <1>8, <1>9, <1>10, <1>11
     DEF Next, Poller, Api, Fault

\* What an answer is about is known in every reachable state.
LEMMA InFlightCorrect == Spec => []InFlight
<1>1. Init => InFlight
  BY OutboxAssumption DEF Init, InFlight, OutboxAssumption
<1>2. TypeOK /\ InFlight /\ [Next]_vars => InFlight'
  BY OutboxAssumption, InFlightStep
<1> QED
  BY <1>1, <1>2, TypeCorrect, PTL DEF Spec

-----------------------------------------------------------------------------
(* The reminder cadence.                                                   *)

\* Only a delivery to the current registration starts a cadence.
LEMMA CadenceStep ==
    ASSUME OutboxAssumption, TypeOK, InFlight, CadenceTruthful, [Next]_vars
    PROVE  CadenceTruthful'
<1> USE DEF CadenceTruthful
<1>1. ASSUME NEW d \in Device, DeleteDevice(d)
      PROVE  CadenceTruthful'
  BY <1>1 DEF DeleteDevice
<1>2. ASSUME NEW d \in Device, NEW req \in Token \cup {NoToken, Keep}, Upsert(d, req)
      PROVE  CadenceTruthful'
  BY <1>2 DEF Upsert, history
<1>3. CASE World
  <2>1. CASE IntervalElapses
    BY <2>1 DEF IntervalElapses, history, TypeOK, StoreOK
  <2> QED
    BY <1>3, <2>1 DEF World, Age, Lapse, TokenDies, store, history
<1>4. CASE Process \/ PendingAlerts
  BY <1>4 DEF Process, ProcessDetailed, PendingAlerts
<1>5. CASE Consider
  BY <1>5 DEF Consider, Heed, Discard, Postpone, SendAlert, store, history
<1>6. CASE Answer
  BY <1>6 DEF Answer, Accept, AcceptUnheard, SendFails, Terminal, Taken, store, history
<1>7. CASE CompleteAlert
  <2>1. CASE Acknowledged /\ SameRegistration
    <3> DEFINE x == <<DeviceOf(cur), PeriodOf[EventOf(cur)]>>
    <3>1. cur \in Row /\ pc = "accepted"
      BY <1>7 DEF CompleteAlert, TypeOK, MemoryOK
    <3>2. UNCHANGED delivered
      BY <1>7 DEF CompleteAlert
    <3>3. x[2] \in Period => x \in delivered
      BY <2>1, <3>1 DEF SameRegistration, InFlight
    <3>4. \A d \in Device, p \in Period :
             cadence'[<<d, p>>] # "never" => cadence[<<d, p>>] # "never" \/ <<d, p>> = x
      BY <2>1 DEF Acknowledged, TypeOK, StoreOK
    <3> QED
      BY <3>2, <3>3, <3>4
  <2>2. CASE UNCHANGED cadence
    BY <1>7, <2>2 DEF CompleteAlert
  <2> QED
    BY <1>7, <2>1, <2>2 DEF CompleteAlert
<1>8. CASE RejectAlert \/ DeferAlerts
  BY <1>8 DEF RejectAlert, DeferAlerts, history
<1>9. CASE Fault
  BY <1>9 DEF Fault, SkipDispatch, CompleteFails, RejectFails, DeferFails, Crash,
              DiscardFails, store, history
<1>10. CASE UNCHANGED vars
  BY <1>10 DEF vars, store, history
<1> QED
  BY <1>1, <1>2, <1>3, <1>4, <1>5, <1>6, <1>7, <1>8, <1>9, <1>10
     DEF Next, Poller, Api, Settle

\* A recorded cadence always stands for an alert that APNs took for the very
\* registration it silences.
THEOREM CadenceCorrect == Spec => []CadenceTruthful
<1>1. Init => CadenceTruthful
  BY DEF Init, CadenceTruthful
<1>2. TypeOK /\ InFlight /\ CadenceTruthful /\ [Next]_vars => CadenceTruthful'
  BY OutboxAssumption, CadenceStep
<1> QED
  BY <1>1, <1>2, TypeCorrect, InFlightCorrect, PTL DEF Spec

-----------------------------------------------------------------------------
(* Reminders, duplicates and losses.                                       *)

\* A reminder is queued only where none of its period is.
LEMMA ReminderStep ==
    ASSUME OutboxAssumption, OneReminderPerPeriod, [Next]_vars
    PROVE  OneReminderPerPeriod'
<1> USE DEF OneReminderPerPeriod
<1>1. CASE pending' \subseteq pending
  BY <1>1
<1>2. CASE Process
  <2>1. PICK emit \in SUBSET Event, obsolete \in SUBSET Threshold :
               ProcessDetailed(emit, obsolete)
    BY <1>2 DEF Process
  <2> DEFINE gone == Overdue \cup {r \in pending : EventOf(r) \in obsolete}
             left == pending \ gone
  <2>2. Emittable(emit)
    BY <2>1 DEF ProcessDetailed
  <2>3. \A r \in pending' :
           \/ r \in left
           \/ r \in Row /\ EventOf(r) \in emit /\ DeviceOf(r) \in EnqueueTargets(EventOf(r), left)
    BY <2>1 DEF ProcessDetailed
  <2> HIDE DEF gone
  <2>4. ASSUME NEW r \in pending', NEW s \in pending', r \notin left,
               DeviceOf(r) = DeviceOf(s), EventOf(r) \in Reminder, EventOf(s) \in Reminder,
               PeriodOf[EventOf(r)] = PeriodOf[EventOf(s)]
        PROVE  r = s
    <3>1. r \in Row /\ EventOf(r) \in emit /\ DeviceOf(r) \in EnqueueTargets(EventOf(r), left)
      BY <2>3, <2>4
    <3>2. DangerDeliveryDue(DeviceOf(r), PeriodOf[EventOf(r)], left)
      BY <2>4, <3>1 DEF EnqueueTargets
    <3>3. s \notin left
      BY <2>4, <3>2 DEF DangerDeliveryDue
    <3>4. s \in Row /\ EventOf(s) \in emit
      BY <2>3, <3>3
    <3>5. EventOf(r) = EventOf(s)
      BY <2>2, <2>4, <3>1, <3>4 DEF Emittable, OutboxAssumption
    <3> QED
      BY <2>4, <3>1, <3>4, <3>5
  <2> QED
    BY <2>4
<1>3. \/ pending' \subseteq pending
      \/ Process
  BY DEF Next, Api, Upsert, DeleteDevice, World, Age, Lapse, IntervalElapses, TokenDies,
         Poller, PendingAlerts, Consider, Heed, Discard, Postpone, SendAlert, Answer, Accept,
         AcceptUnheard, SendFails, Terminal, Settle, CompleteAlert, Acknowledged, RejectAlert,
         DeferAlerts, Fault, SkipDispatch, CompleteFails, RejectFails, DeferFails, Crash,
         DiscardFails, Remove, vars, store
<1> QED
  BY <1>1, <1>2, <1>3

\* However long deliveries keep failing, no device has two reminders of one
\* danger period waiting for it.
THEOREM OneReminderCorrect == Spec => []OneReminderPerPeriod
<1>1. Init => OneReminderPerPeriod
  BY DEF Init, OneReminderPerPeriod
<1>2. OneReminderPerPeriod /\ [Next]_vars => OneReminderPerPeriod'
  BY OutboxAssumption, ReminderStep
<1> QED
  BY <1>1, <1>2, PTL DEF Spec

\* Every step that leaves a taken row queued excuses it.
LEMMA DuplicateStep ==
    ASSUME TypeOK, DuplicatesExplained, [Next]_vars
    PROVE  DuplicatesExplained'
<1> USE DEF DuplicatesExplained
<1>1. CASE Api
  BY <1>1 DEF Api, DeleteDevice, Upsert, Remove, memory, history
<1>2. CASE World
  BY <1>2 DEF World, Age, Lapse, IntervalElapses, TokenDies, memory, history
<1>3. CASE Process \/ PendingAlerts
  BY <1>3 DEF Process, ProcessDetailed, PendingAlerts, Remove
<1>4. CASE Consider
  BY <1>4 DEF Consider, Heed, Discard, Postpone, SendAlert, Remove, history
<1>5. CASE Answer
  BY <1>5 DEF Answer, Accept, AcceptUnheard, SendFails, Terminal, Taken, history
<1>6. CASE CompleteAlert
  <2>1. CASE Acknowledged
    BY <1>6, <2>1 DEF CompleteAlert, Acknowledged, Remove
  <2>2. CASE excused' = excused \cup ({cur} \cap pending) /\ UNCHANGED accepted
    <3>1. \A a \in accepted : a[1] \in pending
      BY DEF TypeOK, WorldOK
    <3> QED
      BY <1>6, <2>2, <3>1 DEF CompleteAlert
  <2> QED
    BY <1>6, <2>1, <2>2 DEF CompleteAlert
<1>7. CASE RejectAlert \/ DeferAlerts
  BY <1>7 DEF RejectAlert, DeferAlerts, Remove, history
<1>8. CASE Fault
  <2>1. \A a \in accepted : a[1] \in pending
    BY DEF TypeOK, WorldOK
  <2> QED
    BY <1>8, <2>1 DEF Fault, SkipDispatch, CompleteFails, RejectFails, DeferFails, Crash,
                      DiscardFails, history
<1>9. CASE UNCHANGED vars
  BY <1>9 DEF vars, memory, history
<1> QED
  BY <1>1, <1>2, <1>3, <1>4, <1>5, <1>6, <1>7, <1>8, <1>9 DEF Next, Poller, Settle

\* A queued alert that APNs has already taken is there because of a fault or
\* of a change of registration, never in the normal course of a dispatch.
THEOREM DuplicatesCorrect == Spec => []DuplicatesExplained
<1>1. Init => DuplicatesExplained
  BY DEF Init, DuplicatesExplained
<1>2. TypeOK /\ DuplicatesExplained /\ [Next]_vars => DuplicatesExplained'
  BY DuplicateStep
<1> QED
  BY <1>1, <1>2, TypeCorrect, PTL DEF Spec

\* Every row that a step removes is removed for a reason.
LEMMA LossStep ==
    ASSUME TypeOK, InFlight, [Next]_vars
    PROVE  [LossJustifiedStep]_vars
<1> SUFFICES ASSUME NEW r \in pending \ pending'
             PROVE  \/ RuledOut(r)
                    \/ generation[DeviceOf(r)] # 0 /\ generation'[DeviceOf(r)] = 0
                    \/ <<r, apnsToken[DeviceOf(r)]>> \in accepted
                    \/ /\ apnsToken[DeviceOf(r)] \in deadTokens
                       /\ apnsToken'[DeviceOf(r)] = NoToken
  BY DEF LossJustifiedStep
<1>0. r \in Row
  BY DEF TypeOK, StoreOK
<1>1. CASE \E d \in Device : DeleteDevice(d)
  BY <1>0, <1>1 DEF DeleteDevice, Remove, RowsOf, Registered, TypeOK, StoreOK
<1>2. CASE Process
  BY <1>2 DEF Process, ProcessDetailed, RuledOut
<1>3. CASE PendingAlerts
  BY <1>3 DEF PendingAlerts, Remove, RuledOut
<1>4. CASE Consider
  BY <1>4 DEF Consider, Heed, Discard, Postpone, SendAlert, Remove, RuledOut, store
<1>5. CASE CompleteAlert
  <2>1. r = cur /\ cur \in pending /\ SameRegistration
    BY <1>5 DEF CompleteAlert, Acknowledged, Remove
  <2> QED
    BY <1>5, <2>1 DEF CompleteAlert, SameRegistration, InFlight, SentTo
<1>6. CASE RejectAlert
  <2>1. /\ apnsToken[DeviceOf(cur)] = SentTo
        /\ r \in RowsOf(DeviceOf(cur))
        /\ apnsToken' = [apnsToken EXCEPT ![DeviceOf(cur)] = NoToken]
    BY <1>6 DEF RejectAlert, Remove
  <2>2. SentTo \in deadTokens
    BY <1>6 DEF RejectAlert, InFlight
  <2> QED
    BY <1>0, <2>1, <2>2 DEF RowsOf, TypeOK, StoreOK
<1>7. \/ pending' = pending
      \/ (\E d \in Device : DeleteDevice(d)) \/ Process \/ PendingAlerts \/ Consider
      \/ CompleteAlert \/ RejectAlert
  BY DEF Next, Api, Upsert, World, Age, Lapse, IntervalElapses, TokenDies, Poller, Answer,
         Accept, AcceptUnheard, SendFails, Terminal, Settle, DeferAlerts, Fault,
         SkipDispatch, CompleteFails, RejectFails, DeferFails, Crash, DiscardFails, vars, store
<1> QED
  BY <1>1, <1>2, <1>3, <1>4, <1>5, <1>6, <1>7

\* No alert is lost to a race between an answer and a new registration.
THEOREM LossCorrect == Spec => LossJustified
<1>1. TypeOK /\ InFlight /\ [Next]_vars => [LossJustifiedStep]_vars
  BY LossStep
<1> QED
  BY <1>1, TypeCorrect, InFlightCorrect, PTL DEF Spec, LossJustified

\* A step of the poller changes a token only to clear a dead one.
LEMMA LiveTokenStep ==
    ASSUME TypeOK, InFlight, [Next]_vars
    PROVE  [LiveTokenKeptStep]_vars
<1> SUFFICES ASSUME pc # pc', NEW d \in Device, apnsToken'[d] # apnsToken[d]
             PROVE  apnsToken[d] \in deadTokens
  BY DEF LiveTokenKeptStep
<1>1. RejectAlert
  BY DEF Next, Api, Upsert, DeleteDevice, World, Age, Lapse, IntervalElapses, TokenDies, Poller,
         Process, ProcessDetailed, PendingAlerts, Consider, Heed, Discard, Postpone, SendAlert,
         Answer, Accept, AcceptUnheard, SendFails, Terminal, Settle, CompleteAlert, DeferAlerts,
         Fault, SkipDispatch, CompleteFails, RejectFails, DeferFails, Crash, DiscardFails, vars,
         store, memory
<1>2. d = DeviceOf(cur) /\ apnsToken[d] = SentTo
  BY <1>1 DEF RejectAlert, TypeOK, StoreOK
<1> QED
  BY <1>1, <1>2 DEF RejectAlert, InFlight

\* The poller takes a token away from a device only when APNs has declared
\* that very token dead.
THEOREM LiveTokenCorrect == Spec => LiveTokenKept
<1>1. TypeOK /\ InFlight /\ [Next]_vars => [LiveTokenKeptStep]_vars
  BY LiveTokenStep
<1> QED
  BY <1>1, TypeCorrect, InFlightCorrect, PTL DEF Spec, LiveTokenKept
=============================================================================
