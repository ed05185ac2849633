-------------------------- MODULE PollCycleProofs --------------------------
(***************************************************************************)
(* Theorems about PollCycle, for any upstream, catalog and snapshot to     *)
(* start from, and any number of polls, rows kept and faults.              *)
(***************************************************************************)
EXTENDS PollCycle, FiniteSetTheorems, SequenceTheorems, WellFoundedInduction, TLAPS

-----------------------------------------------------------------------------
(* Numbers and sets of outcomes.                                           *)

LEMMA LeastNumber ==
    ASSUME NEW S, S \subseteq Nat, S # {}
    PROVE  \E n \in S : \A m \in S : n <= m
<1>1. PICK n \in S : \A m \in S : <<m, n>> \notin OpToRel(<, Nat)
  BY WFMin, NatLessThanWellFounded, Zenon
<1>2. \A m \in S : ~(m < n)
  BY <1>1 DEF OpToRel
<1> QED
  BY <1>2

LEMMA GreatestNumber ==
    ASSUME NEW S, NEW b \in Nat, S \subseteq 0..b, S # {}
    PROVE  \E n \in S : \A m \in S : m <= n
<1> DEFINE T == {b - n : n \in S}
<1>1. T \subseteq Nat /\ T # {}
  <2>1. \A n \in S : n \in 0..b /\ b - n \in Nat
    OBVIOUS
  <2> QED
    BY <2>1
<1> HIDE DEF T
<1>2. PICK t \in T : \A u \in T : t <= u
  BY <1>1, LeastNumber
<1>3. PICK n \in S : t = b - n
  BY DEF T
<1>4. \A m \in S : b - m \in T
  BY DEF T
<1>5. \A m \in S : b - n <= b - m
  BY <1>2, <1>3, <1>4
<1> QED
  BY <1>5

\* Latest is the time of one of the outcomes, and none is later.
LEMMA LatestOK ==
    ASSUME NEW os, os \subseteq OutcomeRow
    PROVE  /\ os = {} => Latest(os) = 0
           /\ os # {} => /\ \E o \in os : o.at = Latest(os)
                         /\ Latest(os) \in 1..MaxPolls
           /\ \A o \in os : o.at <= Latest(os)
<1>1. CASE os = {}
  BY <1>1 DEF Latest
<1>2. CASE os # {}
  <2> DEFINE ats == {o.at : o \in os}
  <2>1. ats \subseteq 1..MaxPolls /\ ats \subseteq 0..MaxPolls /\ ats # {} /\ MaxPolls \in Nat
    BY <1>2, CycleAssumption DEF OutcomeRow
  <2>2. \E n \in ats : \A m \in ats : m <= n
    BY <2>1, GreatestNumber
  <2>3. \E n \in ats : \A o \in os : o.at <= n
    BY <2>2
  <2>4. Latest(os) \in ats /\ \A o \in os : o.at <= Latest(os)
    BY <1>2, <2>3 DEF Latest
  <2> QED
    BY <1>2, <2>1, <2>4
<1> QED
  BY <1>1, <1>2

LEMMA LatestIs ==
    ASSUME NEW os, os \subseteq OutcomeRow, NEW r \in os, \A o \in os : o.at <= r.at
    PROVE  Latest(os) = r.at
<1>1. PICK o \in os : o.at = Latest(os)
  BY LatestOK
<1>2. o.at <= r.at /\ r.at <= o.at /\ o.at \in Nat /\ r.at \in Nat
  BY <1>1, LatestOK DEF OutcomeRow
<1> QED
  BY <1>1, <1>2

\* collector.Status is ok when no failure counts and some success is known.
LEMMA StatusOk ==
    ASSUME NEW h \in HealthFields
    PROVE  HealthStatus(h) = "ok" <=> h.failures = 0 /\ h.lastSuccess > 0
<1> DEFINE f == h.failures > 0
           s == h.lastSuccess > 0
<1>1. h.failures \in Nat /\ h.lastSuccess \in Nat
  BY CycleAssumption DEF HealthFields
<1>2. (h.failures = 0 <=> ~f) /\ (h.lastSuccess = 0 <=> ~s)
  BY <1>1
<1> HIDE DEF f, s
<1>3. HealthStatus(h) = CASE f /\ ~s -> "down" [] f /\ s -> "degraded" [] ~f /\ s -> "ok" [] OTHER -> "starting"
  BY <1>2, Zenon DEF HealthStatus, f, s
<1>4. "down" # "ok" /\ "degraded" # "ok" /\ "starting" # "ok"
  OBVIOUS
<1>5. f \in BOOLEAN /\ s \in BOOLEAN
  BY DEF f, s
<1>6. HealthStatus(h) = "ok" <=> ~f /\ s
  BY <1>3, <1>4, <1>5, Zenon
<1> QED
  BY <1>2, <1>6 DEF s

\* RecordPollOutcome with an outcome later than all that are known.
LEMMA RecordOK ==
    ASSUME NEW h \in HealthFields, NEW known, known \subseteq OutcomeRow, IsFiniteSet(known),
           Agrees(h, known),
           NEW r \in OutcomeRow, \A o \in known : o.at < r.at
    PROVE  /\ RecordPollOutcome(h, r) \in HealthFields
           /\ Agrees(RecordPollOutcome(h, r), known \cup {r})
<1> DEFINE Good(os)    == {o \in os : o.success}
           Changed(os) == {o \in Good(os) : o.changed}
           Since(os)   == {o \in os : o.at > Latest(Good(os))}
           next        == known \cup {r}
           g           == RecordPollOutcome(h, r)
<1>1. /\ r.at \in 1..MaxPolls /\ r.success \in BOOLEAN /\ r.changed \in BOOLEAN
      /\ h.lastPoll \in 0..MaxPolls /\ h.lastSuccess \in 0..MaxPolls /\ h.lastChanged \in 0..MaxPolls
      /\ h.failures \in Nat /\ MaxPolls \in Nat
  BY CycleAssumption DEF OutcomeRow, HealthFields
<1>2. /\ g.lastPoll = r.at
      /\ g.lastSuccess = IF r.success THEN r.at ELSE h.lastSuccess
      /\ g.lastChanged = IF r.success /\ r.changed THEN r.at ELSE h.lastChanged
      /\ g.failures = IF r.success THEN 0 ELSE h.failures + 1
      /\ g \in HealthFields
  BY <1>1 DEF RecordPollOutcome, HealthFields
<1>3. /\ h.lastSuccess = Latest(Good(known)) /\ h.lastChanged = Latest(Changed(known))
      /\ h.failures = Cardinality(Since(known))
  BY DEF Agrees
<1>4. next \subseteq OutcomeRow /\ r \in next /\ r \notin known
  BY <1>1
<1>5. /\ Good(next) = IF r.success THEN Good(known) \cup {r} ELSE Good(known)
      /\ Changed(next) = IF r.success /\ r.changed THEN Changed(known) \cup {r} ELSE Changed(known)
  OBVIOUS
<1>6. g.lastPoll = Latest(next)
  <2>1. \A o \in next : o.at <= r.at
    BY <1>1, <1>4 DEF OutcomeRow
  <2> QED
    BY <1>2, <1>4, <2>1, LatestIs
<1>7. g.lastSuccess = Latest(Good(next))
  <2>1. CASE r.success
    <3>1. Good(next) \subseteq OutcomeRow /\ r \in Good(next) /\ \A o \in Good(next) : o.at <= r.at
      BY <1>1, <1>4, <2>1 DEF OutcomeRow
    <3> QED
      BY <1>2, <2>1, <3>1, LatestIs
  <2>2. CASE ~r.success
    BY <1>2, <1>3, <1>5, <2>2
  <2> QED
    BY <2>1, <2>2
<1>8. g.lastChanged = Latest(Changed(next))
  <2>1. CASE r.success /\ r.changed
    <3>1. Changed(next) \subseteq OutcomeRow /\ r \in Changed(next) /\ \A o \in Changed(next) : o.at <= r.at
      BY <1>1, <1>4, <2>1 DEF OutcomeRow
    <3> QED
      BY <1>2, <2>1, <3>1, LatestIs
  <2>2. CASE ~(r.success /\ r.changed)
    BY <1>2, <1>3, <1>5, <2>2
  <2> QED
    BY <2>1, <2>2
<1>9. g.failures = Cardinality(Since(next)) /\ (g.failures = 0 <=> Since(next) = {})
  <2>1. CASE r.success
    <3>1. Latest(Good(next)) = r.at
      BY <1>2, <1>7, <2>1
    <3>2. \A o \in next : ~(o.at > r.at)
      BY <1>1, <1>4 DEF OutcomeRow
    <3>3. Since(next) = {}
      BY <3>1, <3>2
    <3> QED
      BY <1>2, <2>1, <3>3, FS_EmptySet
  <2>2. CASE ~r.success
    <3>1. Latest(Good(next)) = Latest(Good(known))
      BY <1>5, <2>2
    <3>2. Latest(Good(known)) < r.at
      <4>1. CASE Good(known) = {}
        BY <1>1, <4>1, LatestOK
      <4>2. CASE Good(known) # {}
        BY <4>2, LatestOK
      <4> QED
        BY <4>1, <4>2
    <3>3. Since(next) = Since(known) \cup {r} /\ r \notin Since(known)
      BY <1>4, <3>1, <3>2
    <3>4. IsFiniteSet(Since(known))
      BY FS_Subset
    <3>5. Cardinality(Since(next)) = Cardinality(Since(known)) + 1
      BY <3>3, <3>4, FS_AddElement
    <3> QED
      BY <1>1, <1>2, <1>3, <2>2, <3>3, <3>5
  <2> QED
    BY <2>1, <2>2
<1>10. g.failures = 0 /\ g.lastSuccess > 0 <=> Good(next) # {} /\ Latest(Good(next)) = Latest(next)
  <2>1. Good(next) \subseteq next
    OBVIOUS
  <2>2. Good(next) # {} => Latest(Good(next)) \in 1..MaxPolls /\ \E o \in Good(next) : o.at = Latest(Good(next))
    BY <1>4, <2>1, LatestOK
  <2>3. Good(next) = {} => Latest(Good(next)) = 0
    BY <1>4, <2>1, LatestOK
  <2>4. Latest(next) = r.at
    BY <1>2, <1>6
  <2>5. CASE r.success
    BY <1>1, <1>2, <1>5, <1>7, <2>4, <2>5
  <2>6. CASE ~r.success
    <3>1. g.failures # 0
      BY <1>1, <1>2, <2>6
    <3>2. Good(next) = Good(known)
      BY <1>5, <2>6
    <3>3. Good(next) # {} => Latest(Good(next)) < r.at
      BY <1>1, <2>2, <3>2
    <3> QED
      BY <1>1, <2>2, <2>4, <3>1, <3>3
  <2> QED
    BY <2>5, <2>6
<1>11. HealthStatus(g) = "ok" <=> Good(next) # {} /\ Latest(Good(next)) = Latest(next)
  BY <1>2, <1>10, StatusOk
<1> QED
  BY <1>2, <1>6, <1>7, <1>8, <1>9, <1>11 DEF Agrees

-----------------------------------------------------------------------------
(* NewAPI.                                                                 *)

\* The loop of Replayed over the first rounds rows.
IsReplay(h, rows, rounds) ==
    h = [n \in 0..rounds |-> IF n = 0 THEN FreshHealth ELSE RecordPollOutcome(h[n - 1], rows[n])]

LEMMA ReplayExists ==
    ASSUME NEW rows, NEW rounds \in Nat
    PROVE  \E h : IsReplay(h, rows, rounds)
<1> DEFINE Bad == {n \in Nat : ~\E h : IsReplay(h, rows, n)}
<1> SUFFICES ASSUME Bad # {}
             PROVE  FALSE
  OBVIOUS
<1>1. PICK n \in Bad : \A m \in Bad : n <= m
  BY LeastNumber
<1>2. CASE n = 0
  <2>1. IsReplay([i \in 0..0 |-> FreshHealth], rows, 0)
    BY DEF IsReplay
  <2> QED
    BY <1>1, <1>2, <2>1
<1>3. CASE n # 0
  <2>1. n \in Nat \ {0} /\ n - 1 \in Nat
    BY <1>1, <1>3
  <2>2. PICK h : IsReplay(h, rows, n - 1)
    BY <1>1, <2>1
  <2> DEFINE next == [i \in 0..n |-> IF i = n THEN RecordPollOutcome(h[n - 1], rows[n]) ELSE h[i]]
  <2>3. \A i \in 0..n - 1 : h[i] = IF i = 0 THEN FreshHealth ELSE RecordPollOutcome(h[i - 1], rows[i])
    BY <2>1, <2>2 DEF IsReplay
  <2>4. \A i \in 0..n : next[i] = IF i = 0 THEN FreshHealth ELSE RecordPollOutcome(next[i - 1], rows[i])
    BY <2>1, <2>3
  <2>5. IsReplay(next, rows, n)
    BY <2>4 DEF IsReplay
  <2> QED
    BY <1>1, <2>5
<1> QED
  BY <1>2, <1>3

LEMMA FreshOK == FreshHealth \in HealthFields /\ Agrees(FreshHealth, {})
<1>1. FreshHealth \in HealthFields /\ FreshHealth.lastSuccess = 0 /\ FreshHealth.failures = 0
      /\ FreshHealth.lastPoll = 0 /\ FreshHealth.lastChanged = 0
  BY CycleAssumption DEF FreshHealth, HealthFields
<1>2. HealthStatus(FreshHealth) # "ok"
  BY <1>1, StatusOk
<1>3. Latest({}) = 0 /\ Cardinality({}) = 0
  BY FS_EmptySet DEF Latest
<1> QED
  BY <1>1, <1>2, <1>3 DEF Agrees

\* Health after a start agrees with the rows that were read.
LEMMA ReplayOK ==
    ASSUME NEW rows \in Seq(OutcomeRow),
           \A m, n \in DOMAIN rows : m < n => rows[m].at < rows[n].at
    PROVE  Replayed(rows) \in HealthFields /\ Agrees(Replayed(rows), {rows[n] : n \in DOMAIN rows})
<1> DEFINE h == CHOOSE h : IsReplay(h, rows, Len(rows))
           First(n) == {rows[i] : i \in 1..n}
           Good(n) == h[n] \in HealthFields /\ IsFiniteSet(First(n)) /\ Agrees(h[n], First(n))
           Bad == {n \in 0..Len(rows) : ~Good(n)}
<1>1. Len(rows) \in Nat /\ DOMAIN rows = 1..Len(rows) /\ \A n \in 1..Len(rows) : rows[n] \in OutcomeRow
  BY LenProperties
<1>2. IsReplay(h, rows, Len(rows))
  BY <1>1, ReplayExists
<1>3. Replayed(rows) = h[Len(rows)]
  BY DEF Replayed, IsReplay
<1> HIDE DEF h
<1>4. h[0] = FreshHealth /\ \A n \in 1..Len(rows) : h[n] = RecordPollOutcome(h[n - 1], rows[n])
  BY <1>1, <1>2 DEF IsReplay
<1> HIDE DEF Good
<1>5. Bad \subseteq 0..Len(rows) /\ \A n \in 0..Len(rows) : n \in Bad \/ Good(n)
  OBVIOUS
<1>6. \A n \in Bad : ~Good(n)
  OBVIOUS
<1> HIDE DEF Bad
<1>7. ASSUME Bad # {}
      PROVE  FALSE
  <2>1. Bad \subseteq Nat
    BY <1>1, <1>5
  <2>2. PICK n \in Bad : \A m \in Bad : n <= m
    BY <1>7, <2>1, LeastNumber
  <2>3. CASE n = 0
    <3>1. First(0) = {}
      OBVIOUS
    <3>2. Good(0)
      BY <1>4, <3>1, FreshOK, FS_EmptySet DEF Good
    <3> QED
      BY <1>6, <2>2, <2>3, <3>2
  <2>4. CASE n # 0
    <3>1. n \in 1..Len(rows) /\ n - 1 \in 0..Len(rows) /\ n - 1 \notin Bad
      BY <1>1, <1>5, <2>2, <2>4
    <3>2. Good(n - 1)
      BY <1>5, <3>1
    <3> DEFINE old == First(n - 1)
               r   == rows[n]
    <3>3. First(n) = old \cup {r}
      BY <3>1
    <3>4. old \subseteq OutcomeRow /\ r \in OutcomeRow /\ \A o \in old : o.at < r.at
      BY <1>1, <3>1
    <3>5. h[n - 1] \in HealthFields /\ IsFiniteSet(old) /\ Agrees(h[n - 1], old)
      BY <3>2 DEF Good
    <3>6. h[n] = RecordPollOutcome(h[n - 1], r)
      BY <1>4, <3>1
    <3> HIDE DEF old, r
    <3>7. h[n] \in HealthFields /\ IsFiniteSet(old \cup {r}) /\ Agrees(h[n], old \cup {r})
      <4> DEFINE g == h[n - 1]
      <4>1. g \in HealthFields /\ IsFiniteSet(old) /\ Agrees(g, old) /\ h[n] = RecordPollOutcome(g, r)
        BY <3>5, <3>6
      <4> HIDE DEF g
      <4>2. RecordPollOutcome(g, r) \in HealthFields /\ Agrees(RecordPollOutcome(g, r), old \cup {r})
        BY <3>4, <4>1, RecordOK
      <4>3. IsFiniteSet(old \cup {r})
        BY <4>1, FS_AddElement
      <4> QED
        BY <4>1, <4>2, <4>3
    <3>8. Good(n)
      BY <3>3, <3>7 DEF Good
    <3> QED
      BY <1>6, <2>2, <3>8
  <2> QED
    BY <2>3, <2>4
<1>8. Good(Len(rows))
  BY <1>1, <1>5, <1>7
<1> QED
  BY <1>1, <1>3, <1>8 DEF Good

-----------------------------------------------------------------------------
(* Sequences made of the values of a function.                             *)

\* The loop of InSequence over the first rounds numbers.
Added(before, f, i) == IF i \in DOMAIN f THEN Append(before, f[i]) ELSE before
IsCollected(out, f, rounds) ==
    out = [i \in 0..rounds |-> IF i = 0 THEN <<>> ELSE Added(out[i - 1], f, i)]

LEMMA CollectedExists ==
    ASSUME NEW f, NEW rounds \in Nat
    PROVE  \E out : IsCollected(out, f, rounds)
<1> DEFINE Bad == {n \in Nat : ~\E out : IsCollected(out, f, n)}
<1> SUFFICES ASSUME Bad # {}
             PROVE  FALSE
  OBVIOUS
<1>1. PICK n \in Bad : \A m \in Bad : n <= m
  BY LeastNumber
<1>2. CASE n = 0
  <2>1. IsCollected([i \in 0..0 |-> <<>>], f, 0)
    BY DEF IsCollected
  <2> QED
    BY <1>1, <1>2, <2>1
<1>3. CASE n # 0
  <2>1. n \in Nat \ {0} /\ n - 1 \in Nat
    BY <1>1, <1>3
  <2>2. PICK out : IsCollected(out, f, n - 1)
    BY <1>1, <2>1
  <2> DEFINE next == [i \in 0..n |-> IF i = n THEN Added(out[n - 1], f, n) ELSE out[i]]
  <2>3. \A i \in 0..n - 1 : out[i] = IF i = 0 THEN <<>> ELSE Added(out[i - 1], f, i)
    BY <2>1, <2>2 DEF IsCollected
  <2>4. \A i \in 0..n : next[i] = IF i = 0 THEN <<>> ELSE Added(next[i - 1], f, i)
    BY <2>1, <2>3
  <2>5. IsCollected(next, f, n)
    BY <2>4 DEF IsCollected
  <2> QED
    BY <1>1, <2>5
<1> QED
  BY <1>2, <1>3

\* The places of a function, in increasing order, one for each element of s.
Places(s, I, f, at) ==
    /\ at \in [1..Len(s) -> I]
    /\ \A k \in 1..Len(s) : s[k] = f[at[k]]
    /\ \A k, l \in 1..Len(s) : k < l => at[k] < at[l]
    /\ \A i \in I : \E k \in 1..Len(s) : at[k] = i

LEMMA InSequenceOK ==
    ASSUME NEW n \in Nat, NEW f, DOMAIN f \subseteq 1..n
    PROVE  /\ InSequence(f, n) \in Seq({f[i] : i \in DOMAIN f})
           /\ \E at : Places(InSequence(f, n), DOMAIN f, f, at)
<1> DEFINE V == {f[i] : i \in DOMAIN f}
           out == CHOOSE out : IsCollected(out, f, n)
           Upto(m) == {i \in DOMAIN f : i <= m}
           Good(m) == out[m] \in Seq(V) /\ \E at : Places(out[m], Upto(m), f, at)
           Bad == {m \in 0..n : ~Good(m)}
<1>1. IsCollected(out, f, n)
  BY CollectedExists
<1>2. InSequence(f, n) = out[n]
  BY DEF InSequence, IsCollected, Added
<1> HIDE DEF out
<1>3. out[0] = <<>> /\ \A m \in 1..n : out[m] = Added(out[m - 1], f, m)
  BY <1>1 DEF IsCollected
<1> HIDE DEF Good
<1>4. Bad \subseteq 0..n /\ \A m \in 0..n : m \in Bad \/ Good(m)
  OBVIOUS
<1>5. \A m \in Bad : ~Good(m)
  OBVIOUS
<1> HIDE DEF Bad
<1>6. ASSUME Bad # {}
      PROVE  FALSE
  <2>1. Bad \subseteq Nat
    BY <1>4
  <2>2. PICK m \in Bad : \A l \in Bad : m <= l
    BY <1>6, <2>1, LeastNumber
  <2>3. CASE m = 0
    <3>1. Upto(0) = {} /\ out[0] = <<>> /\ Len(<<>>) = 0
      BY <1>3
    <3>2. Places(<<>>, {}, f, <<>>)
      BY <3>1 DEF Places
    <3>3. <<>> \in Seq(V)
      BY EmptySeq
    <3> HIDE DEF V
    <3>4. Good(0)
      BY <3>1, <3>2, <3>3 DEF Good
    <3> QED
      BY <1>5, <2>2, <2>3, <3>4
  <2>4. CASE m # 0
    <3>1. m \in 1..n /\ m - 1 \in 0..n /\ m - 1 \notin Bad
      BY <1>4, <2>2, <2>4
    <3> DEFINE s == out[m - 1]
               I == Upto(m - 1)
    <3>2. s \in Seq(V) /\ \E at : Places(s, I, f, at)
      BY <1>4, <3>1 DEF Good
    <3>3. PICK at : Places(s, I, f, at)
      BY <3>2
    <3>4. Upto(m) = (IF m \in DOMAIN f THEN I \cup {m} ELSE I) /\ \A i \in I : i < m
      BY <3>1
    <3>5. out[m] = IF m \in DOMAIN f THEN Append(s, f[m]) ELSE s
      BY <1>3, <3>1 DEF Added
    <3> HIDE DEF s, I
    <3>6. CASE m \notin DOMAIN f
      <4>1. Good(m)
        BY <3>2, <3>4, <3>5, <3>6 DEF Good
      <4> QED
        BY <1>5, <2>2, <4>1
    <3>7. CASE m \in DOMAIN f
      <4> DEFINE t == Append(s, f[m])
                 at2 == [k \in 1..Len(s) + 1 |-> IF k = Len(s) + 1 THEN m ELSE at[k]]
      <4>1. f[m] \in V
        BY <3>7
      <4> HIDE DEF V
      <4>2. /\ t \in Seq(V) /\ Len(t) = Len(s) + 1 /\ Len(s) \in Nat
            /\ \A k \in 1..Len(s) : t[k] = s[k]
            /\ t[Len(s) + 1] = f[m]
        BY <3>2, <4>1, AppendProperties, LenProperties
      <4> HIDE DEF t
      <4>3. Places(t, I \cup {m}, f, at2)
        <5>1. /\ at \in [1..Len(s) -> I]
              /\ \A k \in 1..Len(s) : s[k] = f[at[k]]
              /\ \A k, l \in 1..Len(s) : k < l => at[k] < at[l]
              /\ \A i \in I : \E k \in 1..Len(s) : at[k] = i
          BY <3>3 DEF Places
        <5>2. at2[Len(s) + 1] = m /\ \A k \in 1..Len(s) : at2[k] = at[k] /\ at[k] \in I
          BY <4>2, <5>1
        <5>3. at2 \in [1..Len(s) + 1 -> I \cup {m}]
          BY <4>2, <5>1
        <5> HIDE DEF at2
        <5>4. 1..Len(s) + 1 = 1..Len(s) \cup {Len(s) + 1}
          BY <4>2
        <5>5. \A k \in 1..Len(s) + 1 : t[k] = f[at2[k]]
          BY <4>2, <5>1, <5>2, <5>4
        <5>6. \A k, l \in 1..Len(s) + 1 : k < l => at2[k] < at2[l]
          BY <3>4, <4>2, <5>1, <5>2, <5>4
        <5>7. \A i \in I \cup {m} : \E k \in 1..Len(s) + 1 : at2[k] = i
          BY <4>2, <5>1, <5>2, <5>4
        <5> QED
          BY <4>2, <5>3, <5>5, <5>6, <5>7 DEF Places
      <4>4. Good(m)
        BY <3>4, <3>5, <3>7, <4>2, <4>3 DEF Good, t
      <4> QED
        BY <1>5, <2>2, <4>4
    <3> QED
      BY <3>6, <3>7
  <2> QED
    BY <2>3, <2>4
<1>7. Good(n) /\ Upto(n) = DOMAIN f
  BY <1>4, <1>6
<1> QED
  BY <1>2, <1>7 DEF Good

-----------------------------------------------------------------------------
(* projectCatalogProviders.                                                *)

\* The first of those that have the most.
IsBest(size, G, j) ==
    /\ j \in G
    /\ \A k \in G : size[k] <= size[j] /\ (k < j => size[k] < size[j])

LEMMA BestExists ==
    ASSUME NEW N \in Nat, NEW size \in [1..N -> Nat], NEW G, G \subseteq 1..N, G # {}
    PROVE  \E j : IsBest(size, G, j)
<1> DEFINE Upto(m) == {k \in G : k <= m}
<1>1. \A k \in G : k \in 1..N /\ size[k] \in Nat
  OBVIOUS
<1>2. Upto(0) = {} /\ Upto(N) = G
  <2>1. \A k \in G : ~(k <= 0) /\ k <= N
    BY <1>1
  <2> QED
    BY <2>1
<1>3. ASSUME NEW m \in 1..N
      PROVE  Upto(m) = IF m \in G THEN Upto(m - 1) \cup {m} ELSE Upto(m - 1)
  <2>1. \A k \in 1..N : k <= m <=> k <= m - 1 \/ k = m
    OBVIOUS
  <2> QED
    BY <1>1, <2>1
<1>4. \A m \in 1..N : \A k \in Upto(m - 1) : k < m /\ k \in 1..N /\ size[k] \in Nat
  BY <1>1
<1> HIDE DEF Upto
<1> DEFINE Good(m) == Upto(m) # {} => \E j : IsBest(size, Upto(m), j)
           Bad == {m \in 0..N : ~Good(m)}
<1>6. /\ Bad \subseteq 0..N
      /\ \A m \in 0..N : m \in Bad \/ Good(m)
      /\ \A m \in Bad : ~Good(m)
  OBVIOUS
<1> HIDE DEF Bad
<1>5. ASSUME Bad # {}
      PROVE  FALSE
  <2>1. Bad \subseteq Nat
    BY <1>6
  <2>2. PICK m \in Bad : \A l \in Bad : m <= l
    BY <1>5, <2>1, LeastNumber
  <2>3. m # 0
    BY <1>2, <1>6, <2>2
  <2>4. m \in 1..N /\ m - 1 \in 0..N /\ m - 1 \notin Bad
    BY <1>6, <2>2, <2>3
  <2> DEFINE before == Upto(m - 1)
  <2>5. before # {} => \E j : IsBest(size, before, j)
    BY <1>6, <2>4
  <2>6. /\ Upto(m) = IF m \in G THEN before \cup {m} ELSE before
        /\ \A k \in before : k < m /\ k \in 1..N /\ size[k] \in Nat
        /\ size[m] \in Nat
    BY <1>3, <1>4, <2>4
  <2>7. Upto(m) # {} /\ ~\E j : IsBest(size, Upto(m), j)
    BY <1>6, <2>2
  <2> HIDE DEF before, Good
  <2>8. m \in G /\ Upto(m) = before \cup {m}
    BY <2>5, <2>6, <2>7
  <2>9. CASE before = {}
    <3>1. IsBest(size, {m}, m)
      BY <2>4, <2>6 DEF IsBest
    <3> QED
      BY <2>7, <2>8, <2>9, <3>1
  <2>10. CASE before # {}
    <3>1. PICK b : IsBest(size, before, b)
      BY <2>5, <2>10
    <3>2. b \in before /\ b < m /\ size[b] \in Nat /\ b \in Nat /\ m \in Nat
      BY <2>4, <2>6, <3>1 DEF IsBest
    <3>3. CASE size[m] > size[b]
      <4>1. IsBest(size, before \cup {m}, m)
        BY <2>6, <3>1, <3>2, <3>3 DEF IsBest
      <4> QED
        BY <2>7, <2>8, <4>1
    <3>4. CASE ~(size[m] > size[b])
      <4>1. IsBest(size, before \cup {m}, b)
        BY <2>6, <3>1, <3>2, <3>4 DEF IsBest
      <4> QED
        BY <2>7, <2>8, <4>1
    <3> QED
      BY <3>3, <3>4
  <2> QED
    BY <2>9, <2>10
<1> QED
  BY <1>2, <1>5, <1>6

LEMMA SeqOfProviders ==
    ASSUME NEW ps, IsProviders(ps)
    PROVE  /\ Len(ps) \in Nat /\ DOMAIN ps = 1..Len(ps)
           /\ \A i \in 1..Len(ps) : /\ IsProvider(ps[i])
                                    /\ ps[i].stale \in BOOLEAN /\ ps[i].error \in BOOLEAN
                                    /\ IsFiniteSet(ps[i].windows) /\ Cardinality(ps[i].windows) \in Nat
<1>1. Len(ps) \in Nat /\ DOMAIN ps = 1..Len(ps)
  BY LenProperties DEF IsProviders
<1>2. ASSUME NEW i \in 1..Len(ps)
      PROVE  /\ IsProvider(ps[i])
             /\ ps[i].stale \in BOOLEAN /\ ps[i].error \in BOOLEAN
             /\ IsFiniteSet(ps[i].windows) /\ Cardinality(ps[i].windows) \in Nat
  <2>1. IsProvider(ps[i])
    BY <1>1 DEF IsProviders
  <2>2. ps[i].stale \in BOOLEAN /\ ps[i].error \in BOOLEAN /\ IsFiniteSet(ps[i].windows)
    BY <2>1 DEF IsProvider
  <2> QED
    BY <2>1, <2>2, FS_CardinalityType
<1> QED
  BY <1>1, <1>2

\* The entry of p under another id.
LEMMA RenamedOK ==
    ASSUME NEW p, IsProvider(p), NEW id
    PROVE  /\ IsProvider([p EXCEPT !.id = id])
           /\ [p EXCEPT !.id = id].id = id
           /\ [p EXCEPT !.id = id].windows = p.windows
           /\ [p EXCEPT !.id = p.id] = p
<1>1. p = [id |-> p.id, stale |-> p.stale, error |-> p.error, windows |-> p.windows, credits |-> p.credits]
  BY DEF IsProvider
<1>2. p.stale \in BOOLEAN /\ p.error \in BOOLEAN /\ IsFiniteSet(p.windows) /\ \A w \in p.windows : IsWindow(w)
  BY DEF IsProvider
<1>3. [p EXCEPT !.id = id] = [id |-> id, stale |-> p.stale, error |-> p.error, windows |-> p.windows,
                              credits |-> p.credits]
  BY <1>1
<1>4. [p EXCEPT !.id = p.id] = p
  BY <1>1
<1> QED
  BY <1>2, <1>3, <1>4 DEF IsProvider

LEMMA ProjectOK ==
    ASSUME NEW ps, IsProviders(ps)
    PROVE  /\ Sound(Project(ps))
           /\ \A k \in DOMAIN Project(ps) : \E j \in DOMAIN ps :
                 /\ Canonical[ps[j].id] = Project(ps)[k].id
                 /\ Project(ps)[k] = [ps[j] EXCEPT !.id = Canonical[ps[j].id]]
           /\ \A j \in DOMAIN ps : Canonical[ps[j].id] \in Catalog =>
                 \E k \in DOMAIN Project(ps) :
                    /\ Project(ps)[k].id = Canonical[ps[j].id]
                    /\ Cardinality(ps[j].windows) <= Cardinality(Project(ps)[k].windows)
<1> DEFINE id(i)   == Canonical[ps[i].id]
           known   == {i \in DOMAIN ps : id(i) \in Catalog}
           firsts  == {i \in known : \A j \in 1..i - 1 : id(j) # id(i)}
           size(i) == Cardinality(ps[i].windows)
           best(i) == CHOOSE j \in known :
                          /\ id(j) = id(i)
                          /\ \A k \in known : id(k) = id(i) =>
                                size(k) <= size(j) /\ (k < j => size(k) < size(j))
           f       == [i \in firsts |-> [ps[best(i)] EXCEPT !.id = id(i)]]
           N       == Len(ps)
           q       == Project(ps)
<1>1. q = InSequence(f, N)
  BY DEF Project
<1>2. N \in Nat /\ DOMAIN ps = 1..N /\ \A i \in 1..N : IsProvider(ps[i]) /\ size(i) \in Nat
  BY SeqOfProviders
<1>3. ASSUME NEW i \in known
      PROVE  /\ best(i) \in known /\ id(best(i)) = id(i)
             /\ \A k \in known : id(k) = id(i) => size(k) <= size(best(i))
  <2> DEFINE G == {k \in known : id(k) = id(i)}
             sizes == [k \in 1..N |-> size(k)]
  <2>1. sizes \in [1..N -> Nat] /\ G \subseteq 1..N /\ i \in G
    BY <1>2
  <2> HIDE DEF sizes
  <2>2. PICK j : IsBest(sizes, G, j)
    BY <1>2, <2>1, BestExists
  <2>3. \A k \in 1..N : sizes[k] = size(k)
    BY DEF sizes
  <2>4. j \in G /\ \A k \in G : sizes[k] <= sizes[j] /\ (k < j => sizes[k] < sizes[j])
    BY <2>2 DEF IsBest
  <2>5. (\A k \in known : id(k) = id(i) => k \in G) /\ j \in known /\ id(j) = id(i)
    BY <2>4
  <2> HIDE DEF G
  <2>6. \A k \in known : id(k) = id(i) => size(k) <= size(j) /\ (k < j => size(k) < size(j))
    BY <2>1, <2>3, <2>4, <2>5
  <2>7. \E l \in known : /\ id(l) = id(i)
                         /\ \A k \in known : id(k) = id(i) => size(k) <= size(l) /\ (k < l => size(k) < size(l))
    BY <2>5, <2>6
  <2> QED
    BY <2>7
<1> HIDE DEF best
<1>4. DOMAIN f = firsts /\ firsts \subseteq 1..N
  BY <1>2
<1>5. \A i \in firsts : f[i] = [ps[best(i)] EXCEPT !.id = id(i)]
  OBVIOUS
<1> HIDE DEF f
<1>5a. q \in Seq({f[i] : i \in firsts}) /\ \E at : Places(q, firsts, f, at)
  <2>1. DOMAIN f \subseteq 1..N /\ N \in Nat
    BY <1>2, <1>4
  <2>2. InSequence(f, N) \in Seq({f[i] : i \in DOMAIN f}) /\ \E at : Places(InSequence(f, N), DOMAIN f, f, at)
    BY <2>1, InSequenceOK
  <2> QED
    BY <1>1, <1>4, <2>2
<1>5b. PICK at : Places(q, firsts, f, at)
  BY <1>5a
<1>6. Len(q) \in Nat /\ DOMAIN q = 1..Len(q)
  BY <1>5a, LenProperties
<1>7. \A k \in DOMAIN q : at[k] \in firsts /\ q[k] = [ps[best(at[k])] EXCEPT !.id = id(at[k])]
  BY <1>5, <1>6, <1>5b DEF Places
<1>8. ASSUME NEW k \in DOMAIN q
      PROVE  /\ IsProvider(q[k]) /\ q[k].id = id(at[k]) /\ q[k].windows = ps[best(at[k])].windows
             /\ best(at[k]) \in DOMAIN ps /\ id(best(at[k])) = id(at[k])
  <2> DEFINE i == at[k]
  <2>1. i \in firsts /\ q[k] = [ps[best(i)] EXCEPT !.id = id(i)]
    BY <1>7
  <2>2. best(i) \in known /\ id(best(i)) = id(i)
    BY <1>3, <2>1
  <2>3. IsProvider(ps[best(i)])
    BY <1>2, <2>2
  <2> DEFINE p == ps[best(i)]
             x == id(i)
  <2> HIDE DEF p, x
  <2>4. q[k] = [p EXCEPT !.id = x] /\ IsProvider(p)
    BY <2>1, <2>3 DEF p, x
  <2>5. IsProvider(q[k]) /\ q[k].id = x /\ q[k].windows = p.windows
    BY <2>4, RenamedOK
  <2> QED
    BY <2>2, <2>5 DEF p, x
<1>9. Sound(q)
  <2>1. q \in Seq({q[k] : k \in DOMAIN q})
    BY <1>5a, <1>6, LenProperties
  <2>2. ASSUME NEW k \in DOMAIN q, NEW l \in DOMAIN q, q[k].id = q[l].id
        PROVE  k = l
    <3>1. at[k] \in firsts /\ at[l] \in firsts /\ id(at[k]) = id(at[l])
      BY <1>7, <1>8, <2>2
    <3>2. at[k] = at[l]
      <4> DEFINE i == at[k]
                 j == at[l]
      <4>1. /\ i \in 1..N /\ j \in 1..N /\ id(i) = id(j)
            /\ \A m \in 1..i - 1 : id(m) # id(i)
            /\ \A m \in 1..j - 1 : id(m) # id(j)
        BY <1>4, <3>1
      <4> HIDE DEF i, j
      <4>2. ~(i < j) /\ ~(j < i)
        BY <1>2, <4>1
      <4>3. i = j
        BY <1>2, <4>1, <4>2
      <4> QED
        BY <4>3 DEF i, j
    <3>3. k \in 1..Len(q) /\ l \in 1..Len(q) /\ \A m, n \in 1..Len(q) : m < n => at[m] < at[n]
      BY <1>6, <1>5b DEF Places
    <3>4. at[k] \in Nat
      BY <1>4, <3>1
    <3> QED
      BY <1>6, <3>2, <3>3, <3>4
  <2>3. \A k \in DOMAIN q : IsProvider(q[k]) /\ q[k].id \in Catalog
    BY <1>7, <1>8
  <2> QED
    BY <2>1, <2>2, <2>3 DEF Sound, IsProviders
<1>10. ASSUME NEW j \in DOMAIN ps, id(j) \in Catalog
       PROVE  \E k \in DOMAIN q : q[k].id = id(j) /\ size(j) <= Cardinality(q[k].windows)
  <2> DEFINE same == {i \in 1..N : id(i) = id(j)}
  <2>1. same \subseteq Nat /\ j \in same
    BY <1>2
  <2>2. PICK i \in same : \A m \in same : i <= m
    BY <2>1, LeastNumber
  <2>3. i \in firsts /\ id(i) = id(j)
    BY <1>2, <1>10, <2>2
  <2>4. PICK k \in 1..Len(q) : at[k] = i
    BY <1>5b, <2>3 DEF Places
  <2>5. k \in DOMAIN q /\ q[k].id = id(i) /\ q[k].windows = ps[best(i)].windows
    BY <1>6, <1>8, <2>4
  <2>6. size(j) <= size(best(i))
    BY <1>2, <1>3, <1>10, <2>3
  <2> QED
    BY <2>3, <2>5, <2>6
<1> QED
  BY <1>7, <1>8, <1>9, <1>10

\* Entries of the catalog are projected to themselves.
LEMMA ProjectSame ==
    ASSUME NEW ps, Sound(ps)
    PROVE  /\ Sound(Project(ps))
           /\ \A k \in DOMAIN Project(ps) : \E j \in DOMAIN ps : Project(ps)[k] = ps[j]
           /\ \A j \in DOMAIN ps : \E k \in DOMAIN Project(ps) : Project(ps)[k] = ps[j]
<1>1. \A j \in DOMAIN ps : Canonical[ps[j].id] = ps[j].id /\ ps[j].id \in Catalog
  BY ReportAssumption DEF Sound
<1>2. IsProviders(ps) /\ \A j \in DOMAIN ps : [ps[j] EXCEPT !.id = ps[j].id] = ps[j]
  BY RenamedOK DEF Sound, IsProviders
<1>3. /\ Sound(Project(ps))
      /\ \A k \in DOMAIN Project(ps) : \E j \in DOMAIN ps :
            Project(ps)[k].id = ps[j].id /\ Project(ps)[k] = ps[j]
      /\ \A j \in DOMAIN ps : \E k \in DOMAIN Project(ps) : Project(ps)[k].id = ps[j].id
  BY <1>1, <1>2, ProjectOK
<1>4. ASSUME NEW j \in DOMAIN ps
      PROVE  \E k \in DOMAIN Project(ps) : Project(ps)[k] = ps[j]
  <2>1. PICK k \in DOMAIN Project(ps) : Project(ps)[k].id = ps[j].id
    BY <1>3
  <2>2. PICK i \in DOMAIN ps : Project(ps)[k].id = ps[i].id /\ Project(ps)[k] = ps[i]
    BY <1>3
  <2>3. i = j
    BY <2>1, <2>2 DEF Sound
  <2> QED
    BY <2>2, <2>3
<1> QED
  BY <1>3, <1>4

-----------------------------------------------------------------------------
(* Forecasts.                                                              *)

LEMMA WindowShape ==
    ASSUME NEW w, IsWindow(w), NEW a \in BOOLEAN, NEW b \in BOOLEAN
    PROVE  /\ IsWindow([w EXCEPT !.forecast = a])
           /\ [[w EXCEPT !.forecast = a] EXCEPT !.forecast = b] = [w EXCEPT !.forecast = b]
<1> DEFINE v == [w EXCEPT !.forecast = a]
<1>1. w = [key |-> w.key, used |-> w.used, clock |-> w.clock, label |-> w.label, forecast |-> w.forecast]
  BY DEF IsWindow
<1>2. v = [key |-> w.key, used |-> w.used, clock |-> w.clock, label |-> w.label, forecast |-> a]
  BY <1>1
<1>3. [w EXCEPT !.forecast = b] = [key |-> w.key, used |-> w.used, clock |-> w.clock, label |-> w.label,
                                   forecast |-> b]
  BY <1>1
<1> HIDE DEF v
<1>4. [v EXCEPT !.forecast = b] = [key |-> w.key, used |-> w.used, clock |-> w.clock, label |-> w.label,
                                   forecast |-> b]
  BY <1>2
<1>5. IsWindow(v)
  BY <1>2 DEF IsWindow
<1> QED
  BY <1>3, <1>4, <1>5 DEF v

\* The windows of p, with or without forecasts, are as many and the same.
LEMMA ForecastsOK ==
    ASSUME NEW p, IsProvider(p), NEW on \in BOOLEAN
    PROVE  /\ IsProvider(WithForecasts(p, on))
           /\ WithForecasts(p, on).id = p.id
           /\ WithForecasts(p, on).stale = p.stale
           /\ WithForecasts(p, on).error = p.error
           /\ WithForecasts(p, on).windows = {} <=> p.windows = {}
           /\ Shown(WithForecasts(p, on).windows) = Shown(p.windows)
           /\ WithForecasts(p, FALSE) = [id |-> p.id, stale |-> p.stale, error |-> p.error,
                                         windows |-> Shown(p.windows), credits |-> p.credits]
           /\ WithForecasts(WithForecasts(p, on), FALSE) = WithForecasts(p, FALSE)
<1> DEFINE Set(w, b) == [w EXCEPT !.forecast = b]
           On(w) == on /\ w.clock # None /\ w.label # ""
           Off(w) == FALSE /\ w.clock # None /\ w.label # ""
           W == p.windows
           V == {Set(w, On(w)) : w \in W}
           U == {Set(w, FALSE) : w \in W}
           q == WithForecasts(p, on)
<1>1. /\ p = [id |-> p.id, stale |-> p.stale, error |-> p.error, windows |-> W, credits |-> p.credits]
      /\ p.stale \in BOOLEAN /\ p.error \in BOOLEAN /\ IsFiniteSet(W) /\ \A w \in W : IsWindow(w)
  BY DEF IsProvider
<1>2. \A w \in W : On(w) \in BOOLEAN /\ Off(w) = FALSE
  OBVIOUS
<1>3. {Set(w, Off(w)) : w \in W} = U
  BY <1>2
<1>4. q = [p EXCEPT !.windows = V]
  BY DEF WithForecasts
<1>5. WithForecasts(p, FALSE) = [p EXCEPT !.windows = {Set(w, Off(w)) : w \in W}]
  BY DEF WithForecasts
<1>6. Shown(W) = U
  BY DEF Shown
<1>7. \A w \in W : IsWindow(Set(w, On(w))) /\ Set(Set(w, On(w)), FALSE) = Set(w, FALSE)
  <2> TAKE w \in W
  <2> DEFINE a == On(w)
  <2>1. a \in BOOLEAN /\ IsWindow(w) /\ FALSE \in BOOLEAN
    BY <1>1, <1>2
  <2> HIDE DEF a
  <2> QED
    BY <2>1, WindowShape DEF a
<1> HIDE DEF Set, On, Off
<1>8. {Set(v, FALSE) : v \in V} = U
  <2> DEFINE A(w) == Set(w, On(w))
             B(w) == Set(w, FALSE)
             Y == {B(v) : v \in V}
  <2>1. \A w \in W : B(A(w)) = B(w)
    BY <1>7
  <2>2. V = {A(w) : w \in W} /\ U = {B(w) : w \in W}
    OBVIOUS
  <2> HIDE DEF A, B, V, U
  <2>3. Y = U
    <3>1. \A u \in U : \E w \in W : u = B(w) /\ A(w) \in V
      BY <2>2
    <3>2. \A v \in V : \E w \in W : v = A(w) /\ B(w) \in U
      BY <2>2
    <3>3. \A u \in U : u \in Y
      BY <2>1, <3>1
    <3>4. \A y \in Y : y \in U
      BY <2>1, <3>2
    <3> QED
      BY <3>3, <3>4
  <2> QED
    BY <2>3 DEF B
<1>9. IsFiniteSet(V) /\ (V = {} <=> W = {}) /\ \A v \in V : IsWindow(v)
  <2> DEFINE g == [w \in W |-> Set(w, On(w))]
  <2>1. g \in Surjection(W, V)
    BY DEF Surjection
  <2>2. IsFiniteSet(V)
    BY <1>1, <2>1, FS_Surjection
  <2> QED
    BY <1>7, <2>2
<1> HIDE DEF V, W
<1>10. q = [id |-> p.id, stale |-> p.stale, error |-> p.error, windows |-> V, credits |-> p.credits]
  BY <1>1, <1>4
<1> HIDE DEF U
<1>11. [p EXCEPT !.windows = U] = [id |-> p.id, stale |-> p.stale, error |-> p.error, windows |-> U,
                                   credits |-> p.credits]
  BY <1>1
<1> HIDE DEF q
<1>12. Shown(V) = U
  BY <1>8 DEF Shown, Set
<1>13. WithForecasts(q, FALSE) = [q EXCEPT !.windows = U]
  <2> DEFINE X == {[w EXCEPT !.forecast = FALSE /\ w.clock # None /\ w.label # ""] : w \in V}
  <2>1. WithForecasts(q, FALSE) = [q EXCEPT !.windows =
           {[w EXCEPT !.forecast = FALSE /\ w.clock # None /\ w.label # ""] : w \in q.windows}]
    BY DEF WithForecasts
  <2>2. q.windows = V
    BY <1>10
  <2>3. X = {Set(v, FALSE) : v \in V}
    BY DEF Set
  <2>4. X = U
    BY <1>8, <2>3
  <2> HIDE DEF X
  <2>5. WithForecasts(q, FALSE) = [q EXCEPT !.windows = X]
    BY <2>1, <2>2 DEF X
  <2> QED
    BY <2>4, <2>5
<1>14. [q EXCEPT !.windows = U] = [id |-> p.id, stale |-> p.stale, error |-> p.error, windows |-> U,
                                   credits |-> p.credits]
  BY <1>10
<1>15. WithForecasts(p, FALSE) = [p EXCEPT !.windows = U]
  BY <1>3, <1>5
<1>16. IsProvider(q)
  BY <1>1, <1>9, <1>10 DEF IsProvider
<1>17. q.id = p.id /\ q.stale = p.stale /\ q.error = p.error /\ (q.windows = {} <=> W = {}) /\ Shown(q.windows) = U
  BY <1>9, <1>10, <1>12
<1> QED
  BY <1>6, <1>11, <1>13, <1>14, <1>15, <1>16, <1>17 DEF q, W

\* A list of providers, with or without forecasts, entry by entry.
LEMMA ProvidersSeq ==
    ASSUME NEW ps, IsProviders(ps), NEW qs, qs = [i \in DOMAIN ps |-> qs[i]],
           \A i \in DOMAIN ps : IsProvider(qs[i])
    PROVE  IsProviders(qs) /\ DOMAIN qs = DOMAIN ps /\ Len(qs) = Len(ps)
<1>1. Len(ps) \in Nat /\ DOMAIN ps = 1..Len(ps)
  BY SeqOfProviders
<1>2. DOMAIN qs = 1..Len(ps)
  BY <1>1
<1> DEFINE V == {qs[i] : i \in DOMAIN qs}
<1>3. \A i \in 1..Len(ps) : qs[i] \in V
  BY <1>2
<1>4. qs = [i \in 1..Len(ps) |-> qs[i]]
  BY <1>1
<1> HIDE DEF V
<1>5. qs \in Seq(V)
  BY <1>1, <1>3, <1>4
<1>6. Len(qs) = Len(ps)
  BY <1>1, <1>2, <1>5, LenProperties
<1> QED
  BY <1>1, <1>2, <1>5, <1>6 DEF IsProviders, V

LEMMA ListForecastsOK ==
    ASSUME NEW ps, IsProviders(ps)
    PROVE  /\ IsProviders(ClearForecasts(ps)) /\ IsProviders(Enriched(ps))
           /\ DOMAIN ClearForecasts(ps) = DOMAIN ps /\ DOMAIN Enriched(ps) = DOMAIN ps
           /\ \A i \in DOMAIN ps : /\ ClearForecasts(ps)[i].id = ps[i].id
                                   /\ ClearForecasts(ps)[i].windows = {} <=> ps[i].windows = {}
           /\ \A i \in DOMAIN ps : /\ Enriched(ps)[i].id = ps[i].id
                                   /\ Enriched(ps)[i].stale = ps[i].stale
                                   /\ Enriched(ps)[i].error = ps[i].error
                                   /\ Enriched(ps)[i].windows = {} <=> ps[i].windows = {}
                                   /\ Shown(Enriched(ps)[i].windows) = Shown(ps[i].windows)
           /\ ClearForecasts(Enriched(ps)) = ClearForecasts(ps)
<1> DEFINE cs == ClearForecasts(ps)
           es == Enriched(ps)
           on(i) == ~ps[i].stale /\ ~ps[i].error
<1>1. \A i \in DOMAIN ps : IsProvider(ps[i])
  BY DEF IsProviders
<1>2. cs = [i \in DOMAIN ps |-> WithForecasts(ps[i], FALSE)]
  BY DEF ClearForecasts
<1>3. es = [i \in DOMAIN ps |-> WithForecasts(ps[i], on(i))]
  BY DEF Enriched
<1>4. ClearForecasts(es) = [i \in DOMAIN es |-> WithForecasts(es[i], FALSE)]
  BY DEF ClearForecasts
<1>5. \A i \in DOMAIN ps : on(i) \in BOOLEAN
  OBVIOUS
<1> HIDE DEF on
<1>6. ASSUME NEW i \in DOMAIN ps
      PROVE  /\ IsProvider(cs[i]) /\ cs[i].id = ps[i].id /\ (cs[i].windows = {} <=> ps[i].windows = {})
             /\ IsProvider(es[i]) /\ es[i].id = ps[i].id /\ (es[i].windows = {} <=> ps[i].windows = {})
             /\ es[i].stale = ps[i].stale /\ es[i].error = ps[i].error
             /\ Shown(es[i].windows) = Shown(ps[i].windows)
             /\ WithForecasts(es[i], FALSE) = cs[i]
  <2> DEFINE p == ps[i]
             b == on(i)
             c == FALSE
  <2>1. IsProvider(p) /\ b \in BOOLEAN /\ c \in BOOLEAN
    BY <1>1, <1>5
  <2> HIDE DEF p, b, c
  <2>2. es[i] = WithForecasts(p, b) /\ cs[i] = WithForecasts(p, c)
    BY <1>2, <1>3 DEF p, b, c
  <2>3. /\ IsProvider(WithForecasts(p, b)) /\ WithForecasts(p, b).id = p.id
        /\ (WithForecasts(p, b).windows = {} <=> p.windows = {})
        /\ WithForecasts(p, b).stale = p.stale /\ WithForecasts(p, b).error = p.error
        /\ Shown(WithForecasts(p, b).windows) = Shown(p.windows)
    BY <2>1, ForecastsOK
  <2>4. /\ IsProvider(WithForecasts(p, c)) /\ WithForecasts(p, c).id = p.id
        /\ (WithForecasts(p, c).windows = {} <=> p.windows = {})
    BY <2>1, ForecastsOK
  <2>5. WithForecasts(WithForecasts(p, b), FALSE) = WithForecasts(p, FALSE)
    BY <2>1, ForecastsOK
  <2>6. WithForecasts(es[i], FALSE) = cs[i]
    BY <2>2, <2>5 DEF c
  <2> HIDE DEF cs, es
  <2> QED
    BY <2>2, <2>3, <2>4, <2>6 DEF p
<1> HIDE DEF cs, es
<1>7. IsProviders(cs) /\ DOMAIN cs = DOMAIN ps /\ IsProviders(es) /\ DOMAIN es = DOMAIN ps
  <2>1. cs = [i \in DOMAIN ps |-> cs[i]]
    BY <1>2
  <2>2. es = [i \in DOMAIN ps |-> es[i]]
    BY <1>3
  <2> QED
    BY <1>6, <2>1, <2>2, ProvidersSeq
<1>8. ClearForecasts(es) = cs
  <2>1. cs = [i \in DOMAIN ps |-> cs[i]]
    BY <1>2
  <2>2. [i \in DOMAIN ps |-> WithForecasts(es[i], FALSE)] = [i \in DOMAIN ps |-> cs[i]]
    BY <1>6, Zenon
  <2> QED
    BY <1>4, <1>7, <2>1, <2>2
<1> QED
  BY <1>6, <1>7, <1>8 DEF cs, es

\* A saved draft shows what the draft shows.
LEMMA EnrichedReflects ==
    ASSUME NEW ps, NEW said, Reflects(ps, said)
    PROVE  Reflects(Enriched(ps), said)
<1> DEFINE es == Enriched(ps)
<1>1. IsProviders(ps)
  BY DEF Reflects, Sound
<1>2. /\ IsProviders(es) /\ DOMAIN es = DOMAIN ps
      /\ \A i \in DOMAIN ps : /\ es[i].id = ps[i].id /\ es[i].stale = ps[i].stale /\ es[i].error = ps[i].error
                              /\ Shown(es[i].windows) = Shown(ps[i].windows)
  BY <1>1, ListForecastsOK
<1> HIDE DEF es
<1>3. Sound(es)
  BY <1>2 DEF Reflects, Sound
<1>4. \A i \in DOMAIN es : ~es[i].stale /\ ~es[i].error => Shown(es[i].windows) \in said[es[i].id].current
  BY <1>2 DEF Reflects
<1>5. \A id \in Catalog : said[id].current # {} /\ ~said[id].stale =>
          \E i \in DOMAIN es : es[i].id = id /\ ~es[i].stale /\ ~es[i].error
  BY <1>2 DEF Reflects
<1> QED
  BY <1>3, <1>4, <1>5 DEF Reflects, es

-----------------------------------------------------------------------------
(* preserveLastKnownProviderUsage.                                         *)

LEMMA KeptOK ==
    ASSUME NEW p, IsProvider(p)
    PROVE  IsProvider(Kept(p)) /\ Kept(p).id = p.id /\ Kept(p).stale /\ Kept(p).windows = p.windows
BY DEF IsProvider, Kept

\* The sequences of providers, one after the other.
LEMMA ConcatOK ==
    ASSUME NEW a, NEW b, IsProviders(a), IsProviders(b)
    PROVE  /\ IsProviders(a \o b)
           /\ \A i \in DOMAIN (a \o b) :
                 \/ i \in DOMAIN a /\ (a \o b)[i] = a[i]
                 \/ i - Len(a) \in DOMAIN b /\ i > Len(a) /\ (a \o b)[i] = b[i - Len(a)]
           /\ \A i \in DOMAIN a : i \in DOMAIN (a \o b) /\ (a \o b)[i] = a[i]
           /\ \A i \in DOMAIN b : i + Len(a) \in DOMAIN (a \o b) /\ (a \o b)[i + Len(a)] = b[i]
<1> DEFINE A == {a[i] : i \in DOMAIN a}
           B == {b[i] : i \in DOMAIN b}
           V == A \cup B
           c == a \o b
           m == Len(a)
           n == Len(b)
<1>1. a \in Seq(A) /\ b \in Seq(B)
  BY DEF IsProviders
<1>2. m \in Nat /\ n \in Nat /\ DOMAIN a = 1..m /\ DOMAIN b = 1..n
  BY SeqOfProviders
<1>3. /\ \A i \in 1..m : a[i] \in V /\ IsProvider(a[i])
      /\ \A i \in 1..n : b[i] \in V /\ IsProvider(b[i])
  BY <1>2 DEF IsProviders
<1> HIDE DEF A, B, V, m, n
<1>4. a \in Seq(V) /\ b \in Seq(V)
  BY <1>1, <1>2, <1>3 DEF m, n
<1>5. /\ c \in Seq(V) /\ Len(c) = m + n
      /\ \A i \in 1..m : c[i] = a[i]
      /\ \A i \in 1..n : c[m + i] = b[i]
  BY <1>4, ConcatProperties DEF m, n
<1> HIDE DEF c
<1>6. DOMAIN c = 1..m + n
  BY <1>5, LenProperties
<1>7. ASSUME NEW i \in 1..m + n
      PROVE  \/ i \in 1..m /\ c[i] = a[i]
             \/ i - m \in 1..n /\ i > m /\ c[i] = b[i - m]
  <2>1. CASE i <= m
    BY <1>2, <1>5, <2>1
  <2>2. CASE i > m
    <3>1. i - m \in 1..n /\ m + (i - m) = i
      BY <1>2, <2>2
    <3> QED
      BY <1>5, <2>2, <3>1
  <2> QED
    BY <1>2, <2>1, <2>2
<1>8. \A i \in 1..m : i \in DOMAIN c /\ c[i] = a[i]
  BY <1>2, <1>5, <1>6
<1>9. \A i \in 1..n : i + m \in DOMAIN c /\ c[i + m] = b[i]
  BY <1>2, <1>5, <1>6
<1>10. IsProviders(c)
  <2> DEFINE C == {c[i] : i \in DOMAIN c}
  <2>1. \A i \in 1..m + n : c[i] \in C
    BY <1>6
  <2> HIDE DEF C
  <2>2. c \in Seq(C)
    BY <1>2, <1>5, <1>6, <2>1
  <2>3. \A i \in DOMAIN c : IsProvider(c[i])
    BY <1>3, <1>6, <1>7
  <2> QED
    BY <2>2, <2>3 DEF IsProviders, C
<1> QED
  BY <1>2, <1>6, <1>7, <1>8, <1>9, <1>10 DEF c, m, n

\* Filled alters a provider only when it failed, and then it is stale.
LEMMA FilledOK ==
    ASSUME NEW p, IsProvider(p), NEW old, Sound(old)
    PROVE  /\ IsProvider(Filled(p, old)) /\ Filled(p, old).id = p.id
           /\ Filled(p, old) = p \/ (p.error /\ Filled(p, old).stale)
           /\ p.error /\ HasWindows(old, p.id) => Filled(p, old).windows # {}
<1> DEFINE fills == p.error /\ p.windows = {} /\ HasWindows(old, p.id)
<1>1. Filled(p, old) = IF fills THEN Kept(Entry(old, p.id)) ELSE p
  BY DEF Filled
<1>2. ASSUME fills
      PROVE  LET e == Entry(old, p.id) IN IsProvider(e) /\ e.id = p.id /\ e.windows # {}
  <2>1. PICK i \in DOMAIN old : old[i].id = p.id /\ old[i].windows # {}
    BY <1>2 DEF HasWindows
  <2>2. \A j \in DOMAIN old : old[j].id = p.id => j = i
    BY <2>1 DEF Sound
  <2>3. Entry(old, p.id) = old[i]
    BY <2>1, <2>2 DEF Entry
  <2>4. IsProvider(old[i])
    BY DEF Sound, IsProviders
  <2> QED
    BY <2>1, <2>3, <2>4
<1>3. CASE fills
  <2> DEFINE e == Entry(old, p.id)
  <2>1. IsProvider(e) /\ e.id = p.id /\ e.windows # {} /\ Filled(p, old) = Kept(e) /\ p.error
    BY <1>1, <1>2, <1>3
  <2> HIDE DEF e
  <2>2. IsProvider(Kept(e)) /\ Kept(e).id = e.id /\ Kept(e).stale /\ Kept(e).windows = e.windows
    BY <2>1, KeptOK
  <2> QED
    BY <2>1, <2>2
<1>4. CASE ~fills
  BY <1>1, <1>4
<1> QED
  BY <1>3, <1>4

\* The entries of a merge: those of the draft, filled, and those kept of
\* the providers that the draft leaves out.
LEMMA PreservedEntries ==
    ASSUME NEW ps, Sound(ps), NEW previous, IsProviders(previous)
    PROVE  LET now == Project(ps)
               old == Project(previous)
               R   == Preserved(ps, previous)
           IN  /\ Sound(R)
               /\ \A k \in DOMAIN R :
                     \/ \E i \in DOMAIN now : R[k] = Filled(now[i], old)
                     \/ R[k].stale
               /\ \A i \in DOMAIN now : \E k \in DOMAIN R : R[k] = Filled(now[i], old)
               /\ \A i \in DOMAIN old :
                     ~HasEntry(now, old[i].id) /\ old[i].windows # {} /\ KeepPlanProvider(old[i]) =>
                         \E k \in DOMAIN R : R[k] = Kept(old[i])
<1> DEFINE now  == Project(ps)
           old  == Project(previous)
           R    == Preserved(ps, previous)
           left == {i \in DOMAIN old : /\ ~HasEntry(now, old[i].id)
                                       /\ old[i].windows # {} /\ KeepPlanProvider(old[i])}
           head == [i \in DOMAIN now |-> Filled(now[i], old)]
           g    == [i \in left |-> Kept(old[i])]
           tail == InSequence(g, Len(old))
<1>1. Sound(now) /\ Sound(old)
  BY ProjectSame, ProjectOK
<1>2. R = head \o tail
  BY DEF Preserved
<1> HIDE DEF now, old, R
<1>3. /\ Len(old) \in Nat /\ DOMAIN old = 1..Len(old) /\ \A i \in 1..Len(old) : IsProvider(old[i])
      /\ IsProviders(now) /\ \A i \in DOMAIN now : IsProvider(now[i])
  BY <1>1, SeqOfProviders DEF Sound, IsProviders
<1>4. /\ \A i \in DOMAIN now : /\ IsProvider(head[i]) /\ head[i] = Filled(now[i], old)
                               /\ head[i].id = now[i].id
  BY <1>1, <1>3, FilledOK
<1>5. IsProviders(head) /\ DOMAIN head = DOMAIN now
  BY <1>3, <1>4, ProvidersSeq
<1>6. /\ \A i \in left : /\ i \in 1..Len(old) /\ g[i] = Kept(old[i]) /\ IsProvider(g[i])
                         /\ g[i].id = old[i].id /\ g[i].stale
      /\ DOMAIN g = left /\ left \subseteq 1..Len(old)
  BY <1>3, KeptOK
<1>7. \A i \in left : ~HasEntry(now, old[i].id) /\ old[i].id \in Catalog
  BY DEF KeepPlanProvider
<1>8. \A i \in DOMAIN old : ~HasEntry(now, old[i].id) /\ old[i].windows # {} /\ KeepPlanProvider(old[i]) =>
          i \in left
  OBVIOUS
<1> HIDE DEF head, g, left
<1>9. tail \in Seq({g[i] : i \in left}) /\ \E at : Places(tail, left, g, at)
  <2>1. DOMAIN g \subseteq 1..Len(old) /\ Len(old) \in Nat
    BY <1>3, <1>6
  <2>2. tail \in Seq({g[i] : i \in DOMAIN g}) /\ \E at : Places(tail, DOMAIN g, g, at)
    BY <2>1, InSequenceOK
  <2> QED
    BY <1>6, <2>2
<1>10. PICK at : Places(tail, left, g, at)
  BY <1>9
<1> HIDE DEF tail
<1>11. Len(tail) \in Nat /\ DOMAIN tail = 1..Len(tail)
  BY <1>9, LenProperties
<1>12. /\ \A k \in DOMAIN tail : at[k] \in left /\ tail[k] = g[at[k]]
       /\ \A k, l \in DOMAIN tail : k < l => at[k] < at[l]
       /\ \A i \in left : \E k \in DOMAIN tail : at[k] = i
  BY <1>10, <1>11 DEF Places
<1>13. \A k \in DOMAIN tail : /\ at[k] \in left /\ tail[k] = Kept(old[at[k]]) /\ IsProvider(tail[k])
                             /\ tail[k].id = old[at[k]].id /\ tail[k].stale
  BY <1>6, <1>12
<1>14. IsProviders(tail)
  <2>1. tail \in Seq({tail[k] : k \in DOMAIN tail})
    BY <1>9, <1>11, LenProperties
  <2> QED
    BY <1>13, <2>1 DEF IsProviders
<1>15. /\ IsProviders(R)
       /\ \A i \in DOMAIN R :
             \/ i \in DOMAIN head /\ R[i] = head[i]
             \/ i - Len(head) \in DOMAIN tail /\ i > Len(head) /\ R[i] = tail[i - Len(head)]
       /\ \A i \in DOMAIN head : i \in DOMAIN R /\ R[i] = head[i]
       /\ \A i \in DOMAIN tail : i + Len(head) \in DOMAIN R /\ R[i + Len(head)] = tail[i]
  BY <1>2, <1>5, <1>14, ConcatOK
<1>16. Len(head) \in Nat /\ DOMAIN head = 1..Len(head) /\ Len(R) \in Nat /\ DOMAIN R = 1..Len(R)
  BY <1>5, <1>15, SeqOfProviders
<1>17. \A k \in DOMAIN R :
          \/ \E i \in DOMAIN now : R[k] = Filled(now[i], old)
          \/ R[k].stale
  BY <1>4, <1>5, <1>13, <1>15
<1>18. \A i \in DOMAIN now : \E k \in DOMAIN R : R[k] = Filled(now[i], old)
  BY <1>4, <1>5, <1>15
<1>19. \A i \in left : \E k \in DOMAIN R : R[k] = Kept(old[i])
  <2> TAKE i \in left
  <2>1. PICK k \in DOMAIN tail : at[k] = i
    BY <1>12
  <2>2. k + Len(head) \in DOMAIN R /\ R[k + Len(head)] = tail[k]
    BY <1>15
  <2> QED
    BY <1>13, <2>1, <2>2
<1>20. \A k \in DOMAIN R : R[k].id \in Catalog
  <2>1. \A i \in DOMAIN head : head[i].id \in Catalog
    BY <1>1, <1>4, <1>5 DEF Sound
  <2>2. \A k \in DOMAIN tail : tail[k].id \in Catalog
    BY <1>7, <1>13
  <2> QED
    BY <1>15, <2>1, <2>2
<1>21. ASSUME NEW i \in DOMAIN R, NEW j \in DOMAIN R, R[i].id = R[j].id
       PROVE  i = j
  <2>1. \A k, l \in DOMAIN head : head[k].id = head[l].id => k = l
    BY <1>1, <1>4, <1>5 DEF Sound
  <2>2. ASSUME NEW k \in DOMAIN tail, NEW l \in DOMAIN tail, tail[k].id = tail[l].id
        PROVE  k = l
    <3>1. at[k] \in left /\ at[l] \in left /\ old[at[k]].id = old[at[l]].id
      BY <1>13, <2>2
    <3> DEFINE x == at[k]
               y == at[l]
    <3>2. x \in 1..Len(old) /\ y \in 1..Len(old) /\ old[x].id = old[y].id
      BY <1>6, <3>1
    <3> HIDE DEF x, y
    <3>3. x = y /\ x \in Nat
      BY <1>1, <1>3, <3>2 DEF Sound
    <3>4. at[k] = at[l] /\ at[k] \in Nat
      BY <3>3 DEF x, y
    <3> QED
      BY <1>11, <1>12, <3>4
  <2>3. ASSUME NEW k \in DOMAIN head, NEW l \in DOMAIN tail
        PROVE  head[k].id # tail[l].id
    <3>1. ~HasEntry(now, tail[l].id)
      BY <1>7, <1>13
    <3> QED
      BY <1>4, <1>5, <3>1 DEF HasEntry
  <2> DEFINE m == Len(head)
             Front(k) == k \in DOMAIN head /\ R[k] = head[k]
             Back(k)  == k - m \in DOMAIN tail /\ R[k] = tail[k - m]
  <2>4. /\ Front(i) \/ Back(i)
        /\ Front(j) \/ Back(j)
        /\ i \in Nat /\ j \in Nat /\ m \in Nat
    <3>1. \A k \in DOMAIN R : Front(k) \/ Back(k)
      BY <1>15
    <3> QED
      BY <1>16, <3>1
  <2> HIDE DEF m
  <2>5. CASE i \in DOMAIN head /\ R[i] = head[i]
    BY <1>21, <2>1, <2>3, <2>4, <2>5
  <2>6. CASE i - m \in DOMAIN tail /\ R[i] = tail[i - m]
    <3>1. ~(j \in DOMAIN head /\ R[j] = head[j])
      BY <1>21, <2>3, <2>6
    <3>2. i - m = j - m
      BY <1>21, <2>2, <2>4, <2>6, <3>1
    <3> QED
      BY <2>4, <3>2
  <2> QED
    BY <2>4, <2>5, <2>6
<1>22. Sound(R)
  BY <1>15, <1>20, <1>21 DEF Sound
<1> QED
  BY <1>8, <1>17, <1>18, <1>19, <1>22 DEF now, old, R

\* After the merge the draft still shows what the report said, and has the
\* last useful windows of every provider the report does not empty.
LEMMA PreservedOK ==
    ASSUME NEW ps, NEW said, Reflects(ps, said), \A i \in DOMAIN ps : KeepPlanProvider(ps[i]),
           NEW previous, IsProviders(previous)
    PROVE  /\ Reflects(Preserved(ps, previous), said)
           /\ \A id \in Catalog : HasWindows(previous, id) =>
                 \/ HasWindows(Preserved(ps, previous), id)
                 \/ \E k \in DOMAIN Preserved(ps, previous) :
                       LET p == Preserved(ps, previous)[k]
                       IN  p.id = id /\ p.stale /\ ~p.error /\ p.windows = {}
<1> DEFINE now == Project(ps)
           old == Project(previous)
           R   == Preserved(ps, previous)
<1>1. /\ Sound(ps) /\ Sound(now) /\ Sound(old)
      /\ \A k \in DOMAIN now : \E j \in DOMAIN ps : now[k] = ps[j]
      /\ \A j \in DOMAIN ps : \E k \in DOMAIN now : now[k] = ps[j]
  BY ProjectSame, ProjectOK DEF Reflects
<1>2. \A j \in DOMAIN previous : Canonical[previous[j].id] \in Catalog =>
          \E k \in DOMAIN old :
             /\ old[k].id = Canonical[previous[j].id]
             /\ Cardinality(previous[j].windows) <= Cardinality(old[k].windows)
  BY ProjectOK
<1>3. /\ Sound(R)
      /\ \A k \in DOMAIN R :
            \/ \E i \in DOMAIN now : R[k] = Filled(now[i], old)
            \/ R[k].stale
      /\ \A i \in DOMAIN now : \E k \in DOMAIN R : R[k] = Filled(now[i], old)
      /\ \A i \in DOMAIN old :
            ~HasEntry(now, old[i].id) /\ old[i].windows # {} /\ KeepPlanProvider(old[i]) =>
                \E k \in DOMAIN R : R[k] = Kept(old[i])
  BY <1>1, PreservedEntries
<1> HIDE DEF now, old, R
<1>4. \A i \in DOMAIN now :
         /\ IsProvider(now[i]) /\ KeepPlanProvider(now[i])
         /\ IsProvider(Filled(now[i], old)) /\ Filled(now[i], old).id = now[i].id
         /\ Filled(now[i], old) = now[i] \/ (now[i].error /\ Filled(now[i], old).stale)
         /\ now[i].error /\ HasWindows(old, now[i].id) => Filled(now[i], old).windows # {}
  <2> TAKE i \in DOMAIN now
  <2>1. IsProvider(now[i]) /\ KeepPlanProvider(now[i])
    BY <1>1 DEF Sound, IsProviders
  <2> QED
    BY <1>1, <2>1, FilledOK
<1>5. ASSUME NEW k \in DOMAIN R, ~R[k].stale, ~R[k].error
      PROVE  Shown(R[k].windows) \in said[R[k].id].current
  <2>1. PICK i \in DOMAIN now : R[k] = Filled(now[i], old)
    BY <1>3, <1>5
  <2>2. R[k] = now[i]
    BY <1>4, <1>5, <2>1
  <2>3. PICK j \in DOMAIN ps : now[i] = ps[j]
    BY <1>1
  <2> QED
    BY <1>5, <2>2, <2>3 DEF Reflects
<1>6. ASSUME NEW id \in Catalog, said[id].current # {}, ~said[id].stale
      PROVE  \E k \in DOMAIN R : R[k].id = id /\ ~R[k].stale /\ ~R[k].error
  <2>1. PICK j \in DOMAIN ps : ps[j].id = id /\ ~ps[j].stale /\ ~ps[j].error
    BY <1>6 DEF Reflects
  <2>2. PICK i \in DOMAIN now : now[i] = ps[j]
    BY <1>1
  <2>3. PICK k \in DOMAIN R : R[k] = Filled(now[i], old)
    BY <1>3
  <2>4. R[k] = now[i]
    BY <1>4, <2>1, <2>2, <2>3
  <2> QED
    BY <2>1, <2>2, <2>4
<1>7. Reflects(R, said)
  BY <1>3, <1>5, <1>6 DEF Reflects
<1>8. ASSUME NEW id \in Catalog, HasWindows(previous, id)
      PROVE  \/ HasWindows(R, id)
             \/ \E k \in DOMAIN R : R[k].id = id /\ R[k].stale /\ ~R[k].error /\ R[k].windows = {}
  <2>1. PICK j \in DOMAIN previous : previous[j].id = id /\ previous[j].windows # {}
    BY <1>8 DEF HasWindows
  <2>2. Canonical[id] = id
    BY ReportAssumption
  <2>3. PICK m \in DOMAIN old :
           old[m].id = id /\ Cardinality(previous[j].windows) <= Cardinality(old[m].windows)
    BY <1>2, <2>1, <2>2
  <2>4. old[m].windows # {}
    <3> DEFINE V == previous[j].windows
               W == old[m].windows
    <3>1. IsFiniteSet(V) /\ V # {}
      BY <2>1 DEF IsProviders, IsProvider
    <3>2. Cardinality(V) <= Cardinality(W)
      BY <2>3
    <3> HIDE DEF V, W
    <3>3. Cardinality(V) \in Nat /\ Cardinality(V) # 0 /\ Cardinality({}) = 0
      BY <3>1, FS_CardinalityType, FS_EmptySet
    <3>4. W # {}
      BY <3>2, <3>3
    <3> QED
      BY <3>4 DEF W
  <2>5. HasWindows(old, id)
    BY <2>3, <2>4 DEF HasWindows
  <2>6. CASE HasEntry(now, id)
    <3>1. PICK i \in DOMAIN now : now[i].id = id
      BY <2>6 DEF HasEntry
    <3>2. PICK k \in DOMAIN R : R[k] = Filled(now[i], old)
      BY <1>3
    <3>3. R[k].id = id
      BY <1>4, <3>1, <3>2
    <3>4. CASE now[i].error
      <4>1. R[k].windows # {}
        BY <1>4, <2>5, <3>1, <3>2, <3>4
      <4> QED
        BY <3>3, <4>1 DEF HasWindows
    <3>5. CASE ~now[i].error
      <4>1. R[k] = now[i]
        BY <1>4, <3>2, <3>5
      <4>2. now[i].windows # {} \/ now[i].stale
        BY <1>4, <3>5 DEF KeepPlanProvider
      <4> QED
        BY <3>3, <3>5, <4>1, <4>2 DEF HasWindows
    <3> QED
      BY <3>4, <3>5
  <2>7. CASE ~HasEntry(now, id)
    <3>1. KeepPlanProvider(old[m])
      BY <2>3, <2>4 DEF KeepPlanProvider
    <3>2. PICK k \in DOMAIN R : R[k] = Kept(old[m])
      BY <1>3, <2>3, <2>4, <2>7, <3>1
    <3>3. R[k].id = id /\ R[k].windows # {}
      BY <2>3, <2>4, <3>2 DEF Kept
    <3> QED
      BY <3>3 DEF HasWindows
  <2> QED
    BY <2>6, <2>7
<1> QED
  BY <1>7, <1>8 DEF R

-----------------------------------------------------------------------------
(* normalizeLimitsV1.                                                      *)

\* The windows of a report are finitely many, and have no forecasts.
LEMMA WindowsOK ==
    ASSUME NEW resources, IsFiniteSet(DOMAIN resources)
    PROVE  /\ IsFiniteSet(Windows(resources))
           /\ \A w \in Windows(resources) : IsWindow(w)
           /\ Shown(Windows(resources)) = Windows(resources)
<1> DEFINE K == {k \in DOMAIN resources : ~Skipped(k, resources[k]) /\ UsedPercent(resources[k]) # None}
           Of(k) == [key |-> k, used |-> UsedPercent(resources[k]), clock |-> resources[k].clock,
                     label |-> WindowLabel(k, resources[k].seconds), forecast |-> FALSE]
           W == Windows(resources)
           g == [k \in K |-> Of(k)]
<1>1. W = {Of(k) : k \in K}
  BY DEF Windows
<1>2. \A k \in K : IsWindow(Of(k)) /\ [Of(k) EXCEPT !.forecast = FALSE] = Of(k)
  <2> TAKE k \in K
  <2> DEFINE u == UsedPercent(resources[k])
             c == resources[k].clock
             l == WindowLabel(k, resources[k].seconds)
             w == Of(k)
             b == FALSE
  <2>1. w = [key |-> k, used |-> u, clock |-> c, label |-> l, forecast |-> b] /\ b \in BOOLEAN
    OBVIOUS
  <2> HIDE DEF u, c, l, w, b
  <2>2. IsWindow(w)
    BY <2>1 DEF IsWindow
  <2>3. [w EXCEPT !.forecast = b] = w
    BY <2>1
  <2> QED
    BY <2>2, <2>3 DEF w, b
<1>3. IsFiniteSet(K)
  BY FS_Subset
<1> HIDE DEF K, Of, W
<1>4. IsFiniteSet(W)
  <2>1. g \in Surjection(K, W)
    BY <1>1 DEF Surjection
  <2> QED
    BY <1>3, <2>1, FS_Surjection
<1>5. \A w \in W : IsWindow(w) /\ [w EXCEPT !.forecast = FALSE] = w
  BY <1>1, <1>2
<1>6. Shown(W) = W
  BY <1>5 DEF Shown
<1> QED
  BY <1>4, <1>5, <1>6 DEF W

\* The candidates of a provider are its entries in the envelope.
LEMMA CandidatesOK ==
    ASSUME NEW env, NEW id \in Catalog,
           \A raw \in DOMAIN env.providers :
              env.providers[raw].stale \in BOOLEAN /\ IsFiniteSet(DOMAIN env.providers[raw].resources)
    PROVE  /\ \A p \in Candidates(env, id) :
                 /\ IsProvider(p) /\ p.id = id /\ ~p.error /\ KeepPlanProvider(p)
                 /\ Shown(p.windows) = p.windows
                 /\ \E e \in EntriesOf(env, id) : p.stale = e.stale /\ p.windows = Windows(e.resources)
           /\ \A e \in EntriesOf(env, id) : Windows(e.resources) # {} => Candidates(env, id) # {}
<1> DEFINE Raws == {raw \in DOMAIN env.providers : Canonical[raw] = id}
           C == {ProviderOf(id, env.providers[raw]) : raw \in Raws}
<1>1. Candidates(env, id) = {p \in C : KeepPlanProvider(p)}
  BY DEF Candidates
<1>2. EntriesOf(env, id) = {env.providers[raw] : raw \in Raws}
  BY DEF EntriesOf
<1>3. \A raw \in Raws : /\ env.providers[raw].stale \in BOOLEAN
                        /\ IsFiniteSet(DOMAIN env.providers[raw].resources)
  OBVIOUS
<1> HIDE DEF Raws
<1>4. ASSUME NEW e, e.stale \in BOOLEAN, IsFiniteSet(DOMAIN e.resources)
      PROVE  LET p == ProviderOf(id, e)
             IN  /\ IsProvider(p) /\ p.id = id /\ ~p.error /\ Shown(p.windows) = p.windows
                 /\ p.stale = e.stale /\ p.windows = Windows(e.resources)
                 /\ Windows(e.resources) # {} => KeepPlanProvider(p)
  <2> DEFINE W == Windows(e.resources)
             c == CreditsOf(e.resources)
             p == ProviderOf(id, e)
             s == e.stale
             f == FALSE
  <2>1. p = [id |-> id, stale |-> s, error |-> f, windows |-> W, credits |-> c]
    BY DEF ProviderOf
  <2>2. IsFiniteSet(W) /\ (\A w \in W : IsWindow(w)) /\ Shown(W) = W
    BY <1>4, WindowsOK
  <2>3. s \in BOOLEAN /\ f \in BOOLEAN
    BY <1>4
  <2> HIDE DEF W, c, p, s, f
  <2>4. p.id = id /\ p.stale = s /\ p.error = f /\ p.windows = W /\ p.credits = c
    BY <2>1
  <2>5. IsProvider(p)
    BY <2>1, <2>2, <2>3 DEF IsProvider
  <2>6. W # {} => KeepPlanProvider(p)
    BY <2>4 DEF KeepPlanProvider
  <2> QED
    BY <2>2, <2>4, <2>5, <2>6 DEF W, p, s, f
<1>5. ASSUME NEW p \in Candidates(env, id)
      PROVE  /\ IsProvider(p) /\ p.id = id /\ ~p.error /\ KeepPlanProvider(p)
             /\ Shown(p.windows) = p.windows
             /\ \E e \in EntriesOf(env, id) : p.stale = e.stale /\ p.windows = Windows(e.resources)
  <2>1. KeepPlanProvider(p) /\ \E raw \in Raws : p = ProviderOf(id, env.providers[raw])
    BY <1>1
  <2>2. PICK raw \in Raws : p = ProviderOf(id, env.providers[raw])
    BY <2>1
  <2> DEFINE e == env.providers[raw]
  <2>3. e \in EntriesOf(env, id) /\ e.stale \in BOOLEAN /\ IsFiniteSet(DOMAIN e.resources) /\ p = ProviderOf(id, e)
    BY <1>2, <1>3, <2>2
  <2> HIDE DEF e
  <2> QED
    BY <1>4, <2>1, <2>3
<1>6. ASSUME NEW e \in EntriesOf(env, id), Windows(e.resources) # {}
      PROVE  Candidates(env, id) # {}
  <2>1. PICK raw \in Raws : e = env.providers[raw]
    BY <1>2
  <2>2. e.stale \in BOOLEAN /\ IsFiniteSet(DOMAIN e.resources)
    BY <1>3, <2>1
  <2>3. KeepPlanProvider(ProviderOf(id, e))
    BY <1>4, <1>6, <2>2
  <2>4. ProviderOf(id, e) \in C
    BY <2>1
  <2> HIDE DEF C
  <2> QED
    BY <1>1, <2>3, <2>4
<1> QED
  BY <1>5, <1>6

LEMMA ErroredOK ==
    ASSUME NEW id \in Catalog
    PROVE  IsProvider(Errored(id)) /\ Errored(id).id = id /\ Errored(id).error /\ KeepPlanProvider(Errored(id))
<1> DEFINE p == Errored(id)
           W == {}
           f == FALSE
           t == TRUE
<1>1. p = [id |-> id, stale |-> f, error |-> t, windows |-> W, credits |-> None]
  BY DEF Errored
<1>2. IsFiniteSet(W) /\ (\A w \in W : IsWindow(w)) /\ f \in BOOLEAN /\ t \in BOOLEAN /\ t
  BY FS_EmptySet
<1> HIDE DEF p, W, f, t
<1>3. p.id = id /\ p.stale = f /\ p.error = t /\ p.windows = W /\ p.credits = None
  BY <1>1
<1>4. IsProvider(p)
  BY <1>1, <1>2 DEF IsProvider
<1> QED
  BY <1>2, <1>3, <1>4 DEF KeepPlanProvider, p

\* Providers in default order: each of them, once.
LEMMA InOrderOK ==
    ASSUME NEW g, DOMAIN g \subseteq Catalog, \A id \in DOMAIN g : IsProvider(g[id]) /\ g[id].id = id
    PROVE  /\ Sound(InOrder(g))
           /\ \A k \in DOMAIN InOrder(g) : \E id \in DOMAIN g : InOrder(g)[k] = g[id]
           /\ \A id \in DOMAIN g : \E k \in DOMAIN InOrder(g) : InOrder(g)[k] = g[id]
<1> DEFINE places == {i \in DOMAIN DefaultOrder : DefaultOrder[i] \in DOMAIN g}
           f == [i \in places |-> g[DefaultOrder[i]]]
           n == Len(DefaultOrder)
           q == InOrder(g)
<1>1. q = InSequence(f, n)
  BY DEF InOrder
<1>2. n \in Nat /\ DOMAIN DefaultOrder = 1..n
  BY ReportAssumption, LenProperties
<1>3. \A i, j \in 1..n : DefaultOrder[i] = DefaultOrder[j] => i = j
  BY <1>2, ReportAssumption
<1>4. /\ \A i \in places : i \in 1..n /\ DefaultOrder[i] \in DOMAIN g /\ f[i] = g[DefaultOrder[i]]
      /\ DOMAIN f = places /\ places \subseteq 1..n
  BY <1>2
<1>5. \A id \in DOMAIN g : \E i \in places : DefaultOrder[i] = id
  BY DEF Catalog
<1> HIDE DEF places, f, q
<1>6. q \in Seq({f[i] : i \in places}) /\ \E at : Places(q, places, f, at)
  <2>1. DOMAIN f \subseteq 1..n
    BY <1>4
  <2>2. InSequence(f, n) \in Seq({f[i] : i \in DOMAIN f}) /\ \E at : Places(InSequence(f, n), DOMAIN f, f, at)
    BY <1>2, <2>1, InSequenceOK
  <2> QED
    BY <1>1, <1>4, <2>2
<1>7. PICK at : Places(q, places, f, at)
  BY <1>6
<1>8. Len(q) \in Nat /\ DOMAIN q = 1..Len(q)
  BY <1>6, LenProperties
<1>9. /\ \A k \in DOMAIN q : at[k] \in places /\ q[k] = f[at[k]]
      /\ \A k, l \in DOMAIN q : k < l => at[k] < at[l]
      /\ \A i \in places : \E k \in DOMAIN q : at[k] = i
  BY <1>7, <1>8 DEF Places
<1>10. \A k \in DOMAIN q : /\ at[k] \in 1..n /\ DefaultOrder[at[k]] \in DOMAIN g /\ q[k] = g[DefaultOrder[at[k]]]
                           /\ q[k].id = DefaultOrder[at[k]] /\ IsProvider(q[k])
  <2> TAKE k \in DOMAIN q
  <2>1. at[k] \in places /\ q[k] = f[at[k]]
    BY <1>9
  <2>2. at[k] \in 1..n /\ DefaultOrder[at[k]] \in DOMAIN g /\ f[at[k]] = g[DefaultOrder[at[k]]]
    BY <1>4, <2>1
  <2> QED
    BY <2>1, <2>2
<1>11. \A id \in DOMAIN g : \E k \in DOMAIN q : q[k] = g[id]
  <2> TAKE id \in DOMAIN g
  <2>1. PICK i \in places : DefaultOrder[i] = id
    BY <1>5
  <2>2. PICK k \in DOMAIN q : at[k] = i
    BY <1>9
  <2> QED
    BY <1>10, <2>1, <2>2
<1>12. Sound(q)
  <2>1. q \in Seq({q[k] : k \in DOMAIN q})
    BY <1>6, <1>8, LenProperties
  <2>2. IsProviders(q)
    BY <1>10, <2>1 DEF IsProviders
  <2>3. ASSUME NEW k \in DOMAIN q, NEW l \in DOMAIN q, q[k].id = q[l].id
        PROVE  k = l
    <3>1. DefaultOrder[at[k]] = DefaultOrder[at[l]] /\ at[k] \in 1..n /\ at[l] \in 1..n
      BY <1>10, <2>3
    <3> DEFINE x == at[k]
               y == at[l]
    <3>2. DefaultOrder[x] = DefaultOrder[y] /\ x \in 1..n /\ y \in 1..n
      BY <3>1
    <3> HIDE DEF x, y
    <3>3. x = y /\ x \in Nat
      BY <1>2, <1>3, <3>2
    <3> QED
      BY <1>8, <1>9, <3>3 DEF x, y
  <2> QED
    BY <1>10, <2>2, <2>3 DEF Sound
<1> QED
  BY <1>10, <1>11, <1>12 DEF q

\* What the report says is current, and only that, is current in the draft.
LEMMA NormalizedOK ==
    ASSUME NEW body, Envelope(body) # None, IsAnswer(body), NEW ps \in Normalized(Envelope(body))
    PROVE  Reflects(ps, Reported(body)) /\ \A i \in DOMAIN ps : KeepPlanProvider(ps[i])
<1> DEFINE env     == Envelope(body)
           said    == Reported(body)
           kept    == {id \in Catalog : Candidates(env, id) # {}}
           errored == {id \in Catalog \ kept : \E raw \in env.errors : Canonical[raw] = id}
           picks   == {f \in [kept -> UNION {Candidates(env, id) : id \in kept}] :
                           \A id \in kept : f[id] \in Candidates(env, id)}
<1>1. \E f \in picks : ps = InOrder([id \in kept \cup errored |-> IF id \in kept THEN f[id] ELSE Errored(id)])
  BY DEF Normalized
<1>2. PICK f \in picks : ps = InOrder([id \in kept \cup errored |-> IF id \in kept THEN f[id] ELSE Errored(id)])
  BY <1>1
<1>3. \A raw \in DOMAIN env.providers :
         env.providers[raw].stale \in BOOLEAN /\ IsFiniteSet(DOMAIN env.providers[raw].resources)
  BY DEF IsAnswer
<1>4. \A id \in kept : f[id] \in Candidates(env, id) /\ id \in Catalog
  OBVIOUS
<1>5. \A id \in Catalog : Candidates(env, id) # {} => id \in kept
  OBVIOUS
<1>6. \A id \in errored : id \in Catalog /\ id \notin kept
  OBVIOUS
<1>7. said = [id \in Catalog |->
         [current |-> {Windows(e.resources) : e \in {e \in EntriesOf(env, id) : ~e.stale}} \ {{}},
          stale   |-> \E e \in EntriesOf(env, id) : e.stale]]
  BY DEF Reported
<1> HIDE DEF env, said, kept, errored, picks
<1> DEFINE g == [id \in kept \cup errored |-> IF id \in kept THEN f[id] ELSE Errored(id)]
<1>8. /\ \A id \in kept : g[id] = f[id]
      /\ \A id \in errored : g[id] = Errored(id)
      /\ DOMAIN g = kept \cup errored
  BY <1>6
<1> HIDE DEF g
<1>9. \A id \in kept : /\ IsProvider(g[id]) /\ g[id].id = id /\ ~g[id].error /\ KeepPlanProvider(g[id])
                       /\ Shown(g[id].windows) = g[id].windows
                       /\ \E e \in EntriesOf(env, id) : g[id].stale = e.stale /\ g[id].windows = Windows(e.resources)
  <2> TAKE id \in kept
  <2>1. g[id] \in Candidates(env, id) /\ id \in Catalog
    BY <1>4, <1>8
  <2> QED
    BY <1>3, <2>1, CandidatesOK
<1>10. \A id \in errored : IsProvider(g[id]) /\ g[id].id = id /\ g[id].error /\ KeepPlanProvider(g[id])
  BY <1>6, <1>8, ErroredOK
<1>11. /\ Sound(ps)
       /\ \A k \in DOMAIN ps : \E id \in DOMAIN g : ps[k] = g[id]
       /\ \A id \in DOMAIN g : \E k \in DOMAIN ps : ps[k] = g[id]
  <2>1. ps = InOrder(g)
    BY <1>2 DEF g
  <2>2. DOMAIN g \subseteq Catalog
    BY <1>4, <1>6, <1>8
  <2>3. \A id \in DOMAIN g : IsProvider(g[id]) /\ g[id].id = id
    BY <1>8, <1>9, <1>10
  <2> QED
    BY <2>1, <2>2, <2>3, InOrderOK
<1>12. ASSUME NEW id \in Catalog, NEW e \in EntriesOf(env, id), ~e.stale, Windows(e.resources) # {}
       PROVE  Windows(e.resources) \in said[id].current
  <2>1. said[id].current = {Windows(x.resources) : x \in {x \in EntriesOf(env, id) : ~x.stale}} \ {{}}
    BY <1>7
  <2> QED
    BY <1>12, <2>1
<1>13. ASSUME NEW id \in Catalog
       PROVE  /\ said[id].current # {} => \E e \in EntriesOf(env, id) : ~e.stale /\ Windows(e.resources) # {}
              /\ ~said[id].stale => \A e \in EntriesOf(env, id) : ~e.stale
  <2>1. said[id].current = {Windows(x.resources) : x \in {x \in EntriesOf(env, id) : ~x.stale}} \ {{}}
    BY <1>7
  <2>2. said[id].stale <=> \E e \in EntriesOf(env, id) : e.stale
    BY <1>7
  <2> QED
    BY <2>1, <2>2
<1>14. ASSUME NEW k \in DOMAIN ps, ~ps[k].stale, ~ps[k].error
       PROVE  Shown(ps[k].windows) \in said[ps[k].id].current
  <2>1. PICK id \in DOMAIN g : ps[k] = g[id]
    BY <1>11
  <2>2. id \in kept
    BY <1>8, <1>10, <1>14, <2>1
  <2>3. PICK e \in EntriesOf(env, id) : g[id].stale = e.stale /\ g[id].windows = Windows(e.resources)
    BY <1>9, <2>2
  <2>4. g[id].id = id /\ id \in Catalog /\ Shown(g[id].windows) = g[id].windows
    BY <1>4, <1>9, <2>2
  <2>5. g[id].windows # {}
    BY <1>9, <1>14, <2>1, <2>2 DEF KeepPlanProvider
  <2>6. ~e.stale /\ Windows(e.resources) # {}
    BY <1>14, <2>1, <2>3, <2>5
  <2>7. Windows(e.resources) \in said[id].current
    BY <1>12, <2>4, <2>6
  <2> QED
    BY <2>1, <2>3, <2>4, <2>7
<1>15. ASSUME NEW id \in Catalog, said[id].current # {}, ~said[id].stale
       PROVE  \E k \in DOMAIN ps : ps[k].id = id /\ ~ps[k].stale /\ ~ps[k].error
  <2>1. PICK e \in EntriesOf(env, id) : ~e.stale /\ Windows(e.resources) # {}
    BY <1>13, <1>15
  <2>2. id \in kept
    BY <1>3, <1>5, <2>1, CandidatesOK
  <2>3. ~g[id].stale /\ ~g[id].error /\ g[id].id = id
    BY <1>9, <1>13, <1>15, <2>2
  <2>4. PICK k \in DOMAIN ps : ps[k] = g[id]
    BY <1>8, <1>11, <2>2
  <2> QED
    BY <2>3, <2>4
<1>16. \A k \in DOMAIN ps : KeepPlanProvider(ps[k])
  BY <1>8, <1>9, <1>10, <1>11
<1> QED
  BY <1>11, <1>14, <1>15, <1>16 DEF Reflects, said

-----------------------------------------------------------------------------
(* handleGetSnapshot.                                                      *)

\* What is left of a list when some of its entries are left out.
LEMMA SelectedOK ==
    ASSUME NEW ps, Sound(ps), NEW S, S \subseteq DOMAIN ps
    PROVE  LET out == InSequence([i \in S |-> ps[i]], Len(ps))
           IN  /\ \A k \in DOMAIN out : \E i \in S : out[k] = ps[i]
               /\ \A i \in S : \E k \in DOMAIN out : out[k] = ps[i]
               /\ \A k, l \in DOMAIN out : out[k].id = out[l].id => k = l
<1> DEFINE f == [i \in S |-> ps[i]]
           n == Len(ps)
           out == InSequence(f, n)
<1>1. n \in Nat /\ DOMAIN ps = 1..n
  BY SeqOfProviders DEF Sound
<1>2. DOMAIN f = S /\ S \subseteq 1..n /\ \A i \in S : f[i] = ps[i]
  BY <1>1
<1> HIDE DEF f
<1>3. out \in Seq({f[i] : i \in S}) /\ \E at : Places(out, S, f, at)
  <2>1. DOMAIN f \subseteq 1..n
    BY <1>2
  <2>2. InSequence(f, n) \in Seq({f[i] : i \in DOMAIN f}) /\ \E at : Places(InSequence(f, n), DOMAIN f, f, at)
    BY <1>1, <2>1, InSequenceOK
  <2> QED
    BY <1>2, <2>2
<1>4. PICK at : Places(out, S, f, at)
  BY <1>3
<1> HIDE DEF out
<1>5. Len(out) \in Nat /\ DOMAIN out = 1..Len(out)
  BY <1>3, LenProperties
<1>6. /\ \A k \in DOMAIN out : at[k] \in S /\ out[k] = ps[at[k]]
      /\ \A k, l \in DOMAIN out : k < l => at[k] < at[l]
      /\ \A i \in S : \E k \in DOMAIN out : at[k] = i
  BY <1>2, <1>4, <1>5 DEF Places
<1>7. ASSUME NEW k \in DOMAIN out, NEW l \in DOMAIN out, out[k].id = out[l].id
      PROVE  k = l
  <2> DEFINE x == at[k]
             y == at[l]
  <2>1. x \in 1..n /\ y \in 1..n /\ ps[x].id = ps[y].id
    BY <1>2, <1>6, <1>7
  <2> HIDE DEF x, y
  <2>2. x = y /\ x \in Nat
    BY <1>1, <2>1 DEF Sound
  <2> QED
    BY <1>5, <1>6, <2>2 DEF x, y
<1>8. \A i \in S : \E k \in DOMAIN out : out[k] = ps[i]
  <2> TAKE i \in S
  <2>1. PICK k \in DOMAIN out : at[k] = i
    BY <1>6
  <2> QED
    BY <1>6, <2>1
<1>9. \A k \in DOMAIN out : \E i \in S : out[k] = ps[i]
  BY <1>6
<1> QED
  BY <1>7, <1>8, <1>9 DEF out, f

\* What a phone gets, from a snapshot that reflects its basis.
LEMMA ServedOK ==
    ASSUME TypeOK, SnapshotTrue
    PROVE  CurrentWasReported
<1> SUFFICES ASSUME snapshot # None, snapshot.at > 0, NEW hidden \in Hidden
             PROVE  LET served  == Served((poll.at - snapshot.at) * Interval, hidden)
                        current == {i \in DOMAIN served.providers :
                                       /\ ~served.stale
                                       /\ ~served.providers[i].stale /\ ~served.providers[i].error}
                        ids     == {served.providers[i].id : i \in current}
                    IN  /\ \A i, j \in DOMAIN served.providers :
                              served.providers[i].id = served.providers[j].id => i = j
                        /\ \A i \in current :
                              Shown(served.providers[i].windows) \in basis[served.providers[i].id].current
                        /\ {id \in Catalog : basis[id].current # {} /\ ~basis[id].stale}
                               \ {Canonical[id] : id \in hidden} \subseteq
                                   IF served.stale THEN Catalog ELSE ids
                        /\ poll.at - snapshot.at > 2 /\ Interval >= 5 => current = {}
  BY DEF CurrentWasReported
<1> DEFINE age == (poll.at - snapshot.at) * Interval
           fresh == IF 2 * Interval < 10 THEN 10 ELSE 2 * Interval
           stale == snapshot.stale \/ age > fresh
           base  == IF stale THEN ClearForecasts(snapshot.providers) ELSE snapshot.providers
           ps    == Project(base)
           shown == {i \in DOMAIN ps : \A id \in hidden : Canonical[id] # ps[i].id}
           out   == InSequence([i \in shown |-> ps[i]], Len(ps))
<1>1. Served(age, hidden) = [stale |-> stale, providers |-> out]
  BY DEF Served
<1>2. /\ IsProviders(snapshot.providers) /\ snapshot.at \in Nat /\ poll.at \in Nat
      /\ snapshot.stale \in BOOLEAN
  BY CycleAssumption DEF TypeOK, IsSnapshot, IsPoll
<1>3. IsProviders(base)
  BY <1>2, ListForecastsOK
<1>4. ASSUME poll.at - snapshot.at > 2, Interval >= 5
      PROVE  age > fresh
  <2> DEFINE d == poll.at - snapshot.at
  <2>1. d \in Int /\ d > 2 /\ Interval \in {5, 15, 30, 60}
    BY <1>2, <1>4, CycleAssumption
  <2> HIDE DEF d
  <2>2. CASE Interval = 5
    BY <2>1, <2>2 DEF d
  <2>3. CASE Interval = 15
    BY <2>1, <2>3 DEF d
  <2>4. CASE Interval = 30
    BY <2>1, <2>4 DEF d
  <2>5. CASE Interval = 60
    BY <2>1, <2>5 DEF d
  <2> QED
    BY <2>1, <2>2, <2>3, <2>4, <2>5
<1>5. Sound(ps)
  BY <1>3, ProjectOK
<1>6. ~stale => /\ Reflects(snapshot.providers, basis)
                /\ base = snapshot.providers
  BY DEF SnapshotTrue
<1>7. ~stale => /\ \A k \in DOMAIN ps : \E j \in DOMAIN base : ps[k] = base[j]
                /\ \A j \in DOMAIN base : \E k \in DOMAIN ps : ps[k] = base[j]
  BY <1>6, ProjectSame DEF Reflects
<1>8. stale \in BOOLEAN /\ (age > fresh => stale)
  BY <1>2
<1> HIDE DEF age, fresh, stale, base, ps
<1>9. shown \subseteq DOMAIN ps /\ \A i \in DOMAIN ps : ps[i].id \notin {Canonical[id] : id \in hidden} => i \in shown
  OBVIOUS
<1> HIDE DEF shown
<1>10. /\ \A k \in DOMAIN out : \E i \in shown : out[k] = ps[i]
       /\ \A i \in shown : \E k \in DOMAIN out : out[k] = ps[i]
       /\ \A k, l \in DOMAIN out : out[k].id = out[l].id => k = l
  BY <1>5, <1>9, SelectedOK
<1> HIDE DEF out
<1> DEFINE served  == Served(age, hidden)
           current == {i \in DOMAIN served.providers :
                         ~served.stale /\ ~served.providers[i].stale /\ ~served.providers[i].error}
<1>11. served.providers = out /\ (served.stale <=> stale)
  BY <1>1, <1>8
<1> HIDE DEF served
<1>12. ASSUME NEW k \in current
       PROVE  Shown(out[k].windows) \in basis[out[k].id].current
  <2>1. ~stale /\ k \in DOMAIN out /\ ~out[k].stale /\ ~out[k].error
    BY <1>11
  <2>2. PICK i \in DOMAIN ps : out[k] = ps[i]
    BY <1>9, <1>10, <2>1
  <2>3. PICK j \in DOMAIN base : ps[i] = base[j]
    BY <1>7, <2>1
  <2> QED
    BY <1>6, <2>1, <2>2, <2>3 DEF Reflects
<1>13. ASSUME NEW id \in Catalog, basis[id].current # {}, ~basis[id].stale,
              id \notin {Canonical[h] : h \in hidden}, ~stale
       PROVE  \E k \in current : out[k].id = id
  <2>1. PICK j \in DOMAIN base : base[j].id = id /\ ~base[j].stale /\ ~base[j].error
    BY <1>6, <1>13 DEF Reflects
  <2>2. PICK i \in DOMAIN ps : ps[i] = base[j]
    BY <1>7, <1>13
  <2>3. i \in shown
    BY <1>9, <1>13, <2>1, <2>2
  <2>4. PICK k \in DOMAIN out : out[k] = ps[i]
    BY <1>10, <2>3
  <2>5. k \in current
    BY <1>11, <1>13, <2>1, <2>2, <2>4
  <2> QED
    BY <2>1, <2>2, <2>4, <2>5
<1>14. poll.at - snapshot.at > 2 /\ Interval >= 5 => current = {}
  BY <1>4, <1>8, <1>11
<1> HIDE DEF current
<1> DEFINE ids == {out[k].id : k \in current}
<1>15. {id \in Catalog : basis[id].current # {} /\ ~basis[id].stale} \ {Canonical[id] : id \in hidden}
           \subseteq IF stale THEN Catalog ELSE ids
  BY <1>8, <1>13
<1>16. /\ \A i, j \in DOMAIN served.providers : served.providers[i].id = served.providers[j].id => i = j
       /\ \A i \in current : Shown(served.providers[i].windows) \in basis[served.providers[i].id].current
       /\ {id \in Catalog : basis[id].current # {} /\ ~basis[id].stale} \ {Canonical[id] : id \in hidden}
             \subseteq IF served.stale THEN Catalog ELSE {served.providers[i].id : i \in current}
       /\ poll.at - snapshot.at > 2 /\ Interval >= 5 => current = {}
  BY <1>10, <1>11, <1>12, <1>14, <1>15
<1> QED
  BY <1>16 DEF served, current, age

-----------------------------------------------------------------------------
(* The first state, and the statements of a poll up to its outcome.        *)

LEMMA NoPollOK ==
    ASSUME NEW n \in 0..MaxPolls
    PROVE  /\ IsPoll([NoPoll EXCEPT !.at = n])
           /\ [NoPoll EXCEPT !.at = n].at = n
           /\ IsPoll(NoPoll)
<1> DEFINE f == FALSE
           e == <<>>
<1>1. NoPoll = [at |-> 0, body |-> None, draft |-> e, changed |-> f, unread |-> f, success |-> f]
  BY DEF NoPoll
<1>2. f \in BOOLEAN /\ IsProviders(e)
  BY EmptySeq DEF IsProviders
<1> HIDE DEF f, e
<1>3. [NoPoll EXCEPT !.at = n] =
          [at |-> n, body |-> None, draft |-> e, changed |-> f, unread |-> f, success |-> f]
  BY <1>1
<1> DEFINE p == [NoPoll EXCEPT !.at = n]
<1> HIDE DEF p
<1>4. p.at = n /\ IsPoll(p)
  BY <1>2, <1>3 DEF IsPoll, p
<1>5. IsPoll(NoPoll)
  BY <1>1, <1>2, CycleAssumption DEF IsPoll
<1> QED
  BY <1>4, <1>5 DEF p

\* What TypeOK says of the push and of the notifier.
PushTyped ==
    /\ delivery \in {"disabled", "unread", "other"} /\ notifier \in Notifiers
    /\ push \in {"settled", "owed", "dispatch"}

LEMMA InitOK == Init => CycleInv
<1> SUFFICES ASSUME Init
             PROVE  CycleInv
  OBVIOUS
<1>1. /\ runs = <<>> /\ outcomes = <<>> /\ boot = 0 /\ health = FreshHealth
      /\ place = "idle" /\ poll = NoPoll /\ faults = 0 /\ push = "settled" /\ snapshot \in Stored
      /\ delivery = "other" /\ notifier \in Notifiers
  BY DEF Init
<1>2. Len(runs) = 0 /\ Len(outcomes) = 0 /\ DOMAIN runs = {} /\ DOMAIN outcomes = {}
  BY <1>1
<1>3. TypeOK
  <2>1. IsPoll(poll)
    <3>1. 0 \in 0..MaxPolls
      BY CycleAssumption
    <3> QED
      BY <1>1, <3>1, NoPollOK
  <2>2. /\ snapshot # None => IsSnapshot(snapshot)
        /\ OutcomeLimit \in Nat \ {0} /\ faults \in 0..MaxFaults
    BY <1>1, CycleAssumption
  <2>3. outcomes \in Seq(OutcomeRow) /\ runs \in Seq(Run)
    BY <1>1, EmptySeq
  <2>4. Len(outcomes) <= OutcomeLimit /\ boot \in 0..Len(runs)
    BY <1>1, <1>2, <2>2
  <2>5. health \in HealthFields /\ place \in Place /\ PushTyped
    BY <1>1, FreshOK DEF Place, PushTyped
  <2> QED
    BY <2>1, <2>2, <2>3, <2>4, <2>5 DEF TypeOK, PushTyped
<1>4. RunsInOrder /\ OutcomesKept
  BY <1>1, <1>2, CycleAssumption DEF RunsInOrder, OutcomesKept, NoPoll
<1>5. HealthTrue
  <2>1. {runs[i].outcome : i \in Remembered} = {}
    BY <1>2 DEF Remembered
  <2> QED
    BY <1>1, <2>1, FreshOK DEF HealthTrue
<1>6. PushOwed /\ DraftTrue
  BY <1>1 DEF PushOwed, Accounted, DraftTrue
<1>7. SnapshotTrue
  BY <1>1, CycleAssumption DEF SnapshotTrue
<1> QED
  BY <1>3, <1>4, <1>5, <1>6, <1>7 DEF CycleInv

\* Statements between the fetch and the outcome.
Inside == {"fetch", "mark", "normalize", "preserve", "compare", "save", "engine", "dispatch", "outcome"}

LEMMA InsideOK ==
    ASSUME CycleInv, place \in Inside, place' \in Inside, poll'.at = poll.at,
           UNCHANGED <<outcomes, health, runs, boot>>,
           TypeOK', PushOwed', DraftTrue', SnapshotTrue'
    PROVE  CycleInv'
<1>1. RunsInOrder'
  BY DEF CycleInv, RunsInOrder, Inside
<1>2. OutcomesKept'
  BY DEF CycleInv, OutcomesKept, SavedAfter
<1>3. HealthTrue'
  <2>1. Remembered' = Remembered
    BY DEF Remembered, SavedAfter
  <2> QED
    BY <2>1 DEF CycleInv, HealthTrue
<1> QED
  BY <1>1, <1>2, <1>3 DEF CycleInv

\* What a poll has worked out keeps its shape.
LEMMA PollShape ==
    ASSUME IsPoll(poll), NEW b \in BOOLEAN, NEW x, NEW ps, IsProviders(ps)
    PROVE  /\ LET p == [poll EXCEPT !.success = b]
              IN  IsPoll(p) /\ p.at = poll.at /\ p.success = b /\ p.changed = poll.changed
           /\ LET p == [poll EXCEPT !.unread = b]
              IN  /\ IsPoll(p) /\ p.at = poll.at /\ p.unread = b
                  /\ p.body = poll.body /\ p.draft = poll.draft
           /\ LET p == [poll EXCEPT !.changed = b]
              IN  /\ IsPoll(p) /\ p.at = poll.at /\ p.changed = b
                  /\ p.body = poll.body /\ p.draft = poll.draft /\ p.unread = poll.unread
           /\ LET p == [poll EXCEPT !.body = x]
              IN  IsPoll(p) /\ p.at = poll.at /\ p.body = x
           /\ LET p == [poll EXCEPT !.draft = ps]
              IN  /\ IsPoll(p) /\ p.at = poll.at /\ p.draft = ps
                  /\ p.body = poll.body /\ p.unread = poll.unread
<1> DEFINE p == poll
<1>1. p = [at |-> p.at, body |-> p.body, draft |-> p.draft, changed |-> p.changed, unread |-> p.unread,
           success |-> p.success]
  BY DEF IsPoll
<1>2. p.at \in 0..MaxPolls /\ {p.changed, p.unread, p.success} \subseteq BOOLEAN /\ IsProviders(p.draft)
  BY DEF IsPoll
<1>3. [p EXCEPT !.success = b] = [at |-> p.at, body |-> p.body, draft |-> p.draft, changed |-> p.changed,
                                  unread |-> p.unread, success |-> b]
  BY <1>1
<1>4. [p EXCEPT !.unread = b] = [at |-> p.at, body |-> p.body, draft |-> p.draft, changed |-> p.changed,
                                 unread |-> b, success |-> p.success]
  BY <1>1
<1>5. [p EXCEPT !.changed = b] = [at |-> p.at, body |-> p.body, draft |-> p.draft, changed |-> b,
                                  unread |-> p.unread, success |-> p.success]
  BY <1>1
<1>6. [p EXCEPT !.body = x] = [at |-> p.at, body |-> x, draft |-> p.draft, changed |-> p.changed,
                               unread |-> p.unread, success |-> p.success]
  BY <1>1
<1>7. [p EXCEPT !.draft = ps] = [at |-> p.at, body |-> p.body, draft |-> ps, changed |-> p.changed,
                                 unread |-> p.unread, success |-> p.success]
  BY <1>1
<1>8. ASSUME NEW q, NEW body, NEW draft, NEW c \in BOOLEAN, NEW u \in BOOLEAN, NEW s \in BOOLEAN,
             IsProviders(draft),
             q = [at |-> p.at, body |-> body, draft |-> draft, changed |-> c, unread |-> u, success |-> s]
      PROVE  /\ IsPoll(q) /\ q.at = p.at /\ q.body = body /\ q.draft = draft
             /\ q.changed = c /\ q.unread = u /\ q.success = s
  <2> HIDE DEF p
  <2> QED
    BY <1>2, <1>8 DEF IsPoll
<1> HIDE DEF p
<1>9. /\ p.changed \in BOOLEAN /\ p.unread \in BOOLEAN /\ p.success \in BOOLEAN
  BY <1>2
<1>10. LET q == [p EXCEPT !.success = b]
       IN  IsPoll(q) /\ q.at = p.at /\ q.success = b /\ q.changed = p.changed
  BY <1>2, <1>3, <1>8, <1>9
<1>11. LET q == [p EXCEPT !.unread = b]
       IN  IsPoll(q) /\ q.at = p.at /\ q.unread = b /\ q.body = p.body /\ q.draft = p.draft
  BY <1>2, <1>4, <1>8, <1>9
<1>12. LET q == [p EXCEPT !.changed = b]
       IN  /\ IsPoll(q) /\ q.at = p.at /\ q.changed = b /\ q.body = p.body /\ q.draft = p.draft
           /\ q.unread = p.unread
  BY <1>2, <1>5, <1>8, <1>9
<1>13. LET q == [p EXCEPT !.body = x]
       IN  IsPoll(q) /\ q.at = p.at /\ q.body = x
  BY <1>2, <1>6, <1>8, <1>9
<1>14. LET q == [p EXCEPT !.draft = ps]
       IN  IsPoll(q) /\ q.at = p.at /\ q.draft = ps /\ q.body = p.body /\ q.unread = p.unread
  BY <1>2, <1>7, <1>8, <1>9
<1> QED
  BY <1>10, <1>11, <1>12, <1>13, <1>14 DEF p

LEMMA InsideType ==
    ASSUME TypeOK, UNCHANGED <<outcomes, health, runs, boot>>,
           snapshot' # None => IsSnapshot(snapshot'), place' \in Place, IsPoll(poll'),
           faults' \in 0..MaxFaults, PushTyped'
    PROVE  TypeOK'
BY DEF TypeOK, PushTyped

LEMMA FaultOK ==
    ASSUME TypeOK, Fault
    PROVE  faults' \in 0..MaxFaults
BY CycleAssumption DEF TypeOK, Fault

LEMMA RunsTyped ==
    ASSUME TypeOK
    PROVE  /\ Len(runs) \in Nat /\ DOMAIN runs = 1..Len(runs) /\ boot \in 0..Len(runs)
           /\ \A i \in 1..Len(runs) : /\ runs[i] \in Run
                                      /\ runs[i].outcome \in OutcomeRow /\ runs[i].outcome.at \in Nat
                                      /\ runs[i].saved \in BOOLEAN /\ runs[i].heard \in BOOLEAN
<1>1. runs \in Seq(Run) /\ boot \in 0..Len(runs)
  BY DEF TypeOK
<1>2. Len(runs) \in Nat /\ DOMAIN runs = 1..Len(runs) /\ \A i \in 1..Len(runs) : runs[i] \in Run
  BY <1>1, LenProperties
<1>3. \A r \in Run : r.outcome \in OutcomeRow /\ r.saved \in BOOLEAN /\ r.heard \in BOOLEAN
  BY DEF Run
<1>4. \A o \in OutcomeRow : o.at \in Nat
  BY CycleAssumption DEF OutcomeRow
<1> QED
  BY <1>1, <1>2, <1>3, <1>4

\* A snapshot that is left alone stays what it was.
LEMMA SnapshotSame ==
    ASSUME CycleInv, UNCHANGED <<snapshot, basis>>
    PROVE  SnapshotTrue' /\ (snapshot' # None => IsSnapshot(snapshot'))
BY DEF CycleInv, TypeOK, SnapshotTrue

LEMMA FinishOK ==
    ASSUME CycleInv, place \in Inside, NEW b \in BOOLEAN, Finish(b),
           UNCHANGED <<outcomes, health, runs, boot>>, faults' \in 0..MaxFaults,
           snapshot' # None => IsSnapshot(snapshot'), SnapshotTrue', Accounted', PushTyped'
    PROVE  CycleInv'
<1>1. place' = "outcome" /\ poll' = [poll EXCEPT !.success = b]
  BY DEF Finish
<1>2. IsPoll(poll) /\ IsProviders(poll.draft)
  BY DEF CycleInv, TypeOK, IsPoll
<1>3. IsPoll(poll') /\ poll'.at = poll.at
  BY <1>1, <1>2, PollShape
<1>4. TypeOK'
  BY <1>1, <1>3, InsideType DEF CycleInv, Place, PushTyped
<1>5. PushOwed' /\ DraftTrue'
  BY <1>1 DEF PushOwed, Accounted, DraftTrue
<1> QED
  BY <1>1, <1>3, <1>4, <1>5, InsideOK DEF Inside

\* A statement that fails, and ends the poll.
LEMMA FailsOK ==
    ASSUME CycleInv,
           \/ LoadSettingsFails \/ MarkStaleFails \/ SaveFails \/ EngineFails
    PROVE  CycleInv'
<1>1. /\ place \in {"fetch", "mark", "save", "engine"} /\ Fault
      /\ Finish(FALSE) \/ Finish(TRUE)
      /\ UNCHANGED <<outcomes, health, runs, boot, snapshot, basis>>
      /\ UNCHANGED <<delivery, notifier>> /\ IF place = "engine" THEN Lost("settled") ELSE push' = push
  BY DEF LoadSettingsFails, MarkStaleFails, SaveFails, EngineFails, dataVars, process, history
<1>2. Accounted' /\ PushTyped'
  <2>1. /\ PushTyped /\ (push # "owed" => Accounted)
        /\ place # "engine" => push # "owed"
    BY <1>1 DEF CycleInv, PushOwed, TypeOK, PushTyped
  <2>2. CASE place = "engine"
    BY <1>1, <2>1, <2>2 DEF Lost, Accounted, PushTyped
  <2>3. CASE place # "engine"
    BY <1>1, <2>1, <2>3 DEF Accounted, PushTyped
  <2> QED
    BY <2>2, <2>3
<1>3. faults' \in 0..MaxFaults
  BY <1>1, FaultOK DEF CycleInv
<1>4. SnapshotTrue' /\ (snapshot' # None => IsSnapshot(snapshot'))
  BY <1>1, SnapshotSame
<1> QED
  BY <1>1, <1>2, <1>3, <1>4, FinishOK DEF Inside

LEMMA BeginOK == CycleInv /\ Begin => CycleInv'
<1> SUFFICES ASSUME CycleInv, Begin
             PROVE  CycleInv'
  OBVIOUS
<1>1. /\ place = "idle" /\ place' = "fetch" /\ poll.at < MaxPolls
      /\ poll' = [NoPoll EXCEPT !.at = poll.at + 1]
      /\ UNCHANGED <<snapshot, outcomes, health, faults, basis, runs, boot, push, delivery, notifier>>
  BY DEF Begin, dataVars, process, history
<1>2. poll.at \in Nat /\ poll.at + 1 \in 0..MaxPolls
  BY <1>1, CycleAssumption DEF CycleInv, TypeOK, IsPoll
<1>3. IsPoll(poll') /\ poll'.at = poll.at + 1
  BY <1>1, <1>2, NoPollOK
<1>4. TypeOK'
  BY <1>1, <1>3, InsideType DEF CycleInv, TypeOK, Place, PushTyped
<1>5. RunsInOrder'
  <2>1. \A i \in DOMAIN runs : runs[i].outcome.at \in Nat /\ runs[i].outcome.at <= poll.at
    BY RunsTyped DEF CycleInv, RunsInOrder
  <2> QED
    BY <1>1, <1>2, <1>3, <2>1 DEF CycleInv, RunsInOrder
<1>6. OutcomesKept'
  BY <1>1 DEF CycleInv, OutcomesKept, SavedAfter
<1>7. HealthTrue'
  <2>1. Remembered' = Remembered
    BY <1>1 DEF Remembered, SavedAfter
  <2> QED
    BY <1>1, <2>1 DEF CycleInv, HealthTrue
<1>8. PushOwed' /\ DraftTrue'
  BY <1>1 DEF CycleInv, PushOwed, Accounted, DraftTrue
<1>9. SnapshotTrue'
  BY <1>1, SnapshotSame
<1> QED
  BY <1>4, <1>5, <1>6, <1>7, <1>8, <1>9 DEF CycleInv

LEMMA FetchOK == CycleInv /\ Fetch => CycleInv'
<1> SUFFICES ASSUME CycleInv, Fetch
             PROVE  CycleInv'
  OBVIOUS
<1>1. /\ place = "fetch"
      /\ UNCHANGED <<snapshot, outcomes, health, faults, basis, runs, boot, push, delivery, notifier>>
      /\ \E up \in Upstreams :
            \/ place' = "mark" /\ poll' = poll
            \/ \E body \in Fetched(up) : place' = "normalize" /\ poll' = [poll EXCEPT !.body = body]
  BY DEF Fetch, dataVars, process, history
<1>2. IsPoll(poll) /\ IsProviders(poll.draft)
  BY DEF CycleInv, TypeOK, IsPoll
<1>3. Accounted /\ PushTyped /\ faults \in 0..MaxFaults
  BY <1>1 DEF CycleInv, PushOwed, Accounted, TypeOK, PushTyped
<1>4. /\ place' \in {"mark", "normalize"} /\ IsPoll(poll') /\ poll'.at = poll.at
      /\ place' = "normalize" => IsAnswer(poll'.body)
  <2>1. CASE place' = "mark" /\ poll' = poll
    BY <1>2, <2>1
  <2>2. ASSUME NEW up \in Upstreams, NEW body \in Fetched(up), place' = "normalize",
               poll' = [poll EXCEPT !.body = body]
        PROVE  IsPoll(poll') /\ poll'.at = poll.at /\ IsAnswer(poll'.body)
    <3>1. IsAnswer(body)
      BY CycleAssumption
    <3>2. TRUE \in BOOLEAN
      OBVIOUS
    <3>3. IsPoll(poll') /\ poll'.at = poll.at /\ poll'.body = body
      BY <1>2, <2>2, <3>2, PollShape
    <3> QED
      BY <3>1, <3>3
  <2> QED
    BY <1>1, <2>1, <2>2
<1>5. snapshot' # None => IsSnapshot(snapshot')
  BY <1>1, SnapshotSame
<1>6. TypeOK'
  BY <1>1, <1>3, <1>4, <1>5, InsideType DEF CycleInv, Place, PushTyped
<1>7. PushOwed' /\ DraftTrue'
  BY <1>1, <1>3, <1>4 DEF PushOwed, Accounted, DraftTrue
<1>8. SnapshotTrue'
  BY <1>1, SnapshotSame
<1> QED
  BY <1>1, <1>4, <1>6, <1>7, <1>8, InsideOK DEF Inside

LEMMA MarkStaleOK == CycleInv /\ MarkStale => CycleInv'
<1> SUFFICES ASSUME CycleInv, MarkStale
             PROVE  CycleInv'
  OBVIOUS
<1>1. /\ place = "mark" /\ Finish(FALSE)
      /\ snapshot' = IF snapshot = None \/ snapshot.stale THEN snapshot
                     ELSE [snapshot EXCEPT !.stale = TRUE, !.providers = ClearForecasts(snapshot.providers)]
      /\ UNCHANGED <<outcomes, health, faults, runs, boot, push, delivery, notifier>>
  BY DEF MarkStale, process
<1>2. Accounted /\ PushTyped /\ faults \in 0..MaxFaults
  BY <1>1 DEF CycleInv, PushOwed, Accounted, TypeOK, PushTyped
<1>3. (snapshot' # None => IsSnapshot(snapshot')) /\ SnapshotTrue'
  <2>1. CASE snapshot = None \/ snapshot.stale
    BY <1>1, <2>1 DEF CycleInv, TypeOK, SnapshotTrue
  <2>2. CASE ~(snapshot = None \/ snapshot.stale)
    <3> DEFINE s  == snapshot
               ps == ClearForecasts(snapshot.providers)
               t  == TRUE
    <3>1. /\ s = [at |-> s.at, stale |-> s.stale, providers |-> s.providers]
          /\ s.at \in 0..MaxPolls /\ IsProviders(s.providers) /\ t \in BOOLEAN /\ t
      BY <2>2 DEF CycleInv, TypeOK, IsSnapshot
    <3>2. IsProviders(ps)
      BY <3>1, ListForecastsOK
    <3>3. snapshot' = [s EXCEPT !.stale = t, !.providers = ps]
      BY <1>1, <2>2
    <3> HIDE DEF s, ps, t
    <3>4. snapshot' = [at |-> s.at, stale |-> t, providers |-> ps]
      BY <3>1, <3>3
    <3>5. IsSnapshot(snapshot') /\ snapshot'.stale
      BY <3>1, <3>2, <3>4 DEF IsSnapshot
    <3> QED
      BY <3>5 DEF SnapshotTrue
  <2> QED
    BY <2>1, <2>2
<1> QED
  BY <1>1, <1>2, <1>3, FinishOK DEF Inside, Accounted, PushTyped

LEMMA NormalizeOK == CycleInv /\ Normalize => CycleInv'
<1> SUFFICES ASSUME CycleInv, Normalize
             PROVE  CycleInv'
  OBVIOUS
<1>1. /\ place = "normalize"
      /\ UNCHANGED <<snapshot, outcomes, health, faults, basis, runs, boot, push, delivery, notifier>>
  BY DEF Normalize, dataVars, process, history
<1>2. IsPoll(poll) /\ IsProviders(poll.draft) /\ IsAnswer(poll.body)
  BY <1>1 DEF CycleInv, TypeOK, IsPoll, DraftTrue
<1>3. Accounted /\ PushTyped /\ faults \in 0..MaxFaults
  BY <1>1 DEF CycleInv, PushOwed, Accounted, TypeOK, PushTyped
<1>4. SnapshotTrue' /\ (snapshot' # None => IsSnapshot(snapshot'))
  BY <1>1, SnapshotSame
<1>5. CASE Envelope(poll.body) = None
  <2>1. Finish(FALSE) /\ FALSE \in BOOLEAN
    BY <1>5 DEF Normalize
  <2> QED
    BY <1>1, <1>3, <1>4, <2>1, FinishOK DEF Inside, Accounted, PushTyped
<1>6. CASE Envelope(poll.body) # None
  <2>1. PICK ps \in Normalized(Envelope(poll.body)) :
           poll' = [poll EXCEPT !.draft = ps] /\ place' = "preserve"
    BY <1>6 DEF Normalize
  <2>2. Reflects(ps, Reported(poll.body)) /\ \A i \in DOMAIN ps : KeepPlanProvider(ps[i])
    BY <1>2, <1>6, NormalizedOK
  <2>3. IsProviders(ps) /\ TRUE \in BOOLEAN
    BY <2>2 DEF Reflects, Sound
  <2>4. IsPoll(poll') /\ poll'.at = poll.at /\ poll'.draft = ps /\ poll'.body = poll.body
    BY <1>2, <2>1, <2>3, PollShape
  <2>5. TypeOK'
    BY <1>1, <1>3, <1>4, <2>1, <2>4, InsideType DEF CycleInv, Place, PushTyped
  <2>6. PushOwed'
    BY <1>1, <1>3, <2>1 DEF PushOwed, Accounted
  <2>7. DraftTrue'
    BY <2>1, <2>2, <2>4 DEF DraftTrue
  <2> QED
    BY <1>1, <1>4, <2>1, <2>4, <2>5, <2>6, <2>7, InsideOK DEF Inside
<1> QED
  BY <1>5, <1>6

LEMMA PreserveOK == CycleInv /\ Preserve => CycleInv'
<1> SUFFICES ASSUME CycleInv, Preserve
             PROVE  CycleInv'
  OBVIOUS
<1> DEFINE ps == IF snapshot = None THEN poll.draft ELSE Preserved(poll.draft, snapshot.providers)
           said == Reported(poll.body)
<1>1. /\ place = "preserve" /\ place' = "compare"
      /\ poll' = [poll EXCEPT !.draft = ps]
      /\ UNCHANGED <<snapshot, outcomes, health, faults, basis, runs, boot, push, delivery, notifier>>
  BY DEF Preserve, dataVars, process, history
<1>2. /\ IsPoll(poll) /\ Reflects(poll.draft, said)
      /\ \A i \in DOMAIN poll.draft : KeepPlanProvider(poll.draft[i])
      /\ snapshot # None => IsProviders(snapshot.providers)
  BY <1>1 DEF CycleInv, TypeOK, DraftTrue, IsSnapshot
<1>3. Accounted /\ PushTyped /\ faults \in 0..MaxFaults
  BY <1>1 DEF CycleInv, PushOwed, Accounted, TypeOK, PushTyped
<1>4. SnapshotTrue' /\ (snapshot' # None => IsSnapshot(snapshot'))
  BY <1>1, SnapshotSame
<1> HIDE DEF said
<1>5. /\ Reflects(ps, said)
      /\ snapshot # None => \A id \in Catalog : HasWindows(snapshot.providers, id) =>
            HasWindows(ps, id) \/ \E k \in DOMAIN ps :
                ps[k].id = id /\ ps[k].stale /\ ~ps[k].error /\ ps[k].windows = {}
  BY <1>2, PreservedOK
<1> HIDE DEF ps
<1>6. IsProviders(ps) /\ TRUE \in BOOLEAN
  BY <1>5 DEF Reflects, Sound
<1>7. IsPoll(poll') /\ poll'.at = poll.at /\ poll'.draft = ps /\ poll'.body = poll.body
  BY <1>1, <1>2, <1>6, PollShape
<1>8. TypeOK'
  BY <1>1, <1>3, <1>4, <1>7, InsideType DEF CycleInv, Place, PushTyped
<1>9. PushOwed'
  BY <1>1, <1>3 DEF PushOwed, Accounted
<1>10. DraftTrue'
  <2>1. Reflects(poll'.draft, Reported(poll'.body))
    BY <1>5, <1>7 DEF said
  <2>2. snapshot' # None => \A id \in Catalog : HasWindows(snapshot'.providers, id) =>
            HasWindows(poll'.draft, id) \/ Emptied(id)'
    BY <1>1, <1>5, <1>7 DEF Emptied
  <2> QED
    BY <1>1, <2>1, <2>2 DEF DraftTrue
<1> QED
  BY <1>1, <1>4, <1>7, <1>8, <1>9, <1>10, InsideOK DEF Inside

LEMMA PreserveFailsOK == CycleInv /\ PreserveFails => CycleInv'
<1> SUFFICES ASSUME CycleInv, PreserveFails
             PROVE  CycleInv'
  OBVIOUS
<1> DEFINE b == TRUE
<1>1. /\ place = "preserve" /\ place' = "compare" /\ Fault
      /\ poll' = [poll EXCEPT !.unread = b]
      /\ UNCHANGED <<snapshot, outcomes, health, basis, runs, boot, push, delivery, notifier>>
  BY DEF PreserveFails, dataVars, process, history
<1>2. b \in BOOLEAN /\ b
  OBVIOUS
<1> HIDE DEF b
<1>3. IsPoll(poll) /\ Reflects(poll.draft, Reported(poll.body)) /\ IsProviders(poll.draft)
  BY <1>1 DEF CycleInv, TypeOK, DraftTrue, IsPoll
<1>4. Accounted /\ PushTyped /\ faults' \in 0..MaxFaults
  BY <1>1, FaultOK DEF CycleInv, PushOwed, Accounted, TypeOK, PushTyped
<1>5. SnapshotTrue' /\ (snapshot' # None => IsSnapshot(snapshot'))
  BY <1>1, SnapshotSame
<1>6. /\ IsPoll(poll') /\ poll'.at = poll.at /\ poll'.unread
      /\ poll'.draft = poll.draft /\ poll'.body = poll.body
  BY <1>1, <1>2, <1>3, PollShape
<1>7. TypeOK'
  BY <1>1, <1>4, <1>5, <1>6, InsideType DEF CycleInv, Place, PushTyped
<1>8. PushOwed'
  BY <1>1, <1>4 DEF PushOwed, Accounted
<1>9. DraftTrue'
  BY <1>1, <1>3, <1>6 DEF DraftTrue
<1> QED
  BY <1>1, <1>5, <1>6, <1>7, <1>8, <1>9, InsideOK DEF Inside

LEMMA CompareOK == CycleInv /\ (Compare \/ CompareFails) => CycleInv'
<1> SUFFICES ASSUME CycleInv, Compare \/ CompareFails
             PROVE  CycleInv'
  OBVIOUS
<1>1. /\ place = "compare" /\ place' = "save"
      /\ UNCHANGED <<snapshot, outcomes, health, basis, runs, boot, push, delivery, notifier>>
  BY DEF Compare, CompareFails, dataVars, process, history
<1>2. /\ IsPoll(poll) /\ Reflects(poll.draft, Reported(poll.body)) /\ IsProviders(poll.draft)
      /\ snapshot # None /\ ~poll.unread => \A id \in Catalog :
            HasWindows(snapshot.providers, id) => HasWindows(poll.draft, id) \/ Emptied(id)
  BY <1>1 DEF CycleInv, TypeOK, DraftTrue, IsPoll
<1>3. Accounted /\ PushTyped
  BY <1>1 DEF CycleInv, PushOwed, Accounted, TypeOK, PushTyped
<1>4. faults' \in 0..MaxFaults
  <2>1. CASE Compare
    BY <2>1 DEF Compare, CycleInv, TypeOK
  <2>2. CASE CompareFails
    BY <2>2, FaultOK DEF CompareFails, CycleInv
  <2> QED
    BY <2>1, <2>2
<1>5. SnapshotTrue' /\ (snapshot' # None => IsSnapshot(snapshot'))
  BY <1>1, SnapshotSame
<1>6. \E b \in BOOLEAN : /\ poll' = [poll EXCEPT !.changed = b]
                         /\ ~b => snapshot # None /\ snapshot.providers = poll.draft
  <2>1. CASE Compare
    <3> DEFINE b == snapshot = None \/ snapshot.providers # poll.draft
    <3>1. poll' = [poll EXCEPT !.changed = b]
      BY <2>1 DEF Compare
    <3>2. b \in BOOLEAN /\ (~b => snapshot # None /\ snapshot.providers = poll.draft)
      OBVIOUS
    <3> HIDE DEF b
    <3> QED
      BY <3>1, <3>2
  <2>2. CASE CompareFails
    <3> DEFINE b == TRUE
    <3>1. poll' = [poll EXCEPT !.changed = b] /\ b \in BOOLEAN /\ b
      BY <2>2 DEF CompareFails
    <3> HIDE DEF b
    <3> QED
      BY <3>1
  <2> QED
    BY <2>1, <2>2
<1>7. PICK b \in BOOLEAN : /\ poll' = [poll EXCEPT !.changed = b]
                           /\ ~b => snapshot # None /\ snapshot.providers = poll.draft
  BY <1>6
<1>8. /\ IsPoll(poll') /\ poll'.at = poll.at /\ poll'.changed = b
      /\ poll'.draft = poll.draft /\ poll'.body = poll.body /\ poll'.unread = poll.unread
  BY <1>2, <1>7, PollShape
<1>9. TypeOK'
  BY <1>1, <1>3, <1>4, <1>5, <1>8, InsideType DEF CycleInv, Place, PushTyped
<1>10. PushOwed'
  BY <1>1, <1>3, <1>7, <1>8 DEF PushOwed, Accounted
<1>11. DraftTrue'
  <2>1. \A id : Emptied(id)' <=> Emptied(id)
    BY <1>8 DEF Emptied
  <2> QED
    BY <1>1, <1>2, <1>8, <2>1 DEF DraftTrue
<1> QED
  BY <1>1, <1>5, <1>8, <1>9, <1>10, <1>11, InsideOK DEF Inside

LEMMA SaveOK == CycleInv /\ Save => CycleInv'
<1> SUFFICES ASSUME CycleInv, Save
             PROVE  CycleInv'
  OBVIOUS
<1> DEFINE es == Enriched(poll.draft)
           f  == FALSE
<1>1. /\ place = "save" /\ place' = "engine"
      /\ snapshot' = [at |-> poll.at, stale |-> f, providers |-> es]
      /\ basis' = Reported(poll.body)
      /\ push' = IF ClearForecasts(es) # Visible(snapshot) THEN "owed" ELSE push
      /\ UNCHANGED <<outcomes, health, delivery, notifier, poll, faults, runs, boot>>
  BY DEF Save, process
<1>2. /\ IsPoll(poll) /\ poll.at \in 0..MaxPolls /\ IsProviders(poll.draft)
      /\ Reflects(poll.draft, Reported(poll.body)) /\ faults \in 0..MaxFaults
  BY <1>1 DEF CycleInv, TypeOK, IsPoll, DraftTrue
<1>3. IsProviders(es) /\ Reflects(es, Reported(poll.body)) /\ ClearForecasts(es) = ClearForecasts(poll.draft)
  BY <1>2, ListForecastsOK, EnrichedReflects
<1>4. /\ Accounted /\ PushTyped
      /\ ~poll.changed => snapshot # None /\ snapshot.providers = poll.draft
  BY <1>1 DEF CycleInv, PushOwed, Accounted, TypeOK, PushTyped
<1>5. /\ PushTyped' /\ (push' = "owed" => poll.changed)
      /\ push' # "owed" => Accounted'
  <2>1. ~poll.changed => ClearForecasts(es) = Visible(snapshot)
    BY <1>3, <1>4 DEF Visible
  <2> QED
    BY <1>1, <1>4, <2>1 DEF Accounted, PushTyped
<1>6. f \in BOOLEAN
  OBVIOUS
<1> HIDE DEF es, f
<1>7. IsSnapshot(snapshot') /\ snapshot'.providers = es
  BY <1>1, <1>2, <1>3, <1>6 DEF IsSnapshot
<1>8. TypeOK'
  BY <1>1, <1>2, <1>5, <1>7, InsideType DEF CycleInv, Place, PushTyped
<1>9. PushOwed' /\ DraftTrue'
  BY <1>1, <1>5 DEF PushOwed, Accounted, DraftTrue
<1>10. SnapshotTrue'
  BY <1>1, <1>3, <1>7 DEF SnapshotTrue
<1> QED
  BY <1>1, <1>8, <1>9, <1>10, InsideOK DEF Inside

LEMMA EngineOK == CycleInv /\ Engine => CycleInv'
<1> SUFFICES ASSUME CycleInv, Engine
             PROVE  CycleInv'
  OBVIOUS
<1>1. /\ place = "engine" /\ place' = "dispatch"
      /\ UNCHANGED <<snapshot, outcomes, health, poll, faults, basis, runs, boot, push, delivery, notifier>>
  BY DEF Engine, dataVars, process, history
<1>2. SnapshotTrue' /\ (snapshot' # None => IsSnapshot(snapshot'))
  BY <1>1, SnapshotSame
<1>3. /\ IsPoll(poll) /\ faults \in 0..MaxFaults /\ PushTyped
      /\ push = "owed" => poll.changed
      /\ push # "owed" => Accounted
  BY <1>1 DEF CycleInv, TypeOK, PushOwed, Accounted, PushTyped
<1>4. TypeOK'
  BY <1>1, <1>2, <1>3, InsideType DEF CycleInv, Place, PushTyped
<1>5. PushOwed' /\ DraftTrue'
  BY <1>1, <1>3 DEF PushOwed, Accounted, DraftTrue
<1> QED
  BY <1>1, <1>2, <1>4, <1>5, InsideOK DEF Inside

LEMMA DispatchOK == CycleInv /\ (Dispatch \/ DispatchEnds) => CycleInv'
<1> SUFFICES ASSUME CycleInv, Dispatch \/ DispatchEnds
             PROVE  CycleInv'
  OBVIOUS
<1>1. /\ place = "dispatch" /\ Finish(TRUE)
      /\ UNCHANGED <<snapshot, outcomes, health, basis, runs, boot, notifier>>
      /\ faults' = faults \/ Fault
      /\ \/ RecordWidgetDelivery("other") /\ push' = IF poll.changed THEN "settled" ELSE push
         \/ /\ RecordWidgetDelivery("disabled") \/ RecordWidgetDelivery("unread")
            /\ Lost("dispatch")
  BY DEF Dispatch, DispatchEnds, dataVars
<1>2. /\ PushTyped /\ (push = "owed" => poll.changed) /\ (push # "owed" => Accounted)
      /\ poll.changed \in BOOLEAN /\ faults \in 0..MaxFaults
  BY <1>1 DEF CycleInv, PushOwed, TypeOK, IsPoll, PushTyped
\* Recorded or not, what was lost before stays accounted for.
<1>3. Accounted' /\ PushTyped'
  <2>1. CASE poll.changed
    BY <1>1, <1>2, <2>1 DEF RecordWidgetDelivery, Lost, Accounted, PushTyped
  <2>2. CASE ~poll.changed
    BY <1>1, <1>2, <2>2 DEF RecordWidgetDelivery, Lost, Accounted, PushTyped
  <2> QED
    BY <2>1, <2>2
<1>4. faults' \in 0..MaxFaults
  BY <1>1, <1>2, FaultOK DEF CycleInv
<1>5. SnapshotTrue' /\ (snapshot' # None => IsSnapshot(snapshot'))
  BY <1>1, SnapshotSame
<1> QED
  BY <1>1, <1>3, <1>4, <1>5, FinishOK DEF Inside

-----------------------------------------------------------------------------
(* The outcome, its record, and the start of the process.                  *)

LEMMA OutcomeOK ==
    ASSUME CycleInv, place \in {"outcome", "record"}
    PROVE  Outcome \in OutcomeRow /\ Outcome.at = poll.at /\ poll.at \in Nat
<1> DEFINE c == poll.success /\ poll.changed
           s == poll.success
<1>1. poll.at \in 1..MaxPolls /\ poll.at \in Nat
  BY CycleAssumption DEF CycleInv, TypeOK, IsPoll, RunsInOrder
<1>2. s \in BOOLEAN /\ c \in BOOLEAN
  BY DEF CycleInv, TypeOK, IsPoll
<1>3. Outcome = [at |-> poll.at, success |-> s, changed |-> c]
  BY DEF Outcome
<1> HIDE DEF s, c
<1> QED
  BY <1>1, <1>2, <1>3 DEF OutcomeRow

\* The outcomes saved after one of them are finitely many.
LEMMA SavedAfterFinite ==
    ASSUME TypeOK, NEW i \in 1..Len(runs), NEW n \in 0..Len(runs)
    PROVE  IsFiniteSet(SavedAfter(i, n)) /\ Cardinality(SavedAfter(i, n)) \in Nat
<1>1. Len(runs) \in Nat
  BY RunsTyped
<1>2. i + 1 \in Int /\ n \in Int /\ SavedAfter(i, n) \subseteq i + 1..n
  BY <1>1 DEF SavedAfter
<1>3. IsFiniteSet(i + 1..n)
  BY <1>2, FS_Interval
<1>4. IsFiniteSet(SavedAfter(i, n))
  BY <1>2, <1>3, FS_Subset
<1> QED
  BY <1>4, FS_CardinalityType

\* What a poll that came to an end adds to the polls before it.
LEMMA RunAdded ==
    ASSUME CycleInv, place = "outcome", NEW s \in BOOLEAN,
           runs' = Append(runs, [outcome |-> Outcome, saved |-> s, heard |-> FALSE]),
           place' = "record", poll' = poll, health' = health, boot' = boot
    PROVE  /\ runs' \in Seq(Run) /\ boot' \in 0..Len(runs')
           /\ Len(runs') = Len(runs) + 1 /\ DOMAIN runs' = 1..Len(runs) + 1
           /\ \A i \in 1..Len(runs) : runs'[i] = runs[i]
           /\ runs'[Len(runs) + 1].outcome = Outcome /\ runs'[Len(runs) + 1].saved = s
           /\ ~runs'[Len(runs) + 1].heard
           /\ \A i \in 1..Len(runs) : \A n \in 0..Len(runs) : SavedAfter(i, n)' = SavedAfter(i, n)
           /\ RunsInOrder' /\ HealthTrue'
<1> DEFINE f == FALSE
           r == [outcome |-> Outcome, saved |-> s, heard |-> f]
<1>0. PICK m \in Nat : m = Len(runs)
  BY RunsTyped DEF CycleInv
<1>1. /\ m \in Nat /\ DOMAIN runs = 1..m /\ boot \in 0..m
      /\ \A i \in 1..m : /\ runs[i].outcome \in OutcomeRow /\ runs[i].outcome.at \in Nat
                         /\ runs[i].saved \in BOOLEAN /\ runs[i].heard \in BOOLEAN
  BY <1>0, RunsTyped DEF CycleInv
<1>2. Outcome \in OutcomeRow /\ Outcome.at = poll.at /\ poll.at \in Nat
  BY OutcomeOK
<1>3. f \in BOOLEAN /\ ~f
  OBVIOUS
<1>4. runs' = Append(runs, r)
  OBVIOUS
<1> HIDE DEF f
<1>5. r \in Run /\ r.outcome = Outcome /\ r.saved = s /\ ~r.heard
  BY <1>2, <1>3 DEF Run
<1> HIDE DEF r
<1>6. runs \in Seq(Run)
  BY DEF CycleInv, TypeOK
<1>7. /\ runs' \in Seq(Run) /\ Len(runs') = m + 1
      /\ \A i \in 1..m : runs'[i] = runs[i]
      /\ runs'[m + 1] = r
  BY <1>0, <1>4, <1>5, <1>6, AppendProperties
<1>8. DOMAIN runs' = 1..m + 1
  BY <1>7, LenProperties
<1>9. \A i \in 1..m : \A n \in 0..m : SavedAfter(i, n)' = SavedAfter(i, n)
  BY <1>1, <1>7 DEF SavedAfter
<1>10. RunsInOrder'
  <2>1. \A i \in 1..m : runs[i].outcome.at < poll.at
    BY <1>1 DEF CycleInv, RunsInOrder
  <2>2. \A i, j \in 1..m : i < j => runs[i].outcome.at < runs[j].outcome.at
    BY <1>1 DEF CycleInv, RunsInOrder
  <2>3. poll.at > 0
    BY DEF CycleInv, RunsInOrder
  <2>4. Outcome' = Outcome
    BY DEF Outcome
  <2>5. ASSUME NEW i \in 1..m + 1, NEW j \in 1..m + 1, i < j
        PROVE  runs'[i].outcome.at < runs'[j].outcome.at
    <3>1. i \in 1..m /\ (j \in 1..m \/ j = m + 1)
      BY <1>1, <2>5
    <3> QED
      BY <1>2, <1>5, <1>7, <2>1, <2>2, <2>5, <3>1
  <2>6. ASSUME NEW i \in 1..m + 1
        PROVE  runs'[i].outcome.at <= poll'.at
    <3>1. i \in 1..m \/ i = m + 1
      BY <1>1
    <3> QED
      BY <1>1, <1>2, <1>5, <1>7, <2>1, <3>1
  <2>7. Len(runs') > boot' /\ runs'[Len(runs')].outcome = Outcome' /\ ~runs'[Len(runs')].heard
    BY <1>1, <1>5, <1>7, <2>4
  <2> QED
    BY <1>8, <2>3, <2>5, <2>6, <2>7 DEF RunsInOrder
<1>11. HealthTrue'
  <2>1. Remembered' = Remembered
    <3>1. \A i \in 1..m : SavedAfter(i, boot)' = SavedAfter(i, boot)
      BY <1>1, <1>9
    <3>2. \A i \in 1..m : i \in Remembered' <=> i \in Remembered
      BY <1>1, <1>7, <1>8, <3>1 DEF Remembered
    <3>3. m + 1 \notin Remembered'
      BY <1>1, <1>5, <1>7, <1>8 DEF Remembered
    <3>4. Remembered \subseteq 1..m /\ Remembered' \subseteq 1..m + 1
      BY <1>1, <1>8 DEF Remembered
    <3>5. 1..m + 1 = (1..m) \cup {m + 1}
      BY <1>1
    <3>6. \A i : i \in Remembered' <=> i \in Remembered
      BY <3>2, <3>3, <3>4, <3>5
    <3> QED
      BY <3>6
  <2>2. {runs'[i].outcome : i \in Remembered} = {runs[i].outcome : i \in Remembered}
    <3>1. Remembered \subseteq 1..m
      BY <1>1 DEF Remembered
    <3> QED
      BY <1>7, <3>1
  <2> QED
    BY <2>1, <2>2 DEF CycleInv, HealthTrue
<1>12. boot' \in 0..Len(runs')
  BY <1>1, <1>7
<1> QED
  BY <1>0, <1>5, <1>7, <1>8, <1>9, <1>10, <1>11, <1>12

\* The rest of the invariant does not look at what a poll that is over did.
LEMMA OverOK ==
    ASSUME CycleInv, place \in {"outcome", "record"}, place' \in {"record", "idle"},
           UNCHANGED <<snapshot, basis, push, delivery, notifier>>
    PROVE  PushOwed' /\ DraftTrue' /\ SnapshotTrue' /\ PushTyped'
           /\ (snapshot' # None => IsSnapshot(snapshot'))
<1>1. Accounted /\ PushTyped
  BY DEF CycleInv, PushOwed, Accounted, TypeOK, PushTyped
<1> QED
  BY <1>1, SnapshotSame DEF PushOwed, Accounted, DraftTrue, PushTyped

LEMMA SaveOutcomeFailsOK == CycleInv /\ SaveOutcomeFails => CycleInv'
<1> SUFFICES ASSUME CycleInv, SaveOutcomeFails
             PROVE  CycleInv'
  OBVIOUS
<1> DEFINE s == FALSE
<1>0. PICK m \in Nat : m = Len(runs)
  BY RunsTyped DEF CycleInv
<1>1. /\ place = "outcome" /\ place' = "record" /\ Fault
      /\ runs' = Append(runs, [outcome |-> Outcome, saved |-> s, heard |-> FALSE])
      /\ UNCHANGED <<snapshot, outcomes, health, poll, basis, boot, push, delivery, notifier>>
  BY DEF SaveOutcomeFails, dataVars, process
<1>2. s \in BOOLEAN /\ ~s
  OBVIOUS
<1> HIDE DEF s
<1>3. /\ runs' \in Seq(Run) /\ boot' \in 0..Len(runs') /\ Len(runs') = m + 1 /\ DOMAIN runs' = 1..m + 1
      /\ \A i \in 1..m : runs'[i] = runs[i]
      /\ ~runs'[m + 1].saved
      /\ \A i \in 1..m : \A n \in 0..m : SavedAfter(i, n)' = SavedAfter(i, n)
      /\ RunsInOrder' /\ HealthTrue'
  BY <1>0, <1>1, <1>2, RunAdded
<1>4. m \in Nat /\ DOMAIN runs = 1..m
  BY <1>0, RunsTyped DEF CycleInv
<1>5. /\ PushOwed' /\ DraftTrue' /\ SnapshotTrue' /\ PushTyped'
      /\ (snapshot' # None => IsSnapshot(snapshot'))
  BY <1>1, OverOK
<1>6. TypeOK'
  <2>1. faults' \in 0..MaxFaults
    BY <1>1, FaultOK DEF CycleInv
  <2> QED
    BY <1>1, <1>3, <1>5, <2>1 DEF CycleInv, TypeOK, Place
<1>7. OutcomesKept'
  <2>1. \A i \in 1..m : SavedAfter(i, m + 1)' = SavedAfter(i, m)
    <3> TAKE i \in 1..m
    <3>1. SavedAfter(i, m)' = SavedAfter(i, m)
      BY <1>3, <1>4
    <3>2. \A j : j \in i + 1..m + 1 /\ runs'[j].saved <=> j \in i + 1..m /\ runs'[j].saved
      <4>1. i + 1..m + 1 = (i + 1..m) \cup {m + 1}
        BY <1>4
      <4> QED
        BY <1>3, <4>1
    <3>3. {j \in i + 1..m + 1 : runs'[j].saved} = {j \in i + 1..m : runs'[j].saved}
      BY <3>2
    <3> QED
      BY <3>1, <3>3 DEF SavedAfter
  <2>2. \A i \in 1..m : Cardinality(SavedAfter(i, Len(runs)))' = Cardinality(SavedAfter(i, Len(runs)))
    BY <1>0, <1>3, <2>1
  <2>3. \A n \in DOMAIN outcomes' : \E i \in DOMAIN runs' :
           /\ runs'[i].saved /\ outcomes'[n] = runs'[i].outcome
           /\ Cardinality(SavedAfter(i, Len(runs)))' = Len(outcomes') - n
    BY <1>1, <1>3, <1>4, <2>2 DEF CycleInv, OutcomesKept
  <2>4. ASSUME NEW i \in DOMAIN runs', runs'[i].saved, Cardinality(SavedAfter(i, Len(runs)))' < OutcomeLimit
        PROVE  \E n \in DOMAIN outcomes' : outcomes'[n] = runs'[i].outcome
    <3>1. i \in 1..m
      BY <1>3, <1>4, <2>4
    <3> QED
      BY <1>1, <1>3, <1>4, <2>2, <2>4, <3>1 DEF CycleInv, OutcomesKept
  <2> QED
    BY <1>1, <2>3, <2>4 DEF CycleInv, OutcomesKept
<1> QED
  BY <1>3, <1>5, <1>6, <1>7 DEF CycleInv

\* The rows after an outcome was saved: the first is dropped when there are
\* too many.
LEMMA PrunedOK ==
    ASSUME NEW rows \in Seq(OutcomeRow), Len(rows) <= OutcomeLimit, NEW r \in OutcomeRow
    PROVE  \E d \in {0, 1} :
              /\ d = 1 <=> Len(rows) = OutcomeLimit
              /\ LET kept == Pruned(Append(rows, r))
                 IN  /\ kept \in Seq(OutcomeRow) /\ Len(kept) = Len(rows) + 1 - d
                     /\ Len(kept) <= OutcomeLimit
                     /\ \A k \in 1..Len(kept) :
                           kept[k] = IF k + d = Len(rows) + 1 THEN r ELSE rows[k + d]
<1>1. PICK n \in Nat : n = Len(rows)
  BY LenProperties
<1>2. OutcomeLimit \in Nat \ {0}
  BY CycleAssumption
<1> DEFINE all == Append(rows, r)
           kept == Pruned(all)
<1>3. /\ all \in Seq(OutcomeRow) /\ Len(all) = n + 1
      /\ \A k \in 1..n + 1 : all[k] = IF k = n + 1 THEN r ELSE rows[k]
  BY <1>1, AppendProperties
<1> HIDE DEF all
<1>4. CASE n < OutcomeLimit
  <2>1. kept = all
    BY <1>2, <1>3, <1>4 DEF Pruned
  <2> HIDE DEF kept
  <2>2. /\ ~(Len(rows) = OutcomeLimit)
        /\ kept \in Seq(OutcomeRow) /\ Len(kept) = Len(rows) + 1 - 0 /\ Len(kept) <= OutcomeLimit
        /\ \A k \in 1..Len(kept) : kept[k] = IF k + 0 = Len(rows) + 1 THEN r ELSE rows[k + 0]
    BY <1>1, <1>2, <1>3, <1>4, <2>1
  <2> QED
    BY <2>2 DEF kept, all
<1>5. CASE n = OutcomeLimit
  <2>1. kept = SubSeq(all, 2, n + 1)
    BY <1>2, <1>3, <1>5 DEF Pruned
  <2> HIDE DEF kept
  <2>2. /\ kept \in Seq(OutcomeRow) /\ Len(kept) = n
        /\ \A k \in 1..n : kept[k] = all[k + 1]
    <3>1. 2 \in 1..n + 1 /\ n + 1 \in 1..n + 1 /\ 2 - 1 = 1
      BY <1>2, <1>5
    <3>2. \A k \in 2..n + 1 : all[k] \in OutcomeRow
      BY <1>3, LenProperties
    <3>3. kept = [k \in 1..n |-> all[k + 1]]
      BY <2>1
    <3>4. \A k \in 1..n : all[k + 1] \in OutcomeRow
      BY <3>2
    <3> QED
      BY <3>3, <3>4
  <2>3. /\ Len(rows) = OutcomeLimit
        /\ kept \in Seq(OutcomeRow) /\ Len(kept) = Len(rows) + 1 - 1 /\ Len(kept) <= OutcomeLimit
        /\ \A k \in 1..Len(kept) : kept[k] = IF k + 1 = Len(rows) + 1 THEN r ELSE rows[k + 1]
    BY <1>1, <1>2, <1>3, <1>5, <2>2
  <2> QED
    BY <2>3 DEF kept, all
<1> QED
  BY <1>1, <1>2, <1>4, <1>5

LEMMA SaveOutcomeOK == CycleInv /\ SaveOutcome => CycleInv'
<1> SUFFICES ASSUME CycleInv, SaveOutcome
             PROVE  CycleInv'
  OBVIOUS
<1> DEFINE s == TRUE
           r == Outcome
<1>0. PICK m \in Nat : m = Len(runs)
  BY RunsTyped DEF CycleInv
<1>1. /\ place = "outcome" /\ place' = "record"
      /\ outcomes' = Pruned(Append(outcomes, r))
      /\ runs' = Append(runs, [outcome |-> Outcome, saved |-> s, heard |-> FALSE])
      /\ UNCHANGED <<snapshot, health, poll, faults, basis, boot, push, delivery, notifier>>
  BY DEF SaveOutcome, process
<1>2. s \in BOOLEAN /\ s
  OBVIOUS
<1> HIDE DEF s
<1>3. /\ runs' \in Seq(Run) /\ boot' \in 0..Len(runs') /\ Len(runs') = m + 1 /\ DOMAIN runs' = 1..m + 1
      /\ \A i \in 1..m : runs'[i] = runs[i]
      /\ runs'[m + 1].outcome = r /\ runs'[m + 1].saved
      /\ \A i \in 1..m : \A n \in 0..m : SavedAfter(i, n)' = SavedAfter(i, n)
      /\ RunsInOrder' /\ HealthTrue'
  BY <1>0, <1>1, <1>2, RunAdded
<1>4. /\ m \in Nat /\ DOMAIN runs = 1..m
      /\ \A i \in 1..m : runs[i].outcome.at \in Nat
  BY <1>0, RunsTyped DEF CycleInv
<1>5. /\ PushOwed' /\ DraftTrue' /\ SnapshotTrue' /\ PushTyped'
      /\ (snapshot' # None => IsSnapshot(snapshot'))
  BY <1>1, OverOK
<1>6. /\ r \in OutcomeRow /\ r.at = poll.at /\ poll.at \in Nat
      /\ outcomes \in Seq(OutcomeRow) /\ Len(outcomes) <= OutcomeLimit
  BY <1>1, OutcomeOK DEF CycleInv, TypeOK
<1> HIDE DEF r
<1>7. PICK n \in Nat : n = Len(outcomes) /\ DOMAIN outcomes = 1..n /\ n <= OutcomeLimit
  BY <1>6, LenProperties
<1>8. PICK d \in {0, 1} :
         /\ d = 1 <=> n = OutcomeLimit
         /\ outcomes' \in Seq(OutcomeRow) /\ Len(outcomes') = n + 1 - d /\ Len(outcomes') <= OutcomeLimit
         /\ \A k \in 1..Len(outcomes') : outcomes'[k] = IF k + d = n + 1 THEN r ELSE outcomes[k + d]
  BY <1>1, <1>6, <1>7, PrunedOK
<1>9. DOMAIN outcomes' = 1..n + 1 - d
  BY <1>8, LenProperties
<1>10. TypeOK'
  BY <1>1, <1>3, <1>5, <1>8 DEF CycleInv, TypeOK, Place
\* One more of the saved outcomes is later.
<1>11. /\ \A i \in 1..m : /\ Cardinality(SavedAfter(i, m)) \in Nat
                          /\ Cardinality(SavedAfter(i, Len(runs)))' = Cardinality(SavedAfter(i, m)) + 1
       /\ Cardinality(SavedAfter(m + 1, Len(runs)))' = 0
  <2>1. ASSUME NEW i \in 1..m
        PROVE  SavedAfter(i, m + 1)' = SavedAfter(i, m) \cup {m + 1}
    <3>1. SavedAfter(i, m)' = SavedAfter(i, m)
      BY <1>3, <1>4
    <3>2. i + 1..m + 1 = (i + 1..m) \cup {m + 1}
      BY <1>4
    <3>3. {j \in i + 1..m + 1 : runs'[j].saved} = {j \in i + 1..m : runs'[j].saved} \cup {m + 1}
      BY <1>3, <3>2
    <3> QED
      BY <3>1, <3>3 DEF SavedAfter
  <2>2. ASSUME NEW i \in 1..m
        PROVE  /\ Cardinality(SavedAfter(i, m)) \in Nat
               /\ Cardinality(SavedAfter(i, m + 1)') = Cardinality(SavedAfter(i, m)) + 1
    <3> DEFINE S == SavedAfter(i, m)
    <3>1. IsFiniteSet(S) /\ Cardinality(S) \in Nat
      BY <1>0, SavedAfterFinite DEF CycleInv
    <3>2. m + 1 \notin S
      BY <1>4 DEF SavedAfter
    <3>3. SavedAfter(i, m + 1)' = S \cup {m + 1}
      BY <2>1
    <3> HIDE DEF S
    <3>4. Cardinality(S \cup {m + 1}) = Cardinality(S) + 1
      BY <3>1, <3>2, FS_AddElement
    <3> QED
      BY <3>1, <3>3, <3>4 DEF S
  <2>3. SavedAfter(m + 1, m + 1)' = {}
    BY <1>4 DEF SavedAfter
  <2>4. \A i : SavedAfter(i, Len(runs))' = SavedAfter(i, m + 1)'
    BY <1>3 DEF SavedAfter
  <2> QED
    BY <2>2, <2>3, <2>4, FS_EmptySet
<1>12. OutcomesKept'
  <2>1. \A k, l \in 1..n : k < l => outcomes[k].at < outcomes[l].at
    BY <1>7 DEF CycleInv, OutcomesKept
  <2>2. \A k \in 1..n : \E i \in 1..m : /\ runs[i].saved /\ outcomes[k] = runs[i].outcome
                                        /\ Cardinality(SavedAfter(i, m)) = n - k
    BY <1>0, <1>4, <1>7 DEF CycleInv, OutcomesKept
  <2>3. \A i \in 1..m : runs[i].saved /\ Cardinality(SavedAfter(i, m)) < OutcomeLimit =>
            \E k \in 1..n : outcomes[k] = runs[i].outcome
    BY <1>0, <1>4, <1>7 DEF CycleInv, OutcomesKept
  <2>4. \A i \in 1..m : runs[i].outcome.at < poll.at
    BY <1>1, <1>4 DEF CycleInv, RunsInOrder
  <2>5. \A i, j \in 1..m : i < j => runs[i].outcome.at < runs[j].outcome.at
    BY <1>4 DEF CycleInv, RunsInOrder
  <2>6. \A k \in 1..n : outcomes[k].at < poll.at
    BY <2>2, <2>4
  <2>7. ASSUME NEW k \in 1..n + 1 - d
        PROVE  \/ k + d = n + 1 /\ outcomes'[k] = r
               \/ k + d \in 1..n /\ outcomes'[k] = outcomes[k + d]
    BY <1>7, <1>8
  <2>8. ASSUME NEW k \in 1..n + 1 - d, NEW l \in 1..n + 1 - d, k < l
        PROVE  outcomes'[k].at < outcomes'[l].at
    <3>1. k + d \in 1..n /\ outcomes'[k] = outcomes[k + d] /\ k + d < l + d
      BY <1>7, <1>8, <2>7, <2>8
    <3> QED
      BY <1>6, <2>1, <2>6, <2>7, <3>1
  <2>9. ASSUME NEW k \in 1..n + 1 - d
        PROVE  \E i \in DOMAIN runs' : /\ runs'[i].saved /\ outcomes'[k] = runs'[i].outcome
                                       /\ Cardinality(SavedAfter(i, Len(runs)))' = Len(outcomes') - k
    <3>1. CASE k + d = n + 1 /\ outcomes'[k] = r
      <4>1. m + 1 \in DOMAIN runs' /\ Len(outcomes') - k = 0
        BY <1>3, <1>4, <1>8, <3>1
      <4> QED
        BY <1>3, <1>11, <3>1, <4>1
    <3>2. CASE k + d \in 1..n /\ outcomes'[k] = outcomes[k + d]
      <4>1. PICK i \in 1..m : /\ runs[i].saved /\ outcomes[k + d] = runs[i].outcome
                              /\ Cardinality(SavedAfter(i, m)) = n - (k + d)
        BY <2>2, <3>2
      <4>2. Cardinality(SavedAfter(i, Len(runs)))' = n - (k + d) + 1 /\ n - (k + d) + 1 = Len(outcomes') - k
        BY <1>8, <1>11, <4>1
      <4>3. i \in DOMAIN runs' /\ runs'[i] = runs[i]
        BY <1>3, <1>4
      <4> QED
        BY <3>2, <4>1, <4>2, <4>3
    <3> QED
      BY <2>7, <3>1, <3>2
  <2>10. ASSUME NEW i \in DOMAIN runs', runs'[i].saved,
                Cardinality(SavedAfter(i, Len(runs)))' < OutcomeLimit
         PROVE  \E k \in 1..n + 1 - d : outcomes'[k] = runs'[i].outcome
    <3>1. CASE i = m + 1
      <4>1. n + 1 - d \in 1..n + 1 - d /\ (n + 1 - d) + d = n + 1
        BY <1>6, <1>7, <1>8, CycleAssumption
      <4> QED
        BY <1>3, <1>8, <1>9, <3>1, <4>1
    <3>2. CASE i \in 1..m
      <4>1. runs'[i] = runs[i] /\ Cardinality(SavedAfter(i, m)) + 1 < OutcomeLimit
            /\ Cardinality(SavedAfter(i, m)) \in Nat
        BY <1>3, <1>11, <2>10, <3>2
      <4>2. PICK k \in 1..n : outcomes[k] = runs[i].outcome
        BY <2>3, <2>10, <3>2, <4>1, CycleAssumption
      <4>3. PICK j \in 1..m : outcomes[k] = runs[j].outcome /\ Cardinality(SavedAfter(j, m)) = n - k
        BY <2>2
      <4>4. i = j
        <5>0. runs[i].outcome.at = runs[j].outcome.at /\ runs[i].outcome.at \in Nat
          BY <1>4, <3>2, <4>2, <4>3
        <5>1. ~(i < j) /\ ~(j < i)
          BY <2>5, <3>2, <5>0
        <5> QED
          BY <1>4, <3>2, <5>1
      <4>5. k - d \in 1..n + 1 - d /\ (k - d) + d = k /\ k # n + 1
        BY <1>8, <4>1, <4>3, <4>4, CycleAssumption
      <4>6. outcomes'[k - d] = outcomes[k]
        BY <1>8, <4>5
      <4> QED
        BY <4>1, <4>2, <4>5, <4>6
    <3> QED
      BY <1>3, <1>4, <3>1, <3>2
  <2> QED
    BY <1>8, <1>9, <2>8, <2>9, <2>10 DEF OutcomesKept
<1> QED
  BY <1>3, <1>5, <1>10, <1>12 DEF CycleInv

LEMMA RecordStepOK == CycleInv /\ Record => CycleInv'
<1> SUFFICES ASSUME CycleInv, Record
             PROVE  CycleInv'
  OBVIOUS
<1> DEFINE t == TRUE
           r == Outcome
<1>0. PICK m \in Nat : m = Len(runs)
  BY RunsTyped DEF CycleInv
<1>1. /\ place = "record" /\ place' = "idle"
      /\ health' = RecordPollOutcome(health, r)
      /\ runs' = [runs EXCEPT ![m] = [outcome |-> r, saved |-> runs[m].saved, heard |-> t]]
      /\ poll' = [NoPoll EXCEPT !.at = poll.at]
      /\ UNCHANGED <<snapshot, outcomes, faults, basis, boot, push, delivery, notifier>>
  BY <1>0 DEF Record, dataVars, process
<1>2. t \in BOOLEAN /\ t
  OBVIOUS
<1>3. r \in OutcomeRow /\ r.at = poll.at /\ poll.at \in Nat /\ poll.at \in 0..MaxPolls
  BY <1>1, OutcomeOK DEF CycleInv, TypeOK, IsPoll
<1>4. m > boot /\ runs[m].outcome = r /\ ~runs[m].heard
  BY <1>0, <1>1 DEF CycleInv, RunsInOrder
<1> HIDE DEF t, r
<1>5. /\ DOMAIN runs = 1..m /\ boot \in 0..m /\ m \in 1..m /\ runs \in Seq(Run)
      /\ \A i \in 1..m : /\ runs[i] \in Run
                         /\ runs[i].outcome \in OutcomeRow /\ runs[i].outcome.at \in Nat
                         /\ runs[i].saved \in BOOLEAN /\ runs[i].heard \in BOOLEAN
  BY <1>0, <1>4, RunsTyped DEF CycleInv, TypeOK
<1>6. IsPoll(poll') /\ poll'.at = poll.at
  BY <1>1, <1>3, NoPollOK
<1> DEFINE x == [outcome |-> r, saved |-> runs[m].saved, heard |-> t]
<1>7. x \in Run /\ x.outcome = r /\ x.saved = runs[m].saved /\ x.heard
  BY <1>2, <1>3, <1>5 DEF Run
<1>8. runs' = [runs EXCEPT ![m] = x]
  BY <1>1
<1> HIDE DEF x
<1>9. /\ runs' \in Seq(Run) /\ Len(runs') = m /\ DOMAIN runs' = 1..m
      /\ \A i \in 1..m : runs'[i] = IF i = m THEN x ELSE runs[i]
  <2>1. DOMAIN runs' = 1..m /\ \A i \in 1..m : runs'[i] = IF i = m THEN x ELSE runs[i]
    BY <1>5, <1>8
  <2>2. \A i \in 1..m : runs'[i] \in Run
    BY <1>5, <1>7, <2>1
  <2>3. runs' = [i \in 1..m |-> runs'[i]]
    BY <1>5, <1>8
  <2>4. runs' \in Seq(Run)
    BY <2>2, <2>3
  <2>5. Len(runs') = m
    BY <1>5, <2>1, <2>4, LenProperties
  <2> QED
    BY <2>1, <2>4, <2>5
<1>10. \A i \in 1..m : runs'[i].outcome = runs[i].outcome /\ runs'[i].saved = runs[i].saved
  BY <1>4, <1>7, <1>9
<1>11. \A i \in 1..m : \A n \in 0..m : SavedAfter(i, n)' = SavedAfter(i, n)
  BY <1>5, <1>10 DEF SavedAfter
<1>12. /\ PushOwed' /\ DraftTrue' /\ SnapshotTrue' /\ PushTyped'
       /\ (snapshot' # None => IsSnapshot(snapshot'))
  BY <1>1, OverOK
<1>13. RunsInOrder'
  BY <1>1, <1>5, <1>6, <1>9, <1>10 DEF CycleInv, RunsInOrder
<1>14. OutcomesKept'
  <2>1. \A i \in 1..m : Cardinality(SavedAfter(i, Len(runs)))' = Cardinality(SavedAfter(i, Len(runs)))
    <3>1. \A i : SavedAfter(i, Len(runs))' = SavedAfter(i, m)'
      BY <1>9 DEF SavedAfter
    <3> QED
      BY <1>0, <1>11, <3>1
  <2> QED
    BY <1>1, <1>5, <1>9, <1>10, <2>1 DEF CycleInv, OutcomesKept
<1> DEFINE known == {runs[i].outcome : i \in Remembered}
<1>15. Remembered' = Remembered \cup {m} /\ Remembered \subseteq 1..m - 1
  <2>1. \A i \in 1..m : SavedAfter(i, boot)' = SavedAfter(i, boot)
    BY <1>1, <1>5, <1>11
  <2>2. \A i \in 1..m : i # m => (i \in Remembered' <=> i \in Remembered)
    BY <1>1, <1>5, <1>9, <1>10, <2>1 DEF Remembered
  <2>3. m \in Remembered' /\ m \notin Remembered
    BY <1>1, <1>4, <1>5, <1>7, <1>9 DEF Remembered
  <2>4. Remembered \subseteq 1..m /\ Remembered' \subseteq 1..m
    BY <1>5, <1>9 DEF Remembered
  <2>5. Remembered' = Remembered \cup {m}
    BY <2>2, <2>3, <2>4
  <2>6. \A i \in Remembered : i \in 1..m - 1
    BY <1>5, <2>3, <2>4
  <2> QED
    BY <2>5, <2>6
<1>16. {runs'[i].outcome : i \in Remembered \cup {m}} = known \cup {r}
  <2>1. \A i \in Remembered : runs'[i].outcome = runs[i].outcome
    BY <1>5, <1>10, <1>15
  <2>2. runs'[m].outcome = r
    BY <1>4, <1>5, <1>10
  <2> QED
    BY <2>1, <2>2
<1>17. known \subseteq OutcomeRow /\ IsFiniteSet(known) /\ \A o \in known : o.at < r.at
  <2>1. \A i \in Remembered : i \in 1..m /\ i < m
    BY <1>5, <1>15
  <2>2. \A i \in Remembered : runs[i].outcome \in OutcomeRow
    BY <1>5, <2>1
  <2>3. \A i \in Remembered : runs[i].outcome.at < r.at
    <3>1. \A i, j \in 1..m : i < j => runs[i].outcome.at < runs[j].outcome.at
      BY <1>5 DEF CycleInv, RunsInOrder
    <3> QED
      BY <1>4, <1>5, <2>1, <3>1
  <2>4. IsFiniteSet(known)
    <3> DEFINE g == [i \in Remembered |-> runs[i].outcome]
    <3>1. IsFiniteSet(Remembered)
      <4>1. IsFiniteSet(1..m - 1)
        BY FS_Interval
      <4> QED
        BY <1>15, <4>1, FS_Subset
    <3>2. g \in Surjection(Remembered, known)
      BY DEF Surjection
    <3> QED
      BY <3>1, <3>2, FS_Surjection
  <2> QED
    BY <2>2, <2>3, <2>4
<1> HIDE DEF known
<1>18. health' \in HealthFields /\ Agrees(health', known \cup {r})
  <2>1. health \in HealthFields /\ Agrees(health, known)
    BY DEF CycleInv, TypeOK, HealthTrue, known
  <2> QED
    BY <1>1, <1>3, <1>17, <2>1, RecordOK
<1>19. HealthTrue'
  BY <1>15, <1>16, <1>18 DEF HealthTrue
<1>20. TypeOK'
  BY <1>0, <1>1, <1>5, <1>6, <1>9, <1>12, <1>18 DEF CycleInv, TypeOK, Place
<1> QED
  BY <1>12, <1>13, <1>14, <1>19, <1>20 DEF CycleInv

LEMMA RestartOK == CycleInv /\ Restart => CycleInv'
<1> SUFFICES ASSUME CycleInv, Restart
             PROVE  CycleInv'
  OBVIOUS
<1>0. PICK m \in Nat : m = Len(runs)
  BY RunsTyped DEF CycleInv
<1>1. /\ place' = "idle" /\ Fault
      /\ health' = Replayed(outcomes)
      /\ poll' = [NoPoll EXCEPT !.at = poll.at]
      /\ boot' = m /\ Accounted' /\ PushTyped'
      /\ UNCHANGED <<snapshot, outcomes, basis, runs>>
  BY <1>0 DEF Restart, dataVars, Accounted, PushTyped, CycleInv, TypeOK
<1>2. /\ DOMAIN runs = 1..m /\ poll.at \in 0..MaxPolls
      /\ outcomes \in Seq(OutcomeRow) /\ Len(outcomes) <= OutcomeLimit
      /\ \A i \in 1..m : runs[i].saved \in BOOLEAN
  BY <1>0, RunsTyped DEF CycleInv, TypeOK, IsPoll
<1>3. IsPoll(poll') /\ poll'.at = poll.at
  BY <1>1, <1>2, NoPollOK
<1>4. SnapshotTrue' /\ (snapshot' # None => IsSnapshot(snapshot'))
  BY <1>1, SnapshotSame
<1>5. PushOwed' /\ DraftTrue'
  BY <1>1 DEF PushOwed, Accounted, DraftTrue
<1>6. RunsInOrder'
  BY <1>1, <1>3 DEF CycleInv, RunsInOrder
<1>7. OutcomesKept'
  BY <1>1 DEF CycleInv, OutcomesKept, SavedAfter
<1> DEFINE rows == {outcomes[n] : n \in DOMAIN outcomes}
<1>8. health' \in HealthFields /\ Agrees(health', rows)
  <2>1. \A k, n \in DOMAIN outcomes : k < n => outcomes[k].at < outcomes[n].at
    BY DEF CycleInv, OutcomesKept
  <2> QED
    BY <1>1, <1>2, <2>1, ReplayOK
\* What is remembered after the start is what the rows say.
<1>9. {runs'[i].outcome : i \in Remembered'} = rows
  <2>1. \A i : SavedAfter(i, boot)' = SavedAfter(i, Len(runs))
    BY <1>0, <1>1 DEF SavedAfter
  <2>2. Remembered' = {i \in 1..m : runs[i].saved /\ Cardinality(SavedAfter(i, Len(runs))) < OutcomeLimit}
    <3>1. Remembered' = {i \in DOMAIN runs' : IF i > boot' THEN runs'[i].heard
                          ELSE runs'[i].saved /\ Cardinality(SavedAfter(i, boot)') < OutcomeLimit}
      BY DEF Remembered
    <3>2. \A i \in 1..m : ~(i > boot')
      BY <1>1
    <3> QED
      BY <1>1, <1>2, <2>1, <3>1, <3>2
  <2>3. ASSUME NEW i \in Remembered'
        PROVE  runs[i].outcome \in rows
    <3>1. i \in DOMAIN runs /\ runs[i].saved /\ Cardinality(SavedAfter(i, Len(runs))) < OutcomeLimit
      BY <1>2, <2>2
    <3> QED
      BY <3>1 DEF CycleInv, OutcomesKept
  <2>4. ASSUME NEW n \in DOMAIN outcomes
        PROVE  \E i \in Remembered' : outcomes[n] = runs[i].outcome
    <3>1. PICK i \in 1..m : /\ runs[i].saved /\ outcomes[n] = runs[i].outcome
                            /\ Cardinality(SavedAfter(i, Len(runs))) = Len(outcomes) - n
      BY <1>2 DEF CycleInv, OutcomesKept
    <3>2. n \in 1..Len(outcomes) /\ Len(outcomes) \in Nat
      BY <1>2, LenProperties
    <3>3. Len(outcomes) - n < OutcomeLimit
      BY <1>2, <3>2, CycleAssumption
    <3> QED
      BY <2>2, <3>1, <3>3
  <2> QED
    BY <1>1, <2>3, <2>4
<1>10. HealthTrue'
  BY <1>8, <1>9 DEF HealthTrue
<1>11. TypeOK'
  <2>1. faults' \in 0..MaxFaults
    BY <1>1, FaultOK DEF CycleInv
  <2>2. boot' \in 0..Len(runs')
    BY <1>0, <1>1
  <2> QED
    BY <1>1, <1>3, <1>4, <1>8, <2>1, <2>2 DEF CycleInv, TypeOK, Place, PushTyped
<1> QED
  BY <1>4, <1>5, <1>6, <1>7, <1>10, <1>11 DEF CycleInv

LEMMA StutterOK == CycleInv /\ UNCHANGED vars => CycleInv'
<1> SUFFICES ASSUME CycleInv, UNCHANGED vars
             PROVE  CycleInv'
  OBVIOUS
<1>1. UNCHANGED <<snapshot, outcomes, health, place, poll, faults, basis, runs, boot, push, delivery, notifier>>
  BY DEF vars, dataVars, process, history
<1>3. TypeOK' /\ RunsInOrder'
  BY <1>1 DEF CycleInv, TypeOK, RunsInOrder, Outcome
<1>4. OutcomesKept'
  BY <1>1 DEF CycleInv, OutcomesKept, SavedAfter
<1>5. HealthTrue'
  <2>1. Remembered' = Remembered
    BY <1>1 DEF Remembered, SavedAfter
  <2> QED
    BY <1>1, <2>1 DEF CycleInv, HealthTrue
<1>6. PushOwed' /\ DraftTrue' /\ SnapshotTrue'
  BY <1>1 DEF CycleInv, PushOwed, Accounted, DraftTrue, SnapshotTrue, Emptied
<1> QED
  BY <1>3, <1>4, <1>5, <1>6 DEF CycleInv

-----------------------------------------------------------------------------
(* The theorems.                                                           *)

LEMMA NextOK == CycleInv /\ [Next]_vars => CycleInv'
<1> SUFFICES ASSUME CycleInv, [Next]_vars
             PROVE  CycleInv'
  OBVIOUS
<1>1. CASE Begin \/ Fetch \/ MarkStale \/ Normalize \/ Preserve \/ PreserveFails
  BY <1>1, BeginOK, FetchOK, MarkStaleOK, NormalizeOK, PreserveOK, PreserveFailsOK
<1>2. CASE LoadSettingsFails \/ MarkStaleFails \/ SaveFails \/ EngineFails
  BY <1>2, FailsOK
<1>3. CASE Compare \/ CompareFails \/ Save \/ Engine \/ Dispatch \/ DispatchEnds
  BY <1>3, CompareOK, SaveOK, EngineOK, DispatchOK
<1>4. CASE SaveOutcome \/ SaveOutcomeFails \/ Record \/ Restart
  BY <1>4, SaveOutcomeOK, SaveOutcomeFailsOK, RecordStepOK, RestartOK
<1>5. CASE UNCHANGED vars
  BY <1>5, StutterOK
<1> QED
  BY <1>1, <1>2, <1>3, <1>4, <1>5 DEF Next

\* The inductive invariant of the poll cycle: types, the order of the polls
\* that came to an end, the rows of poll_runs, health, the push that is owed,
\* and what the draft and the snapshot say against what was reported.
THEOREM CycleCorrect == Spec => []CycleInv
<1>1. Init => CycleInv
  BY InitOK
<1>2. CycleInv /\ [Next]_vars => CycleInv'
  BY NextOK
<1> QED
  BY <1>1, <1>2, PTL DEF Spec

\* The variables of the poll cycle have their types, and no more outcomes are
\* kept than the limit.
THEOREM CycleTypeCorrect == Spec => []TypeOK
<1>1. CycleInv => TypeOK
  BY DEF CycleInv
<1> QED
  BY <1>1, CycleCorrect, PTL

\* What GET /v1/snapshot shows as current is what the last saved report said,
\* all of it and nothing else, until a fetch fails and the snapshot is marked,
\* or two intervals have passed: for any reports, aliases, errors, interval and
\* number of polls.
THEOREM CurrentCorrect == Spec => []CurrentWasReported
<1>1. CycleInv => CurrentWasReported
  BY ServedOK DEF CycleInv
<1> QED
  BY <1>1, CycleCorrect, PTL

\* Health agrees with the polls that came to an end, over any number of
\* restarts and failed saves.
THEOREM HealthCorrect == Spec => []HealthTrue
<1>1. CycleInv => HealthTrue
  BY DEF CycleInv
<1> QED
  BY <1>1, CycleCorrect, PTL

\* A poll that saves other data than before goes through to the refreshes of
\* the widgets; or its engine failed, or it was killed, or its dispatch returned
\* early and health says so.
THEOREM PushCorrect == Spec => []PushAccounted
<1>1. CycleInv => PushAccounted
  BY DEF CycleInv, PushOwed, PushAccounted
<1> QED
  BY <1>1, CycleCorrect, PTL

\* What UsefulWindowsKept says of a step.
KeepsWindows ==
    snapshot # None =>
        \A id \in Catalog : HasWindows(snapshot.providers, id) =>
            \/ HasWindows(snapshot'.providers, id)
            \/ poll.unread
            \/ Emptied(id)

LEMMA KeepsWindowsStep == CycleInv /\ [Next]_vars => [KeepsWindows]_snapshot
<1> SUFFICES ASSUME CycleInv, [Next]_vars, snapshot' # snapshot, snapshot # None,
                    NEW id \in Catalog, HasWindows(snapshot.providers, id),
                    ~poll.unread, ~Emptied(id)
             PROVE  HasWindows(snapshot'.providers, id)
  BY DEF KeepsWindows
<1>1. MarkStale \/ Save
  BY DEF Next, vars, dataVars, process, history, Begin, LoadSettingsFails, Fetch, MarkStaleFails, Normalize,
         Preserve, PreserveFails, Compare, CompareFails, SaveFails, Engine, EngineFails, Dispatch, DispatchEnds,
         SaveOutcome, SaveOutcomeFails, Record, Restart
<1>2. CASE MarkStale
  <2> DEFINE ps == ClearForecasts(snapshot.providers)
             s == snapshot
  <2>1. snapshot' = [s EXCEPT !.stale = TRUE, !.providers = ps]
    BY <1>2 DEF MarkStale
  <2>2. /\ IsProviders(s.providers)
        /\ s = [at |-> s.at, stale |-> s.stale, providers |-> s.providers]
    BY DEF CycleInv, TypeOK, IsSnapshot
  <2>3. /\ DOMAIN ps = DOMAIN s.providers
        /\ \A i \in DOMAIN ps : ps[i].id = s.providers[i].id /\ (ps[i].windows = {} <=> s.providers[i].windows = {})
    BY <2>2, ListForecastsOK
  <2>4. HasWindows(ps, id)
    BY <2>3 DEF HasWindows
  <2> HIDE DEF ps, s
  <2>5. snapshot'.providers = ps
    BY <2>1, <2>2
  <2> QED
    BY <2>4, <2>5
<1>3. CASE Save
  <2> DEFINE es == Enriched(poll.draft)
  <2>1. place = "save" /\ snapshot'.providers = es
    BY <1>3 DEF Save
  <2>2. HasWindows(poll.draft, id) /\ IsProviders(poll.draft)
    BY <2>1 DEF CycleInv, DraftTrue, TypeOK, IsPoll
  <2>3. /\ DOMAIN es = DOMAIN poll.draft
        /\ \A i \in DOMAIN es : es[i].id = poll.draft[i].id /\ (es[i].windows = {} <=> poll.draft[i].windows = {})
    BY <2>2, ListForecastsOK
  <2>4. HasWindows(es, id)
    BY <2>2, <2>3 DEF HasWindows
  <2> QED
    BY <2>1, <2>4
<1> QED
  BY <1>1, <1>2, <1>3

\* The last useful windows of a provider survive every step that replaces the
\* snapshot, but for the two exceptions.
THEOREM WindowsCorrect == Spec => UsefulWindowsKept
<1>1. CycleInv /\ [Next]_vars => [KeepsWindows]_snapshot
  BY KeepsWindowsStep
<1> QED
  BY <1>1, CycleCorrect, PTL DEF Spec, UsefulWindowsKept, KeepsWindows
=============================================================================
