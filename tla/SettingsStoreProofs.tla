------------------------ MODULE SettingsStoreProofs ------------------------
(***************************************************************************)
(* Theorems about SettingsStore, for any catalog, aliases, requests, tables *)
(* to start from, handlers and faults.                                     *)
(***************************************************************************)
EXTENDS SettingsStore, SequenceTheorems, WellFoundedInduction, TLAPS

-----------------------------------------------------------------------------
(* sanitizeProviderIDs.  What its loop computes is shown by the least      *)
(* number of rounds after which it would not hold.                         *)

LEMMA LeastNumber ==
    ASSUME NEW S, S \subseteq Nat, S # {}
    PROVE  \E n \in S : \A m \in S : n <= m
<1>1. PICK n \in S : \A m \in S : <<m, n>> \notin OpToRel(<, Nat)
  BY WFMin, NatLessThanWellFounded, Zenon
<1>2. \A m \in S : ~(m < n)
  BY <1>1 DEF OpToRel
<1> QED
  BY <1>2

\* One round of the loop, with the next canonical id.
Grown(before, canon) ==
    IF canon \in Catalog \ ToSet(before) THEN Append(before, canon) ELSE before

\* The loop after each number of its first rounds.
IsLoop(out, ids, more, rounds) ==
    out = [n \in 0..rounds |-> IF n = 0 THEN ids ELSE Grown(out[n - 1], Canonical[more[n]])]

LEMMA LoopExists ==
    ASSUME NEW ids, NEW more, NEW rounds \in Nat
    PROVE  \E out : IsLoop(out, ids, more, rounds)
<1> DEFINE Bad == {n \in Nat : ~\E out : IsLoop(out, ids, more, n)}
<1> SUFFICES ASSUME Bad # {}
             PROVE  FALSE
  OBVIOUS
<1>1. PICK n \in Bad : \A m \in Bad : n <= m
  BY LeastNumber
<1>2. CASE n = 0
  <2>1. IsLoop([i \in 0..0 |-> ids], ids, more, 0)
    BY DEF IsLoop
  <2> QED
    BY <1>1, <1>2, <2>1
<1>3. CASE n # 0
  <2>1. n \in Nat \ {0} /\ n - 1 \in Nat
    BY <1>1, <1>3
  <2>2. PICK out : IsLoop(out, ids, more, n - 1)
    BY <1>1, <2>1
  <2> DEFINE next == [i \in 0..n |-> IF i = n THEN Grown(out[n - 1], Canonical[more[n]]) ELSE out[i]]
  <2>3. \A i \in 0..n - 1 : out[i] = IF i = 0 THEN ids ELSE Grown(out[i - 1], Canonical[more[i]])
    BY <2>1, <2>2 DEF IsLoop
  <2>4. \A i \in 0..n : next[i] = IF i = 0 THEN ids ELSE Grown(next[i - 1], Canonical[more[i]])
    BY <2>1, <2>3
  <2>5. IsLoop(next, ids, more, n)
    BY <2>4 DEF IsLoop
  <2> QED
    BY <1>1, <2>5
<1> QED
  BY <1>2, <1>3

LEMMA CollectLoop ==
    ASSUME NEW ids, NEW more \in Lists
    PROVE  \E out : /\ Collect(ids, more) = out[Len(more)]
                    /\ out[0] = ids
                    /\ \A n \in 1..Len(more) : out[n] = Grown(out[n - 1], Canonical[more[n]])
<1> DEFINE out == CHOOSE out : IsLoop(out, ids, more, Len(more))
<1>1. Len(more) \in Nat
  BY LenProperties DEF Lists
<1>2. IsLoop(out, ids, more, Len(more))
  BY <1>1, LoopExists
<1>3. Collect(ids, more) = out[Len(more)]
  BY DEF Collect, IsLoop, Grown
<1> HIDE DEF out
<1>4. out[0] = ids /\ \A n \in 1..Len(more) : out[n] = Grown(out[n - 1], Canonical[more[n]])
  BY <1>1, <1>2 DEF IsLoop
<1> QED
  BY <1>3, <1>4
\* The lists that sanitizing leaves as they are: ids of the catalog, each once.
IsClean(s) == s \in Seq(Catalog) /\ \A i, j \in 1..Len(s) : s[i] = s[j] => i = j

LEMMA ToSetOfSeq ==
    ASSUME NEW S, NEW s \in Seq(S)
    PROVE  ToSet(s) = {s[i] : i \in 1..Len(s)} /\ ToSet(s) \subseteq S
BY LenProperties DEF ToSet

LEMMA CatalogCanonical == Catalog \subseteq DOMAIN Canonical /\ \A id \in Catalog : Canonical[id] = id
BY ToSetOfSeq, SettingsAssumption DEF Catalog, Lists

LEMMA CleanInLists ==
    ASSUME NEW s, IsClean(s)
    PROVE  s \in Lists
BY CatalogCanonical, SeqMonotonic DEF IsClean, Lists

LEMMA GrownOK ==
    ASSUME NEW s, IsClean(s), NEW canon
    PROVE  /\ IsClean(Grown(s, canon))
           /\ ToSet(s) \subseteq ToSet(Grown(s, canon))
           /\ canon \in Catalog => canon \in ToSet(Grown(s, canon))
<1>1. CASE canon \in Catalog \ ToSet(s)
  <2> DEFINE t == Append(s, canon)
  <2>1. /\ s \in Seq(Catalog) /\ Len(s) \in Nat
        /\ t \in Seq(Catalog) /\ Len(t) = Len(s) + 1
        /\ \A i \in 1..Len(s) : t[i] = s[i]
        /\ t[Len(s) + 1] = canon
    BY <1>1, LenProperties, AppendProperties DEF IsClean
  <2> HIDE DEF t
  <2>2. ToSet(s) = {s[i] : i \in 1..Len(s)} /\ ToSet(t) = {t[i] : i \in 1..Len(t)}
    BY <2>1, ToSetOfSeq
  <2>3. IsClean(t)
    BY <1>1, <2>1, <2>2 DEF IsClean
  <2>4. ToSet(s) \subseteq ToSet(t) /\ canon \in ToSet(t)
    BY <2>1, <2>2
  <2> QED
    BY <1>1, <2>3, <2>4 DEF Grown, t
<1>2. CASE canon \notin Catalog \ ToSet(s)
  BY <1>2 DEF Grown
<1> QED
  BY <1>1, <1>2

LEMMA CollectOK ==
    ASSUME NEW ids, IsClean(ids), NEW more \in Lists
    PROVE  /\ IsClean(Collect(ids, more))
           /\ ToSet(ids) \subseteq ToSet(Collect(ids, more))
           /\ \A n \in 1..Len(more) : Canonical[more[n]] \in Catalog => Canonical[more[n]] \in ToSet(Collect(ids, more))
<1>1. PICK out : /\ Collect(ids, more) = out[Len(more)]
                 /\ out[0] = ids
                 /\ \A n \in 1..Len(more) : out[n] = Grown(out[n - 1], Canonical[more[n]])
  BY CollectLoop
<1>2. Len(more) \in Nat
  BY LenProperties DEF Lists
<1> DEFINE Good(n) == /\ IsClean(out[n]) /\ ToSet(ids) \subseteq ToSet(out[n])
                      /\ \A m \in 1..n : Canonical[more[m]] \in Catalog => Canonical[more[m]] \in ToSet(out[n])
           Bad == {n \in 0..Len(more) : ~Good(n)}
<1>3. Bad = {}
  <2> SUFFICES ASSUME Bad # {}
               PROVE  FALSE
    OBVIOUS
  <2>0. Bad \subseteq Nat
    BY <1>2
  <2> HIDE DEF Bad
  <2>1. PICK n \in Bad : \A m \in Bad : n <= m
    BY <2>0, LeastNumber
  <2> USE DEF Bad
  <2>2. n # 0
    BY <1>1, <2>1
  <2>3. n \in 1..Len(more) /\ n - 1 \in 0..Len(more) /\ n - 1 \notin Bad
    BY <1>2, <2>1, <2>2
  <2>4. Good(n - 1)
    BY <2>3
  <2>5. out[n] = Grown(out[n - 1], Canonical[more[n]])
    BY <1>1, <2>3
  <2>6. /\ IsClean(out[n]) /\ ToSet(out[n - 1]) \subseteq ToSet(out[n])
        /\ Canonical[more[n]] \in Catalog => Canonical[more[n]] \in ToSet(out[n])
    BY <2>4, <2>5, GrownOK
  <2>7. \A m \in 1..n : m = n \/ m \in 1..n - 1
    BY <2>3
  <2>8. Good(n)
    BY <2>4, <2>6, <2>7
  <2> QED
    BY <2>1, <2>8
<1>4. Good(Len(more))
  BY <1>2, <1>3
<1> QED
  BY <1>1, <1>4

\* A clean list stays as it is,
LEMMA CollectClean ==
    ASSUME NEW s, IsClean(s)
    PROVE  Collect(<<>>, s) = s
<1>1. s \in Lists /\ s \in Seq(Catalog) /\ Len(s) \in Nat
  BY CleanInLists, LenProperties DEF IsClean
<1>2. PICK out : /\ Collect(<<>>, s) = out[Len(s)]
                 /\ out[0] = <<>>
                 /\ \A n \in 1..Len(s) : out[n] = Grown(out[n - 1], Canonical[s[n]])
  BY <1>1, CollectLoop
<1> DEFINE Bad == {n \in 0..Len(s) : out[n] # SubSeq(s, 1, n)}
<1>3. Bad = {}
  <2> SUFFICES ASSUME Bad # {}
               PROVE  FALSE
    OBVIOUS
  <2>0. Bad \subseteq Nat /\ SubSeq(s, 1, 0) = <<>>
    BY <1>1, SubSeqEmpty
  <2> HIDE DEF Bad
  <2>1. PICK n \in Bad : \A m \in Bad : n <= m
    BY <2>0, LeastNumber
  <2> USE DEF Bad
  <2>2. n # 0
    BY <1>2, <2>0, <2>1
  <2>3. n \in 1..Len(s) /\ n - 1 \in 0..Len(s) /\ n - 1 \notin Bad
    BY <1>1, <2>1, <2>2
  <2>4. out[n - 1] = SubSeq(s, 1, n - 1) /\ out[n] = Grown(out[n - 1], Canonical[s[n]])
    BY <1>2, <2>3
  <2>5. s[n] \in Catalog /\ Canonical[s[n]] = s[n]
    BY <1>1, <2>3, ElementOfSeq, CatalogCanonical
  <2>6. /\ SubSeq(s, 1, n - 1) \in Seq(Catalog) /\ Len(SubSeq(s, 1, n - 1)) = n - 1
        /\ \A i \in 1..n - 1 : SubSeq(s, 1, n - 1)[i] = s[i]
    <3>1. \A i \in 1..n - 1 : s[i] \in Catalog
      BY <1>1, <2>3, ElementOfSeq
    <3> QED
      BY <2>3, <3>1, SubSeqProperties
  <2>7. s[n] \notin ToSet(SubSeq(s, 1, n - 1))
    <3> DEFINE t == SubSeq(s, 1, n - 1)
    <3> HIDE DEF t
    <3>0. t \in Seq(Catalog) /\ Len(t) = n - 1
      BY <2>6 DEF t
    <3>1. ToSet(t) = {t[i] : i \in 1..n - 1}
      BY <3>0, ToSetOfSeq
    <3>2. \A i \in 1..n - 1 : s[i] # s[n]
      BY <2>3 DEF IsClean
    <3> QED
      BY <2>6, <3>1, <3>2 DEF t
  <2>8. out[n] = Append(SubSeq(s, 1, n - 1), s[n])
    BY <2>4, <2>5, <2>7 DEF Grown
  <2>9. Append(SubSeq(s, 1, n - 1), s[n]) = SubSeq(s, 1, n)
    <3> DEFINE a == Append(SubSeq(s, 1, n - 1), s[n])
               b == SubSeq(s, 1, n)
    <3>1. a \in Seq(Catalog) /\ Len(a) = n /\ \A i \in 1..n : a[i] = s[i]
      BY <2>3, <2>5, <2>6, AppendProperties
    <3>2. b \in Seq(Catalog) /\ Len(b) = n /\ \A i \in 1..n : b[i] = s[i]
      <4>1. \A i \in 1..n : s[i] \in Catalog
        BY <1>1, <2>3, ElementOfSeq
      <4> QED
        BY <2>3, <4>1, SubSeqProperties
    <3> HIDE DEF a, b
    <3>3. a = b
      BY <3>1, <3>2, SeqEqual
    <3> QED
      BY <3>3 DEF a, b
  <2> QED
    BY <2>1, <2>8, <2>9
<1>4. out[Len(s)] = SubSeq(s, 1, Len(s))
  BY <1>1, <1>3
<1> QED
  BY <1>1, <1>2, <1>4, SubSeqFull

\* and so does a list that has all of the catalog when an order is filled.
LEMMA CollectFull ==
    ASSUME NEW s, Catalog \subseteq ToSet(s)
    PROVE  Collect(s, DefaultOrder) = s
<1>1. DefaultOrder \in Lists /\ Len(DefaultOrder) \in Nat
  BY SettingsAssumption, LenProperties DEF Lists
<1>2. PICK out : /\ Collect(s, DefaultOrder) = out[Len(DefaultOrder)]
                 /\ out[0] = s
                 /\ \A n \in 1..Len(DefaultOrder) : out[n] = Grown(out[n - 1], Canonical[DefaultOrder[n]])
  BY <1>1, CollectLoop
<1> DEFINE Bad == {n \in 0..Len(DefaultOrder) : out[n] # s}
<1>3. Bad = {}
  <2> SUFFICES ASSUME Bad # {}
               PROVE  FALSE
    OBVIOUS
  <2>0. Bad \subseteq Nat
    BY <1>1
  <2> HIDE DEF Bad
  <2>1. PICK n \in Bad : \A m \in Bad : n <= m
    BY <2>0, LeastNumber
  <2> USE DEF Bad
  <2>2. n \in 1..Len(DefaultOrder) /\ n - 1 \in 0..Len(DefaultOrder) /\ n - 1 \notin Bad
    BY <1>1, <1>2, <2>1
  <2>3. out[n] = Grown(s, Canonical[DefaultOrder[n]])
    BY <1>2, <2>2
  <2>4. out[n] = s
    BY <2>3 DEF Grown
  <2> QED
    BY <2>1, <2>4
<1> QED
  BY <1>1, <1>2, <1>3

\* Sanitizing a list once makes it clean, whichever of the two it becomes.
LEMMA SanitizeOK ==
    ASSUME NEW ids \in Lists
    PROVE  /\ \A fill \in BOOLEAN : IsClean(Sanitize(ids, fill))
           /\ Catalog \subseteq ToSet(Sanitize(ids, TRUE))
<1> DEFINE known == Collect(<<>>, ids)
           head == IF Cursor \in ToSet(known) THEN known ELSE <<Cursor>> \o known
<1>1. IsClean(<<>>)
  BY EmptySeq DEF IsClean
<1>2. IsClean(known)
  BY <1>1, CollectOK
<1> HIDE DEF known
<1>3. IsClean(head)
  <2>1. CASE Cursor \in ToSet(known)
    BY <1>2, <2>1
  <2>2. CASE Cursor \notin ToSet(known)
    <3>1. <<Cursor>> \in Seq(Catalog) /\ Len(<<Cursor>>) = 1 /\ <<Cursor>>[1] = Cursor
      BY SettingsAssumption
    <3>2. known \in Seq(Catalog) /\ Len(known) \in Nat
      BY <1>2, LenProperties DEF IsClean
    <3> DEFINE h == <<Cursor>> \o known
    <3>3. /\ h \in Seq(Catalog) /\ Len(h) = Len(known) + 1
          /\ \A i \in 1..Len(known) + 1 : h[i] = IF i <= 1 THEN Cursor ELSE known[i - 1]
      BY <3>1, <3>2, ConcatProperties
    <3> HIDE DEF h
    <3>4. \A i \in 1..Len(known) : known[i] # Cursor
      BY <2>2, <3>2, ToSetOfSeq
    <3>5. IsClean(h)
      <4> SUFFICES ASSUME NEW i \in 1..Len(h), NEW j \in 1..Len(h), h[i] = h[j]
                   PROVE  i = j
        BY <3>3 DEF IsClean
      <4>1. CASE i <= 1 \/ j <= 1
        BY <3>2, <3>3, <3>4, <4>1
      <4>2. CASE i > 1 /\ j > 1
        <5>1. i - 1 \in 1..Len(known) /\ j - 1 \in 1..Len(known) /\ known[i - 1] = known[j - 1]
          BY <3>2, <3>3, <4>2
        <5>2. i - 1 = j - 1
          BY <1>2, <5>1 DEF IsClean
        <5> QED
          BY <5>2, <3>2, <3>3
      <4> QED
        BY <3>2, <3>3, <4>1, <4>2
    <3> QED
      BY <2>2, <3>5 DEF h
  <2> QED
    BY <2>1, <2>2
<1> HIDE DEF head
<1>4. DefaultOrder \in Lists
  BY SettingsAssumption
<1>5. IsClean(Collect(head, DefaultOrder)) /\ Catalog \subseteq ToSet(Collect(head, DefaultOrder))
  <2>1. DefaultOrder \in Seq(DOMAIN Canonical)
    BY <1>4 DEF Lists
  <2>2. \A id \in Catalog : \E n \in 1..Len(DefaultOrder) : Canonical[DefaultOrder[n]] = id
    BY <2>1, ToSetOfSeq, CatalogCanonical DEF Catalog
  <2> QED
    BY <1>3, <1>4, <2>2, CollectOK
<1>6. /\ Sanitize(ids, TRUE) = Collect(head, DefaultOrder)
      /\ Sanitize(ids, FALSE) = known
  BY DEF Sanitize, head, known
<1> QED
  BY <1>2, <1>5, <1>6

LEMMA SanitizeAgain ==
    ASSUME NEW ids \in Lists, NEW fill \in BOOLEAN
    PROVE  /\ Sanitize(Sanitize(ids, fill), FALSE) = Sanitize(ids, fill)
           /\ Sanitize(Sanitize(ids, fill), TRUE) = Sanitize(ids, TRUE)
<1>1. \A f \in BOOLEAN : IsClean(Sanitize(ids, f)) /\ Collect(<<>>, Sanitize(ids, f)) = Sanitize(ids, f)
  BY SanitizeOK, CollectClean
<1>2. Sanitize(Sanitize(ids, fill), FALSE) = Sanitize(ids, fill)
  BY <1>1 DEF Sanitize
<1>3. CASE fill = FALSE
  <2>1. Collect(<<>>, Sanitize(ids, FALSE)) = Collect(<<>>, ids)
    BY <1>1 DEF Sanitize
  <2>2. Sanitize(Sanitize(ids, FALSE), TRUE) = Sanitize(ids, TRUE)
    BY <2>1 DEF Sanitize
  <2> QED
    BY <1>2, <1>3, <2>2
<1>4. CASE fill = TRUE
  <2> DEFINE s == Sanitize(ids, TRUE)
  <2>1. Collect(<<>>, s) = s /\ Catalog \subseteq ToSet(s) /\ Cursor \in ToSet(s)
    BY <1>1, SanitizeOK, SettingsAssumption
  <2>2. Collect(s, DefaultOrder) = s
    BY <2>1, CollectFull
  <2> HIDE DEF s
  <2>3. Sanitize(s, TRUE) = s
    BY <2>1, <2>2 DEF Sanitize
  <2> QED
    BY <1>2, <1>4, <2>3 DEF s
<1> QED
  BY <1>3, <1>4

\* The keys by name.
LEMMA KeyNames ==
    /\ Key = {"poll_interval", "provider_order", "hidden_providers", "enabled",
              "early", "danger", "repeat", "quiet_hours", "overrides"}
    /\ ListKey \subseteq Key
BY DEF Key, ListKey, WriteOrder, ToSet

\* The table gives for each list in use what sanitizing makes of it, which is
\* in use too.
LEMMA TableOK ==
    ASSUME NEW v \in ListsInUse, NEW fill \in BOOLEAN
    PROVE  /\ SanitizeTable[fill][v] = Sanitize(v, fill)
           /\ v \in Lists
           /\ Sanitize(v, fill) \in ListsInUse
<1>1. SanitizeTable[fill][v] = Sanitize(v, fill)
  BY DEF SanitizeTable
<1>2. CASE v \in ListsSent
  BY <1>1, <1>2, SettingsAssumption DEF ListsInUse
<1>3. CASE v \notin ListsSent
  <2>1. PICK ids \in ListsSent, f \in BOOLEAN : v = Sanitize(ids, f)
    BY <1>3 DEF ListsInUse
  <2>2. ids \in Lists
    BY SettingsAssumption
  <2>3. v \in Lists
    BY <2>1, <2>2, SanitizeOK, CleanInLists
  <2>4. Sanitize(v, fill) \in {Sanitize(ids, f), Sanitize(ids, TRUE)}
    BY <2>1, <2>2, SanitizeAgain
  <2>5. \A g \in BOOLEAN : Sanitize(ids, g) \in ListsInUse
    BY DEF ListsInUse
  <2> QED
    BY <1>1, <2>3, <2>4, <2>5
<1> QED
  BY <1>2, <1>3

LEMMA CleanOK ==
    ASSUME NEW k \in Key, NEW v, k \in ListKey => v \in ListsInUse
    PROVE  /\ k \in ListKey => Clean(k, v) \in ListsInUse
           /\ k \notin ListKey => Clean(k, v) = v
           /\ Clean(k, Clean(k, v)) = Clean(k, v)
<1>1. CASE k \notin ListKey
  BY <1>1 DEF Clean
<1>2. CASE k \in ListKey
  <2> DEFINE fill == (k = "provider_order")
  <2>1. fill \in BOOLEAN
    OBVIOUS
  <2> HIDE DEF fill
  <2>2. \A w : Clean(k, w) = SanitizeTable[fill][w]
    BY <1>2 DEF Clean, fill
  <2>3. /\ Clean(k, v) = Sanitize(v, fill) /\ v \in Lists
        /\ Clean(k, v) \in ListsInUse
    BY <1>2, <2>1, <2>2, TableOK
  <2>4. Clean(k, Clean(k, v)) = Sanitize(Sanitize(v, fill), fill)
    BY <2>1, <2>2, <2>3, TableOK
  <2>5. Sanitize(Sanitize(v, fill), fill) = Sanitize(v, fill)
    BY <2>1, <2>3, SanitizeAgain
  <2> QED
    BY <1>2, <2>3, <2>4, <2>5
<1> QED
  BY <1>1, <1>2

-----------------------------------------------------------------------------
(* Requests, tables and quiet hours.                                       *)

\* A value fits its key.
Fits(k, v) ==
    /\ k \in ListKey => v \in ListsInUse
    /\ k = "quiet_hours" => v \in QuietHours /\ ValidQuiet(v)

LEMMA RequestFits ==
    ASSUME NEW r \in Requests \cup {<<>>}, Valid(r), NEW k \in DOMAIN r
    PROVE  k \in Key /\ Fits(k, r[k]) /\ Fits(k, Clean(k, r[k]))
<1>1. r \in Requests
  OBVIOUS
<1>2. k \in Key
  BY <1>1, SettingsAssumption
<1>3. k \in ListKey => r[k] \in ListsInUse
  BY <1>1 DEF ListsInUse, ListsSent
<1>4. k = "quiet_hours" => r[k] \in QuietHours /\ ValidQuiet(r[k])
  BY <1>1, SettingsAssumption DEF Valid, ValidValue
<1>5. k = "quiet_hours" => k \notin ListKey
  BY DEF ListKey
<1> QED
  BY <1>2, <1>3, <1>4, <1>5, CleanOK DEF Fits

LEMMA TableWrite ==
    ASSUME NEW s, IsTable(s), NEW k \in Key, NEW v, Fits(k, v)
    PROVE  /\ IsTable([s EXCEPT ![k] = v])
           /\ [s EXCEPT ![k] = v][k] = v
           /\ \A j \in Key \ {k} : [s EXCEPT ![k] = v][j] = s[j]
<1> DEFINE t == [s EXCEPT ![k] = v]
<1>1. s = [j \in Key |-> s[j]] /\ "quiet_hours" \in Key /\ ListKey \subseteq Key
  BY KeyNames DEF IsTable
<1>2. t = [j \in Key |-> IF j = k THEN v ELSE s[j]]
  BY <1>1
<1> HIDE DEF t
<1>3. t = [j \in Key |-> t[j]]
  BY <1>2
<1>4. \A j \in Key : t[j] = IF j = k THEN v ELSE s[j]
  BY <1>2
<1> QED
  BY <1>1, <1>3, <1>4 DEF IsTable, Fits, t

LEMMA SanitizedTable ==
    ASSUME NEW s, IsTable(s)
    PROVE  IsTable(Sanitized(s)) /\ \A k \in Key : Sanitized(s)[k] = Clean(k, s[k])
<1> DEFINE t == Sanitized(s)
<1>1. t = [k \in Key |-> Clean(k, s[k])]
  BY DEF Sanitized
<1> HIDE DEF t
<1>2. t = [k \in Key |-> t[k]] /\ \A k \in Key : t[k] = Clean(k, s[k])
  BY <1>1
<1>3. \A k \in ListKey : t[k] \in ListsInUse
  BY <1>2, KeyNames, CleanOK DEF IsTable
<1>4. t["quiet_hours"] = s["quiet_hours"]
  BY <1>2, KeyNames DEF Clean, ListKey
<1> QED
  BY <1>2, <1>3, <1>4 DEF IsTable, t

\* The next key of a PUT is one of those left.
LEMMA NextKeyOK ==
    ASSUME NEW h \in Handler, left[h] \subseteq Key, left[h] # {}
    PROVE  NextKey(h) \in left[h]
<1> DEFINE Places == {i \in DOMAIN WriteOrder : WriteOrder[i] \in left[h]}
<1>1. DOMAIN WriteOrder = 1..9
  BY DEF WriteOrder
<1>2. Places \subseteq Nat /\ Places # {}
  BY <1>1 DEF Key, ToSet
<1> HIDE DEF Places
<1>3. PICK i \in Places : \A j \in Places : i <= j
  BY <1>2, LeastNumber
<1>4. i \in 1..9 /\ WriteOrder[i] \in left[h] /\ \A j \in 1..i - 1 : WriteOrder[j] \notin left[h]
  BY <1>1, <1>3 DEF Places
<1>5. \E k \in left[h] : \E n \in DOMAIN WriteOrder :
          WriteOrder[n] = k /\ \A j \in 1..n - 1 : WriteOrder[j] \notin left[h]
  BY <1>1, <1>4
<1> QED
  BY <1>5 DEF NextKey

\* From minute to minute of a day: two valid ends and a minute between.
LEMMA MinuteOfDay ==
    ASSUME NEW x \in 0..Day - 1
    PROVE  x % Day = x /\ (x + Day) % Day = x
BY SettingsAssumption

LEMMA QuietMeaning ==
    ASSUME NEW q \in QuietHours, ValidQuiet(q), NEW utc \in 0..Day - 1
    PROVE  QuietContains(q, utc) <=> q.enabled /\ LocalMinute(q, utc) \in QuietSpan(q)
<1> DEFINE m == LocalMinute(q, utc)
           span == (q.end - q.start + Day) % Day
<1>1. /\ Day \in Nat \ {0} /\ q.enabled \in BOOLEAN
      /\ q.start \in 0..Day - 1 /\ q.end \in 0..Day - 1 /\ q.start # q.end
  BY SettingsAssumption DEF QuietHours, ValidQuiet
<1>2. m \in 0..Day - 1
  BY <1>1 DEF LocalMinute, QuietHours
<1> HIDE DEF m
<1>3. span = IF q.start < q.end THEN q.end - q.start ELSE q.end - q.start + Day
  <2>1. CASE q.start < q.end
    <3>1. q.end - q.start \in 0..Day - 1
      BY <1>1, <2>1
    <3> QED
      BY <2>1, <3>1, MinuteOfDay
  <2>2. CASE ~(q.start < q.end)
    <3>1. q.end - q.start + Day \in 0..Day - 1
      BY <1>1, <2>2
    <3> QED
      BY <2>2, <3>1, MinuteOfDay
  <2> QED
    BY <2>1, <2>2
<1>4. QuietSpan(q) = {(q.start + i) % Day : i \in 0..span - 1}
  BY DEF QuietSpan
<1> HIDE DEF span
<1>5. \A i \in 0..span - 1 : (q.start + i) % Day = IF q.start + i < Day THEN q.start + i ELSE q.start + i - Day
  <2> SUFFICES ASSUME NEW i \in 0..span - 1
               PROVE  (q.start + i) % Day = IF q.start + i < Day THEN q.start + i ELSE q.start + i - Day
    OBVIOUS
  <2>1. CASE q.start + i < Day
    <3>1. q.start + i \in 0..Day - 1
      BY <1>1, <1>3, <2>1
    <3> QED
      BY <2>1, <3>1, MinuteOfDay
  <2>2. CASE ~(q.start + i < Day)
    <3>1. q.start + i - Day \in 0..Day - 1
      BY <1>1, <1>3, <2>2
    <3>2. (q.start + i - Day) + Day = q.start + i
      BY <1>1, <1>3
    <3>3. ((q.start + i - Day) + Day) % Day = q.start + i - Day
      BY <3>1, MinuteOfDay
    <3> QED
      BY <2>2, <3>2, <3>3
  <2> QED
    BY <2>1, <2>2
<1>6. m \in QuietSpan(q) <=> \E i \in 0..span - 1 :
          m = IF q.start + i < Day THEN q.start + i ELSE q.start + i - Day
  BY <1>4, <1>5
<1>7. CASE q.start < q.end
  <2>1. m \in QuietSpan(q) => m >= q.start /\ m < q.end
    BY <1>1, <1>2, <1>3, <1>6, <1>7
  <2>2. ASSUME m >= q.start, m < q.end
        PROVE  m \in QuietSpan(q)
    <3>1. m - q.start \in 0..span - 1 /\ q.start + (m - q.start) = m /\ m < Day
      BY <1>1, <1>2, <1>3, <1>7, <2>2
    <3> QED
      BY <1>6, <3>1
  <2> QED
    BY <1>7, <1>1, <2>1, <2>2 DEF QuietContains, m
<1>8. CASE ~(q.start < q.end)
  <2>1. m \in QuietSpan(q) => m >= q.start \/ m < q.end
    BY <1>1, <1>2, <1>3, <1>6, <1>8
  <2>2. ASSUME m >= q.start
        PROVE  m \in QuietSpan(q)
    <3>1. m - q.start \in 0..span - 1 /\ q.start + (m - q.start) = m /\ m < Day
      BY <1>1, <1>2, <1>3, <1>8, <2>2
    <3> QED
      BY <1>6, <3>1
  <2>3. ASSUME m < q.end
        PROVE  m \in QuietSpan(q)
    <3> DEFINE i == m + Day - q.start
    <3>1. /\ i \in 0..span - 1
          /\ ~(q.start + i < Day) /\ q.start + i - Day = m
      BY <1>1, <1>2, <1>3, <1>8, <2>3
    <3> HIDE DEF i
    <3> QED
      BY <1>6, <3>1
  <2> QED
    BY <1>8, <1>1, <2>1, <2>2, <2>3 DEF QuietContains, m
<1> QED
  BY <1>7, <1>8
-----------------------------------------------------------------------------
(* The invariant, handler by handler.                                      *)

HandlerTyped(h) ==
    /\ Valid(request[h]) /\ left[h] \subseteq DOMAIN request[h]
    /\ at[h] = "put" <=> left[h] # {}
    /\ at[h] \in {"overrides", "order", "hidden", "answer"} => IsTable(got[h])

WriteBacksKnownBy(h) ==
    \A k \in ListKey \ raced : WritesBack(h, k) => Clean(k, got[h][k]) = Clean(k, lastPut[k])

PutsKeptBy(h) ==
    \A k \in DOMAIN request[h] \ (left[h] \cup overwritten[h]) :
        /\ at[h] \in {"put", "load"} \/ (at[h] = "overrides" /\ k = "overrides") =>
              stored[k] = Clean(k, request[h][k])
        /\ at[h] \in {"order", "hidden", "answer"} \/ (at[h] = "overrides" /\ k # "overrides") =>
              got[h][k] = Clean(k, request[h][k])

HandlerOK(h) == HandlerTyped(h) /\ WriteBacksKnownBy(h) /\ PutsKeptBy(h)

TablesOK ==
    /\ IsTable(stored) /\ faults \in 0..MaxFaults
    /\ lastPut = [k \in Key |-> lastPut[k]] /\ raced \subseteq ListKey
    /\ LatestPutKept

FunctionsOK ==
    /\ at \in [Handler -> Place]
    /\ request \in [Handler -> Requests \cup {<<>>}]
    /\ left \in [Handler -> SUBSET Key] /\ overwritten \in [Handler -> SUBSET Key]
    /\ got = [h \in Handler |-> got[h]]

LEMMA ByHandler ==
    SettingsInv <=> TablesOK /\ FunctionsOK /\ \A h \in Handler : HandlerOK(h)
<1>1. TypeOK /\ LatestPutKept <=> TablesOK /\ FunctionsOK /\ \A h \in Handler : HandlerTyped(h)
  BY DEF TypeOK, TablesOK, FunctionsOK, HandlerTyped
<1>2. WriteBacksKnown <=> \A h \in Handler : WriteBacksKnownBy(h)
  BY DEF WriteBacksKnown, WriteBacksKnownBy
<1>3. PutsKept <=> \A h \in Handler : PutsKeptBy(h)
  BY DEF PutsKept, PutsKeptBy
<1> QED
  BY <1>1, <1>2, <1>3 DEF SettingsInv, HandlerOK

LEMMA ByHandlerNext ==
    TablesOK' /\ FunctionsOK' /\ (\A h \in Handler : HandlerOK(h)') => SettingsInv'
<1>1. (TablesOK /\ FunctionsOK /\ (\A h \in Handler : HandlerOK(h)))' => SettingsInv'
  BY ByHandler, PTL
<1> QED
  BY <1>1

LEMMA EmptyRequest == DOMAIN <<>> = {} /\ Valid(<<>>)
BY DEF Valid

LEMMA InitOK == Init => SettingsInv
<1> SUFFICES ASSUME Init
             PROVE  TablesOK /\ FunctionsOK /\ \A h \in Handler : HandlerOK(h)
  BY ByHandler
<1>1. IsTable(stored) /\ lastPut = stored /\ raced = {} /\ faults = 0 /\ MaxFaults \in Nat
  BY SettingsAssumption DEF Init
<1>2. TablesOK
  BY <1>1 DEF TablesOK, LatestPutKept, IsTable
<1>3. FunctionsOK
  BY DEF Init, FunctionsOK, Place
<1>4. \A h \in Handler : HandlerOK(h)
  BY EmptyRequest DEF Init, HandlerOK, HandlerTyped, WriteBacksKnownBy, PutsKeptBy, WritesBack
<1> QED
  BY <1>2, <1>3, <1>4

-----------------------------------------------------------------------------
(* Steps that leave the table alone.                                       *)

\* Only handler h moves.
OnlyMoves(h) ==
    /\ at' = [at EXCEPT ![h] = at'[h]]
    /\ request' = [request EXCEPT ![h] = request'[h]]
    /\ left' = [left EXCEPT ![h] = left'[h]]
    /\ got' = [got EXCEPT ![h] = got'[h]]
    /\ overwritten' = [overwritten EXCEPT ![h] = overwritten'[h]]

LEMMA MoveOK ==
    ASSUME SettingsInv, NEW h \in Handler, OnlyMoves(h),
           UNCHANGED <<stored, lastPut, raced>>, faults' \in 0..MaxFaults,
           at'[h] \in Place, request'[h] \in Requests \cup {<<>>},
           left'[h] \in SUBSET Key, overwritten'[h] \in SUBSET Key,
           HandlerOK(h)'
    PROVE  SettingsInv'
<1>1. TablesOK /\ FunctionsOK /\ \A g \in Handler : HandlerOK(g)
  BY ByHandler
<1>2. TablesOK'
  BY <1>1 DEF TablesOK, LatestPutKept, IsTable
<1>3. FunctionsOK'
  BY <1>1 DEF FunctionsOK, OnlyMoves
<1>4. \A g \in Handler \ {h} :
        /\ at'[g] = at[g] /\ request'[g] = request[g] /\ left'[g] = left[g]
        /\ got'[g] = got[g] /\ overwritten'[g] = overwritten[g]
  BY <1>1 DEF FunctionsOK, OnlyMoves
<1>5. ASSUME NEW g \in Handler \ {h}
      PROVE  HandlerOK(g)'
  <2>1. HandlerTyped(g)'
    BY <1>1, <1>4 DEF HandlerOK, HandlerTyped, IsTable
  <2>2. WriteBacksKnownBy(g)'
    BY <1>1, <1>4 DEF HandlerOK, WriteBacksKnownBy, WritesBack, Dirty
  <2>3. PutsKeptBy(g)'
    BY <1>1, <1>4 DEF HandlerOK, PutsKeptBy
  <2> QED
    BY <2>1, <2>2, <2>3 DEF HandlerOK
<1>6. \A g \in Handler : HandlerOK(g)'
  BY <1>5
<1> QED
  BY <1>2, <1>3, <1>6, ByHandlerNext

LEMMA BeginOK ==
    ASSUME SettingsInv, NEW h \in Handler, Begin(h)
    PROVE  SettingsInv'
<1>1. TablesOK /\ FunctionsOK /\ HandlerOK(h)
  BY ByHandler
<1>2. PICK r \in Requests :
        /\ Valid(r)
        /\ request' = [request EXCEPT ![h] = r]
        /\ left' = [left EXCEPT ![h] = DOMAIN r]
        /\ Go(h, IF DOMAIN r = {} THEN "load" ELSE "put")
  BY DEF Begin
<1>3. at[h] = "idle" /\ UNCHANGED <<stored, got, faults, lastPut, raced, overwritten>>
  BY DEF Begin
<1>4. OnlyMoves(h)
  BY <1>1, <1>2, <1>3 DEF FunctionsOK, OnlyMoves, Go
<1>5. /\ request'[h] = r /\ left'[h] = DOMAIN r /\ overwritten'[h] = overwritten[h]
      /\ at'[h] = IF DOMAIN r = {} THEN "load" ELSE "put"
  BY <1>1, <1>2, <1>3 DEF FunctionsOK, Go
<1>6. DOMAIN r \subseteq Key
  BY SettingsAssumption
<1>7. HandlerTyped(h)'
  BY <1>2, <1>5 DEF HandlerTyped, Valid, ValidValue
<1>8. WriteBacksKnownBy(h)' /\ PutsKeptBy(h)'
  BY <1>5 DEF WriteBacksKnownBy, WritesBack, PutsKeptBy
<1> QED
  BY <1>1, <1>3, <1>4, <1>5, <1>6, <1>7, <1>8, MoveOK DEF HandlerOK, TablesOK, FunctionsOK, Place
\* A read of the keys shows the loads what the latest PUT of a list has left,
\* and the PUT what it has written.
LEMMA ReadKeysOK ==
    ASSUME SettingsInv, NEW h \in Handler, ReadKeys(h)
    PROVE  SettingsInv'
<1> DEFINE s == [stored EXCEPT !["overrides"] = <<>>]
<1>1. TablesOK /\ FunctionsOK /\ HandlerOK(h)
  BY ByHandler
<1>2. /\ at[h] = "load" /\ got' = [got EXCEPT ![h] = s] /\ Go(h, "overrides")
      /\ UNCHANGED <<stored, request, left, faults, lastPut, raced, overwritten>>
  BY DEF ReadKeys
<1>3. IsTable(s) /\ \A k \in Key \ {"overrides"} : s[k] = stored[k]
  <2>1. "overrides" \in Key /\ Fits("overrides", <<>>)
    BY KeyNames DEF Fits, ListKey
  <2> QED
    BY <1>1, <2>1, TableWrite DEF TablesOK
<1> HIDE DEF s
<1>4. OnlyMoves(h)
  BY <1>1, <1>2 DEF FunctionsOK, OnlyMoves, Go
<1>5. /\ request'[h] = request[h] /\ left'[h] = left[h] /\ overwritten'[h] = overwritten[h]
      /\ at'[h] = "overrides" /\ got'[h] = s
  BY <1>1, <1>2 DEF FunctionsOK, Go
<1>6. HandlerTyped(h)'
  BY <1>1, <1>2, <1>3, <1>5 DEF HandlerOK, HandlerTyped, Valid, IsTable
<1>7. WriteBacksKnownBy(h)'
  BY <1>1, <1>2, <1>3, <1>5, KeyNames DEF WriteBacksKnownBy, TablesOK, LatestPutKept, ListKey
<1>8. PutsKeptBy(h)'
  <2> SUFFICES ASSUME NEW k \in DOMAIN request[h] \ (left[h] \cup overwritten[h])
               PROVE  IF k = "overrides" THEN stored[k] = Clean(k, request[h][k])
                                         ELSE s[k] = Clean(k, request[h][k])
    BY <1>2, <1>5 DEF PutsKeptBy
  <2>1. request[h] \in Requests \cup {<<>>} /\ Valid(request[h])
    BY <1>1 DEF FunctionsOK, HandlerOK, HandlerTyped
  <2>2. k \in Key
    BY <2>1, RequestFits
  <2>3. stored[k] = Clean(k, request[h][k])
    BY <1>1, <1>2 DEF HandlerOK, PutsKeptBy
  <2> QED
    BY <1>3, <2>2, <2>3
<1> QED
  BY <1>1, <1>2, <1>4, <1>5, <1>6, <1>7, <1>8, MoveOK DEF HandlerOK, TablesOK, FunctionsOK, Place

\* Sanitizing what was read changes no list into another one.
LEMMA ReadOverridesOK ==
    ASSUME SettingsInv, NEW h \in Handler, ReadOverrides(h)
    PROVE  SettingsInv'
<1> DEFINE s == [got[h] EXCEPT !["overrides"] = stored["overrides"]]
           t == Sanitized(s)
<1>1. TablesOK /\ FunctionsOK /\ HandlerOK(h)
  BY ByHandler
<1>2. /\ at[h] = "overrides" /\ got' = [got EXCEPT ![h] = t]
      /\ Go(h, IF Dirty(got[h]) THEN "order" ELSE "answer")
      /\ UNCHANGED <<stored, request, left, faults, lastPut, raced, overwritten>>
  BY <1>1 DEF ReadOverrides, FunctionsOK
<1>3. IsTable(got[h])
  BY <1>1, <1>2 DEF HandlerOK, HandlerTyped
<1>4. /\ IsTable(s) /\ s["overrides"] = stored["overrides"]
      /\ \A k \in Key \ {"overrides"} : s[k] = got[h][k]
  BY <1>3, KeyNames, TableWrite DEF Fits, ListKey
<1> HIDE DEF s
<1>5. IsTable(t) /\ \A k \in Key : t[k] = Clean(k, s[k])
  BY <1>4, SanitizedTable
<1> HIDE DEF t
<1>6. OnlyMoves(h)
  BY <1>1, <1>2 DEF FunctionsOK, OnlyMoves, Go
<1>7. /\ request'[h] = request[h] /\ left'[h] = left[h] /\ overwritten'[h] = overwritten[h]
      /\ at'[h] = (IF Dirty(got[h]) THEN "order" ELSE "answer") /\ got'[h] = t
  BY <1>1, <1>2 DEF FunctionsOK, Go
<1>8. HandlerTyped(h)'
  BY <1>1, <1>2, <1>5, <1>7 DEF HandlerOK, HandlerTyped, Valid, IsTable
<1>9. WriteBacksKnownBy(h)'
  <2> SUFFICES ASSUME NEW k \in ListKey \ raced, Dirty(got[h])
               PROVE  Clean(k, t[k]) = Clean(k, lastPut[k])
    BY <1>2, <1>7 DEF WriteBacksKnownBy, WritesBack
  <2>1. k \in Key \ {"overrides"} /\ got[h][k] \in ListsInUse
    BY <1>3, KeyNames DEF IsTable, ListKey
  <2>2. Clean(k, t[k]) = Clean(k, Clean(k, got[h][k]))
    BY <1>4, <1>5, <2>1
  <2>3. Clean(k, Clean(k, got[h][k])) = Clean(k, got[h][k])
    BY <2>1, CleanOK
  <2>4. Clean(k, got[h][k]) = Clean(k, lastPut[k])
    BY <1>1, <1>2 DEF HandlerOK, WriteBacksKnownBy, WritesBack
  <2> QED
    BY <2>2, <2>3, <2>4
<1>10. PutsKeptBy(h)'
  <2> SUFFICES ASSUME NEW k \in DOMAIN request[h] \ (left[h] \cup overwritten[h])
               PROVE  t[k] = Clean(k, request[h][k])
    BY <1>2, <1>7 DEF PutsKeptBy
  <2> DEFINE v == request[h][k]
  <2>1. request[h] \in Requests \cup {<<>>} /\ Valid(request[h])
    BY <1>1 DEF FunctionsOK, HandlerOK, HandlerTyped
  <2>2. k \in Key /\ Fits(k, v)
    BY <2>1, RequestFits
  <2>3. s[k] = Clean(k, v)
    <3>1. CASE k = "overrides"
      BY <1>1, <1>2, <1>4, <3>1 DEF HandlerOK, PutsKeptBy
    <3>2. CASE k # "overrides"
      <4>1. got[h][k] = Clean(k, v)
        BY <1>1, <1>2, <3>2 DEF HandlerOK, PutsKeptBy
      <4> QED
        BY <1>4, <2>2, <3>2, <4>1
    <3> QED
      BY <3>1, <3>2
  <2> HIDE DEF v
  <2>4. Clean(k, Clean(k, v)) = Clean(k, v)
    BY <2>2, CleanOK DEF Fits
  <2> QED
    BY <1>5, <2>2, <2>3, <2>4 DEF v
<1> QED
  BY <1>1, <1>2, <1>6, <1>7, <1>8, <1>9, <1>10, MoveOK DEF HandlerOK, TablesOK, FunctionsOK, Place

\* A handler that is done keeps nothing.
LEMMA LeaveOK ==
    ASSUME SettingsInv, NEW h \in Handler, Leave(h),
           UNCHANGED <<stored, lastPut, raced>>, faults' \in 0..MaxFaults
    PROVE  SettingsInv'
<1>1. TablesOK /\ FunctionsOK /\ HandlerOK(h)
  BY ByHandler
<1>2. OnlyMoves(h)
  BY <1>1 DEF FunctionsOK, OnlyMoves, Leave, Go
<1>3. /\ at'[h] = "idle" /\ request'[h] = <<>> /\ left'[h] = {} /\ overwritten'[h] = {}
  BY <1>1 DEF FunctionsOK, Leave, Go
<1>4. HandlerOK(h)'
  BY <1>3, EmptyRequest DEF HandlerOK, HandlerTyped, WriteBacksKnownBy, PutsKeptBy, WritesBack, Valid
<1> QED
  BY <1>1, <1>2, <1>3, <1>4, MoveOK DEF FunctionsOK, Place

LEMMA KillOK ==
    ASSUME SettingsInv, Kill
    PROVE  SettingsInv'
<1>1. TablesOK /\ FunctionsOK
  BY ByHandler
<1>2. UNCHANGED <<stored, lastPut, raced>> /\ faults' \in 0..MaxFaults
  BY <1>1, SettingsAssumption DEF Kill, TablesOK
<1>3. TablesOK'
  BY <1>1, <1>2 DEF TablesOK, LatestPutKept, IsTable
<1>4. FunctionsOK'
  BY DEF Kill, FunctionsOK, Place
<1>5. \A h \in Handler : HandlerOK(h)'
  BY EmptyRequest DEF Kill, HandlerOK, HandlerTyped, WriteBacksKnownBy, PutsKeptBy, WritesBack, Valid
<1> QED
  BY <1>3, <1>4, <1>5, ByHandlerNext
-----------------------------------------------------------------------------
(* Writes.                                                                 *)

\* Handler h is elsewhere afterwards and may have fewer keys left; the other
\* handlers only learn that k was written.
WritesOnly(h, k, v) ==
    /\ Write(h, k, v)
    /\ at' = [at EXCEPT ![h] = at'[h]]
    /\ left' = [left EXCEPT ![h] = left'[h]]
    /\ UNCHANGED <<request, got, faults>>

LEMMA WriteOK ==
    ASSUME SettingsInv, NEW h \in Handler, NEW k \in Key, NEW v, Fits(k, v), WritesOnly(h, k, v),
           at'[h] \in Place, left'[h] \in SUBSET Key,
           lastPut' = [j \in Key |-> lastPut'[j]], raced' \subseteq ListKey, LatestPutKept',
           \A g \in Handler : WriteBacksKnownBy(g)',
           HandlerTyped(h)', PutsKeptBy(h)'
    PROVE  SettingsInv'
<1>1. TablesOK /\ FunctionsOK /\ \A g \in Handler : HandlerOK(g)
  BY ByHandler
<1>2. /\ stored' = [stored EXCEPT ![k] = v] /\ UNCHANGED <<request, got, faults>>
      /\ overwritten' = [g \in Handler |->
            IF g # h /\ k \in DOMAIN request[g] \ left[g] THEN overwritten[g] \cup {k} ELSE overwritten[g]]
  BY DEF WritesOnly, Write
<1>3. IsTable(stored') /\ \A j \in Key \ {k} : stored'[j] = stored[j]
  <2> DEFINE s == [stored EXCEPT ![k] = v]
  <2>1. IsTable(s) /\ \A j \in Key \ {k} : s[j] = stored[j]
    BY <1>1, TableWrite DEF TablesOK
  <2>2. stored' = s
    BY <1>2
  <2> HIDE DEF s
  <2>3. IsTable(s) => IsTable(stored')
    BY <2>2 DEF IsTable
  <2> QED
    BY <2>1, <2>2, <2>3
<1>4. TablesOK'
  BY <1>1, <1>2, <1>3 DEF TablesOK, IsTable
<1>5. FunctionsOK'
  <2>1. at' \in [Handler -> Place] /\ left' \in [Handler -> SUBSET Key]
    BY <1>1 DEF FunctionsOK, WritesOnly
  <2>2. overwritten' \in [Handler -> SUBSET Key]
    BY <1>1, <1>2 DEF FunctionsOK
  <2> QED
    BY <1>1, <1>2, <2>1, <2>2 DEF FunctionsOK
<1>6. ASSUME NEW g \in Handler \ {h}
      PROVE  HandlerTyped(g)' /\ PutsKeptBy(g)'
  <2>1. /\ at'[g] = at[g] /\ left'[g] = left[g]
        /\ overwritten'[g] = IF k \in DOMAIN request[g] \ left[g] THEN overwritten[g] \cup {k} ELSE overwritten[g]
    BY <1>1, <1>2 DEF FunctionsOK, WritesOnly
  <2>2. HandlerTyped(g)'
    BY <1>1, <1>2, <2>1 DEF HandlerOK, HandlerTyped, Valid, IsTable
  <2>3. \A j \in DOMAIN request[g] \ (left'[g] \cup overwritten'[g]) :
            j \notin left[g] \cup overwritten[g] /\ stored'[j] = stored[j]
    <3> SUFFICES ASSUME NEW j \in DOMAIN request[g] \ (left'[g] \cup overwritten'[g])
                 PROVE  j \notin left[g] \cup overwritten[g] /\ stored'[j] = stored[j]
      OBVIOUS
    <3>1. j \notin left[g] \cup overwritten[g] /\ j # k
      BY <2>1
    <3>2. j \in Key
      BY <1>1, RequestFits DEF FunctionsOK, HandlerOK, HandlerTyped
    <3> QED
      BY <1>3, <3>1, <3>2
  <2>4. PutsKeptBy(g)
    BY <1>1 DEF HandlerOK
  <2>5. PutsKeptBy(g)'
    BY <1>2, <2>1, <2>3, <2>4 DEF PutsKeptBy
  <2> QED
    BY <2>2, <2>5
<1>7. \A g \in Handler : HandlerOK(g)'
  BY <1>6 DEF HandlerOK
<1> QED
  BY <1>4, <1>5, <1>7, ByHandlerNext

\* A PUT writes the value of its next key; loads that hold an older list race.
LEMMA PutKeyOK ==
    ASSUME SettingsInv, NEW h \in Handler, PutKey(h)
    PROVE  SettingsInv'
<1> DEFINE k == NextKey(h)
           v == Clean(k, request[h][k])
<1>1. TablesOK /\ FunctionsOK /\ \A g \in Handler : HandlerOK(g)
  BY ByHandler
<1>2. /\ at[h] = "put" /\ Write(h, k, v)
      /\ left' = [left EXCEPT ![h] = left[h] \ {k}]
      /\ Go(h, IF left[h] = {k} THEN "load" ELSE "put")
      /\ lastPut' = [lastPut EXCEPT ![k] = v]
      /\ raced' = IF k \in ListKey /\ \E g \in Handler : WritesBack(g, k)
                  THEN raced \cup {k} ELSE raced \ {k}
      /\ UNCHANGED <<request, got, faults>>
  BY <1>1 DEF PutKey, FunctionsOK
<1>3. left[h] # {} /\ left[h] \subseteq Key /\ left[h] \subseteq DOMAIN request[h]
  BY <1>1, <1>2 DEF FunctionsOK, HandlerOK, HandlerTyped
<1>4. k \in left[h]
  BY <1>3, NextKeyOK
<1> HIDE DEF k
<1>5. k \in Key /\ k \in DOMAIN request[h] /\ Fits(k, v)
  BY <1>1, <1>3, <1>4, RequestFits DEF FunctionsOK, HandlerOK, HandlerTyped
<1>6. v = Clean(k, request[h][k])
  OBVIOUS
<1> HIDE DEF v
<1>7. WritesOnly(h, k, v)
  BY <1>1, <1>2 DEF WritesOnly, FunctionsOK, Go
<1>8. /\ at'[h] = (IF left[h] = {k} THEN "load" ELSE "put") /\ left'[h] = left[h] \ {k}
      /\ \A g \in Handler \ {h} : at'[g] = at[g]
  BY <1>1, <1>2 DEF FunctionsOK, Go
<1>9. /\ lastPut'[k] = v /\ lastPut' = [j \in Key |-> lastPut'[j]]
      /\ \A j \in Key \ {k} : lastPut'[j] = lastPut[j]
  <2>1. lastPut = [j \in Key |-> lastPut[j]]
    BY <1>1 DEF TablesOK
  <2>2. lastPut' = [j \in Key |-> IF j = k THEN v ELSE lastPut[j]]
    BY <1>2, <1>5, <2>1
  <2> QED
    BY <2>2, <1>5
<1>10. /\ stored'[k] = v /\ \A j \in Key \ {k} : stored'[j] = stored[j]
  BY <1>1, <1>2, <1>5, TableWrite DEF TablesOK, Write
<1>11. raced' \subseteq ListKey /\ \A j \in Key \ {k} : j \in raced <=> j \in raced'
  BY <1>1, <1>2 DEF TablesOK
<1>12. LatestPutKept'
  BY <1>1, <1>9, <1>10, <1>11 DEF TablesOK, LatestPutKept
<1>13. ASSUME NEW g \in Handler
       PROVE  WriteBacksKnownBy(g)'
  <2> SUFFICES ASSUME NEW j \in ListKey \ raced', WritesBack(g, j)'
               PROVE  Clean(j, got[g][j]) = Clean(j, lastPut'[j])
    BY <1>2 DEF WriteBacksKnownBy
  <2>1. g # h /\ at'[g] = at[g] /\ WritesBack(g, j)
    BY <1>2, <1>8 DEF WritesBack, Dirty
  <2>2. j # k
    BY <1>2, <2>1
  <2>3. j \notin raced /\ lastPut'[j] = lastPut[j]
    BY <1>9, <1>11, <2>2, KeyNames
  <2> QED
    BY <1>1, <2>1, <2>3 DEF HandlerOK, WriteBacksKnownBy
<1>14. HandlerTyped(h)'
  BY <1>1, <1>2, <1>3, <1>4, <1>8 DEF HandlerOK, HandlerTyped, Valid
<1>15. PutsKeptBy(h)'
  <2>1. overwritten'[h] = overwritten[h]
    BY <1>2 DEF Write
  <2> SUFFICES ASSUME NEW j \in DOMAIN request[h] \ (left'[h] \cup overwritten[h])
               PROVE  stored'[j] = Clean(j, request[h][j])
    BY <1>2, <1>8, <2>1 DEF PutsKeptBy
  <2>2. CASE j = k
    BY <1>6, <1>10, <2>2
  <2>3. CASE j # k
    <3>1. j \in Key
      BY <1>1, RequestFits DEF FunctionsOK, HandlerOK, HandlerTyped
    <3>2. j \notin left[h]
      BY <1>8, <2>3
    <3>3. stored[j] = Clean(j, request[h][j])
      BY <1>1, <1>2, <3>2 DEF HandlerOK, PutsKeptBy
    <3> QED
      BY <1>10, <2>3, <3>1, <3>3
  <2> QED
    BY <2>2, <2>3
<1>16. at'[h] \in Place /\ left'[h] \in SUBSET Key
  BY <1>3, <1>8 DEF Place
<1> QED
  BY <1>5, <1>7, <1>9, <1>11, <1>12, <1>13, <1>14, <1>15, <1>16, WriteOK

\* A load writes back the lists it holds, which are those of the latest PUT
\* unless a PUT has raced with it.
LEMMA PersistOK ==
    ASSUME SettingsInv, NEW h \in Handler, PersistOrder(h) \/ PersistHidden(h)
    PROVE  SettingsInv'
<1> DEFINE k == IF at[h] = "order" THEN "provider_order" ELSE "hidden_providers"
           v == got[h][k]
<1>1. TablesOK /\ FunctionsOK /\ \A g \in Handler : HandlerOK(g)
  BY ByHandler
<1>2. /\ at[h] \in {"order", "hidden"} /\ Write(h, k, v)
      /\ Go(h, IF at[h] = "order" THEN "hidden" ELSE "answer")
      /\ UNCHANGED <<request, left, got, faults, lastPut, raced>>
  BY DEF PersistOrder, PersistHidden
<1>3. k \in ListKey /\ k \in Key /\ WritesBack(h, k)
  BY <1>2, KeyNames DEF ListKey, WritesBack
<1>4. \A j : at[h] = "order" \/ j = "hidden_providers" => WritesBack(h, j)
  BY <1>2 DEF WritesBack
<1> HIDE DEF k
<1>5. IsTable(got[h])
  BY <1>1, <1>2 DEF HandlerOK, HandlerTyped
<1>6. v \in ListsInUse /\ Fits(k, v)
  BY <1>3, <1>5 DEF IsTable, Fits, ListKey
<1>7. k \notin raced => Clean(k, v) = Clean(k, lastPut[k])
  BY <1>1, <1>3 DEF HandlerOK, WriteBacksKnownBy
<1> HIDE DEF v
<1>8. WritesOnly(h, k, v)
  BY <1>1, <1>2 DEF WritesOnly, FunctionsOK, Go
<1>9. /\ at'[h] = (IF at[h] = "order" THEN "hidden" ELSE "answer")
      /\ \A g \in Handler \ {h} : at'[g] = at[g]
  BY <1>1, <1>2 DEF FunctionsOK, Go
<1>10. stored'[k] = v /\ \A j \in Key \ {k} : stored'[j] = stored[j]
  BY <1>1, <1>2, <1>3, <1>6, TableWrite DEF TablesOK, Write
<1>11. lastPut' = [j \in Key |-> lastPut'[j]] /\ raced' \subseteq ListKey
  BY <1>1, <1>2 DEF TablesOK
<1>12. LatestPutKept'
  BY <1>1, <1>2, <1>7, <1>10 DEF TablesOK, LatestPutKept
<1>13. ASSUME NEW g \in Handler
       PROVE  WriteBacksKnownBy(g)'
  <2> SUFFICES ASSUME NEW j \in ListKey \ raced, WritesBack(g, j)'
               PROVE  Clean(j, got[g][j]) = Clean(j, lastPut[j])
    BY <1>2 DEF WriteBacksKnownBy
  <2>1. WritesBack(g, j)
    <3>1. CASE g = h
      BY <1>2, <1>4, <1>9, <3>1 DEF WritesBack
    <3>2. CASE g # h
      BY <1>2, <1>9, <3>2 DEF WritesBack, Dirty
    <3> QED
      BY <3>1, <3>2
  <2> QED
    BY <1>1, <2>1 DEF HandlerOK, WriteBacksKnownBy
<1>14. HandlerTyped(h)'
  BY <1>1, <1>2, <1>5, <1>9 DEF HandlerOK, HandlerTyped, Valid, IsTable
<1>15. PutsKeptBy(h)'
  <2>1. overwritten'[h] = overwritten[h]
    BY <1>2 DEF Write
  <2> QED
    BY <1>1, <1>2, <1>9, <2>1 DEF HandlerOK, PutsKeptBy
<1>16. at'[h] \in Place /\ left'[h] \in SUBSET Key
  BY <1>1, <1>2, <1>9 DEF FunctionsOK, Place
<1> QED
  BY <1>3, <1>6, <1>8, <1>11, <1>12, <1>13, <1>14, <1>15, <1>16, WriteOK
LEMMA StutterOK == SettingsInv /\ UNCHANGED vars => SettingsInv'
<1> SUFFICES ASSUME SettingsInv, UNCHANGED vars
             PROVE  SettingsInv'
  OBVIOUS
<1>1. TablesOK /\ FunctionsOK /\ \A g \in Handler : HandlerOK(g)
  BY ByHandler
<1>2. TablesOK' /\ FunctionsOK'
  BY <1>1 DEF TablesOK, FunctionsOK, LatestPutKept, IsTable, vars, handlerVars
<1>3. ASSUME NEW g \in Handler
      PROVE  HandlerOK(g)'
  BY <1>1 DEF vars, handlerVars, HandlerOK, HandlerTyped, WriteBacksKnownBy, PutsKeptBy, WritesBack,
              Dirty, Valid, IsTable
<1> QED
  BY <1>2, <1>3, ByHandlerNext

LEMMA NextOK == SettingsInv /\ [Next]_vars => SettingsInv'
<1> SUFFICES ASSUME SettingsInv, [Next]_vars
             PROVE  SettingsInv'
  OBVIOUS
<1>1. faults \in 0..MaxFaults /\ MaxFaults \in Nat
  BY SettingsAssumption DEF SettingsInv, TypeOK
<1>2. CASE Kill
  BY <1>2, KillOK
<1>3. ASSUME NEW h \in Handler, Begin(h)
      PROVE  SettingsInv'
  BY <1>3, BeginOK
<1>4. ASSUME NEW h \in Handler, Step(h)
      PROVE  SettingsInv'
  <2>1. CASE PutKey(h)
    BY <2>1, PutKeyOK
  <2>2. CASE ReadKeys(h)
    BY <2>2, ReadKeysOK
  <2>3. CASE ReadOverrides(h)
    BY <2>3, ReadOverridesOK
  <2>4. CASE PersistOrder(h) \/ PersistHidden(h)
    BY <2>4, PersistOK
  <2>5. CASE Answer(h)
    BY <1>1, <2>5, LeaveOK DEF Answer
  <2> QED
    BY <1>4, <2>1, <2>2, <2>3, <2>4, <2>5 DEF Step
<1>5. ASSUME NEW h \in Handler, StatementFails(h)
      PROVE  SettingsInv'
  <2>1. faults' \in 0..MaxFaults
    BY <1>1, <1>5 DEF StatementFails
  <2> QED
    BY <1>5, <2>1, LeaveOK DEF StatementFails
<1>6. CASE UNCHANGED vars
  BY <1>6, StutterOK
<1> QED
  BY <1>2, <1>3, <1>4, <1>5, <1>6 DEF Next

-----------------------------------------------------------------------------

\* The inductive invariant holds of every table, catalog and set of requests:
\* users and the poller write in any order, statements fail, the process dies.
THEOREM SettingsCorrect == Spec => []SettingsInv
<1> QED
  BY InitOK, NextOK, PTL DEF Spec

\* The table and what the handlers hold are well formed; a handler of a PUT
\* stays at it exactly while a key is left.
THEOREM SettingsTypeCorrect == Spec => []TypeOK
<1>1. SettingsInv => TypeOK
  BY DEF SettingsInv
<1> QED
  BY <1>1, SettingsCorrect, PTL

\* loadSettings and persistSanitizedProviderLists: what a user has set stays
\* until the next PUT of the key, unless a load raced with the PUT.
THEOREM LatestPutCorrect == Spec => []LatestPutKept
<1>1. SettingsInv => LatestPutKept
  BY DEF SettingsInv
<1> QED
  BY <1>1, SettingsCorrect, PTL

\* handlePutSettings: the answer shows what the request has set.
THEOREM AnswerCorrect == Spec => []AnswerShowsPut
<1>1. SettingsInv => AnswerShowsPut
  <2> SUFFICES ASSUME SettingsInv, NEW h \in Handler, at[h] = "answer",
                      NEW k \in DOMAIN request[h] \ overwritten[h]
               PROVE  got[h][k] = Clean(k, request[h][k])
    BY DEF AnswerShowsPut
  <2>1. left[h] = {}
    BY DEF SettingsInv, TypeOK
  <2> QED
    BY <2>1 DEF SettingsInv, PutsKept
<1> QED
  BY <1>1, SettingsCorrect, PTL

\* QuietHours.Contains: the two comparisons are the span of minutes from start
\* to end, for each length of a day and each pair of ends that validation lets
\* into the table.
THEOREM QuietCorrect == Spec => []QuietHoursAreTheSpan
<1>1. SettingsInv => QuietHoursAreTheSpan
  BY QuietMeaning DEF SettingsInv, TypeOK, IsTable, QuietHoursAreTheSpan
<1> QED
  BY <1>1, SettingsCorrect, PTL

\* sanitizeProviderIDs: sanitizing a list once more changes nothing, neither an
\* order nor a list of hidden providers, however long the list and however
\* many aliases it repeats.
THEOREM SanitizeSettles ==
    \A ids \in Lists : \A fill \in BOOLEAN : Sanitize(Sanitize(ids, fill), fill) = Sanitize(ids, fill)
<1> SUFFICES ASSUME NEW ids \in Lists, NEW fill \in BOOLEAN
             PROVE  Sanitize(Sanitize(ids, fill), fill) = Sanitize(ids, fill)
  OBVIOUS
<1> QED
  BY SanitizeAgain
=============================================================================
