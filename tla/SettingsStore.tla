--------------------------- MODULE SettingsStore ---------------------------
(***************************************************************************)
(* The settings table and everyone who uses it: GET and PUT /v1/settings,  *)
(* and the poller, which loads the settings as a GET does.                 *)
(*                                                                         *)
(* No transaction spans a request.  handlePutSettings writes one key after *)
(* the other, each in a statement of its own, then the overrides in a      *)
(* transaction, then answers as a GET; loadSettings reads the keys, then   *)
(* the overrides, and writes the two provider lists back when sanitizing   *)
(* changed one of them.  Every statement is one step here, may fail (the   *)
(* database is busy) and may be the last one before the process is killed. *)
(***************************************************************************)
EXTENDS Integers, Sequences, SequencesExt

CONSTANTS
    Handler,        \* requests being served, and the poller
    Cursor,         \* the id that always belongs to the order
    DefaultOrder,   \* defaultProviderOrder: the ids of the catalog
    Canonical,      \* canonicalProviderID on the ids and aliases in use
    Requests,       \* what clients send: a function from keys to values
    Starts,         \* what an earlier version may have left in the table
    Day,            \* minutes in a day
    MaxFaults       \* bound on failing statements and kills

\* The keys in the order in which handlePutSettings writes them.
WriteOrder == <<"poll_interval", "provider_order", "hidden_providers", "enabled",
                "early", "danger", "repeat", "quiet_hours", "overrides">>
Key == ToSet(WriteOrder)
ListKey == {"provider_order", "hidden_providers"}

Catalog == ToSet(DefaultOrder)

-----------------------------------------------------------------------------
(* sanitizeProviderIDs.                                                    *)

Lists == Seq(DOMAIN Canonical)

\* ids, and after it the canonical ids of the catalog in more, each once.
Collect(ids, more) ==
    LET out[n \in 0..Len(more)] ==
            IF n = 0 THEN ids
            ELSE LET before == out[n - 1]
                     canon  == Canonical[more[n]]
                 IN  IF canon \in Catalog \ ToSet(before) THEN Append(before, canon) ELSE before
    IN  out[Len(more)]

\* The known ids of a list; an order names all of the catalog.
Sanitize(ids, fill) ==
    LET known == Collect(<<>>, ids)
        head  == IF Cursor \in ToSet(known) THEN known ELSE <<Cursor>> \o known
    IN  IF fill THEN Collect(head, DefaultOrder) ELSE known

\* The same as a table over the lists that occur.
ListsSent == UNION {{r[k] : k \in ListKey \cap DOMAIN r} : r \in Requests \cup Starts}
ListsInUse == ListsSent \cup {Sanitize(ids, fill) : ids \in ListsSent, fill \in BOOLEAN}
SanitizeTable == [fill \in BOOLEAN |-> [ids \in ListsInUse |-> Sanitize(ids, fill)]]

\* What becomes of a value under a key: only the provider lists change.
Clean(k, v) == IF k \in ListKey THEN SanitizeTable[k = "provider_order"][v] ELSE v

\* sanitizeSettings.
Sanitized(s) == [k \in Key |-> Clean(k, s[k])]
Dirty(s)     == \E k \in ListKey : Clean(k, s[k]) # s[k]

-----------------------------------------------------------------------------
(* Validation of a request, and quiet hours.                               *)

ValidThreshold(pct) == 0 < pct /\ pct < 100
ValidRepeat(n)      == n \in {0, 60, 180, 360}
ValidRule(r) == ValidThreshold(r.early) /\ ValidThreshold(r.danger) /\ ValidRepeat(r.repeat)

\* Mutant: start and end may be the same minute.
ValidQuietLoosely(q) == q.start \in 0..Day - 1 /\ q.end \in 0..Day - 1

ValidQuiet(q) == q.start \in 0..Day - 1 /\ q.end \in 0..Day - 1 /\ q.start # q.end

\* Overrides are a sequence of [provider, window, rule], window "" for all.
ValidOverrides(os) ==
    /\ \A i \in DOMAIN os : ValidRule(os[i].rule)
    /\ \A i, j \in DOMAIN os :
          os[i].provider = os[j].provider /\ os[i].window = os[j].window => i = j

QuietHours == [enabled : BOOLEAN, start : Int, end : Int, offset : Int]

\* What the table holds: any value under a key, but for lists and quiet hours.
IsTable(s) ==
    /\ s = [k \in Key |-> s[k]]
    /\ \A k \in ListKey : s[k] \in ListsInUse
    /\ s["quiet_hours"] \in QuietHours /\ ValidQuiet(s["quiet_hours"])

ASSUME SettingsAssumption ==
    /\ Cursor \in Catalog /\ DefaultOrder \in Lists /\ ListsSent \subseteq Lists
    /\ \A id \in Catalog : Canonical[id] = id
    /\ \A r \in Requests :
          /\ DOMAIN r \subseteq Key
          /\ "quiet_hours" \in DOMAIN r => r["quiet_hours"] \in QuietHours
    /\ \A s \in Starts : IsTable(s)
    /\ Day \in Nat \ {0} /\ MaxFaults \in Nat

ValidValue(k, v) ==
    CASE k = "poll_interval"       -> v \in {1, 5, 15, 30, 60}
      [] k \in {"early", "danger"} -> ValidThreshold(v)
      [] k = "repeat"              -> ValidRepeat(v)
      [] k = "quiet_hours"         -> ValidQuiet(v)
      [] k = "overrides"           -> ValidOverrides(v)
      [] OTHER                     -> TRUE

Valid(r) == \A k \in DOMAIN r : ValidValue(k, r[k])

LocalMinute(q, utc) == (utc + q.offset) % Day

\* QuietHours.Contains at a minute of the day in UTC.
QuietContains(q, utc) ==
    /\ q.enabled
    /\ IF q.start < q.end
       THEN LocalMinute(q, utc) >= q.start /\ LocalMinute(q, utc) < q.end
       ELSE LocalMinute(q, utc) >= q.start \/ LocalMinute(q, utc) < q.end

-----------------------------------------------------------------------------
VARIABLES
    stored,      \* the tables settings and alert_rules
    at,          \* where a handler is
    request,     \* the keys and values of its PUT; none for a GET or a poll
    left,        \* the keys it has still to write
    got,         \* the settings it has read
    faults,      \* failing statements and kills so far
    lastPut,     \* history: the value the latest PUT gave a key
    raced,       \* history: keys put while a load was about to write them back
    overwritten  \* history: keys of its request that others wrote since

handlerVars == <<at, request, left, got>>
vars == <<stored, handlerVars, faults, lastPut, raced, overwritten>>

Place == {"idle", "put", "load", "overrides", "order", "hidden", "answer"}

Init ==
    /\ stored \in Starts
    /\ at = [h \in Handler |-> "idle"]
    /\ request = [h \in Handler |-> <<>>]
    /\ left = [h \in Handler |-> {}]
    /\ got = [h \in Handler |-> <<>>]
    /\ faults = 0
    /\ lastPut = stored
    /\ raced = {}
    /\ overwritten = [h \in Handler |-> {}]

Go(h, place) == at' = [at EXCEPT ![h] = place]

\* Handler h is done with its request, whatever the outcome.
Leave(h) ==
    /\ Go(h, "idle")
    /\ request' = [request EXCEPT ![h] = <<>>]
    /\ left' = [left EXCEPT ![h] = {}]
    /\ got' = [got EXCEPT ![h] = <<>>]
    /\ overwritten' = [overwritten EXCEPT ![h] = {}]

\* A load holds lists that it is going to write over k.
WritesBack(h, k) ==
    \/ at[h] = "overrides" /\ Dirty(got[h])
    \/ at[h] = "order"
    \/ at[h] = "hidden" /\ k = "hidden_providers"

\* Handler h stores v under k.
Write(h, k, v) ==
    /\ stored' = [stored EXCEPT ![k] = v]
    /\ overwritten' = [g \in Handler |->
          IF g # h /\ k \in DOMAIN request[g] \ left[g] THEN overwritten[g] \cup {k} ELSE overwritten[g]]

\* A request that passes validation arrives, or the poller loads the settings.
Begin(h) ==
    /\ at[h] = "idle"
    /\ \E r \in Requests :
          /\ Valid(r)
          /\ request' = [request EXCEPT ![h] = r]
          /\ left' = [left EXCEPT ![h] = DOMAIN r]
          /\ Go(h, IF DOMAIN r = {} THEN "load" ELSE "put")
    /\ UNCHANGED <<stored, got, faults, lastPut, raced, overwritten>>

\* The next key of a PUT.
NextKey(h) ==
    CHOOSE k \in left[h] : \E i \in DOMAIN WriteOrder :
        WriteOrder[i] = k /\ \A j \in 1..i - 1 : WriteOrder[j] \notin left[h]

\* Mutant: a PUT stores the lists as they were sent.
PutKeyRaw(h) ==
    /\ at[h] = "put"
    /\ LET k == NextKey(h)
           v == request[h][k]
       IN  /\ Write(h, k, v)
           /\ left' = [left EXCEPT ![h] = @ \ {k}]
           /\ Go(h, IF left[h] = {k} THEN "load" ELSE "put")
           /\ lastPut' = [lastPut EXCEPT ![k] = v]
           /\ raced' = IF k \in ListKey /\ \E g \in Handler : WritesBack(g, k)
                       THEN raced \cup {k} ELSE raced \ {k}
    /\ UNCHANGED <<request, got, faults>>

\* SetSetting, or ReplaceAlertOverrides for the last key.
PutKey(h) ==
    /\ at[h] = "put"
    /\ LET k == NextKey(h)
           v == Clean(k, request[h][k])
       IN  /\ Write(h, k, v)
           /\ left' = [left EXCEPT ![h] = @ \ {k}]
           /\ Go(h, IF left[h] = {k} THEN "load" ELSE "put")
           /\ lastPut' = [lastPut EXCEPT ![k] = v]
           /\ raced' = IF k \in ListKey /\ \E g \in Handler : WritesBack(g, k)
                       THEN raced \cup {k} ELSE raced \ {k}
    /\ UNCHANGED <<request, got, faults>>

\* loadSettings: AllSettings; there are no overrides yet.
ReadKeys(h) ==
    /\ at[h] = "load"
    /\ got' = [got EXCEPT ![h] = [stored EXCEPT !["overrides"] = <<>>]]
    /\ Go(h, "overrides")
    /\ UNCHANGED <<stored, request, left, faults, lastPut, raced, overwritten>>

\* Mutant: the lists are written back whether sanitizing changed them or not.
ReadOverridesAlways(h) ==
    /\ at[h] = "overrides"
    /\ got' = [got EXCEPT ![h] = Sanitized([@ EXCEPT !["overrides"] = stored["overrides"]])]
    /\ Go(h, "order")
    /\ UNCHANGED <<stored, request, left, faults, lastPut, raced, overwritten>>

\* ListAlertOverrides, then sanitizeSettings.
ReadOverrides(h) ==
    /\ at[h] = "overrides"
    /\ got' = [got EXCEPT ![h] = Sanitized([@ EXCEPT !["overrides"] = stored["overrides"]])]
    /\ Go(h, IF Dirty(got[h]) THEN "order" ELSE "answer")
    /\ UNCHANGED <<stored, request, left, faults, lastPut, raced, overwritten>>

\* persistSanitizedProviderLists.
PersistOrder(h) ==
    /\ at[h] = "order"
    /\ Write(h, "provider_order", got[h]["provider_order"])
    /\ Go(h, "hidden")
    /\ UNCHANGED <<request, left, got, faults, lastPut, raced>>

PersistHidden(h) ==
    /\ at[h] = "hidden"
    /\ Write(h, "hidden_providers", got[h]["hidden_providers"])
    /\ Go(h, "answer")
    /\ UNCHANGED <<request, left, got, faults, lastPut, raced>>

\* 200 with the settings, or the poller goes on with them.
Answer(h) ==
    /\ at[h] = "answer"
    /\ Leave(h)
    /\ UNCHANGED <<stored, faults, lastPut, raced>>

\* Mutant: after a failing write the PUT goes on with its next key.
StatementFailsUnnoticed(h) ==
    /\ at[h] \in {"put", "load", "overrides", "order", "hidden"}
    /\ faults < MaxFaults
    /\ faults' = faults + 1
    /\ IF at[h] = "put"
       THEN /\ left' = [left EXCEPT ![h] = @ \ {NextKey(h)}]
            /\ Go(h, IF left[h] = {NextKey(h)} THEN "load" ELSE "put")
            /\ UNCHANGED <<request, got, overwritten>>
       ELSE Leave(h)
    /\ UNCHANGED <<stored, lastPut, raced>>

\* A statement fails: what was written stays, the answer is 500.
StatementFails(h) ==
    /\ at[h] \in {"put", "load", "overrides", "order", "hidden"}
    /\ faults < MaxFaults
    /\ faults' = faults + 1
    /\ Leave(h)
    /\ UNCHANGED <<stored, lastPut, raced>>

\* The process is killed, and started again with the same database.
Kill ==
    /\ faults < MaxFaults
    /\ faults' = faults + 1
    /\ at' = [h \in Handler |-> "idle"]
    /\ left' = [h \in Handler |-> {}]
    /\ request' = [h \in Handler |-> <<>>]
    /\ got' = [h \in Handler |-> <<>>]
    /\ overwritten' = [h \in Handler |-> {}]
    /\ UNCHANGED <<stored, lastPut, raced>>

Step(h) == \/ PutKey(h) \/ ReadKeys(h) \/ ReadOverrides(h)
           \/ PersistOrder(h) \/ PersistHidden(h) \/ Answer(h)

Next == \/ \E h \in Handler : Begin(h) \/ Step(h) \/ StatementFails(h)
        \/ Kill

Spec == Init /\ [][Next]_vars

\* A request is served, and the poller loads the settings at every cycle.
Fairness == \A h \in Handler : WF_vars(Step(h)) /\ WF_vars(Begin(h))

FairSpec == Spec /\ Fairness

-----------------------------------------------------------------------------
(* What must hold.                                                         *)

TypeOK ==
    /\ IsTable(stored)
    /\ at \in [Handler -> Place]
    /\ request \in [Handler -> Requests \cup {<<>>}]
    /\ left \in [Handler -> SUBSET Key] /\ overwritten \in [Handler -> SUBSET Key]
    /\ got = [h \in Handler |-> got[h]]
    /\ \A h \in Handler :
          /\ Valid(request[h]) /\ left[h] \subseteq DOMAIN request[h]
          /\ at[h] = "put" <=> left[h] # {}
          /\ at[h] \in {"overrides", "order", "hidden", "answer"} => IsTable(got[h])
    /\ faults \in 0..MaxFaults
    /\ lastPut = [k \in Key |-> lastPut[k]] /\ raced \subseteq ListKey

\* What a user has set with PUT /v1/settings stays until the next PUT of the
\* same key.  The write-back of loadSettings may only bring a list into
\* canonical form; it replaces a list by another one only when that list was
\* put between the read and the write of a load that had read unclean lists.
LatestPutKept ==
    \A k \in Key \ raced : Clean(k, stored[k]) = Clean(k, lastPut[k])

\* A PUT that is answered 200 has taken effect as a whole: the settings in its
\* answer, read after the last of its writes, show each value it set (provider
\* lists in canonical form), unless somebody else has written that key since.
AnswerShowsPut ==
    \A h \in Handler : at[h] = "answer" =>
        \A k \in DOMAIN request[h] \ overwritten[h] : got[h][k] = Clean(k, request[h][k])

\* Quiet hours are the minutes from start up to end on the local clock, over
\* midnight when end comes first; validation leaves no quiet hours for which
\* the comparison in QuietContains means anything else (equal minutes).
QuietSpan(q) == {(q.start + i) % Day : i \in 0..((q.end - q.start + Day) % Day) - 1}
QuietHoursAreTheSpan ==
    LET q == stored["quiet_hours"]
    IN  \A utc \in 0..Day - 1 : QuietContains(q, utc) <=> q.enabled /\ LocalMinute(q, utc) \in QuietSpan(q)

\* Provider lists that an earlier version left unclean are written back once
\* and for all: from some point on both lists are canonical in the table, so
\* loads stop writing (and stop racing with users).
ListsSettle == <>[](~Dirty(stored))

-----------------------------------------------------------------------------
(* What makes the first two of these invariants inductive.                 *)

\* What a load is going to write back is what the latest PUT has stored, unless
\* there was one since it read.
WriteBacksKnown ==
    \A h \in Handler : \A k \in ListKey \ raced :
        WritesBack(h, k) => Clean(k, got[h][k]) = Clean(k, lastPut[k])

\* What a PUT has written is stored, and then read, unless somebody else has
\* written it since; the overrides are read last.
PutsKept ==
    \A h \in Handler : \A k \in DOMAIN request[h] \ (left[h] \cup overwritten[h]) :
        /\ at[h] \in {"put", "load"} \/ (at[h] = "overrides" /\ k = "overrides") =>
              stored[k] = Clean(k, request[h][k])
        /\ at[h] \in {"order", "hidden", "answer"} \/ (at[h] = "overrides" /\ k # "overrides") =>
              got[h][k] = Clean(k, request[h][k])

SettingsInv == TypeOK /\ LatestPutKept /\ WriteBacksKnown /\ PutsKept
=============================================================================
