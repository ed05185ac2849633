---------------------------- MODULE UsageReport ----------------------------
(***************************************************************************)
(* From what the upstream answers to the providers of a snapshot: the      *)
(* collection by plugin, the Devin balance put in, normalisation, and the  *)
(* catalog projection.  Everything here is a function of its arguments.    *)
(*                                                                         *)
(* A provider has an id, the flag stale, whether it reports an error, a    *)
(* set of windows and its credits.  Percentages are whole, names and       *)
(* titles are left out; a resource key is <<slug, n>>, the nth of its slug.*)
(***************************************************************************)
EXTENDS Integers, Sequences, FiniteSets, TLC

CONSTANTS
    None,           \* an absent value
    DefaultOrder,   \* defaultProviderOrder
    PluginOrder,    \* catalogPluginIDs
    Canonical,      \* canonicalProviderID on the ids and aliases in use
    Devin,          \* the provider with a collector of its own
    Noise           \* slugs that isAPINoiseWindow recognises

Catalog == {DefaultOrder[i] : i \in DOMAIN DefaultOrder}

ASSUME ReportAssumption ==
    /\ DefaultOrder \in Seq(Catalog)
    /\ \A i, j \in DOMAIN DefaultOrder : DefaultOrder[i] = DefaultOrder[j] => i = j
    /\ \A id \in Catalog : Canonical[id] = id
    /\ Devin \in Catalog

-----------------------------------------------------------------------------
(* One provider of a limits.v1 report.                                     *)

Clamped(pct) == IF pct < 0 THEN 0 ELSE IF pct > 100 THEN 100 ELSE pct

\* consumptionUsedPercent; utilization in percent.
UsedPercent(res) ==
    LET limited == res.limit # None /\ res.limit > 0
    IN  CASE res.utilization # None -> Clamped(res.utilization)
          [] res.utilization = None /\ res.used # None /\ res.unit = "percent" ->
                IF res.used <= 1 THEN res.used * 100 ELSE Clamped(res.used)
          [] OTHER ->
                CASE limited /\ res.remaining # None ->
                        Clamped(((res.limit - res.remaining) * 100) \div res.limit)
                  [] limited /\ res.remaining = None /\ res.used # None ->
                        Clamped((res.used * 100) \div res.limit)
                  [] OTHER -> None

\* skipLimitsResource.
Skipped(key, res) ==
    \/ key[1] \in Noise
    \/ res.kind \notin {"", "consumption"}
    \/ res.unit \notin {"", "percent"}

\* windowLabelFromSeconds, and inferWindowLabel where there are no seconds.
WindowLabel(key, seconds) ==
    LET hours(from, to) == seconds # None /\ seconds >= from * 3600 /\ seconds <= to * 3600
    IN  CASE hours(4, 6)         -> "5h"
          [] hours(20, 28)       -> "1d"
          [] hours(6*24, 9*24)   -> "7d"
          [] hours(25*24, 40*24) -> "30d"
          [] OTHER -> CASE key[1] = "session"    -> "5h"
                        [] key[1] = "weekly"     -> "7d"
                        [] key[1] = "totalusage" -> "30d"
                        [] OTHER -> ""

\* limitsResourceWindows; the forecast is added when the snapshot is saved.
Windows(resources) ==
    {[key |-> k, used |-> UsedPercent(resources[k]), clock |-> resources[k].clock,
      label |-> WindowLabel(k, resources[k].seconds), forecast |-> FALSE] :
        k \in {k \in DOMAIN resources :
                  ~Skipped(k, resources[k]) /\ UsedPercent(resources[k]) # None}}

\* limitsCredits: the first balance among the names a credit resource has.
CreditsOf(resources) ==
    LET names == <<"credits", "creditvalue", "credit-value">>
        IsBalance(i) == /\ <<names[i], 1>> \in DOMAIN resources
                        /\ LET res == resources[<<names[i], 1>>]
                           IN  res.kind = "balance" /\ res.unit = "credits" /\ res.available # None
    IN  IF \E i \in DOMAIN names : IsBalance(i)
        THEN resources[<<names[CHOOSE i \in DOMAIN names :
                   IsBalance(i) /\ \A j \in 1..i - 1 : ~IsBalance(j)], 1>>].available
        ELSE None

\* limitsProviderToDomain.
ProviderOf(id, raw) ==
    [id |-> id, stale |-> raw.stale, error |-> FALSE,
     windows |-> Windows(raw.resources), credits |-> CreditsOf(raw.resources)]

Errored(id) == [id |-> id, stale |-> FALSE, error |-> TRUE, windows |-> {}, credits |-> None]

KeepPlanProvider(p) == p.id \in Catalog /\ (p.windows # {} \/ p.error \/ p.stale)

\* What a snapshot is made of.
IsWindow(w) ==
    /\ w = [key |-> w.key, used |-> w.used, clock |-> w.clock, label |-> w.label, forecast |-> w.forecast]
    /\ w.forecast \in BOOLEAN
IsProvider(p) ==
    /\ p = [id |-> p.id, stale |-> p.stale, error |-> p.error, windows |-> p.windows, credits |-> p.credits]
    /\ p.stale \in BOOLEAN /\ p.error \in BOOLEAN
    /\ IsFiniteSet(p.windows) /\ \A w \in p.windows : IsWindow(w)
IsProviders(ps) ==
    /\ ps \in Seq({ps[i] : i \in DOMAIN ps})
    /\ \A i \in DOMAIN ps : IsProvider(ps[i])

-----------------------------------------------------------------------------
(* Envelopes: a function from raw ids to providers, and raw ids of errors. *)

Empty == [providers |-> <<>>, errors |-> {}]

Known(env) == {Canonical[raw] : raw \in DOMAIN env.providers \cup env.errors}

Only(f, S) == [x \in S |-> f[x]]

\* One more plugin's answer in collectLimitsByID: the first to name a
\* provider, or its error, wins.  An answer is walked in random order, so any
\* of several aliases in it may be the first.
Merge(base, extra) ==
    LET fresh == {raw \in DOMAIN extra.providers : Canonical[raw] \notin Known(base)}
        named == Known(base) \cup {Canonical[raw] : raw \in fresh}
        taken == {S \in SUBSET fresh :
                     /\ {Canonical[raw] : raw \in S} = {Canonical[raw] : raw \in fresh}
                     /\ \A r, s \in S : Canonical[r] = Canonical[s] => r = s}
    IN  {[providers |-> base.providers @@ Only(extra.providers, S),
          errors |-> base.errors \cup {raw \in extra.errors : Canonical[raw] \notin named}] : S \in taken}

\* collectLimitsByID: the envelopes it may build from what each plugin answered
\* when asked alone; there is none when no plugin gave limits.
CollectByID(each) ==
    LET merged[n \in 0..Len(PluginOrder)] ==
            IF n = 0 THEN {Empty}
            ELSE IF each[PluginOrder[n]].kind = "limits"
                 THEN UNION {Merge(base, each[PluginOrder[n]].env) : base \in merged[n - 1]}
                 ELSE merged[n - 1]
    IN  IF \E id \in DOMAIN each : each[id].kind = "limits" THEN merged[Len(PluginOrder)] ELSE {}

\* usageLinesToLimits: progress lines only; lines of one label get numbers.
LinesToLimits(snaps) ==
    LET Nth(lines, i) == Cardinality({j \in 1..i : lines[j].label = lines[i].label})
        Keyed(lines)  == {i \in DOMAIN lines : lines[i].type = "progress"}
        Resources(lines) ==
            [k \in {<<lines[i].label, Nth(lines, i)>> : i \in Keyed(lines)} |->
                LET line == lines[CHOOSE i \in Keyed(lines) : k = <<lines[i].label, Nth(lines, i)>>]
                IN  [kind |-> "", unit |-> line.format, utilization |-> None, used |-> line.used,
                     limit |-> line.limit, remaining |-> None, available |-> None,
                     clock |-> line.clock, seconds |-> line.seconds]]
    IN  [providers |-> [raw \in {snaps[i].id : i \in DOMAIN snaps} |->
             LET last == CHOOSE i \in DOMAIN snaps :
                             snaps[i].id = raw /\ \A j \in DOMAIN snaps : snaps[j].id = raw => j <= i
             IN  [stale |-> snaps[last].stale, resources |-> Resources(snaps[last].lines)]],
         errors |-> {}]

\* The envelope of a body, as Normalize and limitsEnvelopeFromBody read it;
\* None when it is neither limits.v1 nor usage lines.
Envelope(body) ==
    CASE body.kind = "limits" -> body.env
      [] body.kind = "lines"  -> LinesToLimits(body.lines)
      [] OTHER                -> None

-----------------------------------------------------------------------------
(* The Devin collector.                                                    *)

\* creditBalanceToLimitsProvider; None when nothing can be made of it.
BalanceProvider(bal) ==
    LET Amount(n) == IF n = None \/ n < 0 THEN 0 ELSE n
        limit     == Amount(bal.used) + Amount(bal.available)
        Plain     == [kind |-> "", unit |-> "", utilization |-> None, used |-> None, limit |-> None,
                      remaining |-> None, available |-> None, clock |-> None, seconds |-> None]
        gauge     == [Plain EXCEPT !.kind = "consumption", !.unit = "percent",
                          !.used = Amount(bal.used), !.limit = limit, !.remaining = Amount(bal.available),
                          !.utilization = (Amount(bal.used) * 100) \div limit,
                          !.clock = bal.clock, !.seconds = bal.seconds]
        balance   == [Plain EXCEPT !.kind = "balance", !.unit = "credits", !.available = Amount(bal.available)]
    IN  IF limit = 0 THEN None
        ELSE [stale |-> FALSE,
              resources |-> (<<"credits", 1>> :> gauge) @@
                            (IF bal.available = None THEN <<>> ELSE <<"credit-value", 1>> :> balance)]

\* stripCatalogProvider.
Strip(env, id) ==
    [providers |-> Only(env.providers, {raw \in DOMAIN env.providers : Canonical[raw] # id}),
     errors |-> {raw \in env.errors : Canonical[raw] # id}]

\* attachDevinLimits: without a key (devin = None) the body stays as it is;
\* with one, Devin's own answer or its error replaces whatever the body says
\* (devin.balance = None: the request failed).
AttachDevin(body, devin) ==
    IF devin = None \/ Envelope(body) = None THEN body
    ELSE LET rest     == Strip(Envelope(body), Devin)
             provider == IF devin.balance = None THEN None ELSE BalanceProvider(devin.balance)
         IN  [kind |-> "limits",
              env |-> IF provider = None THEN [rest EXCEPT !.errors = @ \cup {Devin}]
                      ELSE [rest EXCEPT !.providers = (Devin :> provider) @@ @]]

\* CollectCrossUsageLimits and the other transports: the bodies that an answer
\* of the upstream may become, none when the fetch fails.  A binary is asked
\* for all plugins at once, then for one after the other.
Fetched(up) ==
    CASE up.mode = "body" -> {AttachDevin(body, up.devin) : body \in {up.body} \ {None}}
      [] up.mode = "binary" /\ up.all.kind = "limits" -> {AttachDevin(up.all, up.devin)}
      [] OTHER -> {AttachDevin([kind |-> "limits", env |-> env], up.devin) : env \in CollectByID(up.each)}

-----------------------------------------------------------------------------
(* Normalisation and projection.                                           *)

\* The providers of an envelope that survive under one canonical id.
Candidates(env, id) ==
    {p \in {ProviderOf(id, env.providers[raw]) :
                raw \in {raw \in DOMAIN env.providers : Canonical[raw] = id}} : KeepPlanProvider(p)}

\* The values of a function on some of the numbers 1..n, as a sequence.
InSequence(f, n) ==
    LET out[i \in 0..n] ==
            IF i = 0 THEN <<>>
            ELSE IF i \in DOMAIN f THEN Append(out[i - 1], f[i]) ELSE out[i - 1]
    IN  out[n]

\* The values of a function on ids, in default order.
InOrder(f) ==
    LET places == {i \in DOMAIN DefaultOrder : DefaultOrder[i] \in DOMAIN f}
    IN  InSequence([i \in places |-> f[DefaultOrder[i]]], Len(DefaultOrder))

\* normalizeLimitsV1: the sequences of providers it may return.  The map of
\* an envelope is walked in random order, so any of several aliases of one
\* provider may win; an error counts only where no provider was kept.
Normalized(env) ==
    LET kept    == {id \in Catalog : Candidates(env, id) # {}}
        errored == {id \in Catalog \ kept : \E raw \in env.errors : Canonical[raw] = id}
        picks   == {f \in [kept -> UNION {Candidates(env, id) : id \in kept}] :
                        \A id \in kept : f[id] \in Candidates(env, id)}
    IN  {InOrder([id \in kept \cup errored |-> IF id \in kept THEN f[id] ELSE Errored(id)]) : f \in picks}

\* projectCatalogProviders: one entry for each provider of the catalog, the
\* one with the most windows, where the first of its entries stands.
Project(ps) ==
    LET id(i)    == Canonical[ps[i].id]
        known    == {i \in DOMAIN ps : id(i) \in Catalog}
        firsts   == {i \in known : \A j \in 1..i - 1 : id(j) # id(i)}
        size(i)  == Cardinality(ps[i].windows)
        best(i)  == CHOOSE j \in known : /\ id(j) = id(i)
                        /\ \A k \in known : id(k) = id(i) =>
                              size(k) <= size(j) /\ (k < j => size(k) < size(j))
    IN  InSequence([i \in firsts |-> [ps[best(i)] EXCEPT !.id = id(i)]], Len(ps))
=============================================================================
