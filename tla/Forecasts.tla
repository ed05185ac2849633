----------------------------- MODULE Forecasts -----------------------------
(***************************************************************************)
(* The usage samples and the forecasts of SaveSnapshotWithForecasts: one   *)
(* transaction inserts a sample for each fresh window with a reset time,   *)
(* computes its forecast, caps and prunes the samples and stores the       *)
(* snapshot.  Any of its statements may fail, or be the last before a kill.*)
(*                                                                         *)
(* A window stands for a provider with one window.  Time is in ticks, and  *)
(* usage in whole percent, so that slopes and estimates are ratios of      *)
(* integers; they are compared by cross-multiplication.                    *)
(***************************************************************************)
EXTENDS Integers, FiniteSets, Functions

CONSTANTS
    None,       \* no forecast, no reset time, no known window length
    Window,
    Reports,    \* functions from windows to Reading
    Steps,      \* ticks that may pass between two polls
    MinSpan,    \* 30 minutes, in ticks
    Horizon,    \* 24 hours
    Retention,  \* 7 days
    Cap,        \* samples kept for a window (500)
    MaxTime     \* bound on the clock

\* What a report says of a window, and what the snapshot has of it beside.
Reading == [stale : BOOLEAN, used : 0..100, clock : Nat \cup {None}, length : Nat \cup {None}]
Forecast == [source : {"pace", "history"}, samples : Nat, exhausts : BOOLEAN,
             projected : Nat \cup {None}, says : {"nothing", "by reset", "full", "on track"}]
Shown == [stale : BOOLEAN, used : 0..100, clock : Nat \cup {None}, length : Nat \cup {None},
          forecast : Forecast \cup {None}]
Row == [window : Window, epoch : Nat, at : Nat, used : 0..100]

ASSUME ForecastAssumption ==
    /\ {MinSpan, Horizon, Retention, Cap, MaxTime} \subseteq Nat
    /\ Steps \subseteq Nat \ {0}
    /\ Horizon <= Retention
    /\ Reports \subseteq [Window -> Reading]
    /\ None \notin Nat \cup Forecast \cup [at : Nat, stale : BOOLEAN, windows : [Window -> Shown]]
               \cup [rows : SUBSET Row, left : SUBSET Window, windows : [Window -> Shown]]

VARIABLES
    samples,    \* the rows of window_samples
    snapshot,   \* [at, stale, windows], or None
    now,
    tx,         \* the transaction in progress, or None
    observed    \* history: the samples of all fresh reports that were committed

vars == <<samples, snapshot, now, tx, observed>>

Init ==
    /\ samples = {}
    /\ snapshot = None
    /\ now = 0
    /\ tx = None
    /\ observed = {}

\* Rows of a window, and rows in the order of their times: the queries sort by
\* sampled_at, and no two samples of a window have the same.
Of(w, rows)  == {e \in rows : e.window = w}
Oldest(S)    == CHOOSE e \in S : \A d \in S : e.at <= d.at
Newest(S)    == CHOOSE e \in S : \A d \in S : d.at <= e.at
Latest(S, n) == {e \in S : Cardinality({d \in S : d.at > e.at}) < n}

-----------------------------------------------------------------------------
(* paceProjection: usage over the part of the window that has passed.      *)

\* What the annotation says: that 100 percent come before a time, or how much
\* there will be at the reset; "nothing" when only the reset can be told.
PaceProjection(r, time) ==
    LET resetIn == r.clock - time
        elapsed == r.length - resetIn
        known   == 0 < r.used /\ r.used < 100 /\ elapsed > 0
        fills   == (100 - r.used) * elapsed <= resetIn * r.used
        atReset == (2 * r.used * r.length + elapsed) \div (2 * elapsed)
    IN  IF r.clock = None \/ r.length = None \/ (~known /\ resetIn <= 0) THEN None
        ELSE [source |-> "pace", samples |-> 0,
              exhausts  |-> known /\ resetIn > 0 /\ fills,
              projected |-> IF known /\ resetIn > 0 /\ ~fills
                            THEN IF atReset >= 100 THEN 99 ELSE atReset ELSE None,
              says      |-> CASE ~known -> "nothing"
                              [] known /\ resetIn > 0 /\ ~fills -> "by reset"
                              [] OTHER -> "full"]

-----------------------------------------------------------------------------
(* forecastWindowTx: a straight line through the samples of this cycle.    *)

\* Mutant: samples from before a fall stay.
CurrentSegmentWhole(S) == S

\* The samples since usage last fell.
CurrentSegment(S) == {e \in S : \A c, d \in S : e.at <= c.at /\ c.at < d.at => c.used <= d.used}

\* The line of least squares has the slope Rise / RunOf, x being the time
\* since the first sample and y its usage.
Elapsed(S)  == [e \in S |-> e.at - Oldest(S).at]
Usage(S)    == [e \in S |-> e.used]
Cross(f, g) == Cardinality(DOMAIN f) * SumFunction([e \in DOMAIN f |-> f[e] * g[e]])
                   - SumFunction(f) * SumFunction(g)
Rise(S)  == Cross(Elapsed(S), Usage(S))
RunOf(S) == Cross(Elapsed(S), Elapsed(S))

\* The samples of a window for this reset, at most a day old.
Recent(rows, w, r, time) == {e \in Of(w, rows) : e.epoch = r.clock /\ e.at >= time - Horizon}

ForecastWindow(rows, w, r, time) ==
    LET s == CurrentSegment(Recent(rows, w, r, time))
    IN  IF \/ Cardinality(s) < 3
           \/ Newest(s).at - Oldest(s).at < MinSpan \/ Newest(s).used - Oldest(s).used < 1
           \/ RunOf(s) = 0 \/ Rise(s) <= 0 \/ r.used >= 100
        THEN None
        ELSE [source |-> "history", samples |-> Cardinality(s), projected |-> None, says |-> "nothing",
              exhausts |-> (100 - r.used) * RunOf(s) < (r.clock - time) * Rise(s)]

\* Mutant: the annotation of the pace is taken whatever the history says.
PreferForecastAnnotated(pace, history) ==
    IF history = None THEN pace
    ELSE IF pace = None THEN history
    ELSE [history EXCEPT !.says = pace.says, !.projected = pace.projected]

\* preferForecast: history decides; the annotation of the pace goes with it
\* only where both agree.
PreferForecast(pace, history) ==
    IF history = None THEN pace
    ELSE IF pace = None THEN history
    ELSE IF history.exhausts = pace.exhausts
         THEN [history EXCEPT !.says = pace.says, !.projected = pace.projected]
         ELSE [history EXCEPT !.says = IF @ # "nothing" THEN @
                                       ELSE IF history.exhausts THEN "full" ELSE "on track"]

-----------------------------------------------------------------------------
\* What the merge with the stored snapshot makes of a window the upstream
\* could not read: the last known one, with its forecast.
Merged(w, r) ==
    IF r.stale /\ snapshot # None
    THEN [snapshot.windows[w] EXCEPT !.stale = TRUE]
    ELSE [stale |-> r.stale, used |-> r.used, clock |-> r.clock, length |-> r.length, forecast |-> None]

\* A poll hands its snapshot to SaveSnapshotWithForecasts.
Begin ==
    /\ tx = None
    /\ \E step \in Steps, report \in Reports :
          /\ now + step <= MaxTime
          /\ now' = now + step
          /\ tx' = [rows |-> samples, left |-> Window,
                    windows |-> [w \in Window |-> Merged(w, report[w])]]
    /\ UNCHANGED <<samples, snapshot, observed>>

Sample(w, r, time) == [window |-> w, epoch |-> r.clock, at |-> time, used |-> r.used]

\* The rows of other windows, and the latest of this one.
Capped(rows, w) == {e \in rows : e.window = w => e \in Latest(Of(w, rows), Cap)}

\* The statements about one window.
SaveWindow ==
    /\ tx # None
    /\ \E w \in tx.left :
          LET r       == tx.windows[w]
              pace    == PaceProjection(r, now)
              rows    == tx.rows \cup {Sample(w, r, now)}
              history == ForecastWindow(rows, w, r, now)
              With(f) == [tx.windows EXCEPT ![w].forecast = f]
          IN  \/ /\ r.stale
                 /\ tx' = [tx EXCEPT !.left = @ \ {w}, !.windows = With(None)]
              \/ /\ ~r.stale /\ r.clock = None
                 /\ tx' = [tx EXCEPT !.left = @ \ {w}, !.windows = With(pace)]
              \/ /\ ~r.stale /\ r.clock # None
                 /\ tx' = [rows |-> Capped(rows, w), left |-> tx.left \ {w},
                           windows |-> With(PreferForecast(pace, history))]
    /\ UNCHANGED <<samples, snapshot, now, observed>>

\* Old samples are pruned, the snapshot is stored, and all is committed.
Commit ==
    /\ tx # None /\ tx.left = {}
    /\ samples' = {e \in tx.rows : e.at >= now - Retention}
    /\ snapshot' = [at |-> now, stale |-> FALSE, windows |-> tx.windows]
    /\ tx' = None
    /\ observed' = observed \cup
          {Sample(w, tx.windows[w], now) :
              w \in {w \in Window : ~tx.windows[w].stale /\ tx.windows[w].clock # None}}
    /\ UNCHANGED now

\* Mutant: the samples are written outside of the transaction.
RollbackKeepsSamples ==
    /\ tx # None
    /\ samples' = tx.rows
    /\ tx' = None
    /\ UNCHANGED <<snapshot, now, observed>>

\* A statement fails, or the process is killed.
Rollback ==
    /\ tx # None
    /\ tx' = None
    /\ UNCHANGED <<samples, snapshot, now, observed>>

\* markStale, after a failed fetch: forecasts go with the freshness.
MarkStale ==
    /\ tx = None /\ snapshot # None /\ ~snapshot.stale
    /\ snapshot' = [snapshot EXCEPT !.stale = TRUE,
                       !.windows = [w \in Window |-> [@[w] EXCEPT !.forecast = None]]]
    /\ UNCHANGED <<samples, now, tx, observed>>

Next == Begin \/ SaveWindow \/ Commit \/ Rollback \/ MarkStale

Spec == Init /\ [][Next]_vars

-----------------------------------------------------------------------------
(* What must hold.                                                         *)

TypeOK ==
    /\ samples \subseteq Row /\ observed \subseteq Row
    /\ \A w \in Window : IsFiniteSet(Of(w, observed)) /\ Cardinality(Of(w, samples)) <= Cap
    /\ now \in 0..MaxTime
    /\ snapshot # None =>
          snapshot \in [at : 0..now, stale : BOOLEAN, windows : [Window -> Shown]]
    /\ tx # None =>
          tx \in [rows : SUBSET Row, left : SUBSET Window, windows : [Window -> Shown]]

\* A burn forecast stands on this cycle only: on the latest samples of the
\* window with its present reset time, at most a day old, that do not fall,
\* at least three over half an hour and one point.  A window that has such
\* samples among the rows kept has such a forecast, and uses all of them (the
\* new sample counts beside the Cap that were kept); failed polls, restarts,
\* other windows and other cycles neither add nor take away any.  Whatever is
\* stale has no forecast.
InCycle(rows) ==
    LET kept == Latest(rows, Cap + 1)
        last == Newest(kept)
    IN  {e \in kept : e.epoch = last.epoch /\ e.at >= last.at - Horizon}
Since(S, e) == {d \in S : d.at >= e.at}
Supports(S) ==
    /\ Cardinality(S) >= 3
    /\ \A c, d \in S : c.at < d.at => c.used <= d.used
    /\ Newest(S).at - Oldest(S).at >= MinSpan
    /\ Newest(S).used - Oldest(S).used >= 1
    /\ Newest(S).used < 100
RestsOnCycle(r, cycle) ==
    LET runs == {S \in {Since(cycle, e) : e \in cycle} : Supports(S)}
    IN  IF runs = {} THEN r.forecast # None => r.forecast.source = "pace"
        ELSE /\ r.forecast # None /\ r.forecast.source = "history"
             /\ \E S \in runs : r.forecast.samples = Cardinality(S) /\ \A T \in runs : T \subseteq S
Founded(r, rows) ==
    IF r.stale THEN r.forecast = None
    ELSE IF r.clock = None THEN r.forecast # None => r.forecast.source = "pace"
    ELSE RestsOnCycle(r, InCycle(rows))
HistoryIsThisCycle ==
    snapshot # None =>
        \A w \in Window :
            IF snapshot.stale THEN snapshot.windows[w].forecast = None
            ELSE Founded(snapshot.windows[w], Of(w, observed))

\* A forecast does not contradict itself: as long as the reset lies ahead, the
\* annotation promises 100 percent only when the forecast says that usage is
\* exhausted before the reset, says nothing else when it does, and a projected
\* percentage is one below 100 and goes with no such verdict.
Consistent(r, time) ==
    r.forecast # None /\ r.clock > time =>
        /\ r.forecast.says = "full" => r.forecast.exhausts
        /\ r.forecast.exhausts => r.forecast.says \in {"full", "nothing"}
        /\ r.forecast.projected # None => ~r.forecast.exhausts /\ r.forecast.projected < 100
ForecastsAgree ==
    snapshot # None => \A w \in Window : Consistent(snapshot.windows[w], snapshot.at)

\* A failed write leaves no samples ahead of the snapshot that produced them:
\* every sample is one of a snapshot that was stored.
SamplesFromSnapshots == samples \subseteq observed

-----------------------------------------------------------------------------
(* What makes these invariants inductive.                                  *)

LastCommit == IF snapshot = None THEN 0 ELSE snapshot.at
Retained(rows) == {e \in Latest(rows, Cap) : e.at >= LastCommit - Retention}

\* The table holds the latest samples of each window, as far as the last
\* commit has not pruned them.
SamplesKept ==
    /\ \A e \in observed : e.at <= LastCommit
    /\ \A d, e \in observed : d.window = e.window /\ d.at = e.at => d = e
    /\ \A w \in Window : Of(w, samples) = Retained(Of(w, observed))

\* A transaction has done what there is to do for the windows it is through
\* with, and nothing yet for the others.
InTransaction ==
    tx # None =>
        /\ LastCommit < now
        /\ \A w \in Window :
              LET r    == tx.windows[w]
                  rows == Of(w, observed) \cup {Sample(w, r, now)}
              IN  /\ Of(w, tx.rows) = IF w \notin tx.left /\ ~r.stale /\ r.clock # None
                                     THEN Retained(rows) ELSE Of(w, samples)
                  /\ w \notin tx.left => Founded(r, rows) /\ Consistent(r, now)

ForecastInv ==
    /\ TypeOK /\ SamplesKept /\ InTransaction
    /\ HistoryIsThisCycle /\ ForecastsAgree
=============================================================================
