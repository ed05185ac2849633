----------------------------- MODULE PollFlight -----------------------------
(***************************************************************************)
(* Who runs a poll cycle, and who shares its result: the scheduler loop    *)
(* Poller.Run, the single flight of Poller.PollNow, and the coalescing of  *)
(* POST /v1/poll requests in API.handleForcePoll.                          *)
(*                                                                         *)
(* Every section under Poller.mu or API.mu is one step, and so is every    *)
(* return from a select.  A poll cycle itself (pollOnceUnlocked) is a      *)
(* stretch of time between two steps that ends with some result.  The      *)
(* pollCall objects are drawn from finite sets and used again once nothing *)
(* refers to them, so behaviours have no end but shutdown.                 *)
(***************************************************************************)
EXTENDS FiniteSets

CONSTANTS
    Call,      \* pollCall objects of PollNow
    Manual,    \* pollCall objects of handleForcePoll
    Client,    \* POST /v1/poll requests being served
    None       \* nil

ASSUME FlightAssumption ==
    /\ IsFiniteSet(Call) /\ IsFiniteSet(Manual) /\ IsFiniteSet(Client)
    /\ None \notin Call \cup Manual

\* All that is looked at in a PollResult here: a transient failure, or not.
Result == {"retryable", "other"}

VARIABLES
    inFlight,      \* Poller.inFlight
    stage,         \* per pollCall of PollNow: unused, running, ended, done closed
    result,        \* pollCall.result
    sched,         \* where Run is
    joined,        \* the pollCall Run waits for
    manualPoll,    \* API.manualPoll
    lastManual,    \* API.lastManualPoll
    recent,        \* lastManualPollAt is less than 10 seconds ago
    helper,        \* the goroutine of handleForcePoll, one per manual call
    shares,        \* the pollCall of PollNow that a manual call waits for
    asked,         \* the manual call a request waits for
    stopping,      \* SIGTERM arrived: Run's context is done
    exited,        \* main returned
    old            \* history: polls already over when a manual call began

schedulerVars == <<sched, joined>>
flightVars    == <<inFlight, stage, result>>
manualVars    == <<manualPoll, lastManual, recent, helper, shares>>
vars == <<flightVars, schedulerVars, manualVars, asked, stopping, exited, old>>

Init ==
    /\ inFlight = None
    /\ stage = [k \in Call |-> "unused"]
    /\ result = [k \in Call |-> "other"]
    /\ sched = "poll"
    /\ joined = None
    /\ manualPoll = None
    /\ lastManual = None
    /\ recent = FALSE
    /\ helper = [m \in Manual |-> "unused"]
    /\ shares = [m \in Manual |-> None]
    /\ asked = [c \in Client |-> None]
    /\ stopping = FALSE
    /\ exited = FALSE
    /\ old = [m \in Manual |-> {}]

-----------------------------------------------------------------------------
(* Poller.PollNow.                                                         *)

\* Nothing refers to the object, so a new pollCall may be it.
FreshCall(k) ==
    /\ k # inFlight
    /\ k # joined
    /\ \A m \in Manual : helper[m] = "waiting" => shares[m] # k

\* Mutant: a caller does not look for a poll in flight.
PollNowAlways(k) ==
    /\ FreshCall(k) /\ stage[k] \in {"unused", "published"}
    /\ inFlight' = k
    /\ stage' = [stage EXCEPT ![k] = "running"]
    /\ old' = [m \in Manual |-> old[m] \ {k}]

\* Joins the poll in flight, or starts one in a goroutine of its own.
PollNow(k) ==
    \/ /\ inFlight # None
       /\ k = inFlight
       /\ UNCHANGED <<inFlight, stage, old>>
    \/ /\ inFlight = None
       /\ FreshCall(k)
       /\ inFlight' = k
       /\ stage' = [stage EXCEPT ![k] = "running"]
       /\ old' = [m \in Manual |-> old[m] \ {k}]

\* pollOnceUnlocked returns; the poll's own timeout sees to it that it does.
PollEnds(k, r) ==
    /\ stage[k] = "running"
    /\ stage' = [stage EXCEPT ![k] = "ended"]
    /\ result' = [result EXCEPT ![k] = r]
    /\ UNCHANGED <<inFlight, schedulerVars, manualVars, asked, stopping, exited, old>>

\* Mutant: done is never closed.
PublishWithoutClose(k) ==
    /\ stage[k] = "ended"
    /\ inFlight' = None
    /\ UNCHANGED <<stage, result, schedulerVars, manualVars, asked, stopping, exited, old>>

\* Mutant: done is closed and the flight stays.
PublishKeepsFlight(k) ==
    /\ stage[k] = "ended"
    /\ stage' = [stage EXCEPT ![k] = "published"]
    /\ UNCHANGED <<inFlight, result, schedulerVars, manualVars, asked, stopping, exited, old>>

\* The flight is over and its result final, in one section.
Publish(k) ==
    /\ stage[k] = "ended"
    /\ stage' = [stage EXCEPT ![k] = "published"]
    /\ inFlight' = None
    /\ UNCHANGED <<result, schedulerVars, manualVars, asked, stopping, exited, old>>

-----------------------------------------------------------------------------
(* Poller.Run: a poll every interval, and one retry 30 seconds after a     *)
(* transient failure.                                                      *)

RunPolls ==
    /\ sched \in {"poll", "retry"}
    /\ \E k \in Call : PollNow(k) /\ joined' = k
    /\ sched' = IF sched = "poll" THEN "polling" ELSE "retrying"
    /\ UNCHANGED <<result, manualVars, asked, stopping, exited>>

\* Mutant: Run waits for the poll whatever happens to its context.
RunResumesWithResult ==
    /\ sched \in {"polling", "retrying"}
    /\ stage[joined] = "published"
    /\ sched' = IF sched = "polling" /\ result[joined] = "retryable" THEN "backoff" ELSE "sleep"
    /\ joined' = None
    /\ UNCHANGED <<flightVars, manualVars, asked, stopping, exited, old>>

\* call.wait returns the result, or nothing to retry when the context ends.
RunResumes ==
    /\ sched \in {"polling", "retrying"}
    /\ \/ stage[joined] = "published"
          /\ sched' = IF sched = "polling" /\ result[joined] = "retryable"
                      THEN "backoff" ELSE "sleep"
       \/ stopping /\ sched' = "sleep"
    /\ joined' = None
    /\ UNCHANGED <<flightVars, manualVars, asked, stopping, exited, old>>

\* waitUntil returns true: the timer fired.
RunWakes ==
    /\ sched \in {"backoff", "sleep"}
    /\ sched' = IF sched = "backoff" THEN "retry" ELSE "poll"
    /\ UNCHANGED <<joined, flightVars, manualVars, asked, stopping, exited, old>>

\* Mutant: a done context ends the wait, not the loop.
RunStopsWaiting ==
    /\ sched \in {"backoff", "sleep"}
    /\ stopping
    /\ sched' = "poll"
    /\ UNCHANGED <<joined, flightVars, manualVars, asked, stopping, exited, old>>

\* waitUntil returns false: the context is done.  With the timer ready too,
\* select takes either.
RunStops ==
    /\ sched \in {"backoff", "sleep"}
    /\ stopping
    /\ sched' = "stopped"
    /\ UNCHANGED <<joined, flightVars, manualVars, asked, stopping, exited, old>>

-----------------------------------------------------------------------------
(* API.handleForcePoll.                                                    *)

FreshManual(m) ==
    /\ m # manualPoll /\ m # lastManual
    /\ \A c \in Client : asked[c] # m

\* Mutant: the last result is served however old it is.
SharedCallAlways == IF manualPoll # None THEN manualPoll ELSE lastManual

\* The call a request shares: the one running, or the last one while it is
\* less than 10 seconds since that began.
SharedCall ==
    IF manualPoll # None THEN manualPoll
    ELSE IF recent THEN lastManual
    ELSE None

ForcePoll(c) ==
    /\ asked[c] = None
    /\ \/ /\ SharedCall # None
          /\ asked' = [asked EXCEPT ![c] = SharedCall]
          /\ UNCHANGED <<manualVars, old>>
       \/ /\ SharedCall = None
          /\ \E m \in Manual :
              /\ FreshManual(m)
              /\ asked' = [asked EXCEPT ![c] = m]
              /\ manualPoll' = m
              /\ helper' = [helper EXCEPT ![m] = "started"]
              /\ old' = [old EXCEPT ![m] = {k \in Call : stage[k] = "published"}]
          /\ recent' = TRUE
          /\ UNCHANGED <<lastManual, shares>>
    /\ UNCHANGED <<flightVars, schedulerVars, stopping, exited>>

HelperPolls(m) ==
    /\ helper[m] = "started"
    /\ \E k \in Call : PollNow(k) /\ shares' = [shares EXCEPT ![m] = k]
    /\ helper' = [helper EXCEPT ![m] = "waiting"]
    /\ UNCHANGED <<result, schedulerVars, manualPoll, lastManual, recent, asked, stopping, exited>>

\* PollNow returns to the goroutine: the poll it shares is over, or its own
\* timeout is, which is longer than the interval.
HelperAnswers(m) ==
    /\ helper[m] = "waiting"
    /\ stage[shares[m]] = "published" \/ ~ recent
    /\ helper' = [helper EXCEPT ![m] = "answered"]
    /\ UNCHANGED <<flightVars, schedulerVars, manualPoll, lastManual, recent, shares, asked,
                   stopping, exited, old>>

\* Mutant: done stays open.
HelperPublishesNothing(m) ==
    /\ helper[m] = "answered"
    /\ manualPoll' = None
    /\ lastManual' = m
    /\ UNCHANGED <<flightVars, schedulerVars, recent, helper, shares, asked, stopping, exited,
                   old>>

HelperPublishes(m) ==
    /\ helper[m] = "answered"
    /\ helper' = [helper EXCEPT ![m] = "published"]
    /\ manualPoll' = None
    /\ lastManual' = m
    /\ shares' = [shares EXCEPT ![m] = None]
    /\ old' = [old EXCEPT ![m] = {}]
    /\ UNCHANGED <<flightVars, schedulerVars, recent, asked, stopping, exited>>

\* The request's wait returns: answered, or its client has left.
Respond(c) ==
    /\ asked[c] # None
    /\ helper[asked[c]] = "published"
    /\ asked' = [asked EXCEPT ![c] = None]
    /\ UNCHANGED <<flightVars, schedulerVars, manualVars, stopping, exited, old>>

Leave(c) ==
    /\ asked[c] # None
    /\ asked' = [asked EXCEPT ![c] = None]
    /\ UNCHANGED <<flightVars, schedulerVars, manualVars, stopping, exited, old>>

-----------------------------------------------------------------------------
(* Time, and the end of the process.                                       *)

IntervalPasses ==
    /\ recent
    /\ recent' = FALSE
    /\ UNCHANGED <<flightVars, schedulerVars, manualPoll, lastManual, helper, shares,
                   asked, stopping, exited, old>>

Stop ==
    /\ ~ stopping
    /\ stopping' = TRUE
    /\ UNCHANGED <<flightVars, schedulerVars, manualVars, asked, exited, old>>

\* main waits for Run and, for at most ten seconds, for the requests; a poll
\* still running is killed with the process.
Exit ==
    /\ sched = "stopped"
    /\ exited' = TRUE
    /\ UNCHANGED <<flightVars, schedulerVars, manualVars, asked, stopping, old>>

Poll    == \E k \in Call : Publish(k) \/ \E r \in Result : PollEnds(k, r)
Run     == RunPolls \/ RunResumes \/ RunWakes \/ RunStops
Help(m) == HelperPolls(m) \/ HelperAnswers(m) \/ HelperPublishes(m)

Next ==
    /\ ~ exited
    /\ \/ Poll \/ Run \/ IntervalPasses \/ Stop \/ Exit
       \/ \E m \in Manual : Help(m)
       \/ \E c \in Client : ForcePoll(c) \/ Respond(c) \/ Leave(c)

Spec == Init /\ [][Next]_vars

\* The scheduler loop and main run when they can, timers fire, and select,
\* which chooses at random, does not pass over a done context for ever.
MainRuns ==
    WF_vars(~ exited /\ Run) /\ SF_vars(~ exited /\ RunStops) /\ WF_vars(~ exited /\ Exit)

\* A poll ends within its timeout and its goroutine publishes the result.
PollsEnd == WF_vars(~ exited /\ Poll)

\* The goroutines of the manual polls and of the requests run when they can.
RequestsRun ==
    /\ \A m \in Manual : WF_vars(~ exited /\ Help(m))
    /\ \A c \in Client : WF_vars(~ exited /\ Respond(c))

\* A poll may hang: only Run and main are sure to move.
FairSpec == Spec /\ MainRuns

-----------------------------------------------------------------------------
(* Properties.                                                             *)

\* Every part has its type; a flight is a poll not yet published, and Run
\* waits for a poll exactly while it is in one.
TypeOK ==
    /\ inFlight \in Call \cup {None}
    /\ \A k \in Call : stage[k] \in {"running", "ended"} <=> k = inFlight
    /\ sched \in {"polling", "retrying"} <=> joined # None
    /\ stage \in [Call -> {"unused", "running", "ended", "published"}]
    /\ result \in [Call -> Result]
    /\ sched \in {"poll", "polling", "backoff", "retry", "retrying", "sleep", "stopped"}
    /\ joined \in Call \cup {None}
    /\ manualPoll \in Manual \cup {None}
    /\ lastManual \in Manual \cup {None}
    /\ recent \in BOOLEAN
    /\ helper \in [Manual -> {"unused", "started", "waiting", "answered", "published"}]
    /\ shares \in [Manual -> Call \cup {None}]
    /\ asked \in [Client -> Manual \cup {None}]
    /\ stopping \in BOOLEAN /\ exited \in BOOLEAN
    /\ old \in [Manual -> SUBSET Call]

\* However scheduled polls, retries and requests interleave, no two poll
\* cycles ever run at the same time: the engine and the dispatch loop rely on
\* having the store's alerts to themselves.
OnePollAtATime ==
    \A j, k \in Call : stage[j] = "running" /\ stage[k] = "running" => j = k

\* What a manual call reports is never older than the call: the poll it
\* shares was not over when the first request for it came in.
AnswersAreCurrent ==
    \A m \in Manual : helper[m] \in {"waiting", "answered"} => shares[m] \notin old[m]

\* The strengthening behind AnswersAreCurrent and ReuseIsRecent: only published
\* polls are old, and the manual call at work is the one in API.manualPoll.
ManualAtWork ==
    /\ \A m \in Manual : \A k \in old[m] : stage[k] = "published"
    /\ \A m \in Manual : helper[m] \in {"started", "waiting", "answered"} <=> m = manualPoll

\* A request that comes in while no manual poll runs is served an old result
\* only within the interval.
ReuseIsRecent ==
    [][\A c \in Client :
        (asked[c] = None /\ asked'[c] # None /\ helper[asked'[c]] = "published"
            /\ helper'[asked'[c]] = "published") => recent]_vars

\* When polls end, every request is answered, even if its client stays to the
\* end and other clients leave, unless the process exits first.
EveryRequestAnswered ==
    PollsEnd /\ RequestsRun =>
        \A c \in Client : asked[c] # None ~> (asked[c] = None \/ exited)

\* When polls end, the scheduler goes on polling until shutdown.
PollingGoesOn == PollsEnd => []<>(sched = "poll" \/ exited)

\* Shutdown ends, even when a poll hangs.
ShutdownEnds == stopping ~> exited
=============================================================================
