------------------------- MODULE PollFlightProofs ---------------------------
(***************************************************************************)
(* Theorems about PollFlight, for any number of requests and of pollCall   *)
(* objects.                                                                *)
(***************************************************************************)
EXTENDS PollFlight, TLAPS

USE DEF flightVars, schedulerVars, manualVars

Inv == TypeOK /\ ManualAtWork /\ AnswersAreCurrent

\* Joining or starting a poll yields the poll in flight, which is not over.
LEMMA PollNowJoins ==
    ASSUME TypeOK, NEW k \in Call, PollNow(k)
    PROVE  /\ inFlight' = k
           /\ stage' \in [Call -> {"unused", "running", "ended", "published"}]
           /\ \A j \in Call : stage'[j] \in {"running", "ended"} <=> j = k
           /\ \A j \in Call : j # k => stage'[j] = stage[j]
           /\ old' \in [Manual -> SUBSET Call]
           /\ \A m \in Manual : old'[m] \subseteq old[m]
           /\ stage'[k] # "published"
           /\ (\A m \in Manual : \A j \in old[m] : stage[j] = "published") =>
                \A m \in Manual : k \notin old'[m]
<1>1. CASE inFlight # None
  BY <1>1 DEF PollNow, TypeOK
<1>2. CASE inFlight = None
  BY <1>2, FlightAssumption DEF PollNow, TypeOK
<1> QED
  BY <1>1, <1>2

\* The initial state.
LEMMA FlightInit == Init => Inv
<1> SUFFICES ASSUME Init
             PROVE  Inv
  OBVIOUS
<1>1. TypeOK
  BY FlightAssumption DEF Init, TypeOK, Result
<1>2. ManualAtWork /\ AnswersAreCurrent
  BY FlightAssumption DEF Init, ManualAtWork, AnswersAreCurrent
<1> QED
  BY <1>1, <1>2 DEF Inv

\* A poll ends, and is published.
LEMMA FlightPoll ==
    ASSUME Inv, Poll
    PROVE  Inv'
<1>1. ASSUME NEW k \in Call, NEW r \in Result, PollEnds(k, r)
      PROVE  Inv'
  BY <1>1 DEF PollEnds, Inv, TypeOK, ManualAtWork, AnswersAreCurrent
<1>2. ASSUME NEW k \in Call, Publish(k)
      PROVE  Inv'
  BY <1>2, FlightAssumption DEF Publish, Inv, TypeOK, ManualAtWork, AnswersAreCurrent
<1> QED
  BY <1>1, <1>2 DEF Poll

\* The scheduler loop.
LEMMA FlightRun ==
    ASSUME Inv, Run
    PROVE  Inv'
<1>1. CASE RunPolls
  <2> PICK k \in Call : PollNow(k) /\ joined' = k
    BY <1>1 DEF RunPolls
  <2>1. TypeOK'
    BY <1>1, PollNowJoins, FlightAssumption DEF RunPolls, Inv, TypeOK
  <2>2. ManualAtWork'
    BY <1>1, PollNowJoins DEF RunPolls, Inv, TypeOK, ManualAtWork
  <2>3. AnswersAreCurrent'
    BY <1>1, PollNowJoins DEF RunPolls, Inv, TypeOK, AnswersAreCurrent
  <2> QED
    BY <2>1, <2>2, <2>3 DEF Inv
<1>2. CASE RunResumes
  BY <1>2 DEF RunResumes, Inv, TypeOK, ManualAtWork, AnswersAreCurrent
<1>3. CASE RunWakes \/ RunStops
  BY <1>3 DEF RunWakes, RunStops, Inv, TypeOK, ManualAtWork, AnswersAreCurrent
<1> QED
  BY <1>1, <1>2, <1>3 DEF Run

\* The goroutine of a manual call.
LEMMA FlightHelp ==
    ASSUME Inv, NEW m \in Manual, Help(m)
    PROVE  Inv'
<1>1. CASE HelperPolls(m)
  <2> PICK k \in Call : PollNow(k) /\ shares' = [shares EXCEPT ![m] = k]
    BY <1>1 DEF HelperPolls
  <2>1. TypeOK'
    BY <1>1, PollNowJoins DEF HelperPolls, Inv, TypeOK
  <2>2. ManualAtWork'
    BY <1>1, PollNowJoins DEF HelperPolls, Inv, TypeOK, ManualAtWork
  <2>3. AnswersAreCurrent'
    BY <1>1, PollNowJoins DEF HelperPolls, Inv, TypeOK, ManualAtWork, AnswersAreCurrent
  <2> QED
    BY <2>1, <2>2, <2>3 DEF Inv
<1>2. CASE HelperAnswers(m)
  BY <1>2 DEF HelperAnswers, Inv, TypeOK, ManualAtWork, AnswersAreCurrent
<1>3. CASE HelperPublishes(m)
  BY <1>3, FlightAssumption DEF HelperPublishes, Inv, TypeOK, ManualAtWork, AnswersAreCurrent
<1> QED
  BY <1>1, <1>2, <1>3 DEF Help

\* A request begins a manual call, which then knows what is over, or shares
\* one; it is answered, or leaves.
LEMMA FlightRequest ==
    ASSUME Inv, NEW c \in Client, ForcePoll(c) \/ Respond(c) \/ Leave(c)
    PROVE  Inv'
<1>1. CASE ForcePoll(c)
  <2>1. CASE SharedCall # None
    <3>1. SharedCall \in Manual
      BY <2>1 DEF SharedCall, Inv, TypeOK
    <3> QED
      BY <1>1, <2>1, <3>1 DEF ForcePoll, Inv, TypeOK, ManualAtWork, AnswersAreCurrent
  <2>2. CASE SharedCall = None
    <3>1. manualPoll = None
      BY <2>2 DEF SharedCall
    <3> PICK m \in Manual :
            /\ asked' = [asked EXCEPT ![c] = m]
            /\ manualPoll' = m
            /\ helper' = [helper EXCEPT ![m] = "started"]
            /\ old' = [old EXCEPT ![m] = {k \in Call : stage[k] = "published"}]
      BY <1>1, <2>2 DEF ForcePoll
    <3>2. UNCHANGED <<flightVars, schedulerVars, stopping, exited, lastManual, shares>> /\ recent' = TRUE
      BY <1>1, <2>2 DEF ForcePoll
    <3>3. TypeOK'
      BY <3>2 DEF Inv, TypeOK
    <3>4. ManualAtWork' /\ AnswersAreCurrent'
      BY <3>1, <3>2, FlightAssumption DEF Inv, TypeOK, ManualAtWork, AnswersAreCurrent
    <3> QED
      BY <3>3, <3>4 DEF Inv
  <2> QED
    BY <2>1, <2>2
<1>2. CASE Respond(c) \/ Leave(c)
  BY <1>2 DEF Respond, Leave, Inv, TypeOK, ManualAtWork, AnswersAreCurrent
<1> QED
  BY <1>1, <1>2

\* Time and shutdown.
LEMMA FlightEnd ==
    ASSUME Inv, IntervalPasses \/ Stop \/ Exit \/ UNCHANGED vars
    PROVE  Inv'
BY DEF IntervalPasses, Stop, Exit, vars, Inv, TypeOK, ManualAtWork, AnswersAreCurrent

\* The invariant is inductive.
LEMMA FlightInvariant == Spec => []Inv
<1>1. Inv /\ [Next]_vars => Inv'
  BY FlightPoll, FlightRun, FlightHelp, FlightRequest, FlightEnd DEF Next
<1> QED
  BY <1>1, FlightInit, PTL DEF Spec

\* The flights and the loops keep their types, and a flight is exactly a poll
\* that is not yet published.
THEOREM FlightTypeCorrect == Spec => []TypeOK
<1>1. Inv => TypeOK
  BY DEF Inv
<1> QED
  BY <1>1, FlightInvariant, PTL

\* Two polls never run at the same time, however many requests, retries and
\* scheduled polls there are.
THEOREM OnePollCorrect == Spec => []OnePollAtATime
<1>1. Inv => OnePollAtATime
  BY DEF Inv, TypeOK, OnePollAtATime
<1> QED
  BY <1>1, FlightInvariant, PTL

\* A manual call never reports a poll that was over when it began.
THEOREM AnswersCorrect == Spec => []AnswersAreCurrent
<1>1. Inv => AnswersAreCurrent
  BY DEF Inv
<1> QED
  BY <1>1, FlightInvariant, PTL

\* handleForcePoll serves the result of a call that is over only within the
\* interval: a call in API.manualPoll is still at work.
THEOREM ReuseCorrect == Spec => ReuseIsRecent
<1> DEFINE Reuse == \A c \in Client :
               (asked[c] = None /\ asked'[c] # None /\ helper[asked'[c]] = "published"
                   /\ helper'[asked'[c]] = "published") => recent
<1>1. ASSUME Inv, NEW d \in Client, ForcePoll(d)
      PROVE  Reuse
  <2>1. CASE SharedCall # None
    <3> SUFFICES ASSUME NEW c \in Client, asked[c] = None, asked'[c] # None,
                        helper[asked'[c]] = "published"
                 PROVE  recent
      OBVIOUS
    <3>1. asked'[c] = SharedCall
      BY <1>1, <2>1 DEF ForcePoll, Inv, TypeOK
    <3>2. CASE manualPoll # None
      BY <1>1, <3>1, <3>2 DEF SharedCall, Inv, TypeOK, ManualAtWork
    <3> QED
      BY <2>1, <3>2 DEF SharedCall
  <2>2. CASE SharedCall = None
    <3>1. PICK m \in Manual :
              asked' = [asked EXCEPT ![d] = m] /\ helper' = [helper EXCEPT ![m] = "started"]
      BY <1>1, <2>2 DEF ForcePoll
    <3>2. /\ helper'[m] = "started"
          /\ \A c \in Client : asked[c] = None /\ asked'[c] # None => asked'[c] = m
      BY <1>1, <3>1 DEF Inv, TypeOK
    <3> QED
      BY <3>2
  <2> QED
    BY <2>1, <2>2
<1>2. ASSUME Inv, \/ Poll \/ Run \/ IntervalPasses \/ Stop \/ Exit \/ UNCHANGED vars
                  \/ \E m \in Manual : Help(m)
      PROVE  Reuse
  <2>1. asked' = asked
    BY <1>2 DEF Poll, Publish, PollEnds, Run, RunPolls, RunResumes, RunWakes, RunStops, IntervalPasses,
                Stop, Exit, Help, HelperPolls, HelperAnswers, HelperPublishes, vars
  <2> QED
    BY <2>1
<1>3. ASSUME Inv, NEW d \in Client, Respond(d) \/ Leave(d)
      PROVE  Reuse
  BY <1>3 DEF Respond, Leave, Inv, TypeOK
<1>4. Inv /\ [Next]_vars => Reuse
  BY <1>1, <1>2, <1>3 DEF Next
<1> QED
  BY <1>4, FlightInvariant, PTL DEF Spec, ReuseIsRecent
=============================================================================
