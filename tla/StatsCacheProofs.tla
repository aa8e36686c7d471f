-------------------------- MODULE StatsCacheProofs --------------------------
(***************************************************************************)
(* Proofs about StatsCache: type correctness, the safety invariants and    *)
(* the action properties, for every set of requests, keys and loads and    *)
(* every setting of the three durations.                                   *)
(***************************************************************************)
EXTENDS StatsCache, TLAPS

\* What has been begun by LastStart has started by then: the clock's bound.
StartsInTime == AllStarted \/ now <= LastStart

TypeInv == TypeOK /\ StartsInTime

-----------------------------------------------------------------------------
(***************************************************************************)
(* Type correctness. TypeOK is inductive once the horizon is added to it.  *)
(***************************************************************************)
LEMMA NoSampleType == NoSample \in Sample
  BY DEF NoSample, Sample, Instant

\* What GetSurveyState leaves behind when it returns.
LEMMA AnswerType ==
  ASSUME TypeOK, NEW g \in Gets,
         NEW kind \in {"fresh", "stale", "error"}, NEW sample \in Sample,
         AnswerWith(g, kind, sample)
  PROVE  get' \in [Gets -> Get]
  BY NoSampleType DEF AnswerWith, TypeOK, Get, Answer

LEMMA StaleOrErrorType ==
  ASSUME TypeOK, NEW g \in Gets, StaleOrError(g)
  PROVE  get' \in [Gets -> Get]
<1>1. get[g].snapshot \in Sample
  BY DEF TypeOK, Get
<1> QED
  BY <1>1, NoSampleType, AnswerType DEF StaleOrError

LEMMA WaitForType ==
  ASSUME TypeOK, NEW g \in Gets, NEW l \in LoadIds \cup {NoLoad}, WaitFor(g, l)
  PROVE  get' \in [Gets -> Get]
<1>1. cache[g[2]] \in Sample
  BY DEF TypeOK, Gets
<1>2. get[g] \in Get
  BY DEF TypeOK
<1>3. [get[g] EXCEPT !.pc = "waiting", !.load = l, !.snapshot = cache[g[2]]] \in Get
  BY <1>1, <1>2 DEF Get
<1> QED
  BY <1>3 DEF WaitFor, TypeOK

LEMMA FinishType ==
  ASSUME TypeOK, NEW l \in LoadIds, NEW reply \in Sample, Finish(l, reply)
  PROVE  /\ inflight' \in [Keys -> LoadIds \cup {NoLoad}]
         /\ load' \in [LoadIds -> Load]
         /\ get' \in [Gets -> Get]
<1>1. inflight' \in [Keys -> LoadIds \cup {NoLoad}]
  BY DEF Finish, TypeOK
<1>2. load' \in [LoadIds -> Load]
  BY NoSampleType DEF Finish, TypeOK, Load, Instant
<1>3. get' \in [Gets -> Get]
  BY DEF Finish, TypeOK, Get
<1> QED
  BY <1>1, <1>2, <1>3

\* The sample that PublishLoad stores and hands to the waiters.
LEMMA FetchedType ==
  ASSUME TypeOK, NEW l \in LoadIds
  PROVE  [load[l].sample EXCEPT !.fetched = now] \in Sample
<1>1. load[l].sample \in Sample
  BY DEF TypeOK, Load
<1> QED
  BY <1>1 DEF TypeOK, Sample, Instant

LEMMA TypeInit == Init => TypeInv
<1> SUFFICES ASSUME Init PROVE TypeInv
  OBVIOUS
<1>1. now \in Time
  BY TimingAssumption DEF Init, Time
<1>2. load \in [LoadIds -> Load]
  BY NoSampleType DEF Init, Load, Instant
<1>3. request \in [Requests -> Request]
  BY DEF Init, NoRequest, Request, Instant
<1>4. get \in [Gets -> Get]
  BY NoSampleType DEF Init, Get, Answer, Instant
<1>5. AllStarted
  BY DEF Init, AllStarted
<1> QED
  BY <1>1, <1>2, <1>3, <1>4, <1>5, NoSampleType
  DEF Init, TypeInv, TypeOK, StartsInTime

LEMMA TypeStep == TypeInv /\ [Next]_vars => TypeOK'
<1> SUFFICES ASSUME TypeOK, StartsInTime, [Next]_vars PROVE TypeOK'
  BY DEF TypeInv
<1> USE TimingAssumption
<1>1. CASE Tick
  BY <1>1 DEF Tick, TypeOK, Time
<1>2. ASSUME NEW r \in Requests, Begin(r) PROVE TypeOK'
  <2>1. request' \in [Requests -> Request]
    BY <1>2 DEF TypeOK, Begin, Request, Instant, Time, LastStart
  <2>2. get' \in [Gets -> Get]
    BY <1>2 DEF TypeOK, Begin, Get
  <2> QED
    BY <1>2, <2>1, <2>2 DEF TypeOK, Begin
<1>3. ASSUME NEW r \in Requests, Cancel(r) PROVE TypeOK'
  BY <1>3 DEF TypeOK, Cancel, Request
<1>4. ASSUME NEW r \in Requests, Return(r) PROVE TypeOK'
  <2>1. request' \in [Requests -> Request]
    BY <1>4 DEF TypeOK, Return, Request, NoRequest, Instant
  <2>2. get' \in [Gets -> Get]
    BY <1>4 DEF TypeOK, Return, Get, Instant
  <2> QED
    BY <1>4, <2>1, <2>2 DEF TypeOK, Return
<1>5. ASSUME NEW g \in Gets, ReadClock(g) PROVE TypeOK'
  <2>1. get' \in [Gets -> Get]
    BY <1>5 DEF TypeOK, ReadClock, Get, Instant
  <2> QED
    BY <1>5, <2>1 DEF TypeOK, ReadClock
<1>6. ASSUME NEW g \in Gets, Hit(g) PROVE TypeOK'
  <2>1. cache[g[2]] \in Sample
    BY DEF TypeOK, Gets
  <2>2. get' \in [Gets -> Get]
    BY <1>6, <2>1, AnswerType DEF Hit
  <2> QED
    BY <1>6, <2>2 DEF TypeOK, Hit
<1>7. ASSUME NEW g \in Gets, Join(g) PROVE TypeOK'
  <2>1. g[2] \in Keys
    BY DEF Gets
  <2>2. get' \in [Gets -> Get]
    BY <1>7, <2>1, WaitForType DEF TypeOK, Join
  <2> QED
    BY <1>7, <2>2 DEF TypeOK, Join
<1>8. ASSUME NEW g \in Gets, Spawn(g) PROVE TypeOK'
  <2>1. g[2] \in Keys
    BY DEF Gets
  <2>2. get' \in [Gets -> Get]
    BY <1>8, WaitForType DEF Spawn
  <2>3. ASSUME NEW l \in LoadIds
        PROVE  [load[l] EXCEPT !.phase = "spawned", !.key = g[2]] \in Load
    BY <2>1 DEF TypeOK, Load
  <2>4. load' \in [LoadIds -> Load]
    BY <1>8, <2>3 DEF TypeOK, Spawn
  <2> QED
    BY <1>8, <2>2, <2>4 DEF TypeOK, Spawn
<1>9. ASSUME NEW g \in Gets, Receive(g) PROVE TypeOK'
  <2>1. get[g].reply \in Sample
    BY DEF TypeOK, Get
  <2>2. get' \in [Gets -> Get]
    BY <1>9, <2>1, AnswerType, StaleOrErrorType DEF Receive
  <2> QED
    BY <1>9, <2>2 DEF TypeOK, Receive
<1>10. ASSUME NEW g \in Gets, TimeOut(g) PROVE TypeOK'
  BY <1>10, StaleOrErrorType DEF TypeOK, TimeOut
<1>11. ASSUME NEW l \in LoadIds, StartLoad(l) PROVE TypeOK'
  <2>1. now <= LastStart
    BY <1>11 DEF StartLoad, StartsInTime, AllStarted
  <2>2. now + RequestTimeout \in Instant
    BY <2>1 DEF TypeOK, LastStart, Instant, Time
  <2>3. load' \in [LoadIds -> Load]
    BY <1>11, <2>2 DEF TypeOK, StartLoad, Load
  <2> QED
    BY <1>11, <2>3 DEF TypeOK, StartLoad
<1>12. ASSUME NEW l \in LoadIds, ReadSummary(l) PROVE TypeOK'
  <2>1. load[l].sample \in Sample
    BY DEF TypeOK, Load
  <2>2. [load[l].sample EXCEPT !.summaryAt = now] \in Sample
    BY <2>1 DEF TypeOK, Sample, Instant
  <2>3. load' \in [LoadIds -> Load]
    BY <1>12, <2>2 DEF TypeOK, ReadSummary, Load
  <2> QED
    BY <1>12, <2>3 DEF TypeOK, ReadSummary
<1>13. ASSUME NEW l \in LoadIds, ReadProperties(l) PROVE TypeOK'
  <2>1. load[l].sample \in Sample
    BY DEF TypeOK, Load
  <2>2. [load[l].sample EXCEPT !.propsAt = now] \in Sample
    BY <2>1 DEF TypeOK, Sample, Instant
  <2>3. load' \in [LoadIds -> Load]
    BY <1>13, <2>2 DEF TypeOK, ReadProperties, Load
  <2> QED
    BY <1>13, <2>3 DEF TypeOK, ReadProperties
<1>14. ASSUME NEW l \in LoadIds, PublishLoad(l) PROVE TypeOK'
  <2> DEFINE fetched == [load[l].sample EXCEPT !.fetched = now]
  <2>1. fetched \in Sample
    BY FetchedType
  <2>2. /\ cache' = [cache EXCEPT ![load[l].key] = fetched]
        /\ Finish(l, fetched)
    BY <1>14 DEF PublishLoad
  <2> HIDE DEF fetched
  <2>3. cache' \in [Keys -> Sample]
    BY <2>1, <2>2 DEF TypeOK
  <2> QED
    BY <2>1, <2>2, <2>3, FinishType DEF TypeOK, Finish
<1>15. ASSUME NEW l \in LoadIds, FailLoad(l) PROVE TypeOK'
  BY <1>15, NoSampleType, FinishType DEF TypeOK, FailLoad, Finish
<1>16. CASE UNCHANGED vars
  BY <1>16 DEF vars, TypeOK
<1> QED
  BY <1>1, <1>2, <1>3, <1>4, <1>5, <1>6, <1>7, <1>8, <1>9, <1>10, <1>11,
     <1>12, <1>13, <1>14, <1>15, <1>16
  DEF Next, Serve, GetSurveyState, LoadSurveyState

LEMMA HorizonStep == TypeInv /\ [Next]_vars => StartsInTime'
<1> SUFFICES ASSUME TypeOK, StartsInTime, [Next]_vars PROVE StartsInTime'
  BY DEF TypeInv
<1> USE TimingAssumption DEF StartsInTime, LastStart
<1>1. CASE Tick
  BY <1>1 DEF Tick, AllStarted, TypeOK, Time
<1>2. ASSUME NEW r \in Requests, Begin(r) PROVE StartsInTime'
  BY <1>2 DEF Begin, TypeOK, Time
<1>3. ASSUME NEW r \in Requests, Cancel(r) PROVE StartsInTime'
  BY <1>3 DEF Cancel, AllStarted
<1>4. ASSUME NEW r \in Requests, Return(r) PROVE StartsInTime'
  BY <1>4 DEF Return, AllStarted, TypeOK, Get
<1>5. ASSUME NEW g \in Gets, ReadClock(g) \/ Hit(g) \/ Join(g) \/ Spawn(g)
      PROVE  StartsInTime'
  <2>1. now' = now /\ get[g].pc \in {"started", "asked"}
    BY <1>5 DEF ReadClock, Hit, Join, Spawn
  <2> QED
    BY <2>1 DEF AllStarted
<1>6. ASSUME NEW g \in Gets, Receive(g) \/ TimeOut(g) PROVE StartsInTime'
  BY <1>6 DEF Receive, TimeOut, StaleOrError, AnswerWith, AllStarted, TypeOK, Get
<1>7. ASSUME NEW l \in LoadIds, StartLoad(l) \/ ReadSummary(l) \/ ReadProperties(l)
      PROVE  StartsInTime'
  BY <1>7 DEF StartLoad, ReadSummary, ReadProperties, AllStarted, TypeOK, Load
<1>8. ASSUME NEW l \in LoadIds, NEW reply, Finish(l, reply) PROVE StartsInTime'
  BY <1>8 DEF Finish, AllStarted, TypeOK, Load, Get
<1>9. ASSUME NEW l \in LoadIds, PublishLoad(l) \/ FailLoad(l) PROVE StartsInTime'
  BY <1>8, <1>9 DEF PublishLoad, FailLoad
<1>10. CASE UNCHANGED vars
  BY <1>10 DEF vars, AllStarted
<1> QED
  BY <1>1, <1>2, <1>3, <1>4, <1>5, <1>6, <1>7, <1>9, <1>10
  DEF Next, Serve, GetSurveyState, LoadSurveyState

\* Every variable keeps its type (the declarations of Service and stateLoad).
THEOREM TypeCorrect == Spec => []TypeOK
<1>1. TypeInv /\ [Next]_vars => TypeInv'
  BY TypeStep, HorizonStep DEF TypeInv
<1>2. TypeInv => TypeOK
  BY DEF TypeInv
<1> QED
  BY TypeInit, <1>1, <1>2, PTL DEF Spec

-----------------------------------------------------------------------------
(***************************************************************************)
(* Single flight: the inflight map and the refreshes name each other, and  *)
(* a waiter's refresh is the one its key names.                            *)
(***************************************************************************)
FlightInv == SingleFlight /\ NoStrandedWaiter

LEMMA FlightInit == Init => FlightInv
<1> SUFFICES ASSUME Init PROVE FlightInv
  OBVIOUS
<1>1. \A l \in LoadIds : ~Running(l)
  BY DEF Init, Running
<1>2. \A k \in Keys : inflight[k] = NoLoad
  BY DEF Init
<1>3. \A g \in Gets : get[g].pc = "idle"
  BY DEF Init
<1> QED
  BY <1>1, <1>2, <1>3 DEF FlightInv, SingleFlight, NoStrandedWaiter

\* The other goroutines are left alone when one returns.
LEMMA AnswerEffect ==
  ASSUME TypeOK, NEW g \in Gets, NEW kind, NEW sample,
         AnswerWith(g, kind, sample)
  PROVE  /\ get'[g].pc = "answered"
         /\ get'[g].asked = get[g].asked
         /\ get'[g].answer.kind = kind
         /\ get'[g].answer.sample = sample
         /\ \A h \in Gets \ {g} : get'[h] = get[h]
  BY DEF AnswerWith, TypeOK

LEMMA StaleOrErrorEffect ==
  ASSUME TypeOK, NEW g \in Gets, StaleOrError(g)
  PROVE  /\ get'[g].pc = "answered"
         /\ get'[g].asked = get[g].asked
         /\ \/ /\ Usable(get[g].snapshot)
               /\ get'[g].answer.kind = "stale"
               /\ get'[g].answer.sample = get[g].snapshot
            \/ /\ ~Usable(get[g].snapshot)
               /\ get'[g].answer.kind = "error"
               /\ get'[g].answer.sample = NoSample
         /\ \A h \in Gets \ {g} : get'[h] = get[h]
<1>1. CASE Usable(get[g].snapshot)
  <2>1. AnswerWith(g, "stale", get[g].snapshot)
    BY <1>1 DEF StaleOrError
  <2> QED
    BY <1>1, <2>1, AnswerEffect
<1>2. CASE ~Usable(get[g].snapshot)
  <2>1. AnswerWith(g, "error", NoSample)
    BY <1>2 DEF StaleOrError
  <2> QED
    BY <1>2, <2>1, AnswerEffect
<1> QED
  BY <1>1, <1>2

\* The end of a refresh frees its entry and wakes every one of its waiters.
LEMMA FlightFinish ==
  ASSUME TypeOK, FlightInv, NEW l \in LoadIds, Running(l),
         NEW reply, Finish(l, reply)
  PROVE  FlightInv'
<1>1. inflight[load[l].key] = l /\ load[l].key \in Keys
  BY DEF FlightInv, SingleFlight, TypeOK, Load
<1>2. SingleFlight'
  <2>1. /\ load'[l].phase = "free"
        /\ \A m \in LoadIds \ {l} : load'[m] = load[m]
    BY DEF Finish, TypeOK
  <2>2. /\ inflight'[load[l].key] = NoLoad
        /\ \A k \in Keys \ {load[l].key} : inflight'[k] = inflight[k]
    BY <1>1 DEF Finish, TypeOK
  <2>3. ASSUME NEW m \in LoadIds, Running(m)'
        PROVE  inflight'[load'[m].key] = m
    <3>1. m # l /\ load'[m] = load[m] /\ Running(m)
      BY <2>1, <2>3 DEF Running
    <3>2. inflight[load[m].key] = m /\ load[m].key \in Keys
      BY <3>1 DEF FlightInv, SingleFlight, TypeOK, Load
    <3> QED
      BY <1>1, <2>2, <3>1, <3>2
  <2>4. ASSUME NEW k \in Keys, inflight'[k] # NoLoad
        PROVE  load'[inflight'[k]].phase # "free" /\ load'[inflight'[k]].key = k
    <3>1. k # load[l].key /\ inflight'[k] = inflight[k] /\ inflight[k] \in LoadIds
      BY <2>2, <2>4 DEF TypeOK
    <3>2. Running(inflight[k]) /\ load[inflight[k]].key = k
      BY <2>4, <3>1 DEF FlightInv, SingleFlight
    <3>3. inflight[k] # l
      BY <3>1, <3>2
    <3> QED
      BY <2>1, <3>1, <3>2, <3>3 DEF Running
  <2> QED
    BY <2>3, <2>4 DEF SingleFlight, Running
<1>3. ASSUME NEW g \in Gets, get'[g].pc = "waiting"
      PROVE  get'[g].load # NoLoad /\ inflight'[g[2]] = get'[g].load
  <2>1. get'[g] = get[g] /\ get[g].load # l
    BY <1>3 DEF Finish, TypeOK, Get
  <2>2. g[2] \in Keys
    BY DEF Gets
  <2>3. g[2] # load[l].key
    BY <1>1, <1>3, <2>1 DEF FlightInv, NoStrandedWaiter
  <2> QED
    BY <1>3, <2>1, <2>2, <2>3 DEF Finish, FlightInv, NoStrandedWaiter, TypeOK
<1> QED
  BY <1>2, <1>3 DEF FlightInv, NoStrandedWaiter

LEMMA FlightStep == TypeOK /\ FlightInv /\ [Next]_vars => FlightInv'
<1> SUFFICES ASSUME TypeOK, FlightInv, [Next]_vars PROVE FlightInv'
  OBVIOUS
<1> USE NoLoadAssumption DEF FlightInv
<1>1. CASE Tick
  BY <1>1 DEF Tick, SingleFlight, NoStrandedWaiter, Running
<1>2. ASSUME NEW r \in Requests, Serve(r) PROVE FlightInv'
  <2>1. inflight' = inflight /\ load' = load
    BY <1>2 DEF Serve, Begin, Cancel, Return
  <2>2. \A g \in Gets : get'[g].pc = "waiting" => get'[g] = get[g]
    BY <1>2 DEF Serve, Begin, Cancel, Return, TypeOK, Get
  <2> QED
    BY <2>1, <2>2 DEF SingleFlight, NoStrandedWaiter, Running
<1>3. ASSUME NEW g \in Gets, ReadClock(g) \/ Hit(g) \/ Receive(g) \/ TimeOut(g)
      PROVE  FlightInv'
  <2>1. inflight' = inflight /\ load' = load
    BY <1>3 DEF ReadClock, Hit, Receive, TimeOut
  <2>2. \A h \in Gets : get'[h].pc = "waiting" => get'[h] = get[h]
    BY <1>3, AnswerEffect, StaleOrErrorEffect
    DEF ReadClock, Hit, Receive, TimeOut, TypeOK, Get
  <2> QED
    BY <2>1, <2>2 DEF SingleFlight, NoStrandedWaiter, Running
<1>4. ASSUME NEW g \in Gets, Join(g) PROVE FlightInv'
  <2>1. /\ get'[g].load = inflight[g[2]]
        /\ \A h \in Gets \ {g} : get'[h] = get[h]
    BY <1>4 DEF Join, WaitFor, TypeOK, Get
  <2> QED
    BY <1>4, <2>1 DEF Join, SingleFlight, NoStrandedWaiter, Running
<1>5. ASSUME NEW g \in Gets, Spawn(g) PROVE FlightInv'
  <2>1. PICK l \in LoadIds :
          /\ ~Running(l)
          /\ load' = [load EXCEPT ![l] = [@ EXCEPT !.phase = "spawned", !.key = g[2]]]
          /\ inflight' = [inflight EXCEPT ![g[2]] = l]
          /\ WaitFor(g, l)
    BY <1>5 DEF Spawn
  <2>2. inflight[g[2]] = NoLoad /\ g[2] \in Keys
    BY <1>5 DEF Spawn, Gets
  <2>3. /\ get'[g].load = l
        /\ \A h \in Gets \ {g} : get'[h] = get[h]
    BY <2>1 DEF WaitFor, TypeOK, Get
  <2>4. /\ load'[l].phase = "spawned" /\ load'[l].key = g[2]
        /\ \A m \in LoadIds \ {l} : load'[m] = load[m]
    BY <2>1 DEF TypeOK, Load
  <2>5. SingleFlight'
    BY <2>1, <2>2, <2>4 DEF SingleFlight, Running, TypeOK, Load
  <2>6. NoStrandedWaiter'
    BY <2>1, <2>2, <2>3 DEF NoStrandedWaiter, TypeOK, Gets
  <2> QED
    BY <2>5, <2>6
<1>6. ASSUME NEW l \in LoadIds, StartLoad(l) \/ ReadSummary(l) \/ ReadProperties(l)
      PROVE  FlightInv'
  <2>1. /\ inflight' = inflight /\ get' = get
        /\ \A m \in LoadIds : load'[m].key = load[m].key /\ (Running(m)' <=> Running(m))
    BY <1>6 DEF StartLoad, ReadSummary, ReadProperties, Running, TypeOK, Load
  <2> QED
    BY <2>1 DEF SingleFlight, NoStrandedWaiter, Running, TypeOK
<1>7. ASSUME NEW l \in LoadIds, PublishLoad(l) \/ FailLoad(l) PROVE FlightInv'
  BY <1>7, FlightFinish DEF PublishLoad, FailLoad, Running
<1>8. CASE UNCHANGED vars
  BY <1>8 DEF vars, SingleFlight, NoStrandedWaiter, Running
<1> QED
  BY <1>1, <1>2, <1>3, <1>4, <1>5, <1>6, <1>7, <1>8
  DEF Next, GetSurveyState, LoadSurveyState

\* Repeated requests for one survey share one refresh, and nobody waits for
\* a refresh that is not in flight (GetSurveyState, loadSurveyState).
THEOREM SingleFlightCorrect == Spec => [](SingleFlight /\ NoStrandedWaiter)
<1>1. TypeInv /\ FlightInv /\ [Next]_vars => TypeInv' /\ FlightInv'
  BY TypeStep, HorizonStep, FlightStep DEF TypeInv
<1>2. FlightInv => SingleFlight /\ NoStrandedWaiter
  BY DEF FlightInv
<1> QED
  BY TypeInit, FlightInit, <1>1, <1>2, PTL DEF Spec

\* A goroutine that waits in GetSurveyState waits for the refresh in flight of
\* its own survey, so that the close of load.done reaches it (service.go:113).
THEOREM NobodyStranded == Spec => []NoStrandedWaiter
  BY SingleFlightCorrect, PTL

-----------------------------------------------------------------------------
(***************************************************************************)
(* The order of samples. A refresh samples LimeSurvey only after the       *)
(* sample it will replace was stored, because it is the only refresh of    *)
(* its key; every snapshot, reply and answer is bounded by the cache.      *)
(***************************************************************************)
CacheInv ==
    \A k \in Keys : LET c == cache[k] IN
        /\ c.summaryAt <= c.propsAt
        /\ c.propsAt <= c.fetched
        /\ c.fetched <= now
        /\ Stored(c) => c.summaryAt >= 0 /\ c.propsAt - c.summaryAt <= RequestTimeout

LoadInv ==
    \A l \in LoadIds : LET s == load[l].sample IN
        /\ load[l].phase = "opened" => load[l].deadline <= now + RequestTimeout
        /\ load[l].phase = "summarised" =>
             /\ load[l].deadline - s.summaryAt <= RequestTimeout
             /\ s.summaryAt <= now
        /\ load[l].phase = "sampled" =>
             /\ s.propsAt - s.summaryAt <= RequestTimeout
             /\ s.summaryAt <= s.propsAt
             /\ s.propsAt <= now
        /\ load[l].phase \in {"summarised", "sampled"} =>
             /\ 0 <= s.summaryAt
             /\ cache[load[l].key].fetched <= s.summaryAt

GetInv ==
    \A g \in Gets : LET c == get[g] IN
        /\ NotOlder(c.answer.sample, cache[g[2]])
        /\ c.pc \in {"asked", "waiting", "woken"} => c.asked \in 0 .. now
        /\ c.pc \in {"waiting", "woken"} =>
             /\ NotOlder(c.answer.sample, c.snapshot)
             /\ NotOlder(c.snapshot, cache[g[2]])
             /\ Stored(c.snapshot) => c.asked - c.snapshot.fetched >= StatsTTL
        /\ c.pc = "woken" /\ Stored(c.reply) =>
             /\ NotOlder(c.answer.sample, c.reply)
             /\ NotOlder(c.reply, cache[g[2]])
             /\ c.reply.fetched >= c.asked

IInv == TypeInv /\ FlightInv /\ CacheInv /\ LoadInv /\ GetInv

LEMMA SampleFields ==
  ASSUME NEW s \in Sample
  PROVE  /\ s.summaryAt \in Int /\ s.summaryAt >= -1
         /\ s.propsAt \in Int /\ s.propsAt >= -1
         /\ s.fetched \in Int /\ s.fetched >= -1
  BY TimingAssumption DEF Sample, Instant, Time

LEMMA NotOlderTransitive ==
  ASSUME NEW a \in Sample, NEW b \in Sample, NEW c \in Sample,
         NotOlder(a, b), NotOlder(b, c)
  PROVE  NotOlder(a, c)
  BY SampleFields DEF NotOlder

LEMMA NotOlderReflexive ==
  ASSUME NEW a \in Sample
  PROVE  NotOlder(a, a)
  BY SampleFields DEF NotOlder

LEMMA FieldTypes ==
  ASSUME TypeOK
  PROVE  /\ now \in Nat
         /\ \A k \in Keys : cache[k] \in Sample
         /\ \A l \in LoadIds : /\ load[l].sample \in Sample
                               /\ load[l].key \in Keys
                               /\ load[l].deadline \in Int
         /\ \A g \in Gets : /\ g[2] \in Keys
                            /\ get[g].asked \in Int
                            /\ get[g].snapshot \in Sample
                            /\ get[g].reply \in Sample
                            /\ get[g].answer.sample \in Sample
<1>1. \A l \in LoadIds : load[l] \in Load
  BY DEF TypeOK
<1>2. \A g \in Gets : get[g] \in Get
  BY DEF TypeOK
<1>3. Instant \subseteq Int /\ Time \subseteq Nat
  BY TimingAssumption DEF Instant, Time
<1> QED
  BY <1>1, <1>2, <1>3 DEF TypeOK, Load, Get, Answer, Gets

LEMMA DataInit == Init => CacheInv /\ LoadInv /\ GetInv
<1> SUFFICES ASSUME Init PROVE CacheInv /\ LoadInv /\ GetInv
  OBVIOUS
<1>1. CacheInv
  BY DEF Init, CacheInv, NoSample, Stored
<1>2. LoadInv
  BY DEF Init, LoadInv
<1>3. ASSUME NEW g \in Gets
      PROVE  /\ get[g].pc = "idle"
             /\ get[g].answer.sample = NoSample
             /\ cache[g[2]] = NoSample
  BY DEF Init, Gets
<1>4. GetInv
  BY <1>3, NoSampleType, NotOlderReflexive DEF GetInv
<1> QED
  BY <1>1, <1>2, <1>4

\* What a successful refresh stores is not older than what it replaces.
LEMMA PublishEffect ==
  ASSUME TypeOK, CacheInv, LoadInv, NEW l \in LoadIds, PublishLoad(l)
  PROVE  LET key == load[l].key
             f == [load[l].sample EXCEPT !.fetched = now]
         IN  /\ f \in Sample
             /\ f.summaryAt = load[l].sample.summaryAt
             /\ f.propsAt = load[l].sample.propsAt
             /\ f.fetched = now
             /\ cache'[key] = f
             /\ \A k \in Keys \ {key} : cache'[k] = cache[k]
             /\ Finish(l, f)
             /\ NotOlder(cache[key], f)
<1> DEFINE key == load[l].key
           f == [load[l].sample EXCEPT !.fetched = now]
<1>1. f \in Sample /\ key \in Keys
  BY FetchedType, FieldTypes
<1>2. /\ f.summaryAt = load[l].sample.summaryAt
      /\ f.propsAt = load[l].sample.propsAt
      /\ f.fetched = now
  <2>1. load[l].sample \in Sample
    BY FieldTypes
  <2> QED
    BY <2>1 DEF Sample
<1>3. cache' = [cache EXCEPT ![key] = f] /\ Finish(l, f)
  BY DEF PublishLoad
<1>4. cache'[key] = f /\ \A k \in Keys \ {key} : cache'[k] = cache[k]
  BY <1>1, <1>3 DEF TypeOK
<1>5. NotOlder(cache[key], f)
  <2>1. /\ cache[key].fetched <= load[l].sample.summaryAt
        /\ load[l].sample.summaryAt <= load[l].sample.propsAt
    BY DEF LoadInv, PublishLoad
  <2>2. /\ cache[key].summaryAt <= cache[key].propsAt
        /\ cache[key].propsAt <= cache[key].fetched
        /\ cache[key].fetched <= now
    BY <1>1 DEF CacheInv
  <2>3. cache[key] \in Sample /\ load[l].sample \in Sample /\ now \in Nat
    BY FieldTypes
  <2> HIDE DEF f, key
  <2> QED
    BY <1>2, <2>1, <2>2, <2>3, SampleFields DEF NotOlder
<1> QED
  BY <1>1, <1>2, <1>3, <1>4, <1>5

LEMMA FinishEffect ==
  ASSUME TypeOK, NEW l \in LoadIds, NEW reply, Finish(l, reply)
  PROVE  /\ load'[l].phase = "free"
         /\ \A m \in LoadIds \ {l} : load'[m] = load[m]
         /\ now' = now
  BY DEF Finish, TypeOK

\* Only a successful refresh writes the cache, and time does not go back.
LEMMA CacheWriters ==
  ASSUME TypeOK, [Next]_vars
  PROVE  /\ now' \in {now, now + 1}
         /\ \/ cache' = cache
            \/ \E l \in LoadIds : PublishLoad(l) /\ now' = now
  BY DEF Next, Tick, Serve, Begin, Cancel, Return, GetSurveyState, ReadClock,
         Hit, Join, Spawn, Receive, TimeOut, LoadSurveyState, StartLoad,
         ReadSummary, ReadProperties, PublishLoad, FailLoad, Finish, vars

LEMMA CacheStep ==
  ASSUME TypeOK, CacheInv, LoadInv, [Next]_vars
  PROVE  CacheInv' /\ \A k \in Keys : NotOlder(cache[k], cache'[k])
<1>1. CASE cache' = cache
  <2>1. \A k \in Keys : NotOlder(cache[k], cache'[k])
    BY <1>1, FieldTypes, NotOlderReflexive
  <2>2. CacheInv'
    <3>1. now <= now' /\ now \in Nat /\ now' \in Nat
      BY CacheWriters, FieldTypes
    <3>2. \A k \in Keys : cache[k] \in Sample
      BY FieldTypes
    <3> QED
      BY <1>1, <3>1, <3>2, SampleFields DEF CacheInv, Stored
  <2> QED
    BY <2>1, <2>2
<1>2. ASSUME NEW l \in LoadIds, PublishLoad(l), now' = now
      PROVE  CacheInv' /\ \A k \in Keys : NotOlder(cache[k], cache'[k])
  <2> DEFINE key == load[l].key
             f == [load[l].sample EXCEPT !.fetched = now]
  <2>1. /\ f.summaryAt = load[l].sample.summaryAt
        /\ f.propsAt = load[l].sample.propsAt
        /\ f.fetched = now
        /\ cache'[key] = f
        /\ \A k \in Keys \ {key} : cache'[k] = cache[k]
        /\ NotOlder(cache[key], f)
    BY <1>2, PublishEffect
  <2>2. /\ f.propsAt - f.summaryAt <= RequestTimeout
        /\ 0 <= f.summaryAt /\ f.summaryAt <= f.propsAt /\ f.propsAt <= now
    BY <1>2, <2>1 DEF LoadInv, PublishLoad
  <2> HIDE DEF f
  <2>3. \A k \in Keys : NotOlder(cache[k], cache'[k])
    BY <2>1, FieldTypes, NotOlderReflexive
  <2>4. ASSUME NEW k \in Keys
        PROVE  /\ cache'[k].summaryAt <= cache'[k].propsAt
               /\ cache'[k].propsAt <= cache'[k].fetched
               /\ cache'[k].fetched <= now'
               /\ Stored(cache'[k]) =>
                    /\ cache'[k].summaryAt >= 0
                    /\ cache'[k].propsAt - cache'[k].summaryAt <= RequestTimeout
    <3>1. CASE k = key
      BY <1>2, <2>1, <2>2, <3>1, FieldTypes, SampleFields
    <3>2. CASE k # key
      BY <1>2, <2>1, <3>2 DEF CacheInv
    <3> QED
      BY <3>1, <3>2
  <2>5. CacheInv'
    BY <2>4 DEF CacheInv, Stored
  <2> QED
    BY <2>3, <2>5
<1> QED
  BY <1>1, <1>2, CacheWriters

LEMMA LoadStep ==
  ASSUME TypeOK, FlightInv, CacheInv, LoadInv, [Next]_vars
  PROVE  LoadInv'
<1> DEFINE P(l) ==
      LET s == load[l].sample IN
        /\ load[l].phase = "opened" => load[l].deadline <= now + RequestTimeout
        /\ load[l].phase = "summarised" =>
             /\ load[l].deadline - s.summaryAt <= RequestTimeout
             /\ s.summaryAt <= now
        /\ load[l].phase = "sampled" =>
             /\ s.propsAt - s.summaryAt <= RequestTimeout
             /\ s.summaryAt <= s.propsAt
             /\ s.propsAt <= now
        /\ load[l].phase \in {"summarised", "sampled"} =>
             /\ 0 <= s.summaryAt
             /\ cache[load[l].key].fetched <= s.summaryAt
<1>1. \A l \in LoadIds : P(l)
  BY DEF LoadInv
<1>2. SUFFICES \A l \in LoadIds : P(l)'
  BY DEF LoadInv
\* A load the step leaves alone, while its key's entry stays as it is.
<1>3. ASSUME NEW l \in LoadIds, load'[l] = load[l],
             cache'[load[l].key] = cache[load[l].key], now' \in {now, now + 1}
      PROVE  P(l)'
  <2>1. /\ load[l].deadline \in Int /\ now \in Nat
        /\ load[l].sample.summaryAt \in Int /\ load[l].sample.propsAt \in Int
    BY FieldTypes, SampleFields
  <2> QED
    BY <1>1, <1>3, <2>1, TimingAssumption
<1>4. CASE load' = load /\ cache' = cache
  BY <1>3, <1>4, CacheWriters
<1>5. ASSUME NEW g \in Gets, Spawn(g) PROVE \A l \in LoadIds : P(l)'
  <2>1. PICK l \in LoadIds :
          load' = [load EXCEPT ![l] = [@ EXCEPT !.phase = "spawned", !.key = g[2]]]
    BY <1>5 DEF Spawn
  <2>2. load'[l].phase = "spawned" /\ \A m \in LoadIds \ {l} : load'[m] = load[m]
    BY <2>1 DEF TypeOK, Load
  <2>3. cache' = cache /\ now' = now
    BY <1>5 DEF Spawn
  <2>4. P(l)'
    BY <2>2
  <2> QED
    BY <1>3, <2>2, <2>3, <2>4
<1>6. ASSUME NEW l \in LoadIds, StartLoad(l) PROVE \A m \in LoadIds : P(m)'
  <2>1. /\ load'[l].phase = "opened" /\ load'[l].deadline = now + RequestTimeout
        /\ \A m \in LoadIds \ {l} : load'[m] = load[m]
    BY <1>6 DEF StartLoad, TypeOK, Load
  <2>2. cache' = cache /\ now' = now
    BY <1>6 DEF StartLoad
  <2>3. P(l)'
    BY <2>1, <2>2, FieldTypes, TimingAssumption
  <2> QED
    BY <1>3, <2>1, <2>2, <2>3
<1>7. ASSUME NEW l \in LoadIds, ReadSummary(l) PROVE \A m \in LoadIds : P(m)'
  <2>1. cache' = cache /\ now' = now /\ load[l].phase = "opened"
    BY <1>7 DEF ReadSummary
  <2>2. load[l] \in Load /\ load[l].sample \in Sample
    BY FieldTypes DEF TypeOK
  <2>3. /\ load'[l].phase = "summarised"
        /\ load'[l].key = load[l].key
        /\ load'[l].deadline = load[l].deadline
        /\ load'[l].sample.summaryAt = now
        /\ \A m \in LoadIds \ {l} : load'[m] = load[m]
    BY <1>7, <2>2 DEF ReadSummary, TypeOK, Load, Sample
  <2>4. load[l].deadline <= now + RequestTimeout
    BY <1>1, <2>1
  <2>5. cache[load[l].key].fetched <= now
    BY FieldTypes DEF CacheInv
  <2>6. P(l)'
    BY <2>1, <2>3, <2>4, <2>5, FieldTypes, TimingAssumption
  <2> QED
    BY <1>3, <2>1, <2>3, <2>6
<1>8. ASSUME NEW l \in LoadIds, ReadProperties(l) PROVE \A m \in LoadIds : P(m)'
  <2>1. /\ cache' = cache /\ now' = now /\ load[l].phase = "summarised"
        /\ now <= load[l].deadline
    BY <1>8 DEF ReadProperties
  <2>2. load[l] \in Load /\ load[l].sample \in Sample
    BY FieldTypes DEF TypeOK
  <2>3. /\ load'[l].phase = "sampled"
        /\ load'[l].key = load[l].key
        /\ load'[l].sample.summaryAt = load[l].sample.summaryAt
        /\ load'[l].sample.propsAt = now
        /\ \A m \in LoadIds \ {l} : load'[m] = load[m]
    BY <1>8, <2>2 DEF ReadProperties, TypeOK, Load, Sample
  <2>4. /\ load[l].deadline - load[l].sample.summaryAt <= RequestTimeout
        /\ 0 <= load[l].sample.summaryAt /\ load[l].sample.summaryAt <= now
        /\ cache[load[l].key].fetched <= load[l].sample.summaryAt
    BY <1>1, <2>1
  <2>5. now - load[l].sample.summaryAt <= RequestTimeout
    <3>1. /\ now \in Int /\ load[l].deadline \in Int
          /\ load[l].sample.summaryAt \in Int
      BY <2>2, FieldTypes, SampleFields
    <3> HIDE DEF P
    <3> QED
      BY <2>1, <2>4, <3>1, TimingAssumption
  <2>6. P(l)'
    BY <2>1, <2>3, <2>4, <2>5, FieldTypes
  <2> QED
    BY <1>3, <2>1, <2>3, <2>6
<1>9. ASSUME NEW l \in LoadIds, PublishLoad(l) \/ FailLoad(l)
      PROVE  \A m \in LoadIds : P(m)'
  <2>1. /\ load'[l].phase = "free"
        /\ \A m \in LoadIds \ {l} : load'[m] = load[m]
        /\ now' = now
    BY <1>9, PublishEffect, FinishEffect DEF FailLoad
  <2>2. Running(l)
    BY <1>9 DEF PublishLoad, FailLoad, Running
  <2>3. \A k \in Keys \ {load[l].key} : cache'[k] = cache[k]
    BY <1>9, PublishEffect DEF FailLoad
  <2>4. ASSUME NEW m \in LoadIds \ {l} PROVE P(m)'
    <3>1. CASE Running(m)
      BY <1>3, <2>1, <2>2, <2>3, <3>1, FieldTypes DEF FlightInv, SingleFlight
    <3>2. CASE ~Running(m)
      BY <2>1, <3>2 DEF Running
    <3> QED
      BY <3>1, <3>2
  <2>5. P(l)'
    BY <2>1
  <2> QED
    BY <2>4, <2>5
<1>10. CASE UNCHANGED vars
  BY <1>4, <1>10 DEF vars
<1> HIDE DEF P
<1> QED
  BY <1>4, <1>5, <1>6, <1>7, <1>8, <1>9, <1>10
  DEF Next, Tick, Serve, Begin, Cancel, Return, GetSurveyState, ReadClock,
      Hit, Join, Receive, TimeOut, LoadSurveyState

\* The parts of GetInv: what bounds the samples a goroutine holds.
LEMMA GetStep ==
  ASSUME TypeOK, TypeOK', FlightInv, CacheInv, LoadInv, GetInv, [Next]_vars
  PROVE  GetInv'
<1> DEFINE P(g) ==
      LET c == get[g] IN
        /\ NotOlder(c.answer.sample, cache[g[2]])
        /\ c.pc \in {"asked", "waiting", "woken"} => c.asked \in 0 .. now
        /\ c.pc \in {"waiting", "woken"} =>
             /\ NotOlder(c.answer.sample, c.snapshot)
             /\ NotOlder(c.snapshot, cache[g[2]])
             /\ Stored(c.snapshot) => c.asked - c.snapshot.fetched >= StatsTTL
        /\ c.pc = "woken" /\ Stored(c.reply) =>
             /\ NotOlder(c.answer.sample, c.reply)
             /\ NotOlder(c.reply, cache[g[2]])
             /\ c.reply.fetched >= c.asked
<1>1. \A g \in Gets : P(g)
  BY DEF GetInv
<1>2. SUFFICES \A g \in Gets : P(g)'
  BY DEF GetInv
<1>3. /\ now \in Nat /\ now' \in {now, now + 1}
      /\ \A k \in Keys : /\ cache[k] \in Sample /\ cache'[k] \in Sample
                         /\ NotOlder(cache[k], cache'[k])
  BY FieldTypes, CacheWriters, CacheStep DEF TypeOK
\* A goroutine the step leaves alone: the cache only gets newer.
<1>4. ASSUME NEW g \in Gets, get'[g] = get[g] PROVE P(g)'
  <2>1. /\ g[2] \in Keys /\ get[g].snapshot \in Sample
        /\ get[g].reply \in Sample /\ get[g].answer.sample \in Sample
        /\ get[g].asked \in Int
    BY FieldTypes
  <2>2. NotOlder(get[g].answer.sample, cache'[g[2]])
    BY <1>1, <1>3, <2>1, NotOlderTransitive
  <2>3. get[g].asked \in 0 .. now => get[g].asked \in 0 .. now'
    BY <1>3
  <2>4. NotOlder(get[g].snapshot, cache[g[2]]) => NotOlder(get[g].snapshot, cache'[g[2]])
    BY <1>3, <2>1, NotOlderTransitive
  <2>5. NotOlder(get[g].reply, cache[g[2]]) => NotOlder(get[g].reply, cache'[g[2]])
    BY <1>3, <2>1, NotOlderTransitive
  <2> QED
    BY <1>1, <1>4, <2>2, <2>3, <2>4, <2>5 DEF Stored
\* A goroutine that returns something not newer than the cache.
<1>5. ASSUME NEW g \in Gets, get'[g].pc = "answered",
             NotOlder(get'[g].answer.sample, cache[g[2]])
      PROVE  P(g)'
  <2>1. NotOlder(get'[g].answer.sample, cache'[g[2]])
    BY <1>3, <1>5, FieldTypes, NotOlderTransitive DEF TypeOK, Get, Answer
  <2> QED
    BY <1>5, <2>1
<1>6. ASSUME NEW g \in Gets PROVE NotOlder(NoSample, cache[g[2]])
  BY <1>3, FieldTypes, SampleFields DEF NotOlder, NoSample
<1>7. CASE get' = get
  BY <1>4, <1>7
<1>8. ASSUME NEW r \in Requests, Begin(r) \/ Return(r) PROVE \A g \in Gets : P(g)'
  <2>1. ASSUME NEW g \in Gets, get'[g] # get[g]
        PROVE  get'[g].pc \in {"started", "idle"} /\ get'[g].answer = get[g].answer
    <3>1. get[g] \in Get
      BY DEF TypeOK
    <3>2. \/ get'[g] = [get[g] EXCEPT !.pc = "started"]
          \/ get'[g] = [get[g] EXCEPT !.pc = "idle", !.asked = -1]
      BY <1>8, <2>1 DEF Begin, Return
    <3> QED
      BY <3>1, <3>2 DEF Get
  <2>2. cache' = cache
    BY <1>8 DEF Begin, Return
  <2>3. ASSUME NEW g \in Gets, get'[g] # get[g] PROVE P(g)'
    BY <1>1, <2>1, <2>2, <2>3
  <2> QED
    BY <1>4, <2>3
<1>9. ASSUME NEW g \in Gets, ReadClock(g) PROVE \A h \in Gets : P(h)'
  <2>1. /\ get'[g].pc = "asked" /\ get'[g].asked = now
        /\ get'[g].answer = get[g].answer
        /\ \A h \in Gets \ {g} : get'[h] = get[h]
        /\ cache' = cache /\ now' = now
    BY <1>9 DEF ReadClock, TypeOK, Get
  <2>2. P(g)'
    BY <1>1, <1>3, <2>1
  <2> QED
    BY <1>4, <2>1, <2>2
<1>10. ASSUME NEW g \in Gets, Hit(g) PROVE \A h \in Gets : P(h)'
  <2>1. /\ get'[g].pc = "answered"
        /\ get'[g].answer.sample = cache[g[2]]
        /\ \A h \in Gets \ {g} : get'[h] = get[h]
    <3>1. AnswerWith(g, "fresh", cache[g[2]])
      BY <1>10 DEF Hit
    <3> QED
      BY <3>1, AnswerEffect
  <2>2. NotOlder(get'[g].answer.sample, cache[g[2]])
    BY <1>3, <2>1, FieldTypes, NotOlderReflexive
  <2> QED
    BY <1>4, <1>5, <2>1, <2>2
<1>11. ASSUME NEW g \in Gets, NEW l \in LoadIds \cup {NoLoad}, get[g].pc = "asked",
              ~WithinTTL(g), WaitFor(g, l), cache' = cache, now' = now
       PROVE  \A h \in Gets : P(h)'
  <2>1. get[g] \in Get
    BY DEF TypeOK
  <2>2. /\ get'[g].pc = "waiting" /\ get'[g].snapshot = cache[g[2]]
        /\ get'[g].asked = get[g].asked /\ get'[g].answer = get[g].answer
        /\ \A h \in Gets \ {g} : get'[h] = get[h]
    BY <1>11, <2>1 DEF WaitFor, TypeOK, Get
  <2>3. get[g].asked \in 0 .. now /\ NotOlder(get[g].answer.sample, cache[g[2]])
    BY <1>1, <1>11
  <2>4. NotOlder(cache[g[2]], cache[g[2]])
    BY FieldTypes, NotOlderReflexive
  <2>5. Stored(cache[g[2]]) => get[g].asked - cache[g[2]].fetched >= StatsTTL
    <3>1. get[g].asked \in Int /\ cache[g[2]].fetched \in Int
      BY FieldTypes, SampleFields
    <3> QED
      BY <1>11, <3>1, TimingAssumption DEF WithinTTL
  <2>6. P(g)'
    BY <1>11, <2>2, <2>3, <2>4, <2>5 DEF Stored
  <2> QED
    BY <1>4, <2>2, <2>6
<1>12. ASSUME NEW g \in Gets, Join(g) \/ Spawn(g) PROVE \A h \in Gets : P(h)'
  <2>1. inflight[g[2]] \in LoadIds \cup {NoLoad}
    BY FieldTypes DEF TypeOK
  <2> QED
    BY <1>11, <1>12, <2>1 DEF Join, Spawn
<1>13. ASSUME NEW g \in Gets, get[g].pc \in {"waiting", "woken"}, StaleOrError(g)
       PROVE  \A h \in Gets : P(h)'
  <2>1. NotOlder(get'[g].answer.sample, cache[g[2]])
    <3>1. NotOlder(get[g].snapshot, cache[g[2]])
      BY <1>1, <1>13
    <3>2. get'[g].answer.sample \in {get[g].snapshot, NoSample}
      BY <1>13, StaleOrErrorEffect
    <3> QED
      BY <1>6, <3>1, <3>2
  <2> QED
    BY <1>4, <1>5, <1>13, <2>1, StaleOrErrorEffect
<1>14. ASSUME NEW g \in Gets, Receive(g) PROVE \A h \in Gets : P(h)'
  <2>1. CASE Stored(get[g].reply)
    <3>1. AnswerWith(g, "fresh", get[g].reply)
      BY <1>14, <2>1 DEF Receive
    <3>2. NotOlder(get'[g].answer.sample, cache[g[2]])
      <4>1. NotOlder(get[g].reply, cache[g[2]])
        BY <1>1, <1>14, <2>1 DEF Receive
      <4>2. get'[g].answer.sample = get[g].reply
        BY <3>1, AnswerEffect
      <4> QED
        BY <4>1, <4>2
    <3> QED
      BY <1>4, <1>5, <3>1, <3>2, AnswerEffect
  <2>2. CASE ~Stored(get[g].reply)
    BY <1>13, <1>14, <2>2 DEF Receive
  <2> QED
    BY <2>1, <2>2
<1>15. ASSUME NEW g \in Gets, TimeOut(g) PROVE \A h \in Gets : P(h)'
  BY <1>13, <1>15 DEF TimeOut
\* The end of a refresh: its waiters are the goroutines of its key.
<1>16. ASSUME NEW l \in LoadIds, NEW reply \in Sample, Running(l), Finish(l, reply),
              Stored(reply) => /\ reply.fetched = now
                               /\ cache'[load[l].key] = reply
                               /\ NotOlder(cache[load[l].key], reply)
       PROVE  \A g \in Gets : P(g)'
  <2> SUFFICES ASSUME NEW g \in Gets, get'[g] # get[g] PROVE P(g)'
    BY <1>4
  <2>1. get[g] \in Get
    BY DEF TypeOK
  <2>2. get[g].pc = "waiting" /\ get[g].load = l
    BY <1>16 DEF Finish
  <2>3. g[2] = load[l].key
    BY <1>16, <2>2, NoLoadAssumption, FieldTypes
    DEF FlightInv, SingleFlight, NoStrandedWaiter
  <2>4. /\ get'[g].pc = "woken" /\ get'[g].reply = reply
        /\ get'[g].asked = get[g].asked /\ get'[g].snapshot = get[g].snapshot
        /\ get'[g].answer = get[g].answer
    BY <1>16, <2>1, <2>2 DEF Finish, Get
  <2>5. /\ NotOlder(get[g].answer.sample, cache[g[2]])
        /\ get[g].asked \in 0 .. now
        /\ NotOlder(get[g].answer.sample, get[g].snapshot)
        /\ NotOlder(get[g].snapshot, cache[g[2]])
        /\ Stored(get[g].snapshot) => get[g].asked - get[g].snapshot.fetched >= StatsTTL
    BY <1>1, <2>2
  <2>6. /\ NotOlder(get[g].answer.sample, cache'[g[2]])
        /\ NotOlder(get[g].snapshot, cache'[g[2]])
    BY <1>3, <2>5, FieldTypes, NotOlderTransitive
  <2>7. Stored(reply) => /\ NotOlder(get[g].answer.sample, reply)
                         /\ NotOlder(reply, cache'[g[2]])
                         /\ reply.fetched >= get[g].asked
    BY <1>3, <1>16, <2>3, <2>5, <2>6, FieldTypes, NotOlderReflexive
  <2>8. now' = now
    BY <1>16 DEF Finish
  <2> QED
    BY <2>4, <2>5, <2>6, <2>7, <2>8 DEF Stored
<1>17. ASSUME NEW l \in LoadIds, PublishLoad(l) PROVE \A g \in Gets : P(g)'
  <2>1. Running(l)
    BY <1>17 DEF PublishLoad, Running
  <2> HIDE DEF P
  <2> QED
    BY <1>16, <1>17, <2>1, PublishEffect
<1>18. ASSUME NEW l \in LoadIds, FailLoad(l) PROVE \A g \in Gets : P(g)'
  <2>1. Running(l) /\ Finish(l, NoSample) /\ ~Stored(NoSample)
    BY <1>18 DEF FailLoad, Running, Stored, NoSample
  <2> HIDE DEF P
  <2> QED
    BY <1>16, <2>1, NoSampleType
<1> HIDE DEF P
<1> QED
  BY <1>7, <1>8, <1>9, <1>10, <1>12, <1>14, <1>15, <1>17, <1>18
  DEF Next, Tick, Serve, Cancel, GetSurveyState, LoadSurveyState, StartLoad,
      ReadSummary, ReadProperties, vars

LEMMA Inductive ==
  /\ Init => IInv
  /\ IInv /\ [Next]_vars => IInv'
<1>1. Init => IInv
  BY TypeInit, FlightInit, DataInit DEF IInv
<1>2. ASSUME IInv, [Next]_vars PROVE IInv'
  <2>1. TypeInv' /\ TypeOK' /\ TypeOK
    BY <1>2, TypeStep, HorizonStep DEF IInv, TypeInv
  <2> QED
    BY <1>2, <2>1, FlightStep, CacheStep, LoadStep, GetStep DEF IInv
<1> QED
  BY <1>1, <1>2

\* Both halves of every cached state come from one refresh, less than one
\* request timeout apart (loadSurveyState's two RPCs).
THEOREM SamplesAreCoherent == Spec => []SamplesCoherent
<1>1. IInv => SamplesCoherent
  BY DEF IInv, CacheInv, SamplesCoherent, Stored
<1> QED
  BY Inductive, <1>1, PTL DEF Spec

\* The cache of every key only moves forward (loadSurveyState).
THEOREM CacheMovesForward == Spec => CacheNeverRegresses
<1>1. IInv /\ [Next]_vars => [\A k \in Keys : NotOlder(cache[k], cache'[k])]_vars
  BY CacheStep DEF IInv, TypeInv
<1> QED
  BY Inductive, <1>1, PTL DEF Spec, CacheNeverRegresses

\* The three ways out of GetSurveyState, and what each returns.
LEMMA WaysOut ==
  ASSUME TypeOK, [Next]_vars, NEW g \in Gets, Answers(g)
  PROVE  /\ now' = now
         /\ \/ /\ get[g].pc = "asked" /\ WithinTTL(g)
               /\ get'[g].answer.kind = "fresh"
               /\ get'[g].answer.sample = cache[g[2]]
            \/ /\ get[g].pc = "woken" /\ Stored(get[g].reply)
               /\ get'[g].answer.kind = "fresh"
               /\ get'[g].answer.sample = get[g].reply
            \/ /\ get[g].pc \in {"waiting", "woken"}
               /\ \/ /\ Usable(get[g].snapshot)
                     /\ get'[g].answer.kind = "stale"
                     /\ get'[g].answer.sample = get[g].snapshot
                  \/ /\ ~Usable(get[g].snapshot)
                     /\ get'[g].answer.kind = "error"
                     /\ get'[g].answer.sample = NoSample
<1>1. get'[g] # get[g] /\ get'[g].pc = "answered"
  BY DEF Answers
<1>2. ASSUME NEW r \in Requests, Serve(r) PROVE FALSE
  <2>1. get[g] \in Get
    BY DEF TypeOK
  <2>2. \/ get'[g] = get[g]
        \/ get'[g] = [get[g] EXCEPT !.pc = "started"]
        \/ get'[g] = [get[g] EXCEPT !.pc = "idle", !.asked = -1]
    BY <1>2 DEF Serve, Begin, Cancel, Return
  <2> QED
    BY <1>1, <2>1, <2>2 DEF Get
<1>3. ASSUME NEW l \in LoadIds, LoadSurveyState(l) PROVE FALSE
  <2>1. get[g] \in Get
    BY DEF TypeOK
  <2>2. \/ get' = get
        \/ \E reply : Finish(l, reply)
    BY <1>3 DEF LoadSurveyState, StartLoad, ReadSummary, ReadProperties,
                PublishLoad, FailLoad
  <2>3. PICK reply : Finish(l, reply)
    BY <1>1, <2>2
  <2>4. get'[g] = [get[g] EXCEPT !.pc = "woken", !.load = NoLoad, !.reply = reply]
    BY <1>1, <2>3 DEF Finish
  <2>5. get'[g].pc = "woken"
    BY <2>1, <2>4 DEF Get
  <2> QED
    BY <1>1, <2>5
<1>4. ASSUME NEW h \in Gets, ReadClock(h) \/ Join(h) \/ Spawn(h) PROVE FALSE
  <2>1. get[g] \in Get
    BY DEF TypeOK
  <2>2. \/ get' = [get EXCEPT ![h] = [@ EXCEPT !.pc = "asked", !.asked = now]]
        \/ \E l : WaitFor(h, l)
    BY <1>4 DEF ReadClock, Join, Spawn
  <2>3. CASE get' = [get EXCEPT ![h] = [@ EXCEPT !.pc = "asked", !.asked = now]]
    BY <1>1, <2>1, <2>3 DEF TypeOK, Get
  <2>4. ASSUME NEW l, WaitFor(h, l) PROVE FALSE
    BY <1>1, <2>1, <2>4 DEF WaitFor, TypeOK, Get
  <2> QED
    BY <1>1, <2>2, <2>3, <2>4
<1>5. ASSUME NEW h \in Gets, Hit(h) \/ Receive(h) \/ TimeOut(h) PROVE h = g
  <2>1. \/ \E kind, sample : AnswerWith(h, kind, sample)
        \/ StaleOrError(h)
    BY <1>5 DEF Hit, Receive, TimeOut
  <2> QED
    BY <1>1, <2>1, AnswerEffect, StaleOrErrorEffect
<1>6. get' # get
  BY <1>1
<1>7. Hit(g) \/ Receive(g) \/ TimeOut(g)
  BY <1>2, <1>3, <1>4, <1>5, <1>6 DEF Next, Tick, GetSurveyState, vars
<1>8. CASE Hit(g)
  <2>1. AnswerWith(g, "fresh", cache[g[2]])
    BY <1>8 DEF Hit
  <2> QED
    BY <1>8, <2>1, AnswerEffect DEF Hit
<1>9. CASE Receive(g) /\ Stored(get[g].reply)
  <2>1. AnswerWith(g, "fresh", get[g].reply)
    BY <1>9 DEF Receive
  <2> QED
    BY <1>9, <2>1, AnswerEffect DEF Receive
<1>10. CASE TimeOut(g) \/ (Receive(g) /\ ~Stored(get[g].reply))
  <2>1. StaleOrError(g) /\ get[g].pc \in {"waiting", "woken"} /\ now' = now
    BY <1>10 DEF Receive, TimeOut
  <2> QED
    BY <2>1, StaleOrErrorEffect
<1> QED
  BY <1>7, <1>8, <1>9, <1>10

\* Asking again never gives an older sample (GetSurveyState).
THEOREM ReadsAreMonotonic == Spec => MonotonicReads
<1>1. ASSUME IInv, [Next]_vars, NEW g \in Gets, Answers(g),
             get'[g].answer.kind # "error"
      PROVE  NotOlder(get[g].answer.sample, get'[g].answer.sample)
  <2>1. TypeOK /\ GetInv
    BY <1>1 DEF IInv, TypeInv
  <2>2. /\ NotOlder(get[g].answer.sample, cache[g[2]])
        /\ get[g].pc \in {"waiting", "woken"} =>
             NotOlder(get[g].answer.sample, get[g].snapshot)
        /\ get[g].pc = "woken" /\ Stored(get[g].reply) =>
             NotOlder(get[g].answer.sample, get[g].reply)
    BY <2>1 DEF GetInv
  <2> QED
    BY <1>1, <2>1, <2>2, WaysOut
<1>2. IInv /\ [Next]_vars =>
        [\A g \in Gets : Answers(g) /\ get'[g].answer.kind # "error" =>
           NotOlder(get[g].answer.sample, get'[g].answer.sample)]_vars
  BY <1>1
<1> QED
  BY Inductive, <1>2, PTL DEF Spec, MonotonicReads

\* The Stale flag tells the age of what GetSurveyState returns.
THEOREM LabelsAreRight == Spec => LabelsTellTheAge
<1> DEFINE Right(g) ==
      LET fetched == get'[g].answer.sample.fetched IN
      CASE get'[g].answer.kind = "fresh" ->
             fetched > get[g].asked - StatsTTL \/ fetched >= get[g].asked
        [] get'[g].answer.kind = "stale" ->
             /\ fetched <= get[g].asked - StatsTTL
             /\ now - fetched <= StaleStatsMaxAge
        [] OTHER -> get'[g].answer.sample = NoSample
<1>1. ASSUME IInv, [Next]_vars, NEW g \in Gets, Answers(g) PROVE Right(g)
  <2>1. TypeOK /\ GetInv
    BY <1>1 DEF IInv, TypeInv
  <2>2. /\ get[g].pc \in {"waiting", "woken"} /\ Stored(get[g].snapshot) =>
             get[g].asked - get[g].snapshot.fetched >= StatsTTL
        /\ get[g].pc = "woken" /\ Stored(get[g].reply) =>
             get[g].reply.fetched >= get[g].asked
    BY <2>1 DEF GetInv
  <2>3. /\ get[g].asked \in Int /\ cache[g[2]].fetched \in Int
        /\ get[g].snapshot.fetched \in Int /\ get[g].reply.fetched \in Int
    BY <2>1, FieldTypes, SampleFields
  <2>4. CASE get[g].pc = "asked" /\ WithinTTL(g) /\ get'[g].answer.kind = "fresh"
             /\ get'[g].answer.sample = cache[g[2]]
    BY <2>3, <2>4, TimingAssumption DEF WithinTTL
  <2>5. CASE get[g].pc = "woken" /\ Stored(get[g].reply)
             /\ get'[g].answer.kind = "fresh" /\ get'[g].answer.sample = get[g].reply
    BY <2>2, <2>5
  <2>6. CASE get[g].pc \in {"waiting", "woken"} /\ Usable(get[g].snapshot)
             /\ get'[g].answer.kind = "stale"
             /\ get'[g].answer.sample = get[g].snapshot
    BY <2>2, <2>3, <2>6, TimingAssumption DEF Usable
  <2>7. CASE get'[g].answer.kind = "error" /\ get'[g].answer.sample = NoSample
    BY <2>7
  <2> QED
    BY <1>1, <2>1, <2>4, <2>5, <2>6, <2>7, WaysOut
<1>2. IInv /\ [Next]_vars => [\A g \in Gets : Answers(g) => Right(g)]_vars
  BY <1>1
<1> QED
  BY Inductive, <1>2, PTL DEF Spec, LabelsTellTheAge

-----------------------------------------------------------------------------
(***************************************************************************)
(* What a waiting call carries is what the cache holds, until a refresh    *)
(* overtakes it.                                                           *)
(***************************************************************************)
SnapshotInv ==
    \A g \in Gets : get[g].pc \in {"waiting", "woken"} =>
        \/ get[g].snapshot = cache[g[2]]
        \/ cache[g[2]].fetched >= get[g].asked

\* A call begins to wait with the cache's entry, and keeps it while it waits.
LEMMA SnapshotWriters ==
  ASSUME TypeOK, [Next]_vars, NEW g \in Gets, get'[g].pc \in {"waiting", "woken"}
  PROVE  \/ /\ get[g].pc \in {"waiting", "woken"}
            /\ get'[g].snapshot = get[g].snapshot /\ get'[g].asked = get[g].asked
         \/ cache' = cache /\ get'[g].snapshot = cache[g[2]]
<1>1. get[g] \in Get
  BY DEF TypeOK
<1>2. CASE get'[g] = get[g]
  BY <1>2
<1>3. ASSUME NEW r \in Requests, Serve(r), get'[g] # get[g] PROVE FALSE
  <2>1. \/ get'[g] = [get[g] EXCEPT !.pc = "started"]
        \/ get'[g] = [get[g] EXCEPT !.pc = "idle", !.asked = -1]
    BY <1>3 DEF Serve, Begin, Cancel, Return
  <2> QED
    BY <1>1, <2>1 DEF Get
<1>4. ASSUME NEW h \in Gets, Hit(h) \/ Receive(h) \/ TimeOut(h), get'[g] # get[g]
      PROVE  FALSE
  <2>1. (\E kind, sample : AnswerWith(h, kind, sample)) \/ StaleOrError(h)
    BY <1>4 DEF Hit, Receive, TimeOut
  <2> QED
    BY <1>4, <2>1, AnswerEffect, StaleOrErrorEffect
<1>5. ASSUME NEW h \in Gets, ReadClock(h), get'[g] # get[g] PROVE FALSE
  BY <1>1, <1>5 DEF ReadClock, TypeOK, Get
<1>6. ASSUME NEW h \in Gets, Join(h) \/ Spawn(h), get'[g] # get[g]
      PROVE  cache' = cache /\ get'[g].snapshot = cache[g[2]]
  <2>1. PICK l : WaitFor(h, l) /\ cache' = cache
    BY <1>6 DEF Join, Spawn
  <2> QED
    BY <1>1, <1>6, <2>1 DEF WaitFor, TypeOK, Get
<1>7. ASSUME NEW l \in LoadIds, LoadSurveyState(l), get'[g] # get[g]
      PROVE  /\ get[g].pc = "waiting"
             /\ get'[g].snapshot = get[g].snapshot /\ get'[g].asked = get[g].asked
  <2>1. PICK reply : Finish(l, reply)
    BY <1>7 DEF LoadSurveyState, StartLoad, ReadSummary, ReadProperties,
                PublishLoad, FailLoad
  <2>2. /\ get[g].pc = "waiting"
        /\ get'[g] = [get[g] EXCEPT !.pc = "woken", !.load = NoLoad, !.reply = reply]
    BY <1>7, <2>1 DEF Finish
  <2> QED
    BY <1>1, <2>2 DEF Get
<1> QED
  BY <1>2, <1>3, <1>4, <1>5, <1>6, <1>7 DEF Next, Tick, GetSurveyState, vars

LEMMA SnapshotStep == IInv /\ SnapshotInv /\ [Next]_vars => SnapshotInv'
<1> SUFFICES ASSUME IInv, SnapshotInv, [Next]_vars, NEW g \in Gets,
                    get'[g].pc \in {"waiting", "woken"}
             PROVE  \/ get'[g].snapshot = cache'[g[2]]
                    \/ cache'[g[2]].fetched >= get'[g].asked
  BY DEF SnapshotInv
<1>1. TypeOK /\ CacheInv /\ LoadInv /\ GetInv
  BY DEF IInv, TypeInv
<1>2. CASE cache' = cache /\ get'[g].snapshot = cache[g[2]]
  BY <1>2
<1>3. CASE /\ get[g].pc \in {"waiting", "woken"}
           /\ get'[g].snapshot = get[g].snapshot /\ get'[g].asked = get[g].asked
  <2>1. CASE cache'[g[2]] = cache[g[2]]
    BY <1>3, <2>1 DEF SnapshotInv
  <2>2. CASE cache'[g[2]] # cache[g[2]]
    <3>1. PICK l \in LoadIds : PublishLoad(l)
      BY <1>1, <2>2, CacheWriters
    <3>2. cache'[g[2]].fetched = now
      BY <1>1, <2>2, <3>1, PublishEffect, FieldTypes
    <3>3. get[g].asked \in 0 .. now /\ now \in Nat
      BY <1>1, <1>3, FieldTypes DEF GetInv
    <3> QED
      BY <1>3, <3>2, <3>3
  <2> QED
    BY <2>1, <2>2
<1> QED
  BY <1>1, <1>2, <1>3, SnapshotWriters

\* Except for the race with a refresh that ends during the call, what a call
\* returns is what the cache holds, if that can be used (GetSurveyState,
\* staleStateOrError).
THEOREM AnswersAreCurrent == Spec => OnlyARefreshOvertakes
<1> DEFINE Current(g) ==
      \/ get'[g].answer.sample = cache[g[2]]
      \/ ~Usable(cache[g[2]])
      \/ cache[g[2]].fetched >= get[g].asked
<1>1. ASSUME IInv, SnapshotInv, [Next]_vars, NEW g \in Gets, Answers(g)
      PROVE  Current(g)
  <2>1. TypeOK /\ GetInv
    BY <1>1 DEF IInv, TypeInv
  <2>2. /\ get[g].pc \in {"waiting", "woken"} =>
             get[g].snapshot = cache[g[2]] \/ cache[g[2]].fetched >= get[g].asked
        /\ get[g].pc = "woken" /\ Stored(get[g].reply) =>
             NotOlder(get[g].reply, cache[g[2]]) /\ get[g].reply.fetched >= get[g].asked
    BY <1>1, <2>1 DEF GetInv, SnapshotInv
  <2>3. /\ get[g].asked \in Int /\ cache[g[2]].fetched \in Int
        /\ get[g].reply.fetched \in Int
    BY <2>1, FieldTypes, SampleFields
  <2>4. CASE get'[g].answer.sample = cache[g[2]]
    BY <2>4
  <2>5. CASE get[g].pc = "woken" /\ Stored(get[g].reply)
    BY <2>2, <2>3, <2>5 DEF NotOlder
  <2>6. CASE /\ get[g].pc \in {"waiting", "woken"}
             /\ \/ get'[g].answer.sample = get[g].snapshot
                \/ ~Usable(get[g].snapshot)
    BY <2>2, <2>6
  <2> QED
    BY <1>1, <2>1, <2>4, <2>5, <2>6, WaysOut
<1>2. Init => SnapshotInv
  BY DEF Init, SnapshotInv, Gets
<1>3. IInv /\ SnapshotInv /\ [Next]_vars => [\A g \in Gets : Answers(g) => Current(g)]_vars
  BY <1>1
<1> QED
  BY Inductive, SnapshotStep, <1>2, <1>3, PTL DEF Spec, OnlyARefreshOvertakes

=============================================================================
