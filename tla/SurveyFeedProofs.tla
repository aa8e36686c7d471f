-------------------------- MODULE SurveyFeedProofs --------------------------
(***************************************************************************)
(* StatsCache implements SurveyFeed: every initial state of the cache maps *)
(* to an initial state of the feed, and every step to a step of the feed   *)
(* or to a stutter. The map is total only on the states below FeedInv:     *)
(* what a goroutine carries outside the select is nothing.                 *)
(***************************************************************************)
EXTENDS StatsCacheProofs

InSelect(g) == get[g].pc \in {"waiting", "woken"}

\* A goroutine exists only for a target of its request; it carries a snapshot
\* only inside the select, and a reply only once it has been woken.
FeedInv ==
    \A g \in Gets :
        /\ g[2] \notin request[g[1]].targets => get[g].pc = "idle"
        /\ ~InSelect(g) => get[g].snapshot = NoSample
        /\ get[g].pc # "woken" => get[g].reply = NoSample

MapInv == IInv /\ FeedInv

LEMMA FeedInvInit == Init => FeedInv
  BY DEF Init, FeedInv, InSelect

\* What one goroutine of GetSurveyState does to the record of its call.
LEMMA AnswerRecord ==
  ASSUME TypeOK, NEW g \in Gets, NEW kind, NEW sample,
         AnswerWith(g, kind, sample)
  PROVE  /\ get'[g].pc = "answered"
         /\ get'[g].snapshot = NoSample
         /\ get'[g].reply = NoSample
         /\ get'[g].answer = [kind |-> kind, sample |-> sample]
         /\ \A h \in Gets \ {g} : get'[h] = get[h]
  BY DEF AnswerWith, TypeOK

LEMMA StaleOrErrorRecord ==
  ASSUME TypeOK, NEW g \in Gets, StaleOrError(g)
  PROVE  \/ AnswerWith(g, "error", NoSample)
         \/ AnswerWith(g, "stale", get[g].snapshot) /\ Stored(get[g].snapshot)
  BY DEF StaleOrError, Usable

LEMMA WaitForRecord ==
  ASSUME TypeOK, NEW g \in Gets, NEW l, WaitFor(g, l)
  PROVE  /\ get'[g].pc = "waiting"
         /\ get'[g].snapshot = cache[g[2]]
         /\ get'[g].reply = get[g].reply
         /\ get'[g].answer = get[g].answer
         /\ \A h \in Gets \ {g} : get'[h] = get[h]
<1>1. get[g] \in Get
  BY DEF TypeOK
<1> QED
  BY <1>1 DEF WaitFor, TypeOK, Get

LEMMA FinishRecord ==
  ASSUME TypeOK, NEW l \in LoadIds, NEW reply, Finish(l, reply), NEW g \in Gets
  PROVE  \/ /\ get[g].pc = "waiting" /\ get[g].load = l
            /\ get'[g].pc = "woken"
            /\ get'[g].snapshot = get[g].snapshot
            /\ get'[g].reply = reply
            /\ get'[g].answer = get[g].answer
         \/ /\ ~(get[g].pc = "waiting" /\ get[g].load = l)
            /\ get'[g] = get[g]
<1>1. get[g] \in Get
  BY DEF TypeOK
<1> QED
  BY <1>1 DEF Finish, Get

-----------------------------------------------------------------------------
LEMMA FeedInvStep == MapInv /\ [Next]_vars => FeedInv'
<1> DEFINE Kept(g) ==
      /\ g[2] \notin request'[g[1]].targets => get'[g].pc = "idle"
      /\ get'[g].pc \notin {"waiting", "woken"} => get'[g].snapshot = NoSample
      /\ get'[g].pc # "woken" => get'[g].reply = NoSample
<1> SUFFICES ASSUME TypeOK, FeedInv, [Next]_vars, NEW g \in Gets
             PROVE  Kept(g)
  BY DEF MapInv, IInv, TypeInv, FeedInv, InSelect
<1>0. get[g] \in Get /\ g[1] \in Requests /\ g[2] \in Keys /\ g = <<g[1], g[2]>>
  BY DEF TypeOK, Gets
<1> DEFINE targets == request[g[1]].targets
<1>1. /\ g[2] \notin targets => get[g].pc = "idle"
      /\ get[g].pc \notin {"waiting", "woken"} => get[g].snapshot = NoSample
      /\ get[g].pc # "woken" => get[g].reply = NoSample
  BY DEF FeedInv, InSelect
<1>2. CASE request' = request /\ get'[g] = get[g]
  BY <1>1, <1>2
<1>3. ASSUME NEW r \in Requests, Begin(r) PROVE Kept(g)
  <2>1. PICK T \in (SUBSET Keys) \ {{}} :
          /\ request' = [request EXCEPT ![r] =
                           [targets |-> T, deadline |-> now + RequestTimeout,
                            cancelled |-> FALSE]]
          /\ get' = [h \in Gets |->
                       IF h[1] = r /\ h[2] \in T
                       THEN [get[h] EXCEPT !.pc = "started"] ELSE get[h]]
    BY <1>3 DEF Begin
  <2>2. CASE g[1] = r
    <3>1. request'[g[1]].targets = T
      BY <2>1, <2>2, <1>0 DEF TypeOK
    <3>2. get[g].pc = "idle"
      BY <1>1, <1>3, <2>2 DEF Begin
    <3>3. CASE g[2] \in T
      <4>1. get'[g] = [get[g] EXCEPT !.pc = "started"]
        BY <2>1, <2>2, <3>3
      <4> QED
        BY <1>0, <1>1, <3>1, <3>2, <3>3, <4>1 DEF Get
    <3>4. CASE g[2] \notin T
      BY <1>1, <2>1, <2>2, <3>2, <3>4
    <3> QED
      BY <3>3, <3>4
  <2>3. CASE g[1] # r
    BY <1>0, <1>1, <2>1, <2>3 DEF TypeOK
  <2> QED
    BY <2>2, <2>3
<1>4. ASSUME NEW r \in Requests, Cancel(r) PROVE Kept(g)
  <2>1. request'[g[1]].targets = targets
    BY <1>0, <1>4 DEF Cancel, TypeOK, Request
  <2> QED
    BY <1>1, <1>4, <2>1 DEF Cancel
<1>5. ASSUME NEW r \in Requests, Return(r) PROVE Kept(g)
  <2>1. CASE g[1] = r
    <3>1. get'[g] = [get[g] EXCEPT !.pc = "idle", !.asked = -1]
      BY <1>5, <2>1 DEF Return
    <3>2. get[g].pc \in {"idle", "answered"}
      BY <1>0, <1>1, <1>5, <2>1 DEF Return
    <3> QED
      BY <1>0, <1>1, <3>1, <3>2 DEF Get
  <2>2. CASE g[1] # r
    <3>1. request'[g[1]] = request[g[1]] /\ get'[g] = get[g]
      BY <1>0, <1>5, <2>2 DEF Return, TypeOK
    <3> QED
      BY <1>1, <3>1
  <2> QED
    BY <2>1, <2>2
<1>6. ASSUME NEW h \in Gets, GetSurveyState(h) PROVE Kept(g)
  <2>1. request' = request /\ get[h].pc # "idle"
    BY <1>6 DEF GetSurveyState, ReadClock, Hit, Join, Spawn, Receive, TimeOut
  <2>2. CASE ReadClock(h)
    <3>1. get'[h] = [get[h] EXCEPT !.pc = "asked", !.asked = now]
      BY <2>2 DEF ReadClock, TypeOK
    <3>2. /\ get'[h].pc = "asked" /\ get[h].pc = "started"
          /\ get'[h].snapshot = get[h].snapshot
          /\ get'[h].reply = get[h].reply
      BY <2>2, <3>1 DEF ReadClock, TypeOK, Get
    <3>3. h # g => get'[g] = get[g]
      BY <2>2 DEF ReadClock, TypeOK
    <3> QED
      BY <1>1, <2>1, <3>2, <3>3
  <2>3. ASSUME NEW l, WaitFor(h, l), get[h].pc = "asked" PROVE Kept(g)
    BY <1>1, <2>1, <2>3, WaitForRecord
  <2>4. ASSUME NEW kind, NEW sample, AnswerWith(h, kind, sample) PROVE Kept(g)
    BY <1>1, <2>1, <2>4, AnswerRecord
  <2> HIDE DEF Kept
  <2>5. CASE Join(h) \/ Spawn(h)
    BY <2>3, <2>5 DEF Join, Spawn
  <2>6. CASE Hit(h)
    BY <2>4, <2>6 DEF Hit
  <2>7. CASE Receive(h) \/ TimeOut(h)
    BY <2>4, <2>7, StaleOrErrorRecord DEF Receive, TimeOut
  <2> QED
    BY <1>6, <2>2, <2>5, <2>6, <2>7 DEF GetSurveyState
<1>7. ASSUME NEW l \in LoadIds, LoadSurveyState(l) PROVE Kept(g)
  <2>1. request' = request /\ (get' = get \/ \E reply : Finish(l, reply))
    BY <1>7 DEF LoadSurveyState, StartLoad, ReadSummary, ReadProperties,
                PublishLoad, FailLoad, Finish
  <2>2. ASSUME NEW reply, Finish(l, reply) PROVE Kept(g)
    BY <1>1, <2>1, <2>2, FinishRecord
  <2> HIDE DEF Kept
  <2> QED
    BY <1>2, <2>1, <2>2
<1>8. CASE Tick \/ UNCHANGED vars
  BY <1>1, <1>8 DEF Tick, vars
<1> HIDE DEF Kept
<1> QED
  BY <1>3, <1>4, <1>5, <1>6, <1>7, <1>8 DEF Next, Serve

LEMMA MapInvInductive ==
  /\ Init => MapInv
  /\ MapInv /\ [Next]_vars => MapInv'
  BY Inductive, FeedInvInit, FeedInvStep DEF MapInv

-----------------------------------------------------------------------------
(***************************************************************************)
(* The steps of the feed.                                                  *)
(***************************************************************************)
\* A record of a goroutine, and of its call in the feed.
LEMMA SameCall ==
  ASSUME NEW g \in Gets,
         InSelect(g)' = InSelect(g), get'[g].pc = get[g].pc \/ ~InSelect(g),
         get'[g].snapshot = get[g].snapshot, get'[g].reply = get[g].reply
  PROVE  FeedCall(g)' = FeedCall(g)
  BY DEF FeedCall, FeedPhase, InSelect

\* Nothing a caller of the feed could see has changed.
LEMMA FeedStutter ==
  ASSUME cache' = cache,
         \A g \in Gets : /\ FeedCall(g)' = FeedCall(g)
                         /\ get'[g].answer = get[g].answer
  PROVE  UNCHANGED Feed!feedVars
  BY DEF Feed!feedVars

LEMMA FeedInitial == Init => Feed!FeedInit
<1> SUFFICES ASSUME Init PROVE Feed!FeedInit
  OBVIOUS
<1>1. \A g \in Gets :
        /\ FeedCall(g) = [phase |-> "closed", before |-> NoSample, since |-> NoSample]
        /\ get[g].answer = [kind |-> "none", sample |-> NoSample]
  BY DEF Init, FeedCall, FeedPhase
<1> QED
  BY <1>1 DEF Init, Feed!FeedInit, Feed!Closed

\* The goroutines that are not in the select, and stay out of it.
LEMMA OutsideStutters ==
  ASSUME TypeOK, FeedInv, FeedInv', cache' = cache,
         \A g \in Gets : get'[g] # get[g] =>
           /\ ~InSelect(g) /\ ~InSelect(g)'
           /\ get'[g].answer = get[g].answer
  PROVE  UNCHANGED Feed!feedVars
<1>1. ASSUME NEW g \in Gets
      PROVE  FeedCall(g)' = FeedCall(g) /\ get'[g].answer = get[g].answer
  <2>1. CASE get'[g] = get[g]
    BY <2>1 DEF FeedCall, FeedPhase
  <2>2. CASE ~InSelect(g) /\ ~InSelect(g)'
    BY <1>1, <2>2 DEF FeedInv, FeedCall, FeedPhase, InSelect
  <2> QED
    BY <1>1, <2>1, <2>2
<1> QED
  BY <1>1, FeedStutter

\* A hit is answered with what is current.
LEMMA HitAnswersNow ==
  ASSUME MapInv, MapInv', NEW g \in Gets, Hit(g)
  PROVE  Feed!AnswerNow(g)
<1>1. /\ TypeOK /\ FeedInv /\ FeedInv' /\ get[g].pc = "asked"
      /\ Stored(cache[g[2]]) /\ cache' = cache
      /\ AnswerWith(g, "fresh", cache[g[2]])
  BY DEF MapInv, IInv, TypeInv, Hit, WithinTTL
<1>2. /\ get'[g].answer = [kind |-> "fresh", sample |-> cache[g[2]]]
      /\ get'[g].pc = "answered"
      /\ \A h \in Gets \ {g} : get'[h] = get[h]
  BY <1>1, AnswerRecord
<1>3. \A h \in Gets : FeedCall(h)' = FeedCall(h)
  BY <1>1, <1>2 DEF FeedInv, FeedCall, FeedPhase, InSelect
<1>4. FeedCall(g).phase = "closed"
  BY <1>1 DEF FeedCall, FeedPhase
<1>5. cache[g[2]] # NoSample
  BY <1>1 DEF Stored, NoSample
<1> QED
  BY <1>1, <1>2, <1>3, <1>4, <1>5 DEF Feed!AnswerNow

\* Joining a refresh or starting one opens the call.
LEMMA WaitOpens ==
  ASSUME MapInv, NEW g \in Gets, NEW l, get[g].pc = "asked", WaitFor(g, l),
         cache' = cache
  PROVE  Feed!Open(g)
<1>1. TypeOK /\ get[g].reply = NoSample
  BY DEF MapInv, IInv, TypeInv, FeedInv
<1>2. /\ get'[g].pc = "waiting" /\ get'[g].snapshot = cache[g[2]]
      /\ get'[g].reply = NoSample /\ get'[g].answer = get[g].answer
      /\ \A h \in Gets \ {g} : get'[h] = get[h]
  BY <1>1, WaitForRecord
<1>3. FeedCall(g).phase = "closed"
  BY DEF FeedCall, FeedPhase
<1>4. FeedCall(g)' = [phase |-> "waiting", before |-> cache[g[2]], since |-> NoSample]
  BY <1>2 DEF FeedCall, FeedPhase
<1>5. \A h \in Gets \ {g} : FeedCall(h)' = FeedCall(h)
  BY <1>2 DEF FeedCall, FeedPhase
<1>6. \A h \in Gets : get'[h].answer = get[h].answer
  BY <1>2
<1> QED
  BY <1>3, <1>4, <1>5, <1>6 DEF Feed!Open

\* Leaving the select closes the call with one of the samples it may return.
LEMMA LeaveCloses ==
  ASSUME MapInv, NEW g \in Gets, InSelect(g), cache' = cache,
         NEW kind, NEW sample, AnswerWith(g, kind, sample),
         \/ kind = "error" /\ sample = NoSample
         \/ kind = "stale" /\ sample = get[g].snapshot /\ Stored(sample)
         \/ kind = "fresh" /\ sample = get[g].reply /\ Stored(sample)
  PROVE  Feed!Close(g)
<1> DEFINE outcome == [kind |-> kind, sample |-> sample]
<1>1. /\ get'[g].pc = "answered" /\ get'[g].snapshot = NoSample
      /\ get'[g].reply = NoSample /\ get'[g].answer = outcome
      /\ \A h \in Gets \ {g} : get'[h] = get[h]
  BY AnswerRecord DEF MapInv, IInv, TypeInv
<1>2. FeedCall(g).phase # "closed"
  BY DEF FeedCall, FeedPhase, InSelect
<1>3. /\ FeedCall(g)' = [phase |-> "closed", before |-> NoSample, since |-> NoSample]
      /\ \A h \in Gets \ {g} : FeedCall(h)' = FeedCall(h)
  BY <1>1 DEF FeedCall, FeedPhase
<1>4. outcome \in Feed!Outcomes(g)
  <2>1. Stored(sample) => sample # NoSample
    BY DEF Stored, NoSample
  <2>2. FeedCall(g).before = get[g].snapshot /\ FeedCall(g).since = get[g].reply
    BY DEF FeedCall
  <2> QED
    BY <2>1, <2>2 DEF Feed!Outcomes
<1>5. [h \in Gets |-> get[h].answer]'
        = [[h \in Gets |-> get[h].answer] EXCEPT ![g] = outcome]
  BY <1>1
<1>6. [h \in Gets |-> FeedCall(h)]'
        = [[h \in Gets |-> FeedCall(h)] EXCEPT
             ![g] = [phase |-> "closed", before |-> NoSample, since |-> NoSample]]
  BY <1>3
<1> HIDE DEF outcome
<1> QED
  BY <1>2, <1>4, <1>5, <1>6 DEF Feed!Close, Feed!Closed

\* The end of a refresh reaches every call that waits for its survey.
LEMMA FinishDelivers ==
  ASSUME MapInv, NEW l \in LoadIds, Running(l), NEW reply, Finish(l, reply)
  PROVE  /\ Feed!Deliver(load[l].key, reply)
         /\ \A g \in Gets : get'[g].answer = get[g].answer
<1> DEFINE key == load[l].key
<1>1. TypeOK /\ SingleFlight /\ NoStrandedWaiter
  BY DEF MapInv, IInv, TypeInv, FlightInv
<1>2. inflight[key] = l /\ key \in Keys
  BY <1>1 DEF SingleFlight, TypeOK, Load
<1>3. ASSUME NEW g \in Gets
      PROVE  (get[g].pc = "waiting" /\ get[g].load = l)
               <=> (get[g].pc = "waiting" /\ g[2] = key)
  <2>1. g[2] \in Keys
    BY DEF Gets
  <2>2. ASSUME get[g].pc = "waiting"
        PROVE  get[g].load # NoLoad /\ inflight[g[2]] = get[g].load
    BY <1>1, <2>2 DEF NoStrandedWaiter
  <2>3. inflight[g[2]] = l => g[2] = key
    BY <1>1, <2>1, NoLoadAssumption DEF SingleFlight
  <2> QED
    BY <1>2, <2>2, <2>3
<1>4. ASSUME NEW g \in Gets
      PROVE  /\ get'[g].answer = get[g].answer
             /\ FeedCall(g)' = IF get[g].pc = "waiting" /\ g[2] = key
                               THEN [FeedCall(g) EXCEPT !.phase = "served",
                                                        !.since = reply]
                               ELSE FeedCall(g)
  <2>1. CASE get[g].pc = "waiting" /\ g[2] = key
    <3>1. /\ get'[g].pc = "woken" /\ get'[g].snapshot = get[g].snapshot
          /\ get'[g].reply = reply /\ get'[g].answer = get[g].answer
      BY <1>1, <1>3, <2>1, FinishRecord
    <3>2. FeedCall(g)' = [phase |-> "served", before |-> get[g].snapshot,
                          since |-> reply]
      BY <3>1 DEF FeedCall, FeedPhase
    <3> QED
      BY <2>1, <3>1, <3>2 DEF FeedCall
  <2>2. CASE ~(get[g].pc = "waiting" /\ g[2] = key)
    <3>1. get'[g] = get[g]
      BY <1>1, <1>3, <2>2, FinishRecord
    <3> QED
      BY <2>2, <3>1 DEF FeedCall, FeedPhase
  <2> QED
    BY <2>1, <2>2
<1>5. \A g \in Gets : FeedCall(g).phase = "waiting" <=> get[g].pc = "waiting"
  BY DEF FeedCall, FeedPhase
<1>6. [g \in Gets |-> FeedCall(g)]'
        = [g \in Gets |-> IF g[2] = key /\ FeedCall(g).phase = "waiting"
                          THEN [FeedCall(g) EXCEPT !.phase = "served",
                                                   !.since = reply]
                          ELSE FeedCall(g)]
  BY <1>4, <1>5
<1> QED
  BY <1>4, <1>6 DEF Feed!Deliver, Feed!WaitingFor

LEMMA PublishPublishes ==
  ASSUME MapInv, MapInv', NEW l \in LoadIds, PublishLoad(l)
  PROVE  Feed!Publish(load[l].key)
<1> DEFINE key == load[l].key
           f == [load[l].sample EXCEPT !.fetched = now]
<1>1. TypeOK /\ CacheInv /\ LoadInv /\ Running(l) /\ cache' \in [Keys -> Sample]
  BY DEF MapInv, IInv, TypeInv, TypeOK, PublishLoad, Running
<1>2. /\ f.fetched = now /\ cache'[key] = f
      /\ \A k \in Keys \ {key} : cache'[k] = cache[k]
      /\ Finish(l, f) /\ NotOlder(cache[key], f)
  BY <1>1, PublishEffect
<1>3. f # NoSample
  BY <1>1, <1>2, FieldTypes DEF NoSample
<1> HIDE DEF f
<1>4. /\ Feed!Deliver(key, f)
      /\ [g \in Gets |-> get[g].answer]' = [g \in Gets |-> get[g].answer]
  BY <1>1, <1>2, FinishDelivers
<1> QED
  BY <1>1, <1>2, <1>3, <1>4 DEF Feed!Publish, Feed!NoOlder, NotOlder

LEMMA FailGivesUp ==
  ASSUME MapInv, NEW l \in LoadIds, FailLoad(l)
  PROVE  Feed!GiveUp(load[l].key)
<1>1. Running(l) /\ Finish(l, NoSample) /\ cache' = cache
  BY DEF FailLoad, Running
<1>2. /\ Feed!Deliver(load[l].key, NoSample)
      /\ [g \in Gets |-> get[g].answer]' = [g \in Gets |-> get[g].answer]
  BY <1>1, FinishDelivers
<1> QED
  BY <1>1, <1>2 DEF Feed!GiveUp

LEMMA FeedStep == MapInv /\ MapInv' /\ [Next]_vars => [Feed!FeedNext]_(Feed!feedVars)
<1> SUFFICES ASSUME MapInv, MapInv', [Next]_vars
             PROVE  Feed!FeedNext \/ UNCHANGED Feed!feedVars
  OBVIOUS
<1>1. TypeOK /\ FeedInv /\ FeedInv'
  BY DEF MapInv, IInv, TypeInv
<1>2. \A g \in Gets : get[g] \in Get
  BY <1>1 DEF TypeOK
<1>3. CASE cache' = cache /\ get' = get
  BY <1>1, <1>3, OutsideStutters
<1>4. ASSUME NEW r \in Requests, Begin(r) PROVE UNCHANGED Feed!feedVars
  <2>1. ASSUME NEW g \in Gets, get'[g] # get[g]
        PROVE  ~InSelect(g) /\ ~InSelect(g)' /\ get'[g].answer = get[g].answer
    <3>1. get'[g] = [get[g] EXCEPT !.pc = "started"] /\ g[1] = r
      BY <1>4, <2>1 DEF Begin
    <3>2. get[g].pc = "idle"
      BY <1>1, <1>4, <3>1 DEF Begin, FeedInv
    <3> QED
      BY <1>2, <3>1, <3>2 DEF InSelect, Get
  <2>2. cache' = cache
    BY <1>4 DEF Begin
  <2> QED
    BY <1>1, <2>1, <2>2, OutsideStutters
<1>5. ASSUME NEW r \in Requests, Return(r) PROVE UNCHANGED Feed!feedVars
  <2>1. ASSUME NEW g \in Gets, get'[g] # get[g]
        PROVE  ~InSelect(g) /\ ~InSelect(g)' /\ get'[g].answer = get[g].answer
    <3>1. get'[g] = [get[g] EXCEPT !.pc = "idle", !.asked = -1] /\ g[1] = r
      BY <1>5, <2>1 DEF Return
    <3>2. get[g].pc \in {"idle", "answered"}
      <4>1. g = <<r, g[2]>> /\ g[1] = r
        BY <3>1 DEF Gets
      <4>2. g[2] \notin request[r].targets => get[g].pc = "idle"
        BY <1>1, <4>1 DEF FeedInv
      <4>3. \A k \in request[r].targets : get[<<r, k>>].pc = "answered"
        BY <1>5 DEF Return
      <4> QED
        BY <4>1, <4>2, <4>3
    <3> QED
      BY <1>2, <3>1, <3>2 DEF InSelect, Get
  <2>2. cache' = cache
    BY <1>5 DEF Return
  <2> QED
    BY <1>1, <2>1, <2>2, OutsideStutters
<1>6. ASSUME NEW g \in Gets, ReadClock(g) PROVE UNCHANGED Feed!feedVars
  <2>1. get'[g] = [get[g] EXCEPT !.pc = "asked", !.asked = now] /\ get[g].pc = "started"
    BY <1>1, <1>6 DEF ReadClock, TypeOK
  <2>2. ~InSelect(g) /\ ~InSelect(g)' /\ get'[g].answer = get[g].answer
    BY <1>2, <2>1 DEF InSelect, Get
  <2>3. cache' = cache /\ \A h \in Gets : h # g => get'[h] = get[h]
    BY <1>1, <1>6 DEF ReadClock, TypeOK
  <2> QED
    BY <1>1, <2>2, <2>3, OutsideStutters
<1>7. ASSUME NEW g \in Gets, Hit(g) PROVE Feed!AnswerNow(g)
  BY <1>7, HitAnswersNow
<1>8. ASSUME NEW g \in Gets, Join(g) \/ Spawn(g) PROVE Feed!Open(g)
  BY <1>8, WaitOpens DEF Join, Spawn
<1>9. ASSUME NEW g \in Gets, Receive(g) \/ TimeOut(g) PROVE Feed!Close(g)
  <2>1. cache' = cache /\ InSelect(g)
    BY <1>9 DEF Receive, TimeOut, InSelect
  <2>2. \/ AnswerWith(g, "fresh", get[g].reply) /\ Stored(get[g].reply)
        \/ StaleOrError(g)
    BY <1>9 DEF Receive, TimeOut
  <2> QED
    BY <1>1, <2>1, <2>2, StaleOrErrorRecord, LeaveCloses
<1>10. ASSUME NEW l \in LoadIds, StartLoad(l) \/ ReadSummary(l) \/ ReadProperties(l)
       PROVE  cache' = cache /\ get' = get
  BY <1>10 DEF StartLoad, ReadSummary, ReadProperties
<1>11. ASSUME NEW l \in LoadIds, PublishLoad(l) \/ FailLoad(l)
       PROVE  Feed!Publish(load[l].key) \/ Feed!GiveUp(load[l].key)
  BY <1>11, PublishPublishes, FailGivesUp
<1>12. \A l \in LoadIds : load[l].key \in Keys
  BY <1>1, FieldTypes
<1>13. CASE Tick \/ (\E r \in Requests : Cancel(r)) \/ UNCHANGED vars
  BY <1>3, <1>13 DEF Tick, Cancel, vars
<1> QED
  BY <1>3, <1>4, <1>5, <1>6, <1>7, <1>8, <1>9, <1>10, <1>11, <1>12, <1>13
  DEF Next, Serve, GetSurveyState, LoadSurveyState, Feed!FeedNext

\* The mutex, the inflight map and the select of GetSurveyState, whatever the
\* interleaving, implement one forward-moving register per survey whose every
\* publication reaches all the calls that wait for it.
THEOREM CacheImplementsFeed == Spec => ImplementsFeed
<1>1. Init => Feed!FeedInit
  BY FeedInitial
<1> QED
  BY <1>1, MapInvInductive, FeedStep, PTL DEF Spec, ImplementsFeed, Feed!FeedSpec

=============================================================================
