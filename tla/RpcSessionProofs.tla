-------------------------- MODULE RpcSessionProofs --------------------------
(***************************************************************************)
(* Proofs about RpcSession. The composition implements the cache it        *)
(* extends, so that every theorem of StatsCacheProofs holds of it; what is *)
(* proved here in addition is about the sessions.                          *)
(***************************************************************************)
EXTENDS RpcSession, StatsCacheProofs

\* Every step of the composition is a step of the cache or leaves it alone.
LEMMA CacheStepOfRpc == [RpcNext]_allVars => [Next]_vars
  BY DEF RpcNext, Refresh, Connect, TakeKey, TakeSummary, TakeProperties, Store,
         Fail, LimeSurveyAnswers, Expire, SendRelease, Next, LoadSurveyState,
         vars, allVars

\* Adding the RPCs and the sessions to the refresh takes nothing away from the
\* cache: the refresh of RpcSession is a refresh of StatsCache.
THEOREM RpcImplementsCache == RpcSpec => Spec
<1>1. RpcInit => Init
  BY DEF RpcInit
<1> QED
  BY <1>1, CacheStepOfRpc, PTL DEF RpcSpec, Spec

-----------------------------------------------------------------------------
(***************************************************************************)
(* Type correctness.                                                       *)
(***************************************************************************)
SessionTypes ==
    /\ client \in [LoadIds -> Client]
    /\ shown \in [Keys -> State]
    /\ releasing \subseteq SessionKeys
    /\ received \subseteq SessionKeys

RpcTypeInv == TypeInv /\ SessionTypes

LEMMA NoClientType == NoClient \in Client
  BY DEF NoClient, Client, Results

\* What a step of refresh l, or LimeSurvey's answer to it, makes of its client.
LEMMA ClientFields ==
  ASSUME SessionTypes, NEW l \in LoadIds, NEW c \in Client,
         client' = [client EXCEPT ![l] = c]
  PROVE  /\ client' \in [LoadIds -> Client]
         /\ client'[l] = c
         /\ \A m \in LoadIds \ {l} : client'[m] = client[m]
  BY DEF SessionTypes

LEMMA CallEffect ==
  ASSUME SessionTypes, NEW l \in LoadIds, NEW method \in Methods, Call(l, method)
  PROVE  /\ client' \in [LoadIds -> Client]
         /\ client'[l].call = method /\ client'[l].answer = "none"
         /\ client'[l].key = client[l].key
         /\ client'[l].alive = client[l].alive
         /\ client'[l].counts = client[l].counts
         /\ \A m \in LoadIds \ {l} : client'[m] = client[m]
<1> DEFINE c == [client[l] EXCEPT !.call = method, !.answer = "none"]
<1>1. client[l] \in Client
  BY DEF SessionTypes
<1>2. /\ c \in Client /\ c.call = method /\ c.answer = "none"
      /\ c.key = client[l].key /\ c.alive = client[l].alive
      /\ c.counts = client[l].counts
  BY <1>1 DEF Client, Results
<1>3. client' = [client EXCEPT ![l] = c]
  BY DEF Call
<1> HIDE DEF c
<1> QED
  BY <1>2, <1>3, ClientFields

LEMMA ReplyEffect ==
  ASSUME SessionTypes, NEW l \in LoadIds, NEW answer \in Results, Reply(l, answer)
  PROVE  /\ client' \in [LoadIds -> Client]
         /\ client'[l].call = client[l].call /\ client'[l].answer = answer
         /\ client'[l].key = client[l].key
         /\ client'[l].alive = client[l].alive
         /\ client'[l].counts = client[l].counts
         /\ \A m \in LoadIds \ {l} : client'[m] = client[m]
<1> DEFINE c == [client[l] EXCEPT !.answer = answer]
<1>1. client[l] \in Client
  BY DEF SessionTypes
<1>2. /\ c \in Client /\ c.call = client[l].call /\ c.answer = answer
      /\ c.key = client[l].key /\ c.alive = client[l].alive
      /\ c.counts = client[l].counts
  BY <1>1 DEF Client
<1>3. client' = [client EXCEPT ![l] = c]
  BY DEF Reply
<1> HIDE DEF c
<1> QED
  BY <1>2, <1>3, ClientFields

LEMMA OpenEffect ==
  ASSUME SessionTypes, NEW l \in LoadIds, NEW s \in SessionKeys,
         client' = [client EXCEPT ![l].answer = "key", ![l].key = s,
                                  ![l].alive = TRUE]
  PROVE  /\ client' \in [LoadIds -> Client]
         /\ client'[l].call = client[l].call /\ client'[l].answer = "key"
         /\ client'[l].key = s /\ client'[l].counts = client[l].counts
         /\ \A m \in LoadIds \ {l} : client'[m] = client[m]
<1> DEFINE c == [client[l] EXCEPT !.answer = "key", !.key = s, !.alive = TRUE]
<1>1. client[l] \in Client
  BY DEF SessionTypes
<1>2. /\ c \in Client /\ c.call = client[l].call /\ c.answer = "key"
      /\ c.key = s /\ c.counts = client[l].counts
  BY <1>1 DEF Client, Results
<1>3. client' = [client EXCEPT ![l] = c]
  OBVIOUS
<1> HIDE DEF c
<1> QED
  BY <1>2, <1>3, ClientFields

LEMMA ExpireEffect ==
  ASSUME SessionTypes, NEW l \in LoadIds, Expire(l)
  PROVE  /\ client' \in [LoadIds -> Client]
         /\ client'[l].call = client[l].call
         /\ client'[l].answer = client[l].answer
         /\ client'[l].key = client[l].key
         /\ client'[l].alive = FALSE /\ client[l].alive
         /\ client'[l].counts = client[l].counts
         /\ \A m \in LoadIds \ {l} : client'[m] = client[m]
<1> DEFINE c == [client[l] EXCEPT !.alive = FALSE]
<1>1. client[l] \in Client
  BY DEF SessionTypes
<1>2. /\ c \in Client /\ c.call = client[l].call /\ c.answer = client[l].answer
      /\ c.key = client[l].key /\ c.alive = FALSE
      /\ c.counts = client[l].counts
  BY <1>1 DEF Client
<1>3. client' = [client EXCEPT ![l] = c] /\ client[l].alive
  BY DEF Expire
<1> HIDE DEF c
<1> QED
  BY <1>2, <1>3, ClientFields

LEMMA SummaryEffect ==
  ASSUME SessionTypes, NEW l \in LoadIds, TakeSummary(l),
         client[l].answer \in {"counts", "status"}
  PROVE  /\ client' \in [LoadIds -> Client]
         /\ client'[l].call = "get_survey_properties"
         /\ client'[l].answer = "none"
         /\ client'[l].key = client[l].key
         /\ client'[l].alive = client[l].alive
         /\ client'[l].counts = client[l].answer
         /\ \A m \in LoadIds \ {l} : client'[m] = client[m]
<1> DEFINE c == [client[l] EXCEPT !.call = "get_survey_properties",
                                  !.answer = "none", !.counts = client[l].answer]
<1>1. client[l] \in Client
  BY DEF SessionTypes
<1>2. /\ c \in Client /\ c.call = "get_survey_properties" /\ c.answer = "none"
      /\ c.key = client[l].key /\ c.alive = client[l].alive
      /\ c.counts = client[l].answer
  BY <1>1 DEF Client, Methods, Results
<1>3. client' = [client EXCEPT ![l] = c]
  BY DEF TakeSummary
<1> HIDE DEF c
<1> QED
  BY <1>2, <1>3, ClientFields

LEMMA PropertiesEffect ==
  ASSUME SessionTypes, NEW l \in LoadIds, TakeProperties(l)
  PROVE  /\ client' \in [LoadIds -> Client]
         /\ client'[l].call = "none"
         /\ client'[l].answer = client[l].answer
         /\ client'[l].key = NoKey
         /\ client'[l].alive = FALSE
         /\ client'[l].counts = client[l].counts
         /\ \A m \in LoadIds \ {l} : client'[m] = client[m]
<1> DEFINE c == [client[l] EXCEPT !.call = "none", !.key = NoKey, !.alive = FALSE]
<1>1. client[l] \in Client
  BY DEF SessionTypes
<1>2. /\ c \in Client /\ c.call = "none" /\ c.answer = client[l].answer
      /\ c.key = NoKey /\ c.alive = FALSE
      /\ c.counts = client[l].counts
  BY <1>1 DEF Client
<1>3. client' = [client EXCEPT ![l] = c]
  BY DEF TakeProperties
<1> HIDE DEF c
<1> QED
  BY <1>2, <1>3, ClientFields

\* Both ends of a refresh leave no client behind.
LEMMA EndEffect ==
  ASSUME SessionTypes, NEW l \in LoadIds, Store(l) \/ Fail(l)
  PROVE  /\ client' \in [LoadIds -> Client]
         /\ client'[l] = NoClient
         /\ \A m \in LoadIds \ {l} : client'[m] = client[m]
  BY NoClientType, ClientFields DEF Store, Fail

-----------------------------------------------------------------------------
(***************************************************************************)
(* The inductive invariant. A dead session stays dead, so a status text in *)
(* place of the counts rules out an active flag later; the keys in use are *)
(* different from each other and from those being released.                *)
(***************************************************************************)
ClientInv ==
    \A l \in LoadIds : LET c == client[l] IN
        /\ load[l].phase \in {"free", "spawned"} => c = NoClient
        /\ c.call = "get_session_key" => c.counts = "none"
        /\ c.call = "get_summary" => c.answer \in {"none", "counts", "status"}
        /\ c.call = "get_summary" /\ c.answer = "status" => ~c.alive
        /\ c.counts = "status" => ~c.alive /\ c.answer # "active"

KeyInv ==
    \A l \in LoadIds : LET c == client[l] IN
        /\ c.key \notin releasing
        /\ c.call = "get_session_key" /\ c.answer = "key" => c.key \in SessionKeys
        /\ c.call \in {"get_summary", "get_survey_properties"} => c.key \in received
        /\ \A m \in LoadIds \ {l} : client[m].key = c.key => c.key = NoKey

SessionInv == SessionTypes /\ ClientInv /\ KeyInv

LEMMA SessionInvInit == RpcInit => SessionInv
<1> SUFFICES ASSUME RpcInit PROVE SessionInv
  OBVIOUS
<1>1. SessionTypes
  BY NoClientType DEF RpcInit, SessionTypes, State
<1>2. \A l \in LoadIds : client[l] = NoClient
  BY DEF RpcInit
<1>3. ClientInv
  <2>1. NoClient.call = "none" /\ NoClient.counts = "none"
    BY DEF NoClient
  <2> QED
    BY <1>2, <2>1 DEF ClientInv
<1>4. KeyInv
  BY <1>2 DEF KeyInv, NoClient, RpcInit
<1> QED
  BY <1>1, <1>3, <1>4 DEF SessionInv

\* The refreshes that a step of the requests leaves without a client, and
\* those that a step of one refresh leaves alone.
LEMMA PhaseFrame ==
  ASSUME TypeOK, NEW m \in LoadIds
  PROVE  /\ Tick \/ (\E r \in Requests : Serve(r)) \/ UNCHANGED vars
              => load'[m].phase = load[m].phase
         /\ \A g \in Gets : GetSurveyState(g) =>
              \/ load'[m].phase = load[m].phase
              \/ load[m].phase = "free" /\ load'[m].phase = "spawned"
         /\ \A l \in LoadIds \ {m} : LoadSurveyState(l) => load'[m] = load[m]
<1>1. Tick \/ (\E r \in Requests : Serve(r)) \/ UNCHANGED vars => load' = load
  BY DEF Tick, Serve, Begin, Cancel, Return, vars
<1>2. ASSUME NEW g \in Gets, GetSurveyState(g)
      PROVE  \/ load'[m].phase = load[m].phase
             \/ load[m].phase = "free" /\ load'[m].phase = "spawned"
  <2>1. load' = load \/ Spawn(g)
    BY <1>2 DEF GetSurveyState, ReadClock, Hit, Join, Receive, TimeOut
  <2>2. CASE Spawn(g)
    <3>1. PICK l \in LoadIds :
            /\ ~Running(l)
            /\ load' = [load EXCEPT ![l] = [@ EXCEPT !.phase = "spawned", !.key = g[2]]]
      BY <2>2 DEF Spawn
    <3>2. load[l] \in Load
      BY DEF TypeOK
    <3>3. [load[l] EXCEPT !.phase = "spawned", !.key = g[2]].phase = "spawned"
      BY <3>2 DEF Load
    <3> QED
      BY <3>1, <3>3 DEF TypeOK, Running
  <2> QED
    BY <2>1, <2>2
<1>3. ASSUME NEW l \in LoadIds \ {m}, LoadSurveyState(l) PROVE load'[m] = load[m]
  BY <1>3 DEF LoadSurveyState, StartLoad, ReadSummary, ReadProperties,
             PublishLoad, FailLoad, Finish, TypeOK
<1> QED
  BY <1>1, <1>2, <1>3

LEMMA PhaseAfter ==
  ASSUME TypeOK, NEW l \in LoadIds
  PROVE  /\ StartLoad(l) => load'[l].phase = "opened"
         /\ ReadSummary(l) => load'[l].phase = "summarised"
         /\ ReadProperties(l) => load'[l].phase = "sampled"
<1>1. load[l] \in Load
  BY DEF TypeOK
<1>2. load[l].sample \in Sample
  BY <1>1 DEF Load
<1> QED
  BY <1>1, <1>2 DEF StartLoad, ReadSummary, ReadProperties, TypeOK, Load

LEMMA SessionTypesStep == SessionInv /\ [RpcNext]_allVars => SessionTypes'
<1> SUFFICES ASSUME SessionInv, [RpcNext]_allVars PROVE SessionTypes'
  OBVIOUS
<1>1. SessionTypes /\ \A l \in LoadIds : client[l] \in Client
  BY DEF SessionInv, SessionTypes
<1>2. CASE client' = client /\ shown' = shown /\ releasing' \subseteq releasing
           /\ received' \subseteq received
  BY <1>1, <1>2 DEF SessionTypes
<1>3. ASSUME NEW l \in LoadIds, Connect(l) PROVE SessionTypes'
  <2>1. client' \in [LoadIds -> Client]
    BY <1>1, <1>3, CallEffect DEF Connect, Methods, SessionTypes
  <2> QED
    BY <1>1, <1>3, <2>1 DEF Connect, SessionTypes
<1>4. ASSUME NEW l \in LoadIds, TakeKey(l) PROVE SessionTypes'
  <2>1. client' \in [LoadIds -> Client]
    BY <1>1, <1>4, CallEffect DEF TakeKey, Methods
  <2>2. client[l].key \in SessionKeys
    BY <1>4 DEF TakeKey, SessionInv, KeyInv
  <2> QED
    BY <1>1, <1>4, <2>1, <2>2 DEF TakeKey, SessionTypes
<1>5. ASSUME NEW l \in LoadIds, TakeSummary(l) PROVE SessionTypes'
  <2>1. client[l].answer \in {"counts", "status"}
    BY <1>5 DEF TakeSummary, SessionInv, ClientInv
  <2>2. client' \in [LoadIds -> Client]
    BY <1>1, <1>5, <2>1, SummaryEffect
  <2> QED
    BY <1>1, <1>5, <2>2 DEF TakeSummary, SessionTypes
<1>6. ASSUME NEW l \in LoadIds, TakeProperties(l) \/ Store(l) \/ Fail(l)
      PROVE  SessionTypes'
  <2>1. client' \in [LoadIds -> Client]
    BY <1>1, <1>6, PropertiesEffect, EndEffect
  <2>2. received' = received /\ releasing' \subseteq SessionKeys
    BY <1>1, <1>6 DEF TakeProperties, Store, Fail, DeferredRelease, SessionTypes
  <2>3. shown' \in [Keys -> State]
    <3>1. client[l].counts \in {"none", "counts", "status"}
      BY <1>1 DEF Client
    <3>2. [counts |-> client[l].counts, active |-> SaidActive(client[l].answer)] \in State
      BY <3>1 DEF State, SaidActive
    <3> QED
      BY <1>1, <1>6, <3>2 DEF TakeProperties, Store, Fail, SessionTypes
  <2> QED
    BY <1>1, <2>1, <2>2, <2>3 DEF SessionTypes
<1>7. ASSUME NEW l \in LoadIds, LimeSurveyAnswers(l) \/ Expire(l) PROVE SessionTypes'
  <2>1. client' \in [LoadIds -> Client]
    <3>1. ASSUME NEW answer \in Results, Reply(l, answer)
          PROVE  client' \in [LoadIds -> Client]
      BY <1>1, <3>1, ReplyEffect
    <3>2. CASE OpenSession(l)
      BY <1>1, <3>2, OpenEffect DEF OpenSession
    <3>3. CASE RefuseLogin(l) \/ AnswerSummary(l) \/ AnswerProperties(l)
      BY <3>1, <3>3 DEF RefuseLogin, AnswerSummary, AnswerProperties, Results
    <3>4. CASE Expire(l)
      BY <1>1, <3>4, ExpireEffect
    <3> QED
      BY <1>7, <3>2, <3>3, <3>4 DEF LimeSurveyAnswers
  <2> QED
    BY <1>1, <1>7, <2>1 DEF LimeSurveyAnswers, Expire, SessionTypes
<1>8. ASSUME NEW s \in SessionKeys, SendRelease(s) PROVE SessionTypes'
  BY <1>2, <1>8 DEF SendRelease
<1>9. CASE UNCHANGED rpcVars
  BY <1>2, <1>9 DEF rpcVars
<1> QED
  BY <1>3, <1>4, <1>5, <1>6, <1>7, <1>8, <1>9
  DEF RpcNext, Refresh, allVars

LEMMA ClientInvStep == TypeOK /\ SessionInv /\ [RpcNext]_allVars => ClientInv'
<1> DEFINE Kept(m) ==
      /\ load'[m].phase \in {"free", "spawned"} => client'[m] = NoClient
      /\ client'[m].call = "get_session_key" => client'[m].counts = "none"
      /\ client'[m].call = "get_summary" =>
           client'[m].answer \in {"none", "counts", "status"}
      /\ client'[m].call = "get_summary" /\ client'[m].answer = "status" =>
           ~client'[m].alive
      /\ client'[m].counts = "status" =>
           ~client'[m].alive /\ client'[m].answer # "active"
<1> SUFFICES ASSUME TypeOK, SessionInv, [RpcNext]_allVars, NEW m \in LoadIds
             PROVE  Kept(m)
  BY DEF ClientInv
<1>1. /\ SessionTypes /\ client[m] \in Client
      /\ load[m].phase \in {"free", "spawned"} => client[m] = NoClient
      /\ client[m].call = "get_session_key" => client[m].counts = "none"
      /\ client[m].call = "get_summary" =>
           client[m].answer \in {"none", "counts", "status"}
      /\ client[m].call = "get_summary" /\ client[m].answer = "status" =>
           ~client[m].alive
      /\ client[m].counts = "status" => ~client[m].alive /\ client[m].answer # "active"
  BY DEF SessionInv, SessionTypes, ClientInv
<1>2. ASSUME client'[m] = client[m],
             load'[m].phase \in {"free", "spawned"} =>
               load[m].phase \in {"free", "spawned"}
      PROVE  Kept(m)
  BY <1>1, <1>2
<1>3. ASSUME NEW l \in LoadIds \ {m}, Refresh(l) \/ LimeSurveyAnswers(l) \/ Expire(l)
      PROVE  Kept(m)
  <2>1. client'[m] = client[m]
    <3>1. \E c : \/ client' = [client EXCEPT ![l] = c]
                 \/ client' = client
      BY <1>3 DEF Refresh, Connect, TakeKey, TakeSummary, TakeProperties, Store, Fail,
                  Call, LimeSurveyAnswers, OpenSession, RefuseLogin, AnswerSummary,
                  AnswerProperties, Reply, Expire
    <3> QED
      BY <1>1, <3>1 DEF SessionTypes
  <2>2. load' = load \/ LoadSurveyState(l)
    BY <1>3 DEF Refresh, Connect, TakeKey, TakeSummary, TakeProperties, Store, Fail,
                LimeSurveyAnswers, Expire, LoadSurveyState, vars
  <2>3. load'[m] = load[m]
    BY <2>2, PhaseFrame
  <2> QED
    BY <1>2, <2>1, <2>3
<1>4. CASE Connect(m)
  <2>1. client[m] = NoClient /\ load'[m].phase = "opened"
    BY <1>1, <1>4, PhaseAfter DEF Connect, StartLoad
  <2>2. NoClient.call = "none" /\ NoClient.counts = "none"
    BY DEF NoClient
  <2>3. CASE client' = client
    BY <2>1, <2>2, <2>3
  <2>4. CASE Call(m, "get_session_key")
    <3>1. /\ client'[m].call = "get_session_key"
          /\ client'[m].counts = client[m].counts
      BY <1>1, <2>4, CallEffect DEF Methods
    <3> QED
      BY <2>1, <2>2, <3>1
  <2> QED
    BY <1>4, <2>3, <2>4 DEF Connect
<1>5. CASE TakeKey(m)
  <2>1. /\ client[m].call = "get_session_key" /\ load' = load
        /\ Call(m, "get_summary")
    BY <1>5 DEF TakeKey, vars
  <2>2. client[m] # NoClient
    BY <2>1 DEF NoClient
  <2>3. /\ client'[m].call = "get_summary" /\ client'[m].answer = "none"
        /\ client'[m].counts = client[m].counts
    BY <1>1, <2>1, CallEffect DEF Methods
  <2> QED
    BY <1>1, <2>1, <2>2, <2>3
<1>6. CASE TakeSummary(m)
  <2>1. client[m].call = "get_summary" /\ client[m].answer \in {"counts", "status"}
    BY <1>1, <1>6 DEF TakeSummary
  <2>2. load'[m].phase = "summarised"
    BY <1>6, PhaseAfter DEF TakeSummary
  <2> QED
    BY <1>1, <1>6, <2>1, <2>2, SummaryEffect
<1>7. CASE TakeProperties(m)
  <2>1. load'[m].phase = "sampled"
    BY <1>7, PhaseAfter DEF TakeProperties
  <2> QED
    BY <1>1, <1>7, <2>1, PropertiesEffect
<1>8. CASE Store(m) \/ Fail(m)
  <2>1. client'[m] = NoClient
    BY <1>1, <1>8, EndEffect
  <2>2. NoClient.call = "none" /\ NoClient.counts = "none"
    BY DEF NoClient
  <2> QED
    BY <2>1, <2>2
<1>9. CASE LimeSurveyAnswers(m)
  <2>1. client[m].answer = "none" /\ load' = load
    BY <1>9 DEF LimeSurveyAnswers, vars
  <2>2. CASE OpenSession(m)
    <3>1. client[m].call = "get_session_key"
      BY <2>2 DEF OpenSession
    <3>2. client'[m].call = client[m].call /\ client'[m].counts = client[m].counts
      BY <1>1, <2>2, OpenEffect DEF OpenSession
    <3>3. client[m] # NoClient
      BY <3>1 DEF NoClient
    <3> QED
      BY <1>1, <2>1, <3>1, <3>2, <3>3
  <2>3. ASSUME NEW answer \in Results, Reply(m, answer),
               client[m].call \in Methods,
               client[m].call = "get_summary" => answer \in {"counts", "status"},
               client[m].call = "get_summary" /\ answer = "status" => ~client[m].alive,
               answer = "active" => client[m].alive
        PROVE  Kept(m)
    <3>1. /\ client'[m].call = client[m].call /\ client'[m].answer = answer
          /\ client'[m].alive = client[m].alive
          /\ client'[m].counts = client[m].counts
      BY <1>1, <2>3, ReplyEffect
    <3>2. client[m] # NoClient
      BY <2>3 DEF NoClient, Methods
    <3> QED
      BY <1>1, <2>1, <2>3, <3>1, <3>2
  <2> HIDE DEF Kept
  <2>4. CASE RefuseLogin(m)
    BY <2>3, <2>4 DEF RefuseLogin, Results, Methods
  <2>5. CASE AnswerSummary(m)
    <3>1. CASE client[m].alive
      BY <2>3, <2>5, <3>1 DEF AnswerSummary, Results, Methods
    <3>2. CASE ~client[m].alive
      BY <2>3, <2>5, <3>2 DEF AnswerSummary, Results, Methods
    <3> QED
      BY <3>1, <3>2
  <2>6. CASE AnswerProperties(m)
    <3>1. client[m].call = "get_survey_properties"
      BY <2>6 DEF AnswerProperties
    <3>2. PICK answer \in {"active", "inactive", "status"} :
            (answer = "status" <=> ~client[m].alive) /\ Reply(m, answer)
      BY <2>6 DEF AnswerProperties
    <3>3. answer = "active" => client[m].alive
      BY <3>2
    <3> QED
      BY <2>3, <3>1, <3>2, <3>3 DEF Results, Methods
  <2> QED
    BY <1>9, <2>2, <2>4, <2>5, <2>6 DEF LimeSurveyAnswers
<1>10. CASE Expire(m)
  <2>1. /\ client'[m].call = client[m].call /\ client'[m].answer = client[m].answer
        /\ client'[m].alive = FALSE /\ client[m].alive
        /\ client'[m].counts = client[m].counts
    BY <1>1, <1>10, ExpireEffect
  <2>2. load' = load /\ client[m] # NoClient
    BY <1>10, <2>1 DEF Expire, vars, NoClient
  <2> QED
    BY <1>1, <2>1, <2>2
<1>11. ASSUME NEW s \in SessionKeys, SendRelease(s) PROVE Kept(m)
  BY <1>2, <1>11 DEF SendRelease, vars
<1>12. CASE \/ Tick /\ UNCHANGED rpcVars
            \/ \E r \in Requests : Serve(r) /\ UNCHANGED rpcVars
            \/ \E g \in Gets : GetSurveyState(g) /\ UNCHANGED rpcVars
            \/ UNCHANGED allVars
  <2>1. client' = client
    BY <1>12 DEF rpcVars, allVars
  <2>2. \/ load'[m].phase = load[m].phase
        \/ load[m].phase = "free" /\ load'[m].phase = "spawned"
    BY <1>12, PhaseFrame DEF allVars
  <2> QED
    BY <1>2, <2>1, <2>2
<1> HIDE DEF Kept
<1> QED
  BY <1>3, <1>4, <1>5, <1>6, <1>7, <1>8, <1>9, <1>10, <1>11, <1>12
  DEF RpcNext, Refresh

LEMMA KeyInvStep == SessionInv /\ [RpcNext]_allVars => KeyInv'
<1> DEFINE Own(m) ==
             /\ client'[m].key \notin releasing'
             /\ client'[m].call = "get_session_key" /\ client'[m].answer = "key" =>
                  client'[m].key \in SessionKeys
             /\ client'[m].call \in {"get_summary", "get_survey_properties"} =>
                  client'[m].key \in received'
           Apart(m) == \A n \in LoadIds \ {m} :
             client'[n].key = client'[m].key => client'[m].key = NoKey
<1> SUFFICES ASSUME SessionInv, [RpcNext]_allVars, NEW m \in LoadIds
             PROVE  Own(m) /\ Apart(m)
  BY DEF KeyInv
<1>1. /\ SessionTypes /\ \A n \in LoadIds : client[n] \in Client
      /\ releasing \subseteq SessionKeys /\ received \subseteq SessionKeys
      /\ \A n \in LoadIds :
           /\ client[n].key \notin releasing
           /\ client[n].call = "get_session_key" /\ client[n].answer = "key" =>
                client[n].key \in SessionKeys
           /\ client[n].call \in {"get_summary", "get_survey_properties"} =>
                client[n].key \in received
           /\ \A o \in LoadIds \ {n} :
                client[o].key = client[n].key => client[n].key = NoKey
  BY DEF SessionInv, SessionTypes, KeyInv
\* A step that at most gives up a key: to the release goroutine, or for good.
<1>2. ASSUME NEW l \in LoadIds, received' = received,
             \A n \in LoadIds \ {l} : client'[n] = client[n],
             \/ client'[l].key = client[l].key /\ releasing' = releasing
             \/ /\ client'[l].key = NoKey
                /\ releasing' \in {releasing, releasing \cup ({client[l].key} \cap received)},
             client'[l].call = "get_session_key" =>
               client'[l].answer # "key" \/ client'[l] = client[l],
             client'[l].call \in {"get_summary", "get_survey_properties"} =>
               /\ client'[l].key = client[l].key
               /\ client[l].call \in {"get_summary", "get_survey_properties"}
      PROVE  Own(m) /\ Apart(m)
  <2>1. \A n \in LoadIds : client'[n].key \in {client[n].key, NoKey}
    BY <1>2
  <2>2. Apart(m)
    BY <1>1, <2>1
  <2>3. NoKey \notin releasing'
    BY <1>1, <1>2, NoKeyAssumption
  <2>4. Own(m)
    BY <1>1, <1>2, <2>3
  <2> QED
    BY <2>2, <2>4
<1>3. ASSUME NEW l \in LoadIds, LimeSurveyAnswers(l), ~OpenSession(l)
      PROVE  Own(m) /\ Apart(m)
  <2>1. ASSUME NEW answer \in Results, Reply(l, answer), answer # "key"
        PROVE  Own(m) /\ Apart(m)
    <3>1. /\ client'[l].call = client[l].call /\ client'[l].answer = answer
          /\ client'[l].key = client[l].key
          /\ \A n \in LoadIds \ {l} : client'[n] = client[n]
      BY <1>1, <2>1, ReplyEffect
    <3>2. received' = received /\ releasing' = releasing
      BY <1>3 DEF LimeSurveyAnswers
    <3> HIDE DEF Own, Apart
    <3> QED
      BY <1>2, <2>1, <3>1, <3>2
  <2> HIDE DEF Own, Apart
  <2> QED
    BY <1>3, <2>1 DEF LimeSurveyAnswers, RefuseLogin, AnswerSummary,
                      AnswerProperties, Results
<1>4. ASSUME NEW l \in LoadIds, LimeSurveyAnswers(l), OpenSession(l)
      PROVE  Own(m) /\ Apart(m)
  <2>1. PICK s \in SessionKeys :
          /\ Unused(s)
          /\ client' = [client EXCEPT ![l].answer = "key", ![l].key = s,
                                      ![l].alive = TRUE]
    BY <1>4 DEF OpenSession
  <2>2. /\ client'[l].call = "get_session_key" /\ client'[l].key = s
        /\ \A n \in LoadIds \ {l} : client'[n] = client[n]
    BY <1>1, <1>4, <2>1, OpenEffect DEF OpenSession
  <2>3. received' = received /\ releasing' = releasing
    BY <1>4 DEF LimeSurveyAnswers
  <2>4. s \notin releasing /\ \A n \in LoadIds : client[n].key # s
    BY <2>1 DEF Unused
  <2> QED
    BY <1>1, <2>2, <2>3, <2>4
<1>5. ASSUME NEW l \in LoadIds, Connect(l) PROVE Own(m) /\ Apart(m)
  <2>1. received' = received /\ releasing' = releasing
    BY <1>5 DEF Connect
  <2>2. CASE client' = client
    BY <1>1, <2>1, <2>2
  <2>3. CASE Call(l, "get_session_key")
    <3>1. /\ client'[l].call = "get_session_key" /\ client'[l].answer = "none"
          /\ client'[l].key = client[l].key
          /\ \A n \in LoadIds \ {l} : client'[n] = client[n]
      BY <1>1, <2>3, CallEffect DEF Methods
    <3> HIDE DEF Own, Apart
    <3> QED
      BY <1>2, <2>1, <3>1
  <2> QED
    BY <1>5, <2>2, <2>3 DEF Connect
<1>6. ASSUME NEW l \in LoadIds, TakeKey(l) PROVE Own(m) /\ Apart(m)
  <2>1. /\ client'[l].call = "get_summary" /\ client'[l].key = client[l].key
        /\ \A n \in LoadIds \ {l} : client'[n] = client[n]
    BY <1>1, <1>6, CallEffect DEF TakeKey, Methods
  <2>2. received' = received \cup {client[l].key} /\ releasing' = releasing
    BY <1>6 DEF TakeKey
  <2> QED
    BY <1>1, <2>1, <2>2
<1>7. ASSUME NEW l \in LoadIds, TakeSummary(l) PROVE Own(m) /\ Apart(m)
  <2>1. client[l].call = "get_summary" /\ client[l].answer \in {"counts", "status"}
    BY <1>7 DEF TakeSummary, SessionInv, ClientInv
  <2>2. /\ client'[l].call = "get_survey_properties"
        /\ client'[l].key = client[l].key
        /\ \A n \in LoadIds \ {l} : client'[n] = client[n]
    BY <1>1, <1>7, <2>1, SummaryEffect
  <2>3. received' = received /\ releasing' = releasing
    BY <1>7 DEF TakeSummary
  <2> HIDE DEF Own, Apart
  <2> QED
    BY <1>2, <2>1, <2>2, <2>3
<1>8. ASSUME NEW l \in LoadIds, TakeProperties(l) \/ Store(l) \/ Fail(l)
      PROVE  Own(m) /\ Apart(m)
  <2>1. /\ client'[l].call = "none" /\ client'[l].key = NoKey
        /\ \A n \in LoadIds \ {l} : client'[n] = client[n]
    <3>1. CASE TakeProperties(l)
      BY <1>1, <3>1, PropertiesEffect
    <3>2. CASE Store(l) \/ Fail(l)
      <4>1. NoClient.call = "none" /\ NoClient.key = NoKey
        BY DEF NoClient
      <4> QED
        BY <1>1, <3>2, <4>1, EndEffect
    <3> QED
      BY <1>8, <3>1, <3>2
  <2>2. /\ received' = received
        /\ releasing' \in {releasing, releasing \cup ({client[l].key} \cap received)}
    BY <1>8 DEF TakeProperties, Store, Fail, DeferredRelease
  <2> HIDE DEF Own, Apart
  <2> QED
    BY <1>2, <2>1, <2>2
<1>9. ASSUME NEW l \in LoadIds, Expire(l) PROVE Own(m) /\ Apart(m)
  <2>1. /\ client'[l].call = client[l].call /\ client'[l].answer = client[l].answer
        /\ client'[l].key = client[l].key
        /\ \A n \in LoadIds \ {l} : client'[n] = client[n]
    BY <1>1, <1>9, ExpireEffect
  <2>2. received' = received /\ releasing' = releasing
    BY <1>9 DEF Expire
  <2> QED
    BY <1>1, <2>1, <2>2
<1>10. ASSUME NEW s \in SessionKeys, SendRelease(s) PROVE Own(m) /\ Apart(m)
  <2>1. /\ s \in releasing /\ releasing' = releasing \ {s}
        /\ received' = received \ {s} /\ client' = client
    BY <1>10 DEF SendRelease
  <2> QED
    BY <1>1, <2>1
<1>11. CASE UNCHANGED rpcVars
  BY <1>1, <1>11 DEF rpcVars
<1> HIDE DEF Own, Apart
<1> QED
  BY <1>3, <1>4, <1>5, <1>6, <1>7, <1>8, <1>9, <1>10, <1>11
  DEF RpcNext, Refresh, allVars

-----------------------------------------------------------------------------
RpcInv == TypeInv /\ SessionInv

LEMMA RpcInductive ==
  /\ RpcInit => RpcInv
  /\ RpcInv /\ [RpcNext]_allVars => RpcInv'
<1>1. RpcInit => RpcInv
  BY TypeInit, SessionInvInit DEF RpcInit, RpcInv
<1>2. RpcInv /\ [RpcNext]_allVars => RpcInv'
  <2>1. TypeInv /\ [RpcNext]_allVars => TypeInv'
    BY CacheStepOfRpc, TypeStep, HorizonStep DEF TypeInv
  <2>2. TypeInv => TypeOK
    BY DEF TypeInv
  <2> QED
    BY <2>1, <2>2, SessionTypesStep, ClientInvStep, KeyInvStep DEF RpcInv, SessionInv
<1> QED
  BY <1>1, <1>2

\* Every variable of the composition keeps its type: no key is held or
\* released that LimeSurvey did not give out (getSessionKey).
THEOREM RpcTypeCorrect == RpcSpec => []RpcTypeOK
<1>1. RpcInv => RpcTypeOK
  BY DEF RpcInv, TypeInv, SessionInv, SessionTypes, RpcTypeOK
<1> QED
  BY RpcInductive, <1>1, PTL DEF RpcSpec

\* No call is made on a key that is being handed back (releaseSessionKey).
THEOREM KeysAreUsedBeforeRelease == RpcSpec => []NoCallAfterRelease
<1>1. RpcInv => NoCallAfterRelease
  BY DEF RpcInv, SessionInv, KeyInv, NoCallAfterRelease
<1> QED
  BY RpcInductive, <1>1, PTL DEF RpcSpec

\* Only Store writes what the cache shows.
LEMMA ShownWriters ==
  ASSUME [RpcNext]_allVars
  PROVE  shown' = shown \/ \E l \in LoadIds : Store(l)
  BY DEF RpcNext, Refresh, Connect, TakeKey, TakeSummary, TakeProperties, Fail,
         LimeSurveyAnswers, Expire, SendRelease, rpcVars, allVars

\* The zero counts of a dead session never make a survey attractive
\* (parseSummary, parseActive and the order of the two calls).
THEOREM DeadSessionsNeverAttract == RpcSpec => []DeadSessionNeverAttracts
<1>1. RpcInit => DeadSessionNeverAttracts
  BY DEF RpcInit, DeadSessionNeverAttracts
<1>2. ASSUME RpcInv, DeadSessionNeverAttracts, [RpcNext]_allVars
      PROVE  DeadSessionNeverAttracts'
  <2>1. CASE shown' = shown
    BY <1>2, <2>1 DEF DeadSessionNeverAttracts
  <2>2. ASSUME NEW l \in LoadIds, Store(l) PROVE DeadSessionNeverAttracts'
    <3> DEFINE new == [counts |-> client[l].counts,
                       active |-> SaidActive(client[l].answer)]
    <3>1. new.counts = "status" => ~new.active
      BY <1>2 DEF RpcInv, SessionInv, ClientInv, SaidActive
    <3>2. shown' = [shown EXCEPT ![load[l].key] = new]
      BY <2>2 DEF Store
    <3> HIDE DEF new
    <3>3. \A k \in Keys : shown'[k] \in {shown[k], new}
      BY <1>2, <3>2 DEF RpcInv, SessionInv, SessionTypes
    <3> QED
      BY <1>2, <3>1, <3>3 DEF DeadSessionNeverAttracts
  <2> QED
    BY <1>2, <2>1, <2>2, ShownWriters
<1> QED
  BY RpcInductive, <1>1, <1>2, PTL DEF RpcSpec

-----------------------------------------------------------------------------
(***************************************************************************)
(* No key is dropped. A refresh whose key is with the release goroutine,   *)
(* and one that has not been given a key, hold none; so neither the end of *)
(* a refresh nor a login can lose one.                                     *)
(***************************************************************************)
EmptyHanded ==
    \A l \in LoadIds : LET c == client[l] IN
        /\ load[l].phase = "sampled" => c.call = "none" /\ c.key = NoKey
        /\ c.call = "get_session_key" /\ c.answer = "none" => c.key = NoKey

KeepInv == EmptyHanded /\ NoKeyIsDropped

\* The steps that are no step of refresh m and no answer to it.
LEMMA OthersLeaveClient ==
  ASSUME TypeOK, SessionTypes, NEW m \in LoadIds,
         \/ \E l \in LoadIds \ {m} : Refresh(l) \/ LimeSurveyAnswers(l) \/ Expire(l)
         \/ \E s \in SessionKeys : SendRelease(s)
         \/ Tick /\ UNCHANGED rpcVars
         \/ \E r \in Requests : Serve(r) /\ UNCHANGED rpcVars
         \/ \E g \in Gets : GetSurveyState(g) /\ UNCHANGED rpcVars
         \/ UNCHANGED allVars
  PROVE  /\ client'[m] = client[m]
         /\ \/ load'[m].phase = load[m].phase
            \/ load[m].phase = "free" /\ load'[m].phase = "spawned"
<1>1. ASSUME NEW l \in LoadIds \ {m}, Refresh(l) \/ LimeSurveyAnswers(l) \/ Expire(l)
      PROVE  client'[m] = client[m] /\ load'[m] = load[m]
  <2>1. \E c : client' = [client EXCEPT ![l] = c] \/ client' = client
    BY <1>1 DEF Refresh, Connect, TakeKey, TakeSummary, TakeProperties, Store, Fail,
                Call, LimeSurveyAnswers, OpenSession, RefuseLogin, AnswerSummary,
                AnswerProperties, Reply, Expire
  <2>2. load' = load \/ LoadSurveyState(l)
    BY <1>1 DEF Refresh, Connect, TakeKey, TakeSummary, TakeProperties, Store, Fail,
                LimeSurveyAnswers, Expire, LoadSurveyState, vars
  <2> QED
    BY <2>1, <2>2, PhaseFrame DEF SessionTypes
<1>2. ASSUME NEW s \in SessionKeys, SendRelease(s)
      PROVE  client' = client /\ load' = load
  BY <1>2 DEF SendRelease, vars
<1>3. CASE \/ Tick /\ UNCHANGED rpcVars
           \/ \E r \in Requests : Serve(r) /\ UNCHANGED rpcVars
           \/ \E g \in Gets : GetSurveyState(g) /\ UNCHANGED rpcVars
           \/ UNCHANGED allVars
  <2>1. client' = client
    BY <1>3 DEF rpcVars, allVars
  <2>2. \/ load'[m].phase = load[m].phase
        \/ load[m].phase = "free" /\ load'[m].phase = "spawned"
    BY <1>3, PhaseFrame DEF allVars
  <2> QED
    BY <2>1, <2>2
<1> QED
  BY <1>1, <1>2, <1>3

LEMMA EmptyHandedStep ==
  TypeOK /\ SessionInv /\ EmptyHanded /\ [RpcNext]_allVars => EmptyHanded'
<1> DEFINE Empty(m) ==
      /\ load'[m].phase = "sampled" => client'[m].call = "none" /\ client'[m].key = NoKey
      /\ client'[m].call = "get_session_key" /\ client'[m].answer = "none" =>
           client'[m].key = NoKey
<1> SUFFICES ASSUME TypeOK, SessionInv, EmptyHanded, [RpcNext]_allVars, NEW m \in LoadIds
             PROVE  Empty(m)
  BY DEF EmptyHanded
<1>1. /\ SessionTypes /\ client[m] \in Client
      /\ load[m].phase = "sampled" => client[m].call = "none" /\ client[m].key = NoKey
      /\ client[m].call = "get_session_key" /\ client[m].answer = "none" =>
           client[m].key = NoKey
      /\ load[m].phase \in {"free", "spawned"} => client[m] = NoClient
      /\ client[m].call = "get_summary" => client[m].answer \in {"none", "counts", "status"}
  BY DEF EmptyHanded, SessionInv, SessionTypes, ClientInv
<1>2. NoClient.call = "none" /\ NoClient.key = NoKey
  BY DEF NoClient
<1>3. CASE Connect(m)
  <2>1. client[m] = NoClient /\ load'[m].phase = "opened"
    BY <1>1, <1>3, PhaseAfter DEF Connect, StartLoad
  <2>2. CASE Call(m, "get_session_key")
    BY <1>1, <1>2, <2>1, <2>2, CallEffect DEF Methods
  <2> QED
    BY <1>2, <1>3, <2>1, <2>2 DEF Connect
<1>4. CASE TakeKey(m)
  <2>1. client'[m].call = "get_summary"
    BY <1>1, <1>4, CallEffect DEF TakeKey, Methods
  <2>2. load' = load /\ client[m].call = "get_session_key"
    BY <1>4 DEF TakeKey, vars
  <2> QED
    BY <1>1, <2>1, <2>2
<1>5. CASE TakeSummary(m)
  <2>1. client[m].answer \in {"counts", "status"}
    BY <1>1, <1>5 DEF TakeSummary
  <2>2. client'[m].call = "get_survey_properties"
    BY <1>1, <1>5, <2>1, SummaryEffect
  <2>3. load'[m].phase = "summarised"
    BY <1>5, PhaseAfter DEF TakeSummary
  <2> QED
    BY <2>2, <2>3
<1>6. CASE TakeProperties(m)
  BY <1>1, <1>6, PropertiesEffect
<1>7. CASE Store(m) \/ Fail(m)
  BY <1>1, <1>2, <1>7, EndEffect
<1>8. CASE LimeSurveyAnswers(m)
  <2>1. load' = load /\ client[m].call # "none"
    BY <1>8 DEF LimeSurveyAnswers, OpenSession, RefuseLogin, AnswerSummary,
                AnswerProperties, vars
  <2>2. CASE OpenSession(m)
    <3>1. client'[m].answer = "key"
      BY <1>1, <2>2, OpenEffect DEF OpenSession
    <3> QED
      BY <1>1, <2>1, <3>1
  <2>3. ASSUME NEW answer \in Results \ {"none"}, Reply(m, answer)
        PROVE  Empty(m)
    <3>1. client'[m].answer = answer
      BY <1>1, <2>3, ReplyEffect
    <3> QED
      BY <1>1, <2>1, <2>3, <3>1
  <2> HIDE DEF Empty
  <2> QED
    BY <1>8, <2>2, <2>3 DEF LimeSurveyAnswers, RefuseLogin, AnswerSummary,
                            AnswerProperties, Results
<1>9. CASE Expire(m)
  <2>1. load' = load
    BY <1>9 DEF Expire, vars
  <2> QED
    BY <1>1, <1>9, <2>1, ExpireEffect
<1>10. ASSUME client'[m] = client[m],
              \/ load'[m].phase = load[m].phase
              \/ load[m].phase = "free" /\ load'[m].phase = "spawned"
       PROVE  Empty(m)
  BY <1>1, <1>10
<1> HIDE DEF Empty
<1>11. CASE \/ \E l \in LoadIds \ {m} : Refresh(l) \/ LimeSurveyAnswers(l) \/ Expire(l)
            \/ \E s \in SessionKeys : SendRelease(s)
            \/ Tick /\ UNCHANGED rpcVars
            \/ \E r \in Requests : Serve(r) /\ UNCHANGED rpcVars
            \/ \E g \in Gets : GetSurveyState(g) /\ UNCHANGED rpcVars
            \/ UNCHANGED allVars
  BY <1>1, <1>10, <1>11, OthersLeaveClient
<1>12. CASE Refresh(m) \/ LimeSurveyAnswers(m) \/ Expire(m)
  BY <1>3, <1>4, <1>5, <1>6, <1>7, <1>8, <1>9, <1>12 DEF Refresh
<1> QED
  BY <1>11, <1>12 DEF RpcNext

\* A key that some refresh holds is held after the step, or handed back.
LEMMA HolderStep ==
  ASSUME TypeOK, SessionInv, EmptyHanded, [RpcNext]_allVars,
         NEW m \in LoadIds, Running(m), client[m].key \in received \ releasing
  PROVE  \/ client'[m].key = client[m].key /\ Running(m)'
         \/ client[m].key \in releasing' \/ client[m].key \notin received'
<1> DEFINE s == client[m].key
<1>1. /\ SessionTypes /\ client[m] \in Client /\ s # NoKey
      /\ load[m].phase = "sampled" => s = NoKey
      /\ client[m].call = "get_session_key" /\ client[m].answer = "none" => s = NoKey
      /\ load[m].phase \in {"free", "spawned"} => client[m] = NoClient
      /\ client[m].call = "get_summary" => client[m].answer \in {"none", "counts", "status"}
      /\ load[m].phase # "free"
  BY NoKeyAssumption DEF EmptyHanded, SessionInv, SessionTypes, ClientInv, Running
<1>2. load[m].phase # "spawned"
  BY <1>1 DEF NoClient
<1> HIDE DEF s
<1>3. CASE Connect(m)
  BY <1>2, <1>3 DEF Connect, StartLoad
<1>4. CASE TakeKey(m)
  <2>1. client'[m].key = client[m].key
    BY <1>1, <1>4, CallEffect DEF TakeKey, Methods
  <2> QED
    BY <1>4, <2>1 DEF TakeKey, Running, vars
<1>5. CASE TakeSummary(m)
  <2>1. client[m].answer \in {"counts", "status"}
    BY <1>1, <1>5 DEF TakeSummary
  <2>2. client'[m].key = client[m].key
    BY <1>1, <1>5, <2>1, SummaryEffect
  <2>3. load'[m].phase = "summarised"
    BY <1>5, PhaseAfter DEF TakeSummary
  <2> QED
    BY <2>2, <2>3 DEF Running
<1>6. CASE TakeProperties(m) \/ Fail(m)
  BY <1>6 DEF TakeProperties, Fail, DeferredRelease
<1>7. CASE Store(m)
  BY <1>1, <1>7 DEF Store, PublishLoad, s
<1>8. CASE LimeSurveyAnswers(m)
  <2>1. load' = load
    BY <1>8 DEF LimeSurveyAnswers, vars
  <2>2. ~OpenSession(m)
    BY <1>1, <1>8 DEF LimeSurveyAnswers, OpenSession, s
  <2>3. PICK answer \in Results : Reply(m, answer)
    BY <1>8, <2>2 DEF LimeSurveyAnswers, RefuseLogin, AnswerSummary, AnswerProperties,
                      Results
  <2>4. client'[m].key = client[m].key
    BY <1>1, <2>3, ReplyEffect
  <2> QED
    BY <2>1, <2>4 DEF Running
<1>9. CASE Expire(m)
  <2>1. client'[m].key = client[m].key
    BY <1>1, <1>9, ExpireEffect
  <2> QED
    BY <1>9, <2>1 DEF Expire, Running, vars
<1>10. CASE \/ \E l \in LoadIds \ {m} : Refresh(l) \/ LimeSurveyAnswers(l) \/ Expire(l)
            \/ \E k \in SessionKeys : SendRelease(k)
            \/ Tick /\ UNCHANGED rpcVars
            \/ \E r \in Requests : Serve(r) /\ UNCHANGED rpcVars
            \/ \E g \in Gets : GetSurveyState(g) /\ UNCHANGED rpcVars
            \/ UNCHANGED allVars
  BY <1>1, <1>10, OthersLeaveClient DEF Running
<1> QED
  BY <1>3, <1>4, <1>5, <1>6, <1>7, <1>8, <1>9, <1>10 DEF RpcNext, Refresh

\* Keys enter received only by TakeKey, and leave releasing only together
\* with received.
LEMMA KeyWriters ==
  ASSUME [RpcNext]_allVars
  PROVE  \/ \E l \in LoadIds : TakeKey(l)
         \/ received' = received /\ releasing \subseteq releasing'
         \/ \E s \in SessionKeys :
              received' = received \ {s} /\ releasing' = releasing \ {s}
<1>1. ASSUME NEW l \in LoadIds, Refresh(l), ~TakeKey(l)
      PROVE  received' = received /\ releasing \subseteq releasing'
  BY <1>1 DEF Refresh, Connect, TakeSummary, TakeProperties, Store, Fail, DeferredRelease
<1>2. ASSUME NEW l \in LoadIds, LimeSurveyAnswers(l) \/ Expire(l)
      PROVE  received' = received /\ releasing' = releasing
  BY <1>2 DEF LimeSurveyAnswers, Expire
<1>3. CASE \E s \in SessionKeys : SendRelease(s)
  BY <1>3 DEF SendRelease
<1>4. CASE UNCHANGED rpcVars
  BY <1>4 DEF rpcVars
<1> QED
  BY <1>1, <1>2, <1>3, <1>4 DEF RpcNext, allVars

LEMMA KeepStep == TypeOK /\ SessionInv /\ KeepInv /\ [RpcNext]_allVars => KeepInv'
<1> SUFFICES ASSUME TypeOK, SessionInv, EmptyHanded, NoKeyIsDropped, [RpcNext]_allVars
             PROVE  KeepInv'
  BY DEF KeepInv
<1>1. ASSUME NEW s \in received' \ releasing'
      PROVE  \E l \in LoadIds : client'[l].key = s /\ Running(l)'
  <2>1. CASE s \in received \ releasing
    <3>1. PICK l \in LoadIds : client[l].key = s /\ Running(l)
      BY <2>1 DEF NoKeyIsDropped
    <3> QED
      BY <1>1, <2>1, <3>1, HolderStep
  <2>2. CASE s \notin received \ releasing
    <3>1. PICK l \in LoadIds : TakeKey(l) /\ s = client[l].key
      BY <1>1, <2>2, KeyWriters DEF TakeKey
    <3>2. client'[l].key = s
      BY <3>1, CallEffect DEF TakeKey, Methods, SessionInv
    <3>3. client[l] # NoClient /\ load' = load
      BY <3>1 DEF TakeKey, NoClient, vars
    <3>4. Running(l)'
      BY <3>3 DEF SessionInv, ClientInv, Running
    <3> QED
      BY <3>2, <3>4
  <2> QED
    BY <2>1, <2>2
<1>2. NoKeyIsDropped'
  BY <1>1 DEF NoKeyIsDropped
<1> QED
  BY <1>2, EmptyHandedStep DEF KeepInv

\* No path out of a refresh drops the key it was given: errors, the deadline
\* and success alike hand it to the release goroutine (releaseSessionKey).
THEOREM KeysAreKept == RpcSpec => []NoKeyIsDropped
<1>1. RpcInit => KeepInv
  BY DEF RpcInit, Init, KeepInv, EmptyHanded, NoKeyIsDropped, NoClient
<1>2. RpcInv => TypeOK /\ SessionInv
  BY DEF RpcInv, TypeInv
<1>3. KeepInv => NoKeyIsDropped
  BY DEF KeepInv
<1> QED
  BY RpcInductive, KeepStep, <1>1, <1>2, <1>3, PTL DEF RpcSpec

=============================================================================
