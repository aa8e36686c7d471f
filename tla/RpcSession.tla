----------------------------- MODULE RpcSession -----------------------------
(***************************************************************************)
(* The LimeSurvey side of a refresh (internal/limesurvey: newClient, the   *)
(* two clients' GetSurveyState, jsonClient.call, releaseSessionKey),       *)
(* composed with the cache of StatsCache, which it extends: each step of   *)
(* loadSurveyState there is joined here to the RPC it makes.               *)
(*                                                                         *)
(* A refresh logs in, reads the counts, reads the active flag and, however *)
(* it ends, hands its session key to a background goroutine that releases  *)
(* it. LimeSurvey answers in its own time, may end a session whenever it   *)
(* likes, and answers a call on a dead session with a status text, which   *)
(* the parsers turn into zero counts and an inactive survey.               *)
(*                                                                         *)
(* Answers are the data the clients can tell apart. Sessions are followed  *)
(* as long as the program refers to them: what becomes of a session whose  *)
(* login was abandoned, or whose release was lost, is LimeSurvey's affair. *)
(***************************************************************************)
EXTENDS StatsCache

CONSTANTS
    SessionKeys,    \* session keys in use at once
    NoKey           \* no session key

ASSUME NoKeyAssumption == NoKey \notin SessionKeys

VARIABLES
    client,     \* the client of every refresh
    shown,      \* what the cached SurveyState of every key says
    releasing,  \* keys whose releaseSessionKey goroutine has not called yet
    received    \* keys the program was given and has not asked to release

rpcVars == <<client, shown, releasing, received>>

allVars == <<vars, rpcVars>>

-----------------------------------------------------------------------------
Methods == {"get_session_key", "get_summary", "get_survey_properties"}

\* "status": a JSON-RPC result that is a text about the failure instead of
\* the data asked for.
Results == {"none", "key", "counts", "active", "inactive", "status"}

\* call: the RPC under way; answer: what LimeSurvey has answered to it;
\* alive: LimeSurvey still knows the session.
Client == [call : Methods \cup {"none"}, answer : Results,
           key : SessionKeys \cup {NoKey}, alive : BOOLEAN,
           counts : {"none", "counts", "status"}]

\* A SurveyState: whether its counts are LimeSurvey's, and Active.
State == [counts : {"none", "counts", "status"}, active : BOOLEAN]

NoClient == [call |-> "none", answer |-> "none", key |-> NoKey,
             alive |-> FALSE, counts |-> "none"]

RpcTypeOK ==
    /\ TypeOK
    /\ client \in [LoadIds -> Client]
    /\ shown \in [Keys -> State]
    /\ releasing \subseteq SessionKeys
    /\ received \subseteq SessionKeys

RpcInit ==
    /\ Init
    /\ client = [l \in LoadIds |-> NoClient]
    /\ shown = [k \in Keys |-> [counts |-> "none", active |-> FALSE]]
    /\ releasing = {}
    /\ received = {}

-----------------------------------------------------------------------------
(***************************************************************************)
(* LimeSurvey.                                                             *)
(***************************************************************************)
\* LimeSurvey draws a new random key; the model takes one nobody refers to.
Unused(s) ==
    /\ s \notin releasing
    /\ \A l \in LoadIds : client[l].key # s

Reply(l, answer) == client' = [client EXCEPT ![l].answer = answer]

\* The key lies in the answer; nobody has read it yet.
OpenSession(l) ==
    /\ client[l].call = "get_session_key"
    /\ \E s \in SessionKeys :
         /\ Unused(s)
         /\ client' = [client EXCEPT ![l].answer = "key", ![l].key = s,
                                     ![l].alive = TRUE]

RefuseLogin(l) ==
    /\ client[l].call = "get_session_key"
    /\ Reply(l, "status")

AnswerSummary(l) ==
    /\ client[l].call = "get_summary"
    /\ Reply(l, IF client[l].alive THEN "counts" ELSE "status")

AnswerProperties(l) ==
    /\ client[l].call = "get_survey_properties"
    /\ \E answer \in {"active", "inactive", "status"} :
         /\ answer = "status" <=> ~client[l].alive
         /\ Reply(l, answer)

\* LimeSurvey answers the call of refresh l.
LimeSurveyAnswers(l) ==
    /\ client[l].answer = "none"
    /\ \/ OpenSession(l) \/ RefuseLogin(l)
       \/ AnswerSummary(l) \/ AnswerProperties(l)
    /\ UNCHANGED <<vars, shown, releasing, received>>

\* LimeSurvey drops a session: its lifetime, a restart, a garbage collection.
Expire(l) ==
    /\ client[l].alive
    /\ client' = [client EXCEPT ![l].alive = FALSE]
    /\ UNCHANGED <<vars, shown, releasing, received>>

-----------------------------------------------------------------------------
(***************************************************************************)
(* The refresh.                                                            *)
(***************************************************************************)
Call(l, method) ==
    client' = [client EXCEPT ![l].call = method, ![l].answer = "none"]

\* newClient and the login; without usable credentials there is no call, and
\* the refresh can only fail.
Connect(l) ==
    /\ StartLoad(l)
    /\ Call(l, "get_session_key") \/ UNCHANGED client
    /\ UNCHANGED <<shown, releasing, received>>

\* Mutant: an answer without a key passes for a login.
TakeAnyKey(l) ==
    /\ client[l].call = "get_session_key"
    /\ client[l].answer # "none"
    /\ now <= load[l].deadline
    /\ Call(l, "get_summary")
    /\ received' = received \cup {client[l].key}
    /\ UNCHANGED <<vars, shown, releasing>>

\* parseSessionKey finds no key in a status text, and getSessionKey fails. A
\* key that is there is the program's from here on.
TakeKey(l) ==
    /\ client[l].call = "get_session_key"
    /\ client[l].answer = "key"
    /\ now <= load[l].deadline
    /\ Call(l, "get_summary")
    /\ received' = received \cup {client[l].key}
    /\ UNCHANGED <<vars, shown, releasing>>

\* Mutant: the session is handed back as soon as the counts are there.
TakeSummaryAndRelease(l) ==
    /\ client[l].call = "get_summary"
    /\ client[l].answer # "none"
    /\ ReadSummary(l)
    /\ client' = [client EXCEPT ![l].call = "get_survey_properties",
                                ![l].answer = "none",
                                ![l].counts = client[l].answer]
    /\ releasing' = releasing \cup {client[l].key}
    /\ UNCHANGED <<shown, received>>

\* parseSummary: a status text has none of the counts' names, and each of
\* them becomes zero.
TakeSummary(l) ==
    /\ client[l].call = "get_summary"
    /\ client[l].answer # "none"
    /\ ReadSummary(l)
    /\ client' = [client EXCEPT ![l].call = "get_survey_properties",
                                ![l].answer = "none",
                                ![l].counts = client[l].answer]
    /\ UNCHANGED <<shown, releasing, received>>

\* The deferred releaseSessionKey of the client's GetSurveyState; it is only
\* deferred once the key has been received.
DeferredRelease(l) ==
    releasing' = releasing \cup ({client[l].key} \cap received)

\* Mutant: a survey is taken for active unless the answer says otherwise.
SaidActiveByDefault(answer) == answer # "inactive"

\* parseActive: a status text has no "active".
SaidActive(answer) == answer = "active"

\* The second answer is in: GetSurveyState of the client returns.
TakeProperties(l) ==
    /\ client[l].call = "get_survey_properties"
    /\ client[l].answer # "none"
    /\ ReadProperties(l)
    /\ DeferredRelease(l)
    /\ client' = [client EXCEPT ![l].call = "none", ![l].key = NoKey,
                                ![l].alive = FALSE]
    /\ UNCHANGED <<shown, received>>

\* The state is stored under the mutex together with its time.
Store(l) ==
    /\ PublishLoad(l)
    /\ shown' = [shown EXCEPT ![load[l].key] =
                   [counts |-> client[l].counts,
                    active |-> SaidActive(client[l].answer)]]
    /\ client' = [client EXCEPT ![l] = NoClient]
    /\ UNCHANGED <<releasing, received>>

\* Mutant: the key is released only on the way to success.
FailWithoutRelease(l) ==
    /\ FailLoad(l)
    /\ client' = [client EXCEPT ![l] = NoClient]
    /\ UNCHANGED <<shown, releasing, received>>

\* No client, a refused login, an HTTP or JSON-RPC error, or the deadline:
\* the call is abandoned, the key released, and nothing is stored.
Fail(l) ==
    /\ FailLoad(l)
    /\ DeferredRelease(l)
    /\ client' = [client EXCEPT ![l] = NoClient]
    /\ UNCHANGED <<shown, received>>

-----------------------------------------------------------------------------
(***************************************************************************)
(* releaseSessionKey's goroutine. It calls under a deadline of its own,    *)
(* the cleanup timeout, and ignores the outcome: once it has sent the call *)
(* nothing depends on it.                                                  *)
(***************************************************************************)
SendRelease(s) ==
    /\ s \in releasing
    /\ releasing' = releasing \ {s}
    /\ received' = received \ {s}
    /\ UNCHANGED <<vars, client, shown>>

-----------------------------------------------------------------------------
Refresh(l) ==
    \/ Connect(l) \/ TakeKey(l) \/ TakeSummary(l) \/ TakeProperties(l)
    \/ Store(l) \/ Fail(l)

RpcNext ==
    \/ Tick /\ UNCHANGED rpcVars
    \/ \E r \in Requests : Serve(r) /\ UNCHANGED rpcVars
    \/ \E g \in Gets : GetSurveyState(g) /\ UNCHANGED rpcVars
    \/ \E l \in LoadIds : Refresh(l) \/ LimeSurveyAnswers(l) \/ Expire(l)
    \/ \E s \in SessionKeys : SendRelease(s)

\* Nothing is assumed of LimeSurvey or of the release goroutines.
RpcSpec == RpcInit /\ [][RpcNext]_allVars /\ RequestFairness

\* The scheduler starts the release goroutines.
ReleaseFairness == \A s \in SessionKeys : WF_allVars(SendRelease(s))

-----------------------------------------------------------------------------
(***************************************************************************)
(* What the clients promise.                                               *)
(***************************************************************************)
\* LimeSurvey answers a dead session with a text, not an error, and the text
\* parses as zero responses: the most attractive survey of all. A state with
\* such counts is never cached as active, because the flag is read after the
\* counts over the same session and a session does not come back to life
\* (GetSurveyState, parseSummary, parseActive).
DeadSessionNeverAttracts ==
    \A k \in Keys : shown[k].counts = "status" => ~shown[k].active

\* No call of a refresh is under way on a key that the program itself is
\* handing back or has handed back (the deferred releaseSessionKey).
NoCallAfterRelease ==
    \A l \in LoadIds :
        client[l].call \in {"get_summary", "get_survey_properties"} =>
            /\ client[l].key \in received
            /\ client[l].key \notin releasing

\* A session key that the program was given is on its way back, or it is the
\* key of a refresh that has not ended: no path out of a refresh drops it
\* (the deferred releaseSessionKey of the two clients).
NoKeyIsDropped ==
    \A s \in received \ releasing :
        \E l \in LoadIds : client[l].key = s /\ Running(l)

\* Every session key the program was given is eventually sent back, however
\* the refresh that holds it ends and although LimeSurvey may never answer
\* again (defer releaseSessionKey, the refresh's own deadline).
EveryKeyIsReturned ==
    RefreshFairness /\ ReleaseFairness =>
        \A s \in SessionKeys : s \in received ~> s \notin received

=============================================================================
