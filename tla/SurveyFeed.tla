----------------------------- MODULE SurveyFeed -----------------------------
(***************************************************************************)
(* What internal/limesurvey/service.go promises its callers, without       *)
(* locks, timeouts, goroutines or refresh objects: one current sample per  *)
(* survey, which only ever moves forward, and calls that either return it  *)
(* at once or stay open. An open call remembers the sample that was        *)
(* current when it was opened; the next publication for its survey is      *)
(* handed to every call that is open for it, and to no call twice.         *)
(*                                                                         *)
(* StatsCache implements this: see StatsCache!ImplementsFeed.              *)
(***************************************************************************)
EXTENDS Integers

CONSTANTS
    Calls,          \* <<client, survey>>
    Surveys,
    Samples,        \* Nothing and records with summaryAt, propsAt and fetched
    Nothing         \* no sample

VARIABLES
    current,        \* the newest sample of every survey
    call,           \* the calls: phase, the sample before, the one published since
    answer          \* what each call returned last

feedVars == <<current, call, answer>>

-----------------------------------------------------------------------------
Closed == [phase |-> "closed", before |-> Nothing, since |-> Nothing]

FeedInit ==
    /\ current = [k \in Surveys |-> Nothing]
    /\ call = [c \in Calls |-> Closed]
    /\ answer = [c \in Calls |-> [kind |-> "none", sample |-> Nothing]]

\* Neither half of b was read before the same half of a.
NoOlder(a, b) ==
    /\ a.summaryAt <= b.summaryAt
    /\ a.propsAt <= b.propsAt
    /\ a.fetched <= b.fetched

WaitingFor(c, k) == c[2] = k /\ call[c].phase = "waiting"

Deliver(k, sample) ==
    call' = [c \in Calls |->
               IF WaitingFor(c, k)
               THEN [call[c] EXCEPT !.phase = "served", !.since = sample]
               ELSE call[c]]

\* A newer sample becomes current and reaches every call waiting for it.
Publish(k) ==
    /\ current' \in [Surveys -> Samples]
    /\ current'[k] # Nothing
    /\ NoOlder(current[k], current'[k])
    /\ \A j \in Surveys \ {k} : current'[j] = current[j]
    /\ Deliver(k, current'[k])
    /\ UNCHANGED answer

\* The waiting calls learn that there is nothing new.
GiveUp(k) ==
    /\ Deliver(k, Nothing)
    /\ UNCHANGED <<current, answer>>

\* The caller is answered with what is current.
AnswerNow(c) ==
    /\ call[c].phase = "closed"
    /\ current[c[2]] # Nothing
    /\ answer' = [answer EXCEPT ![c] = [kind |-> "fresh", sample |-> current[c[2]]]]
    /\ UNCHANGED <<current, call>>

Open(c) ==
    /\ call[c].phase = "closed"
    /\ call' = [call EXCEPT ![c] = [phase |-> "waiting", before |-> current[c[2]],
                                    since |-> Nothing]]
    /\ UNCHANGED <<current, answer>>

\* An open call ends with the sample published since, with the one before,
\* or, at any time, with none.
Outcomes(c) ==
    {[kind |-> "fresh", sample |-> s] : s \in {call[c].since} \ {Nothing}}
    \cup {[kind |-> "stale", sample |-> s] : s \in {call[c].before} \ {Nothing}}
    \cup {[kind |-> "error", sample |-> Nothing]}

Close(c) ==
    /\ call[c].phase # "closed"
    /\ \E outcome \in Outcomes(c) : answer' = [answer EXCEPT ![c] = outcome]
    /\ call' = [call EXCEPT ![c] = Closed]
    /\ UNCHANGED current

FeedNext ==
    \/ \E k \in Surveys : Publish(k) \/ GiveUp(k)
    \/ \E c \in Calls : AnswerNow(c) \/ Open(c) \/ Close(c)

FeedSpec == FeedInit /\ [][FeedNext]_feedVars

=============================================================================
