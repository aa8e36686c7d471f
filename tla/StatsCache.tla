----------------------------- MODULE StatsCache -----------------------------
(***************************************************************************)
(* The survey statistics cache of internal/limesurvey/service.go: a map    *)
(* of cached samples and a map of in-flight refreshes behind one mutex,    *)
(* filled by one background goroutine per refresh and read by one          *)
(* goroutine per target of every request (BuildCandidates).                *)
(*                                                                         *)
(* A sample stands for a SurveyState: what the properties tell apart is    *)
(* when its two halves were read from LimeSurvey and when it was stored.   *)
(* The clock is discrete and advances only by Tick.                        *)
(***************************************************************************)
EXTENDS Integers

CONSTANTS
    Requests,           \* redirects and simulations being served
    Keys,               \* "instanceID:surveyID"
    LoadIds,            \* stateLoad objects alive at once
    NoLoad,             \* no entry in the inflight map
    StatsTTL,           \* STATS_TTL_SECONDS
    StaleStatsMaxAge,   \* STALE_STATS_MAX_AGE_SECONDS
    RequestTimeout,     \* REQUEST_TIMEOUT_SECONDS
    MaxTime             \* bound of the model's clock

\* What config.Load accepts (internal/config/config.go), and the clock bound.
ASSUME TimingAssumption ==
    /\ StatsTTL \in Nat
    /\ StaleStatsMaxAge \in Nat
    /\ StaleStatsMaxAge >= StatsTTL
    /\ RequestTimeout \in Nat \ {0}
    /\ MaxTime \in Nat
    /\ MaxTime >= RequestTimeout

ASSUME NoLoadAssumption == NoLoad \notin LoadIds

VARIABLES
    now,        \* the clock
    cache,      \* Service.cache
    inflight,   \* Service.inflight
    load,       \* the stateLoad objects and the goroutines that fill them
    request,    \* the BuildCandidates calls
    get         \* the GetSurveyState calls, one goroutine per request and target

vars == <<now, cache, inflight, load, request, get>>

-----------------------------------------------------------------------------
Time == 0 .. MaxTime

\* An instant, or -1 where there is none.
Instant == Time \cup {-1}

\* summaryAt and propsAt: when the answers to get_summary and
\* get_survey_properties came in. fetched: cachedState.fetched.
Sample == [summaryAt : Instant, propsAt : Instant, fetched : Instant]

NoSample == [summaryAt |-> -1, propsAt |-> -1, fetched |-> -1]

\* "spawned" until the goroutine derives its own deadline, then one phase per
\* RPC answer it still has to wait for.
Load == [phase : {"free", "spawned", "opened", "summarised", "sampled"},
         key : Keys, deadline : Instant, sample : Sample]

\* A load that a waiting goroutine can still be woken by.
Running(l) == load[l].phase # "free"

Gets == Requests \X Keys

\* A SurveyState as GetSurveyState returns it: its Stale flag, or the error.
Answer == [kind : {"none", "fresh", "stale", "error"}, sample : Sample]

Get == [pc : {"idle", "started", "asked", "waiting", "woken", "answered"},
        asked : Instant,                \* now := time.Now()
        snapshot : Sample,              \* cached, read under the lock
        load : LoadIds \cup {NoLoad},   \* load
        reply : Sample,                 \* load.state; NoSample when load.err # nil
        answer : Answer]                \* what it returned last

\* No targets: the request is not being served.
Request == [targets : SUBSET Keys, deadline : Instant, cancelled : BOOLEAN]

TypeOK ==
    /\ now \in Time
    /\ cache \in [Keys -> Sample]
    /\ inflight \in [Keys -> LoadIds \cup {NoLoad}]
    /\ load \in [LoadIds -> Load]
    /\ request \in [Requests -> Request]
    /\ get \in [Gets -> Get]

NoRequest == [targets |-> {}, deadline |-> -1, cancelled |-> FALSE]

Init ==
    /\ now = 0
    /\ cache = [k \in Keys |-> NoSample]
    /\ inflight = [k \in Keys |-> NoLoad]
    /\ load \in [LoadIds -> [phase : {"free"}, key : Keys, deadline : {-1},
                             sample : {NoSample}]]
    /\ request = [r \in Requests |-> NoRequest]
    /\ get = [g \in Gets |->
                [pc |-> "idle", asked |-> -1, snapshot |-> NoSample,
                 load |-> NoLoad, reply |-> NoSample,
                 answer |-> [kind |-> "none", sample |-> NoSample]]]

-----------------------------------------------------------------------------
(***************************************************************************)
(* The clock. It stops at MaxTime. No request begins from LastStart on,    *)
(* and time passes LastStart only when every goroutine has started, so     *)
(* that every deadline lies on the clock.                                  *)
(***************************************************************************)
LastStart == MaxTime - RequestTimeout

AllStarted ==
    /\ \A g \in Gets : get[g].pc \notin {"started", "asked"}
    /\ \A l \in LoadIds : load[l].phase # "spawned"

Tick ==
    /\ now < MaxTime
    /\ now < LastStart \/ AllStarted
    /\ now' = now + 1
    /\ UNCHANGED <<cache, inflight, load, request, get>>

-----------------------------------------------------------------------------
(***************************************************************************)
(* BuildCandidates: one deadline for the request, one goroutine per        *)
(* target, and a wait for all of them.                                     *)
(***************************************************************************)
Begin(r) ==
    /\ request[r].targets = {}
    /\ now < LastStart
    /\ \E targets \in (SUBSET Keys) \ {{}} :
         /\ request' = [request EXCEPT ![r] =
                          [targets |-> targets, deadline |-> now + RequestTimeout,
                           cancelled |-> FALSE]]
         /\ get' = [g \in Gets |->
                      IF g[1] = r /\ g[2] \in targets
                      THEN [get[g] EXCEPT !.pc = "started"] ELSE get[g]]
    /\ UNCHANGED <<now, cache, inflight, load>>

\* The respondent disconnects: net/http cancels the request's context.
Cancel(r) ==
    /\ request[r].targets # {}
    /\ ~request[r].cancelled
    /\ request' = [request EXCEPT ![r].cancelled = TRUE]
    /\ UNCHANGED <<now, cache, inflight, load, get>>

\* wg.Wait() returns.
Return(r) ==
    /\ request[r].targets # {}
    /\ \A k \in request[r].targets : get[<<r, k>>].pc = "answered"
    /\ request' = [request EXCEPT ![r] = NoRequest]
    /\ get' = [g \in Gets |->
                 IF g[1] = r THEN [get[g] EXCEPT !.pc = "idle", !.asked = -1]
                 ELSE get[g]]
    /\ UNCHANGED <<now, cache, inflight, load>>

-----------------------------------------------------------------------------
(***************************************************************************)
(* GetSurveyState, run by the goroutine g = <<request, key>>.              *)
(***************************************************************************)
\* The time is read before the mutex is taken.
ReadClock(g) ==
    /\ get[g].pc = "started"
    /\ get' = [get EXCEPT ![g] = [@ EXCEPT !.pc = "asked", !.asked = now]]
    /\ UNCHANGED <<now, cache, inflight, load, request>>

Stored(sample) == sample.fetched >= 0

\* Mutant: an entry exactly StatsTTL old still counts as fresh.
WithinTTLInclusive(g) ==
    /\ Stored(cache[g[2]])
    /\ get[g].asked - cache[g[2]].fetched <= StatsTTL

WithinTTL(g) ==
    /\ Stored(cache[g[2]])
    /\ get[g].asked - cache[g[2]].fetched < StatsTTL

AnswerWith(g, kind, sample) ==
    get' = [get EXCEPT ![g] =
             [pc |-> "answered", asked |-> get[g].asked, snapshot |-> NoSample,
              load |-> NoLoad, reply |-> NoSample,
              answer |-> [kind |-> kind, sample |-> sample]]]

\* Mutant: the entry is looked up for its age and then forgotten.
WaitForEmptyHanded(g, l) ==
    get' = [get EXCEPT ![g] =
             [@ EXCEPT !.pc = "waiting", !.load = l, !.snapshot = NoSample]]

WaitFor(g, l) ==
    get' = [get EXCEPT ![g] =
             [@ EXCEPT !.pc = "waiting", !.load = l, !.snapshot = cache[g[2]]]]

\* The critical section of GetSurveyState: hit, join or spawn.
Hit(g) ==
    /\ get[g].pc = "asked"
    /\ WithinTTL(g)
    /\ AnswerWith(g, "fresh", cache[g[2]])
    /\ UNCHANGED <<now, cache, inflight, load, request>>

Join(g) ==
    /\ get[g].pc = "asked"
    /\ ~WithinTTL(g)
    /\ inflight[g[2]] # NoLoad
    /\ WaitFor(g, inflight[g[2]])
    /\ UNCHANGED <<now, cache, inflight, load, request>>

\* Mutant: the inflight map is not consulted.
SpawnRegardless(g) ==
    /\ get[g].pc = "asked"
    /\ ~WithinTTL(g)
    /\ \E l \in LoadIds :
         /\ ~Running(l)
         /\ load' = [load EXCEPT ![l] = [@ EXCEPT !.phase = "spawned", !.key = g[2]]]
         /\ inflight' = [inflight EXCEPT ![g[2]] = l]
         /\ WaitFor(g, l)
    /\ UNCHANGED <<now, cache, request>>

Spawn(g) ==
    /\ get[g].pc = "asked"
    /\ ~WithinTTL(g)
    /\ inflight[g[2]] = NoLoad
    /\ \E l \in LoadIds :
         /\ ~Running(l)
         /\ load' = [load EXCEPT ![l] = [@ EXCEPT !.phase = "spawned", !.key = g[2]]]
         /\ inflight' = [inflight EXCEPT ![g[2]] = l]
         /\ WaitFor(g, l)
    /\ UNCHANGED <<now, cache, request>>

\* staleStateOrError: the snapshot taken before the wait, if young enough.
Usable(sample) ==
    /\ Stored(sample)
    /\ StaleStatsMaxAge > 0
    /\ now - sample.fetched <= StaleStatsMaxAge

StaleOrError(g) ==
    IF Usable(get[g].snapshot)
    THEN AnswerWith(g, "stale", get[g].snapshot)
    ELSE AnswerWith(g, "error", NoSample)

\* case <-load.done
Receive(g) ==
    /\ get[g].pc = "woken"
    /\ IF Stored(get[g].reply)
       THEN AnswerWith(g, "fresh", get[g].reply)
       ELSE StaleOrError(g)
    /\ UNCHANGED <<now, cache, inflight, load, request>>

\* Mutant: the request's own deadline is forgotten.
ContextCancelled(r) == request[r].cancelled

\* case <-ctx.Done(); when load.done is closed too, select picks either.
ContextDone(r) == request[r].cancelled \/ now >= request[r].deadline

TimeOut(g) ==
    /\ get[g].pc \in {"waiting", "woken"}
    /\ ContextDone(g[1])
    /\ StaleOrError(g)
    /\ UNCHANGED <<now, cache, inflight, load, request>>

-----------------------------------------------------------------------------
(***************************************************************************)
(* loadSurveyState, run by the goroutine of load l.                        *)
(***************************************************************************)
\* Mutant: the retried context adds a second timeout to the deadline.
StartLoadTwice(l) ==
    /\ load[l].phase = "spawned"
    /\ load' = [load EXCEPT ![l].phase = "opened",
                            ![l].deadline = now + 2 * RequestTimeout]
    /\ UNCHANGED <<now, cache, inflight, request, get>>

\* The refresh has a deadline of its own, not its creator's.
StartLoad(l) ==
    /\ load[l].phase = "spawned"
    /\ load' = [load EXCEPT ![l].phase = "opened",
                            ![l].deadline = now + RequestTimeout]
    /\ UNCHANGED <<now, cache, inflight, request, get>>

\* An RPC answer counts only before the refresh's deadline.
ReadSummary(l) ==
    /\ load[l].phase = "opened"
    /\ now <= load[l].deadline
    /\ load' = [load EXCEPT ![l].phase = "summarised",
                            ![l].sample.summaryAt = now]
    /\ UNCHANGED <<now, cache, inflight, request, get>>

\* Mutant: the second RPC does not carry the refresh's context.
ReadPropertiesUnbounded(l) ==
    /\ load[l].phase = "summarised"
    /\ load' = [load EXCEPT ![l].phase = "sampled",
                            ![l].sample.propsAt = now]
    /\ UNCHANGED <<now, cache, inflight, request, get>>

ReadProperties(l) ==
    /\ load[l].phase = "summarised"
    /\ now <= load[l].deadline
    /\ load' = [load EXCEPT ![l].phase = "sampled",
                            ![l].sample.propsAt = now]
    /\ UNCHANGED <<now, cache, inflight, request, get>>

\* Mutant: the end of the refresh is sent on a channel, not by closing it.
FinishForOne(l, reply) ==
    /\ inflight' = [inflight EXCEPT ![load[l].key] = NoLoad]
    /\ load' = [load EXCEPT ![l] = [phase |-> "free", key |-> load[l].key,
                                    deadline |-> -1, sample |-> NoSample]]
    /\ \E w \in Gets :
         get' = [g \in Gets |->
                   IF g = w /\ get[g].pc = "waiting" /\ get[g].load = l
                   THEN [get[g] EXCEPT !.pc = "woken", !.load = NoLoad,
                                       !.reply = reply]
                   ELSE get[g]]
    /\ UNCHANGED <<now, request>>

\* Under the mutex: drop the inflight entry, store the outcome in the load
\* and close load.done, which wakes every waiter. The load's fields never
\* change afterwards, so each waiter carries them.
Finish(l, reply) ==
    /\ inflight' = [inflight EXCEPT ![load[l].key] = NoLoad]
    /\ load' = [load EXCEPT ![l] = [phase |-> "free", key |-> load[l].key,
                                    deadline |-> -1, sample |-> NoSample]]
    /\ get' = [g \in Gets |->
                 IF get[g].pc = "waiting" /\ get[g].load = l
                 THEN [get[g] EXCEPT !.pc = "woken", !.load = NoLoad,
                                     !.reply = reply]
                 ELSE get[g]]
    /\ UNCHANGED <<now, request>>

\* Mutant: a key that is cached already keeps its old entry.
PublishLoadOnce(l) ==
    /\ load[l].phase = "sampled"
    /\ LET fetched == [load[l].sample EXCEPT !.fetched = now] IN
         /\ cache' = IF Stored(cache[load[l].key]) THEN cache
                     ELSE [cache EXCEPT ![load[l].key] = fetched]
         /\ Finish(l, fetched)

PublishLoad(l) ==
    /\ load[l].phase = "sampled"
    /\ LET fetched == [load[l].sample EXCEPT !.fetched = now] IN
         /\ cache' = [cache EXCEPT ![load[l].key] = fetched]
         /\ Finish(l, fetched)

\* Mutant: the error path leaves the inflight entry behind.
FailLoadKeepingEntry(l) ==
    /\ load[l].phase \in {"opened", "summarised"}
    /\ load' = [load EXCEPT ![l].phase = "free"]
    /\ get' = [g \in Gets |->
                 IF get[g].load = l
                 THEN [get[g] EXCEPT !.pc = "woken", !.load = NoLoad]
                 ELSE get[g]]
    /\ UNCHANGED <<now, cache, inflight, request>>

\* Mutant: the error path does not close load.done.
FailLoadSilently(l) ==
    /\ load[l].phase \in {"opened", "summarised"}
    /\ inflight' = [inflight EXCEPT ![load[l].key] = NoLoad]
    /\ load' = [load EXCEPT ![l].phase = "free"]
    /\ UNCHANGED <<now, cache, request, get>>

\* Mutant: the deadline does not reach the second RPC.
FailLoadBeforeSummary(l) ==
    /\ load[l].phase = "opened"
    /\ Finish(l, NoSample)
    /\ UNCHANGED cache

\* newClient or one of the RPCs fails, or the deadline passes.
FailLoad(l) ==
    /\ load[l].phase \in {"opened", "summarised"}
    /\ Finish(l, NoSample)
    /\ UNCHANGED cache

-----------------------------------------------------------------------------
Serve(r) == Begin(r) \/ Cancel(r) \/ Return(r)

GetSurveyState(g) ==
    \/ ReadClock(g)
    \/ Hit(g) \/ Join(g) \/ Spawn(g)
    \/ Receive(g) \/ TimeOut(g)

LoadSurveyState(l) ==
    \/ StartLoad(l) \/ ReadSummary(l) \/ ReadProperties(l)
    \/ PublishLoad(l) \/ FailLoad(l)

Next ==
    \/ Tick
    \/ \E r \in Requests : Serve(r)
    \/ \E g \in Gets : GetSurveyState(g)
    \/ \E l \in LoadIds : LoadSurveyState(l)

Spec == Init /\ [][Next]_vars

\* Time passes, the scheduler runs every goroutine of a request, and every
\* goroutine starts. Nothing is assumed of LimeSurvey: an RPC may hang, and
\* even the refresh's own deadline may go unnoticed.
RequestFairness ==
    /\ WF_vars(Tick)
    /\ \A r \in Requests : WF_vars(Return(r))
    /\ \A g \in Gets : WF_vars(GetSurveyState(g))
    /\ \A l \in LoadIds : WF_vars(StartLoad(l))

\* The scheduler also runs the refresh goroutines: an RPC that is never
\* answered fails at the refresh's deadline.
RefreshFairness ==
    \A l \in LoadIds :
        /\ WF_vars(PublishLoad(l))
        /\ WF_vars(now >= load[l].deadline /\ FailLoad(l))

RequestSpec == Spec /\ RequestFairness

-----------------------------------------------------------------------------
(***************************************************************************)
(* What the cache promises.                                                *)
(***************************************************************************)
\* Repeated requests for one survey share one refresh: every refresh that
\* runs is the one its key's inflight entry names, and an entry never
\* outlives its refresh (GetSurveyState, loadSurveyState).
SingleFlight ==
    /\ \A l \in LoadIds : Running(l) => inflight[load[l].key] = l
    /\ \A k \in Keys : inflight[k] # NoLoad =>
         Running(inflight[k]) /\ load[inflight[k]].key = k

\* A goroutine blocked in GetSurveyState waits for the refresh that is in
\* flight for its own key, so that the close of load.done will wake it.
NoStrandedWaiter ==
    \A g \in Gets : get[g].pc = "waiting" =>
        /\ get[g].load # NoLoad
        /\ inflight[g[2]] = get[g].load

\* Both halves of a cached SurveyState were read within one refresh, that is
\* at most RequestTimeout apart, and before the entry was time-stamped
\* (two separate RPCs, loadSurveyState's context).
SamplesCoherent ==
    \A k \in Keys : Stored(cache[k]) =>
        LET c == cache[k] IN
        /\ 0 <= c.summaryAt /\ c.summaryAt <= c.propsAt /\ c.propsAt <= c.fetched
        /\ c.propsAt - c.summaryAt <= RequestTimeout

NotOlder(a, b) ==
    /\ a.summaryAt <= b.summaryAt
    /\ a.propsAt <= b.propsAt
    /\ a.fetched <= b.fetched

\* No write to the cache replaces a sample by an older one, and no failure
\* drops one (loadSurveyState).
CacheNeverRegresses == [][\A k \in Keys : NotOlder(cache[k], cache'[k])]_vars

\* The goroutine g returns from GetSurveyState in this step.
Answers(g) == get[g].pc # "answered" /\ get'[g].pc = "answered"

\* One client asking for one survey again never gets an older sample than it
\* got last time, whichever of hit, shared refresh and stale fallback answered.
MonotonicReads ==
    [][\A g \in Gets : Answers(g) /\ get'[g].answer.kind # "error" =>
          NotOlder(get[g].answer.sample, get'[g].answer.sample)]_vars

\* A SurveyState without the Stale flag was stored less than StatsTTL before
\* the call or during it; one with the flag had outlived StatsTTL when the
\* call began and is at most StaleStatsMaxAge old when it is returned.
LabelsTellTheAge ==
    [][\A g \in Gets : Answers(g) =>
          LET fetched == get'[g].answer.sample.fetched IN
          CASE get'[g].answer.kind = "fresh" ->
                 fetched > get[g].asked - StatsTTL \/ fetched >= get[g].asked
            [] get'[g].answer.kind = "stale" ->
                 /\ fetched <= get[g].asked - StatsTTL
                 /\ now - fetched <= StaleStatsMaxAge
            [] OTHER -> get'[g].answer.sample = NoSample]_vars

\* A call that is not answered with what is cached, although that could be
\* used, was overtaken: a refresh has stored it since the call began. Beyond
\* that race no deadline and no failed refresh hides a usable entry
\* (GetSurveyState, staleStateOrError).
OnlyARefreshOvertakes ==
    [][\A g \in Gets : Answers(g) =>
          \/ get'[g].answer.sample = cache[g[2]]
          \/ ~Usable(cache[g[2]])
          \/ cache[g[2]].fetched >= get[g].asked]_vars

\* The feed a caller sees: a goroutine in the select is an open call, and the
\* snapshot it carries and the reply it was woken with are the two samples it
\* may be answered with.
FeedPhase(g) ==
    IF get[g].pc = "waiting" THEN "waiting"
    ELSE IF get[g].pc = "woken" THEN "served" ELSE "closed"

FeedCall(g) == [phase |-> FeedPhase(g),
                before |-> get[g].snapshot, since |-> get[g].reply]

Feed == INSTANCE SurveyFeed WITH
    Calls <- Gets, Surveys <- Keys, Samples <- Sample, Nothing <- NoSample,
    current <- cache,
    call <- [g \in Gets |-> FeedCall(g)],
    answer <- [g \in Gets |-> get[g].answer]

\* The mutex, the inflight map, the refresh goroutines and the two deadlines
\* together behave like one register per survey that only moves forward and
\* hands every publication to all the calls waiting for it (GetSurveyState).
ImplementsFeed == Feed!FeedSpec

\* Every request is answered, even if LimeSurvey never answers and the
\* refresh goroutines make no progress (BuildCandidates' timeout).
RequestsReturn ==
    \A r \in Requests : request[r].targets # {} ~> request[r].targets = {}

\* Every refresh leaves the inflight map, so that no key is stuck behind a
\* refresh that hangs, if the refresh goroutines are scheduled
\* (loadSurveyState's timeout).
RefreshesEnd ==
    RefreshFairness => \A l \in LoadIds : Running(l) ~> ~Running(l)

\* README, "RPC Failure Handling": a target falls out only if no usable
\* cache exists. The wait's fallback looks at the snapshot taken before the
\* wait, so a timeout that races a finished refresh breaks this.
ErrorOnlyWithoutUsableCache ==
    [][\A g \in Gets : Answers(g) /\ get'[g].answer.kind = "error" =>
          ~Usable(cache[g[2]])]_vars

=============================================================================
