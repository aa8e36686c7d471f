------------------------------ MODULE Balancing ------------------------------
(***************************************************************************)
(* Respondents arriving at one route while LimeSurvey counts responses and *)
(* the route sees those counts through samples that lag behind: what the   *)
(* algorithms of Routing do to the balance of the surveys over time.       *)
(*                                                                         *)
(* LimeSurvey is external: a respondent sent to a survey opens a response  *)
(* (it counts as full), and may submit it (it counts as completed) or      *)
(* abandon it. When and how samples are taken is StatsCache's matter; here *)
(* the sample of a survey may be refreshed or be lost at any time.         *)
(***************************************************************************)
EXTENDS Routing

CONSTANTS
    Surveys,        \* survey ids, numbers
    Routes,         \* the routes to consider
    Weights,        \* the target weights to consider
    MaxArrivals     \* bound on the respondents

ASSUME BalancingAssumption ==
    /\ Surveys \subseteq Nat
    /\ IsFiniteSet(Surveys)
    /\ Routes \subseteq [algorithm : Algorithms, fuzzyThreshold : Nat,
                         pendingEnabled : BOOLEAN, pendingWeight : Nat]
    /\ Weights \subseteq Nat
    /\ MaxArrivals \in Nat

VARIABLES
    route,      \* the route, fixed
    weight,     \* the weight of each target, fixed
    survey,     \* LimeSurvey: open and completed responses, responses in all
    sample,     \* what BuildCandidates reports of each survey
    arrivals,   \* respondents so far
    peak,       \* history: most respondents sent to a survey unseen by its sample
    passedOver  \* history: surveys that were not eligible at some arrival

vars == <<route, weight, survey, sample, arrivals, peak, passedOver>>

Counts == 0 .. MaxArrivals

\* buildRouteInput stores weight 1 unless the algorithm uses weights.
StoredWeights == IF Weighted(route) THEN Weights ELSE {1}

TypeOK ==
    /\ route \in Routes
    /\ weight \in [Surveys -> StoredWeights]
    /\ survey \in [Surveys -> [open : Counts, completed : Counts, full : Counts,
                               active : BOOLEAN]]
    /\ sample \in [Surveys -> [failed : BOOLEAN, completed : Counts,
                               full : Counts, active : BOOLEAN]]
    /\ arrivals \in Counts
    /\ peak \in [Surveys -> [completed : Counts, full : Counts]]
    /\ passedOver \in SUBSET Surveys

Seen(s) == [failed |-> FALSE, completed |-> survey[s].completed,
            full |-> survey[s].full, active |-> survey[s].active]

\* Mutant: a failed fetch reports -1.
UnseenMinusOne == [failed |-> TRUE, completed |-> -1, full |-> -1, active |-> FALSE]

\* A candidate whose fetch failed carries no counts.
Unseen == [failed |-> TRUE, completed |-> 0, full |-> 0, active |-> FALSE]

Init ==
    /\ route \in Routes
    /\ weight \in [Surveys -> StoredWeights]
    /\ survey = [s \in Surveys |->
                   [open |-> 0, completed |-> 0, full |-> 0, active |-> TRUE]]
    /\ sample = [s \in Surveys |-> Unseen]
    /\ arrivals = 0
    /\ peak = [s \in Surveys |-> [completed |-> 0, full |-> 0]]
    /\ passedOver = {}

-----------------------------------------------------------------------------
\* BuildCandidates: it never sets PendingAssignments, and hard_cap is NULL in
\* every row, for neither INSERT of a target names that column.
Candidate(s) ==
    [survey |-> s, targetEnabled |-> TRUE, instanceEnabled |-> TRUE,
     failed |-> sample[s].failed, active |-> sample[s].active,
     hardCap |-> NoCap, weight |-> weight[s],
     completed |-> sample[s].completed, full |-> sample[s].full, pending |-> 0]

Candidates == {Candidate(s) : s \in Surveys}

\* Respondents sent to s that have not gone away, by either count.
Sent(s) == [completed |-> survey[s].completed + survey[s].open,
            full |-> survey[s].full]

\* One redirect: evaluateRoute selects, the respondent opens the survey.
Arrive ==
    /\ arrivals < MaxArrivals
    /\ arrivals' = arrivals + 1
    /\ passedOver' = passedOver \cup {s \in Surveys : ~Eligible(Candidate(s))}
    /\ \/ /\ Select(route, Candidates) = {}
          /\ UNCHANGED <<survey, peak>>
       \/ \E c \in Select(route, Candidates) :
            LET s == c.survey IN
            /\ survey' = [survey EXCEPT ![s].open = @ + 1, ![s].full = @ + 1]
            /\ peak' = [peak EXCEPT ![s] =
                 [completed |-> AtLeast(Sent(s).completed + 1 - c.completed, @.completed),
                  full |-> AtLeast(Sent(s).full + 1 - c.full, @.full)]]
    /\ UNCHANGED <<route, weight, sample>>

Submit(s) ==
    /\ survey[s].open > 0
    /\ survey' = [survey EXCEPT ![s].open = @ - 1, ![s].completed = @ + 1]
    /\ UNCHANGED <<route, weight, sample, arrivals, peak, passedOver>>

Abandon(s) ==
    /\ survey[s].open > 0
    /\ survey' = [survey EXCEPT ![s].open = @ - 1]
    /\ UNCHANGED <<route, weight, sample, arrivals, peak, passedOver>>

\* The survey is opened or closed in LimeSurvey.
Switch(s) ==
    /\ survey' = [survey EXCEPT ![s].active = ~@]
    /\ UNCHANGED <<route, weight, sample, arrivals, peak, passedOver>>

Refresh(s) ==
    /\ sample' = [sample EXCEPT ![s] = Seen(s)]
    /\ UNCHANGED <<route, weight, survey, arrivals, peak, passedOver>>

\* The refresh failed and no usable sample was cached.
LoseSample(s) ==
    /\ sample' = [sample EXCEPT ![s] = Unseen]
    /\ UNCHANGED <<route, weight, survey, arrivals, peak, passedOver>>

Next ==
    \/ Arrive
    \/ \E s \in Surveys :
         \/ Submit(s) \/ Abandon(s) \/ Switch(s)
         \/ Refresh(s) \/ LoseSample(s)

Spec == Init /\ [][Next]_vars

-----------------------------------------------------------------------------
\* The balance: a survey that respondents were sent to is ahead of one that
\* was eligible all along by no more than the fuzzy threshold and the
\* respondents its sample did not show when they were sent
\* (per unit of weight, by the algorithm's own count).
Balanced ==
    \A s, t \in Surveys :
        ( /\ route.algorithm # "random"
          /\ peak[s].full > 0
          /\ t \notin passedOver )
        =>
        LET w(u) == IF Weighted(route) THEN AtLeast(weight[u], 1) ELSE 1
            threshold == IF Fuzzy(route) THEN route.fuzzyThreshold ELSE 0
            ahead == IF CountsFull(route) THEN Sent(s).full - peak[s].full
                     ELSE Sent(s).completed - peak[s].completed
            behind == IF CountsFull(route) THEN survey[t].full
                      ELSE survey[t].completed
        IN  ahead * w(t) <= (behind + threshold * w(t)) * w(s)

\* DESIGN.md, "Local Pending Assignment Buffer": the score of a target is its
\* completed responses plus the respondents sent to it that are still pending.
\* So of two healthy targets the one with fewer of both is never passed over.
PendingBufferCounts ==
    [][\A s, t \in Surveys :
          /\ route.pendingEnabled /\ route.algorithm = "least_completed"
          /\ survey'[s].full > survey[s].full
          /\ Eligible(Candidate(s)) /\ Eligible(Candidate(t))
          => Sent(s).completed <= Sent(t).completed]_vars

=============================================================================
