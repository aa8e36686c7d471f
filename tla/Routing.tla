------------------------------- MODULE Routing -------------------------------
(***************************************************************************)
(* internal/routing/routing.go: which candidates are eligible, how each    *)
(* algorithm scores them and which of them Select may choose. No state; a  *)
(* random pick is a set of choices.                                        *)
(*                                                                         *)
(* A route is [algorithm, fuzzyThreshold, pendingEnabled, pendingWeight].  *)
(* A candidate is [survey, targetEnabled, instanceEnabled, failed, active, *)
(* hardCap, weight, completed, full, pending]; survey ids are numbers and  *)
(* no two candidates of a route share one (normalizeRouteTargets). A score *)
(* is a fraction <<numerator, denominator>>, exact where the code divides  *)
(* float64s.                                                               *)
(***************************************************************************)
EXTENDS Integers, FiniteSets

NoCap == -1

Algorithms == {"random", "least_completed", "least_full", "completed_fuzzy",
               "full_fuzzy", "weighted_completed", "weighted_fuzzy"}

Fuzzy(route) == route.algorithm \in {"completed_fuzzy", "full_fuzzy", "weighted_fuzzy"}
Weighted(route) == route.algorithm \in {"weighted_completed", "weighted_fuzzy"}
CountsFull(route) == route.algorithm \in {"least_full", "full_fuzzy"}

AtLeast(n, low) == IF n > low THEN n ELSE low

\* The early returns of scoreCandidate.
Eligible(c) ==
    /\ c.targetEnabled /\ c.instanceEnabled
    /\ ~c.failed /\ c.active
    /\ c.hardCap # NoCap => c.completed < c.hardCap

Infinity == <<1, 0>>

EffectiveCompleted(route, c) ==
    c.completed + (IF route.pendingEnabled THEN c.pending * route.pendingWeight ELSE 0)

\* scoreCandidate
Score(route, c) ==
    CASE ~Eligible(c) -> Infinity
      [] Eligible(c) /\ route.algorithm = "random" -> <<0, 1>>
      [] Eligible(c) /\ CountsFull(route) -> <<c.full, 1>>
      [] Eligible(c) /\ Weighted(route) ->
           <<EffectiveCompleted(route, c), AtLeast(c.weight, 1)>>
      [] OTHER -> <<EffectiveCompleted(route, c), 1>>

Below(a, b) == a[1] * b[2] < b[1] * a[2]
Equal(a, b) == a[1] * b[2] = b[1] * a[2]
Plus(a, n) == <<a[1] + n * a[2], a[2]>>

\* The order of choose's pairs.
PairBefore(route, c, d) ==
    LET a == Score(route, c)
        b == Score(route, d)
    IN  Below(a, b) \/ (Equal(a, b) /\ c.survey < d.survey)

\* pairs[0] of the sorted pairs.
First(route, eligible) ==
    CHOOSE c \in eligible : \A d \in eligible \ {c} : PairBefore(route, c, d)

\* Mutant: the comparison with the threshold is the wrong way round.
WindowReversed(route, eligible) ==
    {c \in eligible :
        ~Below(Plus(Score(route, c), AtLeast(route.fuzzyThreshold, 0)),
               Score(route, First(route, eligible)))}

\* The pairs within the fuzzy threshold of the lowest score.
Window(route, eligible) ==
    {c \in eligible :
        ~Below(Plus(Score(route, First(route, eligible)),
                    AtLeast(route.fuzzyThreshold, 0)), Score(route, c))}

\* choose: the candidates it may return.
Choose(route, eligible) ==
    CASE eligible = {} -> {}
      [] eligible # {} /\ route.algorithm = "random" -> eligible
      [] eligible # {} /\ Fuzzy(route) -> Window(route, eligible)
      [] OTHER -> {First(route, eligible)}

\* Select; no choice stands for its "no eligible targets" error.
Select(route, candidates) ==
    Choose(route, {c \in candidates : Eligible(c)})

=============================================================================
