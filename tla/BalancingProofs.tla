--------------------------- MODULE BalancingProofs ---------------------------
(***************************************************************************)
(* What Select chooses, and what that does to the balance of the surveys,  *)
(* for any finite set of targets, any weights and thresholds, and any      *)
(* number of respondents.                                                  *)
(***************************************************************************)
EXTENDS Balancing, OrderLemmas, TLAPS

-----------------------------------------------------------------------------
(***************************************************************************)
(* Scores are fractions with a positive denominator, and their order is    *)
(* that of the fractions.                                                  *)
(***************************************************************************)
Fraction == Nat \X (Nat \ {0})

LEMMA BelowIsTransitive ==
  ASSUME NEW a \in Fraction, NEW b \in Fraction, NEW c \in Fraction
  PROVE  /\ Below(a, b) /\ Below(b, c) => Below(a, c)
         /\ Below(a, b) /\ Equal(b, c) => Below(a, c)
         /\ Equal(a, b) /\ Below(b, c) => Below(a, c)
         /\ Equal(a, b) /\ Equal(b, c) => Equal(a, c)
<1> DEFINE a1 == a[1]  a2 == a[2]  b1 == b[1]  b2 == b[2]  c1 == c[1]  c2 == c[2]
<1>1. /\ a1 \in Nat /\ b1 \in Nat /\ c1 \in Nat
      /\ a2 \in Nat \ {0} /\ b2 \in Nat \ {0} /\ c2 \in Nat \ {0}
  BY DEF Fraction
<1> HIDE DEF a1, a2, b1, b2, c1, c2
<1>2. a1 * b2 < b1 * a2 /\ b1 * c2 < c1 * b2 => a1 * c2 < c1 * a2
  BY <1>1
<1>3. a1 * b2 < b1 * a2 /\ b1 * c2 = c1 * b2 => a1 * c2 < c1 * a2
  BY <1>1
<1>4. a1 * b2 = b1 * a2 /\ b1 * c2 < c1 * b2 => a1 * c2 < c1 * a2
  BY <1>1
<1>5. a1 * b2 = b1 * a2 /\ b1 * c2 = c1 * b2 => a1 * c2 = c1 * a2
  BY <1>1
<1> QED
  BY <1>2, <1>3, <1>4, <1>5 DEF Below, Equal, a1, a2, b1, b2, c1, c2

LEMMA BelowIsTotal ==
  ASSUME NEW a \in Fraction, NEW b \in Fraction
  PROVE  /\ Below(a, b) \/ Equal(a, b) \/ Below(b, a)
         /\ Equal(a, b) => Equal(b, a)
         /\ ~(Below(a, b) /\ Below(b, a))
         /\ ~(Below(a, b) /\ Equal(a, b))
<1> DEFINE x == a[1] * b[2]  y == b[1] * a[2]
<1>1. x \in Nat /\ y \in Nat
  BY DEF Fraction
<1> HIDE DEF x, y
<1>2. (x < y \/ x = y \/ y < x) /\ ~(x < y /\ y < x) /\ ~(x < y /\ x = y)
  BY <1>1
<1> QED
  BY <1>2 DEF Below, Equal, x, y

\* A lower score may be compared with a window in place of a higher one.
LEMMA WindowGrows ==
  ASSUME NEW a \in Fraction, NEW b \in Fraction, NEW c \in Fraction, NEW n \in Nat,
         ~Below(b, a), ~Below(Plus(a, n), c)
  PROVE  ~Below(Plus(b, n), c)
<1> DEFINE a1 == a[1]  a2 == a[2]  b1 == b[1]  b2 == b[2]  c1 == c[1]  c2 == c[2]
<1>1. /\ a1 \in Nat /\ b1 \in Nat /\ c1 \in Nat
      /\ a2 \in Nat \ {0} /\ b2 \in Nat \ {0} /\ c2 \in Nat \ {0}
  BY DEF Fraction
<1>2. ~(b1 * a2 < a1 * b2) /\ ~((a1 + n * a2) * c2 < c1 * a2)
  BY DEF Below, Plus
<1> SUFFICES ~((b1 + n * b2) * c2 < c1 * b2)
  BY DEF Below, Plus
<1> HIDE DEF a1, a2, b1, b2, c1, c2
<1>3. c1 * a2 <= (a1 + n * a2) * c2 /\ a1 * b2 <= b1 * a2
  BY <1>1, <1>2
<1>4. (a1 + n * a2) * b2 <= (b1 + n * b2) * a2
  BY <1>1, <1>3
<1> DEFINE p == a1 + n * a2  q == b1 + n * b2
<1>5. p \in Nat /\ q \in Nat
  BY <1>1
<1>6. c1 * a2 <= p * c2 /\ p * b2 <= q * a2
  BY <1>3, <1>4
<1> HIDE DEF p, q
<1>7. c1 * b2 <= q * c2
  BY <1>1, <1>5, <1>6
<1>8. ~(q * c2 < c1 * b2)
  BY <1>1, <1>5, <1>7
<1> QED
  BY <1>8 DEF q

-----------------------------------------------------------------------------
(***************************************************************************)
(* Select.                                                                 *)
(***************************************************************************)
AnyRoute == [algorithm : Algorithms, fuzzyThreshold : Nat,
             pendingEnabled : BOOLEAN, pendingWeight : Nat]

AnyCandidate ==
    [survey : Nat, targetEnabled : BOOLEAN, instanceEnabled : BOOLEAN,
     failed : BOOLEAN, active : BOOLEAN, hardCap : Nat \cup {NoCap},
     weight : Nat, completed : Nat, full : Nat, pending : Nat]

\* The candidates of one route.
CandidatesOK(C) ==
    /\ C \subseteq AnyCandidate
    /\ IsFiniteSet(C)
    /\ \A c, d \in C : c.survey = d.survey => c = d

Margin(r) == IF Fuzzy(r) THEN r.fuzzyThreshold ELSE 0

LEMMA ScoreOfEligible ==
  ASSUME NEW r \in AnyRoute, NEW c \in AnyCandidate, Eligible(c)
  PROVE  Score(r, c) \in Fraction
<1>1. /\ c.completed \in Nat /\ c.full \in Nat /\ c.pending \in Nat /\ c.weight \in Nat
      /\ r.pendingWeight \in Nat
  BY DEF AnyRoute, AnyCandidate
<1>2. EffectiveCompleted(r, c) \in Nat
  <2>1. c.pending * r.pendingWeight \in Nat
    BY <1>1
  <2> QED
    BY <1>1, <2>1 DEF EffectiveCompleted
<1>3. AtLeast(c.weight, 1) \in Nat \ {0}
  BY <1>1 DEF AtLeast
<1> QED
  BY <1>1, <1>2, <1>3 DEF Score, Fraction

\* The order of choose is a strict total order on the eligible candidates of
\* a route.
LEMMA PairOrder ==
  ASSUME NEW r \in AnyRoute, NEW E, CandidatesOK(E), \A c \in E : Eligible(c)
  PROVE  /\ \A x \in E : ~PairBefore(r, x, x)
         /\ \A x, y \in E : x # y => PairBefore(r, x, y) \/ PairBefore(r, y, x)
         /\ \A x, y, z \in E :
              PairBefore(r, x, y) /\ PairBefore(r, y, z) => PairBefore(r, x, z)
<1>1. \A c \in E : Score(r, c) \in Fraction /\ c.survey \in Nat
  BY ScoreOfEligible DEF CandidatesOK, AnyCandidate
<1>2. ASSUME NEW x \in E PROVE ~PairBefore(r, x, x)
  <2>1. ~(x.survey < x.survey)
    BY <1>1
  <2> QED
    BY <1>1, <2>1, BelowIsTotal DEF PairBefore
<1>3. ASSUME NEW x \in E, NEW y \in E, x # y
      PROVE  PairBefore(r, x, y) \/ PairBefore(r, y, x)
  <2>1. x.survey # y.survey
    BY <1>3 DEF CandidatesOK
  <2>2. x.survey < y.survey \/ y.survey < x.survey
    BY <1>1, <2>1
  <2> QED
    BY <1>1, <2>2, BelowIsTotal DEF PairBefore
<1>4. ASSUME NEW x \in E, NEW y \in E, NEW z \in E,
             PairBefore(r, x, y), PairBefore(r, y, z)
      PROVE  PairBefore(r, x, z)
  <2>1. x.survey < y.survey /\ y.survey < z.survey => x.survey < z.survey
    BY <1>1
  <2> QED
    BY <1>1, <1>4, <2>1, BelowIsTransitive DEF PairBefore
<1> QED
  BY <1>2, <1>3, <1>4

\* choose sorts the pairs, so the first has the lowest score.
LEMMA FirstIsLowest ==
  ASSUME NEW r \in AnyRoute, NEW E, CandidatesOK(E), E # {},
         \A c \in E : Eligible(c)
  PROVE  /\ First(r, E) \in E
         /\ \A d \in E : ~Below(Score(r, d), Score(r, First(r, E)))
<1> DEFINE R == {p \in E \X E : PairBefore(r, p[1], p[2])}
<1>1. \A c \in E : Score(r, c) \in Fraction /\ c.survey \in Nat
  BY ScoreOfEligible DEF CandidatesOK, AnyCandidate
<1>2. \A x, y \in E : x # y => <<x, y>> \in R \/ <<y, x>> \in R
  BY PairOrder
<1>3. \A x, y, z \in E : <<x, y>> \in R /\ <<y, z>> \in R => <<x, z>> \in R
  <2>1. \A x, y, z \in E :
          PairBefore(r, x, y) /\ PairBefore(r, y, z) => PairBefore(r, x, z)
    BY PairOrder
  <2> QED
    BY <2>1
<1>4. IsFiniteSet(E)
  BY DEF CandidatesOK
<1> HIDE DEF R
<1>5. \E c \in E : \A d \in E \ {c} : <<c, d>> \in R
  BY <1>2, <1>3, <1>4, FirstOfFinite
<1>6. \E c \in E : \A d \in E \ {c} : PairBefore(r, c, d)
  BY <1>5 DEF R
<1>7. First(r, E) \in E /\ \A d \in E \ {First(r, E)} : PairBefore(r, First(r, E), d)
  BY <1>6 DEF First
<1>8. ASSUME NEW d \in E PROVE ~Below(Score(r, d), Score(r, First(r, E)))
  <2> DEFINE f == First(r, E)
  <2>1. CASE d = f
    BY <1>1, <2>1, BelowIsTotal
  <2>2. CASE d # f
    <3>1. Below(Score(r, f), Score(r, d)) \/ Equal(Score(r, f), Score(r, d))
      BY <1>7, <2>2 DEF PairBefore
    <3> QED
      BY <1>1, <1>7, <3>1, BelowIsTotal
  <2> QED
    BY <2>1, <2>2
<1> QED
  BY <1>7, <1>8

\* Select returns an eligible candidate if there is one, and unless it picks
\* at random, one whose score is within the margin of every other.
LEMMA SelectChooses ==
  ASSUME NEW r \in AnyRoute, NEW C, CandidatesOK(C)
  PROVE  /\ (\E c \in C : Eligible(c)) => Select(r, C) # {}
         /\ \A c \in Select(r, C) :
              /\ c \in C
              /\ Eligible(c)
              /\ r.algorithm # "random" =>
                   \A d \in C : Eligible(d) =>
                     ~Below(Plus(Score(r, d), Margin(r)), Score(r, c))
<1> DEFINE E == {c \in C : Eligible(c)}
           f == First(r, E)
           n == Margin(r)
<1>1. CandidatesOK(E)
  BY FS_Subset DEF CandidatesOK
<1>2. \A c \in E : Score(r, c) \in Fraction
  BY ScoreOfEligible DEF CandidatesOK
<1>3. n \in Nat /\ r.algorithm \in Algorithms /\ r.fuzzyThreshold \in Nat
  BY DEF AnyRoute, Margin
<1>4. ASSUME E # {}
      PROVE  f \in E /\ \A d \in E : ~Below(Score(r, d), Score(r, f))
  BY <1>1, <1>4, FirstIsLowest
<1>5. ASSUME E # {} PROVE ~Below(Plus(Score(r, f), n), Score(r, f))
  <2> DEFINE a == Score(r, f)[1]
             b == Score(r, f)[2]
  <2>1. a \in Nat /\ b \in Nat
    BY <1>2, <1>4, <1>5 DEF Fraction
  <2> HIDE DEF a, b
  <2>2. n * b \in Nat
    BY <1>3, <2>1
  <2>3. ~((a + n * b) * b < a * b)
    BY <1>3, <2>1, <2>2
  <2> QED
    BY <2>3 DEF Below, Plus, a, b
<1>6. CASE E = {}
  BY <1>6 DEF Select, Choose
<1>7. CASE E # {} /\ r.algorithm = "random"
  <2>1. Select(r, C) = E
    BY <1>7 DEF Select, Choose, Fuzzy
  <2> QED
    BY <1>7, <2>1
<1>8. CASE E # {} /\ r.algorithm # "random" /\ Fuzzy(r)
  <2>1. n = r.fuzzyThreshold /\ AtLeast(r.fuzzyThreshold, 0) = n
    BY <1>3, <1>8 DEF Margin, AtLeast
  <2>2. Select(r, C) = {c \in E : ~Below(Plus(Score(r, f), n), Score(r, c))}
    BY <1>8, <2>1 DEF Select, Choose, Window
  <2> HIDE DEF E, f, n
  <2>3. f \in Select(r, C)
    BY <1>4, <1>5, <1>8, <2>2
  <2>4. ASSUME NEW c \in Select(r, C), NEW d \in E
        PROVE  ~Below(Plus(Score(r, d), n), Score(r, c))
    BY <1>2, <1>3, <1>4, <1>8, <2>2, WindowGrows
  <2> QED
    BY <2>2, <2>3, <2>4 DEF E, n
<1>9. CASE E # {} /\ r.algorithm # "random" /\ ~Fuzzy(r)
  <2>1. Select(r, C) = {f} /\ n = 0
    BY <1>9 DEF Select, Choose, Margin
  <2> HIDE DEF E, f
  <2>2. ASSUME NEW d \in E PROVE ~Below(Plus(Score(r, d), 0), Score(r, f))
    <3>1. Score(r, d) \in Fraction /\ ~Below(Score(r, d), Score(r, f))
      BY <1>2, <1>4, <1>9
    <3> QED
      BY <3>1 DEF Below, Plus, Fraction
  <2>3. f \in E
    BY <1>4, <1>9
  <2> QED
    BY <2>1, <2>2, <2>3 DEF E
<1> QED
  BY <1>6, <1>7, <1>8, <1>9

-----------------------------------------------------------------------------
(***************************************************************************)
(* The inductive invariant.                                                *)
(***************************************************************************)
\* Responses are counted once, and samples lag behind.
CountsAgree ==
    \A s \in Surveys :
        /\ survey[s].open + survey[s].completed <= survey[s].full
        /\ survey[s].full <= arrivals
        /\ sample[s].completed <= survey[s].completed
        /\ sample[s].full <= survey[s].full

BalancingInv == TypeOK /\ CountsAgree /\ Balanced

-----------------------------------------------------------------------------
(***************************************************************************)
(* The pieces of Balanced.                                                 *)
(***************************************************************************)
W(u) == IF Weighted(route) THEN AtLeast(weight[u], 1) ELSE 1

Ahead(s) == IF CountsFull(route) THEN Sent(s).full - peak[s].full
            ELSE Sent(s).completed - peak[s].completed

Behind(t) == IF CountsFull(route) THEN survey[t].full ELSE survey[t].completed

Shown(s) == IF CountsFull(route) THEN sample[s].full ELSE sample[s].completed

\* s leads t by no more than it may.
InBalance(s, t) == Ahead(s) * W(t) <= (Behind(t) + Margin(route) * W(t)) * W(s)

Compared(s, t) ==
    route.algorithm # "random" /\ peak[s].full > 0 /\ t \notin passedOver

LEMMA BalancedByPairs ==
  Balanced <=> \A s, t \in Surveys : Compared(s, t) => InBalance(s, t)
  BY DEF Balanced, InBalance, Compared, Ahead, Behind, W, Margin

LEMMA Numbers ==
  ASSUME TypeOK, NEW s \in Surveys
  PROVE  /\ survey[s].open \in Nat /\ survey[s].completed \in Nat
         /\ survey[s].full \in Nat
         /\ sample[s].completed \in Nat /\ sample[s].full \in Nat
         /\ peak[s].completed \in Nat /\ peak[s].full \in Nat
         /\ weight[s] \in Nat
         /\ arrivals \in Nat
         /\ W(s) \in Nat \ {0} /\ Margin(route) \in Nat
         /\ Ahead(s) \in Int /\ Behind(s) \in Nat /\ Shown(s) \in Nat
         /\ Sent(s).completed \in Nat /\ Sent(s).full \in Nat
<1>1. /\ survey[s].open \in Nat /\ survey[s].completed \in Nat
      /\ survey[s].full \in Nat
      /\ sample[s].completed \in Nat /\ sample[s].full \in Nat
      /\ peak[s].completed \in Nat /\ peak[s].full \in Nat
      /\ arrivals \in Nat
  BY BalancingAssumption DEF TypeOK, Counts
<1>2. weight[s] \in Nat
  <2>1. weight[s] \in StoredWeights
    BY DEF TypeOK
  <2>2. StoredWeights \subseteq Nat
    BY BalancingAssumption DEF StoredWeights
  <2> QED
    BY <2>1, <2>2, BalancingAssumption
<1>3. Margin(route) \in Nat
  BY BalancingAssumption DEF TypeOK, Margin
<1>4. W(s) \in Nat \ {0}
  BY <1>2 DEF W, AtLeast
<1>5. Sent(s).completed \in Nat /\ Sent(s).full \in Nat
  BY <1>1 DEF Sent
<1>6. Ahead(s) \in Int /\ Behind(s) \in Nat /\ Shown(s) \in Nat
  BY <1>1, <1>5 DEF Ahead, Behind, Shown
<1> QED
  BY <1>1, <1>2, <1>3, <1>4, <1>5, <1>6

LEMMA LeadShrinks ==
  ASSUME NEW a \in Int, NEW a2 \in Int, NEW b \in Nat, NEW b2 \in Nat, NEW m \in Nat,
         NEW v \in Nat \ {0}, NEW w \in Nat \ {0},
         a2 <= a, b <= b2, a * v <= (b + m * v) * w
  PROVE  a2 * v <= (b2 + m * v) * w
<1>1. a2 * v <= a * v
  OBVIOUS
<1>2. m * v \in Nat
  OBVIOUS
<1>3. (b + m * v) * w <= (b2 + m * v) * w
  BY <1>2
<1> QED
  BY <1>1, <1>3

\* Steps that send nobody to a survey.
LEMMA NobodyArrives ==
  ASSUME BalancingInv, TypeOK', UNCHANGED <<route, weight, peak>>,
         passedOver \subseteq passedOver',
         \A s \in Surveys :
            /\ Sent(s)'.completed <= Sent(s).completed
            /\ Sent(s)'.full <= Sent(s).full
            /\ survey[s].completed <= survey'[s].completed
            /\ survey[s].full <= survey'[s].full
  PROVE  Balanced'
<1> SUFFICES ASSUME NEW s \in Surveys, NEW t \in Surveys, Compared(s, t)'
             PROVE  InBalance(s, t)'
  BY DEF Balanced, InBalance, Compared, Ahead, Behind, W, Margin
<1>1. InBalance(s, t)
  BY BalancedByPairs DEF BalancingInv, Compared
<1>2. /\ W(s)' = W(s) /\ W(t)' = W(t) /\ Margin(route)' = Margin(route)
      /\ W(s) \in Nat \ {0} /\ W(t) \in Nat \ {0} /\ Margin(route) \in Nat
      /\ Ahead(s) \in Int /\ Behind(t) \in Nat
  BY Numbers DEF BalancingInv, W
<1>3. /\ Ahead(s)' \in Int /\ Ahead(s)' <= Ahead(s)
  <2>1. /\ Sent(s).completed \in Nat /\ Sent(s).full \in Nat
        /\ peak[s].completed \in Nat /\ peak[s].full \in Nat
    BY Numbers DEF BalancingInv
  <2>2. Sent(s)'.completed \in Nat /\ Sent(s)'.full \in Nat
    BY BalancingAssumption DEF TypeOK, Counts, Sent
  <2> QED
    BY <2>1, <2>2 DEF Ahead
<1>4. Behind(t)' \in Nat /\ Behind(t) <= Behind(t)'
  <2>1. survey'[t].completed \in Nat /\ survey'[t].full \in Nat
    BY BalancingAssumption DEF TypeOK, Counts
  <2> QED
    BY <2>1 DEF Behind
<1> QED
  BY <1>1, <1>2, <1>3, <1>4, LeadShrinks DEF InBalance

-----------------------------------------------------------------------------
(***************************************************************************)
(* A respondent arrives.                                                   *)
(***************************************************************************)
LEMMA CandidateFacts ==
  ASSUME TypeOK
  PROVE  /\ route \in AnyRoute
         /\ CandidatesOK(Candidates)
         /\ \A s \in Surveys : Candidate(s) \in Candidates
         /\ \A c \in Candidates : c.survey \in Surveys /\ c = Candidate(c.survey)
<1>1. route \in AnyRoute
  BY BalancingAssumption DEF TypeOK, AnyRoute
<1>2. \A s \in Surveys : Candidate(s) \in AnyCandidate
  <2> SUFFICES ASSUME NEW s \in Surveys PROVE Candidate(s) \in AnyCandidate
    OBVIOUS
  <2>1. /\ sample[s].completed \in Nat /\ sample[s].full \in Nat
        /\ weight[s] \in Nat
    BY Numbers
  <2>2. sample[s].failed \in BOOLEAN /\ sample[s].active \in BOOLEAN /\ s \in Nat
    BY BalancingAssumption DEF TypeOK
  <2> QED
    BY <2>1, <2>2 DEF Candidate, AnyCandidate
<1>3. \A s \in Surveys : Candidate(s).survey = s
  BY DEF Candidate
<1>4. Candidates = {Candidate(s) : s \in Surveys}
  BY DEF Candidates
<1>5. IsFiniteSet(Candidates)
  <2> DEFINE f == [s \in Surveys |-> Candidate(s)]
  <2>1. f \in Surjection(Surveys, Candidates)
    BY <1>4 DEF Surjection
  <2> QED
    BY <2>1, BalancingAssumption, FS_Surjection
<1>6. \A c \in Candidates : c.survey \in Surveys /\ c = Candidate(c.survey)
  BY <1>3, <1>4
<1>7. Candidates \subseteq AnyCandidate
  BY <1>2, <1>4
<1>8. \A c, d \in Candidates : c.survey = d.survey => c = d
  BY <1>6
<1> QED
  BY <1>1, <1>4, <1>5, <1>6, <1>7, <1>8 DEF CandidatesOK

\* BuildCandidates leaves the pending assignments at zero.
LEMMA ScoreIsShown ==
  ASSUME TypeOK, NEW s \in Surveys, Eligible(Candidate(s)), route.algorithm # "random"
  PROVE  Score(route, Candidate(s)) = <<Shown(s), W(s)>>
<1>1. /\ sample[s].completed \in Nat /\ route.pendingWeight \in Nat
      /\ route.algorithm \in Algorithms
  BY Numbers, CandidateFacts DEF AnyRoute
<1>2. 0 * route.pendingWeight = 0
  BY <1>1
<1>3. EffectiveCompleted(route, Candidate(s)) = sample[s].completed
  BY <1>1, <1>2 DEF EffectiveCompleted, Candidate
<1>4. ~(CountsFull(route) /\ Weighted(route))
  BY DEF CountsFull, Weighted
<1>5. /\ Candidate(s).full = sample[s].full /\ Candidate(s).weight = weight[s]
  BY DEF Candidate
<1> QED
  BY <1>3, <1>4, <1>5 DEF Score, Shown, W

\* The survey that Select chooses for a respondent.
LEMMA ChosenSurvey ==
  ASSUME TypeOK, NEW c \in Select(route, Candidates)
  PROVE  /\ c.survey \in Surveys
         /\ c = Candidate(c.survey)
         /\ Eligible(c)
         /\ c.completed = sample[c.survey].completed
         /\ c.full = sample[c.survey].full
         /\ route.algorithm # "random" =>
              \A t \in Surveys : Eligible(Candidate(t)) =>
                Shown(c.survey) * W(t)
                  <= (Shown(t) + Margin(route) * W(t)) * W(c.survey)
<1> DEFINE s == c.survey
<1>1. /\ c \in Candidates /\ Eligible(c)
      /\ route.algorithm # "random" =>
           \A d \in Candidates : Eligible(d) =>
             ~Below(Plus(Score(route, d), Margin(route)), Score(route, c))
  BY CandidateFacts, SelectChooses
<1>2. s \in Surveys /\ c = Candidate(s)
  BY <1>1, CandidateFacts
<1> HIDE DEF s
<1>3. /\ c.completed = sample[s].completed /\ c.full = sample[s].full
  BY <1>2 DEF Candidate
<1>4. ASSUME route.algorithm # "random", NEW t \in Surveys, Eligible(Candidate(t))
      PROVE  Shown(s) * W(t) <= (Shown(t) + Margin(route) * W(t)) * W(s)
  <2>1. ~Below(Plus(<<Shown(t), W(t)>>, Margin(route)), <<Shown(s), W(s)>>)
    BY <1>1, <1>2, <1>4, CandidateFacts, ScoreIsShown
  <2>2. ~((Shown(t) + Margin(route) * W(t)) * W(s) < Shown(s) * W(t))
    BY <2>1 DEF Below, Plus
  <2>3. /\ Shown(s) \in Nat /\ Shown(t) \in Nat /\ Margin(route) \in Nat
        /\ W(s) \in Nat /\ W(t) \in Nat
    BY <1>2, Numbers
  <2>4. /\ Shown(s) * W(t) \in Nat
        /\ (Shown(t) + Margin(route) * W(t)) * W(s) \in Nat
    BY <2>3
  <2> QED
    BY <2>2, <2>4
<1> QED
  BY <1>1, <1>2, <1>3, <1>4 DEF s

\* What a respondent sent to s changes.
LEMMA Sending ==
  ASSUME TypeOK, CountsAgree, arrivals < MaxArrivals,
         NEW c \in Select(route, Candidates), NEW s, s = c.survey,
         survey' = [survey EXCEPT ![s].open = @ + 1, ![s].full = @ + 1],
         peak' = [peak EXCEPT ![s] =
                   [completed |-> AtLeast(Sent(s).completed + 1 - c.completed, @.completed),
                    full |-> AtLeast(Sent(s).full + 1 - c.full, @.full)]]
  PROVE  /\ s \in Surveys
         /\ \A u \in Surveys \ {s} : survey'[u] = survey[u] /\ peak'[u] = peak[u]
         /\ survey'[s].open = survey[s].open + 1
         /\ survey'[s].completed = survey[s].completed
         /\ survey'[s].full = survey[s].full + 1
         /\ survey'[s].active = survey[s].active
         /\ survey' \in [Surveys -> [open : Counts, completed : Counts, full : Counts,
                                     active : BOOLEAN]]
         /\ peak' \in [Surveys -> [completed : Counts, full : Counts]]
         /\ peak'[s].completed >= survey[s].completed + survey[s].open + 1 - c.completed
         /\ peak'[s].full >= survey[s].full + 1 - c.full
<1>1. s \in Surveys /\ c.completed = sample[s].completed /\ c.full = sample[s].full
  BY ChosenSurvey
<1>2. /\ survey[s] \in [open : Counts, completed : Counts, full : Counts,
                         active : BOOLEAN]
      /\ survey \in [Surveys -> [open : Counts, completed : Counts, full : Counts,
                                 active : BOOLEAN]]
      /\ peak \in [Surveys -> [completed : Counts, full : Counts]]
      /\ MaxArrivals \in Nat /\ arrivals \in Nat
  BY <1>1, Numbers, BalancingAssumption DEF TypeOK
<1>3. /\ survey[s].open \in Nat /\ survey[s].completed \in Nat /\ survey[s].full \in Nat
      /\ survey[s].open + survey[s].completed <= survey[s].full
      /\ survey[s].full + 1 <= MaxArrivals
      /\ c.completed \in Nat /\ c.completed <= survey[s].completed
      /\ c.full \in Nat /\ c.full <= survey[s].full
      /\ peak[s].completed \in Counts /\ peak[s].full \in Counts
  BY <1>1, <1>2, Numbers DEF CountsAgree, TypeOK
<1> DEFINE p == survey[s].completed + survey[s].open + 1 - c.completed
           q == survey[s].full + 1 - c.full
<1>4. p \in Counts /\ q \in Counts
  BY <1>2, <1>3 DEF Counts
<1>5. peak'[s] = [completed |-> AtLeast(p, peak[s].completed),
                  full |-> AtLeast(q, peak[s].full)]
  BY <1>1, <1>2 DEF Sent
<1> HIDE DEF p, q
<1>6. /\ AtLeast(p, peak[s].completed) \in Counts /\ AtLeast(q, peak[s].full) \in Counts
      /\ AtLeast(p, peak[s].completed) >= p /\ AtLeast(q, peak[s].full) >= q
  BY <1>2, <1>3, <1>4 DEF AtLeast, Counts
<1>7. /\ peak'[s].completed >= p /\ peak'[s].full >= q
      /\ peak'[s] \in [completed : Counts, full : Counts]
  BY <1>5, <1>6
<1>8. /\ \A u \in Surveys \ {s} : survey'[u] = survey[u] /\ peak'[u] = peak[u]
      /\ survey'[s].open = survey[s].open + 1
      /\ survey'[s].completed = survey[s].completed
      /\ survey'[s].full = survey[s].full + 1
      /\ survey'[s].active = survey[s].active
  BY <1>1, <1>2
<1>9. peak' \in [Surveys -> [completed : Counts, full : Counts]]
  BY <1>2, <1>7
<1>10. survey[s].open + 1 \in Counts /\ survey[s].full + 1 \in Counts
  BY <1>2, <1>3 DEF Counts
<1>11. survey' \in [Surveys -> [open : Counts, completed : Counts, full : Counts,
                                active : BOOLEAN]]
  BY <1>1, <1>2, <1>10
<1> QED
  BY <1>1, <1>7, <1>8, <1>9, <1>11 DEF p, q

\* The chosen survey is one whose sample leads no other by more than the margin,
\* so whatever else it is ahead by is what the sample did not show.
LEMMA ArriveStep ==
  ASSUME BalancingInv, Arrive
  PROVE  BalancingInv'
<1>1. TypeOK /\ CountsAgree /\ arrivals < MaxArrivals /\ arrivals' = arrivals + 1
  BY DEF BalancingInv, Arrive
<1>2. /\ UNCHANGED <<route, weight, sample>>
      /\ passedOver \subseteq passedOver' /\ passedOver' \in SUBSET Surveys
      /\ \A t \in Surveys : t \notin passedOver' => Eligible(Candidate(t))
  BY <1>1 DEF Arrive, TypeOK
<1>3. arrivals \in Nat /\ MaxArrivals \in Nat /\ arrivals' \in Counts
  BY <1>1, BalancingAssumption DEF TypeOK, Counts
<1>4. /\ route' \in Routes
      /\ weight' \in [Surveys -> StoredWeights']
      /\ sample' \in [Surveys -> [failed : BOOLEAN, completed : Counts,
                                  full : Counts, active : BOOLEAN]]
  BY <1>1, <1>2 DEF TypeOK, StoredWeights
<1>5. CASE UNCHANGED <<survey, peak>>
  <2>1. TypeOK'
    BY <1>1, <1>2, <1>3, <1>4, <1>5 DEF TypeOK
  <2>2. CountsAgree'
    <3> SUFFICES ASSUME NEW s \in Surveys
                 PROVE  /\ survey[s].open + survey[s].completed <= survey[s].full
                        /\ survey[s].full <= arrivals'
                        /\ sample[s].completed <= survey[s].completed
                        /\ sample[s].full <= survey[s].full
      BY <1>2, <1>5 DEF CountsAgree
    <3> QED
      BY <1>1, <1>3, Numbers DEF CountsAgree
  <2>3. \A s \in Surveys :
            /\ Sent(s)'.completed <= Sent(s).completed
            /\ Sent(s)'.full <= Sent(s).full
            /\ survey[s].completed <= survey'[s].completed
            /\ survey[s].full <= survey'[s].full
    <3> SUFFICES ASSUME NEW s \in Surveys
                 PROVE  /\ Sent(s).completed <= Sent(s).completed
                        /\ Sent(s).full <= Sent(s).full
                        /\ survey[s].completed <= survey[s].completed
                        /\ survey[s].full <= survey[s].full
      BY <1>5 DEF Sent
    <3> QED
      BY <1>1, Numbers
  <2> QED
    BY <1>2, <1>5, <2>1, <2>2, <2>3, NobodyArrives DEF BalancingInv
<1>6. ASSUME NEW c \in Select(route, Candidates), NEW s, s = c.survey,
             survey' = [survey EXCEPT ![s].open = @ + 1, ![s].full = @ + 1],
             peak' = [peak EXCEPT ![s] =
                 [completed |-> AtLeast(Sent(s).completed + 1 - c.completed, @.completed),
                  full |-> AtLeast(Sent(s).full + 1 - c.full, @.full)]]
      PROVE  BalancingInv'
  <2>1. /\ s \in Surveys
        /\ \A u \in Surveys \ {s} : survey'[u] = survey[u] /\ peak'[u] = peak[u]
        /\ survey'[s].open = survey[s].open + 1
        /\ survey'[s].completed = survey[s].completed
        /\ survey'[s].full = survey[s].full + 1
        /\ peak'[s].completed >= survey[s].completed + survey[s].open + 1 - c.completed
        /\ peak'[s].full >= survey[s].full + 1 - c.full
        /\ survey' \in [Surveys -> [open : Counts, completed : Counts, full : Counts,
                                    active : BOOLEAN]]
        /\ peak' \in [Surveys -> [completed : Counts, full : Counts]]
    BY <1>1, <1>6, Sending
  <2>2. peak'[s].completed \in Nat /\ peak'[s].full \in Nat
    <3>1. peak'[s].completed \in Counts /\ peak'[s].full \in Counts
      BY <2>1
    <3> QED
      BY <3>1, <1>3 DEF Counts
  <2>3. TypeOK'
    BY <1>2, <1>3, <1>4, <2>1 DEF TypeOK
  <2>4. /\ c.completed = sample[s].completed /\ c.full = sample[s].full
        /\ route.algorithm # "random" =>
             \A t \in Surveys : Eligible(Candidate(t)) =>
               Shown(s) * W(t) <= (Shown(t) + Margin(route) * W(t)) * W(s)
    BY <1>1, <1>6, ChosenSurvey
  <2>5. CountsAgree'
    <3> SUFFICES ASSUME NEW u \in Surveys
                 PROVE  /\ survey'[u].open + survey'[u].completed <= survey'[u].full
                        /\ survey'[u].full <= arrivals'
                        /\ sample[u].completed <= survey'[u].completed
                        /\ sample[u].full <= survey'[u].full
      BY <1>2 DEF CountsAgree
    <3>1. /\ survey[u].open \in Nat /\ survey[u].completed \in Nat
          /\ survey[u].full \in Nat
          /\ sample[u].completed \in Nat /\ sample[u].full \in Nat
          /\ survey[u].open + survey[u].completed <= survey[u].full
          /\ survey[u].full <= arrivals
          /\ sample[u].completed <= survey[u].completed
          /\ sample[u].full <= survey[u].full
      BY <1>1, Numbers DEF CountsAgree
    <3>2. CASE u = s
      BY <1>1, <1>3, <2>1, <3>1, <3>2
    <3>3. CASE u # s
      BY <1>1, <1>3, <2>1, <3>1, <3>3
    <3> QED
      BY <3>2, <3>3
  <2>6. Balanced'
    <3> SUFFICES ASSUME NEW u \in Surveys, NEW t \in Surveys, Compared(u, t)'
                 PROVE  InBalance(u, t)'
      BY DEF Balanced, InBalance, Compared, Ahead, Behind, W, Margin
    <3>1. /\ W(u)' = W(u) /\ W(t)' = W(t) /\ Margin(route)' = Margin(route)
          /\ W(u) \in Nat \ {0} /\ W(t) \in Nat \ {0} /\ Margin(route) \in Nat
          /\ Ahead(u) \in Int /\ Behind(t) \in Nat
          /\ Shown(u) \in Nat /\ Shown(t) \in Nat
      BY <1>1, <1>2, Numbers DEF W
    <3>2. /\ route.algorithm # "random" /\ t \notin passedOver'
          /\ t \notin passedOver /\ Eligible(Candidate(t))
      BY <1>2 DEF Compared
    <3>3. Behind(t)' \in Nat /\ Behind(t) <= Behind(t)'
      <4>1. /\ survey[t].completed \in Nat /\ survey[t].full \in Nat
        BY <1>1, Numbers
      <4>2. /\ survey'[t].completed \in Nat /\ survey'[t].full \in Nat
            /\ survey[t].completed <= survey'[t].completed
            /\ survey[t].full <= survey'[t].full
        BY <2>1, <4>1
      <4> QED
        BY <1>2, <4>2 DEF Behind
    <3>4. Shown(t) <= Behind(t)
      BY <1>1 DEF CountsAgree, Shown, Behind
    <3>5. CASE u = s
      <4>1. /\ survey[s].open \in Nat /\ survey[s].completed \in Nat
            /\ survey[s].full \in Nat
            /\ sample[s].completed \in Nat /\ sample[s].full \in Nat
        BY <1>1, <2>1, Numbers
      <4>2. peak'[s].completed \in Nat /\ peak'[s].full \in Nat
        BY <2>2
      <4>3. Sent(s)' = [completed |-> survey[s].completed + (survey[s].open + 1),
                        full |-> survey[s].full + 1]
        BY <2>1 DEF Sent
      <4>4. /\ Sent(s)'.completed - peak'[s].completed <= sample[s].completed
            /\ Sent(s)'.full - peak'[s].full <= sample[s].full
            /\ Sent(s)'.completed - peak'[s].completed \in Int
            /\ Sent(s)'.full - peak'[s].full \in Int
        BY <2>1, <2>4, <4>1, <4>2, <4>3
      <4>5. Ahead(s)' \in Int /\ Ahead(s)' <= Shown(s)
        BY <1>2, <4>4 DEF Ahead, Shown
      <4>6. Shown(s) * W(t) <= (Shown(t) + Margin(route) * W(t)) * W(s)
        BY <2>4, <3>2
      <4>7. Shown(t) <= Behind(t)'
        BY <3>1, <3>3, <3>4
      <4>8. Ahead(s)' * W(t) <= (Behind(t)' + Margin(route) * W(t)) * W(s)
        BY <3>1, <3>3, <3>5, <4>5, <4>6, <4>7, LeadShrinks
      <4> QED
        BY <3>1, <3>5, <4>8 DEF InBalance
    <3>6. CASE u # s
      <4>1. peak'[u] = peak[u] /\ survey'[u] = survey[u]
        BY <2>1, <3>6
      <4>2. Compared(u, t)
        BY <1>2, <4>1 DEF Compared
      <4>3. InBalance(u, t)
        BY <4>2, BalancedByPairs DEF BalancingInv
      <4>4. Ahead(u)' = Ahead(u)
        BY <1>2, <4>1 DEF Ahead, Sent
      <4>5. Ahead(u) * W(t) <= (Behind(t)' + Margin(route) * W(t)) * W(u)
        BY <3>1, <3>3, <4>3, LeadShrinks DEF InBalance
      <4> QED
        BY <3>1, <4>4, <4>5 DEF InBalance
    <3> QED
      BY <3>5, <3>6
  <2> QED
    BY <2>3, <2>5, <2>6 DEF BalancingInv
<1> QED
  BY <1>5, <1>6 DEF Arrive

-----------------------------------------------------------------------------
(***************************************************************************)
(* Respondents leave, surveys are switched, samples come and go.           *)
(***************************************************************************)
LEMMA SubmitStep ==
  ASSUME BalancingInv, NEW s \in Surveys, Submit(s)
  PROVE  BalancingInv'
<1>1. /\ TypeOK /\ CountsAgree
      /\ UNCHANGED <<route, weight, sample, arrivals, peak, passedOver>>
      /\ survey[s].open > 0
      /\ survey' = [survey EXCEPT ![s].open = @ - 1, ![s].completed = @ + 1]
  BY DEF BalancingInv, Submit
<1>2. \A u \in Surveys :
        /\ survey[u].open \in Nat /\ survey[u].completed \in Nat
        /\ survey[u].full \in Nat
        /\ sample[u].completed \in Nat /\ sample[u].full \in Nat
        /\ survey[u].open + survey[u].completed <= survey[u].full
        /\ survey[u].full <= arrivals
        /\ sample[u].completed <= survey[u].completed
        /\ sample[u].full <= survey[u].full
  BY <1>1, Numbers DEF CountsAgree
<1>3. survey \in [Surveys -> [open : Counts, completed : Counts, full : Counts,
                              active : BOOLEAN]]
  BY <1>1 DEF TypeOK
<1>4. /\ survey'[s].open = survey[s].open - 1
      /\ survey'[s].completed = survey[s].completed + 1
      /\ survey'[s].full = survey[s].full
      /\ \A u \in Surveys \ {s} : survey'[u] = survey[u]
  BY <1>1, <1>3
<1>5. survey[s].open - 1 \in Counts /\ survey[s].completed + 1 \in Counts
  <2>1. survey[s].full \in Counts
    BY <1>3
  <2> QED
    BY <1>1, <1>2, <2>1, BalancingAssumption DEF Counts
<1>6. TypeOK'
  BY <1>1, <1>3, <1>5 DEF TypeOK, StoredWeights
<1>7. CountsAgree'
  <2> SUFFICES ASSUME NEW u \in Surveys
               PROVE  /\ survey'[u].open + survey'[u].completed <= survey'[u].full
                      /\ survey'[u].full <= arrivals
                      /\ sample[u].completed <= survey'[u].completed
                      /\ sample[u].full <= survey'[u].full
    BY <1>1 DEF CountsAgree
  <2>1. CASE u = s
    BY <1>1, <1>2, <1>4, <2>1
  <2>2. CASE u # s
    BY <1>2, <1>4, <2>2
  <2> QED
    BY <2>1, <2>2
<1>8. \A u \in Surveys :
        /\ Sent(u)'.completed <= Sent(u).completed
        /\ Sent(u)'.full <= Sent(u).full
        /\ survey[u].completed <= survey'[u].completed
        /\ survey[u].full <= survey'[u].full
  <2> SUFFICES ASSUME NEW u \in Surveys
               PROVE  /\ survey'[u].completed + survey'[u].open
                           <= survey[u].completed + survey[u].open
                      /\ survey'[u].full <= survey[u].full
                      /\ survey[u].completed <= survey'[u].completed
                      /\ survey[u].full <= survey'[u].full
    BY DEF Sent
  <2>1. CASE u = s
    BY <1>1, <1>2, <1>4, <2>1
  <2>2. CASE u # s
    BY <1>2, <1>4, <2>2
  <2> QED
    BY <2>1, <2>2
<1> QED
  BY <1>1, <1>6, <1>7, <1>8, NobodyArrives DEF BalancingInv

LEMMA AbandonStep ==
  ASSUME BalancingInv, NEW s \in Surveys, Abandon(s)
  PROVE  BalancingInv'
<1>1. /\ TypeOK /\ CountsAgree
      /\ UNCHANGED <<route, weight, sample, arrivals, peak, passedOver>>
      /\ survey[s].open > 0
      /\ survey' = [survey EXCEPT ![s].open = @ - 1]
  BY DEF BalancingInv, Abandon
<1>2. \A u \in Surveys :
        /\ survey[u].open \in Nat /\ survey[u].completed \in Nat
        /\ survey[u].full \in Nat
        /\ sample[u].completed \in Nat /\ sample[u].full \in Nat
        /\ survey[u].open + survey[u].completed <= survey[u].full
        /\ survey[u].full <= arrivals
        /\ sample[u].completed <= survey[u].completed
        /\ sample[u].full <= survey[u].full
  BY <1>1, Numbers DEF CountsAgree
<1>3. survey \in [Surveys -> [open : Counts, completed : Counts, full : Counts,
                              active : BOOLEAN]]
  BY <1>1 DEF TypeOK
<1>4. /\ survey'[s].open = survey[s].open - 1
      /\ survey'[s].completed = survey[s].completed
      /\ survey'[s].full = survey[s].full
      /\ \A u \in Surveys \ {s} : survey'[u] = survey[u]
  BY <1>1, <1>3
<1>5. survey[s].open - 1 \in Counts
  <2>1. survey[s].open \in Counts
    BY <1>3
  <2> QED
    BY <1>1, <2>1, BalancingAssumption DEF Counts
<1>6. TypeOK'
  BY <1>1, <1>3, <1>5 DEF TypeOK, StoredWeights
<1>7. CountsAgree'
  <2> SUFFICES ASSUME NEW u \in Surveys
               PROVE  /\ survey'[u].open + survey'[u].completed <= survey'[u].full
                      /\ survey'[u].full <= arrivals
                      /\ sample[u].completed <= survey'[u].completed
                      /\ sample[u].full <= survey'[u].full
    BY <1>1 DEF CountsAgree
  <2> QED
    BY <1>1, <1>2, <1>4
<1>8. \A u \in Surveys :
        /\ Sent(u)'.completed <= Sent(u).completed
        /\ Sent(u)'.full <= Sent(u).full
        /\ survey[u].completed <= survey'[u].completed
        /\ survey[u].full <= survey'[u].full
  BY <1>1, <1>2, <1>4 DEF Sent
<1> QED
  BY <1>1, <1>6, <1>7, <1>8, NobodyArrives DEF BalancingInv

\* Switching a survey, and samples that are taken or lost, change no count.
LEMMA QuietStep ==
  ASSUME BalancingInv,
         \/ UNCHANGED vars
         \/ \E s \in Surveys : Switch(s) \/ Refresh(s) \/ LoseSample(s)
  PROVE  BalancingInv'
<1>1. /\ TypeOK /\ CountsAgree
      /\ UNCHANGED <<route, weight, arrivals, peak, passedOver>>
  BY DEF BalancingInv, vars, Switch, Refresh, LoseSample
<1>2. \A u \in Surveys :
        /\ survey[u].open \in Nat /\ survey[u].completed \in Nat
        /\ survey[u].full \in Nat
        /\ sample[u].completed \in Nat /\ sample[u].full \in Nat
        /\ survey[u].open + survey[u].completed <= survey[u].full
        /\ survey[u].full <= arrivals
        /\ sample[u].completed <= survey[u].completed
        /\ sample[u].full <= survey[u].full
  BY <1>1, Numbers DEF CountsAgree
<1>3. /\ survey \in [Surveys -> [open : Counts, completed : Counts, full : Counts,
                                 active : BOOLEAN]]
      /\ sample \in [Surveys -> [failed : BOOLEAN, completed : Counts,
                                 full : Counts, active : BOOLEAN]]
  BY <1>1 DEF TypeOK
<1>4. /\ survey' \in [Surveys -> [open : Counts, completed : Counts, full : Counts,
                                  active : BOOLEAN]]
      /\ \A u \in Surveys :
           /\ survey'[u].open = survey[u].open
           /\ survey'[u].completed = survey[u].completed
           /\ survey'[u].full = survey[u].full
  <2>1. CASE UNCHANGED survey
    BY <1>3, <2>1
  <2>2. ASSUME NEW s \in Surveys, Switch(s)
        PROVE  <1>4!:
    BY <1>3, <2>2 DEF Switch
  <2> QED
    BY <2>1, <2>2 DEF vars, Refresh, LoseSample
<1>5. /\ sample' \in [Surveys -> [failed : BOOLEAN, completed : Counts,
                                  full : Counts, active : BOOLEAN]]
      /\ \A u \in Surveys :
           /\ sample'[u].completed <= survey[u].completed
           /\ sample'[u].full <= survey[u].full
  <2>1. CASE UNCHANGED sample
    BY <1>2, <1>3, <2>1
  <2>2. ASSUME NEW s \in Surveys, Refresh(s)
        PROVE  <1>5!:
    <3>1. /\ sample' = [sample EXCEPT ![s] = Seen(s)]
          /\ Seen(s) \in [failed : BOOLEAN, completed : Counts,
                          full : Counts, active : BOOLEAN]
          /\ Seen(s).completed = survey[s].completed /\ Seen(s).full = survey[s].full
      BY <1>3, <2>2 DEF Refresh, Seen
    <3> QED
      BY <1>2, <1>3, <3>1
  <2>3. ASSUME NEW s \in Surveys, LoseSample(s)
        PROVE  <1>5!:
    <3>1. /\ sample' = [sample EXCEPT ![s] = Unseen]
          /\ Unseen \in [failed : BOOLEAN, completed : Counts,
                         full : Counts, active : BOOLEAN]
          /\ Unseen.completed = 0 /\ Unseen.full = 0
      BY <2>3, BalancingAssumption DEF LoseSample, Unseen, Counts
    <3> QED
      BY <1>2, <1>3, <3>1
  <2> QED
    BY <2>1, <2>2, <2>3 DEF vars, Switch
<1>6. TypeOK'
  BY <1>1, <1>4, <1>5 DEF TypeOK, StoredWeights
<1>7. CountsAgree'
  BY <1>1, <1>2, <1>4, <1>5 DEF CountsAgree
<1>8. \A u \in Surveys :
        /\ Sent(u)'.completed <= Sent(u).completed
        /\ Sent(u)'.full <= Sent(u).full
        /\ survey[u].completed <= survey'[u].completed
        /\ survey[u].full <= survey'[u].full
  BY <1>2, <1>4 DEF Sent
<1> QED
  BY <1>1, <1>6, <1>7, <1>8, NobodyArrives DEF BalancingInv

-----------------------------------------------------------------------------
LEMMA BalancingInvariant == Spec => []BalancingInv
<1>1. Init => BalancingInv
  <2> SUFFICES ASSUME Init PROVE BalancingInv
    OBVIOUS
  <2>1. 0 \in Counts /\ MaxArrivals \in Nat
    BY BalancingAssumption DEF Counts
  <2>2. \A s \in Surveys :
          /\ survey[s] = [open |-> 0, completed |-> 0, full |-> 0, active |-> TRUE]
          /\ sample[s] = Unseen
          /\ peak[s] = [completed |-> 0, full |-> 0]
    BY DEF Init
  <2>3. TypeOK
    BY <2>1 DEF Init, TypeOK, Unseen
  <2>4. CountsAgree
    BY <2>2 DEF Init, CountsAgree, Unseen
  <2>5. \A s \in Surveys : ~(peak[s].full > 0)
    BY <2>2
  <2>6. Balanced
    BY <2>5 DEF Balanced
  <2> QED
    BY <2>3, <2>4, <2>6 DEF BalancingInv
<1>2. BalancingInv /\ [Next]_vars => BalancingInv'
  BY ArriveStep, SubmitStep, AbandonStep, QuietStep DEF Next
<1> QED
  BY <1>1, <1>2, PTL DEF Spec

\* No respondent is counted twice and no difference of counts is negative, so
\* every count stays between zero and the number of respondents.
THEOREM BalancingTypeCorrect == Spec => []TypeOK
<1>1. BalancingInv => TypeOK
  BY DEF BalancingInv
<1> QED
  BY <1>1, BalancingInvariant, PTL

\* The algorithms of routing.go keep the surveys in balance: a survey leads one
\* that was eligible at every arrival by no more than the fuzzy threshold and
\* the respondents its own sample had not shown, however the samples lag, are
\* lost, and come back (Select, choose).
THEOREM BalanceHolds == Spec => []Balanced
<1>1. BalancingInv => Balanced
  BY DEF BalancingInv
<1> QED
  BY <1>1, BalancingInvariant, PTL

=============================================================================
