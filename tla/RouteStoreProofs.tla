-------------------------- MODULE RouteStoreProofs --------------------------
(***************************************************************************)
(* The route tables keep what the last save of each route said, and what   *)
(* handlers write late never crosses from one route or survey to another,  *)
(* for any number of routes, requests and editors.                         *)
(***************************************************************************)
EXTENDS RouteStore, OrderLemmas, FiniteSetTheorems, TLAPS

-----------------------------------------------------------------------------
(***************************************************************************)
(* The inductive invariant.                                                *)
(***************************************************************************)
\* What a handler holds by the time it uses it: a row that was read, and
\* targets of its route that were read. If rows with the ids of those targets
\* are still there, they are the same rows. As long as the targets are not
\* read, those in the table are fit to be read.
HandlerOK(v) ==
    /\ v.pc \in {"located", "counting", "deciding"} =>
         /\ v.route \in RouteIds
         /\ v.route <= lastRoute
         /\ v.row \in Inputs
         /\ v.since <= lastTarget
    /\ v.pc = "located" => Agree(v, TargetsOf(v.route))
    /\ v.pc \in {"counting", "deciding"} =>
         /\ v.left \subseteq v.targets
         /\ Agree(v, v.targets)
         /\ \A t \in v.targets :
              /\ t.route = v.route
              /\ t.id <= lastTarget
              /\ \A u \in targets : u.id = t.id => u = t
    /\ v.pc = "deciding" => v.chosen \in v.targets \cup {Null}

HandlersOK == \A q \in Requests : HandlerOK(request[q])

EditsOK ==
    \A e \in Editors :
        /\ edit[e].pc = "posted" => edit[e].op = "create"
        /\ edit[e].pc \in {"loaded", "checked"} /\ edit[e].op # "create" =>
             edit[e].route \in RouteIds
        /\ edit[e].pc = "checked" => edit[e].input \in Inputs

\* Ids are given out in order and once: nothing refers to an id that is yet
\* to be given out.
IdsGivenOut ==
    /\ \A r \in RouteIds : Live(r) => r <= lastRoute
    /\ \A t \in targets : t.route <= lastRoute /\ t.id <= lastTarget
    /\ \A t, u \in targets : t.id = u.id => t = u
    /\ \A s \in stats : s.target <= lastTarget
    /\ \A q \in Requests :
         decisions[q] # Null /\ decisions[q].target # Null =>
             decisions[q].target <= lastTarget

StoreInv ==
    /\ TypeOK
    /\ EditsOK
    /\ HandlersOK
    /\ IdsGivenOut
    /\ SlugsUnique
    /\ TargetsAsSaved
    /\ IdsNameTheirSurvey

-----------------------------------------------------------------------------
(***************************************************************************)
(* The rows that a save inserts.                                           *)
(***************************************************************************)
\* The position of a survey in the order of a form.
LEMMA Rank ==
  ASSUME NEW surveys \in SUBSET Nat, IsFiniteSet(surveys), NEW x \in surveys
  PROVE  /\ Cardinality({s \in surveys : s <= x}) \in 1..Cardinality(surveys)
         /\ \A y \in surveys : x < y =>
              Cardinality({s \in surveys : s <= x})
                < Cardinality({s \in surveys : s <= y})
<1> DEFINE Below(y) == {s \in surveys : s <= y}
<1>1. \A y \in surveys : IsFiniteSet(Below(y))
  BY FS_Subset
<1>2. Cardinality(surveys) \in Nat /\ Cardinality(Below(x)) \in Nat
  BY <1>1, FS_CardinalityType
<1>3. Cardinality(Below(x)) <= Cardinality(surveys)
  BY FS_Subset
<1>4. Cardinality(Below(x)) # 0
  <2>1. x \in Below(x)
    OBVIOUS
  <2> QED
    BY <1>1, <2>1, FS_EmptySet
<1>5. ASSUME NEW y \in surveys, x < y
      PROVE  Cardinality(Below(x)) < Cardinality(Below(y))
  <2>1. Below(x) \subseteq Below(y)
    <3> SUFFICES ASSUME NEW s \in surveys, s <= x PROVE s <= y
      OBVIOUS
    <3>1. s \in Nat /\ x \in Nat /\ y \in Nat
      OBVIOUS
    <3> QED
      BY <1>5, <3>1
  <2>2. y \in Below(y) /\ y \notin Below(x)
    BY <1>5
  <2>3. Cardinality(Below(x)) <= Cardinality(Below(y))
    BY <1>1, <2>1, FS_Subset
  <2>4. Cardinality(Below(x)) # Cardinality(Below(y))
    BY <1>1, <2>1, <2>2, FS_Subset
  <2>5. Cardinality(Below(y)) \in Nat
    BY <1>1, FS_CardinalityType
  <2> QED
    BY <1>2, <2>3, <2>4, <2>5
<1> QED
  BY <1>2, <1>3, <1>4, <1>5

\* One target per survey, under ids that follow the last one given out.
LEMMA NewTargetsFacts ==
  ASSUME NEW r \in RouteIds, NEW input \in Inputs, NEW last \in Nat
  PROVE  LET new == NewTargets(r, input.surveys, last) IN
         /\ Cardinality(input.surveys) \in Nat
         /\ input.surveys # {}
         /\ new \subseteq Target
         /\ \A t \in new : /\ t.route = r
                           /\ last < t.id
                           /\ t.id <= last + Cardinality(input.surveys)
         /\ \A t, u \in new : t.id = u.id => t = u
         /\ {t.survey : t \in new} = input.surveys
         /\ Cardinality(new) = Cardinality(input.surveys)
<1> DEFINE surveys == input.surveys
           Pos(x) == Cardinality({s \in surveys : s <= x})
           Row(x) == [id |-> last + Pos(x), route |-> r, survey |-> x]
           new == NewTargets(r, surveys, last)
<1>1. surveys \in SUBSET Nat /\ surveys \subseteq Surveys /\ surveys # {}
      /\ IsFiniteSet(surveys)
  BY InputsAssumption, IdsAssumption
<1>2. Cardinality(surveys) \in Nat
  BY <1>1, FS_CardinalityType
<1>3. \A x \in surveys : /\ Pos(x) \in 1..Cardinality(surveys)
                         /\ \A y \in surveys : x < y => Pos(x) < Pos(y)
  BY <1>1, Rank
<1>4. new = {Row(x) : x \in surveys}
  BY DEF NewTargets
<1> HIDE DEF Pos, new
<1>5. \A x \in surveys : Row(x) \in Target
  BY <1>1, <1>2, <1>3 DEF Target
<1>6. new \subseteq Target
  BY <1>4, <1>5
<1>7. \A x \in surveys : /\ Row(x).route = r
                         /\ last < Row(x).id
                         /\ Row(x).id <= last + Cardinality(surveys)
  BY <1>2, <1>3
<1>8. \A t \in new : /\ t.route = r
                     /\ last < t.id
                     /\ t.id <= last + Cardinality(surveys)
  BY <1>4, <1>7
<1>9. \A x, y \in surveys : Row(x).id = Row(y).id => x = y
  BY <1>1, <1>2, <1>3
<1>10. \A t, u \in new : t.id = u.id => t = u
  BY <1>4, <1>9
<1>11. {t.survey : t \in new} = surveys
  <2>1. \A x \in surveys : Row(x).survey = x
    OBVIOUS
  <2> HIDE DEF Row
  <2> QED
    BY <1>4, <2>1
<1>12. Cardinality(new) = Cardinality(surveys)
  <2> DEFINE f == [x \in surveys |-> Row(x)]
  <2>1. f \in Bijection(surveys, new)
    <3>1. f \in [surveys -> new]
      BY <1>4
    <3>2. \A x, y \in surveys : f[x] = f[y] => x = y
      BY <1>9
    <3>3. \A t \in new : \E x \in surveys : f[x] = t
      BY <1>4
    <3> QED
      <4> HIDE DEF f, Row
      <4>1. f \in Injection(surveys, new)
        BY <3>1, <3>2 DEF Injection, IsInjective
      <4>2. f \in Surjection(surveys, new)
        BY <3>1, <3>3 DEF Surjection
      <4> QED
        BY <4>1, <4>2 DEF Bijection
  <2>2. ExistsBijection(surveys, new)
    BY <2>1 DEF ExistsBijection
  <2> QED
    BY <1>1, <2>2, FS_Bijection
<1> QED
  BY <1>1, <1>2, <1>6, <1>8, <1>10, <1>11, <1>12 DEF new

-----------------------------------------------------------------------------
(***************************************************************************)
(* What each group of actions preserves.                                   *)
(***************************************************************************)
LEMMA StoreInit == Init => StoreInv
<1> SUFFICES ASSUME Init PROVE StoreInv
  OBVIOUS
<1> PICK input \in Inputs :
      /\ routes = [r \in RouteIds |-> IF r = 1 THEN input ELSE Null]
      /\ targets = NewTargets(1, input.surveys, 0)
      /\ lastRoute = 1
      /\ lastTarget = Cardinality(input.surveys)
  BY DEF Init
<1>1. /\ stats = {} /\ decisions = [q \in Requests |-> Null] /\ mixed = FALSE
      /\ request = [q \in Requests |->
            [pc |-> "arriving", simulation |-> FALSE, route |-> Null,
             row |-> Null, since |-> 0, targets |-> {}, left |-> {},
             chosen |-> Null]]
      /\ edit = [e \in Editors |->
            [pc |-> "posted", op |-> "create", route |-> Null, input |-> Null]]
  BY DEF Init
<1> DEFINE new == NewTargets(1, input.surveys, 0)
<1>2. /\ Cardinality(input.surveys) \in Nat
      /\ new \subseteq Target
      /\ \A t \in new : t.route = 1 /\ t.id <= Cardinality(input.surveys)
      /\ \A t, u \in new : t.id = u.id => t = u
      /\ {t.survey : t \in new} = input.surveys
      /\ Cardinality(new) = Cardinality(input.surveys)
  BY IdsAssumption, NewTargetsFacts
<1> HIDE DEF new
<1>3. \A r \in RouteIds : Live(r) => r = 1
  BY DEF Live
<1>4. TypeOK
  <2>1. request \in [Requests -> Request]
    BY <1>1 DEF Request
  <2>2. edit \in [Editors -> Edit]
    BY <1>1 DEF Edit
  <2>3. routes \in [RouteIds -> Inputs \cup {Null}]
    OBVIOUS
  <2> QED
    BY <1>1, <1>2, <2>1, <2>2, <2>3 DEF TypeOK, new
<1>5. IdsGivenOut
  BY <1>1, <1>2, <1>3 DEF IdsGivenOut, new
<1>6. HandlersOK /\ EditsOK /\ IdsNameTheirSurvey
  BY <1>1 DEF HandlersOK, HandlerOK, EditsOK, IdsNameTheirSurvey
<1>7. SlugsUnique
  BY <1>3 DEF SlugsUnique
<1>8. TargetsAsSaved
  <2>1. TargetsOf(1) = targets
    BY <1>2 DEF TargetsOf, new
  <2>2. routes[1] = input
    BY IdsAssumption
  <2> QED
    BY <1>2, <1>3, <2>1, <2>2 DEF TargetsAsSaved, new
<1> QED
  BY <1>4, <1>5, <1>6, <1>7, <1>8 DEF StoreInv

\* A handler that writes no table.
LEMMA TablesUnchanged ==
  ASSUME StoreInv, UNCHANGED tables
  PROVE  IdsGivenOut' /\ SlugsUnique' /\ TargetsAsSaved' /\ IdsNameTheirSurvey'
<1>1. IdsGivenOut'
  BY DEF StoreInv, IdsGivenOut, Live, tables
<1>2. SlugsUnique'
  BY DEF StoreInv, SlugsUnique, Live, tables
<1>3. TargetsAsSaved'
  BY DEF StoreInv, TargetsAsSaved, Live, TargetsOf, tables
<1>4. IdsNameTheirSurvey'
  BY DEF StoreInv, IdsNameTheirSurvey, tables
<1> QED
  BY <1>1, <1>2, <1>3, <1>4

\* Saves and deletions under the feet of the handlers: ids go up, and no
\* deleted route comes back.
LEMMA TablesAdvance ==
  ASSUME StoreInv, UNCHANGED request,
         lastRoute' \in Nat, lastRoute <= lastRoute',
         lastTarget' \in Nat, lastTarget <= lastTarget',
         \A t \in targets' : t \in targets \/ (t \in Target /\ lastTarget < t.id),
         \A r \in RouteIds : r <= lastRoute /\ Live(r)' => Live(r),
         \A r \in RouteIds : r <= lastRoute =>
            \/ TargetsOf(r)' = TargetsOf(r)
            \/ TargetsOf(r)' = {} /\ ~Live(r)'
            \/ TargetsOf(r)' # {} /\ \A t \in TargetsOf(r)' : lastTarget < t.id
  PROVE  HandlersOK'
<1> SUFFICES ASSUME NEW q \in Requests PROVE HandlerOK(request[q])'
  BY DEF HandlersOK
<1> DEFINE v == request[q]
<1>1. v \in Request /\ HandlerOK(v)
  BY DEF StoreInv, TypeOK, HandlersOK
<1>2. lastRoute \in Nat /\ lastTarget \in Nat
  BY DEF StoreInv, TypeOK
<1>3. ASSUME v.pc \in {"located", "counting", "deciding"}
      PROVE  v.route \in RouteIds /\ v.route <= lastRoute' /\ v.row \in Inputs
  <2>1. v.route \in RouteIds /\ v.route <= lastRoute /\ v.row \in Inputs
    BY <1>1, <1>3 DEF HandlerOK
  <2>2. v.route \in Nat
    BY <2>1, IdsAssumption
  <2> QED
    BY <1>2, <2>1, <2>2
<1>4. ASSUME v.pc \in {"located", "counting", "deciding"}
      PROVE  v.since \in Nat /\ v.since <= lastTarget /\ v.since <= lastTarget'
  <2>1. v.since \in Nat /\ v.since <= lastTarget
    BY <1>1, <1>4 DEF HandlerOK, Request
  <2> QED
    BY <1>2, <2>1
<1>5. ASSUME v.pc \in {"counting", "deciding"}
      PROVE  Agree(v, v.targets)'
  <2>1. Agree(v, v.targets) /\ v.route \in RouteIds /\ v.route <= lastRoute
    BY <1>1, <1>5 DEF HandlerOK
  <2> QED
    BY <2>1 DEF Agree
<1>6. ASSUME v.pc = "located"
      PROVE  Agree(v, TargetsOf(v.route))'
  <2> DEFINE r == v.route
             old == TargetsOf(r)
             new == TargetsOf(r)'
  <2>1. Agree(v, old) /\ r \in RouteIds /\ r <= lastRoute
    BY <1>1, <1>6 DEF HandlerOK
  <2>2. r' = r /\ v' = v
    OBVIOUS
  <2>3. (Live(r)' => Live(r))
        /\ \/ new = old
           \/ new = {} /\ ~Live(r)'
           \/ new # {} /\ \A t \in new : lastTarget < t.id
    BY <2>1
  <2>4. ASSUME NEW t \in new, lastTarget < t.id PROVE v.since < t.id
    <3>1. t.id \in Nat
      BY DEF TargetsOf, StoreInv, TypeOK, Target
    <3> QED
      BY <1>2, <1>4, <1>6, <2>4, <3>1
  <2>5. CASE new = old
    BY <2>1, <2>2, <2>3, <2>5 DEF Agree
  <2>6. CASE new = {} /\ ~Live(r)'
    BY <2>2, <2>6 DEF Agree
  <2>7. CASE new # {} /\ \A t \in new : lastTarget < t.id
    BY <2>2, <2>4, <2>7 DEF Agree
  <2> QED
    BY <2>3, <2>5, <2>6, <2>7
<1>7. ASSUME v.pc \in {"counting", "deciding"}, NEW t \in v.targets
      PROVE  /\ t.id <= lastTarget'
             /\ \A u \in targets' : u.id = t.id => u = t
  <2>1. t.id <= lastTarget /\ \A u \in targets : u.id = t.id => u = t
    BY <1>1, <1>7 DEF HandlerOK
  <2>2. t.id \in Nat
    BY <1>1 DEF Request, Target
  <2>3. ASSUME NEW u \in targets', u.id = t.id PROVE u = t
    <3>1. CASE u \in targets
      BY <2>1, <2>3, <3>1
    <3>2. CASE u \in Target /\ lastTarget < u.id
      BY <1>2, <2>1, <2>2, <2>3, <3>2
    <3> QED
      BY <3>1, <3>2
  <2> QED
    BY <1>2, <2>1, <2>2, <2>3
<1> QED
  BY <1>1, <1>3, <1>4, <1>5, <1>6, <1>7 DEF HandlerOK

-----------------------------------------------------------------------------
(***************************************************************************)
(* The steps of a request.                                                 *)
(***************************************************************************)
\* A step of one handler that leaves the routes and their targets alone.
LEMMA HandlerMemory ==
  ASSUME StoreInv, UNCHANGED <<routes, targets, lastRoute, lastTarget>>,
         NEW q \in Requests, NEW v \in Request, HandlerOK(v),
         request' = [request EXCEPT ![q] = v]
  PROVE  request' \in [Requests -> Request] /\ HandlersOK'
<1>1. request \in [Requests -> Request]
  BY DEF StoreInv, TypeOK
<1>2. /\ request' \in [Requests -> Request]
      /\ request'[q] = v
      /\ \A p \in Requests : p # q => request'[p] = request[p]
  BY <1>1
<1> SUFFICES ASSUME NEW p \in Requests PROVE HandlerOK(request[p])'
  BY <1>2 DEF HandlersOK
<1>3. HandlerOK(request'[p])
  BY <1>2 DEF StoreInv, HandlersOK
<1> QED
  BY <1>3 DEF HandlerOK, Agree, TargetsOf, Live

\* A step that changes nothing but what one handler holds.
LEMMA HandlerStep ==
  ASSUME StoreInv, UNCHANGED <<tables, mixed, edit>>,
         NEW q \in Requests, NEW v \in Request, HandlerOK(v),
         request' = [request EXCEPT ![q] = v]
  PROVE  StoreInv'
<1>1. request' \in [Requests -> Request] /\ HandlersOK'
  BY HandlerMemory DEF tables
<1>2. TypeOK'
  BY <1>1 DEF StoreInv, TypeOK, tables
<1>3. EditsOK'
  BY DEF StoreInv, EditsOK
<1> QED
  BY <1>1, <1>2, <1>3, TablesUnchanged DEF StoreInv

LEMMA LocateKeeps ==
  ASSUME StoreInv, NEW q \in Requests, Locate(q)
  PROVE  StoreInv'
<1>1. PICK r \in RouteIds, simulation \in BOOLEAN :
        /\ Live(r)
        /\ request' = [request EXCEPT ![q] =
             [@ EXCEPT !.pc = "located", !.simulation = simulation,
                       !.route = r, !.row = routes[r], !.since = lastTarget]]
  BY DEF Locate
<1> DEFINE v == [request[q] EXCEPT !.pc = "located", !.simulation = simulation,
                                   !.route = r, !.row = routes[r],
                                   !.since = lastTarget]
<1>2. request[q] \in Request
  BY DEF StoreInv, TypeOK
<1>3. r <= lastRoute /\ routes[r] \in Inputs /\ lastTarget \in Nat
  BY <1>1 DEF StoreInv, TypeOK, IdsGivenOut, Live
<1>4. /\ v \in Request /\ v.pc = "located" /\ v.route = r
      /\ v.row = routes[r] /\ v.since = lastTarget
  BY <1>2, <1>3 DEF Request
<1>5. request' = [request EXCEPT ![q] = v] /\ UNCHANGED <<tables, mixed, edit>>
  BY <1>1 DEF Locate
<1> HIDE DEF v
<1>6. Agree(v, TargetsOf(r))
  BY <1>1, <1>4 DEF Agree, StoreInv, TargetsAsSaved
<1>7. HandlerOK(v)
  BY <1>3, <1>4, <1>6 DEF HandlerOK
<1> QED
  BY <1>4, <1>5, <1>7, HandlerStep

LEMMA ReadTargetsKeeps ==
  ASSUME StoreInv, NEW q \in Requests, ReadTargets(q)
  PROVE  StoreInv'
<1> DEFINE r == request[q].route
           v == [request[q] EXCEPT !.pc = "counting", !.targets = TargetsOf(r),
                                   !.left = TargetsOf(r)]
<1>1. request[q] \in Request
  BY DEF StoreInv, TypeOK
<1>2. /\ r \in RouteIds /\ r <= lastRoute /\ request[q].row \in Inputs
      /\ request[q].since <= lastTarget
      /\ Agree(request[q], TargetsOf(r))
  BY DEF StoreInv, HandlersOK, HandlerOK, ReadTargets
<1>3. TargetsOf(r) \subseteq Target
  BY DEF StoreInv, TypeOK, TargetsOf
<1>4. Agree(v, TargetsOf(r))
  BY <1>1, <1>2 DEF Agree, Request
<1>5. \A t \in TargetsOf(r) : /\ t.route = r
                              /\ t.id <= lastTarget
                              /\ \A u \in targets : u.id = t.id => u = t
  BY DEF StoreInv, IdsGivenOut, TargetsOf
<1>6. /\ v \in Request /\ v.pc = "counting" /\ v.route = r
      /\ v.row = request[q].row /\ v.since = request[q].since
      /\ v.targets = TargetsOf(r) /\ v.left = TargetsOf(r)
  BY <1>1, <1>3 DEF Request
<1>7. request' = [request EXCEPT ![q] = v] /\ UNCHANGED <<tables, mixed, edit>>
  BY DEF ReadTargets
<1> HIDE DEF v
<1>8. HandlerOK(v)
  BY <1>2, <1>4, <1>5, <1>6 DEF HandlerOK
<1> QED
  BY <1>6, <1>7, <1>8, HandlerStep

\* The end of a request.
LEMMA ReplyKeeps ==
  ASSUME StoreInv, NEW q \in Requests, NEW pc \in Answered, Reply(q, pc),
         UNCHANGED <<tables, mixed, edit>>
  PROVE  StoreInv'
<1> DEFINE v == [request[q] EXCEPT !.pc = pc]
<1>1. request[q] \in Request
  BY DEF StoreInv, TypeOK
<1>2. v \in Request /\ v.pc \notin {"located", "counting", "deciding"}
  BY <1>1 DEF Request, Answered
<1>3. request' = [request EXCEPT ![q] = v]
  BY DEF Reply
<1> HIDE DEF v
<1>4. HandlerOK(v)
  BY <1>2 DEF HandlerOK
<1> QED
  BY <1>2, <1>3, <1>4, HandlerStep

LEMMA SelectKeeps ==
  ASSUME StoreInv, NEW q \in Requests, Select(q)
  PROVE  StoreInv'
<1>1. CASE request[q].simulation
  BY <1>1, ReplyKeeps DEF Select, Answered
<1>2. CASE ~request[q].simulation
  <2>1. PICK chosen \in request[q].targets \cup {Null} :
          request' = [request EXCEPT ![q].pc = "deciding", ![q].chosen = chosen]
    BY <1>2 DEF Select
  <2> DEFINE v == [request[q] EXCEPT !.pc = "deciding", !.chosen = chosen]
  <2>2. request[q] \in Request /\ request \in [Requests -> Request]
    BY DEF StoreInv, TypeOK
  <2>3. request[q].pc = "counting" /\ HandlerOK(request[q])
    BY DEF Select, StoreInv, HandlersOK
  <2>4. /\ v \in Request /\ v.pc = "deciding" /\ v.route = request[q].route
        /\ v.row = request[q].row /\ v.since = request[q].since
        /\ v.targets = request[q].targets
        /\ v.left = request[q].left /\ v.chosen = chosen
    BY <2>2 DEF Request
  <2>5. request' = [request EXCEPT ![q] = v] /\ UNCHANGED <<tables, mixed, edit>>
    BY <2>1, <2>2 DEF Select
  <2> HIDE DEF v
  <2>6. HandlerOK(v)
    BY <2>3, <2>4 DEF HandlerOK, Agree
  <2> QED
    BY <2>4, <2>5, <2>6, HandlerStep
<1> QED
  BY <1>1, <1>2

\* The statistics of a target are stored under an id that still means the
\* same target, or nothing at all.
LEMMA StoreStatsKeeps ==
  ASSUME StoreInv, NEW q \in Requests, StoreStats(q)
  PROVE  StoreInv'
<1> DEFINE t == NextCandidate(request[q].left)
           v == [request[q] EXCEPT !.left = @ \ {t}]
<1>1. /\ request[q] \in Request /\ HandlerOK(request[q])
      /\ request[q].pc = "counting" /\ request[q].left # {}
  BY DEF StoreStats, StoreInv, HandlersOK, TypeOK
<1>2. t \in request[q].left
  <2> DEFINE left == request[q].left
             numbers == {u.survey : u \in left}
  <2>1. left \subseteq Target /\ left # {}
    BY <1>1 DEF Request
  <2>2. numbers \in SUBSET Nat /\ numbers # {}
    BY <2>1, IdsAssumption DEF Target
  <2>3. PICK n \in numbers : \A k \in numbers : n <= k
    BY <2>2, LeastNatural
  <2>4. \E u \in left : \A w \in left : u.survey <= w.survey
    BY <2>3
  <2> QED
    BY <2>4 DEF NextCandidate
<1>3. /\ request' = [request EXCEPT ![q] = v]
      /\ UNCHANGED <<routes, targets, decisions, lastRoute, lastTarget, mixed, edit>>
      /\ \/ stats' = stats
         \/ stats' = {s \in stats : s.target # t.id} \cup
                       {[target |-> t.id, survey |-> t.survey]}
  BY DEF StoreStats
<1> HIDE DEF t
<1>4. /\ v \in Request /\ v.pc = "counting" /\ v.route = request[q].route
      /\ v.row = request[q].row /\ v.since = request[q].since
      /\ v.targets = request[q].targets
      /\ v.left = request[q].left \ {t}
  BY <1>1 DEF Request
<1> HIDE DEF v
<1>5. HandlerOK(v)
  BY <1>1, <1>4 DEF HandlerOK, Agree
<1>6. request' \in [Requests -> Request] /\ HandlersOK'
  BY <1>3, <1>4, <1>5, HandlerMemory
<1>7. /\ t \in Target /\ t.id <= lastTarget
      /\ \A u \in targets : u.id = t.id => u = t
  BY <1>1, <1>2 DEF HandlerOK, Request
<1> DEFINE s0 == [target |-> t.id, survey |-> t.survey]
<1>8. s0 \in Stat /\ s0.target = t.id /\ s0.survey = t.survey
  BY <1>7 DEF Stat, Target
<1>9. \A s \in stats' : s \in stats \/ s = s0
  BY <1>3
<1> HIDE DEF s0
<1>10. TypeOK'
  BY <1>3, <1>6, <1>8, <1>9 DEF StoreInv, TypeOK
<1>11. IdsGivenOut'
  BY <1>3, <1>7, <1>8, <1>9 DEF StoreInv, IdsGivenOut, Live
<1>12. IdsNameTheirSurvey'
  BY <1>3, <1>7, <1>8, <1>9 DEF StoreInv, IdsNameTheirSurvey
<1>13. EditsOK' /\ SlugsUnique' /\ TargetsAsSaved'
  BY <1>3 DEF StoreInv, EditsOK, SlugsUnique, TargetsAsSaved, Live, TargetsOf
<1> QED
  BY <1>6, <1>10, <1>11, <1>12, <1>13 DEF StoreInv

\* A decision, too, names the route and the survey of its target.
LEMMA DecideKeeps ==
  ASSUME StoreInv, NEW q \in Requests, Decide(q)
  PROVE  StoreInv'
<1> DEFINE d == DecisionOf(q)
           pc == IF d.status = "failed" THEN "unavailable" ELSE d.status
           v == [request[q] EXCEPT !.pc = pc]
<1>1. /\ request[q] \in Request /\ HandlerOK(request[q]) /\ request[q].pc = "deciding"
  BY DEF Decide, StoreInv, HandlersOK, TypeOK
<1>2. /\ request' = [request EXCEPT ![q] = v]
      /\ UNCHANGED <<routes, targets, stats, lastRoute, lastTarget, mixed, edit>>
      /\ decisions' = [decisions EXCEPT ![q] = d] \/ decisions' = decisions
  BY DEF Decide, Reply
<1>3. /\ d \in Decision
      /\ d.route = request[q].route
      /\ d.target # Null => /\ d.target <= lastTarget
                            /\ \A u \in targets : u.id = d.target =>
                                 u.survey = d.survey /\ u.route = d.route
  <2>1. CASE request[q].chosen # Null
    <3> DEFINE t == request[q].chosen
    <3>1. /\ t \in Target /\ t.id <= lastTarget /\ t.route = request[q].route
          /\ \A u \in targets : u.id = t.id => u = t
      BY <1>1, <2>1 DEF HandlerOK, Request
    <3>2. d = [route |-> request[q].route, target |-> t.id,
               survey |-> t.survey, status |-> "redirected"]
      BY <2>1 DEF DecisionOf
    <3> HIDE DEF t, d
    <3> QED
      BY <1>1, <3>1, <3>2 DEF Decision, Target, HandlerOK
  <2>2. CASE request[q].chosen = Null
    BY <1>1, <2>2 DEF DecisionOf, Decision, HandlerOK
  <2> QED
    BY <2>1, <2>2
<1>4. v \in Request /\ HandlerOK(v)
  <2>1. pc \in Answered
    BY <1>3 DEF Decision, Answered
  <2> HIDE DEF pc
  <2>2. v \in Request /\ v.pc = pc
    BY <1>1, <2>1 DEF Request
  <2> QED
    BY <2>1, <2>2 DEF HandlerOK, Answered
<1> HIDE DEF d, v
<1>5. request' \in [Requests -> Request] /\ HandlersOK'
  BY <1>2, <1>4, HandlerMemory
<1>6. decisions' \in [Requests -> Decision \cup {Null}]
  BY <1>2, <1>3 DEF StoreInv, TypeOK
<1>7. \A p \in Requests : decisions'[p] = decisions[p] \/ decisions'[p] = d
  BY <1>2 DEF StoreInv, TypeOK
<1>8. TypeOK'
  BY <1>2, <1>5, <1>6 DEF StoreInv, TypeOK
<1>9. IdsGivenOut'
  BY <1>2, <1>3, <1>7 DEF StoreInv, IdsGivenOut, Live
<1>10. IdsNameTheirSurvey'
  BY <1>2, <1>3, <1>7, IdsAssumption DEF StoreInv, IdsNameTheirSurvey, TypeOK, Target
<1>11. EditsOK' /\ SlugsUnique' /\ TargetsAsSaved'
  BY <1>2 DEF StoreInv, EditsOK, SlugsUnique, TargetsAsSaved, Live, TargetsOf
<1> QED
  BY <1>5, <1>8, <1>9, <1>10, <1>11 DEF StoreInv

-----------------------------------------------------------------------------
(***************************************************************************)
(* The steps of an editor, and of the process.                             *)
(***************************************************************************)
\* A step that changes nothing but what one editor holds.
LEMMA EditorStep ==
  ASSUME StoreInv, UNCHANGED <<tables, mixed, request>>,
         NEW e \in Editors, NEW v \in Edit, edit' = [edit EXCEPT ![e] = v],
         v.pc # "posted",
         v.pc \in {"loaded", "checked"} /\ v.op # "create" => v.route \in RouteIds,
         v.pc = "checked" => v.input \in Inputs
  PROVE  StoreInv'
<1>1. edit \in [Editors -> Edit]
  BY DEF StoreInv, TypeOK
<1>2. TypeOK'
  BY <1>1 DEF StoreInv, TypeOK, tables
<1>3. EditsOK'
  BY <1>1 DEF StoreInv, EditsOK
<1>4. HandlersOK'
  BY DEF StoreInv, HandlersOK, HandlerOK, Agree, TargetsOf, Live, tables
<1> QED
  BY <1>2, <1>3, <1>4, TablesUnchanged DEF StoreInv

LEMMA LoadKeeps ==
  ASSUME StoreInv, NEW e \in Editors, Load(e)
  PROVE  StoreInv'
<1>1. PICK r \in RouteIds, op \in {"update", "delete"} :
        edit' = [edit EXCEPT ![e] =
          [@ EXCEPT !.pc = "loaded", !.op = op, !.route = r]]
  BY DEF Load
<1> DEFINE v == [edit[e] EXCEPT !.pc = "loaded", !.op = op, !.route = r]
<1>2. edit[e] \in Edit
  BY DEF StoreInv, TypeOK
<1>3. v \in Edit /\ v.pc = "loaded" /\ v.route = r
  BY <1>2 DEF Edit
<1>4. edit' = [edit EXCEPT ![e] = v] /\ UNCHANGED <<tables, mixed, request>>
  BY <1>1 DEF Load
<1> HIDE DEF v
<1> QED
  BY <1>3, <1>4, EditorStep

LEMMA CheckKeeps ==
  ASSUME StoreInv, NEW e \in Editors, Check(e)
  PROVE  StoreInv'
<1>1. PICK input \in Inputs :
        edit' = [edit EXCEPT ![e] = [@ EXCEPT !.pc = "checked", !.input = input]]
  BY DEF Check
<1> DEFINE v == [edit[e] EXCEPT !.pc = "checked", !.input = input]
<1>2. edit[e] \in Edit
  BY DEF StoreInv, TypeOK
<1>3. /\ v \in Edit /\ v.pc = "checked" /\ v.input = input
      /\ v.op = edit[e].op /\ v.route = edit[e].route
  BY <1>2 DEF Edit
<1>4. edit' = [edit EXCEPT ![e] = v] /\ UNCHANGED <<tables, mixed, request>>
  BY <1>1 DEF Check
<1>5. v.op # "create" => v.route \in RouteIds
  BY <1>3 DEF Check, StoreInv, EditsOK
<1> HIDE DEF v
<1> QED
  BY <1>3, <1>4, <1>5, EditorStep

LEMMA RejectKeeps ==
  ASSUME StoreInv, NEW e \in Editors, Reject(e)
  PROVE  StoreInv'
<1> DEFINE v == [edit[e] EXCEPT !.pc = "rejected"]
<1>1. edit[e] \in Edit
  BY DEF StoreInv, TypeOK
<1>2. v \in Edit /\ v.pc = "rejected"
  BY <1>1 DEF Edit
<1>3. edit' = [edit EXCEPT ![e] = v] /\ UNCHANGED <<tables, mixed, request>>
  BY DEF Reject
<1> HIDE DEF v
<1> QED
  BY <1>2, <1>3, EditorStep

LEMMA EditSaved ==
  ASSUME StoreInv, NEW e \in Editors, edit' = [edit EXCEPT ![e].pc = "saved"]
  PROVE  edit' \in [Editors -> Edit] /\ EditsOK'
<1>1. edit \in [Editors -> Edit]
  BY DEF StoreInv, TypeOK
<1>2. /\ edit' \in [Editors -> Edit] /\ edit'[e].pc = "saved"
      /\ \A f \in Editors : f # e => edit'[f] = edit[f]
  BY <1>1 DEF Edit
<1>3. EditsOK'
  BY <1>2 DEF StoreInv, EditsOK
<1> QED
  BY <1>2, <1>3

\* The transaction of a save, of a new route or of one that is there: the
\* targets of the route are the new ones, and nobody else's change.
LEMMA SaveKeeps ==
  ASSUME StoreInv, NEW e \in Editors, NEW r \in RouteIds, NEW input \in Inputs,
         NEW kept \in SUBSET targets,
         kept = {t \in targets : t.route # r},
         SlugFree(input.slug, r),
         routes' = [routes EXCEPT ![r] = input],
         InsertTargets(kept, r, input.surveys),
         lastRoute' \in Nat, lastRoute <= lastRoute', r <= lastRoute',
         r <= lastRoute => Live(r),
         stats' \subseteq stats,
         decisions' \in [Requests -> Decision \cup {Null}],
         \A q \in Requests :
            \/ decisions'[q] = decisions[q]
            \/ decisions'[q].target = Null,
         edit' = [edit EXCEPT ![e].pc = "saved"],
         UNCHANGED <<mixed, request>>
  PROVE  StoreInv'
<1> DEFINE new == NewTargets(r, input.surveys, lastTarget)
<1>1. /\ lastTarget \in Nat /\ lastRoute \in Nat
      /\ routes \in [RouteIds -> Inputs \cup {Null}]
      /\ targets \subseteq Target
  BY DEF StoreInv, TypeOK
<1>2. /\ Cardinality(input.surveys) \in Nat
      /\ new \subseteq Target
      /\ \A t \in new : /\ t.route = r
                        /\ lastTarget < t.id
                        /\ t.id <= lastTarget + Cardinality(input.surveys)
      /\ \A t, u \in new : t.id = u.id => t = u
      /\ {t.survey : t \in new} = input.surveys
      /\ Cardinality(new) = Cardinality(input.surveys)
  BY <1>1, NewTargetsFacts
<1>3. targets' = kept \cup new /\ lastTarget' = lastTarget + Cardinality(input.surveys)
  BY DEF InsertTargets, LastTarget
<1> HIDE DEF new
<1>4. lastTarget' \in Nat /\ lastTarget <= lastTarget'
  BY <1>1, <1>2, <1>3
<1>5. /\ routes' \in [RouteIds -> Inputs \cup {Null}]
      /\ routes'[r] = input
      /\ \A x \in RouteIds : x # r => routes'[x] = routes[x]
  BY <1>1
<1>6. \A x \in RouteIds : Live(x)' => x = r \/ Live(x)
  BY <1>5 DEF Live
<1>7. HandlersOK'
  <2>1. \A t \in targets' : t \in targets \/ (t \in Target /\ lastTarget < t.id)
    BY <1>2, <1>3
  <2>2. \A x \in RouteIds : x <= lastRoute /\ Live(x)' => Live(x)
    BY <1>6
  <2>3. ASSUME NEW x \in RouteIds, x # r
        PROVE  TargetsOf(x)' = TargetsOf(x)
    <3>1. \A t \in new : t.route # x
      BY <1>2, <2>3
    <3> QED
      BY <1>3, <2>3, <3>1 DEF TargetsOf
  <2>4. TargetsOf(r)' = new /\ new # {}
    <3>1. TargetsOf(r)' = new
      BY <1>2, <1>3 DEF TargetsOf
    <3>2. input.surveys # {}
      BY InputsAssumption
    <3> QED
      BY <1>2, <3>1, <3>2
  <2>5. \A x \in RouteIds :
          \/ TargetsOf(x)' = TargetsOf(x)
          \/ TargetsOf(x)' # {} /\ \A t \in TargetsOf(x)' : lastTarget < t.id
    BY <1>2, <2>3, <2>4
  <2> QED
    BY <1>4, <2>1, <2>2, <2>5, TablesAdvance
<1>8. TypeOK' /\ EditsOK'
  <2>1. edit' \in [Editors -> Edit] /\ EditsOK'
    BY EditSaved
  <2> QED
    BY <1>1, <1>2, <1>3, <1>4, <1>5, <2>1 DEF StoreInv, TypeOK
<1>9. IdsGivenOut'
  <2>1. \A x \in RouteIds : Live(x)' => x <= lastRoute'
    BY <1>1, <1>6, IdsAssumption DEF StoreInv, IdsGivenOut
  <2>2. \A t \in targets' : t.route <= lastRoute' /\ t.id <= lastTarget'
    <3> SUFFICES ASSUME NEW t \in targets'
                 PROVE  t.route <= lastRoute' /\ t.id <= lastTarget'
      OBVIOUS
    <3>1. CASE t \in new
      BY <1>2, <1>3, <3>1
    <3>2. CASE t \in kept
      <4>1. t.route <= lastRoute /\ t.id <= lastTarget
        BY <3>2 DEF StoreInv, IdsGivenOut
      <4>2. t.route \in Nat /\ t.id \in Nat
        BY <1>1, <3>2, IdsAssumption DEF Target
      <4> QED
        BY <1>1, <1>4, <4>1, <4>2
    <3> QED
      BY <1>3, <3>1, <3>2
  <2>3. \A t, u \in targets' : t.id = u.id => t = u
    <3>1. \A t \in kept : t.id <= lastTarget /\ t.id \in Nat
      BY <1>1 DEF StoreInv, IdsGivenOut, Target
    <3>2. \A t \in new : lastTarget < t.id /\ t.id \in Nat
      BY <1>2 DEF Target
    <3>3. \A t, u \in kept : t.id = u.id => t = u
      BY DEF StoreInv, IdsGivenOut
    <3> QED
      BY <1>1, <1>2, <1>3, <3>1, <3>2, <3>3
  <2>4. \A s \in stats' : s.target <= lastTarget'
    <3>1. \A s \in stats : s.target <= lastTarget /\ s.target \in Nat
      BY DEF StoreInv, IdsGivenOut, TypeOK, Stat
    <3> QED
      BY <1>1, <1>4, <3>1
  <2>5. \A q \in Requests : decisions'[q] # Null /\ decisions'[q].target # Null =>
          decisions'[q].target <= lastTarget'
    <3> SUFFICES ASSUME NEW q \in Requests, decisions'[q] # Null,
                        decisions'[q].target # Null
                 PROVE  decisions'[q].target <= lastTarget'
      OBVIOUS
    <3>1. decisions'[q] = decisions[q]
      OBVIOUS
    <3>2. decisions[q].target <= lastTarget /\ decisions[q].target \in Nat
      BY <3>1 DEF StoreInv, IdsGivenOut, TypeOK, Decision
    <3> QED
      BY <1>1, <1>4, <3>1, <3>2
  <2> QED
    BY <2>1, <2>2, <2>3, <2>4, <2>5 DEF IdsGivenOut
<1>10. SlugsUnique'
  BY <1>5, <1>6 DEF StoreInv, SlugsUnique, SlugFree, Live
<1>11. TargetsAsSaved'
  <2>1. ASSUME NEW x \in RouteIds, Live(x)', x # r
        PROVE  TargetsOf(x)' = TargetsOf(x) /\ routes'[x] = routes[x] /\ Live(x)
    <3>1. \A t \in new : t.route # x
      BY <1>2, <2>1
    <3> QED
      BY <1>3, <1>5, <1>6, <2>1, <3>1 DEF TargetsOf
  <2>2. TargetsOf(r)' = new
    BY <1>2, <1>3 DEF TargetsOf
  <2> QED
    BY <1>2, <1>5, <2>1, <2>2 DEF StoreInv, TargetsAsSaved
<1>12. IdsNameTheirSurvey'
  <2> SUFFICES ASSUME NEW t \in targets'
               PROVE  /\ \A s \in stats' : s.target = t.id => s.survey = t.survey
                      /\ \A q \in Requests :
                           decisions'[q] # Null /\ decisions'[q].target = t.id =>
                             /\ decisions'[q].survey = t.survey
                             /\ decisions'[q].route = t.route
    BY DEF IdsNameTheirSurvey
  <2>1. t.id # Null
    BY <1>1, <1>2, <1>3, IdsAssumption DEF Target
  <2>2. CASE t \in kept
    BY <2>1, <2>2 DEF StoreInv, IdsNameTheirSurvey
  <2>3. CASE t \in new
    <3>1. lastTarget < t.id /\ t.id \in Nat
      BY <1>2, <2>3 DEF Target
    <3>2. \A s \in stats : s.target # t.id
      BY <1>1, <3>1 DEF StoreInv, IdsGivenOut, TypeOK, Stat
    <3>3. \A q \in Requests : decisions[q] # Null => decisions[q].target # t.id
      BY <1>1, <2>1, <3>1 DEF StoreInv, IdsGivenOut, TypeOK, Decision
    <3> QED
      BY <2>1, <3>2, <3>3
  <2> QED
    BY <1>3, <2>2, <2>3
<1> QED
  BY <1>7, <1>8, <1>9, <1>10, <1>11, <1>12 DEF StoreInv

LEMMA CreateKeeps ==
  ASSUME StoreInv, NEW e \in Editors, CreateRoute(e)
  PROVE  StoreInv'
<1> DEFINE r == lastRoute + 1
           input == edit[e].input
<1>1. /\ lastRoute \in Nat /\ r \in RouteIds /\ input \in Inputs
      /\ targets \subseteq Target
      /\ decisions \in [Requests -> Decision \cup {Null}]
  BY DEF StoreInv, TypeOK, EditsOK, CreateRoute
<1>2. targets = {t \in targets : t.route # r}
  <2> SUFFICES ASSUME NEW t \in targets PROVE t.route # r
    OBVIOUS
  <2>1. t.route <= lastRoute /\ t.route \in Nat
    BY <1>1, IdsAssumption DEF StoreInv, IdsGivenOut, Target
  <2> QED
    BY <1>1, <2>1
<1>3. /\ SlugFree(input.slug, r)
      /\ routes' = [routes EXCEPT ![r] = input]
      /\ lastRoute' = r
      /\ InsertTargets(targets, r, input.surveys)
      /\ edit' = [edit EXCEPT ![e].pc = "saved"]
      /\ UNCHANGED <<stats, decisions, mixed, request>>
  BY DEF CreateRoute
<1>4. /\ lastRoute' \in Nat /\ lastRoute <= lastRoute' /\ r <= lastRoute'
      /\ r <= lastRoute => Live(r)
  BY <1>1, <1>3
<1> HIDE DEF r, input
<1> QED
  BY <1>1, <1>2, <1>3, <1>4, SaveKeeps

LEMMA UpdateKeeps ==
  ASSUME StoreInv, NEW e \in Editors, UpdateRoute(e)
  PROVE  StoreInv'
<1> DEFINE r == edit[e].route
           input == edit[e].input
           kept == targets \ TargetsOf(r)
<1>1. /\ lastRoute \in Nat /\ r \in RouteIds /\ input \in Inputs
      /\ decisions \in [Requests -> Decision \cup {Null}]
  BY DEF StoreInv, TypeOK, EditsOK, UpdateRoute
<1>2. kept \in SUBSET targets /\ kept = {t \in targets : t.route # r}
  BY DEF TargetsOf
<1>3. PICK fk \in ForeignKeys :
        /\ Live(r)
        /\ SlugFree(input.slug, r)
        /\ routes' = [routes EXCEPT ![r] = input]
        /\ InsertTargets(kept, r, input.surveys)
        /\ CascadeTargets(TargetsOf(r), fk)
        /\ edit' = [edit EXCEPT ![e].pc = "saved"]
        /\ UNCHANGED <<lastRoute, mixed, request>>
  BY DEF UpdateRoute
<1>4. /\ lastRoute' \in Nat /\ lastRoute <= lastRoute' /\ r <= lastRoute'
      /\ r <= lastRoute => Live(r)
  BY <1>1, <1>3 DEF StoreInv, IdsGivenOut
<1>5. stats' \subseteq stats
  BY <1>3 DEF CascadeTargets
<1>6. \A q \in Requests :
        \/ decisions'[q] = decisions[q]
        \/ /\ decisions[q] # Null
           /\ decisions'[q] = [decisions[q] EXCEPT !.target = Null]
  BY <1>3 DEF CascadeTargets
<1>7. ASSUME NEW q \in Requests
      PROVE  /\ decisions'[q] \in Decision \cup {Null}
             /\ \/ decisions'[q] = decisions[q]
                \/ decisions'[q].target = Null
  <2>1. CASE decisions'[q] = decisions[q]
    BY <1>1, <2>1
  <2>2. CASE decisions[q] # Null /\ decisions'[q] = [decisions[q] EXCEPT !.target = Null]
    <3>1. decisions[q] \in Decision
      BY <1>1, <2>2
    <3>2. decisions'[q] \in Decision /\ decisions'[q].target = Null
      BY <2>2, <3>1 DEF Decision
    <3> QED
      BY <3>1, <3>2
  <2> QED
    BY <1>6, <2>1, <2>2
<1>8. decisions' \in [Requests -> Decision \cup {Null}]
  BY <1>3, <1>7 DEF CascadeTargets
<1> HIDE DEF r, input, kept
<1> QED
  BY <1>1, <1>2, <1>3, <1>4, <1>5, <1>7, <1>8, SaveKeeps

LEMMA DeleteKeeps ==
  ASSUME StoreInv, NEW e \in Editors, DeleteRoute(e)
  PROVE  StoreInv'
<1> DEFINE r == edit[e].route
<1>1. /\ r \in RouteIds
      /\ decisions \in [Requests -> Decision \cup {Null}]
      /\ routes \in [RouteIds -> Inputs \cup {Null}]
      /\ lastRoute \in Nat /\ lastTarget \in Nat
  BY DEF StoreInv, TypeOK, EditsOK, DeleteRoute
<1>2. PICK fk \in ForeignKeys :
        LET gone == IF fk THEN TargetsOf(r) ELSE {} IN
        /\ targets' = targets \ gone
        /\ stats' = {s \in stats : s.target \notin {t.id : t \in gone}}
        /\ decisions' = [q \in Requests |->
             IF fk /\ decisions[q] # Null /\ decisions[q].route = r
             THEN Null ELSE decisions[q]]
  BY DEF DeleteRoute
<1>3. /\ routes' = [routes EXCEPT ![r] = Null]
      /\ edit' = [edit EXCEPT ![e].pc = "saved"]
      /\ UNCHANGED <<lastRoute, lastTarget, mixed, request>>
  BY DEF DeleteRoute
<1>4. /\ targets' \subseteq targets /\ stats' \subseteq stats
      /\ \A x \in RouteIds : x # r => TargetsOf(x)' = TargetsOf(x)
  BY <1>2 DEF TargetsOf
<1>5. /\ decisions' \in [Requests -> Decision \cup {Null}]
      /\ \A q \in Requests : decisions'[q] # Null => decisions'[q] = decisions[q]
  BY <1>1, <1>2
<1>6. /\ routes' \in [RouteIds -> Inputs \cup {Null}]
      /\ \A x \in RouteIds : Live(x)' => /\ Live(x) /\ x # r
                                         /\ routes'[x] = routes[x]
  BY <1>1, <1>3 DEF Live
<1>7. HandlersOK'
  <2>1. ASSUME NEW x \in RouteIds, x = r
        PROVE  ~Live(x)' /\ (TargetsOf(x)' = TargetsOf(x) \/ TargetsOf(x)' = {})
    <3>1. ~Live(x)'
      BY <1>6, <2>1
    <3>2. TargetsOf(x)' = TargetsOf(x) \/ TargetsOf(x)' = {}
      BY <1>2, <2>1 DEF TargetsOf
    <3> QED
      BY <3>1, <3>2
  <2>2. \A x \in RouteIds :
          \/ TargetsOf(x)' = TargetsOf(x)
          \/ TargetsOf(x)' = {} /\ ~Live(x)'
    BY <1>4, <2>1
  <2> QED
    BY <1>1, <1>3, <1>4, <1>6, <2>2, TablesAdvance
<1>8. TypeOK' /\ EditsOK'
  BY <1>3, <1>4, <1>5, <1>6, EditSaved DEF StoreInv, TypeOK
<1>9. IdsGivenOut'
  BY <1>3, <1>4, <1>5, <1>6 DEF StoreInv, IdsGivenOut
<1>10. SlugsUnique'
  BY <1>6 DEF StoreInv, SlugsUnique
<1>11. TargetsAsSaved'
  BY <1>4, <1>6 DEF StoreInv, TargetsAsSaved
<1>12. IdsNameTheirSurvey'
  BY <1>4, <1>5 DEF StoreInv, IdsNameTheirSurvey
<1> QED
  BY <1>7, <1>8, <1>9, <1>10, <1>11, <1>12 DEF StoreInv

LEMMA RestartKeeps ==
  ASSUME StoreInv, Restart
  PROVE  StoreInv'
<1>1. /\ request \in [Requests -> Request] /\ edit \in [Editors -> Edit]
      /\ mixed' = FALSE /\ UNCHANGED tables
      /\ request' = [q \in Requests |->
           IF request[q].pc \in {"located", "counting", "deciding"}
           THEN [request[q] EXCEPT !.pc = "lost"] ELSE request[q]]
      /\ edit' = [e \in Editors |->
           IF edit[e].pc \in {"loaded", "checked"}
           THEN [edit[e] EXCEPT !.pc = "lost"] ELSE edit[e]]
  BY DEF StoreInv, TypeOK, Restart
<1>2. ASSUME NEW q \in Requests
      PROVE  /\ request'[q] \in Request
             /\ request'[q].pc \notin {"located", "counting", "deciding"}
  BY <1>1 DEF Request, Answered
<1>3. ASSUME NEW e \in Editors
      PROVE  /\ edit'[e] \in Edit
             /\ edit'[e].pc \notin {"loaded", "checked"}
             /\ edit'[e].pc = "posted" => edit'[e] = edit[e]
  BY <1>1 DEF Edit
<1>4. HandlersOK'
  BY <1>2 DEF HandlersOK, HandlerOK
<1>5. EditsOK'
  BY <1>3 DEF StoreInv, EditsOK
<1>6. TypeOK'
  <2>1. request' \in [Requests -> Request] /\ edit' \in [Editors -> Edit]
    BY <1>1, <1>2, <1>3
  <2> QED
    BY <1>1, <2>1 DEF StoreInv, TypeOK, tables
<1> QED
  BY <1>1, <1>4, <1>5, <1>6, TablesUnchanged DEF StoreInv

\* Steps of the pool, and stuttering.
LEMMA MixedStep ==
  ASSUME StoreInv, mixed' \in BOOLEAN, UNCHANGED <<tables, request, edit>>
  PROVE  StoreInv'
<1>1. TypeOK'
  BY DEF StoreInv, TypeOK, tables
<1>2. EditsOK' /\ HandlersOK'
  BY DEF StoreInv, EditsOK, HandlersOK, HandlerOK, Agree, TargetsOf, Live, tables
<1> QED
  BY <1>1, <1>2, TablesUnchanged DEF StoreInv

LEMMA StoreStep == StoreInv /\ [Next]_vars => StoreInv'
<1> SUFFICES ASSUME StoreInv, [Next]_vars PROVE StoreInv'
  OBVIOUS
<1>1. ASSUME NEW q \in Requests, Redirect(q) PROVE StoreInv'
  <2>1. CASE NotFound(q)
    BY <2>1, ReplyKeeps DEF NotFound, Answered
  <2> QED
    BY <1>1, <2>1, LocateKeeps, ReadTargetsKeeps, StoreStatsKeeps, SelectKeeps,
       DecideKeeps DEF Redirect
<1>2. ASSUME NEW e \in Editors, Administer(e) PROVE StoreInv'
  BY <1>2, LoadKeeps, CheckKeeps, CreateKeeps, UpdateKeeps, DeleteKeeps,
     RejectKeeps DEF Administer
<1>3. CASE OpenConnection
  BY <1>3, MixedStep DEF OpenConnection
<1>4. CASE Restart
  BY <1>4, RestartKeeps
<1>5. CASE UNCHANGED vars
  BY <1>5, MixedStep DEF vars, tables, StoreInv, TypeOK
<1> QED
  BY <1>1, <1>2, <1>3, <1>4, <1>5 DEF Next

LEMMA StoreInvariant == Spec => []StoreInv
  BY StoreInit, StoreStep, PTL DEF Spec

-----------------------------------------------------------------------------
(***************************************************************************)
(* What the tables and the answers promise.                                *)
(***************************************************************************)
\* The tables and what the handlers hold have their types, whatever order
\* the statements of redirect, routeDetail and simulation run in.
THEOREM StoreTypeCorrect == Spec => []TypeOK
<1>1. StoreInv => TypeOK
  BY DEF StoreInv
<1> QED
  BY <1>1, StoreInvariant, PTL

\* No two routes share a slug, although buildRouteInput checks it long before
\* CreateRoute or UpdateRoute writes it.
THEOREM SlugsNeverCollide == Spec => []SlugsUnique
<1>1. StoreInv => SlugsUnique
  BY DEF StoreInv
<1> QED
  BY <1>1, StoreInvariant, PTL

\* The targets of a route are those of its last successful save, whatever
\* saves failed or overtook each other (UpdateRoute).
THEOREM SavesAreWhole == Spec => []TargetsAsSaved
<1>1. StoreInv => TargetsAsSaved
  BY DEF StoreInv
<1> QED
  BY <1>1, StoreInvariant, PTL

\* Statistics and decisions that handlers store late are never attributed to
\* another survey or route (evaluateRoute, InsertRedirectDecision).
THEOREM LateWritesNameTheirSurvey == Spec => []IdsNameTheirSurvey
<1>1. StoreInv => IdsNameTheirSurvey
  BY DEF StoreInv
<1> QED
  BY <1>1, StoreInvariant, PTL

\* A handler never goes on with targets of two saves, nor with none while its
\* route exists, although saves and deletions may fall between the two queries
\* of scanRoute.
THEOREM HandlersReadWholeSaves == Spec => []RowAndTargetsAgree
<1>1. StoreInv => RowAndTargetsAgree
  BY DEF StoreInv, HandlersOK, HandlerOK, RowAndTargetsAgree
<1> QED
  BY <1>1, StoreInvariant, PTL

\* One step leaves a deleted route deleted: CreateRoute takes an id that was
\* never given out, UpdateRoute insists on its row.
LEMMA DeletedStay ==
  ASSUME StoreInv, [Next]_vars
  PROVE  \A r \in RouteIds : r <= lastRoute /\ ~Live(r) =>
           ~Live(r)' /\ TargetsOf(r)' \subseteq TargetsOf(r)
<1> SUFFICES ASSUME NEW r \in RouteIds, r <= lastRoute, ~Live(r)
             PROVE  ~Live(r)' /\ TargetsOf(r)' \subseteq TargetsOf(r)
  OBVIOUS
<1>1. CASE UNCHANGED <<routes, targets>>
  BY <1>1 DEF Live, TargetsOf
<1>2. ASSUME NEW e \in Editors, CreateRoute(e)
      PROVE  ~Live(r)' /\ TargetsOf(r)' \subseteq TargetsOf(r)
  <2> DEFINE n == lastRoute + 1
             input == edit[e].input
  <2>1. n \in RouteIds /\ input \in Inputs /\ lastTarget \in Nat /\ r # n
    BY <1>2, IdsAssumption DEF StoreInv, TypeOK, EditsOK, CreateRoute
  <2>2. \A t \in NewTargets(n, input.surveys, lastTarget) : t.route = n
    BY <2>1, NewTargetsFacts
  <2>3. /\ targets' = targets \cup NewTargets(n, input.surveys, lastTarget)
        /\ routes' = [routes EXCEPT ![n] = input]
    BY <1>2 DEF CreateRoute, InsertTargets, LastTarget
  <2> QED
    BY <2>1, <2>2, <2>3 DEF StoreInv, TypeOK, Live, TargetsOf
<1>3. ASSUME NEW e \in Editors, UpdateRoute(e)
      PROVE  ~Live(r)' /\ TargetsOf(r)' \subseteq TargetsOf(r)
  <2> DEFINE n == edit[e].route
             input == edit[e].input
  <2>1. n \in RouteIds /\ input \in Inputs /\ lastTarget \in Nat /\ r # n
    BY <1>3 DEF StoreInv, TypeOK, EditsOK, UpdateRoute
  <2>2. \A t \in NewTargets(n, input.surveys, lastTarget) : t.route = n
    BY <2>1, NewTargetsFacts
  <2>3. /\ targets' = (targets \ TargetsOf(n)) \cup
                        NewTargets(n, input.surveys, lastTarget)
        /\ routes' = [routes EXCEPT ![n] = input]
    BY <1>3 DEF UpdateRoute, InsertTargets, LastTarget
  <2> QED
    BY <2>1, <2>2, <2>3 DEF StoreInv, TypeOK, Live, TargetsOf
<1>4. ASSUME NEW e \in Editors, DeleteRoute(e)
      PROVE  ~Live(r)' /\ TargetsOf(r)' \subseteq TargetsOf(r)
  <2>1. targets' \subseteq targets /\ routes' = [routes EXCEPT ![edit[e].route] = Null]
    BY <1>4 DEF DeleteRoute
  <2> QED
    BY <2>1 DEF StoreInv, TypeOK, Live, TargetsOf
<1>5. ASSUME NEW q \in Requests, Redirect(q) PROVE UNCHANGED <<routes, targets>>
  BY <1>5 DEF Redirect, Locate, ReadTargets, NotFound, StoreStats, Select, Decide, tables
<1> QED
  BY <1>1, <1>2, <1>3, <1>4, <1>5 DEF Next, Administer, Load, Check, Reject,
     OpenConnection, Restart, vars, tables

\* A route that was deleted is never live again and gains no target: ids are
\* not given out twice, and UpdateRoute insists on its row.
THEOREM DeletionIsFinal == Spec => DeletedRoutesStayDeleted
<1>1. StoreInv /\ [Next]_vars =>
        [\A r \in RouteIds : r <= lastRoute /\ ~Live(r) =>
            ~Live(r)' /\ TargetsOf(r)' \subseteq TargetsOf(r)]_vars
  BY DeletedStay
<1> QED
  BY <1>1, StoreInvariant, PTL DEF Spec, DeletedRoutesStayDeleted

\* Once every connection enforces foreign keys, no statement breaks a
\* reference, however old what its handler knows (Migrate).
LEMMA ReferencesStep ==
  ASSUME StoreInv, [Next]_vars, ~mixed, ReferencesHold
  PROVE  ReferencesHold'
<1>1. /\ \A t \in targets : Live(t.route)
      /\ \A s \in stats : s.target \in TargetIds
      /\ \A q \in Requests : decisions[q] # Null =>
           /\ Live(decisions[q].route)
           /\ decisions[q].target \in TargetIds \cup {Null}
  BY DEF ReferencesHold
<1>2. ForeignKeys = {TRUE}
  BY DEF ForeignKeys
<1>3. CASE UNCHANGED tables
  BY <1>1, <1>3 DEF ReferencesHold, Live, TargetIds, tables
<1>4. ASSUME NEW q \in Requests, StoreStats(q) PROVE ReferencesHold'
  <2> DEFINE t == NextCandidate(request[q].left)
  <2>1. /\ UNCHANGED <<routes, targets, decisions>>
        /\ \/ stats' = stats
           \/ /\ t.id \in TargetIds
              /\ stats' = {s \in stats : s.target # t.id} \cup
                            {[target |-> t.id, survey |-> t.survey]}
    BY <1>2, <1>4 DEF StoreStats
  <2> HIDE DEF t
  <2>2. \A s \in stats' : s.target \in TargetIds
    BY <1>1, <2>1
  <2> QED
    BY <1>1, <2>1, <2>2 DEF ReferencesHold, Live, TargetIds
<1>5. ASSUME NEW q \in Requests, Decide(q) PROVE ReferencesHold'
  <2> DEFINE d == DecisionOf(q)
  <2>1. /\ UNCHANGED <<routes, targets, stats>>
        /\ \/ decisions' = decisions
           \/ /\ Live(d.route) /\ d.target \in TargetIds \cup {Null}
              /\ decisions' = [decisions EXCEPT ![q] = d]
    BY <1>2, <1>5 DEF Decide
  <2> HIDE DEF d
  <2>2. \A p \in Requests : decisions'[p] # Null =>
          /\ Live(decisions'[p].route)
          /\ decisions'[p].target \in TargetIds \cup {Null}
    BY <1>1, <2>1 DEF StoreInv, TypeOK
  <2> QED
    BY <1>1, <2>1, <2>2 DEF ReferencesHold, Live, TargetIds
<1>6. ASSUME NEW e \in Editors, CreateRoute(e) PROVE ReferencesHold'
  <2> DEFINE n == lastRoute + 1
             input == edit[e].input
             new == NewTargets(n, input.surveys, lastTarget)
  <2>1. n \in RouteIds /\ input \in Inputs /\ lastTarget \in Nat
    BY <1>6 DEF StoreInv, TypeOK, EditsOK, CreateRoute
  <2>2. \A t \in new : t.route = n
    BY <2>1, NewTargetsFacts
  <2>3. /\ targets' = targets \cup new
        /\ routes' = [routes EXCEPT ![n] = input]
        /\ UNCHANGED <<stats, decisions>>
    BY <1>6 DEF CreateRoute, InsertTargets, LastTarget
  <2> HIDE DEF n, input, new
  <2>4. \A r \in RouteIds : Live(r) \/ r = n => Live(r)'
    BY <2>1, <2>3, IdsAssumption DEF StoreInv, TypeOK, Live
  <2>5. \A t \in targets : t.route \in RouteIds
    BY DEF StoreInv, TypeOK, Target
  <2>6. \A q \in Requests : decisions[q] # Null => decisions[q].route \in RouteIds
    BY DEF StoreInv, TypeOK, Decision
  <2> QED
    BY <1>1, <2>1, <2>2, <2>3, <2>4, <2>5, <2>6 DEF ReferencesHold, TargetIds
<1>7. ASSUME NEW e \in Editors, UpdateRoute(e) PROVE ReferencesHold'
  <2> DEFINE n == edit[e].route
             input == edit[e].input
             gone == TargetsOf(n)
             new == NewTargets(n, input.surveys, lastTarget)
  <2>1. n \in RouteIds /\ input \in Inputs /\ lastTarget \in Nat
    BY <1>7 DEF StoreInv, TypeOK, EditsOK, UpdateRoute
  <2>2. \A t \in new : t.route = n
    BY <2>1, NewTargetsFacts
  <2>3. /\ targets' = (targets \ gone) \cup new
        /\ routes' = [routes EXCEPT ![n] = input]
        /\ stats' = {s \in stats : s.target \notin {t.id : t \in gone}}
        /\ decisions' = [q \in Requests |->
             IF decisions[q] # Null /\ decisions[q].target \in {t.id : t \in gone}
             THEN [decisions[q] EXCEPT !.target = Null] ELSE decisions[q]]
    BY <1>2, <1>7 DEF UpdateRoute, InsertTargets, LastTarget, CascadeTargets
  <2>4. \A r \in RouteIds : Live(r) \/ r = n => routes'[r] # Null
    BY <2>1, <2>3, IdsAssumption DEF StoreInv, TypeOK, Live
  <2> HIDE DEF n, input, new, gone
  <2>5. \A t \in targets' : routes'[t.route] # Null
    <3>1. \A t \in targets : t.route \in RouteIds
      BY DEF StoreInv, TypeOK, Target
    <3> QED
      BY <1>1, <2>1, <2>2, <2>3, <2>4, <3>1
  <2>6. \A i \in TargetIds : i \notin {t.id : t \in gone} => i \in TargetIds'
    BY <2>3 DEF TargetIds
  <2>7. \A s \in stats' : s.target \in TargetIds'
    BY <1>1, <2>3, <2>6
  <2>8. ASSUME NEW q \in Requests, decisions'[q] # Null
        PROVE  /\ routes'[decisions'[q].route] # Null
               /\ decisions'[q].target \in TargetIds' \cup {Null}
    <3>1. CASE decisions[q] # Null /\ decisions[q].target \in {t.id : t \in gone}
      <4>1. decisions[q] \in Decision
        BY <3>1 DEF StoreInv, TypeOK
      <4>2. decisions'[q].route = decisions[q].route /\ decisions'[q].target = Null
        BY <2>3, <3>1, <4>1 DEF Decision
      <4> QED
        BY <1>1, <2>4, <3>1, <4>1, <4>2 DEF Decision
    <3>2. CASE ~(decisions[q] # Null /\ decisions[q].target \in {t.id : t \in gone})
      <4>1. decisions'[q] = decisions[q]
        BY <2>3, <3>2
      <4>2. decisions[q].route \in RouteIds
        BY <2>8, <4>1 DEF StoreInv, TypeOK, Decision
      <4> QED
        BY <1>1, <2>4, <2>6, <2>8, <3>2, <4>1, <4>2
    <3> QED
      BY <3>1, <3>2
  <2> QED
    BY <2>5, <2>7, <2>8 DEF ReferencesHold, Live
<1>8. ASSUME NEW e \in Editors, DeleteRoute(e) PROVE ReferencesHold'
  <2> DEFINE r == edit[e].route
             gone == TargetsOf(r)
  <2>1. /\ targets' = targets \ gone
        /\ routes' = [routes EXCEPT ![r] = Null]
        /\ stats' = {s \in stats : s.target \notin {t.id : t \in gone}}
        /\ decisions' = [q \in Requests |->
             IF decisions[q] # Null /\ decisions[q].route = r
             THEN Null ELSE decisions[q]]
    BY <1>2, <1>8 DEF DeleteRoute
  <2>2. \A x \in RouteIds : Live(x) /\ x # r => routes'[x] # Null
    BY <2>1 DEF StoreInv, TypeOK, Live
  <2>3. \A t \in targets' : t \in targets /\ t.route \in RouteIds /\ t.route # r
    BY <2>1 DEF StoreInv, TypeOK, Target, TargetsOf
  <2>4. \A i \in TargetIds : i \notin {t.id : t \in gone} => i \in TargetIds'
    BY <2>1 DEF TargetIds
  <2>5. ASSUME NEW q \in Requests, decisions'[q] # Null
        PROVE  /\ routes'[decisions'[q].route] # Null
               /\ decisions'[q].target \in TargetIds' \cup {Null}
    <3>1. decisions'[q] = decisions[q] /\ decisions[q].route # r
      BY <2>1, <2>5
    <3>2. decisions[q].route \in RouteIds
      BY <2>5, <3>1 DEF StoreInv, TypeOK, Decision
    <3>3. decisions[q].target \notin {t.id : t \in gone}
      BY <2>5, <3>1 DEF StoreInv, IdsNameTheirSurvey, TargetsOf
    <3> QED
      BY <1>1, <2>2, <2>4, <2>5, <3>1, <3>2, <3>3
  <2> HIDE DEF gone
  <2>6. \A s \in stats' : s.target \in TargetIds'
    BY <1>1, <2>1, <2>4
  <2> QED
    BY <1>1, <2>2, <2>3, <2>5, <2>6 DEF ReferencesHold, Live
<1> QED
  BY <1>3, <1>4, <1>5, <1>6, <1>7, <1>8 DEF Next, Redirect, Administer, Locate,
     ReadTargets, NotFound, Select, Load, Check, Reject, OpenConnection, Restart,
     vars, tables

\* While every connection enforces foreign keys, no statement leaves a reference
\* to a deleted row behind, also when handlers insert what they read long ago
\* (evaluateRoute, InsertRedirectDecision, DeleteRoute).
THEOREM EnforcedReferencesStand == Spec => EnforcedReferencesHold
<1>1. StoreInv /\ [Next]_vars =>
        [~mixed /\ ReferencesHold => ReferencesHold']_vars
  BY ReferencesStep
<1> QED
  BY <1>1, StoreInvariant, PTL DEF Spec, EnforcedReferencesHold

-----------------------------------------------------------------------------
(***************************************************************************)
(* Which decisions can be missing from the log.                            *)
(***************************************************************************)
Finished(q) == request[q].pc \in {"redirected", "fallback", "unavailable"}

Recorded(q) ==
    decisions[q] \in Decision /\ decisions[q].route = request[q].route

\* The target that a request chose was replaced, or deleted.
Superseded(q) == request[q].chosen # Null /\ request[q].chosen.id \notin TargetIds

\* As long as no statement fails by itself, an answered redirect is in the log
\* unless its route was deleted or a save replaced the target it chose: of the
\* ways InsertRedirectDecision can go wrong, only the foreign keys are left,
\* and neither a later save nor the deletion of another route erases it.
UnrecordedOnlyIfReplaced ==
    ~MayFail => \A q \in Requests : Finished(q) =>
        Recorded(q) \/ ~Live(request[q].route) \/ Superseded(q)

\* Routes and targets do not come back, so what excuses a missing decision
\* stays true.
OutcomeOK(q) ==
    Finished(q) =>
        /\ request[q].route \in RouteIds
        /\ request[q].route <= lastRoute
        /\ request[q].chosen # Null => request[q].chosen.id <= lastTarget
        /\ ~MayFail => Recorded(q) \/ ~Live(request[q].route) \/ Superseded(q)

\* The counters only go up, and new targets have new ids.
LEMMA IdsAdvance ==
  ASSUME StoreInv, [Next]_vars
  PROVE  /\ lastRoute' \in Nat /\ lastRoute <= lastRoute'
         /\ lastTarget' \in Nat /\ lastTarget <= lastTarget'
         /\ \A i \in TargetIds' : i \in TargetIds \/ lastTarget < i
<1> DEFINE Advance == /\ lastRoute' \in Nat /\ lastRoute <= lastRoute'
                      /\ lastTarget' \in Nat /\ lastTarget <= lastTarget'
                      /\ \A i \in TargetIds' : i \in TargetIds \/ lastTarget < i
<1>1. lastRoute \in Nat /\ lastTarget \in Nat
  BY DEF StoreInv, TypeOK
<1>2. ASSUME UNCHANGED <<lastRoute, lastTarget>>, targets' \subseteq targets
      PROVE  Advance
  BY <1>1, <1>2 DEF TargetIds
<1>3. ASSUME NEW kept \in SUBSET targets, NEW n \in RouteIds, NEW input \in Inputs,
             InsertTargets(kept, n, input.surveys),
             lastRoute' \in Nat, lastRoute <= lastRoute'
      PROVE  Advance
  <2> DEFINE new == NewTargets(n, input.surveys, lastTarget)
  <2>1. /\ Cardinality(input.surveys) \in Nat
        /\ \A t \in new : lastTarget < t.id
    BY <1>1, NewTargetsFacts
  <2>2. /\ targets' = kept \cup new
        /\ lastTarget' = lastTarget + Cardinality(input.surveys)
    BY <1>3 DEF InsertTargets, LastTarget
  <2> HIDE DEF new
  <2>3. \A i \in TargetIds' : i \in TargetIds \/ lastTarget < i
    BY <2>1, <2>2 DEF TargetIds
  <2> QED
    BY <1>1, <1>3, <2>1, <2>2, <2>3
<1>4. ASSUME NEW e \in Editors, CreateRoute(e) PROVE Advance
  <2>1. /\ lastRoute + 1 \in RouteIds /\ lastRoute' = lastRoute + 1
        /\ edit[e].input \in Inputs
        /\ InsertTargets(targets, lastRoute + 1, edit[e].input.surveys)
    BY <1>4 DEF StoreInv, EditsOK, CreateRoute
  <2> QED
    BY <1>1, <1>3, <2>1
<1>5. ASSUME NEW e \in Editors, UpdateRoute(e) PROVE Advance
  <2>1. /\ edit[e].route \in RouteIds /\ lastRoute' = lastRoute
        /\ edit[e].input \in Inputs
        /\ InsertTargets(targets \ TargetsOf(edit[e].route), edit[e].route,
                         edit[e].input.surveys)
    BY <1>5 DEF StoreInv, EditsOK, UpdateRoute
  <2> QED
    BY <1>1, <1>3, <2>1
<1>6. ASSUME NEW e \in Editors, DeleteRoute(e) PROVE Advance
  BY <1>2, <1>6 DEF DeleteRoute
<1>7. ASSUME NEW q \in Requests, Redirect(q) PROVE Advance
  BY <1>2, <1>7 DEF Redirect, Locate, ReadTargets, NotFound, StoreStats, Select,
     Decide, tables
<1>8. ASSUME UNCHANGED tables PROVE Advance
  BY <1>2, <1>8 DEF tables
<1>9. ASSUME NEW e \in Editors, Administer(e) PROVE Advance
  <2> HIDE DEF Advance
  <2>1. UNCHANGED tables => Advance
    BY <1>8
  <2> QED
    BY <1>4, <1>5, <1>6, <1>9, <2>1 DEF Administer, Load, Check, Reject
<1> QED
  <2> HIDE DEF Advance
  <2>1. UNCHANGED tables => Advance
    BY <1>8
  <2>2. Advance
    BY <1>7, <1>9, <2>1 DEF Next, OpenConnection, Restart, vars, tables
  <2> QED
    BY <2>2 DEF Advance

\* A decision that is in the log loses its target at most, as long as its
\* route lives (CascadeTargets, DeleteRoute).
LEMMA DecisionKept ==
  ASSUME StoreInv, [Next]_vars, NEW q \in Requests, ~Decide(q),
         decisions[q] \in Decision
  PROVE  \/ decisions'[q] \in Decision /\ decisions'[q].route = decisions[q].route
         \/ routes'[decisions[q].route] = Null
<1> DEFINE r == decisions[q].route
           Goal == \/ decisions'[q] \in Decision /\ decisions'[q].route = r
                   \/ routes'[r] = Null
<1>1. r \in RouteIds
  BY DEF Decision
<1>2. ASSUME UNCHANGED decisions PROVE Goal
  BY <1>2
<1>3. ASSUME NEW gone, NEW fk \in BOOLEAN, CascadeTargets(gone, fk) PROVE Goal
  <2>1. decisions'[q] = decisions[q]
        \/ decisions'[q] = [decisions[q] EXCEPT !.target = Null]
    BY <1>3 DEF CascadeTargets
  <2> QED
    BY <2>1 DEF Decision
<1>4. ASSUME NEW e \in Editors, UpdateRoute(e) PROVE Goal
  <2>1. PICK fk \in ForeignKeys : CascadeTargets(TargetsOf(edit[e].route), fk)
    BY <1>4 DEF UpdateRoute
  <2>2. fk \in BOOLEAN
    BY DEF ForeignKeys
  <2> HIDE DEF Goal
  <2> QED
    BY <1>3, <2>1, <2>2
<1>5. ASSUME NEW e \in Editors, DeleteRoute(e) PROVE Goal
  <2>1. /\ routes' = [routes EXCEPT ![edit[e].route] = Null]
        /\ \E fk \in ForeignKeys : decisions' = [p \in Requests |->
             IF fk /\ decisions[p] # Null /\ decisions[p].route = edit[e].route
             THEN Null ELSE decisions[p]]
    BY <1>5 DEF DeleteRoute
  <2>2. decisions'[q] = decisions[q] \/ r = edit[e].route
    BY <2>1
  <2> QED
    BY <1>1, <2>1, <2>2 DEF StoreInv, TypeOK
<1>6. ASSUME NEW p \in Requests, p # q, Decide(p) PROVE Goal
  <2>1. decisions'[q] = decisions[q]
    BY <1>6 DEF Decide, StoreInv, TypeOK
  <2> QED
    BY <2>1
<1>7. ASSUME NEW p \in Requests, Redirect(p) PROVE Goal
  <2>1. CASE Decide(p)
    BY <1>6, <2>1
  <2>2. CASE ~Decide(p)
    BY <1>2, <1>7, <2>2 DEF Redirect, Locate, ReadTargets, NotFound, StoreStats,
       Select, tables
  <2> QED
    BY <2>1, <2>2
<1>8. ASSUME NEW e \in Editors, Administer(e) PROVE Goal
  <2> HIDE DEF Goal
  <2>1. UNCHANGED decisions => Goal
    BY <1>2
  <2> QED
    BY <1>4, <1>5, <1>8, <2>1 DEF Administer, CreateRoute, Load, Check, Reject, tables
<1>9. Goal
  <2> HIDE DEF Goal
  <2>1. UNCHANGED decisions => Goal
    BY <1>2
  <2> QED
    BY <1>7, <1>8, <2>1 DEF Next, OpenConnection, Restart, vars, tables
<1> QED
  BY <1>9

\* One step of another handler: the outcome of a finished request stays.
LEMMA OutcomeKept ==
  ASSUME StoreInv, [Next]_vars, NEW q \in Requests, OutcomeOK(q), Finished(q),
         request'[q] = request[q], ~Decide(q)
  PROVE  OutcomeOK(q)'
<1> DEFINE r == request[q].route
           c == request[q].chosen
<1>1. /\ r \in RouteIds /\ r <= lastRoute /\ c \in Target \cup {Null}
      /\ c # Null => c.id <= lastTarget
  BY DEF OutcomeOK, StoreInv, TypeOK, Request
<1>2. r \in Nat /\ lastRoute \in Nat /\ lastTarget \in Nat
  BY <1>1, IdsAssumption DEF StoreInv, TypeOK
<1>3. /\ lastRoute' \in Nat /\ lastRoute <= lastRoute'
      /\ lastTarget' \in Nat /\ lastTarget <= lastTarget'
      /\ \A i \in TargetIds' : i \in TargetIds \/ lastTarget < i
  BY IdsAdvance
<1>4. ~Live(r) => routes'[r] = Null
  BY <1>1, DeletedStay DEF Live
<1>5. c # Null => c.id \in Nat
  BY <1>1 DEF Target
<1>6. c # Null /\ c.id \notin TargetIds => c.id \notin TargetIds'
  BY <1>1, <1>2, <1>3, <1>5
<1>7. decisions[q] \in Decision /\ decisions[q].route = r =>
        \/ decisions'[q] \in Decision /\ decisions'[q].route = r
        \/ routes'[r] = Null
  BY DecisionKept
<1>8. ASSUME ~MayFail
      PROVE  \/ decisions'[q] \in Decision /\ decisions'[q].route = r
             \/ routes'[r] = Null
             \/ c # Null /\ c.id \notin TargetIds'
  BY <1>4, <1>6, <1>7, <1>8 DEF OutcomeOK, Recorded, Superseded, Live
<1>9. /\ request'[q].route \in RouteIds
      /\ request'[q].route <= lastRoute'
      /\ request'[q].chosen # Null => request'[q].chosen.id <= lastTarget'
  BY <1>1, <1>2, <1>3, <1>5
<1>10. ~MayFail => \/ decisions'[q] \in Decision /\ decisions'[q].route = request'[q].route
                   \/ routes'[request'[q].route] = Null
                   \/ request'[q].chosen # Null /\ request'[q].chosen.id \notin TargetIds'
  BY <1>8
<1> QED
  BY <1>9, <1>10 DEF OutcomeOK, Recorded, Superseded, Live

\* InsertRedirectDecision, when the request knows what it read.
LEMMA DecideOutcome ==
  ASSUME StoreInv, NEW q \in Requests, Decide(q)
  PROVE  OutcomeOK(q)'
<1> DEFINE v == request[q]
           d == DecisionOf(q)
<1>1. /\ v \in Request /\ v.pc = "deciding"
      /\ v.route \in RouteIds /\ v.route <= lastRoute
      /\ v.chosen \in v.targets \cup {Null}
      /\ \A t \in v.targets : t.id <= lastTarget
  BY DEF Decide, StoreInv, TypeOK, HandlersOK, HandlerOK
<1>2. v.chosen # Null => v.chosen \in Target /\ v.chosen.id <= lastTarget
  BY <1>1 DEF Request
<1>3. /\ d \in Decision /\ d.route = v.route
      /\ v.chosen # Null => d.target = v.chosen.id
      /\ v.chosen = Null => d.target = Null
  BY <1>1, <1>2 DEF DecisionOf, Decision, Request, Target
<1>4. request'[q].route = v.route /\ request'[q].chosen = v.chosen
  BY DEF Decide, Reply, StoreInv, TypeOK, Request
<1>5. UNCHANGED <<routes, targets, lastRoute, lastTarget>>
  BY DEF Decide
<1> HIDE DEF d
<1>6. ASSUME ~MayFail
      PROVE  \/ decisions'[q] = d
             \/ ~Live(v.route)
             \/ v.chosen # Null /\ v.chosen.id \notin TargetIds
  <2>1. Succeeds = {TRUE}
    BY <1>6 DEF Succeeds
  <2>2. \E fk \in ForeignKeys : decisions' =
          IF fk => Live(d.route) /\ d.target \in TargetIds \cup {Null}
          THEN [decisions EXCEPT ![q] = d] ELSE decisions
    BY <2>1 DEF Decide, d
  <2>3. decisions \in [Requests -> Decision \cup {Null}]
    BY DEF StoreInv, TypeOK
  <2>4. \/ decisions' = [decisions EXCEPT ![q] = d]
        \/ ~(Live(d.route) /\ d.target \in TargetIds \cup {Null})
    BY <2>2
  <2>5. decisions' = [decisions EXCEPT ![q] = d] => decisions'[q] = d
    BY <2>3
  <2> QED
    BY <1>3, <2>4, <2>5
<1>7. ~MayFail => \/ decisions'[q] \in Decision /\ decisions'[q].route = request'[q].route
                  \/ routes'[request'[q].route] = Null
                  \/ request'[q].chosen # Null /\ request'[q].chosen.id \notin TargetIds'
  BY <1>3, <1>4, <1>5, <1>6 DEF Live, TargetIds
<1>8. /\ request'[q].route \in RouteIds
      /\ request'[q].route <= lastRoute'
      /\ request'[q].chosen # Null => request'[q].chosen.id <= lastTarget'
  BY <1>1, <1>2, <1>4, <1>5
<1> QED
  BY <1>7, <1>8 DEF OutcomeOK, Recorded, Superseded, Live

\* A finished request is not touched again, and only Decide finishes one.
LEMMA FinishedByDecide ==
  ASSUME StoreInv, [Next]_vars, NEW q \in Requests, ~Decide(q), Finished(q)'
  PROVE  Finished(q) /\ request'[q] = request[q]
<1> DEFINE Goal == request'[q].pc \in {"redirected", "fallback", "unavailable"} =>
                     request'[q] = request[q]
<1>1. request \in [Requests -> Request]
  BY DEF StoreInv, TypeOK
<1>2. ASSUME UNCHANGED request PROVE Goal
  BY <1>2
<1>3. ASSUME NEW p \in Requests, p # q, NEW v, request' = [request EXCEPT ![p] = v]
      PROVE  Goal
  BY <1>1, <1>3
<1>4. ASSUME NEW v \in Request,
             v.pc \notin {"redirected", "fallback", "unavailable"},
             request' = [request EXCEPT ![q] = v]
      PROVE  Goal
  BY <1>1, <1>4
<1>5. ASSUME NEW p \in Requests, Redirect(p) PROVE Goal
  <2>1. CASE p # q
    <3>1. \E v : request' = [request EXCEPT ![p] = v]
      BY <1>1, <1>5 DEF Redirect, Locate, ReadTargets, NotFound, StoreStats, Select,
         Decide, Reply
    <3> HIDE DEF Goal
    <3> QED
      BY <1>3, <2>1, <3>1
  <2>2. CASE p = q
    <3>1. request[q] \in Request
      BY <1>1
    <3>2. request'[q].pc \in {"located", "counting", "deciding", "shown", "notFound"}
      <4>1. CASE Locate(q)
        BY <1>1, <3>1, <4>1 DEF Locate, Request
      <4>2. CASE ReadTargets(q)
        BY <1>1, <3>1, <4>2 DEF ReadTargets, Request
      <4>3. CASE NotFound(q)
        BY <1>1, <3>1, <4>3 DEF NotFound, Reply, Request
      <4>4. CASE StoreStats(q)
        BY <1>1, <3>1, <4>4 DEF StoreStats, Request
      <4>5. CASE Select(q)
        BY <1>1, <3>1, <4>5 DEF Select, Reply, Request
      <4> QED
        BY <1>5, <2>2, <4>1, <4>2, <4>3, <4>4, <4>5 DEF Redirect
    <3> QED
      BY <3>2
  <2> QED
    BY <2>1, <2>2
<1>6. ASSUME Restart PROVE Goal
  <2>1. request'[q] = request[q] \/ request'[q].pc = "lost"
    BY <1>1, <1>6 DEF Restart, Request
  <2> QED
    BY <2>1
<1>7. Goal
  <2> HIDE DEF Goal
  <2>1. ASSUME NEW e \in Editors, Administer(e) PROVE UNCHANGED request
    BY <2>1 DEF Administer, Load, Check, CreateRoute, UpdateRoute, DeleteRoute, Reject
  <2> QED
    BY <1>2, <1>5, <1>6, <2>1 DEF Next, OpenConnection, vars
<1> QED
  BY <1>7 DEF Finished

\* With no failing statement, the only redirects that the log lacks are those
\* whose route was deleted, or whose target a save replaced, meanwhile: the
\* limits of "Log every redirect decision" (DESIGN.md), which RedirectsLogged
\* states without them.
THEOREM UnrecordedWereReplaced == Spec => []UnrecordedOnlyIfReplaced
<1> DEFINE Outcomes == \A q \in Requests : OutcomeOK(q)
<1>1. Init => Outcomes
  BY DEF Init, OutcomeOK, Finished
<1>2. ASSUME StoreInv, [Next]_vars, Outcomes PROVE Outcomes'
  <2> SUFFICES ASSUME NEW q \in Requests PROVE OutcomeOK(q)'
    OBVIOUS
  <2>1. CASE Decide(q)
    BY <1>2, <2>1, DecideOutcome
  <2>2. CASE ~Finished(q)'
    BY <2>2 DEF OutcomeOK
  <2>3. CASE ~Decide(q) /\ Finished(q)'
    BY <1>2, <2>3, FinishedByDecide, OutcomeKept
  <2> QED
    BY <2>1, <2>2, <2>3
<1>3. Outcomes => UnrecordedOnlyIfReplaced
  BY DEF OutcomeOK, UnrecordedOnlyIfReplaced
<1> HIDE DEF Outcomes
<1> QED
  BY <1>1, <1>2, <1>3, StoreInvariant, PTL DEF Spec

=============================================================================
