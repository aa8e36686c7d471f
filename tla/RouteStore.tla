----------------------------- MODULE RouteStore -----------------------------
(***************************************************************************)
(* The route tables of internal/store/store.go and the HTTP handlers of    *)
(* internal/web/server.go that use them: redirects and simulations read a  *)
(* route, store the statistics of its targets and log a decision, while    *)
(* administrators create, save and delete routes.                          *)
(*                                                                         *)
(* Every SQL statement, and every transaction, is one step; handlers       *)
(* interleave between statements. A statement may fail (a busy database, a *)
(* cancelled context). Foreign keys bind only on the connection on which   *)
(* Migrate switched them on.                                               *)
(***************************************************************************)
EXTENDS Integers, FiniteSets

CONSTANTS
    Requests,     \* visits of /r/<slug> and calls of .../simulate
    Editors,      \* POSTs to /admin/routes and /admin/routes/<id>
    RouteIds,     \* 1, 2, ...: ids of the rows of routes
    Surveys,      \* survey ids
    Slugs,
    Inputs,       \* the forms that buildRouteInput may accept
    Null,         \* SQL NULL, and the absence of a row
    MayFail       \* whether statements may fail

\* What buildRouteInput lets through: at least one survey, and as many as a
\* form has rows.
ASSUME InputsAssumption ==
    /\ Inputs \subseteq [slug : Slugs, enabled : BOOLEAN, fallback : BOOLEAN,
                         surveys : (SUBSET Surveys) \ {{}}]
    /\ \A input \in Inputs : IsFiniteSet(input.surveys)

ASSUME IdsAssumption ==
    /\ RouteIds \subseteq Nat \ {0}
    /\ 1 \in RouteIds
    /\ Surveys \subseteq Nat
    /\ MayFail \in BOOLEAN
    /\ Null \notin Inputs
    /\ Null \notin Nat

VARIABLES
    routes,       \* table routes: the last saved input, or Null
    targets,      \* table route_targets
    stats,        \* table target_stats
    decisions,    \* table redirect_decisions, by request
    lastRoute,    \* sqlite_sequence of routes
    lastTarget,   \* sqlite_sequence of route_targets
    mixed,        \* the pool has held a connection without foreign keys
    request,      \* redirect and routeSimulation handlers
    edit          \* routes and routeDetail handlers

tables == <<routes, targets, stats, decisions, lastRoute, lastTarget>>

vars == <<routes, targets, stats, decisions, lastRoute, lastTarget, mixed,
          request, edit>>

-----------------------------------------------------------------------------
Target == [id : Nat \ {0}, route : RouteIds, survey : Surveys]

\* survey is what was counted, which the row itself does not record.
Stat == [target : Nat \ {0}, survey : Surveys]

\* survey is the one the respondent was sent to.
Decision == [route : RouteIds, target : (Nat \ {0}) \cup {Null},
             survey : Surveys \cup {Null},
             status : {"redirected", "fallback", "failed"}]

Answered == {"redirected", "fallback", "unavailable", "shown", "notFound", "lost"}

Request == [pc : {"arriving", "located", "counting", "deciding"} \cup Answered,
            simulation : BOOLEAN,
            route : RouteIds \cup {Null},
            row : Inputs \cup {Null},       \* the row of routes, as read
            since : Nat,                    \* history: lastTarget at that time
            targets : SUBSET Target,        \* route.Targets, as read
            left : SUBSET Target,           \* candidates not yet stored
            chosen : Target \cup {Null}]

Edit == [pc : {"posted", "loaded", "checked", "saved", "rejected", "lost"},
         op : {"create", "update", "delete"},
         route : RouteIds \cup {Null},
         input : Inputs \cup {Null}]

TypeOK ==
    /\ routes \in [RouteIds -> Inputs \cup {Null}]
    /\ targets \in SUBSET Target
    /\ stats \in SUBSET Stat
    /\ decisions \in [Requests -> Decision \cup {Null}]
    /\ lastRoute \in Nat
    /\ lastTarget \in Nat
    /\ mixed \in BOOLEAN
    /\ request \in [Requests -> Request]
    /\ edit \in [Editors -> Edit]

Live(r) == routes[r] # Null

TargetIds == {t.id : t \in targets}

TargetsOf(r) == {t \in targets : t.route = r}

\* One row per survey; ids in the order of the INSERTs.
NewTargets(r, surveys, last) ==
    {[id |-> last + Cardinality({s \in surveys : s <= survey}),
      route |-> r, survey |-> survey] : survey \in surveys}

\* A database in which one route was created.
Init ==
    \E input \in Inputs :
        /\ routes = [r \in RouteIds |-> IF r = 1 THEN input ELSE Null]
        /\ targets = NewTargets(1, input.surveys, 0)
        /\ stats = {}
        /\ decisions = [q \in Requests |-> Null]
        /\ lastRoute = 1
        /\ lastTarget = Cardinality(input.surveys)
        /\ mixed = FALSE
        /\ request = [q \in Requests |->
              [pc |-> "arriving", simulation |-> FALSE, route |-> Null,
               row |-> Null, since |-> 0, targets |-> {}, left |-> {},
               chosen |-> Null]]
        /\ edit = [e \in Editors |->
              [pc |-> "posted", op |-> "create", route |-> Null, input |-> Null]]

-----------------------------------------------------------------------------
(***************************************************************************)
(* Connections. database/sql opens another one when a statement finds all  *)
(* of them busy; PRAGMA foreign_keys = ON ran on the first one only.       *)
(***************************************************************************)
Unfinished ==
    {q \in Requests : request[q].pc \notin Answered} \cup
    {e \in Editors : edit[e].pc \in {"posted", "loaded", "checked"}}

OpenConnection ==
    /\ ~mixed
    /\ Cardinality(Unfinished) >= 2
    /\ mixed' = TRUE
    /\ UNCHANGED <<tables, request, edit>>

\* Whether the connection that runs a statement enforces foreign keys.
ForeignKeys == IF mixed THEN BOOLEAN ELSE {TRUE}

\* Whether a statement succeeds.
Succeeds == IF MayFail THEN BOOLEAN ELSE {TRUE}

-----------------------------------------------------------------------------
(***************************************************************************)
(* The statements that change rows.                                        *)
(***************************************************************************)
\* Mutant: target_stats has no FOREIGN KEY clause.
CascadeWithoutStats(gone, fk) ==
    LET ids == {t.id : t \in gone} IN
    /\ stats' = stats
    /\ decisions' = [q \in Requests |->
          IF fk /\ decisions[q] # Null /\ decisions[q].target \in ids
          THEN [decisions[q] EXCEPT !.target = Null] ELSE decisions[q]]

\* What deleting the targets gone does to the tables that refer to them:
\* statistics cascade, decisions are set to NULL.
CascadeTargets(gone, fk) ==
    LET ids == {t.id : t \in gone} IN
    /\ stats' = IF fk THEN {s \in stats : s.target \notin ids} ELSE stats
    /\ decisions' = [q \in Requests |->
          IF fk /\ decisions[q] # Null /\ decisions[q].target \in ids
          THEN [decisions[q] EXCEPT !.target = Null] ELSE decisions[q]]

\* Mutant: without AUTOINCREMENT an id can be given out again.
HighestTarget(kept) ==
    IF kept = {} THEN 0
    ELSE CHOOSE n \in {t.id : t \in kept} : \A t \in kept : t.id <= n

\* The last id given out, when the rows kept are left in route_targets.
LastTarget(kept) == lastTarget

\* Mutant: the DELETE of the targets that are replaced is missing.
InsertBesideOld(kept, r, surveys) ==
    /\ targets' = targets \cup NewTargets(r, surveys, LastTarget(kept))
    /\ lastTarget' = LastTarget(kept) + Cardinality(surveys)

\* The INSERTs of the targets of route r beside the rows kept.
InsertTargets(kept, r, surveys) ==
    /\ targets' = kept \cup NewTargets(r, surveys, LastTarget(kept))
    /\ lastTarget' = LastTarget(kept) + Cardinality(surveys)

\* Mutant: slugs are not UNIQUE in the table.
SlugUnchecked(slug, exclude) == TRUE

\* UNIQUE(slug), for a row that takes the place of row exclude.
SlugFree(slug, exclude) ==
    \A r \in RouteIds : Live(r) /\ r # exclude => routes[r].slug # slug

-----------------------------------------------------------------------------
(***************************************************************************)
(* redirect and routeSimulation.                                           *)
(***************************************************************************)
Reply(q, pc) == request' = [request EXCEPT ![q].pc = pc]

\* GetRouteBySlug and GetRoute, first query: the row of routes.
Locate(q) ==
    /\ request[q].pc = "arriving"
    /\ \E r \in RouteIds, simulation \in BOOLEAN :
         /\ Live(r)
         /\ request' = [request EXCEPT ![q] =
              [@ EXCEPT !.pc = "located", !.simulation = simulation,
                        !.route = r, !.row = routes[r], !.since = lastTarget]]
    /\ UNCHANGED <<tables, mixed, edit>>

\* scanRoute, second query: the targets. A disabled route redirects nobody,
\* but can be simulated.
ReadTargets(q) ==
    /\ request[q].pc = "located"
    /\ request[q].simulation \/ request[q].row.enabled
    /\ request' = [request EXCEPT ![q] =
         [@ EXCEPT !.pc = "counting", !.targets = TargetsOf(request[q].route),
                   !.left = TargetsOf(request[q].route)]]
    /\ UNCHANGED <<tables, mixed, edit>>

\* No such slug or id, a query that fails, or a disabled route.
NotFound(q) ==
    /\ \/ request[q].pc = "arriving"
       \/ request[q].pc = "located" /\ MayFail
       \/ /\ request[q].pc = "located"
          /\ ~request[q].simulation /\ ~request[q].row.enabled
    /\ Reply(q, "notFound")
    /\ UNCHANGED <<tables, mixed, edit>>

\* Candidates keep the order of the query.
NextCandidate(left) == CHOOSE t \in left : \A u \in left : t.survey <= u.survey

\* Mutant: an upsert that fails is tried again.
StoreStatsRetrying(q) ==
    /\ request[q].pc = "counting"
    /\ request[q].left # {}
    /\ LET t == NextCandidate(request[q].left) IN
       \E fk \in ForeignKeys, ok \in Succeeds :
         LET stored == ok /\ (fk => t.id \in TargetIds) IN
         /\ stats' = IF stored
                     THEN {s \in stats : s.target # t.id} \cup
                          {[target |-> t.id, survey |-> t.survey]}
                     ELSE stats
         /\ request' = IF stored THEN [request EXCEPT ![q].left = @ \ {t}]
                       ELSE request
    /\ UNCHANGED <<routes, targets, decisions, lastRoute, lastTarget, mixed, edit>>

\* evaluateRoute: UpsertTargetStats of the next candidate. An error is logged.
StoreStats(q) ==
    /\ request[q].pc = "counting"
    /\ request[q].left # {}
    /\ LET t == NextCandidate(request[q].left) IN
       /\ request' = [request EXCEPT ![q].left = @ \ {t}]
       /\ \E fk \in ForeignKeys, ok \in Succeeds :
            stats' = IF ok /\ (fk => t.id \in TargetIds)
                     THEN {s \in stats : s.target # t.id} \cup
                          {[target |-> t.id, survey |-> t.survey]}
                     ELSE stats
    /\ UNCHANGED <<routes, targets, decisions, lastRoute, lastTarget, mixed, edit>>

\* Select: one of the targets read, or none when all of them are ineligible.
Select(q) ==
    /\ request[q].pc = "counting"
    /\ request[q].left = {}
    /\ IF request[q].simulation
       THEN Reply(q, "shown")
       ELSE \E chosen \in request[q].targets \cup {Null} :
              request' = [request EXCEPT ![q].pc = "deciding",
                                         ![q].chosen = chosen]
    /\ UNCHANGED <<tables, mixed, edit>>

\* Mutant: a decision without a target is written with target 0.
DecisionWithZero(q) ==
    LET chosen == request[q].chosen IN
    IF chosen # Null
    THEN [route |-> request[q].route, target |-> chosen.id,
          survey |-> chosen.survey, status |-> "redirected"]
    ELSE [route |-> request[q].route, target |-> 0, survey |-> Null,
          status |-> IF request[q].row.fallback THEN "fallback" ELSE "failed"]

\* The decision that redirect records.
DecisionOf(q) ==
    LET chosen == request[q].chosen IN
    IF chosen # Null
    THEN [route |-> request[q].route, target |-> chosen.id,
          survey |-> chosen.survey, status |-> "redirected"]
    ELSE [route |-> request[q].route, target |-> Null, survey |-> Null,
          status |-> IF request[q].row.fallback THEN "fallback" ELSE "failed"]

\* InsertRedirectDecision, whose error is ignored, and the answer.
Decide(q) ==
    /\ request[q].pc = "deciding"
    /\ LET d == DecisionOf(q) IN
       /\ Reply(q, IF d.status = "failed" THEN "unavailable" ELSE d.status)
       /\ \E fk \in ForeignKeys, ok \in Succeeds :
            decisions' =
              IF ok /\ (fk => Live(d.route) /\ d.target \in TargetIds \cup {Null})
              THEN [decisions EXCEPT ![q] = d] ELSE decisions
    /\ UNCHANGED <<routes, targets, stats, lastRoute, lastTarget, mixed, edit>>

-----------------------------------------------------------------------------
(***************************************************************************)
(* routes and routeDetail.                                                 *)
(***************************************************************************)
\* POST /admin/routes/<id>: GetRoute, then the action of the form.
Load(e) ==
    /\ edit[e].pc = "posted"
    /\ \E r \in RouteIds, op \in {"update", "delete"} :
         /\ Live(r)
         /\ edit' = [edit EXCEPT ![e] =
              [@ EXCEPT !.pc = "loaded", !.op = op, !.route = r]]
    /\ UNCHANGED <<tables, mixed, request>>

\* buildRouteInput: validates the form and checks the slug (RouteSlugTaken).
Check(e) ==
    /\ \/ edit[e].pc = "posted"
       \/ edit[e].pc = "loaded" /\ edit[e].op = "update"
    /\ \E input \in Inputs :
         /\ \A r \in RouteIds : Live(r) /\ r # edit[e].route =>
              routes[r].slug # input.slug
         /\ edit' = [edit EXCEPT ![e] = [@ EXCEPT !.pc = "checked", !.input = input]]
    /\ UNCHANGED <<tables, mixed, request>>

\* CreateRoute, one transaction.
CreateRoute(e) ==
    /\ edit[e].pc = "checked"
    /\ edit[e].op = "create"
    /\ LET r == lastRoute + 1
           input == edit[e].input IN
       /\ r \in RouteIds
       /\ SlugFree(input.slug, r)
       /\ routes' = [routes EXCEPT ![r] = input]
       /\ lastRoute' = r
       /\ InsertTargets(targets, r, input.surveys)
    /\ edit' = [edit EXCEPT ![e].pc = "saved"]
    /\ UNCHANGED <<stats, decisions, mixed, request>>

\* Mutant: no transaction, and an INSERT fails after the DELETE.
UpdateRouteUnprotected(e) ==
    /\ edit[e].pc = "checked"
    /\ edit[e].op = "update"
    /\ Live(edit[e].route)
    /\ SlugFree(edit[e].input.slug, edit[e].route)
    /\ routes' = [routes EXCEPT ![edit[e].route] = edit[e].input]
    /\ targets' = targets \ TargetsOf(edit[e].route)
    /\ \E fk \in ForeignKeys : CascadeTargets(TargetsOf(edit[e].route), fk)
    /\ edit' = [edit EXCEPT ![e].pc = "rejected"]
    /\ UNCHANGED <<lastRoute, lastTarget, mixed, request>>

\* Mutant: an UPDATE that finds no row is not an error.
UpdateRouteUnaffected(e) ==
    /\ edit[e].pc = "checked"
    /\ edit[e].op = "update"
    /\ LET r == edit[e].route
           input == edit[e].input IN
       \E fk \in ForeignKeys :
         /\ fk => Live(r)
         /\ SlugFree(input.slug, r)
         /\ routes' = IF Live(r) THEN [routes EXCEPT ![r] = input] ELSE routes
         /\ CascadeTargets(TargetsOf(r), fk)
         /\ InsertTargets(targets \ TargetsOf(r), r, input.surveys)
    /\ edit' = [edit EXCEPT ![e].pc = "saved"]
    /\ UNCHANGED <<lastRoute, mixed, request>>

\* UpdateRoute, one transaction: the row, if it is still there, and all of
\* its targets, deleted and inserted again under new ids.
UpdateRoute(e) ==
    /\ edit[e].pc = "checked"
    /\ edit[e].op = "update"
    /\ LET r == edit[e].route
           input == edit[e].input IN
       /\ Live(r)
       /\ SlugFree(input.slug, r)
       /\ routes' = [routes EXCEPT ![r] = input]
       /\ InsertTargets(targets \ TargetsOf(r), r, input.surveys)
       /\ \E fk \in ForeignKeys : CascadeTargets(TargetsOf(r), fk)
    /\ edit' = [edit EXCEPT ![e].pc = "saved"]
    /\ UNCHANGED <<lastRoute, mixed, request>>

\* DeleteRoute: the targets, their statistics and the decisions cascade.
DeleteRoute(e) ==
    /\ edit[e].pc = "loaded"
    /\ edit[e].op = "delete"
    /\ LET r == edit[e].route IN
       /\ Live(r)
       /\ routes' = [routes EXCEPT ![r] = Null]
       /\ \E fk \in ForeignKeys :
            LET gone == IF fk THEN TargetsOf(r) ELSE {} IN
            /\ targets' = targets \ gone
            /\ stats' = {s \in stats : s.target \notin {t.id : t \in gone}}
            /\ decisions' = [q \in Requests |->
                 IF fk /\ decisions[q] # Null /\ decisions[q].route = r
                 THEN Null ELSE decisions[q]]
    /\ edit' = [edit EXCEPT ![e].pc = "saved"]
    /\ UNCHANGED <<lastRoute, lastTarget, mixed, request>>

\* The form is invalid, the slug is taken, the route is gone, or a statement
\* fails: nothing is written.
Reject(e) ==
    /\ \/ edit[e].pc \in {"posted", "loaded"}
       \/ /\ edit[e].pc = "checked"
          /\ \/ MayFail
             \/ ~SlugFree(edit[e].input.slug, edit[e].route)
             \/ edit[e].op = "update" /\ ~Live(edit[e].route)
    /\ edit' = [edit EXCEPT ![e].pc = "rejected"]
    /\ UNCHANGED <<tables, mixed, request>>

-----------------------------------------------------------------------------
\* The process is killed and started again: the tables survive, the handlers
\* do not, and Migrate runs on the first connection of a new pool.
Restart ==
    /\ Unfinished # {}
    /\ mixed' = FALSE
    /\ request' = [q \in Requests |->
         IF request[q].pc \in {"located", "counting", "deciding"}
         THEN [request[q] EXCEPT !.pc = "lost"] ELSE request[q]]
    /\ edit' = [e \in Editors |->
         IF edit[e].pc \in {"loaded", "checked"}
         THEN [edit[e] EXCEPT !.pc = "lost"] ELSE edit[e]]
    /\ UNCHANGED tables

Redirect(q) ==
    \/ Locate(q) \/ ReadTargets(q) \/ NotFound(q)
    \/ StoreStats(q) \/ Select(q) \/ Decide(q)

Administer(e) ==
    \/ Load(e) \/ Check(e)
    \/ CreateRoute(e) \/ UpdateRoute(e) \/ DeleteRoute(e) \/ Reject(e)

Next ==
    \/ \E q \in Requests : Redirect(q)
    \/ \E e \in Editors : Administer(e)
    \/ OpenConnection
    \/ Restart

Spec == Init /\ [][Next]_vars

\* The goroutine of a request that has begun is scheduled; its statements
\* and its statistics come back (RequestsReturn of StatsCache).
FairSpec ==
    /\ Spec
    /\ \A q \in Requests : WF_vars(request[q].pc # "arriving" /\ Redirect(q))

-----------------------------------------------------------------------------
(***************************************************************************)
(* What the tables and the answers promise.                                *)
(***************************************************************************)
\* Two routes never share a slug, although the handlers check it in one
\* statement and write it in another (buildRouteInput, CreateRoute).
SlugsUnique ==
    \A r1, r2 \in RouteIds : Live(r1) /\ Live(r2) /\ r1 # r2 =>
        routes[r1].slug # routes[r2].slug

\* A route has exactly the targets of its last successful save, one per
\* survey, whatever saves failed or were overtaken (UpdateRoute).
TargetsAsSaved ==
    \A r \in RouteIds : Live(r) =>
        /\ {t.survey : t \in TargetsOf(r)} = routes[r].surveys
        /\ Cardinality(TargetsOf(r)) = Cardinality(routes[r].surveys)

\* A handler keeps target ids across a save that replaces the targets. What
\* it then stores is never attributed to another survey.
IdsNameTheirSurvey ==
    \A t \in targets :
        /\ \A s \in stats : s.target = t.id => s.survey = t.survey
        /\ \A q \in Requests :
             decisions[q] # Null /\ decisions[q].target = t.id =>
                 decisions[q].survey = t.survey /\ decisions[q].route = t.route

\* The row and the targets of a route are read by two queries, and saves and a
\* deletion may fall between them. A handler goes on with the targets of the
\* row it read, with targets of later saves only, or with none because the
\* route was deleted: never with old and new ones together, and never with
\* none while the route exists (scanRoute, UpdateRoute).
Agree(v, read) ==
    \/ {t.survey : t \in read} = v.row.surveys
    \/ read # {} /\ \A t \in read : v.since < t.id
    \/ read = {} /\ ~Live(v.route)

RowAndTargetsAgree ==
    \A q \in Requests : request[q].pc \in {"counting", "deciding"} =>
        Agree(request[q], request[q].targets)

\* Every foreign key names a row, as the FOREIGN KEY clauses of the schema
\* declare (Migrate).
ReferencesHold ==
    /\ \A t \in targets : Live(t.route)
    /\ \A s \in stats : s.target \in TargetIds
    /\ \A q \in Requests : decisions[q] # Null =>
         /\ Live(decisions[q].route)
         /\ decisions[q].target \in TargetIds \cup {Null}

\* As long as every connection enforces foreign keys, no statement breaks a
\* reference, however late the handler that issues it.
EnforcedReferencesHold == [][~mixed /\ ReferencesHold => ReferencesHold']_vars

\* A deleted route stays deleted and gains no targets, on any connection: a
\* save that was under way is refused (ensureRowsAffected).
DeletedRoutesStayDeleted ==
    [][\A r \in RouteIds : r <= lastRoute /\ ~Live(r) =>
          ~Live(r)' /\ TargetsOf(r)' \subseteq TargetsOf(r)]_vars

\* A request that found its route is answered, unless the process dies.
RequestsAnswered ==
    \A q \in Requests : request[q].pc = "located" ~> request[q].pc \in Answered

\* DESIGN.md: "Log every redirect decision". Even while the route exists, a
\* save replaces its targets, and the decision that names an old one is lost.
RedirectsLogged ==
    [][\A q \in Requests :
          /\ request[q].pc # "redirected" /\ request'[q].pc = "redirected"
          /\ Live(request[q].route)
          => decisions'[q] # Null]_vars

=============================================================================
