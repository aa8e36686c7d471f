# A TLA+ model of Limesurvey-Redirector

Limesurvey-Redirector is a Go web server that sends each visitor of
`/r/<slug>` to one of several LimeSurvey surveys, so that their response counts
stay balanced. This directory models its stateful core in TLA+, checks it with
TLC on small instances, and proves with TLAPS, for every value of the constants
that the assumptions admit, the safety properties of the statistics cache, of
the RPC sessions behind it, of routing and balance, of the route tables, of the
accounts, of the CSRF cookie and of the route form.

    tlc -workers 2 -config StatsCacheTime.cfg MCStatsCache.tla
    tlapm StatsCacheProofs.tla

`PROJECT.json` lists every run, every theorem, the mutant that each property
detects, and the source lines behind every definition.

## 1. Inventory

| Component | Source | State | Operations | Hard behaviour |
|---|---|---|---|---|
| Statistics cache | `internal/limesurvey/service.go` | `cache`, `inflight`, one mutex | `BuildCandidates`, `GetSurveyState`, `loadSurveyState`, `staleStateOrError` | one goroutine per target and per refresh, two kinds of deadlines, cancellation, `select` between two ready channels |
| RPC clients | `service.go`, `jsonrpc.go` | a session key per refresh | open, two calls, asynchronous release | any call may hang or fail; counts and active flag come from two calls |
| Routing algorithms | `internal/routing/routing.go` | none | `Select`, `scoreCandidate`, `choose` | ties, thresholds on quotients, counts that lag |
| Redirect, simulation | `internal/web/server.go` | one handler per request | `redirect`, `routeSimulation`, `evaluateRoute` | several statements without a transaction, errors ignored |
| Route store | `internal/store/store.go` | `routes`, `route_targets`, `target_stats`, `redirect_decisions` | create, save, delete, upsert, insert | targets are replaced by every save; foreign keys depend on the connection |
| Users and sessions | `server.go`, `internal/auth/auth.go`, `store.go` | `users`, signed cookies | login, logout, `requireAuth`, toggle, reset, delete | check-then-act over several statements, logins overlapping resets |
| Route forms | `server.go`, `templates/route_form.html`, `static/routes.js` | the rows in the browser | edit, `buildRouteInput`, `parseRouteTargets`, `routeFormFromRequest`, `routeFormFromRoute` | two form lists matched by position; a refused form is parsed by other code and shown again |
| Instances, credentials | `server.go`, `store.go`, `internal/credentials` | `instances` | create, list, encrypt | none: single statements |
| CSRF tokens | `internal/web/security.go` | a signed cookie in the browser, a token in every page | `ensureToken`, `validate` | responses of two tabs that cross; a cookie that expires before the session; a secret that changes |
| Headers, validators | `security.go` | none | per request | none |
| Configuration | `internal/config/config.go` | none | `Load` | ranges of the durations |
| Start and shutdown | `cmd/server/main.go` | none | migrate, serve, shut down | handlers cut off between statements |
| Pages, assets | `internal/web/templates`, `static` | none | rendering | a rendered page is out of date when its form comes back |

The parts interact as follows. `redirect` reads a route from the store, calls
`BuildCandidates`, which asks the cache for each target's survey; the cache
either answers or waits for a background refresh, which talks to LimeSurvey.
The handler then upserts the statistics of each candidate, calls `Select`,
inserts the decision and answers. Administrators edit the same tables through
other handlers at the same time. Refresh goroutines outlive the requests that
started them; they share nothing with the store.

What makes each part correct:

- cache: one refresh per survey, no stranded waiter, no step back in time, a
  truthful age, an answer for every request, an end to every refresh;
- routing: over time the surveys stay as balanced as the lag of the samples
  permits;
- store and handlers: unique slugs, targets as last saved, handlers that never see
  half a save, ids that keep their meaning, references that hold, a record of every redirect;
- RPC sessions: every key that was received is handed back, after its last use;
  an answer that is no answer never makes a survey attractive;
- forms: what is stored is what was typed, what is shown can be saved again;
- console: a page that was just loaded is accepted when it is submitted;
- accounts: a reset ends earlier sessions, owners of routes are not deleted.

`PROJECT.json` lists under `hazards` where each of these could go wrong, with
the properties that watch the place, or the reason why none does.

## 2. Modules

| Module | Models | Notes |
|---|---|---|
| `StatsCache` | the statistics cache | state machine with a discrete clock |
| `StatsCacheProofs` | | the inductive invariant and eight theorems about `StatsCache` |
| `SurveyFeed` | what the cache promises to a caller | abstract specification; `StatsCache!ImplementsFeed` is the refinement |
| `SurveyFeedProofs` | | `StatsCache` implements `SurveyFeed` |
| `RpcSession` | the RPC clients, composed with the cache | extends `StatsCache`; joins every step of a refresh to the RPC it makes |
| `RpcSessionProofs` | | `RpcSession` implements `StatsCache`; its four invariants |
| `Routing` | the algorithms | pure operators, no state |
| `Balancing` | `Routing` over time, against surveys and lagging samples | extends `Routing` |
| `BalancingProofs` | | what `Select` chooses; balance |
| `RouteStore` | the route tables and the handlers that use them | state machine, one step per SQL statement |
| `RouteStoreProofs` | | the inductive invariant and eight theorems about `RouteStore` |
| `Accounts` | users, sessions, owned routes | state machine, one step per SQL statement |
| `AccountsProofs` | | the inductive invariant and three theorems about `Accounts` |
| `OrderLemmas` | | finite sets in a total order have a first element and can be sorted, each element once |
| `RouteForms` | CSRF tokens and the route form in one browser | state machine over tabs, cookie, secret and form |
| `RouteFormsProofs` | | an open page is accepted; what the form stores, shows and drafts |
| `MCStatsCache`, `MCRpcSession`, `MCRouteForms`, `MCBalancing`, `MCRouteStore`, `MCAccounts` | | instances for TLC: symmetry sets, forms, routes |

Operators whose comment begins with "Mutant" are deliberate faults, each placed
before the operator it would replace. Nothing in a specification uses them;
they document which mistake a property detects.

### StatsCache

`cache`, `inflight` and `load` are the fields of `Service` and the
`stateLoad` objects; `request` is a `BuildCandidates` call and `get` a
`GetSurveyState` call, one per request and target. An action is what happens
between two points where another goroutine can run: `ReadClock` is
`time.Now()`, which precedes the lock; `Hit`, `Join` and `Spawn` are the three
outcomes of the critical section; `Receive` and `TimeOut` are the two cases of
the `select`; `StartLoad`, `ReadSummary`, `ReadProperties`, `PublishLoad` and
`FailLoad` are the refresh. `Receive` and `TimeOut` are both enabled when the
load is done and the context too, as the language allows.

A sample stands for a `SurveyState`. It records when each of the two RPCs was
answered and when the sample was stored; every property of the cache is about
these three instants. The keys of a load that is not in use are left as they
were, so that a load object is never a fresh allocation; at most `LoadIds` can
be in flight, and since an in-flight entry blocks further refreshes of its key,
one per key is in fact enough.

The clock moves by `Tick`, up to `MaxTime`. Requests begin before
`LastStart = MaxTime - RequestTimeout` and time does not pass `LastStart` until
every goroutine has read its clock: this keeps every deadline on the clock, so
that a wait for a deadline is never cut off by the end of the model. It is a
restriction of the model, not of the program.

### SurveyFeed

The abstract specification has no locks, deadlines or refreshes. `current` is a
register per survey that only moves forward. A call is answered with it at once
(`AnswerNow`), or is opened, remembers the register as it was, and is closed
with that, with the next publication, or with nothing; `Publish` reaches every
call that is open for its survey. `StatsCache` implements it with `cache` as
the register, a goroutine in the `select` as an open call, and the snapshot and
the reply it carries as the two samples it may return. Single flight, the
in-flight map, the clock and the age limits disappear; what remains is what a
caller of `GetSurveyState` can rely on.

### RpcSession

`client` is the client object of each refresh: the RPC under way, what
LimeSurvey has answered to it, the session key and whether LimeSurvey still
knows the session. `Connect`, `TakeKey`, `TakeSummary`, `TakeProperties`,
`Store` and `Fail` are the refresh; five of them are the `StatsCache` actions
`StartLoad`, `ReadSummary`, `ReadProperties`, `PublishLoad` and `FailLoad`
joined to what the client does in them, and `TakeKey` changes nothing in the
cache. LimeSurvey answers at any time or never, refuses a login, and ends a
session whenever it likes (`Expire`). A call on a dead session is answered with
a status text; `parseSummary` makes zero counts of it and `parseActive` an
inactive survey. `shown` records that of the cached state. `DeferredRelease` is
`defer releaseSessionKey`, on every path out of the client's `GetSurveyState`;
`SendRelease` is the goroutine's call, whose outcome is ignored. The two
transports differ only in how they encode this and share the actions.

`received` holds the keys the program was given and has not asked to release.
A login that the deadline cuts off may leave LimeSurvey with a session nobody
knows; the program cannot release it and the model does not follow it.

### Routing and Balancing

`Routing` computes scores as exact fractions. The code divides `float64`
values; the difference shows only on the very edge of the fuzzy window (see
`hazards`). The random choice is the set of the candidates it may return.
Ties are broken by the survey id, which no two candidates of a route share.
`Eligible` has the check of `hard_cap`, but neither `INSERT` of a target names
that column, so the candidates of `Balancing` have no cap.
`Balancing` adds respondents, LimeSurvey's counts and samples that are
refreshed or lost at any moment. It records in `peak` how many respondents a
sample did not show when they were sent, and in `passedOver` the surveys that
were ineligible at some arrival; both appear only in properties.

### RouteStore

`routes`, `targets`, `stats` and `decisions` are the tables, `lastRoute` and
`lastTarget` their AUTOINCREMENT counters. A route's row is the form last
saved: slug, enabled, fallback or not, and its set of surveys (`CreateRoute`
and `UpdateRoute` skip repeated survey ids). A `Stat` and a `Decision` also
carry the survey they were made for, which the program does not store, so that
properties can compare it with the survey of the target named.

A handler is a record of what it has read so far; its field `since`, the last
target id given out when it read the route's row, appears only in
`RowAndTargetsAgree`. `Locate` and `ReadTargets`
are the two queries of `scanRoute`; `StoreStats` is one upsert; `Select` leaves
the choice among the targets read to nondeterminism, since eligibility depends
on LimeSurvey; `Decide` is the insert, whose error is ignored, and the answer.
`CreateRoute` and `UpdateRoute` are transactions and one step each, because
their first statement takes SQLite's write lock. `Reject` covers every early
return of the editing handlers.

`PRAGMA foreign_keys = ON` holds for one connection, and `Migrate` executes it
once. `OpenConnection` adds a connection to the pool when two handlers are
under way; from then on a statement may or may not enforce foreign keys, until
a `Restart`. With `MayFail`, every statement may also fail.

### Accounts

`users` is the table, `cookie` the session each browser holds, `client` the
request it has under way, `tab` a users page and the POST made from it. A
session also carries the row and the password it was issued for. The
interesting handlers take several steps: login (`VerifyPassword`,
`SetSession`), any page behind `requireAuth` (`Authorize`, `MustSession`, then
an effect), toggle (`ToggleRead`, `ToggleWrite`), delete (`DeleteRead`,
`DeleteCount`, `DeleteUser`). `Expire` can happen between any two steps.
The administrator configured in the environment has no row, and appears as
the `tab`s. Names may be used again after a deletion, and session versions then
start again at 1: `ResetEndsSessions` is therefore stated for one row of the
table, and makes no claim across rows.

### RouteForms

One browser: `page` is what each tab shows, `jar` the CSRF cookie, `signedIn`
the session. A request is sent and served in one step and its response
`Arrive`s later, because what a response contains depends on the request's
cookies, and the order in which responses are stored in the browser is what can
go wrong. `Respond` is `render` with `ensureToken`; `Validate` is `validate`,
which comes after `requireAuth` except at login and logout. `excused`
and `crossing` are history variables. `excused` holds the tabs whose token may
no longer match: those that show or await a page when the cookie expires or
`SESSION_SECRET` changes, and those whose visit crossed one whose cookie
arrived later. `crossing` holds the visits that overlap while a response with a
new cookie is on its way. A tab leaves `excused` when its page is asked for
again, or when its own cookie arrives: of visits that cross, the last to arrive
is accepted.

The `Editor` tab may show the route's form. Its rows are edited as
`static/routes.js` allows, and submitted. `ParseRouteTargets`,
`BuildRouteInput` and `Inserted` lead from rows to stored targets,
`FormFromRoute` back, and `DraftRows` from a refused form to the one shown
again; a form is refused for its targets, for its slug, or for a field that is
not modelled (`RefuseForm` is always possible). The text of a field is a
number, `Blank` or `Bad`. `OthersSave` is a save from another browser; the
interleaving of the SQL statements of saves is in `RouteStore`.

## 3. Runs

| Run | Question | Bounds |
|---|---|---|
| `stats_time` | all safety properties of the cache; it implements `SurveyFeed` | two requests, one survey, two refreshes, clock to 4, TTL 1, stale age 2, timeout 1 |
| `stats_liveness` | every request is answered, every refresh ends, every session key is returned, after its last use, and none is dropped meanwhile; dead sessions attract nobody | two requests, one survey, one refresh and one session key at a time, clock to 2 |
| `timeout_race` | violated: an error although the cache is usable | one request, clock to 3 |
| `balance` | balance for every algorithm | two surveys, weights 1 and 2, threshold 1, four respondents |
| `pending_buffer` | violated: pending assignments are never counted | two surveys, three respondents |
| `route_tables` | all properties of the tables and the answers | one request, two editors, three forms, two routes, two surveys |
| `references` | violated: references break with two connections | one request, one editor, no failing statement |
| `decision_log` | violated: a redirect without a record | one request, one editor, no failing statement |
| `route_forms` | pages are accepted; forms are stored, shown and drafted faithfully | two tabs, two surveys, weights 1 and 2, two rows, two tokens, two secrets |
| `user_admin` | sessions and deletion | two browsers, two pages, two rows of one name, three passwords, one route |
| `owner_deleted` | violated: an owner is deleted | one browser, one page, one account |
| `toggle_label` | violated: "Disable" enables | two pages, one account |

Why these bounds suffice. In the cache, a TTL of 1, a stale age of 2 and a
clock of 4 leave room for an entry that is fresh, then expired but usable, then
too old, each seen by a second request while a first one waits; two requests
and two load objects produce every overlap of a refresh with an older or a
newer one. With one survey the map from keys to refreshes is not exercised;
that different keys do not meet is proved (section 4). In the tables, a save takes the place of targets that a handler has
already read, a deletion does the same, and a create takes the slug of a route
that is being renamed; two editors are enough for each race, since every
property relates at most two writers. For accounts, two rows of one name cover
re-creation, and three passwords cover a reset between a login's read and its
cookie and another after it.

In `stats_liveness` one session key at a time means that a login waits, in the
model, until the previous key was sent back. Two sessions share no state in the
program, and `KeysAreUsedBeforeRelease` and `RpcImplementsCache` are proved for
any number of them; the run adds liveness, which cannot be proved, and for that
a release that may never come is the hard case. In `route_forms`, two rows hold
a blank row before a full one, a survey named twice with different weights, and
two surveys in either order; two tokens are enough for one overlap, one expiry
or one change of the secret each followed by a reload; `Bad` is typed as a
weight only, since a blank survey id with a weight is refused in the same way.

Deadlock is not checked where the model really ends: when the clock stops, when
every handler is finished, when every account is deleted and no password is
left, or when the tokens are used up.

### What the violated runs show

- `timeout_race`: `GetSurveyState` passes the entry it read *before* waiting to
  `staleStateOrError`. If the deadline and the end of the refresh coincide, the
  `select` may take the deadline and report an error although the refresh has
  just filled the cache. `OnlyARefreshOvertakes`, which `stats_time` checks and
  `AnswersAreCurrent` proves, shows that there is no other way: whoever is
  refused a usable sample was overtaken by a refresh stored since the call
  began.
- `pending_buffer`: `PendingAssignments` is never set, so the pending buffer of
  the documentation has no effect.
- `references`: foreign keys are switched on for one connection of the pool.
- `decision_log`: a save replaces the ids of all targets. A redirect that chose
  one of the old ids cannot record its decision, and ignores the error.
  `UnrecordedWereReplaced` (section 4) proves how far the loss goes: with no
  statement that fails by itself, only redirects whose route was deleted or
  whose target was replaced are missing from the log.
- `owner_deleted`: the routes of a user are counted in one statement and the
  user is deleted in another.
- `toggle_label`: the form says "Disable" but carries no value, and the handler
  inverts whatever it reads.

### Fairness

`RequestSpec` assumes that time passes, that the goroutines of a request and
the start of a refresh are scheduled, and nothing of LimeSurvey or of the body
of a refresh: that is what `context.WithTimeout` in `BuildCandidates` and the
Go scheduler justify. `RefreshesEnd` assumes in addition (`RefreshFairness`)
that a refresh is scheduled and notices its own deadline (`now >= deadline /\ FailLoad`): both RPC clients attach the
context to their HTTP requests. `RpcSpec` keeps `RequestSpec`'s fairness, so
`RequestsReturn` holds although neither LimeSurvey nor a release goroutine ever
takes a step (README.md:71, "session cleanup runs asynchronously and does not
delay the respondent redirect"); `EveryKeyIsReturned` assumes that refreshes
and release goroutines are scheduled, and nothing of LimeSurvey. `FairSpec` of `RouteStore` assumes that a
handler that has begun continues, which rests on `RequestsReturn` and on
statements that return, with an error or without. No fairness is assumed of
visitors, administrators or answers.

## 4. Proofs

`StatsCacheProofs` proves, for any finite or infinite sets of requests, keys
and loads and any durations that `TimingAssumption` admits:

- `TypeCorrect`: `Spec => []TypeOK`
- `SingleFlightCorrect`: `Spec => []SingleFlight`
- `SamplesAreCoherent`: `Spec => []SamplesCoherent`
- `CacheMovesForward`: `Spec => CacheNeverRegresses`
- `ReadsAreMonotonic`: `Spec => MonotonicReads`
- `LabelsAreRight`: `Spec => LabelsTellTheAge`
- `NobodyStranded`: `Spec => []NoStrandedWaiter`
- `AnswersAreCurrent`: `Spec => OnlyARefreshOvertakes`

The argument has one inductive invariant in five parts, each preserved by every
action given the parts before it:

1. `TypeInv`: types, and refreshes and requests start early enough that their
   deadlines lie on the clock. Without the second half `deadline` could leave
   its type.
2. `FlightInv`: single flight, and every waiter waits for the load in flight
   for its key. Either half fails alone: a load could finish and leave an entry
   behind, or wake nobody.
3. `CacheInv`: every cached sample is coherent and no later than the clock.
4. `LoadInv`: a running refresh has read its answers in order, by its deadline,
   and *after* whatever the cache holds for its key. This is why the cache
   cannot go back: single flight leaves no other refresh of the key that could
   have stored something since.
5. `GetInv`: what a call has read, waits for or last returned is no newer than
   the cache, and a woken caller holds the sample just stored or one that was
   replaced since. Monotonic reads and truthful labels follow from it.

`AnswersAreCurrent` needs one more, `SnapshotInv`: the snapshot of a waiting
call *is* the entry of the cache, or the cache was filled since the call began.
When the fallback finds the snapshot unusable and the cache is usable, the
first case is impossible.

`SurveyFeedProofs` proves `CacheImplementsFeed`: `Spec => ImplementsFeed`. The
step of each action of `StatsCache` is a step of `SurveyFeed` or a stutter. One
more invariant is needed, `FeedInv`: a goroutine outside the `select` carries
no snapshot, and only one that was woken carries a reply, so that a closed call
is really empty. That the one close of `load.done` is a `Publish` to *all* open
calls of the survey and to no other follows from `FlightInv`, and that the
register moves forward from `LoadInv`.

`RpcSessionProofs` proves `RpcImplementsCache`: `RpcSpec => Spec`, which carries
every theorem above over to the composition, and

- `RpcTypeCorrect`: `RpcSpec => []RpcTypeOK`
- `KeysAreUsedBeforeRelease`: `RpcSpec => []NoCallAfterRelease`
- `DeadSessionsNeverAttract`: `RpcSpec => []DeadSessionNeverAttracts`
- `KeysAreKept`: `RpcSpec => []NoKeyIsDropped`

The invariant has two parts. `ClientInv` ties a client's call and answer to the
phase of its refresh, and says that counts taken from a status text mean that
the session is dead, so that the flag read after them is not "active".
`KeyInv` says that no two clients hold one key, and that a key being handed
back is held by no client; without it a release could hit another refresh's
session. `KeysAreKept` is the safety half of `EveryKeyIsReturned`. It is
inductive together with `EmptyHanded`: a refresh that is about to be given a
key has none yet that the new one would replace, and one whose client is done
has none left that its end would lose.

`RouteFormsProofs` proves `PagesAreAccepted`: `FormsSpec =>
[]OpenPagesAreAccepted`, for any number of tabs. The invariant says, for every
tab that is not excused, that its token is the one in the cookie or the one its
own response will set (`PagesMatch`), that a response carries the token of the
cookie it sets (`OwnCookies`), and that a response that sets a cookie finds
every other tab that is not excused, or that sets a cookie too, blank or
crossing it (`NothingToLose`). It also proves, for any
finite set of surveys and any weights and number of rows:

- `FormsTypeCorrect`: `FormsSpec => []FormsTypeOK`
- `FormsStoreWhatIsTyped`: `FormsSpec => SavedAsTyped`
- `ShownFormsSaveNothingNew`: `FormsSpec => ShownIsSaved`
- `DraftsKeepTheirMeaning`: `FormsSpec => DraftMeansTheSame`

`AscendingOrder` says that the positions of the rows that are not blank can be
listed in order, each once; so `Kept` has those rows and no others, in their
order (`KeptRows`), and the first kept row that names a survey is the first row
that names it (`KeptNames`, `InsertedIsTyped`). A drafted form has no blank row
left, so that parsing it again keeps every row where it is (`DraftMeaning`). A
shown route has one row per survey, so that storing it again drops none
(`ShownRoute`). Types alone are not inductive for `ShownIsSaved`: a route whose
algorithm has no weights shows the weights in its table, and saving writes 1.
`FormsInv` adds that such a route has weight 1 everywhere.

`BalancingProofs` proves, for any finite set of targets, any weights,
thresholds and algorithms, and any number of respondents:

- `BalancingTypeCorrect`: `Spec => []TypeOK`
- `BalanceHolds`: `Spec => []Balanced`

The first half is about `Select` alone. Scores are fractions, and `Below` and
`Equal` order them totally and transitively although different fractions can be
equal (`BelowIsTotal`, `BelowIsTransitive`); with ties broken by survey id this
is a strict total order on the eligible candidates (`PairOrder`). So the least
candidate of `choose` exists (`FirstIsLowest`), and whatever `Select` returns is within the threshold of every eligible candidate
(`SelectChooses`). The second half is an induction. `Balanced` needs
`CountsAgree`: a survey's open and completed responses are at most its
responses in all, and a sample never shows more than the survey has. When a
respondent is sent to `s`, what the sample of `s` showed is within the
threshold of what the sample of `t` showed, which is at most what `t` has; the
rest of what `s` has is what `peak` records. No other step sends anyone
(`NobodyArrives`).

`RouteStoreProofs` proves, for any number of routes, requests, editors and
surveys, whether statements may fail or not and whatever the pool holds:

- `StoreTypeCorrect`: `Spec => []TypeOK`
- `SlugsNeverCollide`: `Spec => []SlugsUnique`
- `SavesAreWhole`: `Spec => []TargetsAsSaved`
- `LateWritesNameTheirSurvey`: `Spec => []IdsNameTheirSurvey`
- `HandlersReadWholeSaves`: `Spec => []RowAndTargetsAgree`
- `DeletionIsFinal`: `Spec => DeletedRoutesStayDeleted`
- `EnforcedReferencesStand`: `Spec => EnforcedReferencesHold`
- `UnrecordedWereReplaced`: `Spec => []UnrecordedOnlyIfReplaced`

The invariant `StoreInv` adds three parts to the properties themselves.
`IdsGivenOut`: nothing refers to an id above the AUTOINCREMENT counters, and no
two targets share one; without it a new target could take over the statistics
of an old one. `HandlersOK`: the targets that a handler has read agree with its
row as `RowAndTargetsAgree` says, they are rows of its route, and if a row with
one of their ids is still there, it is the same row; until it reads them, the
targets of the route are those of the row it read, or all of them are younger,
or the route is gone. That makes `IdsNameTheirSurvey` inductive: a handler's copy of a target
may be long gone, but its id never means anything else. `EditsOK`: what an
editing handler has checked is what it writes. `Rank` shows that the ids a save
gives its targets are distinct and new. `UnrecordedOnlyIfReplaced` is stated in
the proof module, for instances without failing statements. A decision that is
missing stays excused because deleted routes and replaced targets do not come
back (`DeletedStay`, `IdsAdvance`), and one that was recorded loses at most its
target as long as its route lives (`DecisionKept`).

`AccountsProofs` proves, for any number of browsers, pages and rows:

- `AccountsTypeCorrect`: `Spec => []TypeOK`
- `ResetsEndSessions`: `Spec => []ResetEndsSessions`
- `CountsProtectOwners`: `Spec => CountedRoutesBlockDeletion`

`ResetEndsSessions` alone is not inductive: a login reads the version and the
password before it sets the cookie. `SessionOK` says of cookies and of logins
under way that their version is at most that of their row, and that equal
versions mean equal passwords. `TabOK` says that a page between its count and
its deletion is only ever overtaken by routes younger than the count.

The proofs added these assumptions to the modules, which the code justifies: a form names
finitely many surveys (`InputsAssumption`), route ids start at 1, as SQLite's
counter does (`IdsAssumption`), a route has finitely many targets
(`BalancingAssumption`), the surveys of a form are chosen among finitely many,
and the absence of a cookie, route or form is none (`FormsAssumption`). `Kept`
and `FormFromRoute` list what they keep by `Ascending` positions, not by the
library's sort of some sequence, since the provers have no definition of the
latter.

Only model-checked: liveness (`RequestsReturn`, `RefreshesEnd`,
`EveryKeyIsReturned`, `RequestsAnswered`), since the provers used here do not
support fairness. Every invariant and every action property of a run is proved.

## 5. Not modelled

- The XML-RPC and JSON-RPC encodings and the names under which counts are
  found; `ListSurveys`, which no handler calls. DESIGN.md:537-550 describes one
  cached session key per instance; the code opens a session per refresh, and
  that is what is modelled.
- A status text that LimeSurvey gives for another reason than a dead session,
  such as a survey without a response table.
- The snapshots of a decision. `redirect` records `limesurvey.SnapshotJSON` of
  the candidates as they were built; the list that `Select` sorts, with scores
  and eligibility, goes only into the answer of a simulation. No code
  decides anything from either.
- Hard caps over time: no statement writes `hard_cap`.
- `pending_assignments` and stickiness: no code reads or writes them beyond the
  form fields.
- The fields of the route form other than targets, slug and algorithm; the
  limit of 200 rows; the `survey_ids` field, which no page sends.
- Instances and credentials, headers, validators, pages, static files: without
  interleaving and without state that a property relates.
- SQLite's locking is reduced to atomic statements and transactions that may
  fail; the pool to whether a connection without foreign keys exists.
- The values in `target_stats`, from which no code decides anything.

## 6. Plan

1. Done: the cache with its proofs, the feed it implements, the RPC sessions
   behind it, routing and balance, the route tables, accounts, the console's
   pages and the route form.
2. Done: proofs of every safety invariant and action property that a run
   checks, of both refinements, and of the limits of two of the findings
   (`AnswersAreCurrent`, `UnrecordedWereReplaced`).
3. Left to TLC: the four liveness properties. Worth adding when the code grows
   there: the rows of `pending_assignments` once something reads them, and the
   values in `target_stats` once something decides from them.
