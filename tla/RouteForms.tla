----------------------------- MODULE RouteForms -----------------------------
(***************************************************************************)
(* The pages of the admin console in one browser: the CSRF token that each *)
(* page carries and the cookie it must match (internal/web/security.go),   *)
(* and the form that creates and edits a route (internal/web/server.go,    *)
(* templates/route_form.html, static/routes.js) from the row the user      *)
(* types to the targets that internal/store/store.go keeps.                *)
(*                                                                         *)
(* A request is sent and served in one step; its response reaches the      *)
(* browser later, so that responses of two tabs can cross. One tab, the    *)
(* Editor, may show the route; the forms of the other tabs matter only for *)
(* their token. Other users save the route from browsers of their own.     *)
(* The text of a field is a number, Blank, or Bad (anything else).         *)
(***************************************************************************)
EXTENDS Integers, Sequences, FiniteSets, SequencesExt

CONSTANTS
    Tabs,          \* tabs of the browser
    Editor,        \* the tab that may show the route's form
    Surveys,       \* survey ids
    Weights,       \* weights of a target
    Blank, Bad,    \* an empty field, and one that is not a positive number
    SurveyTexts,   \* what users type as a survey id
    WeightTexts,   \* what users type as a weight
    NoCookie, NoRoute, NoForm,
    MaxRows,       \* bound: rows of the form
    MaxTokens,     \* bound: CSRF tokens ever drawn
    MaxSecrets     \* bound: values that SESSION_SECRET ever has

VARIABLES
    route,     \* the route as the tables hold it
    form,      \* the form in the Editor's page
    page,      \* what each tab shows
    jar,       \* the browser's CSRF cookie
    signedIn,  \* the session cookie is there and is valid
    secret,    \* the SESSION_SECRET of the running process
    minted,    \* randomToken calls so far; tokens are numbered
    crossing,  \* history: the tabs whose visits overlapped one that sets a cookie
    excused    \* history: the tabs whose token may no longer match the cookie

history == <<crossing, excused>>

vars == <<route, form, page, jar, signedIn, secret, minted, crossing, excused>>

-----------------------------------------------------------------------------
Cookie == [token : Nat \ {0}, secret : Nat \ {0}]

\* weighted: the algorithm UsesTargetWeights.
Route == [weighted : BOOLEAN,
          targets : UNION {[S -> Weights] : S \in (SUBSET Surveys) \ {{}}}]

Row == [survey : Surveys \cup SurveyTexts, weight : WeightTexts]

Form == [new : BOOLEAN, weighted : BOOLEAN, rows : Seq(Row)]

\* sets is the cookie that the response on its way carries.
Page == [pc : {"blank", "loading", "open", "forbidden"},
         kind : {"login", "admin", "route"},
         token : Nat,
         sets : Cookie \cup {NoCookie}]

ASSUME FormsAssumption ==
    /\ Editor \in Tabs
    /\ Surveys \subseteq Nat \ {0}
    /\ IsFiniteSet(Surveys)
    /\ Weights \subseteq Nat \ {0}
    /\ 1 \in Weights
    /\ {Blank, Bad} \cap Nat = {}
    /\ NoCookie \notin Cookie
    /\ NoRoute \notin Route
    /\ NoForm \notin Form
    /\ Blank \in SurveyTexts /\ SurveyTexts \subseteq Surveys \cup {Blank, Bad}
    /\ Weights \subseteq WeightTexts /\ WeightTexts \subseteq Weights \cup {Blank, Bad}
    /\ {MaxRows, MaxTokens, MaxSecrets} \subseteq Nat \ {0}

FormsTypeOK ==
    /\ route \in Route \cup {NoRoute}
    /\ form = NoForm \/ form \in Form
    /\ page \in [Tabs -> Page]
    /\ jar \in Cookie \cup {NoCookie}
    /\ signedIn \in BOOLEAN
    /\ secret \in 1..MaxSecrets
    /\ minted \in 0..MaxTokens
    /\ crossing \subseteq Tabs
    /\ excused \subseteq Tabs
    /\ form # NoForm <=> page[Editor].kind = "route"

-----------------------------------------------------------------------------
(***************************************************************************)
(* From rows to targets and back.                                          *)
(***************************************************************************)
\* The elements of a finite set of numbers in ascending order.
Ascending(S) ==
    CHOOSE s \in [1..Cardinality(S) -> S] :
        \A i, j \in 1..Cardinality(S) : i < j => s[i] < s[j]

IsBlank(row) == row.survey = Blank /\ row.weight = Blank

\* The rows that are not blank, in their order.
Kept(rows) ==
    LET positions == Ascending({i \in DOMAIN rows : ~IsBlank(rows[i])}) IN
    [k \in DOMAIN positions |-> rows[positions[k]]]

WellFormed(row) == row.survey \in Surveys /\ row.weight \in Weights \cup {Blank}

\* Mutant: a blank weight is not replaced by 1.
WeightAsTyped(text) == text

WeightOf(text) == IF text = Blank THEN 1 ELSE text

Accepted(rows) ==
    /\ Kept(rows) # <<>>
    /\ \A i \in DOMAIN Kept(rows) : WellFormed(Kept(rows)[i])

\* Mutant: blank rows are dropped from the ids but not from the weights.
ParseRouteTargetsShifted(rows) ==
    [i \in DOMAIN Kept(rows) |-> [survey |-> Kept(rows)[i].survey,
                                  weight |-> WeightOf(rows[i].weight)]]

\* The targets of an accepted form.
ParseRouteTargets(rows) ==
    [i \in DOMAIN Kept(rows) |-> [survey |-> Kept(rows)[i].survey,
                                  weight |-> WeightOf(Kept(rows)[i].weight)]]

\* Without weights in the algorithm every weight is stored as 1.
BuildRouteInput(f) ==
    LET targets == ParseRouteTargets(f.rows) IN
    IF f.weighted THEN targets
    ELSE [i \in DOMAIN targets |-> [targets[i] EXCEPT !.weight = 1]]

\* The rows inserted in route_targets: the first target of each survey.
Inserted(targets) ==
    [s \in {targets[i].survey : i \in DOMAIN targets} |->
        targets[SelectInSeq(targets, LAMBDA target : target.survey = s)].weight]

DefaultRow == [survey |-> Blank, weight |-> 1]

\* Mutant: GetRoute's targets are listed without their weights.
FormFromRouteUnweighted(r) ==
    [new |-> FALSE, weighted |-> r.weighted,
     rows |-> [i \in 1..Cardinality(DOMAIN r.targets) |->
                 [survey |-> Ascending(DOMAIN r.targets)[i], weight |-> 1]]]

\* GetRoute returns the targets ordered by survey (all priorities are equal).
FormFromRoute(r) ==
    LET surveys == Ascending(DOMAIN r.targets) IN
    [new |-> FALSE, weighted |-> r.weighted,
     rows |-> [i \in DOMAIN surveys |->
                 [survey |-> surveys[i], weight |-> r.targets[surveys[i]]]]]

DefaultForm == [new |-> TRUE, weighted |-> FALSE, rows |-> <<DefaultRow>>]

\* Mutant: a row is drafted only if it has a survey id.
DraftNamedRows(rows) == SelectSeq(rows, LAMBDA row : row.survey # Blank)

\* parseRouteTargetsForDraft: the rows as they are, with a weight each.
DraftRows(rows) ==
    [i \in DOMAIN Kept(rows) |-> [Kept(rows)[i] EXCEPT !.weight = WeightOf(@)]]

\* routeFormFromRequest: what a refused form shows again.
Draft(f) ==
    [f EXCEPT !.rows = IF DraftRows(@) = <<>> THEN <<DefaultRow>> ELSE DraftRows(@)]

-----------------------------------------------------------------------------
(***************************************************************************)
(* The CSRF token of a response.                                           *)
(***************************************************************************)
\* tokenFromCookie: the signature is that of the secret in use.
ValidCookie == jar # NoCookie /\ jar.secret = secret

\* validate, for a page that the tab shows.
Validate(t) == ValidCookie /\ jar.token = page[t].token

\* The tabs whose response will set another cookie.
SettingCookie == {t \in Tabs : page[t].pc = "loading" /\ page[t].sets # NoCookie}

\* A page that is asked for while such a response is on its way crosses it.
Asked(t) ==
    /\ excused' = excused \ {t}
    /\ crossing' = IF SettingCookie = {} THEN {}
                   ELSE crossing \cup SettingCookie \cup {t}

\* A cookie that arrives with tab t replaces that of the visits it crossed,
\* unless their own has still to arrive.
Excused(t) ==
    IF page[t].sets = NoCookie THEN excused
    ELSE {u \in excused \cup (crossing \ SettingCookie) :
            u = t => page[t].sets.secret # secret}

Loading(kind, token, sets) ==
    [pc |-> "loading", kind |-> kind, token |-> token, sets |-> sets]

\* setCookie with a randomToken, for a page of tab t.
\* As a mutant of Respond: every page draws a token of its own.
RespondAfresh(t, kind) ==
    /\ minted < MaxTokens
    /\ minted' = minted + 1
    /\ page' = [page EXCEPT ![t] =
         Loading(kind, minted', [token |-> minted', secret |-> secret])]
    /\ Asked(t)

\* render with ensureToken: the token of the request's cookie if it is valid,
\* else a new one.
Respond(t, kind) ==
    \/ /\ ValidCookie
       /\ page' = [page EXCEPT ![t] = Loading(kind, jar.token, NoCookie)]
       /\ Asked(t)
       /\ UNCHANGED minted
    \/ ~ValidCookie /\ RespondAfresh(t, kind)

-----------------------------------------------------------------------------
\* A tab without a page of the console.
NoPage(pc) == [pc |-> pc, kind |-> "admin", token |-> 0, sets |-> NoCookie]

FormsInit ==
    /\ route = NoRoute
    /\ form = NoForm
    /\ page = [t \in Tabs |-> NoPage("blank")]
    /\ jar = NoCookie
    /\ signedIn = FALSE
    /\ secret = 1
    /\ minted = 0
    /\ crossing = {}
    /\ excused = {}

\* A tab that leaves the route's page forgets the form.
Left(t) == IF t = Editor THEN NoForm ELSE form

\* What a GET of the route page shows: the route, or the form to create it.
RouteForm == IF route = NoRoute THEN DefaultForm ELSE FormFromRoute(route)

\* A page is opened or reloaded; requireAuth sends a stranger to the login page.
Visit(t, kind) ==
    /\ page[t].pc # "loading"
    /\ kind = "login" <=> ~signedIn
    /\ kind = "route" => t = Editor
    /\ Respond(t, kind)
    /\ form' = IF kind = "route" THEN RouteForm ELSE Left(t)
    /\ UNCHANGED <<route, jar, signedIn, secret>>

\* The response arrives and the browser keeps its cookie.
Arrive(t) ==
    /\ page[t].pc = "loading"
    /\ page' = [page EXCEPT ![t].pc = "open", ![t].sets = NoCookie]
    /\ jar' = IF page[t].sets = NoCookie THEN jar ELSE page[t].sets
    /\ excused' = Excused(t)
    /\ UNCHANGED <<route, form, signedIn, secret, minted, crossing>>

\* A POST without a matching cookie is answered 403 and its form is lost.
Forbid(t) ==
    /\ page' = [page EXCEPT ![t] = NoPage("forbidden")]
    /\ form' = Left(t)
    /\ UNCHANGED <<route, jar, signedIn, secret, minted, history>>

\* The login form; the right password signs in and leads to the console.
SubmitLogin(t) ==
    /\ page[t].pc = "open"
    /\ page[t].kind = "login"
    /\ \/ ~Validate(t) /\ Forbid(t)
       \/ /\ Validate(t)
          /\ \/ signedIn' = TRUE /\ Respond(t, "admin")
             \/ UNCHANGED signedIn /\ Respond(t, "login") \* a wrong password
          /\ UNCHANGED <<route, form, jar, secret>>

\* Any other form of the console. requireAuth comes before validate.
SubmitAdmin(t) ==
    /\ page[t].pc = "open"
    /\ page[t].kind = "admin"
    /\ \/ signedIn /\ ~Validate(t) /\ Forbid(t)
       \/ /\ \/ ~signedIn /\ Respond(t, "login")
             \/ signedIn /\ Validate(t) /\ Respond(t, "admin")
          /\ UNCHANGED <<route, form, jar, signedIn, secret>>

\* Logout, a form in the header of every page, does not ask for a session.
Logout(t) ==
    /\ page[t].pc = "open"
    /\ page[t].kind # "login"
    /\ \/ ~Validate(t) /\ Forbid(t)
       \/ /\ Validate(t)
          /\ signedIn' = FALSE
          /\ Respond(t, "login")
          /\ form' = Left(t)
          /\ UNCHANGED <<route, jar, secret>>

-----------------------------------------------------------------------------
(***************************************************************************)
(* The route's form.                                                       *)
(***************************************************************************)
Editing == form # NoForm /\ page[Editor].pc = "open"

Edit(rows) ==
    /\ form' = [form EXCEPT !.rows = rows]
    /\ UNCHANGED <<route, page, jar, signedIn, secret, minted, history>>

AddRow ==
    /\ Editing
    /\ Len(form.rows) < MaxRows
    /\ Edit(Append(form.rows, DefaultRow))

\* The last row is emptied rather than removed.
RemoveRow(i) ==
    /\ Editing
    /\ i \in DOMAIN form.rows
    /\ Edit(IF Len(form.rows) = 1 THEN <<DefaultRow>> ELSE RemoveAt(form.rows, i))

TypeSurvey(i, text) ==
    /\ Editing
    /\ i \in DOMAIN form.rows
    /\ Edit([form.rows EXCEPT ![i].survey = text])

\* The weights are hidden unless the algorithm uses them.
TypeWeight(i, text) ==
    /\ Editing
    /\ form.weighted
    /\ i \in DOMAIN form.rows
    /\ Edit([form.rows EXCEPT ![i].weight = text])

ChooseAlgorithm ==
    /\ Editing
    /\ form' = [form EXCEPT !.weighted = ~@]
    /\ UNCHANGED <<route, page, jar, signedIn, secret, minted, history>>

SaveForm ==
    /\ Accepted(form.rows)
    /\ form.new => route = NoRoute            \* else the slug is taken
    /\ route' = [weighted |-> form.weighted, targets |-> Inserted(BuildRouteInput(form))]
    /\ form' = FormFromRoute(route')          \* the redirect to the route's page

\* The form is refused for its targets, its slug or another field.
RefuseForm ==
    /\ form' = Draft(form)
    /\ UNCHANGED route

SubmitRoute ==
    /\ page[Editor].pc = "open"
    /\ page[Editor].kind = "route"
    /\ \/ signedIn /\ ~Validate(Editor) /\ Forbid(Editor)
       \/ /\ ~signedIn
          /\ Respond(Editor, "login")
          /\ form' = NoForm
          /\ UNCHANGED <<route, jar, signedIn, secret>>
       \/ /\ signedIn
          /\ Validate(Editor)
          /\ SaveForm \/ RefuseForm
          /\ Respond(Editor, "route")
          /\ UNCHANGED <<jar, signedIn, secret>>

\* Another user saves the route; what was saved is a route like any other.
OthersSave ==
    /\ route # NoRoute
    /\ \E r \in Route :
         /\ ~r.weighted => \A s \in DOMAIN r.targets : r.targets[s] = 1
         /\ route' = r
    /\ UNCHANGED <<form, page, jar, signedIn, secret, minted, history>>

-----------------------------------------------------------------------------
(***************************************************************************)
(* What happens to the cookies.                                            *)
(***************************************************************************)
\* 86400 seconds after it was first set: no response renews the CSRF cookie.
ExpireToken ==
    /\ jar # NoCookie
    /\ jar' = NoCookie
    /\ excused' = Tabs
    /\ UNCHANGED <<route, form, page, signedIn, secret, minted, crossing>>

ExpireSession ==
    /\ signedIn
    /\ signedIn' = FALSE
    /\ UNCHANGED <<route, form, page, jar, secret, minted, history>>

\* A restart keeps every cookie valid, unless SESSION_SECRET has changed.
RestartWithNewSecret ==
    /\ secret < MaxSecrets
    /\ secret' = secret + 1
    /\ signedIn' = FALSE
    /\ excused' = Tabs
    /\ UNCHANGED <<route, form, page, jar, minted, crossing>>

FormsNext ==
    \/ \E t \in Tabs : \/ \E kind \in {"login", "admin", "route"} : Visit(t, kind)
                       \/ Arrive(t)
                       \/ SubmitLogin(t) \/ SubmitAdmin(t) \/ Logout(t)
    \/ AddRow \/ ChooseAlgorithm \/ SubmitRoute
    \/ \E i \in 1..MaxRows : \/ RemoveRow(i)
                             \/ \E text \in SurveyTexts : TypeSurvey(i, text)
                             \/ \E text \in WeightTexts : TypeWeight(i, text)
    \/ OthersSave
    \/ ExpireToken \/ ExpireSession \/ RestartWithNewSecret

FormsSpec == FormsInit /\ [][FormsNext]_vars

-----------------------------------------------------------------------------
\* A page that is open is accepted when it is submitted, and no page that was
\* submitted was refused with 403, unless since it was asked for the CSRF
\* cookie expired, the secret changed, or its visit overlapped another one
\* that set a cookie later: of first visits that cross, the one whose response
\* arrives last is accepted, and reloading is enough for the others
\* (security.go:106).
OpenPagesAreAccepted ==
    \A t \in Tabs \ excused :
        /\ page[t].pc # "forbidden"
        /\ page[t].pc = "open" => Validate(t)

\* The targets stored are those that the user typed: the first row that names
\* a survey decides its weight, a blank weight is 1, and so is any weight of
\* an algorithm without weights; no other survey is stored (server.go:1276).
Typed(f) ==
    LET named(s) == {i \in DOMAIN f.rows : f.rows[i].survey = s}
        first(s) == CHOOSE i \in named(s) : \A j \in named(s) : i <= j
    IN  [s \in {s \in Surveys : named(s) # {}} |->
          IF f.weighted /\ f.rows[first(s)].weight # Blank
          THEN f.rows[first(s)].weight ELSE 1]

Submitted == page[Editor].pc = "open" /\ form # NoForm /\ page'[Editor].pc = "loading"

SavedAsTyped ==
    [][Submitted /\ SaveForm => route'.targets = Typed(form)]_vars

\* A page that shows the route as it is can be submitted again without any
\* effect on what respondents get (server.go:1206 and 1276 are inverses).
ShownIsSaved ==
    [][route # NoRoute /\ form = FormFromRoute(route) /\ Submitted /\ SaveForm
         => route' = route]_vars

\* A refused form that is shown again means what the user submitted: it would
\* be refused again, or store the same targets (server.go:1246).
Meaning(f) ==
    IF Accepted(f.rows) THEN {Inserted(BuildRouteInput(f))} ELSE {}

DraftMeansTheSame ==
    [][Submitted /\ RefuseForm => Meaning(form') = Meaning(form)]_vars

=============================================================================
