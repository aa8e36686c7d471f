-------------------------- MODULE RouteFormsProofs --------------------------
(***************************************************************************)
(* An open page of the console is accepted, for any number of tabs, tokens *)
(* and secrets; and what a form stores, shows and drafts means the same,   *)
(* for any surveys, weights and number of rows.                            *)
(***************************************************************************)
EXTENDS RouteForms, OrderLemmas, SequenceTheorems, TLAPS

CookieTypes ==
    /\ page \in [Tabs -> Page]
    /\ jar \in Cookie \cup {NoCookie}
    /\ secret \in Nat \ {0}
    /\ minted \in Nat
    /\ crossing \subseteq Tabs
    /\ excused \subseteq Tabs

\* The token of a page is the one that the browser keeps, or will keep when
\* the page arrives.
Matches(t) ==
    /\ page[t].pc # "forbidden"
    /\ page[t].pc = "open" => Validate(t)
    /\ page[t].pc = "loading" /\ page[t].sets = NoCookie => Validate(t)
    /\ page[t].pc = "loading" /\ page[t].sets # NoCookie =>
         page[t].sets = [token |-> page[t].token, secret |-> secret]

PagesMatch == \A t \in Tabs \ excused : Matches(t)

\* A page on its way with a cookie carries the token of that cookie.
OwnCookies == \A s \in SettingCookie : page[s].sets.token = page[s].token

\* A cookie on its way will replace one that only the pages it crosses rely on.
NothingToLose ==
    \A s \in SettingCookie : \A u \in SettingCookie \cup (Tabs \ excused) :
        u # s => page[u].pc = "blank" \/ u \in crossing

CookieInv == CookieTypes /\ PagesMatch /\ OwnCookies /\ NothingToLose

-----------------------------------------------------------------------------
LEMMA CookieInit == FormsInit => CookieInv
  BY FormsAssumption DEF FormsInit, CookieInv, CookieTypes, PagesMatch, Matches,
     OwnCookies, NothingToLose, SettingCookie, NoPage, Page

\* A response with the token of a valid cookie.
LEMMA KeepsToken ==
  ASSUME CookieInv, NEW t \in Tabs, page[t].pc # "loading", ValidCookie,
         NEW kind \in {"login", "admin", "route"},
         page' = [page EXCEPT ![t] = Loading(kind, jar.token, NoCookie)],
         Asked(t), UNCHANGED <<jar, secret, minted>>
  PROVE  CookieInv'
<1> USE DEF CookieInv
<1>1. CookieTypes'
  BY DEF CookieTypes, Page, Cookie, Loading, Asked, ValidCookie, SettingCookie
<1>2. SettingCookie' = SettingCookie
  BY DEF SettingCookie, CookieTypes, Loading
<1>3. PagesMatch'
  <2> SUFFICES ASSUME NEW u \in Tabs \ excused' PROVE Matches(u)'
    BY DEF PagesMatch
  <2>1. CASE u = t
    BY <2>1 DEF Matches, Validate, ValidCookie, Loading, CookieTypes
  <2>2. CASE u # t
    <3>1. u \notin excused /\ page'[u] = page[u]
      BY <2>2 DEF Asked, CookieTypes
    <3> QED
      BY <3>1 DEF PagesMatch, Matches, Validate, ValidCookie
  <2> QED
    BY <2>1, <2>2
<1>4. OwnCookies'
  <2>1. t \notin SettingCookie
    BY DEF SettingCookie
  <2> QED
    BY <1>2, <2>1 DEF OwnCookies, CookieTypes
<1>5. NothingToLose'
  <2> SUFFICES ASSUME NEW s \in SettingCookie,
                      NEW u \in SettingCookie \cup (Tabs \ excused'), u # s
               PROVE  page'[u].pc = "blank" \/ u \in crossing'
    BY <1>2 DEF NothingToLose
  <2>1. crossing' = crossing \cup SettingCookie \cup {t} /\ excused' = excused \ {t}
    BY DEF Asked
  <2>2. CASE u = t
    BY <2>1, <2>2
  <2>3. CASE u # t
    <3>1. u \in SettingCookie \cup (Tabs \ excused) /\ page'[u] = page[u]
      BY <2>1, <2>3 DEF SettingCookie, CookieTypes
    <3> QED
      BY <2>1, <3>1 DEF NothingToLose
  <2> QED
    BY <2>2, <2>3
<1> QED
  BY <1>1, <1>3, <1>4, <1>5

\* A response with a new token and a new cookie.
LEMMA DrawsToken ==
  ASSUME CookieInv, NEW t \in Tabs, page[t].pc # "loading", ~ValidCookie,
         NEW kind \in {"login", "admin", "route"}, RespondAfresh(t, kind),
         UNCHANGED <<jar, secret>>
  PROVE  CookieInv'
<1> USE DEF CookieInv
<1> DEFINE fresh == [token |-> minted + 1, secret |-> secret]
<1>1. /\ page' = [page EXCEPT ![t] = Loading(kind, minted + 1, fresh)]
      /\ minted' = minted + 1
      /\ Asked(t)
  BY DEF RespondAfresh
<1>2. fresh \in Cookie /\ fresh # NoCookie
  BY FormsAssumption DEF Cookie, CookieTypes
<1> HIDE DEF fresh
<1>3. CookieTypes'
  BY <1>1, <1>2 DEF CookieTypes, Page, Loading, Asked, SettingCookie
<1>4. PagesMatch'
  <2> SUFFICES ASSUME NEW u \in Tabs \ excused' PROVE Matches(u)'
    BY DEF PagesMatch
  <2>1. CASE u = t
    <3>1. page'[u] = Loading(kind, minted + 1, fresh)
      BY <1>1, <2>1 DEF CookieTypes
    <3> QED
      BY <3>1, <1>2 DEF Matches, Loading, fresh
  <2>2. CASE u # t
    <3>1. u \notin excused /\ page'[u] = page[u]
      BY <1>1, <2>2 DEF Asked, CookieTypes
    <3> QED
      BY <3>1 DEF PagesMatch, Matches, Validate, ValidCookie
  <2> QED
    BY <2>1, <2>2
<1>5. SettingCookie' = SettingCookie \cup {t} /\ t \notin SettingCookie
  BY <1>1, <1>2 DEF SettingCookie, CookieTypes, Loading
<1>6. OwnCookies'
  <2>1. page'[t].sets.token = page'[t].token
    BY <1>1 DEF CookieTypes, Loading, fresh
  <2> QED
    BY <1>1, <1>5, <2>1 DEF OwnCookies, CookieTypes, SettingCookie
<1>7. NothingToLose'
  <2> SUFFICES ASSUME NEW s \in SettingCookie',
                      NEW u \in SettingCookie' \cup (Tabs \ excused'), u # s
               PROVE  page'[u].pc = "blank" \/ u \in crossing'
    BY DEF NothingToLose
  <2>1. CASE u = t
    <3>1. SettingCookie # {}
      BY <1>5, <2>1
    <3> QED
      BY <1>1, <2>1, <3>1 DEF Asked
  <2>2. CASE u \in SettingCookie
    BY <1>1, <2>2 DEF Asked
  <2>3. CASE u # t /\ u \notin SettingCookie
    <3>1. u \in Tabs /\ u \notin excused /\ page'[u] = page[u]
      BY <1>1, <1>5, <2>3 DEF Asked, CookieTypes
    <3>2. Matches(u)
      BY <3>1 DEF PagesMatch
    <3>3. page[u].pc \in {"blank", "loading", "open", "forbidden"}
      BY <3>1 DEF CookieTypes, Page
    <3> QED
      BY <2>3, <3>1, <3>2, <3>3 DEF Matches, Validate, SettingCookie
  <2> QED
    BY <2>1, <2>2, <2>3
<1> QED
  BY <1>3, <1>4, <1>6, <1>7

LEMMA RespondStep ==
  ASSUME CookieInv, NEW t \in Tabs, page[t].pc # "loading",
         NEW kind \in {"login", "admin", "route"}, Respond(t, kind),
         UNCHANGED <<jar, secret>>
  PROVE  CookieInv'
  BY KeepsToken, DrawsToken DEF Respond

LEMMA ForbidStep ==
  ASSUME CookieInv, NEW t \in Tabs, page[t].pc = "open", ~Validate(t), Forbid(t)
  PROVE  CookieInv'
<1> USE DEF CookieInv
<1>1. t \in excused
  BY DEF PagesMatch, Matches
<1>2. CookieTypes'
  BY DEF CookieTypes, Forbid, history, NoPage, Page
<1>3. SettingCookie' = SettingCookie
  BY DEF SettingCookie, CookieTypes, Forbid, NoPage
<1>4. \A u \in Tabs \ excused' : u \notin excused /\ page'[u] = page[u]
  BY <1>1 DEF Forbid, history, CookieTypes
<1>5. PagesMatch'
  BY <1>4 DEF PagesMatch, Matches, Validate, ValidCookie, Forbid
<1>6. \A u \in SettingCookie : page'[u] = page[u]
  BY DEF SettingCookie, CookieTypes, Forbid
<1>7. OwnCookies'
  BY <1>3, <1>6 DEF OwnCookies
<1>8. NothingToLose'
  BY <1>3, <1>4, <1>6 DEF NothingToLose, Forbid, history
<1> QED
  BY <1>2, <1>5, <1>7, <1>8

LEMMA ArriveStep ==
  ASSUME CookieInv, NEW t \in Tabs, Arrive(t)
  PROVE  CookieInv'
<1> USE DEF CookieInv
<1>1. CookieTypes'
  BY DEF CookieTypes, Arrive, Excused, Page
<1>2. SettingCookie' = SettingCookie \ {t}
  BY DEF SettingCookie, CookieTypes, Arrive
<1>3. /\ \A u \in Tabs : u # t => page'[u] = page[u]
      /\ page'[t].pc = "open" /\ page'[t].token = page[t].token
      /\ page[t].pc = "loading"
      /\ crossing' = crossing /\ secret' = secret
  BY DEF Arrive, CookieTypes, Page
<1>4. CASE page[t].sets = NoCookie
  <2>1. excused' = excused /\ jar' = jar
    BY <1>4 DEF Arrive, Excused
  <2>2. PagesMatch'
    <3> SUFFICES ASSUME NEW u \in Tabs \ excused PROVE Matches(u)'
      BY <2>1 DEF PagesMatch
    <3>1. Matches(u)
      BY DEF PagesMatch
    <3> QED
      BY <1>3, <1>4, <2>1, <3>1 DEF Matches, Validate, ValidCookie
  <2>3. NothingToLose'
    <3>1. SettingCookie' = SettingCookie
      BY <1>2, <1>4 DEF SettingCookie
    <3>2. \A u \in Tabs : page'[u].pc = "blank" <=> page[u].pc = "blank"
      BY <1>3
    <3>3. SettingCookie \subseteq Tabs
      BY DEF SettingCookie
    <3> QED
      BY <1>3, <2>1, <3>1, <3>2, <3>3 DEF NothingToLose
  <2>4. OwnCookies'
    BY <1>2, <1>3 DEF OwnCookies, SettingCookie
  <2> QED
    BY <1>1, <2>2, <2>3, <2>4
<1>5. CASE page[t].sets # NoCookie
  <2>1. /\ t \in SettingCookie
        /\ jar' = page[t].sets
        /\ excused' = {u \in excused \cup (crossing \ SettingCookie) :
                         u = t => page[t].sets.secret # secret}
    BY <1>3, <1>5 DEF Arrive, Excused, SettingCookie
  <2>2. PagesMatch'
    <3> SUFFICES ASSUME NEW u \in Tabs \ excused' PROVE Matches(u)'
      BY DEF PagesMatch
    <3>1. CASE u = t
      <4>1. page[t].sets.secret = secret
        <5>1. t \notin excused => page[t].sets = [token |-> page[t].token, secret |-> secret]
          BY <1>3, <1>5 DEF PagesMatch, Matches
        <5>2. t \in excused => page[t].sets.secret = secret
          BY <2>1, <3>1
        <5> QED
          BY <5>1, <5>2
      <4>2. page[t].sets.token = page[t].token
        BY <2>1 DEF OwnCookies
      <4> QED
        BY <1>3, <1>5, <2>1, <3>1, <4>1, <4>2 DEF Matches, Validate, ValidCookie
    <3>2. CASE u # t
      <4>1. u \notin excused /\ Matches(u) /\ page'[u] = page[u]
        BY <1>3, <2>1, <3>2 DEF PagesMatch
      <4>2. page[u].pc = "blank" \/ u \in SettingCookie
        BY <2>1, <3>2, <4>1 DEF NothingToLose
      <4> QED
        BY <1>3, <4>1, <4>2 DEF Matches, SettingCookie
    <3> QED
      BY <3>1, <3>2
  <2>3. NothingToLose'
    <3> SUFFICES ASSUME NEW s \in SettingCookie \ {t},
                        NEW u \in (SettingCookie \ {t}) \cup (Tabs \ excused'), u # s
                 PROVE  page'[u].pc = "blank" \/ u \in crossing
      BY <1>2, <1>3 DEF NothingToLose
    <3>1. CASE u = t
      BY <1>3, <2>1, <3>1 DEF NothingToLose
    <3>2. CASE u # t
      <4>1. u \in SettingCookie \cup (Tabs \ excused) /\ page'[u] = page[u]
        BY <1>3, <2>1, <3>2 DEF SettingCookie
      <4> QED
        BY <4>1 DEF NothingToLose
    <3> QED
      BY <3>1, <3>2
  <2>4. OwnCookies'
    BY <1>2, <1>3 DEF OwnCookies, SettingCookie
  <2> QED
    BY <1>1, <2>2, <2>3, <2>4
<1> QED
  BY <1>4, <1>5

\* A change that excuses every tab, and one that touches no page and no cookie.
LEMMA ExcuseStep ==
  ASSUME CookieInv, ExpireToken \/ RestartWithNewSecret
  PROVE  CookieInv'
  BY DEF CookieInv, CookieTypes, PagesMatch, OwnCookies, NothingToLose,
     SettingCookie, ExpireToken, RestartWithNewSecret

LEMMA FormStep ==
  ASSUME CookieInv, UNCHANGED <<page, jar, secret, minted, crossing, excused>>
  PROVE  CookieInv'
  BY DEF CookieInv, CookieTypes, PagesMatch, Matches, Validate, ValidCookie,
     OwnCookies, NothingToLose, SettingCookie

LEMMA CookieStep == CookieInv /\ [FormsNext]_vars => CookieInv'
<1> SUFFICES ASSUME CookieInv, [FormsNext]_vars PROVE CookieInv'
  OBVIOUS
<1>1. ASSUME NEW t \in Tabs, NEW kind \in {"login", "admin", "route"}, Visit(t, kind)
      PROVE  CookieInv'
  BY <1>1, RespondStep DEF Visit
<1>2. ASSUME NEW t \in Tabs, Arrive(t) PROVE CookieInv'
  BY <1>2, ArriveStep
<1>3. ASSUME NEW t \in Tabs, SubmitLogin(t) PROVE CookieInv'
  BY <1>3, RespondStep, ForbidStep DEF SubmitLogin
<1>4. ASSUME NEW t \in Tabs, SubmitAdmin(t) PROVE CookieInv'
  BY <1>4, RespondStep, ForbidStep DEF SubmitAdmin
<1>5. ASSUME NEW t \in Tabs, Logout(t) PROVE CookieInv'
  BY <1>5, RespondStep, ForbidStep DEF Logout
<1>6. CASE SubmitRoute
  <2>1. Editor \in Tabs
    BY FormsAssumption
  <2> QED
    BY <1>6, <2>1, RespondStep, ForbidStep DEF SubmitRoute
<1>7. CASE AddRow \/ ChooseAlgorithm \/ OthersSave \/ ExpireSession
  BY <1>7, FormStep DEF AddRow, Edit, ChooseAlgorithm, OthersSave, ExpireSession, history
<1>8. ASSUME NEW i \in 1..MaxRows,
             \/ RemoveRow(i)
             \/ \E text \in SurveyTexts : TypeSurvey(i, text)
             \/ \E text \in WeightTexts : TypeWeight(i, text)
      PROVE  CookieInv'
  BY <1>8, FormStep DEF RemoveRow, TypeSurvey, TypeWeight, Edit, history
<1>9. CASE ExpireToken \/ RestartWithNewSecret
  BY <1>9, ExcuseStep
<1>10. CASE UNCHANGED vars
  BY <1>10, FormStep DEF vars
<1> QED
  BY <1>1, <1>2, <1>3, <1>4, <1>5, <1>6, <1>7, <1>8, <1>9, <1>10 DEF FormsNext

-----------------------------------------------------------------------------
\* A page is accepted until its cookie expires, the secret changes, or a visit
\* that overlapped its own sets a cookie later; of first visits that cross the
\* last to arrive is accepted (security.go:106).
THEOREM PagesAreAccepted == FormsSpec => []OpenPagesAreAccepted
<1>1. CookieInv => OpenPagesAreAccepted
  BY DEF CookieInv, PagesMatch, Matches, OpenPagesAreAccepted
<1> QED
  BY CookieInit, CookieStep, <1>1, PTL DEF FormsSpec

-----------------------------------------------------------------------------
(***************************************************************************)
(* What the form computes. Blank rows are dropped without disturbing the   *)
(* order of the others.                                                    *)
(***************************************************************************)
LEMMA AscendingOrder ==
  ASSUME NEW S \in SUBSET Nat, IsFiniteSet(S)
  PROVE  /\ Cardinality(S) \in Nat
         /\ Ascending(S) \in [1..Cardinality(S) -> S]
         /\ \A x \in S : \E i \in 1..Cardinality(S) : Ascending(S)[i] = x
         /\ \A i, j \in 1..Cardinality(S) : i < j <=> Ascending(S)[i] < Ascending(S)[j]
<1> DEFINE R == {p \in S \X S : p[1] < p[2]}
           n == Cardinality(S)
           a == Ascending(S)
           IsAscending(s) == \A i, j \in 1..n : i < j => s[i] < s[j]
<1>1. \A x, y \in S : <<x, y>> \in R <=> x < y
  OBVIOUS
<1> HIDE DEF R
<1>2. /\ \A x \in S : <<x, x>> \notin R
      /\ \A x, y \in S : x # y => <<x, y>> \in R \/ <<y, x>> \in R
      /\ \A x, y, z \in S : <<x, y>> \in R /\ <<y, z>> \in R => <<x, z>> \in R
  BY <1>1
<1>3. PICK s : Sorted(R, S, s)
  BY <1>2, SortingExists
<1>4. s \in [1..n -> S] /\ IsAscending(s)
  BY <1>1, <1>3 DEF Sorted
<1>5. a \in [1..n -> S] /\ IsAscending(a)
  BY <1>4 DEF Ascending
<1> HIDE DEF a
<1>6. Sorted(R, S, a)
  BY <1>1, <1>5 DEF Sorted
<1>7. n \in Nat /\ a \in Surjection(1..n, S)
  BY <1>2, <1>6, SortedCovers
<1>8. ASSUME NEW i \in 1..n, NEW j \in 1..n, a[i] < a[j] PROVE i < j
  <2>1. a[i] \in Nat /\ a[j] \in Nat /\ (j < i => a[j] < a[i]) /\ (i = j => a[i] = a[j])
    BY <1>5
  <2>2. i \in Nat /\ j \in Nat
    BY <1>7
  <2> QED
    BY <1>8, <2>1, <2>2
<1> QED
  BY <1>5, <1>7, <1>8 DEF Surjection, a

\* The positions of the rows that are kept.
Positions(rows) == {i \in DOMAIN rows : ~IsBlank(rows[i])}

Kth(rows, k) == Ascending(Positions(rows))[k]

LEMMA KeptRows ==
  ASSUME NEW rows \in Seq(Row)
  PROVE  /\ Kept(rows) \in Seq(Row)
         /\ \A k \in DOMAIN Kept(rows) :
              /\ Kth(rows, k) \in Positions(rows)
              /\ Kept(rows)[k] = rows[Kth(rows, k)]
         /\ \A i \in Positions(rows) : \E k \in DOMAIN Kept(rows) : Kth(rows, k) = i
         /\ \A k, l \in DOMAIN Kept(rows) : k < l <=> Kth(rows, k) < Kth(rows, l)
<1> DEFINE P == Positions(rows)
           n == Cardinality(P)
           a == Ascending(P)
<1>1. P \in SUBSET Nat /\ IsFiniteSet(P) /\ P \subseteq DOMAIN rows
  <2>1. DOMAIN rows = 1..Len(rows) /\ Len(rows) \in Nat
    OBVIOUS
  <2>2. IsFiniteSet(1..Len(rows))
    BY <2>1, FS_Interval
  <2> QED
    BY <2>1, <2>2, FS_Subset DEF Positions
<1> HIDE DEF P
<1>2. /\ n \in Nat /\ a \in [1..n -> P]
      /\ \A x \in P : \E i \in 1..n : a[i] = x
      /\ \A i, j \in 1..n : i < j <=> a[i] < a[j]
  BY <1>1, AscendingOrder
<1>3. Kept(rows) = [k \in 1..n |-> rows[a[k]]]
  BY <1>2 DEF Kept, P, Positions
<1> HIDE DEF a, n
<1>4. \A k \in 1..n : rows[a[k]] \in Row
  <2>1. \A i \in DOMAIN rows : rows[i] \in Row
    OBVIOUS
  <2> QED
    BY <1>1, <1>2, <2>1
<1>5. Kept(rows) \in Seq(Row) /\ DOMAIN Kept(rows) = 1..n
  BY <1>2, <1>3, <1>4
<1>6. \A k : Kth(rows, k) = a[k]
  BY DEF Kth, a, P
<1> QED
  BY <1>2, <1>3, <1>5, <1>6 DEF P

\* A form is accepted if some row is not blank and each such row is well-formed.
LEMMA AcceptedRows ==
  ASSUME NEW rows \in Seq(Row)
  PROVE  Accepted(rows) <=>
           /\ Positions(rows) # {}
           /\ \A i \in Positions(rows) : WellFormed(rows[i])
<1> DEFINE kept == Kept(rows)
<1>1. /\ kept \in Seq(Row)
      /\ \A k \in DOMAIN kept :
           Kth(rows, k) \in Positions(rows) /\ kept[k] = rows[Kth(rows, k)]
      /\ \A i \in Positions(rows) : \E k \in DOMAIN kept : Kth(rows, k) = i
  BY KeptRows
<1> HIDE DEF kept
<1>2. kept # <<>> <=> Positions(rows) # {}
  <2>1. kept # <<>> <=> DOMAIN kept # {}
    BY <1>1, EmptySeq
  <2> QED
    BY <1>1, <2>1
<1>3. (\A k \in DOMAIN kept : WellFormed(kept[k]))
        <=> \A i \in Positions(rows) : WellFormed(rows[i])
  BY <1>1
<1> QED
  BY <1>2, <1>3 DEF Accepted, kept

\* The rows that name a survey, and the first of them.
Named(rows, s) == {i \in DOMAIN rows : rows[i].survey = s}

Least(N) == CHOOSE i \in N : \A j \in N : i <= j

FirstRow(rows, s) == rows[Least(Named(rows, s))]

LEMMA LeastChosen ==
  ASSUME NEW N \in SUBSET Nat, N # {}
  PROVE  Least(N) \in N /\ \A j \in N : Least(N) <= j
<1>1. \E i \in N : \A j \in N : i <= j
  BY LeastNatural
<1> QED
  BY <1>1 DEF Least

\* Dropping blank rows keeps the first row of each survey first.
LEMMA KeptNames ==
  ASSUME NEW rows \in Seq(Row), NEW s \in Surveys
  PROVE  /\ Named(Kept(rows), s) # {} <=> Named(rows, s) # {}
         /\ Named(rows, s) # {} => FirstRow(Kept(rows), s) = FirstRow(rows, s)
<1> DEFINE kept == Kept(rows)
           N == Named(rows, s)
           M == Named(kept, s)
<1>1. /\ kept \in Seq(Row)
      /\ \A k \in DOMAIN kept :
           Kth(rows, k) \in Positions(rows) /\ kept[k] = rows[Kth(rows, k)]
      /\ \A i \in Positions(rows) : \E k \in DOMAIN kept : Kth(rows, k) = i
      /\ \A k, l \in DOMAIN kept : k < l <=> Kth(rows, k) < Kth(rows, l)
  BY KeptRows
<1> HIDE DEF kept
<1>2. N \subseteq Positions(rows) /\ N \in SUBSET Nat /\ M \in SUBSET Nat
  <2>1. s # Blank
    BY FormsAssumption
  <2>2. DOMAIN rows \subseteq Nat /\ DOMAIN kept \subseteq Nat
    BY <1>1
  <2> QED
    BY <2>1, <2>2 DEF Named, Positions, IsBlank
<1>3. \A k \in DOMAIN kept : k \in M <=> Kth(rows, k) \in N
  BY <1>1 DEF Named, Positions
<1>4. M # {} <=> N # {}
  <2>1. M \subseteq DOMAIN kept
    BY DEF Named
  <2> QED
    BY <1>1, <1>2, <1>3, <2>1
<1>5. ASSUME N # {} PROVE kept[Least(M)] = rows[Least(N)]
  <2> DEFINE i == Least(N)
  <2>1. i \in N /\ \A j \in N : i <= j
    BY <1>2, <1>5, LeastChosen
  <2> HIDE DEF i
  <2>2. PICK k \in DOMAIN kept : Kth(rows, k) = i
    BY <1>1, <1>2, <2>1
  <2>3. k \in M
    BY <1>3, <2>1, <2>2
  <2>4. ASSUME NEW l \in M PROVE k <= l
    <3>1. l \in DOMAIN kept /\ Kth(rows, l) \in N
      BY <1>3, <2>4 DEF Named
    <3>2. ~(Kth(rows, l) < i)
      BY <1>2, <2>1, <3>1
    <3>3. ~(l < k) /\ k \in Nat /\ l \in Nat
      BY <1>1, <1>2, <2>2, <2>3, <3>1, <3>2
    <3> QED
      BY <3>3
  <2>5. \A m \in M : (\A l \in M : m <= l) => m = k
    BY <1>2, <2>3, <2>4
  <2>6. Least(M) = k
    BY <2>3, <2>5, <1>2, LeastChosen
  <2> QED
    BY <1>1, <2>2, <2>6 DEF i
<1> QED
  BY <1>4, <1>5 DEF FirstRow, kept

\* What Typed says, with the names above.
LEMMA TypedRows ==
  ASSUME NEW f
  PROVE  Typed(f) =
           [s \in {s \in Surveys : Named(f.rows, s) # {}} |->
              IF f.weighted /\ FirstRow(f.rows, s).weight # Blank
              THEN FirstRow(f.rows, s).weight ELSE 1]
  BY DEF Typed, Named, Least, FirstRow

\* What is inserted for an accepted form is what was typed.
LEMMA InsertedIsTyped ==
  ASSUME NEW f \in Form, Accepted(f.rows)
  PROVE  /\ Inserted(BuildRouteInput(f)) = Typed(f)
         /\ Typed(f) \in UNION {[S -> Weights] : S \in (SUBSET Surveys) \ {{}}}
<1> DEFINE rows == f.rows
           kept == Kept(rows)
           t == BuildRouteInput(f)
           n == Len(kept)
<1>1. rows \in Seq(Row) /\ f.weighted \in BOOLEAN
  BY DEF Form
<1>2. kept \in Seq(Row) /\ n \in Nat /\ DOMAIN kept = 1..n
  BY <1>1, KeptRows
<1>3. kept # <<>> /\ \A i \in 1..n : WellFormed(kept[i])
  BY <1>2 DEF Accepted
<1> HIDE DEF kept, rows, n
<1>4. t = [i \in 1..n |-> [survey |-> kept[i].survey,
                           weight |-> IF f.weighted THEN WeightOf(kept[i].weight)
                                      ELSE 1]]
  <2>1. ParseRouteTargets(f.rows) =
          [i \in 1..n |-> [survey |-> kept[i].survey,
                           weight |-> WeightOf(kept[i].weight)]]
    BY <1>2 DEF ParseRouteTargets, kept, rows
  <2>2. CASE f.weighted
    BY <2>1, <2>2 DEF BuildRouteInput
  <2>3. CASE ~f.weighted
    BY <2>1, <2>3 DEF BuildRouteInput
  <2> QED
    BY <2>2, <2>3
<1> HIDE DEF t
<1>5. DOMAIN t = 1..n /\ Len(t) = n
  BY <1>2, <1>4
<1> DEFINE D == {t[i].survey : i \in DOMAIN t}
           E == {s \in Surveys : Named(rows, s) # {}}
<1>6. D = E
  <2>1. D \subseteq Surveys
    BY <1>3, <1>4, <1>5 DEF WellFormed
  <2>2. \A s \in Surveys : s \in D <=> Named(kept, s) # {}
    BY <1>2, <1>4, <1>5 DEF Named
  <2>3. \A s \in Surveys : Named(kept, s) # {} <=> Named(rows, s) # {}
    BY <1>1, KeptNames DEF kept
  <2> QED
    BY <2>1, <2>2, <2>3
<1>7. E # {}
  <2>1. 1 \in 1..n
    BY <1>2, <1>3, EmptySeq
  <2> HIDE DEF E
  <2> QED
    BY <1>5, <1>6, <2>1
<1>8. ASSUME NEW s \in E
      PROVE  t[SelectInSeq(t, LAMBDA target : target.survey = s)].weight =
               IF f.weighted /\ FirstRow(rows, s).weight # Blank
               THEN FirstRow(rows, s).weight ELSE 1
  <2> DEFINE M == {i \in 1..Len(t) : t[i].survey = s}
  <2>1. M = Named(kept, s)
    BY <1>2, <1>4, <1>5 DEF Named
  <2>2. M # {} /\ FirstRow(kept, s) = FirstRow(rows, s)
    BY <1>1, <2>1, KeptNames DEF kept
  <2>3. SelectInSeq(t, LAMBDA target : target.survey = s) = Least(M)
    BY <2>2 DEF SelectInSeq, Min, Least
  <2>4. Least(M) \in 1..n
    <3>1. M \in SUBSET Nat /\ M \subseteq 1..n
      BY <1>5
    <3> HIDE DEF M
    <3> QED
      BY <2>2, <3>1, LeastChosen
  <2>5. kept[Least(M)] = FirstRow(rows, s)
    BY <2>1, <2>2 DEF FirstRow
  <2> HIDE DEF M
  <2>6. t[Least(M)].weight = IF f.weighted THEN WeightOf(FirstRow(rows, s).weight) ELSE 1
    BY <1>4, <2>4, <2>5
  <2> QED
    BY <1>1, <2>3, <2>6 DEF WeightOf
<1>9. ASSUME NEW s \in E
      PROVE  (IF f.weighted /\ FirstRow(rows, s).weight # Blank
              THEN FirstRow(rows, s).weight ELSE 1) \in Weights
  <2>1. Named(kept, s) \in SUBSET Nat /\ Named(kept, s) \subseteq 1..n
    BY <1>2 DEF Named
  <2>2. Named(kept, s) # {} /\ FirstRow(kept, s) = FirstRow(rows, s)
    BY <1>1, KeptNames DEF kept
  <2>3. Least(Named(kept, s)) \in 1..n
    BY <2>1, <2>2, LeastChosen
  <2>4. FirstRow(rows, s).weight \in Weights \cup {Blank}
    BY <1>3, <2>2, <2>3 DEF FirstRow, WellFormed
  <2> QED
    BY <2>4, FormsAssumption
<1>10. Inserted(t) = [s \in D |-> t[SelectInSeq(t, LAMBDA target : target.survey = s)].weight]
  BY DEF Inserted
<1>11. Typed(f) = [s \in E |-> IF f.weighted /\ FirstRow(rows, s).weight # Blank
                               THEN FirstRow(rows, s).weight ELSE 1]
  BY TypedRows DEF rows
<1> HIDE DEF D, E
<1>12. Inserted(t) = Typed(f)
  BY <1>6, <1>8, <1>10, <1>11
<1>13. Typed(f) \in [E -> Weights]
  BY <1>9, <1>11
<1>14. E \in (SUBSET Surveys) \ {{}}
  BY <1>7 DEF E
<1> QED
  BY <1>12, <1>13, <1>14 DEF t

\* A refused form that is shown again is accepted as it was, and says the same.
LEMMA DraftMeaning ==
  ASSUME NEW f \in Form
  PROVE  /\ Draft(f) \in Form
         /\ Accepted(Draft(f).rows) <=> Accepted(f.rows)
         /\ Accepted(f.rows) => Typed(Draft(f)) = Typed(f)
<1> DEFINE rows == f.rows
           kept == Kept(rows)
           drafted == DraftRows(rows)
<1>1. rows \in Seq(Row) /\ f.weighted \in BOOLEAN /\ f.new \in BOOLEAN
  BY DEF Form
<1>2. /\ kept \in Seq(Row)
      /\ \A k \in DOMAIN kept :
           Kth(rows, k) \in Positions(rows) /\ kept[k] = rows[Kth(rows, k)]
      /\ \A i \in Positions(rows) : \E k \in DOMAIN kept : Kth(rows, k) = i
  BY <1>1, KeptRows
<1> HIDE DEF rows, kept
<1>3. drafted = [i \in DOMAIN kept |-> [kept[i] EXCEPT !.weight = WeightOf(@)]]
  BY DEF DraftRows, kept
<1>4. \A i \in DOMAIN kept : kept[i] \in Row
  BY <1>2
<1>5. /\ DOMAIN drafted = DOMAIN kept
      /\ \A i \in DOMAIN kept :
           /\ drafted[i] \in Row
           /\ drafted[i].survey = kept[i].survey
           /\ drafted[i].weight = WeightOf(kept[i].weight)
           /\ drafted[i].weight # Blank
  <2> SUFFICES ASSUME NEW i \in DOMAIN kept
               PROVE  /\ drafted[i] \in Row
                      /\ drafted[i].survey = kept[i].survey
                      /\ drafted[i].weight = WeightOf(kept[i].weight)
                      /\ drafted[i].weight # Blank
    BY <1>3
  <2>1. 1 \in WeightTexts /\ Blank # 1
    BY FormsAssumption
  <2>2. WeightOf(kept[i].weight) \in WeightTexts /\ WeightOf(kept[i].weight) # Blank
    BY <1>4, <2>1 DEF Row, WeightOf
  <2>3. drafted[i] = [survey |-> kept[i].survey, weight |-> WeightOf(kept[i].weight)]
    BY <1>3, <1>4 DEF Row
  <2> QED
    BY <1>4, <2>2, <2>3 DEF Row
<1> HIDE DEF drafted
<1>6. drafted \in Seq(Row)
  <2>1. Len(kept) \in Nat /\ DOMAIN kept = 1..Len(kept)
    BY <1>2
  <2>2. drafted \in [1..Len(kept) -> Row]
    BY <1>3, <1>5, <2>1 DEF drafted
  <2> QED
    BY <2>1, <2>2
<1>7. CASE drafted # <<>>
  <2>1. Draft(f) = [f EXCEPT !.rows = drafted]
    BY <1>7 DEF Draft, drafted, rows
  <2>2. Draft(f) \in Form /\ Draft(f).rows = drafted /\ Draft(f).weighted = f.weighted
    BY <1>6, <2>1 DEF Form
  <2>3. Positions(drafted) = DOMAIN kept
    BY <1>5 DEF Positions, IsBlank
  <2>4. DOMAIN kept # {} /\ Positions(rows) # {}
    <3>1. DOMAIN kept # {}
      BY <1>5, <1>6, <1>7, EmptySeq
    <3> QED
      BY <1>2, <3>1
  <2>5. ASSUME NEW i \in DOMAIN kept PROVE WellFormed(drafted[i]) <=> WellFormed(kept[i])
    BY <1>5, FormsAssumption DEF WellFormed, WeightOf
  <2>6. (\A i \in DOMAIN kept : WellFormed(kept[i]))
          <=> \A i \in Positions(rows) : WellFormed(rows[i])
    BY <1>2
  <2>7. Accepted(drafted) <=> Accepted(rows)
    BY <1>1, <1>6, <2>3, <2>4, <2>5, <2>6, AcceptedRows
  <2>8. ASSUME NEW s \in Surveys
        PROVE  /\ Named(drafted, s) # {} <=> Named(rows, s) # {}
               /\ Named(rows, s) # {} =>
                    FirstRow(drafted, s).weight = WeightOf(FirstRow(rows, s).weight)
    <3>1. Named(drafted, s) = Named(kept, s)
      BY <1>5 DEF Named
    <3>2. /\ Named(kept, s) # {} <=> Named(rows, s) # {}
          /\ Named(rows, s) # {} => FirstRow(kept, s) = FirstRow(rows, s)
      BY <1>1, KeptNames DEF kept
    <3>3. ASSUME Named(rows, s) # {} PROVE Least(Named(kept, s)) \in DOMAIN kept
      <4>1. DOMAIN kept \subseteq Nat
        BY <1>2
      <4>2. Named(kept, s) \in SUBSET Nat /\ Named(kept, s) \subseteq DOMAIN kept
        BY <4>1 DEF Named
      <4> QED
        BY <3>2, <3>3, <4>2, LeastChosen
    <3>4. ASSUME Named(rows, s) # {}
          PROVE  FirstRow(drafted, s).weight = WeightOf(FirstRow(rows, s).weight)
      BY <1>5, <3>1, <3>2, <3>3, <3>4 DEF FirstRow
    <3> QED
      BY <3>1, <3>2, <3>4
  <2>9. Typed(Draft(f)) = Typed(f)
    <3> DEFINE E == {s \in Surveys : Named(rows, s) # {}}
               typed(g, s) == IF g.weighted /\ FirstRow(g.rows, s).weight # Blank
                              THEN FirstRow(g.rows, s).weight ELSE 1
    <3>1. {s \in Surveys : Named(drafted, s) # {}} = E
      BY <2>8
    <3>2. Typed(f) = [s \in E |-> typed(f, s)]
      BY TypedRows DEF rows
    <3>3. Typed(Draft(f)) = [s \in E |-> typed(Draft(f), s)]
      BY <2>2, <3>1, TypedRows
    <3>4. ASSUME NEW s \in E PROVE typed(Draft(f), s) = typed(f, s)
      <4>1. FirstRow(drafted, s).weight = WeightOf(FirstRow(rows, s).weight)
        BY <2>8
      <4>2. 1 # Blank
        BY FormsAssumption
      <4> QED
        BY <2>2, <4>1, <4>2 DEF WeightOf, rows
    <3> HIDE DEF E, typed
    <3> QED
      BY <3>2, <3>3, <3>4
  <2> QED
    BY <2>2, <2>7, <2>9 DEF rows
<1>8. CASE drafted = <<>>
  <2>1. Draft(f) = [f EXCEPT !.rows = <<DefaultRow>>]
    BY <1>8 DEF Draft, drafted, rows
  <2>2. DefaultRow \in Row /\ <<DefaultRow>> \in Seq(Row)
    BY FormsAssumption DEF DefaultRow, Row
  <2>3. Draft(f) \in Form /\ Draft(f).rows = <<DefaultRow>>
    BY <2>1, <2>2 DEF Form
  <2>4. ~Accepted(<<DefaultRow>>)
    <3>1. 1 \in Positions(<<DefaultRow>>) /\ ~WellFormed(<<DefaultRow>>[1])
      BY FormsAssumption DEF Positions, IsBlank, WellFormed, DefaultRow
    <3> QED
      BY <2>2, <3>1, AcceptedRows
  <2>5. ~Accepted(rows)
    <3>1. kept = <<>>
      BY <1>2, <1>5, <1>8, EmptySeq
    <3> QED
      BY <3>1 DEF Accepted, kept
  <2> QED
    BY <2>3, <2>4, <2>5 DEF rows
<1> QED
  BY <1>7, <1>8

\* The page of a route shows its targets as they are.
LEMMA ShownRoute ==
  ASSUME NEW r \in Route, ~r.weighted => \A s \in DOMAIN r.targets : r.targets[s] = 1
  PROVE  FormFromRoute(r) \in Form /\ Typed(FormFromRoute(r)) = r.targets
<1> DEFINE S == DOMAIN r.targets
           n == Cardinality(S)
           a == Ascending(S)
           f == FormFromRoute(r)
           rows == f.rows
<1>1. /\ S \subseteq Surveys /\ r.targets \in [S -> Weights] /\ r.weighted \in BOOLEAN
  BY DEF Route
<1>2. S \in SUBSET Nat /\ IsFiniteSet(S)
  BY <1>1, FormsAssumption, FS_Subset
<1> HIDE DEF S
<1>3. /\ n \in Nat /\ a \in [1..n -> S]
      /\ \A x \in S : \E i \in 1..n : a[i] = x
      /\ \A i, j \in 1..n : i < j <=> a[i] < a[j]
  BY <1>2, AscendingOrder
<1> HIDE DEF n, a
<1>4. /\ f = [new |-> FALSE, weighted |-> r.weighted,
              rows |-> [i \in 1..n |-> [survey |-> a[i], weight |-> r.targets[a[i]]]]]
  BY <1>3 DEF FormFromRoute, a, S
<1> HIDE DEF f
<1>5. /\ rows = [i \in 1..n |-> [survey |-> a[i], weight |-> r.targets[a[i]]]]
      /\ f.weighted = r.weighted /\ f.new = FALSE
  BY <1>4
<1> HIDE DEF rows
<1>6. \A i \in 1..n : rows[i] \in Row
  BY <1>1, <1>3, <1>5, FormsAssumption DEF Row
<1>7. rows \in Seq(Row)
  <2>1. rows \in [1..n -> Row]
    BY <1>5, <1>6
  <2> QED
    BY <1>3, <2>1
<1>8. f \in Form
  BY <1>1, <1>4, <1>5, <1>7 DEF Form
<1>9. ASSUME NEW s \in S
      PROVE  Named(rows, s) # {} /\ FirstRow(rows, s).weight = r.targets[s]
  <2>1. Named(rows, s) # {} /\ Named(rows, s) \subseteq 1..n
    BY <1>3, <1>5 DEF Named
  <2>2. Least(Named(rows, s)) \in Named(rows, s)
    <3>1. Named(rows, s) \in SUBSET Nat
      BY <1>3, <2>1
    <3> QED
      BY <2>1, <3>1, LeastChosen
  <2> QED
    BY <1>5, <2>1, <2>2 DEF Named, FirstRow
<1>10. {s \in Surveys : Named(rows, s) # {}} = S
  <2>1. \A s \in Surveys : Named(rows, s) # {} => s \in S
    BY <1>3, <1>5 DEF Named
  <2> QED
    BY <1>1, <1>9, <2>1
<1>11. ASSUME NEW s \in S
       PROVE  (IF f.weighted /\ FirstRow(rows, s).weight # Blank
               THEN FirstRow(rows, s).weight ELSE 1) = r.targets[s]
  <2>1. r.targets[s] \in Weights /\ r.targets[s] # Blank
    BY <1>1, FormsAssumption
  <2>2. ~r.weighted => r.targets[s] = 1
    BY DEF S
  <2> QED
    BY <1>1, <1>5, <1>9, <2>1, <2>2
<1>12. Typed(f) = [s \in S |-> IF f.weighted /\ FirstRow(rows, s).weight # Blank
                               THEN FirstRow(rows, s).weight ELSE 1]
  BY <1>10, TypedRows DEF rows
<1>13. Typed(f) = r.targets
  BY <1>1, <1>11, <1>12
<1> QED
  BY <1>8, <1>13 DEF f

-----------------------------------------------------------------------------
(***************************************************************************)
(* The types of the pages, the route and its form.                         *)
(***************************************************************************)
\* A route whose algorithm has no weights is stored with weight 1 everywhere.
PlainWeights(r) == ~r.weighted => \A s \in DOMAIN r.targets : r.targets[s] = 1

FormsInv == FormsTypeOK /\ (route # NoRoute => PlainWeights(route))

LEMMA RespondTypes ==
  ASSUME FormsTypeOK, NEW t \in Tabs, NEW kind \in {"login", "admin", "route"},
         Respond(t, kind)
  PROVE  /\ page' \in [Tabs -> Page]
         /\ page'[t].kind = kind
         /\ \A u \in Tabs \ {t} : page'[u] = page[u]
         /\ minted' \in 0..MaxTokens
         /\ crossing' \subseteq Tabs
         /\ excused' \subseteq Tabs
<1>1. /\ page \in [Tabs -> Page] /\ minted \in 0..MaxTokens /\ secret \in 1..MaxSecrets
      /\ jar \in Cookie \cup {NoCookie}
      /\ crossing \subseteq Tabs /\ excused \subseteq Tabs
      /\ MaxTokens \in Nat /\ MaxSecrets \in Nat
  BY FormsAssumption DEF FormsTypeOK
<1>2. Asked(t) => crossing' \subseteq Tabs /\ excused' \subseteq Tabs
  BY <1>1 DEF Asked, SettingCookie
<1>3. \A token \in Nat, sets \in Cookie \cup {NoCookie} : Loading(kind, token, sets) \in Page
  BY DEF Loading, Page
<1>4. PICK token \in Nat, sets \in Cookie \cup {NoCookie} :
        /\ page' = [page EXCEPT ![t] = Loading(kind, token, sets)]
        /\ minted' \in 0..MaxTokens
        /\ Asked(t)
  <2>1. CASE ValidCookie /\ ~RespondAfresh(t, kind)
    <3>1. jar.token \in Nat
      BY <1>1, <2>1 DEF ValidCookie, Cookie
    <3>2. /\ page' = [page EXCEPT ![t] = Loading(kind, jar.token, NoCookie)]
          /\ Asked(t) /\ minted' = minted
      BY <2>1 DEF Respond
    <3> QED
      BY <1>1, <3>1, <3>2
  <2>2. CASE RespondAfresh(t, kind)
    <3> DEFINE next == minted + 1
               cookie == [token |-> next, secret |-> secret]
    <3>1. /\ minted' = next /\ minted < MaxTokens
          /\ page' = [page EXCEPT ![t] = Loading(kind, next, cookie)]
          /\ Asked(t)
      BY <2>2 DEF RespondAfresh
    <3>2. next \in 1..MaxTokens /\ next \in Nat /\ next \in 0..MaxTokens
      BY <1>1, <3>1
    <3>3. cookie \in Cookie
      BY <1>1, <3>2 DEF Cookie
    <3> HIDE DEF next, cookie
    <3> QED
      BY <3>1, <3>2, <3>3
  <2> QED
    BY <2>1, <2>2 DEF Respond
<1>5. page'[t] = Loading(kind, token, sets) /\ \A u \in Tabs \ {t} : page'[u] = page[u]
  BY <1>1, <1>4
<1> QED
  BY <1>1, <1>2, <1>3, <1>4, <1>5 DEF Loading

LEMMA SavedRoute ==
  ASSUME NEW f \in Form, Accepted(f.rows), NEW r,
         r = [weighted |-> f.weighted, targets |-> Inserted(BuildRouteInput(f))]
  PROVE  r \in Route /\ PlainWeights(r)
<1>1. f.weighted \in BOOLEAN
  BY DEF Form
<1>2. /\ Inserted(BuildRouteInput(f)) = Typed(f)
      /\ Typed(f) \in UNION {[S -> Weights] : S \in (SUBSET Surveys) \ {{}}}
  BY InsertedIsTyped
<1>3. r \in Route
  BY <1>1, <1>2 DEF Route
<1>4. ~f.weighted => \A s \in DOMAIN Typed(f) : Typed(f)[s] = 1
  BY TypedRows
<1> QED
  BY <1>2, <1>3, <1>4 DEF PlainWeights

\* What a GET of the route's page shows.
LEMMA RouteFormTypes ==
  ASSUME FormsInv
  PROVE  RouteForm \in Form /\ RouteForm # NoForm
<1>1. DefaultForm \in Form
  BY FormsAssumption DEF DefaultForm, Form, DefaultRow, Row
<1>2. ASSUME route # NoRoute PROVE FormFromRoute(route) \in Form
  BY <1>2, ShownRoute DEF FormsInv, FormsTypeOK, PlainWeights
<1> QED
  BY <1>1, <1>2, FormsAssumption DEF RouteForm

\* A response together with what happens to the form.
LEMMA ResponseKeeps ==
  ASSUME FormsInv, NEW t \in Tabs, NEW kind \in {"login", "admin", "route"},
         Respond(t, kind), signedIn' \in BOOLEAN, UNCHANGED <<jar, secret>>,
         route' \in Route \cup {NoRoute}, route' # NoRoute => PlainWeights(route'),
         form' = NoForm \/ form' \in Form,
         IF t = Editor THEN form' # NoForm <=> kind = "route" ELSE form' = form
  PROVE  FormsInv'
<1>1. /\ page' \in [Tabs -> Page] /\ minted' \in 0..MaxTokens
      /\ crossing' \subseteq Tabs /\ excused' \subseteq Tabs
      /\ page'[t].kind = kind /\ \A u \in Tabs \ {t} : page'[u] = page[u]
  BY RespondTypes DEF FormsInv
<1>2. Editor \in Tabs
  BY FormsAssumption
<1>3. form' # NoForm <=> page'[Editor].kind = "route"
  BY <1>1, <1>2 DEF FormsInv, FormsTypeOK
<1> QED
  BY <1>1, <1>3 DEF FormsInv, FormsTypeOK

\* A step of the route or its form that touches no page.
LEMMA EditKeeps ==
  ASSUME FormsInv, UNCHANGED <<page, jar, signedIn, secret, minted, history>>,
         route' \in Route \cup {NoRoute}, route' # NoRoute => PlainWeights(route'),
         form' = form \/ (form # NoForm /\ form' \in Form)
  PROVE  FormsInv'
  BY FormsAssumption DEF FormsInv, FormsTypeOK, history

LEMMA ForbidKeeps ==
  ASSUME FormsInv, NEW t \in Tabs, Forbid(t)
  PROVE  FormsInv'
<1>1. /\ page' \in [Tabs -> Page] /\ page'[t].kind = "admin"
      /\ \A u \in Tabs \ {t} : page'[u] = page[u]
  BY DEF FormsInv, FormsTypeOK, Forbid, NoPage, Page
<1>2. form' # NoForm <=> page'[Editor].kind = "route"
  BY <1>1, FormsAssumption DEF FormsInv, FormsTypeOK, Forbid, Left
<1>3. /\ form' = NoForm \/ form' \in Form
      /\ UNCHANGED <<route, jar, signedIn, secret, minted, history>>
  BY DEF FormsInv, FormsTypeOK, Forbid, Left
<1> QED
  BY <1>1, <1>2, <1>3 DEF FormsInv, FormsTypeOK, history

LEMMA FormsStart == FormsInit => FormsInv
<1> SUFFICES ASSUME FormsInit PROVE FormsInv
  OBVIOUS
<1>1. Editor \in Tabs /\ 1 \in 1..MaxSecrets /\ 0 \in 0..MaxTokens
  BY FormsAssumption
<1>2. NoPage("blank") \in Page
  BY DEF NoPage, Page
<1>3. page \in [Tabs -> Page] /\ page[Editor].kind # "route"
  BY <1>1, <1>2 DEF FormsInit, NoPage
<1> QED
  BY <1>1, <1>3 DEF FormsInit, FormsInv, FormsTypeOK

LEMMA VisitKeeps ==
  ASSUME FormsInv, NEW t \in Tabs, NEW kind \in {"login", "admin", "route"},
         Visit(t, kind)
  PROVE  FormsInv'
<1>1. form' = NoForm \/ form' \in Form
  BY RouteFormTypes DEF Visit, Left, FormsInv, FormsTypeOK
<1>2. IF t = Editor THEN form' # NoForm <=> kind = "route" ELSE form' = form
  BY RouteFormTypes DEF Visit, Left
<1>3. /\ Respond(t, kind) /\ UNCHANGED <<route, jar, signedIn, secret>>
  BY DEF Visit
<1> QED
  BY <1>1, <1>2, <1>3, ResponseKeeps DEF FormsInv, FormsTypeOK

LEMMA ArriveKeeps ==
  ASSUME FormsInv, NEW t \in Tabs, Arrive(t)
  PROVE  FormsInv'
<1>1. page[t] \in Page /\ Editor \in Tabs
  BY FormsAssumption DEF FormsInv, FormsTypeOK
<1>2. page' \in [Tabs -> Page] /\ page'[Editor].kind = page[Editor].kind
  BY <1>1 DEF FormsInv, FormsTypeOK, Arrive, Page
<1>3. jar' \in Cookie \cup {NoCookie}
  BY <1>1 DEF FormsInv, FormsTypeOK, Arrive, Page
<1>4. /\ UNCHANGED <<route, form, signedIn, secret, minted, crossing>>
      /\ excused' \subseteq Tabs
  BY DEF Arrive, Excused, FormsInv, FormsTypeOK
<1> QED
  BY <1>2, <1>3, <1>4 DEF FormsInv, FormsTypeOK

\* The forms of the console other than the route's.
LEMMA SubmitKeeps ==
  ASSUME FormsInv, NEW t \in Tabs, SubmitLogin(t) \/ SubmitAdmin(t) \/ Logout(t)
  PROVE  FormsInv'
<1>1. CASE Forbid(t)
  BY <1>1, ForbidKeeps
<1>2. CASE ~Forbid(t) /\ (SubmitLogin(t) \/ SubmitAdmin(t))
  <2>1. PICK kind \in {"login", "admin"} : Respond(t, kind)
    BY <1>2 DEF SubmitLogin, SubmitAdmin
  <2>2. /\ page[t].kind # "route" /\ signedIn' \in BOOLEAN
        /\ UNCHANGED <<route, form, jar, secret>>
    BY <1>2 DEF SubmitLogin, SubmitAdmin, FormsInv, FormsTypeOK
  <2>3. IF t = Editor THEN form' # NoForm <=> kind = "route" ELSE form' = form
    BY <2>1, <2>2 DEF FormsInv, FormsTypeOK
  <2> QED
    BY <2>1, <2>2, <2>3, ResponseKeeps DEF FormsInv, FormsTypeOK
<1>3. CASE ~Forbid(t) /\ Logout(t)
  <2>1. /\ Respond(t, "login") /\ signedIn' = FALSE /\ form' = Left(t)
        /\ UNCHANGED <<route, jar, secret>>
    BY <1>3 DEF Logout
  <2> QED
    BY <2>1, ResponseKeeps DEF FormsInv, FormsTypeOK, Left
<1> QED
  BY <1>1, <1>2, <1>3

LEMMA SubmitRouteKeeps ==
  ASSUME FormsInv, SubmitRoute
  PROVE  FormsInv'
<1>1. Editor \in Tabs /\ form # NoForm /\ form \in Form
  BY FormsAssumption DEF SubmitRoute, FormsInv, FormsTypeOK
<1>2. CASE Forbid(Editor)
  BY <1>1, <1>2, ForbidKeeps
<1>3. CASE Respond(Editor, "login") /\ form' = NoForm /\ UNCHANGED <<route, jar, signedIn, secret>>
  BY <1>1, <1>3, ResponseKeeps DEF FormsInv, FormsTypeOK
<1>4. CASE SaveForm /\ Respond(Editor, "route") /\ UNCHANGED <<jar, signedIn, secret>>
  <2>1. route' \in Route /\ PlainWeights(route')
    BY <1>1, <1>4, SavedRoute DEF SaveForm
  <2>2. form' \in Form /\ form' # NoForm
    BY <1>4, <2>1, ShownRoute, FormsAssumption DEF SaveForm, PlainWeights
  <2> QED
    BY <1>1, <1>4, <2>1, <2>2, ResponseKeeps DEF FormsInv, FormsTypeOK
<1>5. CASE RefuseForm /\ Respond(Editor, "route") /\ UNCHANGED <<jar, signedIn, secret>>
  <2>1. form' \in Form /\ form' # NoForm /\ route' = route
    BY <1>1, <1>5, DraftMeaning, FormsAssumption DEF RefuseForm
  <2> QED
    BY <1>1, <1>5, <2>1, ResponseKeeps DEF FormsInv, FormsTypeOK
<1> QED
  BY <1>2, <1>3, <1>4, <1>5 DEF SubmitRoute

\* An edit of the rows leaves a sequence of rows.
LEMMA RowsKeep ==
  ASSUME FormsInv, form # NoForm, NEW rows \in Seq(Row), Edit(rows)
  PROVE  FormsInv'
<1>1. form \in Form
  BY DEF FormsInv, FormsTypeOK
<1>2. form' \in Form
  BY <1>1 DEF Edit, Form
<1> QED
  BY <1>2, EditKeeps DEF Edit, FormsInv, FormsTypeOK

LEMMA AddRowKeeps ==
  ASSUME FormsInv, AddRow
  PROVE  FormsInv'
<1>1. form # NoForm /\ form.rows \in Seq(Row) /\ DefaultRow \in Row
  BY FormsAssumption DEF AddRow, Editing, FormsInv, FormsTypeOK, Form, DefaultRow, Row
<1>2. Append(form.rows, DefaultRow) \in Seq(Row)
  BY <1>1
<1> QED
  BY <1>1, <1>2, RowsKeep DEF AddRow

LEMMA RemoveRowKeeps ==
  ASSUME FormsInv, NEW i \in 1..MaxRows, RemoveRow(i)
  PROVE  FormsInv'
<1> DEFINE rows == form.rows
           left == IF Len(rows) = 1 THEN <<DefaultRow>> ELSE RemoveAt(rows, i)
<1>1. form # NoForm /\ rows \in Seq(Row) /\ DefaultRow \in Row /\ i \in DOMAIN rows
  BY FormsAssumption DEF RemoveRow, Editing, FormsInv, FormsTypeOK, Form, DefaultRow, Row
<1>2. Edit(left)
  BY DEF RemoveRow
<1> HIDE DEF rows
<1>3. RemoveAt(rows, i) \in Seq(Row)
  <2>1. SubSeq(rows, 1, i - 1) \in Seq(Row) /\ SubSeq(rows, i + 1, Len(rows)) \in Seq(Row)
    BY <1>1
  <2> QED
    BY <2>1 DEF RemoveAt
<1>4. left \in Seq(Row)
  BY <1>1, <1>3
<1> HIDE DEF left
<1> QED
  BY <1>1, <1>2, <1>4, RowsKeep

\* A text typed into a row.
LEMMA TypeKeeps ==
  ASSUME FormsInv, NEW i \in 1..MaxRows,
         \/ \E text \in SurveyTexts : TypeSurvey(i, text)
         \/ \E text \in WeightTexts : TypeWeight(i, text)
  PROVE  FormsInv'
<1> DEFINE rows == form.rows
<1>1. form # NoForm /\ rows \in Seq(Row) /\ i \in DOMAIN rows
  BY DEF TypeSurvey, TypeWeight, Editing, FormsInv, FormsTypeOK, Form
<1>2. PICK row \in Row : Edit([rows EXCEPT ![i] = row])
  <2>1. rows[i] \in Row
    BY <1>1
  <2>2. CASE \E text \in SurveyTexts : TypeSurvey(i, text)
    <3>1. PICK text \in SurveyTexts : Edit([rows EXCEPT ![i].survey = text])
      BY <2>2 DEF TypeSurvey
    <3>2. [rows[i] EXCEPT !.survey = text] \in Row
      BY <2>1 DEF Row
    <3> QED
      BY <3>1, <3>2
  <2>3. CASE \E text \in WeightTexts : TypeWeight(i, text)
    <3>1. PICK text \in WeightTexts : Edit([rows EXCEPT ![i].weight = text])
      BY <2>3 DEF TypeWeight
    <3>2. [rows[i] EXCEPT !.weight = text] \in Row
      BY <2>1 DEF Row
    <3> QED
      BY <3>1, <3>2
  <2> QED
    BY <2>2, <2>3
<1> HIDE DEF rows
<1>3. [rows EXCEPT ![i] = row] \in Seq(Row)
  BY <1>1
<1> QED
  BY <1>1, <1>2, <1>3, RowsKeep

LEMMA ChooseAlgorithmKeeps ==
  ASSUME FormsInv, ChooseAlgorithm
  PROVE  FormsInv'
<1>1. form # NoForm /\ form \in Form
  BY DEF ChooseAlgorithm, Editing, FormsInv, FormsTypeOK
<1>2. form' \in Form
  BY <1>1 DEF ChooseAlgorithm, Form
<1> QED
  BY <1>1, <1>2, EditKeeps DEF ChooseAlgorithm, FormsInv, FormsTypeOK

LEMMA OthersSaveKeeps ==
  ASSUME FormsInv, OthersSave
  PROVE  FormsInv'
<1>1. route' \in Route /\ PlainWeights(route')
  BY DEF OthersSave, PlainWeights
<1> QED
  BY <1>1, EditKeeps DEF OthersSave

LEMMA ExpiryKeeps ==
  ASSUME FormsInv, ExpireToken \/ ExpireSession \/ RestartWithNewSecret
  PROVE  FormsInv'
<1>1. UNCHANGED <<route, form, page, minted>>
  BY DEF ExpireToken, ExpireSession, RestartWithNewSecret
<1>2. /\ jar' \in Cookie \cup {NoCookie} /\ signedIn' \in BOOLEAN
      /\ crossing' \subseteq Tabs /\ excused' \subseteq Tabs
  BY DEF FormsInv, FormsTypeOK, history, ExpireToken, ExpireSession, RestartWithNewSecret
<1>3. secret' \in 1..MaxSecrets
  BY FormsAssumption DEF FormsInv, FormsTypeOK, ExpireToken, ExpireSession,
     RestartWithNewSecret
<1> QED
  BY <1>1, <1>2, <1>3 DEF FormsInv, FormsTypeOK

LEMMA FormsStep == FormsInv /\ [FormsNext]_vars => FormsInv'
<1> SUFFICES ASSUME FormsInv, [FormsNext]_vars PROVE FormsInv'
  OBVIOUS
<1>1. ASSUME NEW t \in Tabs, NEW kind \in {"login", "admin", "route"}, Visit(t, kind)
      PROVE  FormsInv'
  BY <1>1, VisitKeeps
<1>2. ASSUME NEW t \in Tabs, Arrive(t) PROVE FormsInv'
  BY <1>2, ArriveKeeps
<1>3. ASSUME NEW t \in Tabs, SubmitLogin(t) \/ SubmitAdmin(t) \/ Logout(t) PROVE FormsInv'
  BY <1>3, SubmitKeeps
<1>4. CASE AddRow
  BY <1>4, AddRowKeeps
<1>5. CASE ChooseAlgorithm
  BY <1>5, ChooseAlgorithmKeeps
<1>6. CASE SubmitRoute
  BY <1>6, SubmitRouteKeeps
<1>7. ASSUME NEW i \in 1..MaxRows, RemoveRow(i) PROVE FormsInv'
  BY <1>7, RemoveRowKeeps
<1>8. ASSUME NEW i \in 1..MaxRows,
             \/ \E text \in SurveyTexts : TypeSurvey(i, text)
             \/ \E text \in WeightTexts : TypeWeight(i, text)
      PROVE  FormsInv'
  BY <1>8, TypeKeeps
<1>9. CASE OthersSave
  BY <1>9, OthersSaveKeeps
<1>10. CASE ExpireToken \/ ExpireSession \/ RestartWithNewSecret
  BY <1>10, ExpiryKeeps
<1>11. CASE UNCHANGED vars
  BY <1>11 DEF vars, FormsInv, FormsTypeOK
<1> QED
  BY <1>1, <1>2, <1>3, <1>4, <1>5, <1>6, <1>7, <1>8, <1>9, <1>10, <1>11 DEF FormsNext

LEMMA FormsInvariant == FormsSpec => []FormsInv
  BY FormsStart, FormsStep, PTL DEF FormsSpec

-----------------------------------------------------------------------------
\* The pages, the route and its form keep their types; the tab that shows the
\* route's page is the only one with a form (server.go:1206, 1246 and 1276).
THEOREM FormsTypeCorrect == FormsSpec => []FormsTypeOK
  BY FormsInvariant, PTL DEF FormsInv

\* Saving a form stores what its rows say: for every survey named, the weight
\* of the first row that names it, and no other survey (server.go:1276,
\* store.go:525).
THEOREM FormsStoreWhatIsTyped == FormsSpec => SavedAsTyped
<1>1. ASSUME FormsInv, Submitted, SaveForm PROVE route'.targets = Typed(form)
  <2>1. form \in Form /\ Accepted(form.rows)
    BY <1>1 DEF FormsInv, FormsTypeOK, Submitted, SaveForm
  <2> QED
    BY <1>1, <2>1, InsertedIsTyped DEF SaveForm
<1> QED
  BY <1>1, FormsInvariant, PTL DEF SavedAsTyped

\* Saving a page that shows the route as it is changes nothing for respondents
\* (server.go:1206 and 1276 are inverses).
THEOREM ShownFormsSaveNothingNew == FormsSpec => ShownIsSaved
<1>1. ASSUME FormsInv, route # NoRoute, form = FormFromRoute(route), SaveForm
      PROVE  route' = route
  <2>1. /\ route \in Route /\ form \in Form /\ Typed(form) = route.targets
        /\ Accepted(form.rows)
    BY <1>1, ShownRoute DEF FormsInv, FormsTypeOK, PlainWeights, SaveForm
  <2>2. route' = [weighted |-> form.weighted, targets |-> route.targets]
    BY <1>1, <2>1, InsertedIsTyped DEF SaveForm
  <2>3. form.weighted = route.weighted
    BY <1>1 DEF FormFromRoute
  <2>4. route = [weighted |-> route.weighted, targets |-> route.targets]
    BY <2>1 DEF Route
  <2> QED
    BY <2>2, <2>3, <2>4
<1> QED
  BY <1>1, FormsInvariant, PTL DEF ShownIsSaved

\* A refused form that is shown again means what the user submitted: it is
\* refused again, or stores the same targets (server.go:1246).
THEOREM DraftsKeepTheirMeaning == FormsSpec => DraftMeansTheSame
<1>1. ASSUME FormsInv, Submitted, RefuseForm PROVE Meaning(form') = Meaning(form)
  <2>1. form \in Form /\ form' = Draft(form)
    BY <1>1 DEF FormsInv, FormsTypeOK, Submitted, RefuseForm
  <2>2. /\ Draft(form) \in Form
        /\ Accepted(Draft(form).rows) <=> Accepted(form.rows)
        /\ Accepted(form.rows) => Typed(Draft(form)) = Typed(form)
    BY <2>1, DraftMeaning
  <2>3. \A f \in Form : Accepted(f.rows) => Inserted(BuildRouteInput(f)) = Typed(f)
    BY InsertedIsTyped
  <2>4. Meaning(Draft(form)) = Meaning(form)
    BY <2>1, <2>2, <2>3 DEF Meaning
  <2> QED
    BY <2>1, <2>4
<1> QED
  BY <1>1, FormsInvariant, PTL DEF DraftMeansTheSame

=============================================================================
