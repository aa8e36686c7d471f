--------------------------- MODULE AccountsProofs ---------------------------
(***************************************************************************)
(* A password reset ends the sessions of an account, and a counted route   *)
(* protects its owner, for any number of browsers, users and routes.       *)
(***************************************************************************)
EXTENDS Accounts, TLAPS

-----------------------------------------------------------------------------
(***************************************************************************)
(* The inductive invariant.                                                *)
(***************************************************************************)
\* Ids are given out in order.
RowsGivenOut ==
    /\ \A u \in UserIds : Live(u) => u <= lastUser
    /\ \A r \in routes : r.id <= lastRoute

\* A session belongs to an account that was given out and is never ahead of
\* it: while the row is there its version has not gone back, and it has not
\* changed without the password.
SessionOK(session) ==
    session # Null =>
        /\ session.account <= lastUser
        /\ Live(session.account) =>
             /\ session.version <= users[session.account].version
             /\ session.version = users[session.account].version =>
                  session.password = users[session.account].password

\* Between requireAuth and mustSession the cookie can expire but stays.
ClientOK(c) ==
    /\ SessionOK(cookie[c])
    /\ SessionOK(client[c].session)
    /\ client[c].pc = "accepted" => cookie[c] \in Session

\* Routes that the count did not see were created after it.
TabOK(a) ==
    /\ tab[a].pc # "idle" => tab[a].account \in UserIds
    /\ tab[a].pc = "counted" =>
         /\ tab[a].seen <= lastRoute
         /\ \A r \in OwnedBy(tab[a].name) : r.id > tab[a].seen

AccountsInv ==
    /\ TypeOK
    /\ RowsGivenOut
    /\ \A c \in Clients : ClientOK(c)
    /\ \A a \in Tabs : TabOK(a)

-----------------------------------------------------------------------------
(***************************************************************************)
(* What each group of actions preserves.                                   *)
(***************************************************************************)
LEMMA AccountsInit == Init => AccountsInv
<1> SUFFICES ASSUME Init PROVE AccountsInv
  OBVIOUS
<1>1. TypeOK
  BY DEF Init, TypeOK, Client, Tab, Idle
<1>2. RowsGivenOut
  BY DEF Init, RowsGivenOut, Live
<1>3. \A c \in Clients : ClientOK(c)
  BY DEF Init, ClientOK, SessionOK
<1>4. \A a \in Tabs : TabOK(a)
  BY DEF Init, TabOK, Idle
<1> QED
  BY <1>1, <1>2, <1>3, <1>4 DEF AccountsInv

\* A client whose users, routes and pages stay as they are.
LEMMA ClientStep ==
  ASSUME AccountsInv, UNCHANGED <<users, lastUser, lastPassword, routes, lastRoute, tab>>,
         NEW c \in Clients,
         NEW s \in Session \cup {Null}, NEW v \in Client,
         cookie' = [cookie EXCEPT ![c] = s],
         client' = [client EXCEPT ![c] = v],
         SessionOK(s), SessionOK(v.session),
         v.pc = "accepted" => s \in Session
  PROVE  AccountsInv'
<1>1. cookie \in [Clients -> Session \cup {Null}] /\ client \in [Clients -> Client]
  BY DEF AccountsInv, TypeOK
<1>2. TypeOK'
  BY <1>1 DEF AccountsInv, TypeOK
<1>3. RowsGivenOut' /\ \A a \in Tabs : TabOK(a)'
  BY DEF AccountsInv, RowsGivenOut, Live, TabOK, OwnedBy
<1>4. ASSUME NEW d \in Clients PROVE ClientOK(d)'
  <2>1. CASE d = c
    BY <1>1, <2>1 DEF ClientOK, SessionOK, Live
  <2>2. CASE d # c
    <3>1. cookie'[d] = cookie[d] /\ client'[d] = client[d] /\ ClientOK(d)
      BY <1>1, <2>2 DEF AccountsInv
    <3> QED
      BY <3>1 DEF ClientOK, SessionOK, Live
  <2> QED
    BY <2>1, <2>2
<1> QED
  BY <1>2, <1>3, <1>4 DEF AccountsInv

LEMMA VerifyKeeps ==
  ASSUME AccountsInv, NEW c \in Clients, VerifyPassword(c)
  PROVE  AccountsInv'
<1>1. PICK u \in UserIds :
        /\ Live(u)
        /\ client' = [client EXCEPT ![c] =
             [@ EXCEPT !.pc = "verified",
                       !.session = [account |-> u, name |-> users[u].name,
                                    version |-> users[u].version,
                                    password |-> users[u].password,
                                    expired |-> FALSE]]]
  BY DEF VerifyPassword
<1> DEFINE s == [account |-> u, name |-> users[u].name,
                 version |-> users[u].version,
                 password |-> users[u].password, expired |-> FALSE]
           v == [client[c] EXCEPT !.pc = "verified", !.session = s]
<1>2. /\ users[u] \in User /\ u <= lastUser /\ client[c] \in Client
      /\ cookie[c] \in Session \cup {Null} /\ cookie = [cookie EXCEPT ![c] = cookie[c]]
  BY <1>1 DEF AccountsInv, TypeOK, RowsGivenOut, Live
<1>3. /\ s \in Session /\ s.account = u
      /\ s.version = users[u].version /\ s.password = users[u].password
  BY <1>2 DEF User, Session
<1>4. s.version \in Nat
  BY <1>3 DEF Session
<1>5. client' = [client EXCEPT ![c] = v]
  BY <1>1
<1> HIDE DEF s
<1>6. v \in Client /\ v.pc = "verified" /\ v.session = s
  BY <1>2, <1>3 DEF Client
<1> HIDE DEF v
<1>7. SessionOK(s) /\ SessionOK(cookie[c])
  BY <1>2, <1>3, <1>4 DEF SessionOK, AccountsInv, ClientOK
<1> QED
  BY <1>2, <1>5, <1>6, <1>7, ClientStep DEF VerifyPassword

LEMMA SetSessionKeeps ==
  ASSUME AccountsInv, NEW c \in Clients, SetSession(c)
  PROVE  AccountsInv'
<1> DEFINE s == client[c].session
           v == [client[c] EXCEPT !.pc = "idle", !.session = Null]
<1>1. client[c] \in Client /\ SessionOK(s)
  BY DEF AccountsInv, TypeOK, ClientOK
<1>2. s \in Session \cup {Null}
  BY <1>1 DEF Client
<1>3. v \in Client /\ v.pc = "idle" /\ v.session = Null
  BY <1>1 DEF Client
<1>4. /\ cookie' = [cookie EXCEPT ![c] = s] /\ client' = [client EXCEPT ![c] = v]
      /\ UNCHANGED <<users, lastUser, lastPassword, routes, lastRoute, tab>>
  BY DEF SetSession
<1>5. SessionOK(v.session)
  BY <1>3 DEF SessionOK
<1> HIDE DEF s, v
<1> QED
  BY <1>1, <1>2, <1>3, <1>4, <1>5, ClientStep

LEMMA LogoutKeeps ==
  ASSUME AccountsInv, NEW c \in Clients, client[c].pc = "idle",
         cookie' = [cookie EXCEPT ![c] = Null],
         UNCHANGED <<users, lastUser, lastPassword, routes, lastRoute, client, tab>>
  PROVE  AccountsInv'
<1>1. client[c] \in Client /\ client = [client EXCEPT ![c] = client[c]]
  BY DEF AccountsInv, TypeOK
<1>2. SessionOK(Null) /\ SessionOK(client[c].session)
  BY DEF SessionOK, AccountsInv, ClientOK
<1> QED
  BY <1>1, <1>2, ClientStep

LEMMA ExpireKeeps ==
  ASSUME AccountsInv, NEW c \in Clients, Expire(c)
  PROVE  AccountsInv'
<1> DEFINE s == [cookie[c] EXCEPT !.expired = TRUE]
<1>1. cookie[c] \in Session /\ client[c] \in Client
      /\ client = [client EXCEPT ![c] = client[c]]
  BY DEF Expire, AccountsInv, TypeOK
<1>2. s \in Session /\ s.account = cookie[c].account
      /\ s.version = cookie[c].version /\ s.password = cookie[c].password
  BY <1>1 DEF Session
<1>3. cookie' = [cookie EXCEPT ![c] = s]
      /\ UNCHANGED <<users, lastUser, lastPassword, routes, lastRoute, client, tab>>
  BY DEF Expire
<1> HIDE DEF s
<1>4. SessionOK(s) /\ SessionOK(client[c].session)
  BY <1>2 DEF SessionOK, AccountsInv, ClientOK, Expire
<1> QED
  BY <1>1, <1>2, <1>3, <1>4, ClientStep

\* A handler behind requireAuth.
LEMMA PcStep ==
  ASSUME AccountsInv, NEW c \in Clients, NEW v \in Client,
         client' = [client EXCEPT ![c] = v], v.session = client[c].session,
         v.pc = "accepted" => cookie[c] \in Session,
         UNCHANGED <<users, lastUser, lastPassword, routes, lastRoute, cookie, tab>>
  PROVE  AccountsInv'
<1>1. cookie[c] \in Session \cup {Null} /\ cookie = [cookie EXCEPT ![c] = cookie[c]]
  BY DEF AccountsInv, TypeOK
<1>2. SessionOK(cookie[c]) /\ SessionOK(v.session)
  BY DEF AccountsInv, ClientOK
<1> QED
  BY <1>1, <1>2, ClientStep

LEMMA AuthorizeKeeps ==
  ASSUME AccountsInv, NEW c \in Clients, Authorize(c)
  PROVE  AccountsInv'
<1>1. CASE \E u \in UserIds : Accepts(u, cookie[c])
  <2> DEFINE v == [client[c] EXCEPT !.pc = "accepted"]
  <2>1. client[c] \in Client /\ cookie[c] \in Session
    BY DEF Authorize, AccountsInv, TypeOK
  <2>2. v \in Client /\ v.session = client[c].session
    BY <2>1 DEF Client
  <2>3. client' = [client EXCEPT ![c] = v]
        /\ UNCHANGED <<users, lastUser, lastPassword, routes, lastRoute, cookie, tab>>
    BY <1>1 DEF Authorize
  <2> HIDE DEF v
  <2> QED
    BY <2>1, <2>2, <2>3, PcStep
<1>2. CASE ~ \E u \in UserIds : Accepts(u, cookie[c])
  BY <1>2, LogoutKeeps DEF Authorize
<1> QED
  BY <1>1, <1>2

LEMMA MustSessionKeeps ==
  ASSUME AccountsInv, NEW c \in Clients, MustSession(c)
  PROVE  AccountsInv'
<1> DEFINE owner == IF cookie[c].expired THEN Null ELSE cookie[c].name
           v == [client[c] EXCEPT !.pc = "owning", !.owner = owner]
<1>1. client[c] \in Client /\ cookie[c] \in Session
  BY DEF MustSession, AccountsInv, TypeOK, ClientOK
<1>2. owner \in Names \cup {Null}
  BY <1>1 DEF Session
<1>3. client' = [client EXCEPT ![c] = v]
      /\ UNCHANGED <<users, lastUser, lastPassword, routes, lastRoute, cookie, tab>>
  BY DEF MustSession
<1> HIDE DEF owner
<1>4. v \in Client /\ v.session = client[c].session /\ v.pc = "owning"
  BY <1>1, <1>2 DEF Client
<1> HIDE DEF v
<1> QED
  BY <1>3, <1>4, PcStep

LEMMA LookAroundKeeps ==
  ASSUME AccountsInv, NEW c \in Clients, LookAround(c)
  PROVE  AccountsInv'
<1> DEFINE v == [client[c] EXCEPT !.pc = "idle", !.owner = Null]
<1>1. client[c] \in Client
  BY DEF AccountsInv, TypeOK
<1>2. v \in Client /\ v.session = client[c].session /\ v.pc = "idle"
  BY <1>1 DEF Client
<1>3. client' = [client EXCEPT ![c] = v]
      /\ UNCHANGED <<users, lastUser, lastPassword, routes, lastRoute, cookie, tab>>
  BY DEF LookAround
<1> HIDE DEF v
<1> QED
  BY <1>2, <1>3, PcStep

\* Routes come and go: those that are new are younger than every count.
LEMMA RoutesStep ==
  ASSUME AccountsInv, NEW c \in Clients,
         client' = [client EXCEPT ![c] = [@ EXCEPT !.pc = "idle", !.owner = Null]],
         routes' \in SUBSET Route, lastRoute' \in Nat, lastRoute <= lastRoute',
         \A r \in routes' : \/ r \in routes
                            \/ lastRoute < r.id /\ r.id <= lastRoute',
         UNCHANGED <<users, lastUser, lastPassword, cookie, tab>>
  PROVE  AccountsInv'
<1>1. /\ client \in [Clients -> Client] /\ lastRoute \in Nat /\ routes \in SUBSET Route
      /\ tab \in [Tabs -> Tab]
  BY DEF AccountsInv, TypeOK
<1> DEFINE v == [client[c] EXCEPT !.pc = "idle", !.owner = Null]
<1>2. v \in Client /\ v.pc = "idle" /\ v.session = client[c].session
  BY <1>1 DEF Client
<1>3. client' = [client EXCEPT ![c] = v]
  OBVIOUS
<1> HIDE DEF v
<1>4. TypeOK'
  BY <1>1, <1>2, <1>3 DEF AccountsInv, TypeOK
<1>5. RowsGivenOut'
  <2>1. \A r \in routes : r.id \in Nat /\ r.id <= lastRoute
    BY <1>1 DEF AccountsInv, RowsGivenOut, Route
  <2>2. \A r \in routes' : r.id <= lastRoute'
    BY <1>1, <2>1
  <2> QED
    BY <2>2 DEF AccountsInv, RowsGivenOut, Live
<1>6. ASSUME NEW d \in Clients PROVE ClientOK(d)'
  <2>1. /\ client'[d].session = client[d].session
        /\ client'[d].pc = "accepted" => client[d].pc = "accepted"
    BY <1>1, <1>2, <1>3
  <2> QED
    BY <2>1 DEF AccountsInv, ClientOK, SessionOK, Live
<1>7. ASSUME NEW a \in Tabs PROVE TabOK(a)'
  <2>1. tab[a].seen \in Nat
    BY <1>1 DEF Tab
  <2>2. ASSUME tab[a].pc = "counted", NEW r \in routes', r.owner = tab[a].name
        PROVE  r.id > tab[a].seen
    <3>1. tab[a].seen <= lastRoute /\ \A x \in OwnedBy(tab[a].name) : x.id > tab[a].seen
      BY <2>2 DEF AccountsInv, TabOK
    <3>2. r.id \in Nat
      BY DEF Route
    <3> QED
      BY <1>1, <2>1, <2>2, <3>1, <3>2 DEF OwnedBy
  <2>3. tab[a].pc = "counted" => tab[a].seen <= lastRoute'
    BY <1>1, <2>1 DEF AccountsInv, TabOK
  <2> QED
    BY <2>2, <2>3 DEF AccountsInv, TabOK, OwnedBy
<1> QED
  BY <1>4, <1>5, <1>6, <1>7 DEF AccountsInv

LEMMA CreateRouteKeeps ==
  ASSUME AccountsInv, NEW c \in Clients, CreateRoute(c)
  PROVE  AccountsInv'
<1> DEFINE r == [id |-> lastRoute + 1, owner |-> client[c].owner]
<1>1. lastRoute \in Nat /\ client[c] \in Client /\ routes \in SUBSET Route
  BY DEF AccountsInv, TypeOK
<1>2. r \in Route /\ r.id = lastRoute + 1
  BY <1>1 DEF Route, Client
<1>3. routes' = routes \cup {r} /\ lastRoute' = lastRoute + 1
  BY DEF CreateRoute
<1> HIDE DEF r
<1>4. routes' \in SUBSET Route /\ lastRoute' \in Nat /\ lastRoute <= lastRoute'
  BY <1>1, <1>2, <1>3
<1>5. \A x \in routes' : x \in routes \/ (lastRoute < x.id /\ x.id <= lastRoute')
  BY <1>1, <1>2, <1>3
<1> QED
  BY <1>4, <1>5, RoutesStep DEF CreateRoute

LEMMA DeleteRouteKeeps ==
  ASSUME AccountsInv, NEW c \in Clients, DeleteRoute(c)
  PROVE  AccountsInv'
<1>1. /\ routes' \subseteq routes
      /\ client' = [client EXCEPT ![c] = [@ EXCEPT !.pc = "idle", !.owner = Null]]
      /\ UNCHANGED <<users, lastUser, lastPassword, lastRoute, cookie, tab>>
  BY DEF DeleteRoute
<1>2. lastRoute \in Nat /\ routes \in SUBSET Route
  BY DEF AccountsInv, TypeOK
<1>3. lastRoute' \in Nat /\ lastRoute <= lastRoute' /\ routes' \in SUBSET Route
  BY <1>1, <1>2
<1> QED
  BY <1>1, <1>3, RoutesStep

-----------------------------------------------------------------------------
(***************************************************************************)
(* The users page.                                                         *)
(***************************************************************************)
\* A page whose handler writes no row.
LEMMA TabStep ==
  ASSUME AccountsInv, NEW a \in Tabs, NEW v \in Tab, tab' = [tab EXCEPT ![a] = v],
         v.pc # "idle" => v.account \in UserIds,
         v.pc = "counted" =>
           /\ v.seen <= lastRoute
           /\ \A r \in OwnedBy(v.name) : r.id > v.seen,
         UNCHANGED <<users, lastUser, lastPassword, routes, lastRoute, cookie, client>>
  PROVE  AccountsInv'
<1>1. tab \in [Tabs -> Tab]
  BY DEF AccountsInv, TypeOK
<1>2. TypeOK'
  BY <1>1 DEF AccountsInv, TypeOK
<1>3. RowsGivenOut' /\ \A c \in Clients : ClientOK(c)'
  BY DEF AccountsInv, RowsGivenOut, ClientOK, SessionOK, Live
<1>4. ASSUME NEW b \in Tabs PROVE TabOK(b)'
  BY <1>1 DEF AccountsInv, TabOK, OwnedBy
<1> QED
  BY <1>2, <1>3, <1>4 DEF AccountsInv

LEMMA IdleTab == Idle \in Tab /\ Idle.pc = "idle"
  BY DEF Idle, Tab

LEMMA ShowUsersKeeps ==
  ASSUME AccountsInv, NEW a \in Tabs, ShowUsers(a)
  PROVE  AccountsInv'
<1>1. PICK u \in UserIds :
        /\ Live(u)
        /\ tab' = [tab EXCEPT ![a] =
             [@ EXCEPT !.pc = "listed", !.account = u, !.shown = users[u].enabled]]
  BY DEF ShowUsers
<1> DEFINE v == [tab[a] EXCEPT !.pc = "listed", !.account = u,
                               !.shown = users[u].enabled]
<1>2. tab[a] \in Tab /\ users[u] \in User
  BY <1>1 DEF AccountsInv, TypeOK, Live
<1>3. users[u].enabled \in BOOLEAN
  BY <1>2 DEF User
<1>4. v \in Tab /\ v.pc = "listed" /\ v.account = u
  BY <1>2, <1>3 DEF Tab
<1>5. tab' = [tab EXCEPT ![a] = v]
  BY <1>1
<1> HIDE DEF v
<1> QED
  BY <1>4, <1>5, TabStep DEF ShowUsers

LEMMA ToggleReadKeeps ==
  ASSUME AccountsInv, NEW a \in Tabs, ToggleRead(a)
  PROVE  AccountsInv'
<1> DEFINE u == tab[a].account
           v == [tab[a] EXCEPT !.pc = "toggling", !.read = users[u].enabled]
<1>1. tab[a] \in Tab /\ u \in UserIds
  BY DEF ToggleRead, AccountsInv, TypeOK, TabOK
<1>2. users[u].enabled \in BOOLEAN
  BY <1>1 DEF ToggleRead, AccountsInv, TypeOK, Live, User
<1>3. v \in Tab /\ v.pc = "toggling" /\ v.account = u
  BY <1>1, <1>2 DEF Tab
<1>4. tab' = [tab EXCEPT ![a] = v]
  BY DEF ToggleRead
<1> HIDE DEF v
<1> QED
  BY <1>1, <1>3, <1>4, TabStep DEF ToggleRead

LEMMA DeleteReadKeeps ==
  ASSUME AccountsInv, NEW a \in Tabs, DeleteRead(a)
  PROVE  AccountsInv'
<1> DEFINE u == tab[a].account
           v == [tab[a] EXCEPT !.pc = "deleting", !.name = users[u].name]
<1>1. tab[a] \in Tab /\ u \in UserIds
  BY DEF DeleteRead, AccountsInv, TypeOK, TabOK
<1>2. users[u].name \in Names
  BY <1>1 DEF DeleteRead, AccountsInv, TypeOK, Live, User
<1>3. v \in Tab /\ v.pc = "deleting" /\ v.account = u
  BY <1>1, <1>2 DEF Tab
<1>4. tab' = [tab EXCEPT ![a] = v]
  BY DEF DeleteRead
<1> HIDE DEF v
<1> QED
  BY <1>1, <1>3, <1>4, TabStep DEF DeleteRead

LEMMA DeleteCountKeeps ==
  ASSUME AccountsInv, NEW a \in Tabs, DeleteCount(a)
  PROVE  AccountsInv'
<1>1. CASE OwnedBy(tab[a].name) = {}
  <2> DEFINE v == [tab[a] EXCEPT !.pc = "counted", !.seen = lastRoute]
  <2>1. tab[a] \in Tab /\ tab[a].account \in UserIds /\ lastRoute \in Nat
    BY DEF DeleteCount, AccountsInv, TypeOK, TabOK
  <2>2. /\ v \in Tab /\ v.pc = "counted" /\ v.account = tab[a].account
        /\ v.seen = lastRoute /\ v.name = tab[a].name
    BY <2>1 DEF Tab
  <2>3. tab' = [tab EXCEPT ![a] = v]
    BY <1>1 DEF DeleteCount
  <2> HIDE DEF v
  <2>4. v.seen <= lastRoute /\ OwnedBy(v.name) = {}
    BY <1>1, <2>1, <2>2
  <2>5. UNCHANGED <<users, lastUser, lastPassword, routes, lastRoute, cookie, client>>
    BY DEF DeleteCount
  <2> QED
    BY <2>1, <2>2, <2>3, <2>4, <2>5, TabStep
<1>2. CASE OwnedBy(tab[a].name) # {}
  <2>1. tab' = [tab EXCEPT ![a] = Idle]
        /\ UNCHANGED <<users, lastUser, lastPassword, routes, lastRoute, cookie, client>>
    BY <1>2 DEF DeleteCount
  <2> QED
    BY <2>1, IdleTab, TabStep
<1> QED
  BY <1>1, <1>2

\* A row is inserted, changed or deleted: its version never goes back, and
\* keeps its value only with the password; no session is older than the row
\* of a new id.
LEMMA UsersStep ==
  ASSUME AccountsInv,
         users' \in [UserIds -> User \cup {Null}],
         lastUser' \in Nat, lastUser <= lastUser', lastPassword' \in Nat,
         tab' \in [Tabs -> Tab],
         \A a \in Tabs : tab'[a] = tab[a] \/ tab'[a].pc = "idle",
         \A u \in UserIds : Live(u)' =>
           \/ lastUser < u /\ u <= lastUser'
           \/ /\ Live(u)
              /\ \/ users[u].version < users'[u].version
                 \/ /\ users'[u].version = users[u].version
                    /\ users'[u].password = users[u].password,
         UNCHANGED <<routes, lastRoute, cookie, client>>
  PROVE  AccountsInv'
<1>1. /\ lastUser \in Nat /\ users \in [UserIds -> User \cup {Null}]
      /\ cookie \in [Clients -> Session \cup {Null}] /\ client \in [Clients -> Client]
  BY DEF AccountsInv, TypeOK
<1>2. TypeOK'
  BY DEF AccountsInv, TypeOK
<1>3. RowsGivenOut'
  <2> SUFFICES ASSUME NEW u \in UserIds, Live(u)' PROVE u <= lastUser'
    BY DEF AccountsInv, RowsGivenOut
  <2>1. u \in Nat
    BY AccountsAssumption
  <2>2. CASE Live(u)
    BY <1>1, <2>1, <2>2 DEF AccountsInv, RowsGivenOut
  <2> QED
    BY <2>2
<1>4. ASSUME NEW s \in Session \cup {Null}, SessionOK(s)
      PROVE  /\ s # Null => s.account <= lastUser'
             /\ s # Null /\ users'[s.account] # Null =>
                  /\ s.version <= users'[s.account].version
                  /\ s.version = users'[s.account].version =>
                       s.password = users'[s.account].password
  <2> SUFFICES ASSUME s # Null
               PROVE  /\ s.account <= lastUser'
                      /\ users'[s.account] # Null =>
                           /\ s.version <= users'[s.account].version
                           /\ s.version = users'[s.account].version =>
                                s.password = users'[s.account].password
    OBVIOUS
  <2> DEFINE u == s.account
  <2>1. u \in UserIds /\ u \in Nat /\ s.version \in Nat /\ u <= lastUser
    BY <1>4, AccountsAssumption DEF Session, SessionOK
  <2>2. ASSUME users'[u] # Null
        PROVE  /\ s.version <= users'[u].version
               /\ s.version = users'[u].version => s.password = users'[u].password
    <3>1. Live(u)
      BY <1>1, <2>1, <2>2 DEF Live
    <3>2. /\ s.version <= users[u].version
          /\ s.version = users[u].version => s.password = users[u].password
      BY <1>4, <3>1 DEF SessionOK
    <3>3. \/ users[u].version < users'[u].version
          \/ /\ users'[u].version = users[u].version
             /\ users'[u].password = users[u].password
      BY <1>1, <2>1, <2>2 DEF Live
    <3>4. users[u].version \in Nat /\ users'[u].version \in Nat
      BY <1>1, <2>1, <2>2, <3>1 DEF Live, User
    <3> HIDE DEF u
    <3> QED
      BY <2>1, <3>2, <3>3, <3>4
  <2> QED
    BY <1>1, <2>1, <2>2
<1>5. ASSUME NEW c \in Clients PROVE ClientOK(c)'
  <2>1. /\ cookie[c] \in Session \cup {Null} /\ SessionOK(cookie[c])
        /\ client[c].session \in Session \cup {Null} /\ SessionOK(client[c].session)
    BY <1>1 DEF AccountsInv, ClientOK, Client
  <2> QED
    BY <1>4, <2>1 DEF AccountsInv, ClientOK, SessionOK, Live
<1>6. ASSUME NEW a \in Tabs PROVE TabOK(a)'
  BY DEF AccountsInv, TabOK, OwnedBy
<1> QED
  BY <1>2, <1>3, <1>5, <1>6 DEF AccountsInv

\* A page that wrote, or was left, is idle.
LEMMA IdleAgain ==
  ASSUME AccountsInv, NEW a \in Tabs, tab' = [tab EXCEPT ![a] = Idle]
  PROVE  /\ tab' \in [Tabs -> Tab]
         /\ \A b \in Tabs : tab'[b] = tab[b] \/ tab'[b].pc = "idle"
<1>1. tab \in [Tabs -> Tab]
  BY DEF AccountsInv, TypeOK
<1> QED
  BY <1>1, IdleTab

LEMMA CreateUserKeeps ==
  ASSUME AccountsInv, NEW name \in Names, NEW enabled \in BOOLEAN,
         CreateUser(name, enabled)
  PROVE  AccountsInv'
<1> DEFINE n == lastUser + 1
           row == [name |-> name, enabled |-> enabled, version |-> 1,
                   password |-> lastPassword + 1]
<1>1. /\ lastUser \in Nat /\ lastPassword \in Nat /\ n \in UserIds
      /\ users \in [UserIds -> User \cup {Null}] /\ tab \in [Tabs -> Tab]
  BY DEF AccountsInv, TypeOK, CreateUser
<1>2. row \in User
  BY <1>1 DEF User
<1>3. /\ users' = [users EXCEPT ![n] = row] /\ lastUser' = n
      /\ lastPassword' = lastPassword + 1
      /\ UNCHANGED <<routes, lastRoute, cookie, client, tab>>
  BY DEF CreateUser
<1> HIDE DEF row
<1>4. users' \in [UserIds -> User \cup {Null}] /\ lastPassword' \in Nat
  BY <1>1, <1>2, <1>3
<1>5. lastUser' \in Nat /\ lastUser <= lastUser'
  BY <1>1, <1>3
<1>6. ASSUME NEW u \in UserIds, Live(u)'
      PROVE  \/ lastUser < u /\ u <= lastUser'
             \/ /\ Live(u)
                /\ \/ users[u].version < users'[u].version
                   \/ /\ users'[u].version = users[u].version
                      /\ users'[u].password = users[u].password
  BY <1>1, <1>3, <1>6 DEF Live
<1> QED
  BY <1>1, <1>3, <1>4, <1>5, <1>6, UsersStep

LEMMA ToggleWriteKeeps ==
  ASSUME AccountsInv, NEW a \in Tabs, ToggleWrite(a)
  PROVE  AccountsInv'
<1> DEFINE n == tab[a].account
           row == [users[n] EXCEPT !.enabled = ~tab[a].read]
<1>1. /\ n \in UserIds /\ users[n] \in User
      /\ tab[a].read \in BOOLEAN
      /\ users \in [UserIds -> User \cup {Null}]
      /\ lastUser \in Nat /\ lastPassword \in Nat
  BY DEF AccountsInv, TypeOK, TabOK, ToggleWrite, Live, Tab
<1>2. row \in User /\ row.version = users[n].version /\ row.password = users[n].password
  BY <1>1 DEF User
<1>3. /\ users' = [users EXCEPT ![n] = row] /\ tab' = [tab EXCEPT ![a] = Idle]
      /\ UNCHANGED <<lastUser, lastPassword, routes, lastRoute, cookie, client>>
  BY DEF ToggleWrite
<1> HIDE DEF row
<1>4. users' \in [UserIds -> User \cup {Null}] /\ lastUser' \in Nat
      /\ lastUser <= lastUser' /\ lastPassword' \in Nat
  BY <1>1, <1>2, <1>3
<1>5. ASSUME NEW u \in UserIds, Live(u)'
      PROVE  /\ Live(u)
             /\ users'[u].version = users[u].version
             /\ users'[u].password = users[u].password
  BY <1>1, <1>2, <1>3, <1>5 DEF Live, ToggleWrite
<1> QED
  BY <1>3, <1>4, <1>5, IdleAgain, UsersStep

LEMMA ResetPasswordKeeps ==
  ASSUME AccountsInv, NEW a \in Tabs, ResetPassword(a)
  PROVE  AccountsInv'
<1> DEFINE n == tab[a].account
           row == [[users[n] EXCEPT !.password = lastPassword + 1]
                     EXCEPT !.version = users[n].version + 1]
<1>1. /\ n \in UserIds /\ users[n] \in User
      /\ users \in [UserIds -> User \cup {Null}]
      /\ lastUser \in Nat /\ lastPassword \in Nat
  BY DEF AccountsInv, TypeOK, TabOK, ResetPassword, Live
<1>2. users[n].version \in Nat \ {0}
  BY <1>1 DEF User
<1>3. row \in User /\ row.version = users[n].version + 1
  <2>1. lastPassword + 1 \in Nat /\ users[n].version + 1 \in Nat \ {0}
    BY <1>1, <1>2
  <2> QED
    BY <1>1, <2>1 DEF User
<1>4. users' = [users EXCEPT ![n] = row]
  <2> DEFINE raw == [users[n] EXCEPT !.password = lastPassword + 1, !.version = @ + 1]
  <2>1. users' = [users EXCEPT ![n] = raw]
    BY DEF ResetPassword
  <2>2. raw = row
    BY <1>1 DEF User
  <2> QED
    BY <2>1, <2>2
<1>5. /\ tab' = [tab EXCEPT ![a] = Idle]
      /\ lastPassword' = lastPassword + 1
      /\ UNCHANGED <<lastUser, routes, lastRoute, cookie, client>>
  BY DEF ResetPassword
<1> HIDE DEF row
<1>6. users' \in [UserIds -> User \cup {Null}]
  BY <1>1, <1>3, <1>4
<1>7. lastUser' \in Nat /\ lastUser <= lastUser' /\ lastPassword' \in Nat
  BY <1>1, <1>5
<1>8. ASSUME NEW u \in UserIds, Live(u)'
      PROVE  /\ Live(u)
             /\ \/ users[u].version < users'[u].version
                \/ /\ users'[u].version = users[u].version
                   /\ users'[u].password = users[u].password
  <2>1. CASE u = n
    <3>1. Live(u) /\ users'[u] = row
      BY <1>1, <1>4, <2>1 DEF Live, ResetPassword
    <3> QED
      BY <1>2, <1>3, <2>1, <3>1
  <2>2. CASE u # n
    BY <1>1, <1>4, <1>8, <2>2 DEF Live
  <2> QED
    BY <2>1, <2>2
<1> QED
  BY <1>5, <1>6, <1>7, <1>8, IdleAgain, UsersStep

LEMMA DeleteUserKeeps ==
  ASSUME AccountsInv, NEW a \in Tabs, DeleteUser(a)
  PROVE  AccountsInv'
<1>1. /\ users \in [UserIds -> User \cup {Null}]
      /\ lastUser \in Nat /\ lastPassword \in Nat
  BY DEF AccountsInv, TypeOK
<1>2. /\ users' = [users EXCEPT ![tab[a].account] = Null]
      /\ tab' = [tab EXCEPT ![a] = Idle]
      /\ UNCHANGED <<lastUser, lastPassword, routes, lastRoute, cookie, client>>
  BY DEF DeleteUser
<1>3. /\ users' \in [UserIds -> User \cup {Null}]
      /\ lastUser' \in Nat /\ lastUser <= lastUser' /\ lastPassword' \in Nat
  <2>1. users' \in [UserIds -> User \cup {Null}]
    BY <1>1, <1>2
  <2>2. lastUser' \in Nat /\ lastUser <= lastUser' /\ lastPassword' \in Nat
    BY <1>1, <1>2
  <2> QED
    BY <2>1, <2>2
<1>4. \A u \in UserIds : Live(u)' => Live(u) /\ users'[u] = users[u]
  BY <1>1, <1>2 DEF Live
<1> QED
  BY <1>2, <1>3, <1>4, IdleAgain, UsersStep

LEMMA AccountsStep == AccountsInv /\ [Next]_vars => AccountsInv'
<1> SUFFICES ASSUME AccountsInv, [Next]_vars PROVE AccountsInv'
  OBVIOUS
<1>1. ASSUME NEW c \in Clients, Browse(c) PROVE AccountsInv'
  <2>1. CASE Logout(c)
    BY <2>1, LogoutKeeps DEF Logout
  <2> QED
    BY <1>1, <2>1, VerifyKeeps, SetSessionKeeps, ExpireKeeps, AuthorizeKeeps,
       MustSessionKeeps, CreateRouteKeeps, DeleteRouteKeeps, LookAroundKeeps DEF Browse
<1>2. ASSUME NEW a \in Tabs, ManageUsers(a) PROVE AccountsInv'
  <2>1. CASE Leave(a)
    BY <2>1, IdleTab, TabStep DEF Leave
  <2> QED
    BY <1>2, <2>1, ShowUsersKeeps, ToggleReadKeeps, ToggleWriteKeeps,
       ResetPasswordKeeps, DeleteReadKeeps, DeleteCountKeeps, DeleteUserKeeps
       DEF ManageUsers
<1>3. CASE \E name \in Names, enabled \in BOOLEAN : CreateUser(name, enabled)
  BY <1>3, CreateUserKeeps
<1>4. CASE UNCHANGED vars
  BY <1>4 DEF vars, AccountsInv, TypeOK, RowsGivenOut, ClientOK, SessionOK, TabOK,
     OwnedBy, Live
<1> QED
  BY <1>1, <1>2, <1>3, <1>4 DEF Next

LEMMA AccountsInvariant == Spec => []AccountsInv
  BY AccountsInit, AccountsStep, PTL DEF Spec

-----------------------------------------------------------------------------
(***************************************************************************)
(* What sessions and the users page promise.                               *)
(***************************************************************************)
\* The rows, cookies and pages have their types, whatever order logins,
\* requests and the users page run in.
THEOREM AccountsTypeCorrect == Spec => []TypeOK
<1>1. AccountsInv => TypeOK
  BY DEF AccountsInv
<1> QED
  BY <1>1, AccountsInvariant, PTL

\* A session that passes for its account was obtained with the account's
\* present password, even when the reset fell between the comparison of the
\* old password and the cookie (login, UpdateUserPasswordHash).
THEOREM ResetsEndSessions == Spec => []ResetEndsSessions
<1>1. AccountsInv => ResetEndsSessions
  <2> SUFFICES ASSUME AccountsInv, NEW session \in Sessions \ {Null},
                      users[session.account] # Null,
                      users[session.account].version = session.version
               PROVE  users[session.account].password = session.password
    BY DEF ResetEndsSessions
  <2>1. PICK c \in Clients : session = cookie[c] \/ session = client[c].session
    BY DEF Sessions
  <2>2. SessionOK(session)
    BY <2>1 DEF AccountsInv, ClientOK
  <2> QED
    BY <2>2 DEF SessionOK, Live
<1> QED
  BY <1>1, AccountsInvariant, PTL

\* When a user is deleted, every route under the name is younger than the
\* count that allowed it (users, CountRoutesByOwner, DeleteUser).
THEOREM CountsProtectOwners == Spec => CountedRoutesBlockDeletion
<1>1. AccountsInv =>
        \A a \in Tabs : tab[a].pc = "counted" =>
          \A r \in OwnedBy(tab[a].name) : r.id > tab[a].seen
  BY DEF AccountsInv, TabOK
<1>2. AccountsInv /\ [Next]_vars =>
        [\A a \in Tabs :
          tab[a].pc = "counted" /\ Live(tab[a].account)
          /\ users'[tab[a].account] = Null =>
              \A r \in OwnedBy(tab[a].name) : r.id > tab[a].seen]_vars
  BY <1>1
<1> QED
  BY <1>2, AccountsInvariant, PTL DEF Spec, CountedRoutesBlockDeletion

=============================================================================
