------------------------------ MODULE Accounts ------------------------------
(***************************************************************************)
(* Database-backed users, their sessions and the routes they own:          *)
(* login, logout, requireAuth, mustSession and the users page of           *)
(* internal/web/server.go, over the users table of internal/store/store.go *)
(* and the signed cookies of internal/auth/auth.go. The administrator      *)
(* configured in the environment has no row and is not a client here.      *)
(*                                                                         *)
(* Every statement is one step. An account is known by its row id; the     *)
(* program itself finds it by name, so a name created again after a        *)
(* deletion is another account here, but the same one to a cookie.         *)
(***************************************************************************)
EXTENDS Integers, FiniteSets

CONSTANTS
    Clients,       \* browsers of database users
    Tabs,          \* users pages open in the administrator's browser
    UserIds,       \* 1, 2, ...: ids of the rows of users
    Names,         \* user names
    Null,          \* no row, no cookie, no owner
    MaxPasswords,  \* bound: passwords ever set
    MaxRoutes      \* bound: routes ever created

ASSUME AccountsAssumption ==
    /\ UserIds \subseteq Nat \ {0}
    /\ MaxPasswords \in Nat
    /\ MaxRoutes \in Nat
    /\ Null \notin Names
    /\ Null \notin Nat

VARIABLES
    users,         \* table users
    lastUser,      \* sqlite_sequence of users
    lastPassword,  \* passwords are numbered as they are set
    routes,        \* table routes: id and owner_username
    lastRoute,     \* sqlite_sequence of routes
    cookie,        \* the session cookie of each client
    client,        \* the handler that serves each client
    tab            \* each users page and the handler of its last POST

vars == <<users, lastUser, lastPassword, routes, lastRoute, cookie, client, tab>>

-----------------------------------------------------------------------------
User == [name : Names, enabled : BOOLEAN, version : Nat \ {0}, password : Nat]

Route == [id : Nat \ {0}, owner : Names \cup {Null}]

\* account and password are what the session was issued for; the cookie
\* itself holds the name, the version and the expiry.
Session == [account : UserIds, name : Names, version : Nat \ {0},
            password : Nat, expired : BOOLEAN]

Client == [pc : {"idle", "verified", "accepted", "owning"},
           session : Session \cup {Null},      \* verified by login
           owner : Names \cup {Null}]          \* mustSession(r).Username

Tab == [pc : {"idle", "listed", "toggling", "deleting", "counted"},
        account : UserIds \cup {Null},
        name : Names \cup {Null}, \* of the account to delete
        shown : BOOLEAN,           \* enabled, when the page was rendered
        read : BOOLEAN,            \* enabled, as GetUser returned it
        seen : Nat]                \* lastRoute when the routes were counted

TypeOK ==
    /\ users \in [UserIds -> User \cup {Null}]
    /\ lastUser \in Nat
    /\ lastPassword \in Nat
    /\ routes \in SUBSET Route
    /\ lastRoute \in Nat
    /\ cookie \in [Clients -> Session \cup {Null}]
    /\ client \in [Clients -> Client]
    /\ tab \in [Tabs -> Tab]

Live(u) == users[u] # Null

Idle == [pc |-> "idle", account |-> Null, name |-> Null, shown |-> FALSE,
         read |-> FALSE, seen |-> 0]

Init ==
    /\ users = [u \in UserIds |-> Null]
    /\ lastUser = 0
    /\ lastPassword = 0
    /\ routes = {}
    /\ lastRoute = 0
    /\ cookie = [c \in Clients |-> Null]
    /\ client = [c \in Clients |-> [pc |-> "idle", session |-> Null, owner |-> Null]]
    /\ tab = [a \in Tabs |-> Idle]

OwnedBy(name) == {r \in routes : r.owner = name}

-----------------------------------------------------------------------------
(***************************************************************************)
(* login, logout and the life of a cookie.                                 *)
(***************************************************************************)
\* GetAuthUserByUsername, then the password is compared (slowly) with the
\* hash that was read. A wrong password changes nothing.
VerifyPassword(c) ==
    /\ client[c].pc = "idle"
    /\ \E u \in UserIds :
         /\ Live(u)
         /\ users[u].enabled
         /\ client' = [client EXCEPT ![c] =
              [@ EXCEPT !.pc = "verified",
                        !.session = [account |-> u, name |-> users[u].name,
                                     version |-> users[u].version,
                                     password |-> users[u].password,
                                     expired |-> FALSE]]]
    /\ UNCHANGED <<users, lastUser, lastPassword, routes, lastRoute, cookie, tab>>

\* Mutant: the version is read again when the cookie is written.
SetSessionRereading(c) ==
    /\ client[c].pc = "verified"
    /\ LET u == client[c].session.account IN
       cookie' = [cookie EXCEPT ![c] =
         IF Live(u) THEN [client[c].session EXCEPT !.version = users[u].version]
         ELSE client[c].session]
    /\ client' = [client EXCEPT ![c] = [@ EXCEPT !.pc = "idle", !.session = Null]]
    /\ UNCHANGED <<users, lastUser, lastPassword, routes, lastRoute, tab>>

SetSession(c) ==
    /\ client[c].pc = "verified"
    /\ cookie' = [cookie EXCEPT ![c] = client[c].session]
    /\ client' = [client EXCEPT ![c] = [@ EXCEPT !.pc = "idle", !.session = Null]]
    /\ UNCHANGED <<users, lastUser, lastPassword, routes, lastRoute, tab>>

Logout(c) ==
    /\ client[c].pc = "idle"
    /\ cookie[c] # Null
    /\ cookie' = [cookie EXCEPT ![c] = Null]
    /\ UNCHANGED <<users, lastUser, lastPassword, routes, lastRoute, client, tab>>

\* Twenty-four hours pass, perhaps in the middle of a request.
Expire(c) ==
    /\ cookie[c] # Null
    /\ ~cookie[c].expired
    /\ cookie' = [cookie EXCEPT ![c] = [@ EXCEPT !.expired = TRUE]]
    /\ UNCHANGED <<users, lastUser, lastPassword, routes, lastRoute, client, tab>>

-----------------------------------------------------------------------------
(***************************************************************************)
(* requireAuth and the handlers behind it.                                 *)
(***************************************************************************)
\* validatedSession: the row of the cookie's name.
Accepts(u, session) ==
    /\ Live(u)
    /\ users[u].name = session.name
    /\ users[u].enabled
    /\ users[u].version = session.version

Authorize(c) ==
    /\ client[c].pc = "idle"
    /\ cookie[c] # Null
    /\ ~cookie[c].expired
    /\ IF \E u \in UserIds : Accepts(u, cookie[c])
       THEN /\ client' = [client EXCEPT ![c].pc = "accepted"]
            /\ UNCHANGED cookie
       ELSE /\ cookie' = [cookie EXCEPT ![c] = Null]
            /\ UNCHANGED client
    /\ UNCHANGED <<users, lastUser, lastPassword, routes, lastRoute, tab>>

\* mustSession reads the cookie again; an expired one yields no user.
MustSession(c) ==
    /\ client[c].pc = "accepted"
    /\ client' = [client EXCEPT ![c] =
         [@ EXCEPT !.pc = "owning",
                   !.owner = IF cookie[c].expired THEN Null ELSE cookie[c].name]]
    /\ UNCHANGED <<users, lastUser, lastPassword, routes, lastRoute, cookie, tab>>

CreateRoute(c) ==
    /\ client[c].pc = "owning"
    /\ lastRoute < MaxRoutes
    /\ routes' = routes \cup {[id |-> lastRoute + 1, owner |-> client[c].owner]}
    /\ lastRoute' = lastRoute + 1
    /\ client' = [client EXCEPT ![c] = [@ EXCEPT !.pc = "idle", !.owner = Null]]
    /\ UNCHANGED <<users, lastUser, lastPassword, cookie, tab>>

\* routeDetail: a route of one's own is deleted, or without a session one that
\* has no owner.
DeleteRoute(c) ==
    /\ client[c].pc = "owning"
    /\ \E r \in OwnedBy(client[c].owner) : routes' = routes \ {r}
    /\ client' = [client EXCEPT ![c] = [@ EXCEPT !.pc = "idle", !.owner = Null]]
    /\ UNCHANGED <<users, lastUser, lastPassword, lastRoute, cookie, tab>>

\* Any other page, or a refused form.
LookAround(c) ==
    /\ client[c].pc = "owning"
    /\ client' = [client EXCEPT ![c] = [@ EXCEPT !.pc = "idle", !.owner = Null]]
    /\ UNCHANGED <<users, lastUser, lastPassword, routes, lastRoute, cookie, tab>>

-----------------------------------------------------------------------------
(***************************************************************************)
(* The users page.                                                         *)
(***************************************************************************)
\* Mutant: the version of a new row starts at zero.
CreateUserAtZero(name, enabled) ==
    LET u == lastUser + 1 IN
    /\ u \in UserIds
    /\ lastPassword < MaxPasswords
    /\ \A v \in UserIds : Live(v) => users[v].name # name
    /\ users' = [users EXCEPT ![u] =
         [name |-> name, enabled |-> enabled, version |-> 0,
          password |-> lastPassword + 1]]
    /\ lastUser' = u
    /\ lastPassword' = lastPassword + 1
    /\ UNCHANGED <<routes, lastRoute, cookie, client, tab>>

CreateUser(name, enabled) ==
    LET u == lastUser + 1 IN
    /\ u \in UserIds
    /\ lastPassword < MaxPasswords
    /\ \A v \in UserIds : Live(v) => users[v].name # name
    /\ users' = [users EXCEPT ![u] =
         [name |-> name, enabled |-> enabled, version |-> 1,
          password |-> lastPassword + 1]]
    /\ lastUser' = u
    /\ lastPassword' = lastPassword + 1
    /\ UNCHANGED <<routes, lastRoute, cookie, client, tab>>

\* renderUsersPage: one row of the list, with its buttons.
ShowUsers(a) ==
    /\ tab[a].pc = "idle"
    /\ \E u \in UserIds :
         /\ Live(u)
         /\ tab' = [tab EXCEPT ![a] =
              [@ EXCEPT !.pc = "listed", !.account = u, !.shown = users[u].enabled]]
    /\ UNCHANGED <<users, lastUser, lastPassword, routes, lastRoute, cookie, client>>

\* toggle_enabled: GetUser, then UpdateUserEnabled with the opposite.
ToggleRead(a) ==
    /\ tab[a].pc = "listed"
    /\ Live(tab[a].account)
    /\ tab' = [tab EXCEPT ![a] =
         [@ EXCEPT !.pc = "toggling", !.read = users[tab[a].account].enabled]]
    /\ UNCHANGED <<users, lastUser, lastPassword, routes, lastRoute, cookie, client>>

ToggleWrite(a) ==
    /\ tab[a].pc = "toggling"
    /\ Live(tab[a].account)
    /\ users' = [users EXCEPT ![tab[a].account].enabled = ~tab[a].read]
    /\ tab' = [tab EXCEPT ![a] = Idle]
    /\ UNCHANGED <<lastUser, lastPassword, routes, lastRoute, cookie, client>>

\* reset_password: one statement changes the hash and the version.
ResetPassword(a) ==
    /\ tab[a].pc = "listed"
    /\ Live(tab[a].account)
    /\ lastPassword < MaxPasswords
    /\ users' = [users EXCEPT ![tab[a].account].password = lastPassword + 1,
                              ![tab[a].account].version = @ + 1]
    /\ lastPassword' = lastPassword + 1
    /\ tab' = [tab EXCEPT ![a] = Idle]
    /\ UNCHANGED <<lastUser, routes, lastRoute, cookie, client>>

\* delete: GetUser, CountRoutesByOwner, DeleteUser.
DeleteRead(a) ==
    /\ tab[a].pc = "listed"
    /\ Live(tab[a].account)
    /\ tab' = [tab EXCEPT ![a] =
         [@ EXCEPT !.pc = "deleting", !.name = users[tab[a].account].name]]
    /\ UNCHANGED <<users, lastUser, lastPassword, routes, lastRoute, cookie, client>>

\* Mutant: the count does not matter.
DeleteCountIgnored(a) ==
    /\ tab[a].pc = "deleting"
    /\ tab' = [tab EXCEPT ![a] = [@ EXCEPT !.pc = "counted", !.seen = lastRoute]]
    /\ UNCHANGED <<users, lastUser, lastPassword, routes, lastRoute, cookie, client>>

DeleteCount(a) ==
    /\ tab[a].pc = "deleting"
    /\ tab' = [tab EXCEPT ![a] =
         IF OwnedBy(tab[a].name) = {}
         THEN [@ EXCEPT !.pc = "counted", !.seen = lastRoute] ELSE Idle]
    /\ UNCHANGED <<users, lastUser, lastPassword, routes, lastRoute, cookie, client>>

DeleteUser(a) ==
    /\ tab[a].pc = "counted"
    /\ users' = [users EXCEPT ![tab[a].account] = Null]
    /\ tab' = [tab EXCEPT ![a] = Idle]
    /\ UNCHANGED <<lastUser, lastPassword, routes, lastRoute, cookie, client>>

\* The row is gone, the form is refused, a statement fails, or the page is
\* left: nothing is written.
Leave(a) ==
    /\ tab[a].pc # "idle"
    /\ tab' = [tab EXCEPT ![a] = Idle]
    /\ UNCHANGED <<users, lastUser, lastPassword, routes, lastRoute, cookie, client>>

-----------------------------------------------------------------------------
Browse(c) ==
    \/ VerifyPassword(c) \/ SetSession(c) \/ Logout(c) \/ Expire(c)
    \/ Authorize(c) \/ MustSession(c)
    \/ CreateRoute(c) \/ DeleteRoute(c) \/ LookAround(c)

ManageUsers(a) ==
    \/ ShowUsers(a) \/ ToggleRead(a) \/ ToggleWrite(a) \/ ResetPassword(a)
    \/ DeleteRead(a) \/ DeleteCount(a) \/ DeleteUser(a) \/ Leave(a)

Next ==
    \/ \E name \in Names, enabled \in BOOLEAN : CreateUser(name, enabled)
    \/ \E c \in Clients : Browse(c)
    \/ \E a \in Tabs : ManageUsers(a)

Spec == Init /\ [][Next]_vars

-----------------------------------------------------------------------------
(***************************************************************************)
(* What sessions and the users page promise.                               *)
(***************************************************************************)
Sessions == {cookie[c] : c \in Clients} \cup {client[c].session : c \in Clients}

\* A session that still carries the version of the account it was issued for
\* was obtained with the account's present password, even if the password
\* was reset while the login was comparing the old one (login,
\* UpdateUserPasswordHash). It says nothing of an account that was deleted
\* and created again under its name: versions start again at 1.
ResetEndsSessions ==
    \A session \in Sessions \ {Null} :
        LET row == users[session.account] IN
        row # Null /\ row.version = session.version =>
            row.password = session.password

\* A user is deleted only if every route of that name was created after the
\* routes had been counted, between two statements of the handler (users).
CountedRoutesBlockDeletion ==
    [][\A a \in Tabs :
          tab[a].pc = "counted" /\ Live(tab[a].account)
          /\ users'[tab[a].account] = Null =>
              \A r \in OwnedBy(tab[a].name) : r.id > tab[a].seen]_vars

\* server.go: "Cannot delete a user who still owns routes".
OwnersAreNotDeleted ==
    [][\A u \in UserIds :
          Live(u) /\ users'[u] = Null => OwnedBy(users[u].name) = {}]_vars

\* users.html labels the button "Disable" for an enabled user and "Enable"
\* for a disabled one.
ButtonDoesWhatItSays ==
    [][\A a \in Tabs :
          tab[a].pc = "toggling" /\ tab'[a].pc = "idle" /\ users' # users =>
              users'[tab[a].account].enabled = ~tab[a].shown]_vars

=============================================================================
