----------------------------- MODULE Connections -----------------------------
(***************************************************************************)
(* The Mattermost users, the Jira accounts they connected, and the reverse *)
(* index that finds the user of an account for a notification.  The store  *)
(* has three kinds of keys: a user, with the list of instances the user is *)
(* connected to; a connection per instance and user; and the index, a user *)
(* per instance and account.  No operation writes them together:           *)
(*                                                                         *)
(*   connect    the callback of an OAuth or JWT flow: connectUser          *)
(*   disconnect /jira disconnect and its routes: DisconnectUser            *)
(*   settings   /jira settings                                             *)
(*   defaults   UpdateUserDefaults, after an issue or a subscription       *)
(*   refresh    a client for a connection whose OAuth2 token was renewed   *)
(*   uninstall  /jira instance uninstall, which disconnects every user it  *)
(*              finds by paging through the keys                           *)
(*   install    /jira instance install (module Instances has its detail)   *)
(*                                                                         *)
(* Each of them is a sequence of calls of the store; they may run at the   *)
(* same time, and end between two calls.                                   *)
(***************************************************************************)
EXTENDS Naturals, FiniteSets

CONSTANTS
    Instance,       \* instances
    User,           \* Mattermost users, numbers in the order of their keys
    Account,        \* Jira accounts
    NoAccount,      \* the account of the zero Connection, ""
    Nothing,        \* no record, no user, no instance
    Request,        \* requests in progress at the same time
    Kind,           \* the operations they perform
    MaxRequests,    \* bound: how many there are in all
    ListPerPage,    \* listPerPage: the keys of one page
    OtherKeys       \* how many other keys there are; they sort before users

Settings == {"none", "on", "off"}     \* nil, or whether Notifications is set

Connection == [account: Account \cup {NoAccount}, settings: Settings]

UserRecord == [connected: SUBSET Instance, default: Instance \cup {Nothing}]

ASSUME ConnectionsAssumption ==
    /\ User \subseteq Nat
    /\ NoAccount \notin Account
    /\ Nothing \notin Connection \cup UserRecord \cup User \cup Instance \cup Account \cup Nat
    /\ Kind \subseteq {"connect", "disconnect", "settings", "defaults", "refresh",
                       "uninstall", "install"}
    /\ MaxRequests \in Nat
    /\ ListPerPage \in Nat \ {0}
    /\ OtherKeys \in Nat

VARIABLES
    installed,  \* the installed instances
    conns,      \* the stored connections
    index,      \* the stored user of each account
    users,      \* the stored users
    submitted,  \* how many requests there have been
    pc,         \* where each request is
    op,         \* what it does, and to which user and instance
    usr,        \* the user record it has read and changed
    con,        \* the connection it has read and changed
    todo,       \* of the page an uninstall has read, the users it has not yet seen
    page,       \* the page it reads next, if any
    linked,     \* history: which user proved to have which account
    tangled     \* history: users two of whose requests overlapped, or one broke

store   == <<installed, conns, index, users>>
request == <<submitted, pc, op, usr, con, todo, page>>
vars    == <<store, request, linked, tangled>>

NewUser == [connected |-> {}, default |-> Nothing]

Zero == [account |-> NoAccount, settings |-> "none"]

\* What a request is for.  Disconnect and settings may leave the instance out.
Op == {o \in [kind: Kind, user: User \cup {Nothing}, inst: Instance \cup {Nothing},
              arg: Account \cup {"on", "off", "list", Nothing}] :
        /\ o.kind = "connect" => o.arg \in Account
        /\ o.kind = "settings" => o.arg \in {"on", "off", "list"}
        /\ o.kind \notin {"connect", "settings"} => o.arg = Nothing
        /\ o.kind \notin {"disconnect", "settings"} => o.inst # Nothing
        /\ o.user = Nothing => o.kind \in {"install", "uninstall"}}

Arriving == {o \in Op : o.user # Nothing <=> o.kind \notin {"install", "uninstall"}}

Label == {"idle", "resolve", "instance", "user", "connection", "default", "store",
          "index", "again", "check", "delete", "unlink", "unindex", "keep",
          "list", "next", "remove", "install", "panic"}

TypeOK ==
    /\ installed \subseteq Instance
    /\ conns \in [Instance -> [User -> Connection \cup {Nothing}]]
    /\ index \in [Instance -> [Account \cup {NoAccount} -> User \cup {Nothing}]]
    /\ users \in [User -> UserRecord \cup {Nothing}]
    /\ submitted \in Nat
    /\ pc \in [Request -> Label]
    /\ op \in [Request -> Op \cup {Nothing}]
    /\ usr \in [Request -> UserRecord]
    /\ con \in [Request -> Connection]
    /\ todo \in [Request -> SUBSET User]
    /\ page \in [Request -> Nat \cup {Nothing}]
    /\ linked \subseteq Instance \X Account \X User
    /\ tangled \subseteq User

Init ==
    /\ installed = Instance
    /\ conns = [i \in Instance |-> [u \in User |-> Nothing]]
    /\ index = [i \in Instance |-> [a \in Account \cup {NoAccount} |-> Nothing]]
    /\ users = [u \in User |-> Nothing]
    /\ submitted = 0
    /\ pc = [r \in Request |-> "idle"]
    /\ op = [r \in Request |-> Nothing]
    /\ usr = [r \in Request |-> NewUser]
    /\ con = [r \in Request |-> Zero]
    /\ todo = [r \in Request |-> {}]
    /\ page = [r \in Request |-> Nothing]
    /\ linked = {}
    /\ tangled = {}

-----------------------------------------------------------------------------
(* The store.  A key that is missing reads as the zero value, without an   *)
(* error.                                                                  *)

LoadUser(u) == IF users[u] = Nothing THEN NewUser ELSE users[u]

LoadConnection(i, u) == IF conns[i][u] = Nothing THEN Zero ELSE conns[i][u]

\* ListKeys pages through all keys, in their order, by offset: those of
\* connections and of the index, which are hexadecimal, come before "user_".
Connections == {k \in Instance \X User : conns[k[1]][k[2]] # Nothing}
Indexed     == {k \in Instance \X (Account \cup {NoAccount}) : index[k[1]][k[2]] # Nothing}
Stored      == {u \in User : users[u] # Nothing}

Earlier == OtherKeys + Cardinality(Connections) + Cardinality(Indexed)

\* Mutant: pages are counted from one.
UsersOfPageFromOne(n) ==
    {u \in Stored : LET pos == Earlier + Cardinality({v \in Stored : v < u})
                    IN  (n - 1) * ListPerPage <= pos /\ pos < n * ListPerPage}

UsersOfPage(n) ==
    {u \in Stored : LET pos == Earlier + Cardinality({v \in Stored : v < u})
                    IN  n * ListPerPage <= pos /\ pos < (n + 1) * ListPerPage}

LastPage(n) == Earlier + Cardinality(Stored) < (n + 1) * ListPerPage

-----------------------------------------------------------------------------
Goto(r, l) == pc' = [pc EXCEPT ![r] = l]

\* The users a request works on
UsersOf(o) == IF o.kind = "uninstall" THEN User ELSE {o.user} \cap User

Active == {r \in Request : pc[r] # "idle"}

First(o) ==
    CASE o.kind \in {"disconnect", "settings"} -> "resolve"
      [] o.kind \in {"connect", "uninstall"}   -> "instance"
      [] o.kind = "defaults"                   -> "user"
      [] o.kind = "refresh"                    -> "connection"
      [] o.kind = "install"                    -> "install"

Submit(r, o) ==
    /\ pc[r] = "idle"
    /\ submitted < MaxRequests
    /\ submitted' = submitted + 1
    /\ Goto(r, First(o))
    /\ op' = [op EXCEPT ![r] = o]
    /\ tangled' = tangled \cup (UsersOf(o) \cap UNION {UsersOf(op[q]) : q \in Active})
    /\ UNCHANGED <<store, usr, con, todo, page, linked>>

\* The request is answered, or given up: the store stays as it is.
End(r) ==
    /\ Goto(r, "idle")
    /\ op' = [op EXCEPT ![r] = Nothing]
    /\ usr' = [usr EXCEPT ![r] = NewUser]
    /\ con' = [con EXCEPT ![r] = Zero]
    /\ todo' = [todo EXCEPT ![r] = {}]
    /\ page' = [page EXCEPT ![r] = Nothing]

\* A call of the store or of Jira fails, or the server dies.
Break(r) ==
    /\ pc[r] \notin {"idle", "panic"}
    /\ End(r)
    /\ tangled' = tangled \cup UsersOf(op[r])
    /\ UNCHANGED <<store, submitted, linked>>

\* A user an uninstall fails to disconnect is logged, and left.
SkipUser(r) ==
    /\ op[r] # Nothing /\ op[r].kind = "uninstall"
    /\ pc[r] \in {"delete", "unlink", "unindex", "keep"}
    /\ Goto(r, "next")
    /\ con' = [con EXCEPT ![r] = Zero]
    /\ tangled' = tangled \cup {op[r].user}
    /\ UNCHANGED <<store, submitted, op, usr, todo, page, linked>>

\* resolveUserInstanceURL: the instance that is named, connected or not; the
\* default one; or the only one
Resolved(d, i) ==
    IF d.connected = {} THEN {}
    ELSE IF i # Nothing THEN {i}
    ELSE IF d.default \in d.connected THEN {d.default}
    ELSE {j \in d.connected : d.connected = {j}}

Resolve(r) ==
    /\ pc[r] = "resolve"
    /\ LET d == LoadUser(op[r].user)
       IN  \/ \E i \in Resolved(d, op[r].inst) :
                 /\ usr' = [usr EXCEPT ![r] = d]
                 /\ op' = [op EXCEPT ![r].inst = i]
                 /\ Goto(r, "instance")
                 /\ UNCHANGED <<con, todo, page>>
           \/ Resolved(d, op[r].inst) = {} /\ End(r)
    /\ UNCHANGED <<store, submitted, linked, tangled>>

\* Mutant: the default instance stays.
WithoutEntry(d, i) == [connected |-> d.connected \ {i}, default |-> d.default]

\* The record without one instance, which is not the default any more
Without(d, i) == [connected |-> d.connected \ {i},
                  default   |-> IF d.default = i THEN Nothing ELSE d.default]

\* What the callback of a flow stores for the account Jira says the user has
NewConnection(o) == [account |-> o.arg, settings |-> "on"]

\* LoadInstance.  A flow's callback then asks Jira who the user is, a
\* disconnect checks the user record, which it has read before.
LoadInstance(r) ==
    /\ pc[r] = "instance"
    /\ LET o == op[r]
           found == o.inst \in installed
       IN  \/ /\ found /\ o.kind = "connect"
              /\ con' = [con EXCEPT ![r] = NewConnection(o)]
              /\ linked' = linked \cup {<<o.inst, o.arg, o.user>>}
              /\ Goto(r, "user")
              /\ UNCHANGED <<op, usr, todo, page>>
           \/ /\ found /\ o.kind = "disconnect" /\ o.inst \in usr[r].connected
              /\ usr' = [usr EXCEPT ![r] = Without(@, o.inst)]
              /\ Goto(r, "delete")
              /\ UNCHANGED <<op, con, todo, page, linked>>
           \/ /\ found /\ o.kind = "settings"
              /\ Goto(r, "connection")
              /\ UNCHANGED <<op, usr, con, todo, page, linked>>
           \/ /\ found /\ o.kind = "uninstall"
              /\ page' = [page EXCEPT ![r] = 0]
              /\ Goto(r, "list")
              /\ UNCHANGED <<op, usr, con, todo, linked>>
           \/ /\ ~found \/ (o.kind = "disconnect" /\ o.inst \notin usr[r].connected)
              /\ End(r)
              /\ UNCHANGED linked
    /\ UNCHANGED <<store, submitted, tangled>>

\* connectUser adds the instance; UpdateUserDefaults requires it.
ReadUser(r) ==
    /\ pc[r] = "user"
    /\ LET d == LoadUser(op[r].user)
       IN  \/ /\ op[r].kind = "connect"
              /\ usr' = [usr EXCEPT ![r] = [d EXCEPT !.connected = @ \cup {op[r].inst}]]
              /\ Goto(r, "store")
              /\ UNCHANGED <<op, con, todo, page>>
           \/ /\ op[r].kind = "defaults" /\ op[r].inst \in d.connected
              /\ usr' = [usr EXCEPT ![r] = d]
              /\ Goto(r, "connection")
              /\ UNCHANGED <<op, con, todo, page>>
           \/ op[r].kind = "defaults" /\ op[r].inst \notin d.connected /\ End(r)
    /\ UNCHANGED <<store, submitted, linked, tangled>>

\* executeSettings.  `/jira settings list` dereferences the Settings of the
\* connection, which are nil when there is none.
ReadSettings(r, c) ==
    /\ op[r].kind = "settings"
    /\ \/ /\ op[r].arg = "list" /\ c.settings = "none"
          /\ Goto(r, "panic")
          /\ UNCHANGED <<op, usr, con, todo, page>>
       \/ op[r].arg = "list" /\ c.settings # "none" /\ End(r)
       \/ /\ op[r].arg # "list"
          /\ con' = [con EXCEPT ![r] = [c EXCEPT !.settings = op[r].arg]]
          /\ Goto(r, "store")
          /\ UNCHANGED <<op, usr, todo, page>>

\* Only the token of a connection that was stored is refreshed.
RefreshToken(r, c) ==
    /\ op[r].kind = "refresh"
    /\ \/ /\ c.account # NoAccount
          /\ con' = [con EXCEPT ![r] = c]
          /\ Goto(r, "store")
          /\ UNCHANGED <<op, usr, todo, page>>
       \/ c.account = NoAccount /\ End(r)

ReadDefaults(r, c) ==
    /\ op[r].kind = "defaults"
    /\ con' = [con EXCEPT ![r] = c]
    /\ Goto(r, "default")
    /\ UNCHANGED <<op, usr, todo, page>>

ReadConnection(r) ==
    /\ pc[r] = "connection"
    /\ LET c == LoadConnection(op[r].inst, op[r].user)
       IN  ReadSettings(r, c) \/ RefreshToken(r, c) \/ ReadDefaults(r, c)
    /\ UNCHANGED <<store, submitted, linked, tangled>>

\* UpdateUserDefaults stores the user if the default instance changes, and
\* goes on to the connection if the default project does.
StoreDefault(r) ==
    /\ pc[r] = "default"
    /\ users' = IF usr[r].default = op[r].inst THEN users
                ELSE [users EXCEPT ![op[r].user] = [usr[r] EXCEPT !.default = op[r].inst]]
    /\ \/ Goto(r, "store") /\ UNCHANGED <<op, usr, con, todo, page>>
       \/ End(r)
    /\ UNCHANGED <<installed, conns, index, submitted, linked, tangled>>

-----------------------------------------------------------------------------
(* StoreConnection: the connection, and twice the index                    *)

StoreConnection(r) ==
    /\ pc[r] = "store"
    /\ conns' = [conns EXCEPT ![op[r].inst][op[r].user] = con[r]]
    /\ Goto(r, "index")
    /\ UNCHANGED <<installed, index, users, submitted, op, usr, con, todo, page, linked, tangled>>

\* Mutants: the key of the index leaves the instance out; it is made from the
\* AccountID, which users of Jira Server do not have.
IndexEveryInstance(r, l) ==
    /\ pc[r] = l
    /\ index' = [i \in Instance |-> [index[i] EXCEPT ![con[r].account] = op[r].user]]

IndexByAccountID(r, l) ==
    /\ pc[r] = l
    /\ index' = [index EXCEPT ![op[r].inst][NoAccount] = op[r].user]

WriteIndex(r, l) ==
    /\ pc[r] = l
    /\ index' = [index EXCEPT ![op[r].inst][con[r].account] = op[r].user]

StoreIndex(r) ==
    /\ WriteIndex(r, "index")
    /\ Goto(r, "again")
    /\ UNCHANGED <<installed, conns, users, submitted, op, usr, con, todo, page, linked, tangled>>

\* A connect goes on to store the user, a settings command reads back what it
\* has stored.
StoreIndexAgain(r) ==
    /\ WriteIndex(r, "again")
    /\ \/ op[r].kind = "connect"  /\ Goto(r, "keep")  /\ UNCHANGED <<op, usr, con, todo, page>>
       \/ op[r].kind = "settings" /\ Goto(r, "check") /\ UNCHANGED <<op, usr, con, todo, page>>
       \/ op[r].kind \in {"defaults", "refresh"} /\ End(r)
    /\ UNCHANGED <<installed, conns, users, submitted, linked, tangled>>

CheckSettings(r) ==
    /\ pc[r] = "check"
    /\ LET c == LoadConnection(op[r].inst, op[r].user)
       IN  \/ c.settings = "none" /\ Goto(r, "panic") /\ UNCHANGED <<op, usr, con, todo, page>>
           \/ c.settings # "none" /\ End(r)
    /\ UNCHANGED <<store, submitted, linked, tangled>>

-----------------------------------------------------------------------------
(* DeleteConnection, for the account of the connection it reads            *)

DeleteConnection(r) ==
    /\ pc[r] = "delete"
    /\ con' = [con EXCEPT ![r] = LoadConnection(op[r].inst, op[r].user)]
    /\ Goto(r, "unlink")
    /\ UNCHANGED <<store, submitted, op, usr, todo, page, linked, tangled>>

Unlink(r) ==
    /\ pc[r] = "unlink"
    /\ conns' = [conns EXCEPT ![op[r].inst][op[r].user] = Nothing]
    /\ Goto(r, "unindex")
    /\ UNCHANGED <<installed, index, users, submitted, op, usr, con, todo, page, linked, tangled>>

Unindex(r) ==
    /\ pc[r] = "unindex"
    /\ index' = [index EXCEPT ![op[r].inst][con[r].account] = Nothing]
    /\ Goto(r, "keep")
    /\ UNCHANGED <<installed, conns, users, submitted, op, usr, con, todo, page, linked, tangled>>

\* StoreUser, the last step of connectUser and of disconnectUser
StoreUser(r) ==
    /\ pc[r] = "keep"
    /\ users' = [users EXCEPT ![op[r].user] = usr[r]]
    /\ \/ op[r].kind \in {"connect", "disconnect"} /\ End(r)
       \/ /\ op[r].kind = "uninstall"
          /\ Goto(r, "next")
          /\ con' = [con EXCEPT ![r] = Zero]
          /\ UNCHANGED <<op, usr, todo, page>>
    /\ UNCHANGED <<installed, conns, index, submitted, linked, tangled>>

-----------------------------------------------------------------------------
(* UninstallInstance: MapUsers, then the record and the list               *)

ListKeys(r) ==
    /\ pc[r] = "list"
    /\ todo' = [todo EXCEPT ![r] = UsersOfPage(page[r])]
    /\ page' = [page EXCEPT ![r] = IF LastPage(@) THEN Nothing ELSE @ + 1]
    /\ Goto(r, "next")
    /\ UNCHANGED <<store, submitted, op, usr, con, linked, tangled>>

\* The next user of the page is read, and disconnected if they are connected.
NextUser(r) ==
    /\ pc[r] = "next" /\ todo[r] # {}
    /\ \E u \in todo[r] :
          /\ \A v \in todo[r] : u <= v
          /\ op' = [op EXCEPT ![r].user = u]
          /\ todo' = [todo EXCEPT ![r] = @ \ {u}]
          /\ usr' = [usr EXCEPT ![r] = Without(LoadUser(u), op[r].inst)]
          /\ Goto(r, IF op[r].inst \in LoadUser(u).connected THEN "delete" ELSE "next")
    /\ UNCHANGED <<store, submitted, con, page, linked, tangled>>

NextPage(r) ==
    /\ pc[r] = "next" /\ todo[r] = {}
    /\ Goto(r, IF page[r] = Nothing THEN "remove" ELSE "list")
    /\ UNCHANGED <<store, submitted, op, usr, con, todo, page, linked, tangled>>

Remove(r) ==
    /\ pc[r] = "remove"
    /\ installed' = installed \ {op[r].inst}
    /\ End(r)
    /\ UNCHANGED <<conns, index, users, submitted, linked, tangled>>

Install(r) ==
    /\ pc[r] = "install"
    /\ installed' = installed \cup {op[r].inst}
    /\ End(r)
    /\ UNCHANGED <<conns, index, users, submitted, linked, tangled>>

-----------------------------------------------------------------------------
Next ==
    \E r \in Request :
        \/ \E o \in Arriving : Submit(r, o)
        \/ Break(r) \/ SkipUser(r)
        \/ Resolve(r) \/ LoadInstance(r) \/ ReadUser(r) \/ ReadConnection(r)
        \/ StoreDefault(r) \/ StoreConnection(r) \/ StoreIndex(r) \/ StoreIndexAgain(r)
        \/ CheckSettings(r)
        \/ DeleteConnection(r) \/ Unlink(r) \/ Unindex(r) \/ StoreUser(r)
        \/ ListKeys(r) \/ NextUser(r) \/ NextPage(r) \/ Remove(r) \/ Install(r)

Spec == Init /\ [][Next]_vars

-----------------------------------------------------------------------------
(* A connection, and an entry of the index, has an account that its user   *)
(* proved to have, on that instance: however requests interleave or break  *)
(* off, nobody is shown the mentions of somebody else, or acts as them.    *)
AccountsProven ==
    \A i \in Instance :
        /\ \A u \in User :
              conns[i][u] # Nothing /\ conns[i][u].account # NoAccount =>
                  <<i, conns[i][u].account, u>> \in linked
        /\ \A a \in Account :
              index[i][a] # Nothing => <<i, a, index[i][a]>> \in linked

\* Users whose requests came one after the other, with none in progress now,
\* whatever the requests of other users did in the meantime
Settled == {u \in User \ tangled : \A r \in Active : u \notin UsersOf(op[r])}

(* disconnectUser, connectUser: the list of a user and the connections     *)
(* agree, and so does the default instance, once the user's requests are   *)
(* done.                                                                   *)
ListsAgree ==
    \A u \in Settled :
        /\ \A i \in Instance :
              i \in LoadUser(u).connected <=> LoadConnection(i, u).account # NoAccount
        /\ LoadUser(u).default \in LoadUser(u).connected \cup {Nothing}

(* webhook.go, PostNotifications: a connected user is found by their       *)
(* account, unless somebody else connected it too.                         *)
NotificationsArrive ==
    \A u \in Settled, i \in Instance :
        LET a == LoadConnection(i, u).account
        IN  a # NoAccount /\ (\A v \in User : <<i, a, v>> \in linked => v = u)
            => index[i][a] = u

(* readme.md: uninstalling an instance is to "Disconnect Mattermost from a *)
(* Jira ... instance": nobody stays connected to it.                       *)
UninstallDisconnects ==
    \A u \in Settled : LoadUser(u).connected \subseteq installed

\* Where a request has not read a connection yet
Unread == {"idle", "resolve", "instance", "list", "next", "remove", "install"}

\* What a request has read is as proven as what is stored, and it knows which
\* key it writes.
RequestProven(r) ==
    /\ pc[r] # "idle" => op[r] \in Op
    /\ pc[r] \notin {"idle", "resolve"} => op[r].inst # Nothing
    /\ pc[r] \notin Unread \ {"resolve"} => op[r].user # Nothing
    /\ pc[r] \in Unread => con[r] = Zero
    /\ con[r].account # NoAccount => <<op[r].inst, con[r].account, op[r].user>> \in linked
    /\ pc[r] = "list" => page[r] # Nothing

(* The inductive invariant of the proofs: the connection a request carries *)
(* from one call of the store to the next is of an account its user proved.*)
IInv == TypeOK /\ AccountsProven /\ \A r \in Request : RequestProven(r)
=============================================================================
