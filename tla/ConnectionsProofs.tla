-------------------------- MODULE ConnectionsProofs --------------------------
(* Proofs about Connections.  However requests interleave and break off, a *)
(* connection and the index only ever tie a user to an account they proved *)
(* to have.  For a user whose requests come one after the other, the list, *)
(* the connections and the index agree, and an uninstall disconnects them. *)
EXTENDS Connections, FiniteSetTheorems, TLAPS

LEMMA InitIInv == Init => IInv
<1> SUFFICES ASSUME Init PROVE IInv
  OBVIOUS
<1> USE ConnectionsAssumption DEF Init
<1>1. NewUser \in UserRecord /\ Zero \in Connection /\ Zero.account = NoAccount
  BY DEF NewUser, UserRecord, Zero, Connection, Settings
<1>2. TypeOK
  BY <1>1 DEF TypeOK, Label
<1>3. AccountsProven
  BY DEF AccountsProven
<1>4. \A r \in Request : RequestProven(r)
  BY <1>1 DEF RequestProven, Unread
<1> QED
  BY <1>2, <1>3, <1>4 DEF IInv

(* The requests that do not move keep what they have read; what was proven *)
(* stays proven.                                                           *)
LEMMA OthersKept ==
    ASSUME IInv, NEW q \in Request,
           pc'[q] = pc[q], op'[q] = op[q], con'[q] = con[q], page'[q] = page[q],
           linked \subseteq linked'
    PROVE  RequestProven(q)'
BY DEF IInv, RequestProven

LEMMA StoreKept ==
    ASSUME IInv, conns' = conns, index' = index, linked \subseteq linked'
    PROVE  AccountsProven'
BY DEF IInv, AccountsProven

(* What a request reads from the store is a user, or a connection that is  *)
(* proven.                                                                 *)
LEMMA ReadOK ==
    ASSUME IInv
    PROVE  /\ \A u \in User : LoadUser(u) \in UserRecord
           /\ \A i \in Instance, u \in User :
                 /\ LoadConnection(i, u) \in Connection
                 /\ LoadConnection(i, u).account # NoAccount =>
                       <<i, LoadConnection(i, u).account, u>> \in linked
<1>1. NewUser \in UserRecord /\ Zero \in Connection /\ Zero.account = NoAccount
  BY DEF NewUser, UserRecord, Zero, Connection, Settings
<1>2. \A u \in User : LoadUser(u) \in UserRecord
  BY <1>1 DEF LoadUser, IInv, TypeOK
<1>3. ASSUME NEW i \in Instance, NEW u \in User
      PROVE  /\ LoadConnection(i, u) \in Connection
             /\ LoadConnection(i, u).account # NoAccount =>
                   <<i, LoadConnection(i, u).account, u>> \in linked
  <2>1. conns[i][u] \in Connection \cup {Nothing}
    BY DEF IInv, TypeOK
  <2> QED
    BY <1>1, <2>1 DEF LoadConnection, IInv, AccountsProven
<1> QED
  BY <1>2, <1>3

LEMMA WithoutOK ==
    ASSUME NEW d \in UserRecord, NEW i
    PROVE  Without(d, i) \in UserRecord
BY DEF Without, UserRecord

(* Naming the user or the instance of a request leaves it a request.       *)
LEMMA OpOK ==
    ASSUME NEW o \in Op
    PROVE  /\ \A i \in Instance : [o EXCEPT !.inst = i] \in Op
           /\ \A u \in User : [o EXCEPT !.user = u] \in Op
<1> USE ConnectionsAssumption
<1>1. ASSUME NEW i \in Instance PROVE [o EXCEPT !.inst = i] \in Op
  BY DEF Op
<1>2. ASSUME NEW u \in User PROVE [o EXCEPT !.user = u] \in Op
  BY DEF Op
<1> QED
  BY <1>1, <1>2

(* What a request knows at each place of its code                          *)
LEMMA KnownKey ==
    ASSUME IInv, NEW r \in Request
    PROVE  /\ pc[r] # "idle" => op[r] \in Op
           /\ pc[r] \notin {"idle", "resolve"} => op[r].inst \in Instance
           /\ pc[r] \notin Unread \ {"resolve"} => op[r].user \in User
           /\ con[r] \in Connection
BY DEF IInv, TypeOK, RequestProven, Op, Unread

(* A request that ends forgets what it has read.                           *)
LEMMA EndKept ==
    ASSUME IInv, NEW r \in Request, End(r), linked' = linked
    PROVE  /\ pc' \in [Request -> Label]
           /\ op' \in [Request -> Op \cup {Nothing}]
           /\ usr' \in [Request -> UserRecord]
           /\ con' \in [Request -> Connection]
           /\ todo' \in [Request -> SUBSET User]
           /\ page' \in [Request -> Nat \cup {Nothing}]
           /\ \A q \in Request : RequestProven(q)'
<1> USE ConnectionsAssumption
<1>1. NewUser \in UserRecord /\ Zero \in Connection /\ Zero.account = NoAccount
  BY DEF NewUser, UserRecord, Zero, Connection, Settings
<1>2. /\ pc' \in [Request -> Label]
      /\ op' \in [Request -> Op \cup {Nothing}]
      /\ usr' \in [Request -> UserRecord]
      /\ con' \in [Request -> Connection]
      /\ todo' \in [Request -> SUBSET User]
      /\ page' \in [Request -> Nat \cup {Nothing}]
  BY <1>1 DEF End, Goto, IInv, TypeOK, Label
<1>3. pc'[r] = "idle" /\ con'[r] = Zero
  BY DEF End, Goto, IInv, TypeOK
<1>4. RequestProven(r)'
  BY <1>1, <1>3 DEF RequestProven, Unread
<1>5. ASSUME NEW q \in Request, q # r PROVE RequestProven(q)'
  BY <1>5, OthersKept DEF End, Goto, IInv, TypeOK
<1> QED
  BY <1>2, <1>4, <1>5

(* A step of one request preserves the invariant if the types, the store   *)
(* and that request do.                                                    *)
LEMMA StepOf ==
    ASSUME IInv, NEW r \in Request, TypeOK', AccountsProven', RequestProven(r)',
           \A q \in Request \ {r} :
              pc'[q] = pc[q] /\ op'[q] = op[q] /\ con'[q] = con[q] /\ page'[q] = page[q],
           linked \subseteq linked'
    PROVE  IInv'
<1>1. ASSUME NEW q \in Request, q # r PROVE RequestProven(q)'
  BY <1>1, OthersKept
<1> QED
  BY <1>1 DEF IInv

LEMMA EndOf ==
    ASSUME IInv, NEW r \in Request, End(r), linked' = linked, AccountsProven',
           installed' \subseteq Instance,
           conns' \in [Instance -> [User -> Connection \cup {Nothing}]],
           index' \in [Instance -> [Account \cup {NoAccount} -> User \cup {Nothing}]],
           users' \in [User -> UserRecord \cup {Nothing}],
           submitted' = submitted, tangled' \subseteq User
    PROVE  IInv'
<1>1. TypeOK'
  BY EndKept DEF IInv, TypeOK
<1> QED
  BY <1>1, EndKept DEF IInv

LEMMA SubmitIInv ==
    ASSUME IInv, NEW r \in Request, NEW o \in Arriving, Submit(r, o)
    PROVE  IInv'
<1> USE ConnectionsAssumption
<1>0. o \in Op /\ o.kind \in Kind /\ o.inst \in Instance \cup {Nothing} /\ TypeOK
  BY DEF Arriving, Op, IInv
<1>1. First(o) \in {"resolve", "instance", "user", "connection", "install"}
  BY <1>0 DEF First
<1>2. TypeOK'
  <2>1. pc' \in [Request -> Label]
    BY <1>0, <1>1 DEF Submit, Goto, TypeOK, Label
  <2>2. op' \in [Request -> Op \cup {Nothing}] /\ submitted' \in Nat
    BY <1>0 DEF Submit, TypeOK
  <2>3. tangled' \subseteq User
    BY <1>0 DEF Submit, TypeOK, UsersOf
  <2> QED
    BY <1>0, <2>1, <2>2, <2>3 DEF Submit, TypeOK, store
<1>3. AccountsProven'
  BY StoreKept DEF Submit, store
<1>4. pc'[r] = First(o) /\ op'[r] = o /\ con'[r] = Zero
  BY <1>0 DEF Submit, Goto, TypeOK, IInv, RequestProven, Unread
<1>5. /\ First(o) # "resolve" => o.inst # Nothing
      /\ First(o) \in {"user", "connection", "resolve"} => o.user # Nothing
  BY <1>0 DEF First, Op
<1>6. RequestProven(r)'
  BY <1>0, <1>1, <1>4, <1>5 DEF RequestProven, Unread, Zero
<1> QED
  BY <1>0, <1>2, <1>3, <1>6, StepOf DEF Submit, Goto, TypeOK

LEMMA BreakIInv ==
    ASSUME IInv, NEW r \in Request, Break(r)
    PROVE  IInv'
<1>1. AccountsProven'
  BY StoreKept DEF Break, store
<1>2. tangled' \subseteq User
  BY DEF Break, IInv, TypeOK, UsersOf
<1> QED
  BY <1>1, <1>2, EndOf DEF Break, store, IInv, TypeOK

LEMMA SkipUserIInv ==
    ASSUME IInv, NEW r \in Request, SkipUser(r)
    PROVE  IInv'
<1>0. TypeOK /\ op[r] \in Op /\ op[r].user \in User /\ op[r].inst # Nothing
  BY KnownKey DEF SkipUser, IInv, RequestProven, Unread
<1>1. Zero \in Connection /\ Zero.account = NoAccount
  BY DEF Zero, Connection, Settings
<1>2. TypeOK'
  BY <1>0, <1>1 DEF SkipUser, Goto, TypeOK, Label, store
<1>3. AccountsProven'
  BY StoreKept DEF SkipUser, store
<1>4. pc'[r] = "next" /\ con'[r] = Zero /\ op'[r] = op[r]
  BY <1>0 DEF SkipUser, Goto, TypeOK
<1>5. RequestProven(r)'
  BY <1>0, <1>1, <1>4 DEF RequestProven, Unread
<1> QED
  BY <1>0, <1>2, <1>3, <1>5, StepOf DEF SkipUser, Goto, TypeOK

LEMMA ResolveIInv ==
    ASSUME IInv, NEW r \in Request, Resolve(r)
    PROVE  IInv'
<1> DEFINE d == LoadUser(op[r].user)
<1>0. TypeOK /\ op[r] \in Op /\ op[r].user \in User /\ d \in UserRecord /\ con[r] = Zero
  BY KnownKey, ReadOK DEF Resolve, IInv, RequestProven, Unread
<1>1. AccountsProven'
  BY StoreKept DEF Resolve, store
<1>2. CASE End(r)
  BY <1>1, <1>2, EndOf DEF Resolve, store, IInv, TypeOK
<1>3. ASSUME NEW i \in Resolved(d, op[r].inst),
             usr' = [usr EXCEPT ![r] = d], op' = [op EXCEPT ![r].inst = i],
             Goto(r, "instance"), UNCHANGED <<con, todo, page>>
      PROVE  IInv'
  <2>1. i \in Instance
    BY <1>0 DEF Resolved, UserRecord, Op
  <2>2. op'[r] \in Op /\ op'[r].user = op[r].user /\ op'[r].inst = i
    <3>1. op'[r] = [op[r] EXCEPT !.inst = i]
      BY <1>0, <1>3 DEF TypeOK
    <3>2. op'[r] \in Op
      BY <1>0, <2>1, <3>1, OpOK
    <3>3. op'[r].user = op[r].user /\ op'[r].inst = i
      BY <1>0, <3>1 DEF Op
    <3> QED
      BY <3>2, <3>3
  <2>3. op' \in [Request -> Op \cup {Nothing}]
    BY <1>0, <1>3, <2>2 DEF TypeOK
  <2>4. TypeOK'
    BY <1>0, <1>3, <2>3 DEF Resolve, Goto, TypeOK, Label, store
  <2>5. RequestProven(r)'
    BY <1>0, <1>3, <2>1, <2>2, ConnectionsAssumption
    DEF RequestProven, Unread, Zero, Goto, TypeOK
  <2> QED
    BY <1>0, <1>1, <1>3, <2>4, <2>5, StepOf DEF Resolve, Goto, TypeOK
<1> QED
  BY <1>2, <1>3 DEF Resolve

LEMMA LoadInstanceIInv ==
    ASSUME IInv, NEW r \in Request, LoadInstance(r)
    PROVE  IInv'
<1> DEFINE o == op[r]
<1>0. TypeOK /\ o \in Op /\ o.inst \in Instance /\ con[r] = Zero /\ pc[r] = "instance"
  BY KnownKey DEF LoadInstance, IInv, RequestProven, Unread
<1>1. ASSUME linked \subseteq linked' PROVE AccountsProven'
  BY <1>1, StoreKept DEF LoadInstance, store
<1>2. Zero \in Connection /\ Zero.account = NoAccount
  BY DEF Zero, Connection, Settings
<1>3. ASSUME o.kind = "connect",
             con' = [con EXCEPT ![r] = NewConnection(o)],
             linked' = linked \cup {<<o.inst, o.arg, o.user>>},
             Goto(r, "user"), UNCHANGED <<op, usr, todo, page>>
      PROVE  IInv'
  <2>1. o.arg \in Account /\ o.user \in User
    BY <1>0, <1>3 DEF Op
  <2>2. TypeOK'
    <3>1. linked' \subseteq Instance \X Account \X User
      BY <1>0, <1>3, <2>1 DEF TypeOK
    <3>2. NewConnection(o) \in Connection
      BY <2>1 DEF NewConnection, Connection, Settings
    <3>3. con' \in [Request -> Connection] /\ pc' \in [Request -> Label]
      BY <1>0, <1>3, <3>2 DEF Goto, TypeOK, Label
    <3>4. UNCHANGED <<installed, conns, index, users, submitted, tangled>>
      BY DEF LoadInstance, store
    <3> QED
      BY <1>0, <1>3, <3>1, <3>3, <3>4 DEF TypeOK
  <2>3. RequestProven(r)'
    BY <1>0, <1>3, <2>1, ConnectionsAssumption
    DEF RequestProven, Unread, Goto, TypeOK, NewConnection
  <2> QED
    BY <1>0, <1>1, <1>3, <2>2, <2>3, StepOf DEF Goto, TypeOK
<1>4. ASSUME o.kind = "disconnect",
             usr' = [usr EXCEPT ![r] = Without(@, o.inst)],
             Goto(r, "delete"), UNCHANGED <<op, con, todo, page, linked>>
      PROVE  IInv'
  <2>1. o.user \in User /\ Without(usr[r], o.inst) \in UserRecord
    BY <1>0, <1>4, WithoutOK DEF Op, TypeOK
  <2>2. TypeOK'
    BY <1>0, <1>4, <2>1 DEF LoadInstance, Goto, TypeOK, Label, store
  <2>3. RequestProven(r)'
    BY <1>0, <1>2, <1>4, <2>1, ConnectionsAssumption DEF RequestProven, Unread, Goto, TypeOK
  <2> QED
    BY <1>0, <1>1, <1>4, <2>2, <2>3, StepOf DEF Goto, TypeOK
<1>5. ASSUME o.kind = "settings", Goto(r, "connection"),
             UNCHANGED <<op, usr, con, todo, page, linked>>
      PROVE  IInv'
  <2>1. o.user \in User
    BY <1>0, <1>5 DEF Op
  <2>2. TypeOK'
    BY <1>0, <1>5 DEF LoadInstance, Goto, TypeOK, Label, store
  <2>3. RequestProven(r)'
    BY <1>0, <1>2, <1>5, <2>1, ConnectionsAssumption DEF RequestProven, Unread, Goto, TypeOK
  <2> QED
    BY <1>0, <1>1, <1>5, <2>2, <2>3, StepOf DEF Goto, TypeOK
<1>6. ASSUME page' = [page EXCEPT ![r] = 0], Goto(r, "list"),
             UNCHANGED <<op, usr, con, todo, linked>>
      PROVE  IInv'
  <2>1. TypeOK'
    BY <1>0, <1>6 DEF LoadInstance, Goto, TypeOK, Label, store
  <2>2. page'[r] # Nothing
    BY <1>0, <1>6, ConnectionsAssumption DEF TypeOK
  <2>3. RequestProven(r)'
    BY <1>0, <1>2, <1>6, <2>2, ConnectionsAssumption DEF RequestProven, Unread, Goto, TypeOK
  <2> QED
    BY <1>0, <1>1, <1>6, <2>1, <2>3, StepOf DEF Goto, TypeOK
<1>7. ASSUME End(r), linked' = linked PROVE IInv'
  BY <1>0, <1>1, <1>7, EndOf DEF LoadInstance, store, TypeOK
<1> QED
  BY <1>3, <1>4, <1>5, <1>6, <1>7, Zenon DEF LoadInstance

LEMMA ReadUserIInv ==
    ASSUME IInv, NEW r \in Request, ReadUser(r)
    PROVE  IInv'
<1> DEFINE d == LoadUser(op[r].user)
           e == [d EXCEPT !.connected = @ \cup {op[r].inst}]
<1>0. /\ TypeOK /\ op[r] \in Op /\ op[r].inst \in Instance /\ op[r].user \in User
      /\ d \in UserRecord /\ pc[r] = "user"
  BY KnownKey, ReadOK DEF ReadUser, IInv, Unread
<1>1. AccountsProven'
  BY StoreKept DEF ReadUser, store
<1>2. e \in UserRecord
  BY <1>0 DEF UserRecord
<1>3. CASE End(r)
  BY <1>0, <1>1, <1>3, EndOf DEF ReadUser, store, TypeOK
<1>4. ASSUME NEW l \in {"store", "connection"}, Goto(r, l),
             usr' = [usr EXCEPT ![r] = e] \/ usr' = [usr EXCEPT ![r] = d],
             UNCHANGED <<op, con, todo, page>>
      PROVE  IInv'
  <2>1. usr' \in [Request -> UserRecord]
    BY <1>0, <1>2, <1>4 DEF TypeOK
  <2>2. TypeOK'
    BY <1>0, <1>4, <2>1 DEF ReadUser, Goto, TypeOK, Label, store
  <2>3. RequestProven(r)'
    BY <1>0, <1>4, ConnectionsAssumption DEF ReadUser, IInv, RequestProven, Unread, Goto, TypeOK
  <2> QED
    BY <1>0, <1>1, <1>4, <2>2, <2>3, StepOf DEF ReadUser, Goto, TypeOK
<1> QED
  BY <1>3, <1>4 DEF ReadUser

LEMMA ReadConnectionIInv ==
    ASSUME IInv, NEW r \in Request, ReadConnection(r)
    PROVE  IInv'
<1> DEFINE c == LoadConnection(op[r].inst, op[r].user)
           e == [c EXCEPT !.settings = op[r].arg]
<1>0. /\ TypeOK /\ op[r] \in Op /\ op[r].inst \in Instance /\ op[r].user \in User
      /\ pc[r] = "connection"
  BY KnownKey DEF ReadConnection, IInv, Unread
<1>1. /\ c \in Connection
      /\ c.account # NoAccount => <<op[r].inst, c.account, op[r].user>> \in linked
  BY <1>0, ReadOK
<1>2. AccountsProven'
  BY StoreKept DEF ReadConnection, store
<1>3. CASE End(r)
  BY <1>0, <1>2, <1>3, EndOf DEF ReadConnection, store, TypeOK
<1>4. ASSUME Goto(r, "panic"), UNCHANGED <<op, usr, con, todo, page>>
      PROVE  IInv'
  <2>1. TypeOK'
    BY <1>0, <1>4 DEF ReadConnection, Goto, TypeOK, Label, store
  <2>2. RequestProven(r)'
    BY <1>0, <1>4, ConnectionsAssumption
    DEF ReadConnection, IInv, RequestProven, Unread, Goto, TypeOK
  <2> QED
    BY <1>0, <1>2, <1>4, <2>1, <2>2, StepOf DEF ReadConnection, Goto, TypeOK
<1>5. ASSUME NEW l \in {"store", "default"}, Goto(r, l), NEW f \in Connection,
             f.account = c.account, con' = [con EXCEPT ![r] = f],
             UNCHANGED <<op, usr, todo, page>>
      PROVE  IInv'
  <2>1. TypeOK'
    BY <1>0, <1>5 DEF ReadConnection, Goto, TypeOK, Label, store
  <2>2. /\ pc'[r] = l /\ con'[r] = f /\ op'[r] = op[r] /\ linked' = linked
    BY <1>0, <1>5 DEF ReadConnection, Goto, TypeOK
  <2>3. RequestProven(r)'
    BY <1>0, <1>1, <1>5, <2>2, ConnectionsAssumption DEF RequestProven, Unread
  <2> QED
    BY <1>0, <1>2, <1>5, <2>1, <2>3, StepOf DEF ReadConnection, Goto, TypeOK
<1>6. CASE /\ op[r].kind = "settings" /\ op[r].arg # "list"
           /\ con' = [con EXCEPT ![r] = e]
           /\ Goto(r, "store")
           /\ UNCHANGED <<op, usr, todo, page>>
  <2>1. op[r].arg \in Settings
    BY <1>0, <1>6 DEF Op, Settings
  <2>2. e \in Connection /\ e.account = c.account
    BY <1>1, <2>1 DEF Connection
  <2> QED
    BY <1>5, <1>6, <2>2
<1> QED
  BY <1>1, <1>3, <1>4, <1>5, <1>6 DEF ReadConnection, ReadSettings, RefreshToken, ReadDefaults

LEMMA StoreDefaultIInv ==
    ASSUME IInv, NEW r \in Request, StoreDefault(r)
    PROVE  IInv'
<1>0. /\ TypeOK /\ op[r].inst \in Instance /\ op[r].user \in User
      /\ pc[r] = "default" /\ usr[r] \in UserRecord
  BY KnownKey DEF StoreDefault, IInv, Unread, TypeOK
<1>1. AccountsProven'
  BY StoreKept DEF StoreDefault
<1>2. users' \in [User -> UserRecord \cup {Nothing}]
  <2>1. [usr[r] EXCEPT !.default = op[r].inst] \in UserRecord
    BY <1>0 DEF UserRecord
  <2> QED
    BY <1>0, <2>1 DEF StoreDefault, TypeOK
<1>3. CASE End(r)
  BY <1>0, <1>1, <1>2, <1>3, EndOf DEF StoreDefault, TypeOK
<1>4. CASE Goto(r, "store") /\ UNCHANGED <<op, usr, con, todo, page>>
  <2>1. TypeOK'
    BY <1>0, <1>2, <1>4 DEF StoreDefault, Goto, TypeOK, Label
  <2>2. RequestProven(r)'
    BY <1>0, <1>4 DEF StoreDefault, IInv, RequestProven, Unread, Goto, TypeOK
  <2> QED
    BY <1>0, <1>1, <1>4, <2>1, <2>2, StepOf DEF StoreDefault, Goto, TypeOK
<1> QED
  BY <1>3, <1>4 DEF StoreDefault

(* The connection a request stores, and its entry of the index, are of the *)
(* account the request has read, or a flow has proved.                     *)
LEMMA StoreConnectionIInv ==
    ASSUME IInv, NEW r \in Request, StoreConnection(r)
    PROVE  IInv'
<1>0. /\ TypeOK /\ op[r] \in Op /\ op[r].inst \in Instance /\ op[r].user \in User
      /\ con[r] \in Connection
      /\ con[r].account # NoAccount =>
            <<op[r].inst, con[r].account, op[r].user>> \in linked
  BY KnownKey DEF StoreConnection, IInv, RequestProven, Unread
<1>1. conns' \in [Instance -> [User -> Connection \cup {Nothing}]]
  BY <1>0 DEF StoreConnection, TypeOK
<1>2. TypeOK'
  BY <1>0, <1>1 DEF StoreConnection, Goto, TypeOK, Label
<1>3. AccountsProven'
  <2>1. ASSUME NEW i \in Instance, NEW u \in User
        PROVE  conns'[i][u] = IF i = op[r].inst /\ u = op[r].user THEN con[r] ELSE conns[i][u]
    BY <1>0 DEF StoreConnection, TypeOK
  <2> QED
    BY <1>0, <2>1 DEF StoreConnection, IInv, AccountsProven
<1>4. RequestProven(r)'
  BY <1>0 DEF StoreConnection, IInv, RequestProven, Unread, Goto, TypeOK
<1> QED
  BY <1>0, <1>2, <1>3, <1>4, StepOf DEF StoreConnection, Goto, TypeOK

LEMMA WriteIndexOK ==
    ASSUME IInv, NEW r \in Request, NEW l \in {"index", "again"}, WriteIndex(r, l),
           conns' = conns, linked' = linked
    PROVE  /\ index' \in [Instance -> [Account \cup {NoAccount} -> User \cup {Nothing}]]
           /\ AccountsProven'
<1>0. /\ TypeOK /\ op[r] \in Op /\ op[r].inst \in Instance /\ op[r].user \in User
      /\ con[r] \in Connection
      /\ con[r].account # NoAccount =>
            <<op[r].inst, con[r].account, op[r].user>> \in linked
  BY KnownKey DEF WriteIndex, IInv, RequestProven, Unread
<1>1. con[r].account \in Account \cup {NoAccount}
  BY <1>0 DEF Connection
<1>2. index' \in [Instance -> [Account \cup {NoAccount} -> User \cup {Nothing}]]
  BY <1>0, <1>1 DEF WriteIndex, TypeOK
<1>3. ASSUME NEW i \in Instance, NEW a \in Account
      PROVE  index'[i][a] = IF i = op[r].inst /\ a = con[r].account
                            THEN op[r].user ELSE index[i][a]
  BY <1>0, <1>1 DEF WriteIndex, TypeOK
<1>4. ASSUME NEW i \in Instance, NEW a \in Account, index'[i][a] # Nothing
      PROVE  <<i, a, index'[i][a]>> \in linked
  BY <1>0, <1>3, <1>4, ConnectionsAssumption DEF IInv, AccountsProven
<1> QED
  BY <1>2, <1>4 DEF IInv, AccountsProven

LEMMA StoreIndexIInv ==
    ASSUME IInv, NEW r \in Request, StoreIndex(r)
    PROVE  IInv'
<1>0. /\ TypeOK /\ op[r] \in Op /\ op[r].inst \in Instance /\ op[r].user \in User
      /\ con[r] \in Connection
      /\ con[r].account # NoAccount =>
            <<op[r].inst, con[r].account, op[r].user>> \in linked
  BY KnownKey DEF StoreIndex, WriteIndex, IInv, RequestProven, Unread
<1>1. AccountsProven' /\ index' \in [Instance -> [Account \cup {NoAccount} -> User \cup {Nothing}]]
  BY WriteIndexOK DEF StoreIndex
<1>2. TypeOK'
  BY <1>0, <1>1 DEF StoreIndex, Goto, TypeOK, Label
<1>3. RequestProven(r)'
  BY <1>0 DEF StoreIndex, WriteIndex, IInv, RequestProven, Unread, Goto, TypeOK
<1> QED
  BY <1>0, <1>1, <1>2, <1>3, StepOf DEF StoreIndex, Goto, TypeOK

LEMMA StoreIndexAgainIInv ==
    ASSUME IInv, NEW r \in Request, StoreIndexAgain(r)
    PROVE  IInv'
<1>0. /\ TypeOK /\ op[r] \in Op /\ op[r].inst \in Instance /\ op[r].user \in User
      /\ con[r] \in Connection
      /\ con[r].account # NoAccount =>
            <<op[r].inst, con[r].account, op[r].user>> \in linked
  BY KnownKey DEF StoreIndexAgain, WriteIndex, IInv, RequestProven, Unread
<1>1. AccountsProven' /\ index' \in [Instance -> [Account \cup {NoAccount} -> User \cup {Nothing}]]
  BY WriteIndexOK DEF StoreIndexAgain
<1>2. CASE End(r)
  BY <1>0, <1>1, <1>2, EndOf DEF StoreIndexAgain, TypeOK
<1>3. ASSUME NEW l \in {"keep", "check"}, Goto(r, l), UNCHANGED <<op, usr, con, todo, page>>
      PROVE  IInv'
  <2>1. TypeOK'
    BY <1>0, <1>1, <1>3 DEF StoreIndexAgain, Goto, TypeOK, Label
  <2>2. RequestProven(r)'
    BY <1>0, <1>3 DEF StoreIndexAgain, WriteIndex, IInv, RequestProven, Unread, Goto, TypeOK
  <2> QED
    BY <1>0, <1>1, <1>3, <2>1, <2>2, StepOf DEF StoreIndexAgain, Goto, TypeOK
<1> QED
  BY <1>2, <1>3 DEF StoreIndexAgain

LEMMA CheckSettingsIInv ==
    ASSUME IInv, NEW r \in Request, CheckSettings(r)
    PROVE  IInv'
<1>0. /\ TypeOK /\ op[r] \in Op /\ op[r].inst \in Instance /\ op[r].user \in User
      /\ con[r] \in Connection
      /\ con[r].account # NoAccount =>
            <<op[r].inst, con[r].account, op[r].user>> \in linked
  BY KnownKey DEF CheckSettings, IInv, RequestProven, Unread
<1>1. AccountsProven'
  BY StoreKept DEF CheckSettings, store
<1>2. CASE End(r)
  BY <1>0, <1>1, <1>2, EndOf DEF CheckSettings, store, TypeOK
<1>3. CASE Goto(r, "panic") /\ UNCHANGED <<op, usr, con, todo, page>>
  <2>1. TypeOK'
    BY <1>0, <1>3 DEF CheckSettings, Goto, TypeOK, Label, store
  <2>2. RequestProven(r)'
    BY <1>0, <1>3 DEF CheckSettings, IInv, RequestProven, Unread, Goto, TypeOK
  <2> QED
    BY <1>0, <1>1, <1>3, <2>1, <2>2, StepOf DEF CheckSettings, Goto, TypeOK
<1> QED
  BY <1>2, <1>3 DEF CheckSettings

LEMMA DeleteConnectionIInv ==
    ASSUME IInv, NEW r \in Request, DeleteConnection(r)
    PROVE  IInv'
<1> DEFINE c == LoadConnection(op[r].inst, op[r].user)
<1>0. /\ TypeOK /\ op[r] \in Op /\ op[r].inst \in Instance /\ op[r].user \in User
      /\ con[r] \in Connection
      /\ con[r].account # NoAccount =>
            <<op[r].inst, con[r].account, op[r].user>> \in linked
  BY KnownKey DEF DeleteConnection, IInv, RequestProven, Unread
<1>1. /\ c \in Connection
      /\ c.account # NoAccount => <<op[r].inst, c.account, op[r].user>> \in linked
  BY <1>0, ReadOK
<1>2. AccountsProven'
  BY StoreKept DEF DeleteConnection, store
<1>3. TypeOK'
  BY <1>0, <1>1 DEF DeleteConnection, Goto, TypeOK, Label, store
<1>4. pc'[r] = "unlink" /\ con'[r] = c /\ op'[r] = op[r] /\ linked' = linked
  BY <1>0 DEF DeleteConnection, Goto, TypeOK
<1>5. RequestProven(r)'
  BY <1>0, <1>1, <1>4, ConnectionsAssumption DEF RequestProven, Unread
<1> QED
  BY <1>0, <1>2, <1>3, <1>5, StepOf DEF DeleteConnection, Goto, TypeOK

LEMMA UnlinkIInv ==
    ASSUME IInv, NEW r \in Request, Unlink(r)
    PROVE  IInv'
<1>0. /\ TypeOK /\ op[r] \in Op /\ op[r].inst \in Instance /\ op[r].user \in User
      /\ con[r] \in Connection
      /\ con[r].account # NoAccount =>
            <<op[r].inst, con[r].account, op[r].user>> \in linked
  BY KnownKey DEF Unlink, IInv, RequestProven, Unread
<1>1. conns' \in [Instance -> [User -> Connection \cup {Nothing}]]
  BY <1>0 DEF Unlink, TypeOK
<1>2. TypeOK'
  BY <1>0, <1>1 DEF Unlink, Goto, TypeOK, Label
<1>3. AccountsProven'
  <2>1. ASSUME NEW i \in Instance, NEW u \in User
        PROVE  conns'[i][u] \in {Nothing, conns[i][u]}
    BY <1>0 DEF Unlink, TypeOK
  <2> QED
    BY <2>1 DEF Unlink, IInv, AccountsProven
<1>4. RequestProven(r)'
  BY <1>0 DEF Unlink, IInv, RequestProven, Unread, Goto, TypeOK
<1> QED
  BY <1>0, <1>2, <1>3, <1>4, StepOf DEF Unlink, Goto, TypeOK

LEMMA UnindexIInv ==
    ASSUME IInv, NEW r \in Request, Unindex(r)
    PROVE  IInv'
<1>0. /\ TypeOK /\ op[r] \in Op /\ op[r].inst \in Instance /\ op[r].user \in User
      /\ con[r] \in Connection
      /\ con[r].account # NoAccount =>
            <<op[r].inst, con[r].account, op[r].user>> \in linked
  BY KnownKey DEF Unindex, IInv, RequestProven, Unread
<1>1. con[r].account \in Account \cup {NoAccount}
  BY <1>0 DEF Connection
<1>2. index' \in [Instance -> [Account \cup {NoAccount} -> User \cup {Nothing}]]
  BY <1>0, <1>1 DEF Unindex, TypeOK
<1>3. TypeOK'
  BY <1>0, <1>2 DEF Unindex, Goto, TypeOK, Label
<1>4. AccountsProven'
  <2>1. ASSUME NEW i \in Instance, NEW a \in Account
        PROVE  index'[i][a] \in {Nothing, index[i][a]}
    BY <1>0, <1>1 DEF Unindex, TypeOK
  <2> QED
    BY <2>1 DEF Unindex, IInv, AccountsProven
<1>5. RequestProven(r)'
  BY <1>0 DEF Unindex, IInv, RequestProven, Unread, Goto, TypeOK
<1> QED
  BY <1>0, <1>3, <1>4, <1>5, StepOf DEF Unindex, Goto, TypeOK

LEMMA StoreUserIInv ==
    ASSUME IInv, NEW r \in Request, StoreUser(r)
    PROVE  IInv'
<1>0. /\ TypeOK /\ op[r] \in Op /\ op[r].inst \in Instance /\ op[r].user \in User
      /\ con[r] \in Connection
      /\ con[r].account # NoAccount =>
            <<op[r].inst, con[r].account, op[r].user>> \in linked
  BY KnownKey DEF StoreUser, IInv, RequestProven, Unread
<1>1. AccountsProven'
  BY StoreKept DEF StoreUser
<1>2. users' \in [User -> UserRecord \cup {Nothing}]
  BY <1>0 DEF StoreUser, TypeOK
<1>3. CASE End(r)
  BY <1>0, <1>1, <1>2, <1>3, EndOf DEF StoreUser, TypeOK
<1>4. CASE /\ Goto(r, "next") /\ con' = [con EXCEPT ![r] = Zero]
           /\ UNCHANGED <<op, usr, todo, page>>
  <2>1. Zero \in Connection /\ Zero.account = NoAccount
    BY DEF Zero, Connection, Settings
  <2>2. TypeOK'
    BY <1>0, <1>2, <1>4, <2>1 DEF StoreUser, Goto, TypeOK, Label
  <2>3. RequestProven(r)'
    BY <1>0, <1>4, <2>1, ConnectionsAssumption DEF RequestProven, Unread, Goto, TypeOK
  <2> QED
    BY <1>0, <1>1, <1>4, <2>2, <2>3, StepOf DEF StoreUser, Goto, TypeOK
<1> QED
  BY <1>3, <1>4 DEF StoreUser

LEMMA ListKeysIInv ==
    ASSUME IInv, NEW r \in Request, ListKeys(r)
    PROVE  IInv'
<1>0. /\ TypeOK /\ op[r] \in Op /\ op[r].inst \in Instance /\ con[r] = Zero
      /\ page[r] \in Nat
  BY KnownKey DEF ListKeys, IInv, RequestProven, Unread, TypeOK
<1>1. AccountsProven'
  BY StoreKept DEF ListKeys, store
<1>2. UsersOfPage(page[r]) \subseteq User
  BY DEF UsersOfPage, Stored
<1>3. page' \in [Request -> Nat \cup {Nothing}]
  BY <1>0 DEF ListKeys, TypeOK
<1>4. TypeOK'
  BY <1>0, <1>2, <1>3 DEF ListKeys, Goto, TypeOK, Label, store
<1>5. RequestProven(r)'
  BY <1>0, ConnectionsAssumption DEF ListKeys, RequestProven, Unread, Zero, Goto, TypeOK
<1> QED
  BY <1>0, <1>1, <1>4, <1>5, StepOf DEF ListKeys, Goto, TypeOK

LEMMA NextUserIInv ==
    ASSUME IInv, NEW r \in Request, NextUser(r)
    PROVE  IInv'
<1> USE ConnectionsAssumption
<1>0. /\ TypeOK /\ op[r] \in Op /\ op[r].inst \in Instance /\ con[r] = Zero
  BY KnownKey DEF NextUser, IInv, RequestProven, Unread, TypeOK
<1>1. AccountsProven'
  BY StoreKept DEF NextUser, store
<1>2. PICK u \in todo[r] :
         /\ op' = [op EXCEPT ![r].user = u]
         /\ todo' = [todo EXCEPT ![r] = @ \ {u}]
         /\ usr' = [usr EXCEPT ![r] = Without(LoadUser(u), op[r].inst)]
         /\ Goto(r, IF op[r].inst \in LoadUser(u).connected THEN "delete" ELSE "next")
  BY DEF NextUser
<1>3. u \in User /\ Without(LoadUser(u), op[r].inst) \in UserRecord
  BY <1>0, ReadOK, WithoutOK DEF TypeOK
<1>4. op'[r] \in Op /\ op'[r].user = u /\ op'[r].inst = op[r].inst
  <2>1. op'[r] = [op[r] EXCEPT !.user = u]
    BY <1>0, <1>2 DEF TypeOK
  <2>2. op'[r] \in Op
    BY <1>0, <1>3, <2>1, OpOK
  <2>3. op'[r].user = u /\ op'[r].inst = op[r].inst
    BY <1>0, <2>1 DEF Op
  <2> QED
    BY <2>2, <2>3
<1>5. op' \in [Request -> Op \cup {Nothing}]
  BY <1>0, <1>2, <1>4 DEF TypeOK
<1>6. pc'[r] \in {"delete", "next"} /\ con'[r] = Zero
  BY <1>0, <1>2 DEF NextUser, Goto, TypeOK
<1>7. pc' \in [Request -> Label] /\ todo' \in [Request -> SUBSET User]
      /\ usr' \in [Request -> UserRecord]
  BY <1>0, <1>2, <1>3 DEF Goto, TypeOK, Label
<1>8. TypeOK'
  BY <1>0, <1>5, <1>7 DEF NextUser, TypeOK, store
<1>9. RequestProven(r)'
  BY <1>0, <1>3, <1>4, <1>6 DEF RequestProven, Unread, Zero
<1>10. \A q \in Request \ {r} :
          pc'[q] = pc[q] /\ op'[q] = op[q] /\ con'[q] = con[q] /\ page'[q] = page[q]
  BY <1>0, <1>2 DEF NextUser, Goto, TypeOK
<1> QED
  BY <1>1, <1>8, <1>9, <1>10, StepOf DEF NextUser

LEMMA NextPageIInv ==
    ASSUME IInv, NEW r \in Request, NextPage(r)
    PROVE  IInv'
<1>0. /\ TypeOK /\ op[r] \in Op /\ op[r].inst \in Instance /\ con[r] = Zero
  BY KnownKey DEF NextPage, IInv, RequestProven, Unread, TypeOK
<1>1. AccountsProven'
  BY StoreKept DEF NextPage, store
<1>2. TypeOK'
  BY <1>0 DEF NextPage, Goto, TypeOK, Label, store
<1>3. RequestProven(r)'
  BY <1>0, ConnectionsAssumption DEF NextPage, RequestProven, Unread, Zero, Goto, TypeOK
<1> QED
  BY <1>0, <1>1, <1>2, <1>3, StepOf DEF NextPage, Goto, TypeOK

LEMMA RemoveInstallIInv ==
    ASSUME IInv, NEW r \in Request, Remove(r) \/ Install(r)
    PROVE  IInv'
<1>0. TypeOK /\ op[r].inst \in Instance
  BY KnownKey DEF Remove, Install, IInv
<1>1. AccountsProven'
  BY StoreKept DEF Remove, Install
<1> QED
  BY <1>0, <1>1, EndOf DEF Remove, Install, TypeOK

LEMMA NextIInv == IInv /\ [Next]_vars => IInv'
<1> SUFFICES ASSUME IInv, [Next]_vars PROVE IInv'
  OBVIOUS
<1>1. ASSUME UNCHANGED vars PROVE IInv'
  <2> USE <1>1 DEF vars, store, request
  <2>1. TypeOK'
    BY DEF IInv, TypeOK
  <2>2. AccountsProven'
    BY StoreKept
  <2>3. ASSUME NEW q \in Request PROVE RequestProven(q)'
    BY OthersKept
  <2> QED
    BY <2>1, <2>2, <2>3 DEF IInv
<1>2. ASSUME NEW r \in Request,
             \/ \E o \in Arriving : Submit(r, o)
             \/ Break(r) \/ SkipUser(r) \/ Resolve(r) \/ LoadInstance(r)
             \/ ReadUser(r) \/ ReadConnection(r)
      PROVE  IInv'
  BY <1>2, SubmitIInv, BreakIInv, SkipUserIInv, ResolveIInv, LoadInstanceIInv,
     ReadUserIInv, ReadConnectionIInv
<1>3. ASSUME NEW r \in Request,
             \/ StoreDefault(r) \/ StoreConnection(r) \/ StoreIndex(r)
             \/ StoreIndexAgain(r) \/ CheckSettings(r)
      PROVE  IInv'
  BY <1>3, StoreDefaultIInv, StoreConnectionIInv, StoreIndexIInv,
     StoreIndexAgainIInv, CheckSettingsIInv
<1>4. ASSUME NEW r \in Request,
             \/ DeleteConnection(r) \/ Unlink(r) \/ Unindex(r) \/ StoreUser(r)
             \/ ListKeys(r) \/ NextUser(r) \/ NextPage(r) \/ Remove(r) \/ Install(r)
      PROVE  IInv'
  BY <1>4, DeleteConnectionIInv, UnlinkIInv, UnindexIInv, StoreUserIInv,
     ListKeysIInv, NextUserIInv, NextPageIInv, RemoveInstallIInv
<1> QED
  BY <1>1, <1>2, <1>3, <1>4 DEF Next

(* What is stored and what a request carries from one call of the store to *)
(* the next is of an account its user proved to have: in every reachable   *)
(* state, for any number of instances, users, accounts and requests.       *)
THEOREM ConnectionsConsistency == Spec => []IInv
<1> QED
  BY InitIInv, NextIInv, PTL DEF Spec

(* No interleaving and no failure of connectUser, disconnectUser, the      *)
(* settings, the defaults, a token refresh and an uninstall gives a user   *)
(* the connection, or the notifications, of an account they never proved.  *)
THEOREM ProvenAccounts == Spec => []AccountsProven
<1>1. IInv => AccountsProven
  BY DEF IInv
<1> QED
  BY <1>1, ConnectionsConsistency, PTL

-----------------------------------------------------------------------------
(* The lists, the connections and the index                                *)

\* The operations that get to each place of the code
KindAt(r) ==
    /\ pc[r] = "resolve" => op[r].kind \in {"disconnect", "settings"}
    /\ pc[r] = "instance" => op[r].kind \in {"connect", "disconnect", "settings", "uninstall"}
    /\ pc[r] = "user" => op[r].kind \in {"connect", "defaults"}
    /\ pc[r] = "connection" => op[r].kind \in {"settings", "refresh", "defaults"}
    /\ pc[r] = "default" => op[r].kind = "defaults"
    /\ pc[r] \in {"store", "index", "again"} =>
          op[r].kind \in {"connect", "settings", "defaults", "refresh"}
    /\ pc[r] \in {"delete", "unlink", "unindex"} => op[r].kind \in {"disconnect", "uninstall"}
    /\ pc[r] = "keep" => op[r].kind \in {"connect", "disconnect", "uninstall"}
    /\ pc[r] \in {"list", "next", "remove"} => op[r].kind = "uninstall"

\* One request at a time works on a user who is not tangled.
Exclusive ==
    \A u \in User \ tangled : \A q, r \in Active :
        u \in UsersOf(op[q]) /\ u \in UsersOf(op[r]) => q = r

\* Between the calls of the store by which a request changes what a user is
\* connected to
Changing(r, u, i) ==
    /\ \/ pc[r] \in {"unindex", "keep"}
       \/ pc[r] \in {"index", "again"} /\ op[r].kind = "connect"
    /\ op[r].user = u /\ op[r].inst = i

\* Between the connection and its entry in the index
Indexing(r, u, i) ==
    pc[r] = "index" /\ op[r].kind = "connect" /\ op[r].user = u /\ op[r].inst = i

ListAgrees(u, i) == i \in LoadUser(u).connected <=> LoadConnection(i, u).account # NoAccount

FoundByIndex(u, i) ==
    LET a == LoadConnection(i, u).account
    IN  a # NoAccount /\ (\A v \in User : <<i, a, v>> \in linked => v = u) => index[i][a] = u

UserAgrees(u) ==
    /\ LoadUser(u).default \in LoadUser(u).connected \cup {Nothing}
    /\ \A i \in Instance : ListAgrees(u, i) \/ \E r \in Request : Changing(r, u, i)
    /\ \A i \in Instance : FoundByIndex(u, i) \/ \E r \in Request : Indexing(r, u, i)

With(d, i) == [d EXCEPT !.connected = @ \cup {i}]

\* What a request has read of a user and a connection is what is stored.
ReadAgrees(r, u, i) ==
    /\ pc[r] = "instance" /\ op[r].kind = "disconnect" => usr[r] = LoadUser(u)
    /\ pc[r] \in {"delete", "unlink", "unindex", "keep"} /\ op[r].kind # "connect" =>
          usr[r] = Without(LoadUser(u), i)
    /\ pc[r] \in {"unindex", "keep"} /\ op[r].kind # "connect" =>
          LoadConnection(i, u).account = NoAccount
    /\ pc[r] \in {"store", "index", "again", "keep"} /\ op[r].kind = "connect" =>
          usr[r] = With(LoadUser(u), i)
    /\ pc[r] \in {"user", "store", "index", "again", "keep"} /\ op[r].kind = "connect" =>
          con[r].account # NoAccount
    /\ pc[r] \in {"index", "again", "keep"} /\ op[r].kind = "connect" =>
          LoadConnection(i, u).account = con[r].account
    /\ pc[r] \in {"connection", "default"} /\ op[r].kind = "defaults" =>
          usr[r] = LoadUser(u) /\ i \in LoadUser(u).connected
    /\ pc[r] \in {"default", "store", "index", "again"} /\ op[r].kind # "connect" =>
          LoadConnection(i, u).account = con[r].account

RequestAgrees(r) == op[r].user \notin tangled => ReadAgrees(r, op[r].user, op[r].inst)

(* The inductive invariant of the lists: a user whose requests come one    *)
(* after the other finds list, connections and index in agreement, but for *)
(* the instance the request in progress is changing; and what that request *)
(* has read is still what is stored.                                       *)
SInv ==
    /\ IInv
    /\ Exclusive
    /\ \A r \in Request : KindAt(r)
    /\ \A u \in User \ tangled : UserAgrees(u)
    /\ \A r \in Request : pc[r] # "idle" => RequestAgrees(r)

\* A step of one request, which it was already performing
Moved(r) ==
    /\ \A q \in Request \ {r} :
          /\ pc'[q] = pc[q] /\ op'[q] = op[q] /\ usr'[q] = usr[q]
          /\ con'[q] = con[q] /\ todo'[q] = todo[q] /\ page'[q] = page[q]
    /\ linked \subseteq linked' /\ tangled \subseteq tangled'

Within(r) ==
    /\ Moved(r) /\ pc[r] # "idle"
    /\ pc'[r] # "idle" => op'[r].kind = op[r].kind /\ UsersOf(op'[r]) = UsersOf(op[r])

LEMMA InitSInv == Init => SInv
<1> SUFFICES ASSUME Init PROVE SInv
  OBVIOUS
<1>1. NewUser.connected = {} /\ NewUser.default = Nothing /\ Zero.account = NoAccount
  BY DEF NewUser, Zero
<1>2. \A u \in User : LoadUser(u) = NewUser /\ \A i \in Instance : LoadConnection(i, u) = Zero
  BY DEF Init, LoadUser, LoadConnection
<1>3. \A u \in User : UserAgrees(u)
  BY <1>1, <1>2 DEF UserAgrees, ListAgrees, FoundByIndex
<1>4. Exclusive
  BY DEF Init, Exclusive, Active
<1>5. \A r \in Request : KindAt(r)
  BY DEF Init, KindAt
<1>6. \A r \in Request : pc[r] = "idle"
  BY DEF Init
<1> QED
  BY <1>3, <1>4, <1>5, <1>6, InitIInv DEF SInv

LEMMA ExclusiveKept ==
    ASSUME SInv, NEW r \in Request, Within(r)
    PROVE  Exclusive'
<1> SUFFICES ASSUME NEW u \in User \ tangled', NEW p \in Active', NEW q \in Active',
                    u \in UsersOf(op'[p]), u \in UsersOf(op'[q])
             PROVE  p = q
  BY DEF Exclusive, UsersOf
<1>1. \A s \in Active' : s \in Active /\ UsersOf(op'[s]) = UsersOf(op[s])
  BY DEF Within, Moved, Active
<1>2. u \in User \ tangled
  BY DEF Within, Moved
<1> QED
  BY <1>1, <1>2 DEF SInv, Exclusive

\* A request other than the one that works on a user knows nothing of them.
LEMMA Alone ==
    ASSUME SInv, NEW r \in Request, NEW q \in Request, q # r,
           pc[r] # "idle", pc[q] # "idle",
           NEW u \in User \ tangled, u \in UsersOf(op[r])
    PROVE  op[q].user # u
<1>1. op[q] \in Op
  BY DEF SInv, IInv, RequestProven
<1>2. ASSUME op[q].user = u PROVE u \in UsersOf(op[q])
  BY <1>2 DEF UsersOf
<1> QED
  BY <1>2 DEF SInv, Exclusive, Active

\* The places where a request works on the user it names
LEMMA OnUser ==
    ASSUME SInv, NEW r \in Request, pc[r] \notin Unread \ {"resolve"}
    PROVE  /\ pc[r] # "idle" /\ op[r] \in Op /\ op[r].user \in User
           /\ op[r].user \in UsersOf(op[r]) /\ con[r] \in Connection /\ usr[r] \in UserRecord
BY KnownKey DEF SInv, IInv, TypeOK, Unread, UsersOf

\* Where the store of a user stays as it is, so does what is known of it.
LEMMA SameUser ==
    ASSUME NEW u \in User, users'[u] = users[u],
           \A i \in Instance : conns'[i][u] = conns[i][u]
    PROVE  /\ LoadUser(u)' = LoadUser(u)
           /\ \A i \in Instance : LoadConnection(i, u)' = LoadConnection(i, u)
           /\ \A i \in Instance : ListAgrees(u, i)' <=> ListAgrees(u, i)
BY DEF LoadUser, LoadConnection, ListAgrees

LEMMA OtherReads ==
    ASSUME SInv, NEW r \in Request, Moved(r), NEW q \in Request, q # r, pc'[q] # "idle",
           op[q].user \in User \ tangled =>
              /\ users'[op[q].user] = users[op[q].user]
              /\ \A i \in Instance : conns'[i][op[q].user] = conns[i][op[q].user]
    PROVE  RequestAgrees(q)'
<1>1. pc'[q] = pc[q] /\ op'[q] = op[q] /\ usr'[q] = usr[q] /\ con'[q] = con[q]
  BY DEF Moved
<1>2. CASE op[q].user \in tangled
  BY <1>1, <1>2 DEF Moved, RequestAgrees
<1>3. CASE pc[q] \in Unread /\ pc[q] # "instance"
  BY <1>1, <1>3 DEF RequestAgrees, ReadAgrees, Unread
<1>4. CASE pc[q] = "instance" /\ op[q].kind # "disconnect"
  BY <1>1, <1>4 DEF RequestAgrees, ReadAgrees
<1>5. CASE /\ op[q].user \notin tangled
           /\ pc[q] \in Unread => pc[q] = "instance" /\ op[q].kind = "disconnect"
  <2>1. op[q].user \in User /\ op[q].inst \in Instance
    BY <1>1, <1>5, KnownKey DEF SInv, Unread, Op
  <2>2. PICK u \in User, i \in Instance : u = op[q].user /\ i = op[q].inst
    BY <2>1
  <2>3. LoadUser(u)' = LoadUser(u) /\ LoadConnection(i, u)' = LoadConnection(i, u)
    BY <1>5, <2>2, SameUser
  <2>4. ReadAgrees(q, u, i)
    BY <1>1, <1>5, <2>2 DEF SInv, RequestAgrees
  <2>5. ReadAgrees(q, u, i)'
    BY <1>1, <2>3, <2>4 DEF ReadAgrees
  <2> QED
    BY <1>1, <2>2, <2>5 DEF RequestAgrees
<1> QED
  BY <1>2, <1>3, <1>4, <1>5

LEMMA KindsKept ==
    ASSUME SInv, NEW r \in Request, Moved(r), KindAt(r)'
    PROVE  \A q \in Request : KindAt(q)'
<1>1. ASSUME NEW q \in Request, q # r PROVE KindAt(q)'
  <2>1. KindAt(q) /\ pc'[q] = pc[q] /\ op'[q] = op[q]
    BY <1>1 DEF SInv, Moved
  <2> QED
    BY <2>1 DEF KindAt
<1> QED
  BY <1>1

\* What a request does not write stays found: who has another account proved
\* is not entitled to this entry of the index.
LEMMA StillFound ==
    ASSUME NEW u \in User, NEW i \in Instance, FoundByIndex(u, i),
           LoadConnection(i, u)' = LoadConnection(i, u), linked \subseteq linked',
           LoadConnection(i, u).account \in Account \cup {NoAccount},
           \A a \in Account :
              \/ index'[i][a] = index[i][a]
              \/ \E v \in User : v # u /\ <<i, a, v>> \in linked
    PROVE  FoundByIndex(u, i)'
BY DEF FoundByIndex

(* A step that writes nothing: it neither begins nor ends a change of what *)
(* is stored.                                                              *)
LEMMA QuietStep ==
    ASSUME SInv, IInv', NEW r \in Request, Moved(r), Exclusive',
           UNCHANGED <<conns, index, users>>,
           KindAt(r)', pc'[r] # "idle" => RequestAgrees(r)',
           \A u \in User \ tangled', i \in Instance : ~Changing(r, u, i) /\ ~Indexing(r, u, i)
    PROVE  SInv'
<1>2. ASSUME NEW q \in Request, pc'[q] # "idle" PROVE RequestAgrees(q)'
  BY <1>2, OtherReads
<1>3. ASSUME NEW u \in User \ tangled' PROVE UserAgrees(u)'
  <2>1. u \in User \ tangled /\ UserAgrees(u)
    BY DEF SInv, Moved
  <2>2. LoadUser(u)' = LoadUser(u)
        /\ \A i \in Instance : LoadConnection(i, u)' = LoadConnection(i, u)
    BY DEF LoadUser, LoadConnection
  <2>3. \A q \in Request, i \in Instance : Changing(q, u, i) => Changing(q, u, i)'
    BY DEF Moved, Changing
  <2>4. \A q \in Request, i \in Instance : Indexing(q, u, i) => Indexing(q, u, i)'
    BY DEF Moved, Indexing
  <2>5. \A i \in Instance : ListAgrees(u, i)' <=> ListAgrees(u, i)
    BY <2>2 DEF ListAgrees
  <2>6. ASSUME NEW i \in Instance, FoundByIndex(u, i) PROVE FoundByIndex(u, i)'
    BY <2>2, <2>6 DEF FoundByIndex, Moved
  <2> QED
    BY <2>1, <2>2, <2>3, <2>4, <2>5, <2>6 DEF UserAgrees
<1>4. \A q \in Request : KindAt(q)'
  BY KindsKept
<1> QED
  BY <1>2, <1>3, <1>4 DEF SInv

(* A step that writes: only what belongs to the user it works on, and      *)
(* entries of the index for accounts they proved.                          *)
LEMMA WriteStep ==
    ASSUME SInv, IInv', NEW r \in Request, Within(r),
           NEW w \in User, NEW k \in Instance, w = op[r].user, k = op[r].inst, w \in UsersOf(op[r]),
           pc'[r] # "idle" => op'[r] = op[r],
           \A v \in User \ {w} : users'[v] = users[v],
           \A v \in User, i \in Instance : v # w \/ i # k => conns'[i][v] = conns[i][v],
           \A i \in Instance, a \in Account :
              index'[i][a] = index[i][a] \/ (i = k /\ <<i, a, w>> \in linked),
           tangled' = tangled, KindAt(r)',
           w \notin tangled /\ pc'[r] # "idle" => ReadAgrees(r, w, k)',
           w \notin tangled => UserAgrees(w)'
    PROVE  SInv'
<1>1. Exclusive'
  BY ExclusiveKept
<1>2. ASSUME NEW q \in Request, pc'[q] # "idle" PROVE RequestAgrees(q)'
  <2>1. CASE q = r
    BY <1>2, <2>1 DEF RequestAgrees
  <2>2. CASE q # r
    <3>1. pc[q] # "idle" /\ pc[r] # "idle" /\ Moved(r)
      BY <1>2, <2>2 DEF Within, Moved
    <3>2. op[q].user \in User \ tangled => op[q].user # w
      BY <2>2, <3>1, Alone
    <3> QED
      BY <1>2, <2>2, <3>1, <3>2, OtherReads
  <2> QED
    BY <2>1, <2>2
<1>3. ASSUME NEW u \in User \ tangled', u # w PROVE UserAgrees(u)'
  <2>1. u \in User \ tangled /\ UserAgrees(u) /\ linked \subseteq linked'
    BY DEF SInv, Within, Moved
  <2>2. LoadUser(u)' = LoadUser(u)
        /\ \A i \in Instance : LoadConnection(i, u)' = LoadConnection(i, u)
    BY <1>3, <2>1, SameUser
  <2>3. \A q \in Request, i \in Instance : Changing(q, u, i) => Changing(q, u, i)'
    BY <1>3 DEF Within, Moved, Changing
  <2>4. \A q \in Request, i \in Instance : Indexing(q, u, i) => Indexing(q, u, i)'
    BY <1>3 DEF Within, Moved, Indexing
  <2>5. \A i \in Instance : ListAgrees(u, i)' <=> ListAgrees(u, i)
    BY <2>2 DEF ListAgrees
  <2>6. ASSUME NEW i \in Instance, FoundByIndex(u, i) PROVE FoundByIndex(u, i)'
    <3>1. LoadConnection(i, u).account \in Account \cup {NoAccount}
      BY ReadOK DEF SInv, Connection
    <3>2. \A a \in Account :
             \/ index'[i][a] = index[i][a]
             \/ \E v \in User : v # u /\ <<i, a, v>> \in linked
      BY <1>3
    <3> QED
      BY <2>1, <2>2, <2>6, <3>1, <3>2, StillFound
  <2> QED
    BY <2>1, <2>2, <2>3, <2>4, <2>5, <2>6 DEF UserAgrees
<1>4. \A q \in Request : KindAt(q)'
  BY KindsKept DEF Within
<1> QED
  BY <1>1, <1>2, <1>3, <1>4 DEF SInv

LEMMA SubmitSInv ==
    ASSUME SInv, NEW r \in Request, NEW o \in Arriving, Submit(r, o)
    PROVE  SInv'
<1>0. IInv /\ TypeOK /\ o \in Op
  BY DEF SInv, IInv, Arriving
<1>1. IInv'
  BY <1>0, SubmitIInv
<1>2. pc'[r] = First(o) /\ op'[r] = o /\ pc[r] = "idle"
  BY <1>0 DEF Submit, Goto, TypeOK
<1>3. Moved(r)
  BY <1>0 DEF Submit, Goto, Moved, TypeOK
<1>4. Exclusive'
  <2> SUFFICES ASSUME NEW u \in User \ tangled', NEW p \in Active', NEW q \in Active',
                      u \in UsersOf(op'[p]), u \in UsersOf(op'[q])
               PROVE  p = q
    BY DEF Exclusive, UsersOf
  <2>1. ASSUME NEW s \in Active', s # r PROVE s \in Active /\ op'[s] = op[s]
    BY <1>3, <2>1 DEF Moved, Active
  <2>2. \A s \in Active : u \in UsersOf(op[s]) => u \notin UsersOf(o)
    BY DEF Submit
  <2>3. u \in User \ tangled
    BY <1>3 DEF Moved
  <2> QED
    BY <1>2, <2>1, <2>2, <2>3 DEF SInv, Exclusive
<1>5. o.kind \in Kind
  BY <1>0 DEF Op
<1>6. KindAt(r)'
  BY <1>2, <1>5, ConnectionsAssumption DEF KindAt, First
<1>7. /\ First(o) \in {"resolve", "instance", "user", "connection", "install"}
      /\ First(o) = "instance" => o.kind # "disconnect"
      /\ First(o) = "user" => o.kind # "connect"
      /\ First(o) = "connection" => o.kind # "defaults"
  BY <1>5, ConnectionsAssumption DEF First
<1>8. RequestAgrees(r)'
  BY <1>2, <1>7 DEF RequestAgrees, ReadAgrees
<1>9. \A u \in User, i \in Instance : ~Changing(r, u, i) /\ ~Indexing(r, u, i)
  BY <1>2 DEF Changing, Indexing
<1> QED
  BY <1>1, <1>3, <1>4, <1>6, <1>8, <1>9, QuietStep DEF Submit, store

LEMMA EndWithin ==
    ASSUME SInv, NEW r \in Request, End(r), pc[r] # "idle",
           linked \subseteq linked', tangled \subseteq tangled'
    PROVE  Within(r) /\ pc'[r] = "idle" /\ KindAt(r)'
<1>0. TypeOK
  BY DEF SInv, IInv
<1>1. pc'[r] = "idle"
  BY <1>0 DEF End, Goto, TypeOK
<1>2. Moved(r)
  BY <1>0 DEF End, Goto, Moved, TypeOK
<1> QED
  BY <1>1, <1>2 DEF Within, KindAt

\* A request that ends without having begun to change anything
LEMMA EndSInv ==
    ASSUME SInv, IInv', NEW r \in Request, End(r), pc[r] # "idle",
           UNCHANGED <<conns, index, users>>,
           linked \subseteq linked', tangled \subseteq tangled',
           \A u \in User \ tangled', i \in Instance : ~Changing(r, u, i) /\ ~Indexing(r, u, i)
    PROVE  SInv'
<1>1. Within(r) /\ pc'[r] = "idle" /\ KindAt(r)' /\ Exclusive'
  BY EndWithin, ExclusiveKept
<1> QED
  BY <1>1, QuietStep DEF Within

LEMMA BreakSInv ==
    ASSUME SInv, NEW r \in Request, Break(r) \/ SkipUser(r)
    PROVE  SInv'
<1>0. IInv /\ TypeOK /\ IInv'
  BY BreakIInv, SkipUserIInv DEF SInv, IInv
<1>1. ASSUME NEW u \in User, NEW i \in Instance, Changing(r, u, i) \/ Indexing(r, u, i)
      PROVE  u \in UsersOf(op[r]) /\ u = op[r].user
  BY <1>1, OnUser DEF Changing, Indexing, Unread
<1>2. CASE Break(r)
  <2>1. \A u \in User \ tangled', i \in Instance : ~Changing(r, u, i) /\ ~Indexing(r, u, i)
    BY <1>1, <1>2 DEF Break
  <2> QED
    BY <1>0, <1>2, <2>1, EndSInv DEF Break, store
<1>3. CASE SkipUser(r)
  <2>1. \A u \in User \ tangled', i \in Instance : ~Changing(r, u, i) /\ ~Indexing(r, u, i)
    BY <1>1, <1>3 DEF SkipUser
  <2>2. pc'[r] = "next" /\ op' = op /\ op[r].kind = "uninstall"
    BY <1>0, <1>3 DEF SkipUser, Goto, TypeOK
  <2>3. Moved(r) /\ pc[r] # "idle"
    BY <1>0, <1>3 DEF SkipUser, Goto, Moved, TypeOK
  <2>4. Exclusive'
    BY <2>2, <2>3, ExclusiveKept DEF Within
  <2>5. KindAt(r)' /\ RequestAgrees(r)'
    BY <2>2 DEF KindAt, RequestAgrees, ReadAgrees
  <2> QED
    BY <1>0, <1>3, <2>1, <2>3, <2>4, <2>5, QuietStep DEF SkipUser, store
<1> QED
  BY <1>2, <1>3

\* A request that goes on from one call to the next without having begun to
\* change anything
LEMMA GoOn ==
    ASSUME SInv, IInv', NEW r \in Request, Moved(r),
           pc[r] \notin {"idle", "index", "again", "keep", "unindex"},
           UNCHANGED <<conns, index, users, tangled>>, KindAt(r)',
           op'[r].kind = op[r].kind, UsersOf(op'[r]) = UsersOf(op[r]),
           NEW u, NEW i, u = op'[r].user, i = op'[r].inst,
           u \notin tangled => ReadAgrees(r, u, i)'
    PROVE  SInv'
<1>1. Within(r) /\ Exclusive'
  BY ExclusiveKept DEF Within
<1>2. \A v \in User, j \in Instance : ~Changing(r, v, j) /\ ~Indexing(r, v, j)
  BY DEF Changing, Indexing
<1>3. RequestAgrees(r)'
  BY DEF RequestAgrees
<1> QED
  BY <1>1, <1>2, <1>3, QuietStep

LEMMA SameStore ==
    ASSUME UNCHANGED <<conns, users>>
    PROVE  /\ \A u : LoadUser(u)' = LoadUser(u)
           /\ \A u, i : LoadConnection(i, u)' = LoadConnection(i, u)
BY DEF LoadUser, LoadConnection

LEMMA ResolveSInv ==
    ASSUME SInv, NEW r \in Request, Resolve(r)
    PROVE  SInv'
<1>0. IInv /\ TypeOK /\ IInv' /\ op[r] \in Op /\ op[r].user \in User
  BY ResolveIInv, OnUser DEF Resolve, SInv, IInv, Unread
<1>1. CASE End(r)
  BY <1>0, <1>1, EndSInv DEF Resolve, store, Changing, Indexing
<1>2. CASE ~End(r)
  <2>1. PICK u \in User : u = op[r].user
    BY <1>0
  <2>2. PICK i \in Resolved(LoadUser(u), op[r].inst) :
           /\ usr' = [usr EXCEPT ![r] = LoadUser(u)]
           /\ op' = [op EXCEPT ![r].inst = i]
           /\ Goto(r, "instance")
           /\ UNCHANGED <<con, todo, page>>
    BY <1>2, <2>1 DEF Resolve
  <2>3. Moved(r) /\ pc'[r] = "instance" /\ usr'[r] = LoadUser(u)
    BY <1>0, <2>2 DEF Resolve, Goto, Moved, TypeOK
  <2>4. op'[r] = [op[r] EXCEPT !.inst = i]
    BY <1>0, <2>2 DEF TypeOK
  <2>5. op'[r].kind = op[r].kind /\ op'[r].user = u /\ op'[r].inst = i
    BY <1>0, <2>1, <2>4 DEF Op
  <2>6. UsersOf(op'[r]) = UsersOf(op[r])
    BY <2>1, <2>5 DEF UsersOf
  <2>7. KindAt(r)'
    BY <2>3, <2>5 DEF SInv, KindAt, Resolve
  <2>8. LoadUser(u)' = LoadUser(u)
    BY SameStore DEF Resolve, store
  <2>9. ReadAgrees(r, u, i)'
    BY <2>3, <2>8 DEF ReadAgrees
  <2> QED
    BY <1>0, <2>3, <2>5, <2>6, <2>7, <2>9, GoOn DEF Resolve, store
<1> QED
  BY <1>1, <1>2

LEMMA LoadInstanceSInv ==
    ASSUME SInv, NEW r \in Request, LoadInstance(r)
    PROVE  SInv'
<1>0. IInv /\ TypeOK /\ IInv' /\ op[r] \in Op /\ op[r].inst \in Instance /\ pc[r] = "instance"
  BY LoadInstanceIInv, KnownKey DEF LoadInstance, SInv, IInv
<1>1. UNCHANGED <<conns, index, users, tangled>>
  BY DEF LoadInstance, store
<1>2. CASE End(r)
  BY <1>0, <1>1, <1>2, EndSInv DEF LoadInstance, store, Changing, Indexing
<1>3. CASE ~End(r)
  <2>1. /\ op' = op /\ linked \subseteq linked'
        /\ \/ op[r].kind = "connect" /\ pc'[r] = "user" /\ con'[r].account = op[r].arg
           \/ /\ op[r].kind = "disconnect" /\ pc'[r] = "delete"
              /\ usr'[r] = Without(usr[r], op[r].inst)
           \/ op[r].kind = "settings" /\ pc'[r] = "connection"
           \/ op[r].kind = "uninstall" /\ pc'[r] = "list"
    BY <1>0, <1>3 DEF LoadInstance, Goto, TypeOK, NewConnection
  <2>2. Moved(r)
    BY <1>0, <1>1, <1>3 DEF LoadInstance, Goto, Moved, TypeOK
  <2>3. KindAt(r)'
    BY <2>1 DEF KindAt
  <2>4. op[r].kind = "connect" => op[r].arg # NoAccount
    BY <1>0, ConnectionsAssumption DEF Op
  <2>5. PICK u, i : u = op[r].user /\ i = op[r].inst
    OBVIOUS
  <2>6. ASSUME u \notin tangled PROVE ReadAgrees(r, u, i)'
    <3>1. op[r].kind = "disconnect" => usr[r] = LoadUser(u)
      BY <1>0, <2>5, <2>6 DEF SInv, RequestAgrees, ReadAgrees
    <3>2. LoadUser(u)' = LoadUser(u)
      BY <1>1, SameStore
    <3> QED
      BY <2>1, <2>4, <2>5, <3>1, <3>2 DEF ReadAgrees
  <2> QED
    BY <1>0, <1>1, <2>1, <2>2, <2>3, <2>5, <2>6, GoOn
<1> QED
  BY <1>2, <1>3

LEMMA ReadUserSInv ==
    ASSUME SInv, NEW r \in Request, ReadUser(r)
    PROVE  SInv'
<1>0. IInv /\ TypeOK /\ IInv' /\ pc[r] = "user"
  BY ReadUserIInv DEF ReadUser, SInv, IInv
<1>1. UNCHANGED <<conns, index, users, tangled, linked>>
  BY DEF ReadUser, store
<1>2. CASE End(r)
  BY <1>0, <1>1, <1>2, EndSInv DEF Changing, Indexing
<1>3. CASE ~End(r)
  <2>1. PICK u, i : u = op[r].user /\ i = op[r].inst
    OBVIOUS
  <2>2. /\ op' = op /\ con' = con
        /\ \/ op[r].kind = "connect" /\ pc'[r] = "store" /\ usr'[r] = With(LoadUser(u), i)
           \/ /\ op[r].kind = "defaults" /\ pc'[r] = "connection"
              /\ usr'[r] = LoadUser(u) /\ i \in LoadUser(u).connected
    BY <1>0, <1>3, <2>1 DEF ReadUser, Goto, TypeOK, With
  <2>3. Moved(r)
    BY <1>0, <1>1, <1>3 DEF ReadUser, Goto, Moved, TypeOK
  <2>4. KindAt(r)'
    BY <2>2 DEF KindAt
  <2>5. ASSUME u \notin tangled PROVE ReadAgrees(r, u, i)'
    <3>1. op[r].kind = "connect" => con[r].account # NoAccount
      BY <1>0, <2>1, <2>5 DEF SInv, RequestAgrees, ReadAgrees
    <3>2. LoadUser(u)' = LoadUser(u)
      BY <1>1, SameStore
    <3> QED
      BY <2>2, <3>1, <3>2 DEF ReadAgrees, With
  <2> QED
    BY <1>0, <1>1, <2>1, <2>2, <2>3, <2>4, <2>5, GoOn
<1> QED
  BY <1>2, <1>3

LEMMA ReadConnectionSInv ==
    ASSUME SInv, NEW r \in Request, ReadConnection(r)
    PROVE  SInv'
<1>0. IInv /\ TypeOK /\ IInv' /\ pc[r] = "connection" /\ op[r] \in Op
  BY ReadConnectionIInv, OnUser DEF ReadConnection, SInv, IInv, Unread
<1>1. UNCHANGED <<conns, index, users, tangled, linked>>
  BY DEF ReadConnection, store
<1>2. CASE End(r)
  BY <1>0, <1>1, <1>2, EndSInv DEF Changing, Indexing
<1>3. CASE ~End(r)
  <2>1. PICK u, i : u = op[r].user /\ i = op[r].inst
    OBVIOUS
  <2>2. /\ op' = op /\ usr' = usr
        /\ \/ op[r].kind = "settings" /\ pc'[r] = "panic"
           \/ /\ op[r].kind \in {"settings", "refresh"} /\ pc'[r] = "store"
              /\ con'[r].account = LoadConnection(i, u).account
           \/ /\ op[r].kind = "defaults" /\ pc'[r] = "default"
              /\ con'[r].account = LoadConnection(i, u).account
    <3>1. LoadConnection(i, u) \in Connection
      BY <1>0, <2>1, OnUser, KnownKey, ReadOK DEF Unread
    <3>2. PICK c \in Connection : c = LoadConnection(i, u)
      BY <3>1
    <3>3. ReadSettings(r, c) \/ RefreshToken(r, c) \/ ReadDefaults(r, c)
      BY <2>1, <3>2 DEF ReadConnection
    <3>4. [c EXCEPT !.settings = op[r].arg].account = c.account
      BY DEF Connection
    <3> QED
      BY <1>0, <1>3, <3>2, <3>3, <3>4 DEF ReadSettings, RefreshToken, ReadDefaults, Goto, TypeOK
  <2>3. Moved(r)
    BY <1>0, <1>1, <1>3
    DEF ReadConnection, ReadSettings, RefreshToken, ReadDefaults, Goto, Moved, TypeOK
  <2>4. KindAt(r)'
    BY <2>2 DEF KindAt
  <2>5. ASSUME u \notin tangled PROVE ReadAgrees(r, u, i)'
    <3>1. op[r].kind = "defaults" => usr[r] = LoadUser(u) /\ i \in LoadUser(u).connected
      BY <1>0, <2>1, <2>5 DEF SInv, RequestAgrees, ReadAgrees
    <3>2. LoadUser(u)' = LoadUser(u) /\ LoadConnection(i, u)' = LoadConnection(i, u)
      BY <1>1, SameStore
    <3> QED
      BY <2>2, <3>1, <3>2 DEF ReadAgrees
  <2> QED
    BY <1>0, <1>1, <2>1, <2>2, <2>3, <2>4, <2>5, GoOn
<1> QED
  BY <1>2, <1>3

LEMMA CheckSettingsSInv ==
    ASSUME SInv, NEW r \in Request, CheckSettings(r)
    PROVE  SInv'
<1>0. IInv /\ TypeOK /\ IInv' /\ pc[r] = "check"
  BY CheckSettingsIInv DEF CheckSettings, SInv, IInv
<1>1. UNCHANGED <<conns, index, users, tangled, linked>>
  BY DEF CheckSettings, store
<1>2. CASE End(r)
  BY <1>0, <1>1, <1>2, EndSInv DEF Changing, Indexing
<1>3. CASE ~End(r)
  <2>1. pc'[r] = "panic" /\ op' = op
    BY <1>0, <1>3 DEF CheckSettings, Goto, TypeOK
  <2>2. Moved(r)
    BY <1>0, <1>1, <1>3 DEF CheckSettings, Goto, Moved, TypeOK
  <2>3. KindAt(r)'
    BY <2>1 DEF KindAt
  <2>4. PICK u, i : u = op'[r].user /\ i = op'[r].inst
    OBVIOUS
  <2>5. ReadAgrees(r, u, i)'
    BY <2>1 DEF ReadAgrees
  <2> QED
    BY <1>0, <1>1, <2>1, <2>2, <2>3, <2>4, <2>5, GoOn
<1> QED
  BY <1>2, <1>3

LEMMA DeleteConnectionSInv ==
    ASSUME SInv, NEW r \in Request, DeleteConnection(r)
    PROVE  SInv'
<1>0. IInv /\ TypeOK /\ IInv' /\ pc[r] = "delete"
  BY DeleteConnectionIInv DEF DeleteConnection, SInv, IInv
<1>1. UNCHANGED <<conns, index, users, tangled, linked>>
  BY DEF DeleteConnection, store
<1>2. pc'[r] = "unlink" /\ op' = op /\ usr' = usr
  BY <1>0 DEF DeleteConnection, Goto, TypeOK
<1>3. Moved(r)
  BY <1>0, <1>1 DEF DeleteConnection, Goto, Moved, TypeOK
<1>4. op[r].kind \in {"disconnect", "uninstall"} /\ KindAt(r)'
  BY <1>0, <1>2 DEF SInv, KindAt
<1>5. PICK u, i : u = op[r].user /\ i = op[r].inst
  OBVIOUS
<1>6. ASSUME u \notin tangled PROVE ReadAgrees(r, u, i)'
  <2>1. usr[r] = Without(LoadUser(u), i)
    BY <1>0, <1>4, <1>5, <1>6 DEF SInv, RequestAgrees, ReadAgrees
  <2>2. LoadUser(u)' = LoadUser(u)
    BY <1>1, SameStore
  <2> QED
    BY <1>2, <2>1, <2>2 DEF ReadAgrees
<1> QED
  BY <1>0, <1>1, <1>2, <1>3, <1>4, <1>5, <1>6, GoOn

LEMMA PageSInv ==
    ASSUME SInv, NEW r \in Request, ListKeys(r) \/ NextPage(r)
    PROVE  SInv'
<1>0. IInv /\ TypeOK /\ IInv' /\ pc[r] \in {"list", "next"}
  BY ListKeysIInv, NextPageIInv DEF ListKeys, NextPage, SInv, IInv
<1>1. UNCHANGED <<conns, index, users, tangled, linked>>
  BY DEF ListKeys, NextPage, store
<1>2. pc'[r] \in {"list", "next", "remove"} /\ op' = op /\ op[r].kind = "uninstall"
  BY <1>0 DEF ListKeys, NextPage, Goto, SInv, KindAt, TypeOK
<1>3. Moved(r)
  BY <1>0, <1>1 DEF ListKeys, NextPage, Goto, Moved, TypeOK
<1>4. KindAt(r)'
  BY <1>2 DEF KindAt
<1>5. PICK u, i : u = op'[r].user /\ i = op'[r].inst
  OBVIOUS
<1>6. ReadAgrees(r, u, i)'
  BY <1>2 DEF ReadAgrees
<1> QED
  BY <1>0, <1>1, <1>2, <1>3, <1>4, <1>5, <1>6, GoOn

LEMMA NextUserSInv ==
    ASSUME SInv, NEW r \in Request, NextUser(r)
    PROVE  SInv'
<1>0. IInv /\ TypeOK /\ IInv' /\ pc[r] = "next" /\ op[r] \in Op /\ op[r].kind = "uninstall"
  BY NextUserIInv, KnownKey DEF NextUser, SInv, IInv, KindAt
<1>1. UNCHANGED <<conns, index, users, tangled, linked>>
  BY DEF NextUser, store
<1>2. PICK i : i = op[r].inst
  OBVIOUS
<1>3. PICK u \in todo[r] :
         /\ op' = [op EXCEPT ![r].user = u]
         /\ todo' = [todo EXCEPT ![r] = @ \ {u}]
         /\ usr' = [usr EXCEPT ![r] = Without(LoadUser(u), i)]
         /\ Goto(r, IF i \in LoadUser(u).connected THEN "delete" ELSE "next")
  BY <1>2 DEF NextUser
<1>4. pc'[r] \in {"delete", "next"} /\ usr'[r] = Without(LoadUser(u), i)
  BY <1>0, <1>3 DEF Goto, TypeOK
<1>5. op'[r] = [op[r] EXCEPT !.user = u]
  BY <1>0, <1>3 DEF TypeOK
<1>6. op'[r].kind = "uninstall" /\ op'[r].user = u /\ op'[r].inst = i
  BY <1>0, <1>2, <1>5 DEF Op
<1>7. UsersOf(op'[r]) = UsersOf(op[r])
  BY <1>0, <1>6 DEF UsersOf
<1>8. Moved(r)
  BY <1>0, <1>1, <1>3 DEF NextUser, Goto, Moved, TypeOK
<1>9. KindAt(r)'
  BY <1>4, <1>6 DEF KindAt
<1>10. LoadUser(u)' = LoadUser(u)
  BY <1>1, SameStore
<1>11. ReadAgrees(r, u, i)'
  BY <1>4, <1>6, <1>10 DEF ReadAgrees
<1> QED
  BY <1>0, <1>1, <1>6, <1>7, <1>8, <1>9, <1>11, GoOn

LEMMA RemoveInstallSInv ==
    ASSUME SInv, NEW r \in Request, Remove(r) \/ Install(r)
    PROVE  SInv'
<1>1. IInv' /\ pc[r] \in {"remove", "install"}
  BY RemoveInstallIInv DEF Remove, Install, SInv
<1>2. \A u \in User, i \in Instance : ~Changing(r, u, i) /\ ~Indexing(r, u, i)
  BY <1>1 DEF Changing, Indexing
<1> QED
  BY <1>1, <1>2, EndSInv DEF Remove, Install

\* What is stored of the user a request works on, who is not tangled, is in
\* agreement but for what this request is changing.
LEMMA OwnAgrees ==
    ASSUME SInv, NEW r \in Request, pc[r] \notin Unread \ {"resolve"},
           NEW u \in User \ tangled, u = op[r].user
    PROVE  /\ LoadUser(u).default \in LoadUser(u).connected \cup {Nothing}
           /\ \A i \in Instance : ListAgrees(u, i) \/ Changing(r, u, i)
           /\ \A i \in Instance : FoundByIndex(u, i) \/ Indexing(r, u, i)
<1>1. pc[r] # "idle" /\ u \in UsersOf(op[r])
  BY OnUser
<1>2. \A q \in Request, i \in Instance : Changing(q, u, i) => q = r
  BY <1>1, Alone DEF Changing
<1>3. \A q \in Request, i \in Instance : Indexing(q, u, i) => q = r
  BY <1>1, Alone DEF Indexing
<1> QED
  BY <1>2, <1>3 DEF SInv, UserAgrees

LEMMA OwnReads ==
    ASSUME SInv, NEW r \in Request, pc[r] # "idle", op[r].user \notin tangled
    PROVE  ReadAgrees(r, op[r].user, op[r].inst)
BY DEF SInv, RequestAgrees

\* What WriteStep needs of every step that writes
LEMMA Writing ==
    ASSUME SInv, NEW r \in Request,
           pc[r] \in {"default", "store", "index", "again", "unlink", "unindex", "keep"}
    PROVE  /\ TypeOK /\ IInv /\ pc[r] \notin Unread \ {"resolve"} /\ KindAt(r)
           /\ pc[r] # "idle" /\ op[r] \in Op /\ op[r].user \in User /\ op[r].inst \in Instance
           /\ op[r].user \in UsersOf(op[r])
           /\ con[r] \in Connection /\ usr[r] \in UserRecord
           /\ con[r].account \in Account \cup {NoAccount}
           /\ con[r].account # NoAccount =>
                 <<op[r].inst, con[r].account, op[r].user>> \in linked
<1>1. pc[r] \notin Unread \ {"resolve"} /\ pc[r] \notin {"idle", "resolve"}
  BY DEF Unread
<1>2. con[r] \in Connection /\ op[r].inst \in Instance
  BY <1>1, KnownKey DEF SInv
<1> QED
  BY <1>1, <1>2, OnUser DEF SInv, IInv, RequestProven, Connection

LEMMA StoreDefaultSInv ==
    ASSUME SInv, NEW r \in Request, StoreDefault(r)
    PROVE  SInv'
<1>0. IInv' /\ pc[r] = "default" /\ op[r].kind = "defaults"
  BY StoreDefaultIInv, Writing DEF StoreDefault, SInv, KindAt
<1>1. /\ TypeOK /\ op[r] \in Op /\ op[r].user \in User /\ op[r].inst \in Instance
      /\ op[r].user \in UsersOf(op[r]) /\ usr[r] \in UserRecord /\ con[r] \in Connection
  BY <1>0, Writing
<1>2. PICK w \in User, k \in Instance : w = op[r].user /\ k = op[r].inst
  BY <1>1
<1>3. UNCHANGED <<conns, index, tangled, linked>>
  BY DEF StoreDefault
<1>4. \/ End(r)
      \/ pc'[r] = "store" /\ op' = op /\ con' = con
  BY <1>1 DEF StoreDefault, Goto, TypeOK
<1>5. Moved(r)
  BY <1>1, <1>3 DEF StoreDefault, End, Goto, Moved, TypeOK
<1>6. (pc'[r] = "idle" \/ (pc'[r] = "store" /\ op'[r] = op[r] /\ con'[r] = con[r])) /\ KindAt(r)'
  BY <1>0, <1>1, <1>4 DEF End, Goto, KindAt, TypeOK
<1>7. Within(r)
  BY <1>0, <1>5, <1>6 DEF Within
<1>8. \A v \in User \ {w} : users'[v] = users[v]
  BY <1>1, <1>2 DEF StoreDefault, TypeOK
<1>9. \A i : LoadConnection(i, w)' = LoadConnection(i, w)
  BY <1>3 DEF LoadConnection
<1>10. ASSUME w \notin tangled
       PROVE  /\ pc'[r] # "idle" => ReadAgrees(r, w, k)'
              /\ UserAgrees(w)'
  <2>1. usr[r] = LoadUser(w) /\ k \in LoadUser(w).connected
        /\ LoadConnection(k, w).account = con[r].account
    BY <1>0, <1>2, <1>10, OwnReads DEF ReadAgrees
  <2>2. /\ LoadUser(w)'.connected = LoadUser(w).connected
        /\ LoadUser(w)'.default \in {LoadUser(w).default, k}
    <3>1. CASE usr[r].default = k
      BY <1>2, <3>1 DEF StoreDefault, LoadUser
    <3>2. CASE usr[r].default # k
      <4>1. users'[w] = [usr[r] EXCEPT !.default = k]
        BY <1>1, <1>2, <3>2 DEF StoreDefault, TypeOK
      <4>2. [usr[r] EXCEPT !.default = k] \in UserRecord
        BY <1>1 DEF UserRecord
      <4>3. LoadUser(w)' = [usr[r] EXCEPT !.default = k]
        BY <4>1, <4>2, ConnectionsAssumption DEF LoadUser
      <4> QED
        BY <1>1, <2>1, <4>3 DEF UserRecord
    <3> QED
      BY <3>1, <3>2
  <2>3. \A i \in Instance : ListAgrees(w, i) /\ FoundByIndex(w, i)
    BY <1>0, <1>2, <1>10, OwnAgrees DEF Changing, Indexing, Unread
  <2>4. LoadUser(w).default \in LoadUser(w).connected \cup {Nothing}
    BY <1>0, <1>2, <1>10, OwnAgrees DEF Unread
  <2>5. \A i \in Instance : ListAgrees(w, i)' /\ FoundByIndex(w, i)'
    BY <1>3, <1>9, <2>2, <2>3 DEF ListAgrees, FoundByIndex
  <2>6. UserAgrees(w)'
    BY <2>1, <2>2, <2>4, <2>5 DEF UserAgrees
  <2>7. pc'[r] # "idle" => ReadAgrees(r, w, k)'
    BY <1>0, <1>6, <1>9, <2>1 DEF ReadAgrees
  <2> QED
    BY <2>6, <2>7
<1> QED
  BY <1>0, <1>1, <1>2, <1>3, <1>6, <1>7, <1>8, <1>10, WriteStep

LEMMA StoreConnectionSInv ==
    ASSUME SInv, NEW r \in Request, StoreConnection(r)
    PROVE  SInv'
<1>0. IInv' /\ pc[r] = "store" /\ op[r].kind \in {"connect", "settings", "defaults", "refresh"}
  BY StoreConnectionIInv, Writing DEF StoreConnection, SInv, KindAt
<1>1. /\ TypeOK /\ op[r] \in Op /\ op[r].user \in User /\ op[r].inst \in Instance
      /\ op[r].user \in UsersOf(op[r]) /\ con[r] \in Connection
  BY <1>0, Writing
<1>2. PICK w \in User, k \in Instance : w = op[r].user /\ k = op[r].inst
  BY <1>1
<1>3. UNCHANGED <<index, users, tangled, linked>> /\ pc'[r] = "index"
      /\ op' = op /\ con' = con /\ usr' = usr
  BY <1>1 DEF StoreConnection, Goto, TypeOK
<1>4. Moved(r)
  BY <1>1 DEF StoreConnection, Goto, Moved, TypeOK
<1>5. Within(r) /\ KindAt(r)'
  BY <1>0, <1>3, <1>4 DEF Within, KindAt
<1>6. \A v \in User, i \in Instance :
         conns'[i][v] = IF v = w /\ i = k THEN con[r] ELSE conns[i][v]
  BY <1>1, <1>2 DEF StoreConnection, TypeOK
<1>7. /\ LoadConnection(k, w)' = con[r]
      /\ \A i \in Instance : i # k => LoadConnection(i, w)' = LoadConnection(i, w)
  BY <1>1, <1>2, <1>6, ConnectionsAssumption DEF LoadConnection
<1>8. LoadUser(w)' = LoadUser(w)
  BY <1>3 DEF LoadUser
<1>9. ASSUME w \notin tangled
      PROVE  ReadAgrees(r, w, k)' /\ UserAgrees(w)'
  <2>1. /\ op[r].kind = "connect" => con[r].account # NoAccount /\ usr[r] = With(LoadUser(w), k)
        /\ op[r].kind # "connect" => LoadConnection(k, w).account = con[r].account
    BY <1>0, <1>2, <1>9, OwnReads DEF ReadAgrees
  <2>2. \A i \in Instance : ListAgrees(w, i) /\ FoundByIndex(w, i)
    BY <1>0, <1>2, <1>9, OwnAgrees DEF Changing, Indexing, Unread
  <2>3. LoadUser(w).default \in LoadUser(w).connected \cup {Nothing}
    BY <1>0, <1>2, <1>9, OwnAgrees DEF Unread
  <2>4. \A i \in Instance : i # k => ListAgrees(w, i)' /\ FoundByIndex(w, i)'
    BY <1>3, <1>7, <1>8, <2>2 DEF ListAgrees, FoundByIndex
  <2>5. CASE op[r].kind = "connect"
    <3>1. Changing(r, w, k)' /\ Indexing(r, w, k)'
      BY <1>2, <1>3, <2>5 DEF Changing, Indexing
    <3>2. UserAgrees(w)'
      BY <1>8, <2>3, <2>4, <3>1 DEF UserAgrees
    <3>3. ReadAgrees(r, w, k)'
      BY <1>3, <1>7, <1>8, <2>1, <2>5 DEF ReadAgrees, With
    <3> QED
      BY <3>2, <3>3
  <2>6. CASE op[r].kind # "connect"
    <3>1. ListAgrees(w, k)' /\ FoundByIndex(w, k)'
      BY <1>3, <1>7, <1>8, <2>1, <2>2, <2>6 DEF ListAgrees, FoundByIndex
    <3>2. UserAgrees(w)'
      BY <1>8, <2>3, <2>4, <3>1 DEF UserAgrees
    <3>3. ReadAgrees(r, w, k)'
      BY <1>3, <1>7, <2>6 DEF ReadAgrees
    <3> QED
      BY <3>2, <3>3
  <2> QED
    BY <2>5, <2>6
<1> QED
  BY <1>0, <1>1, <1>2, <1>3, <1>5, <1>6, <1>9, WriteStep

\* Writing the index changes one entry, of the account of the request.
LEMMA IndexEntry ==
    ASSUME SInv, NEW r \in Request, NEW l \in {"index", "again"}, WriteIndex(r, l),
           NEW w, NEW k, w = op[r].user, k = op[r].inst
    PROVE  /\ \A i \in Instance, a \in Account :
                 index'[i][a] = index[i][a] \/ (i = k /\ <<i, a, w>> \in linked)
           /\ \A i \in Instance : i # k => index'[i] = index[i]
           /\ index'[k][con[r].account] = w
<1>1. /\ TypeOK /\ k \in Instance /\ con[r].account \in Account \cup {NoAccount}
      /\ con[r].account # NoAccount => <<k, con[r].account, w>> \in linked
  BY Writing DEF WriteIndex
<1>2. ASSUME NEW a \in Account \cup {NoAccount}
      PROVE  index'[k][a] = IF a = con[r].account THEN w ELSE index[k][a]
  BY <1>1 DEF WriteIndex, TypeOK
<1>3. \A i \in Instance : i # k => index'[i] = index[i]
  BY <1>1 DEF WriteIndex, TypeOK
<1> QED
  BY <1>1, <1>2, <1>3, ConnectionsAssumption

\* What is known after the index is written, first or second time
LEMMA IndexWritten ==
    ASSUME SInv, NEW r \in Request, NEW l \in {"index", "again"}, WriteIndex(r, l),
           NEW w \in User \ tangled, NEW k \in Instance, w = op[r].user, k = op[r].inst,
           UNCHANGED <<conns, users, linked>>
    PROVE  /\ LoadUser(w)' = LoadUser(w)
           /\ \A i \in Instance : LoadConnection(i, w)' = LoadConnection(i, w)
           /\ LoadConnection(k, w).account = con[r].account
           /\ \A i \in Instance : FoundByIndex(w, i)'
           /\ \A i \in Instance : ListAgrees(w, i)' \/ (op[r].kind = "connect" /\ i = k)
           /\ LoadUser(w)'.default \in LoadUser(w)'.connected \cup {Nothing}
           /\ op[r].kind = "connect" =>
                 con[r].account # NoAccount /\ usr[r] = With(LoadUser(w), k)
<1>0. pc[r] \in {"index", "again"} /\ pc[r] \notin Unread
  BY DEF WriteIndex, Unread
<1>1. LoadUser(w)' = LoadUser(w) /\ \A i : LoadConnection(i, w)' = LoadConnection(i, w)
  BY SameStore
<1>2. /\ LoadConnection(k, w).account = con[r].account
      /\ op[r].kind = "connect" =>
            con[r].account # NoAccount /\ usr[r] = With(LoadUser(w), k)
  BY <1>0, OwnReads DEF ReadAgrees
<1>3. index'[k][con[r].account] = w /\ \A i \in Instance : i # k => index'[i] = index[i]
  BY IndexEntry
<1>4. FoundByIndex(w, k)'
  BY <1>1, <1>2, <1>3 DEF FoundByIndex
<1>5. ASSUME NEW i \in Instance, i # k PROVE FoundByIndex(w, i)'
  <2>1. FoundByIndex(w, i)
    BY <1>0, <1>5, OwnAgrees DEF Indexing
  <2> QED
    BY <1>1, <1>3, <1>5, <2>1 DEF FoundByIndex
<1>6. ASSUME NEW i \in Instance
      PROVE  ListAgrees(w, i)' \/ (op[r].kind = "connect" /\ i = k)
  <2>1. ListAgrees(w, i) \/ Changing(r, w, i)
    BY <1>0, OwnAgrees
  <2>2. Changing(r, w, i) => op[r].kind = "connect" /\ i = k
    BY <1>0 DEF Changing
  <2> QED
    BY <1>1, <2>1, <2>2 DEF ListAgrees
<1>7. LoadUser(w).default \in LoadUser(w).connected \cup {Nothing}
  BY <1>0, OwnAgrees
<1> QED
  BY <1>1, <1>2, <1>4, <1>5, <1>6, <1>7

LEMMA StoreIndexSInv ==
    ASSUME SInv, NEW r \in Request, StoreIndex(r)
    PROVE  SInv'
<1>0. /\ IInv' /\ pc[r] = "index" /\ WriteIndex(r, "index")
      /\ op[r].kind \in {"connect", "settings", "defaults", "refresh"}
  BY StoreIndexIInv, Writing DEF StoreIndex, WriteIndex, SInv, KindAt
<1>1. /\ TypeOK /\ op[r] \in Op /\ op[r].user \in User /\ op[r].inst \in Instance
      /\ op[r].user \in UsersOf(op[r])
  BY <1>0, Writing
<1>2. PICK w \in User, k \in Instance : w = op[r].user /\ k = op[r].inst
  BY <1>1
<1>3. UNCHANGED <<conns, users, tangled, linked>> /\ pc'[r] = "again"
      /\ op' = op /\ con' = con /\ usr' = usr
  BY <1>1 DEF StoreIndex, Goto, TypeOK
<1>4. Moved(r)
  BY <1>1 DEF StoreIndex, Goto, Moved, TypeOK
<1>5. Within(r) /\ KindAt(r)'
  BY <1>0, <1>3, <1>4 DEF Within, KindAt
<1>6. \A i \in Instance, a \in Account :
         index'[i][a] = index[i][a] \/ (i = k /\ <<i, a, w>> \in linked)
  BY <1>0, <1>2, IndexEntry
<1>7. ASSUME w \notin tangled
      PROVE  ReadAgrees(r, w, k)' /\ UserAgrees(w)'
  <2>1. /\ LoadUser(w)' = LoadUser(w)
        /\ LoadConnection(k, w)' = LoadConnection(k, w)
        /\ LoadConnection(k, w).account = con[r].account
        /\ \A i \in Instance : FoundByIndex(w, i)'
        /\ \A i \in Instance : ListAgrees(w, i)' \/ (op[r].kind = "connect" /\ i = k)
        /\ LoadUser(w)'.default \in LoadUser(w)'.connected \cup {Nothing}
        /\ op[r].kind = "connect" =>
              con[r].account # NoAccount /\ usr[r] = With(LoadUser(w), k)
    BY <1>0, <1>2, <1>3, <1>7, IndexWritten
  <2>2. op[r].kind = "connect" => Changing(r, w, k)'
    BY <1>2, <1>3 DEF Changing
  <2>3. UserAgrees(w)'
    BY <2>1, <2>2 DEF UserAgrees
  <2>4. ReadAgrees(r, w, k)'
    BY <1>3, <2>1 DEF ReadAgrees, With
  <2> QED
    BY <2>3, <2>4
<1> QED
  BY <1>0, <1>1, <1>2, <1>3, <1>5, <1>6, <1>7, WriteStep

LEMMA StoreIndexAgainSInv ==
    ASSUME SInv, NEW r \in Request, StoreIndexAgain(r)
    PROVE  SInv'
<1>0. /\ IInv' /\ pc[r] = "again" /\ WriteIndex(r, "again")
      /\ op[r].kind \in {"connect", "settings", "defaults", "refresh"}
  BY StoreIndexAgainIInv, Writing DEF StoreIndexAgain, WriteIndex, SInv, KindAt
<1>1. /\ TypeOK /\ op[r] \in Op /\ op[r].user \in User /\ op[r].inst \in Instance
      /\ op[r].user \in UsersOf(op[r])
  BY <1>0, Writing
<1>2. PICK w \in User, k \in Instance : w = op[r].user /\ k = op[r].inst
  BY <1>1
<1>3. UNCHANGED <<conns, users, tangled, linked>>
  BY DEF StoreIndexAgain
<1>4. \/ /\ op[r].kind = "connect" /\ pc'[r] = "keep"
         /\ op' = op /\ con' = con /\ usr' = usr
      \/ op[r].kind = "settings" /\ pc'[r] = "check" /\ op' = op
      \/ op[r].kind \in {"defaults", "refresh"} /\ pc'[r] = "idle"
  BY <1>1 DEF StoreIndexAgain, End, Goto, TypeOK
<1>5. Moved(r)
  BY <1>1 DEF StoreIndexAgain, End, Goto, Moved, TypeOK
<1>6. Within(r) /\ KindAt(r)'
  BY <1>0, <1>4, <1>5 DEF Within, KindAt
<1>7. \A i \in Instance, a \in Account :
         index'[i][a] = index[i][a] \/ (i = k /\ <<i, a, w>> \in linked)
  BY <1>0, <1>2, IndexEntry
<1>8. ASSUME w \notin tangled
      PROVE  ReadAgrees(r, w, k)' /\ UserAgrees(w)'
  <2>1. /\ LoadUser(w)' = LoadUser(w)
        /\ LoadConnection(k, w)' = LoadConnection(k, w)
        /\ LoadConnection(k, w).account = con[r].account
        /\ \A i \in Instance : FoundByIndex(w, i)'
        /\ \A i \in Instance : ListAgrees(w, i)' \/ (op[r].kind = "connect" /\ i = k)
        /\ LoadUser(w)'.default \in LoadUser(w)'.connected \cup {Nothing}
        /\ op[r].kind = "connect" =>
              con[r].account # NoAccount /\ usr[r] = With(LoadUser(w), k)
    BY <1>0, <1>2, <1>3, <1>8, IndexWritten
  <2>2. op[r].kind = "connect" => Changing(r, w, k)'
    BY <1>2, <1>4 DEF Changing
  <2>3. UserAgrees(w)'
    BY <2>1, <2>2 DEF UserAgrees
  <2>4. ReadAgrees(r, w, k)'
    BY <1>4, <2>1 DEF ReadAgrees, With
  <2> QED
    BY <2>3, <2>4
<1> QED
  BY <1>0, <1>1, <1>2, <1>3, <1>4, <1>6, <1>7, <1>8, WriteStep

LEMMA UnlinkSInv ==
    ASSUME SInv, NEW r \in Request, Unlink(r)
    PROVE  SInv'
<1>0. IInv' /\ pc[r] = "unlink" /\ op[r].kind \in {"disconnect", "uninstall"}
  BY UnlinkIInv, Writing DEF Unlink, SInv, KindAt
<1>1. /\ TypeOK /\ op[r] \in Op /\ op[r].user \in User /\ op[r].inst \in Instance
      /\ op[r].user \in UsersOf(op[r])
  BY <1>0, Writing
<1>2. PICK w \in User, k \in Instance : w = op[r].user /\ k = op[r].inst
  BY <1>1
<1>3. UNCHANGED <<index, users, tangled, linked>> /\ pc'[r] = "unindex"
      /\ op' = op /\ con' = con /\ usr' = usr
  BY <1>1 DEF Unlink, Goto, TypeOK
<1>4. Moved(r)
  BY <1>1 DEF Unlink, Goto, Moved, TypeOK
<1>5. Within(r) /\ KindAt(r)'
  BY <1>0, <1>3, <1>4 DEF Within, KindAt
<1>6. \A v \in User, i \in Instance :
         conns'[i][v] = IF v = w /\ i = k THEN Nothing ELSE conns[i][v]
  BY <1>1, <1>2 DEF Unlink, TypeOK
<1>7. /\ LoadConnection(k, w)'.account = NoAccount
      /\ \A i \in Instance : i # k => LoadConnection(i, w)' = LoadConnection(i, w)
  BY <1>6 DEF LoadConnection, Zero
<1>8. LoadUser(w)' = LoadUser(w)
  BY <1>3 DEF LoadUser
<1>9. ASSUME w \notin tangled
      PROVE  ReadAgrees(r, w, k)' /\ UserAgrees(w)'
  <2>1. usr[r] = Without(LoadUser(w), k)
    BY <1>0, <1>2, <1>9, OwnReads DEF ReadAgrees
  <2>2. \A i \in Instance : ListAgrees(w, i) /\ FoundByIndex(w, i)
    BY <1>0, <1>2, <1>9, OwnAgrees DEF Changing, Indexing, Unread
  <2>3. LoadUser(w).default \in LoadUser(w).connected \cup {Nothing}
    BY <1>0, <1>2, <1>9, OwnAgrees DEF Unread
  <2>4. \A i \in Instance : i # k => ListAgrees(w, i)' /\ FoundByIndex(w, i)'
    BY <1>3, <1>7, <1>8, <2>2 DEF ListAgrees, FoundByIndex
  <2>5. Changing(r, w, k)' /\ FoundByIndex(w, k)'
    BY <1>2, <1>3, <1>7 DEF Changing, FoundByIndex
  <2>6. UserAgrees(w)'
    BY <1>8, <2>3, <2>4, <2>5 DEF UserAgrees
  <2>7. ReadAgrees(r, w, k)'
    BY <1>0, <1>3, <1>7, <1>8, <2>1 DEF ReadAgrees
  <2> QED
    BY <2>6, <2>7
<1> QED
  BY <1>0, <1>1, <1>2, <1>3, <1>5, <1>6, <1>9, WriteStep

LEMMA UnindexSInv ==
    ASSUME SInv, NEW r \in Request, Unindex(r)
    PROVE  SInv'
<1>0. IInv' /\ pc[r] = "unindex" /\ op[r].kind \in {"disconnect", "uninstall"}
  BY UnindexIInv, Writing DEF Unindex, SInv, KindAt
<1>1. /\ TypeOK /\ op[r] \in Op /\ op[r].user \in User /\ op[r].inst \in Instance
      /\ op[r].user \in UsersOf(op[r])
      /\ con[r].account \in Account \cup {NoAccount}
      /\ con[r].account # NoAccount =>
            <<op[r].inst, con[r].account, op[r].user>> \in linked
  BY <1>0, Writing
<1>2. PICK w \in User, k \in Instance : w = op[r].user /\ k = op[r].inst
  BY <1>1
<1>3. UNCHANGED <<conns, users, tangled, linked>> /\ pc'[r] = "keep"
      /\ op' = op /\ con' = con /\ usr' = usr
  BY <1>1 DEF Unindex, Goto, TypeOK
<1>4. Moved(r)
  BY <1>1 DEF Unindex, Goto, Moved, TypeOK
<1>5. Within(r) /\ KindAt(r)'
  BY <1>0, <1>3, <1>4 DEF Within, KindAt
<1>6. /\ \A i \in Instance : i # k => index'[i] = index[i]
      /\ \A a \in Account : a # con[r].account => index'[k][a] = index[k][a]
  BY <1>1, <1>2 DEF Unindex, TypeOK
<1>7. \A i \in Instance, a \in Account :
         index'[i][a] = index[i][a] \/ (i = k /\ <<i, a, w>> \in linked)
  BY <1>1, <1>2, <1>6, ConnectionsAssumption
<1>8. LoadUser(w)' = LoadUser(w) /\ \A i : LoadConnection(i, w)' = LoadConnection(i, w)
  BY <1>3, SameStore
<1>9. ASSUME w \notin tangled
      PROVE  ReadAgrees(r, w, k)' /\ UserAgrees(w)'
  <2>1. usr[r] = Without(LoadUser(w), k) /\ LoadConnection(k, w).account = NoAccount
    BY <1>0, <1>2, <1>9, OwnReads DEF ReadAgrees
  <2>2. \A i \in Instance : (ListAgrees(w, i) \/ i = k) /\ FoundByIndex(w, i)
    BY <1>0, <1>2, <1>9, OwnAgrees DEF Changing, Indexing, Unread
  <2>3. LoadUser(w).default \in LoadUser(w).connected \cup {Nothing}
    BY <1>0, <1>2, <1>9, OwnAgrees DEF Unread
  <2>4. \A i \in Instance : i # k => ListAgrees(w, i)' /\ FoundByIndex(w, i)'
    BY <1>3, <1>6, <1>8, <2>2 DEF ListAgrees, FoundByIndex
  <2>5. Changing(r, w, k)' /\ FoundByIndex(w, k)'
    BY <1>2, <1>3, <1>8, <2>1 DEF Changing, FoundByIndex
  <2>6. UserAgrees(w)'
    BY <1>8, <2>3, <2>4, <2>5 DEF UserAgrees
  <2>7. ReadAgrees(r, w, k)'
    BY <1>0, <1>3, <1>8, <2>1 DEF ReadAgrees
  <2> QED
    BY <2>6, <2>7
<1> QED
  BY <1>0, <1>1, <1>2, <1>3, <1>5, <1>7, <1>9, WriteStep

LEMMA StoreUserSInv ==
    ASSUME SInv, NEW r \in Request, StoreUser(r)
    PROVE  SInv'
<1>0. IInv' /\ pc[r] = "keep" /\ op[r].kind \in {"connect", "disconnect", "uninstall"}
  BY StoreUserIInv, Writing DEF StoreUser, SInv, KindAt
<1>1. /\ TypeOK /\ op[r] \in Op /\ op[r].user \in User /\ op[r].inst \in Instance
      /\ op[r].user \in UsersOf(op[r]) /\ usr[r] \in UserRecord
  BY <1>0, Writing
<1>2. PICK w \in User, k \in Instance : w = op[r].user /\ k = op[r].inst
  BY <1>1
<1>3. UNCHANGED <<conns, index, tangled, linked>>
  BY DEF StoreUser
<1>4. \/ op[r].kind \in {"connect", "disconnect"} /\ pc'[r] = "idle"
      \/ op[r].kind = "uninstall" /\ pc'[r] = "next" /\ op' = op
  BY <1>1 DEF StoreUser, End, Goto, TypeOK
<1>5. Moved(r)
  BY <1>1 DEF StoreUser, End, Goto, Moved, TypeOK
<1>6. Within(r) /\ KindAt(r)'
  BY <1>0, <1>4, <1>5 DEF Within, KindAt
<1>7. \A v \in User \ {w} : users'[v] = users[v]
  BY <1>1, <1>2 DEF StoreUser, TypeOK
<1>8. LoadUser(w)' = usr[r]
  <2>1. users'[w] = usr[r]
    BY <1>1, <1>2 DEF StoreUser, TypeOK
  <2> QED
    BY <1>1, <2>1, ConnectionsAssumption DEF LoadUser
<1>9. \A i : LoadConnection(i, w)' = LoadConnection(i, w)
  BY <1>3 DEF LoadConnection
<1>10. ASSUME w \notin tangled PROVE UserAgrees(w)'
  <2>1. \A i \in Instance : (ListAgrees(w, i) \/ i = k) /\ FoundByIndex(w, i)
    BY <1>0, <1>2, <1>10, OwnAgrees DEF Changing, Indexing, Unread
  <2>2. LoadUser(w).default \in LoadUser(w).connected \cup {Nothing}
    BY <1>0, <1>2, <1>10, OwnAgrees DEF Unread
  <2>3. LoadUser(w) \in UserRecord
    BY <1>1, ReadOK DEF SInv
  <2>4. \A i \in Instance : FoundByIndex(w, i)'
    BY <1>3, <1>9, <2>1 DEF FoundByIndex
  <2>5. CASE op[r].kind = "connect"
    <3>1. usr[r] = With(LoadUser(w), k) /\ LoadConnection(k, w).account # NoAccount
      BY <1>0, <1>2, <1>10, <2>5, OwnReads DEF ReadAgrees
    <3>2. usr[r].connected = LoadUser(w).connected \cup {k} /\ usr[r].default = LoadUser(w).default
      BY <2>3, <3>1 DEF With, UserRecord
    <3>3. \A i \in Instance : ListAgrees(w, i)'
      BY <1>8, <1>9, <2>1, <3>1, <3>2 DEF ListAgrees
    <3> QED
      BY <1>8, <2>2, <2>4, <3>2, <3>3 DEF UserAgrees
  <2>6. CASE op[r].kind # "connect"
    <3>1. usr[r] = Without(LoadUser(w), k) /\ LoadConnection(k, w).account = NoAccount
      BY <1>0, <1>2, <1>10, <2>6, OwnReads DEF ReadAgrees
    <3>2. /\ usr[r].connected = LoadUser(w).connected \ {k}
          /\ usr[r].default = IF LoadUser(w).default = k THEN Nothing ELSE LoadUser(w).default
      BY <3>1 DEF Without
    <3>3. \A i \in Instance : ListAgrees(w, i)'
      BY <1>8, <1>9, <2>1, <3>1, <3>2 DEF ListAgrees
    <3> QED
      BY <1>8, <2>2, <2>4, <3>2, <3>3 DEF UserAgrees
  <2> QED
    BY <2>5, <2>6
<1>11. pc'[r] # "idle" => ReadAgrees(r, w, k)'
  BY <1>4 DEF ReadAgrees
<1> QED
  BY <1>0, <1>1, <1>2, <1>3, <1>4, <1>6, <1>7, <1>10, <1>11, WriteStep

LEMMA NextSInv == SInv /\ [Next]_vars => SInv'
<1> SUFFICES ASSUME SInv, [Next]_vars PROVE SInv'
  OBVIOUS
<1>1. ASSUME UNCHANGED vars PROVE SInv'
  <2> USE <1>1 DEF vars, store, request
  <2>1. IInv'
    BY NextIInv DEF SInv
  <2>2. Exclusive' /\ \A r \in Request : KindAt(r)'
    BY DEF SInv, Exclusive, Active, KindAt
  <2>3. \A u : LoadUser(u)' = LoadUser(u) /\ \A i : LoadConnection(i, u)' = LoadConnection(i, u)
    BY SameStore
  <2>4. ASSUME NEW u \in User \ tangled' PROVE UserAgrees(u)'
    <3>1. UserAgrees(u)
      BY DEF SInv
    <3> QED
      BY <2>3, <3>1 DEF UserAgrees, ListAgrees, FoundByIndex, Changing, Indexing
  <2>5. ASSUME NEW r \in Request, pc'[r] # "idle" PROVE RequestAgrees(r)'
    <3>1. PICK u, i : u = op[r].user /\ i = op[r].inst
      OBVIOUS
    <3>2. u \notin tangled => ReadAgrees(r, u, i)
      BY <2>5, <3>1 DEF SInv, RequestAgrees
    <3>3. u \notin tangled' => ReadAgrees(r, u, i)'
      BY <2>3, <3>2 DEF ReadAgrees
    <3> QED
      BY <3>1, <3>3 DEF RequestAgrees
  <2> QED
    BY <2>1, <2>2, <2>4, <2>5 DEF SInv
<1>2. ASSUME NEW r \in Request,
             \/ \E o \in Arriving : Submit(r, o)
             \/ Break(r) \/ SkipUser(r) \/ Resolve(r) \/ LoadInstance(r)
             \/ ReadUser(r) \/ ReadConnection(r)
      PROVE  SInv'
  BY <1>2, SubmitSInv, BreakSInv, ResolveSInv, LoadInstanceSInv, ReadUserSInv,
     ReadConnectionSInv
<1>3. ASSUME NEW r \in Request,
             \/ StoreDefault(r) \/ StoreConnection(r) \/ StoreIndex(r)
             \/ StoreIndexAgain(r) \/ CheckSettings(r)
      PROVE  SInv'
  BY <1>3, StoreDefaultSInv, StoreConnectionSInv, StoreIndexSInv, StoreIndexAgainSInv,
     CheckSettingsSInv
<1>4. ASSUME NEW r \in Request,
             \/ DeleteConnection(r) \/ Unlink(r) \/ Unindex(r) \/ StoreUser(r)
             \/ ListKeys(r) \/ NextUser(r) \/ NextPage(r) \/ Remove(r) \/ Install(r)
      PROVE  SInv'
  BY <1>4, DeleteConnectionSInv, UnlinkSInv, UnindexSInv, StoreUserSInv, PageSInv,
     NextUserSInv, RemoveInstallSInv
<1> QED
  BY <1>1, <1>2, <1>3, <1>4 DEF Next

(* The list, the connections and the index of a user whose requests come   *)
(* one after the other agree but for what the request in progress is       *)
(* changing, and that request has read what is stored: for any number of   *)
(* instances, users and requests, whatever the other users do.             *)
THEOREM ListsConsistency == Spec => []SInv
<1> QED
  BY InitSInv, NextSInv, PTL DEF Spec

\* Of a user who is settled nothing is being changed.
LEMMA SettledStill ==
    ASSUME SInv, NEW u \in Settled
    PROVE  u \in User \ tangled /\ UserAgrees(u)
           /\ \A i \in Instance : ListAgrees(u, i) /\ FoundByIndex(u, i)
<1>1. u \in User \ tangled
  BY DEF Settled
<1>2. ASSUME NEW r \in Request, NEW i \in Instance, Changing(r, u, i) \/ Indexing(r, u, i)
      PROVE  FALSE
  <2>1. r \in Active /\ u \in UsersOf(op[r])
    BY <1>2, OnUser DEF Changing, Indexing, Unread, Active
  <2> QED
    BY <2>1 DEF Settled
<1> QED
  BY <1>1, <1>2 DEF SInv, UserAgrees

(* connectUser and disconnectUser keep the list of a user, the connections *)
(* and the default instance in agreement.                                  *)
THEOREM ListsAlwaysAgree == Spec => []ListsAgree
<1>1. SInv => ListsAgree
  BY SettledStill DEF ListsAgree, ListAgrees, UserAgrees
<1> QED
  BY <1>1, ListsConsistency, PTL

(* A connected user is found by their account, for notifications, unless   *)
(* somebody else proved to have it, too.                                   *)
THEOREM AlwaysFound == Spec => []NotificationsArrive
<1>1. SInv => NotificationsArrive
  BY SettledStill DEF NotificationsArrive, FoundByIndex
<1> QED
  BY <1>1, ListsConsistency, PTL

-----------------------------------------------------------------------------
(* The users of an instance that is uninstalled                            *)

\* Where an uninstall disconnects a user
Disconnecting == {"delete", "unlink", "unindex", "keep"}

\* An uninstall has all users who are connected in its one page.
UninstallSees(r) ==
    op[r].kind = "uninstall" =>
        /\ pc[r] = "list" => page[r] = 0
        /\ pc[r] \in Disconnecting \cup {"next", "remove"} =>
              /\ page[r] = Nothing
              /\ \A u \in User \ tangled :
                    op[r].inst \in LoadUser(u).connected =>
                        u \in todo[r] \/ (pc[r] \in Disconnecting /\ u = op[r].user)
        /\ pc[r] = "remove" => todo[r] = {}

ConnectsInstalled(r) ==
    pc[r] \in {"user", "store", "index", "again", "keep"} /\ op[r].kind = "connect"
        /\ op[r].user \notin tangled => op[r].inst \in installed

(* The inductive invariant of an uninstall: nobody is connected to what is *)
(* not installed, or about to be, and what is being removed has no users   *)
(* but those the uninstall has yet to see.                                 *)
UInv ==
    /\ SInv
    /\ \A u \in User \ tangled : LoadUser(u).connected \subseteq installed
    /\ \A r \in Request : pc[r] # "idle" => UninstallSees(r) /\ ConnectsInstalled(r)

\* All keys of the store fit on one page of ListKeys.
OnePage ==
    /\ IsFiniteSet(Instance) /\ IsFiniteSet(User) /\ IsFiniteSet(Account)
    /\ OtherKeys + Cardinality(Instance) * Cardinality(User)
                 + Cardinality(Instance) * Cardinality(Account \cup {NoAccount})
                 + Cardinality(User) < ListPerPage

LEMMA FirstPage ==
    ASSUME OnePage
    PROVE  UsersOfPage(0) = Stored /\ LastPage(0)
<1> USE ConnectionsAssumption
<1> DEFINE A == Account \cup {NoAccount}
<1>1. IsFiniteSet(A)
  BY FS_AddElement DEF OnePage
<1>2. /\ IsFiniteSet(Instance \X User)
      /\ Cardinality(Instance \X User) = Cardinality(Instance) * Cardinality(User)
  BY FS_Product DEF OnePage
<1>3. /\ IsFiniteSet(Instance \X A)
      /\ Cardinality(Instance \X A) = Cardinality(Instance) * Cardinality(A)
  BY <1>1, FS_Product DEF OnePage
<1>4. /\ Connections \subseteq Instance \X User
      /\ Indexed \subseteq Instance \X A
      /\ Stored \subseteq User
  BY DEF Connections, Indexed, Stored
<1> HIDE DEF A
<1>5. /\ Cardinality(Instance \X User) \in Nat
      /\ Cardinality(Instance \X A) \in Nat
      /\ Cardinality(User) \in Nat
  BY <1>2, <1>3, FS_CardinalityType DEF OnePage
<1>6. /\ Cardinality(Connections) \in Nat
      /\ Cardinality(Connections) <= Cardinality(Instance \X User)
  BY <1>2, <1>4, FS_Subset, FS_CardinalityType
<1>7. /\ Cardinality(Indexed) \in Nat
      /\ Cardinality(Indexed) <= Cardinality(Instance \X A)
  BY <1>3, <1>4, FS_Subset, FS_CardinalityType
<1>8. \A S \in SUBSET User : Cardinality(S) \in Nat /\ Cardinality(S) <= Cardinality(User)
  BY FS_Subset, FS_CardinalityType DEF OnePage
<1>9. OtherKeys + Cardinality(Instance \X User) + Cardinality(Instance \X A)
         + Cardinality(User) < ListPerPage
  BY <1>2, <1>3 DEF OnePage, A
<1>10. Earlier \in Nat /\ \A S \in SUBSET User : Earlier + Cardinality(S) < ListPerPage
  BY <1>5, <1>6, <1>7, <1>8, <1>9 DEF Earlier
<1>11. 0 * ListPerPage = 0 /\ (0 + 1) * ListPerPage = ListPerPage
  OBVIOUS
<1>12. LastPage(0)
  BY <1>4, <1>10, <1>11 DEF LastPage
<1>13. ASSUME NEW u \in Stored
       PROVE  LET pos == Earlier + Cardinality({v \in Stored : v < u})
              IN  0 * ListPerPage <= pos /\ pos < (0 + 1) * ListPerPage
  <2>1. {v \in Stored : v < u} \in SUBSET User
    BY <1>4
  <2> HIDE DEF Stored
  <2> QED
    BY <1>8, <1>10, <1>11, <2>1
<1>14. UsersOfPage(0) = Stored
  BY <1>13 DEF UsersOfPage
<1> QED
  BY <1>12, <1>14

LEMMA InitUInv == Init => UInv
<1> SUFFICES ASSUME Init PROVE UInv
  OBVIOUS
<1>1. \A u \in User : LoadUser(u).connected = {}
  BY DEF Init, LoadUser, NewUser
<1>2. \A r \in Request : pc[r] = "idle"
  BY DEF Init
<1> QED
  BY <1>1, <1>2, InitSInv DEF UInv

(* Nobody but the request in question connects a user it works on, or      *)
(* removes the instance it works on.                                       *)
LEMMA UninstallStep ==
    ASSUME UInv, SInv', NEW r \in Request, Moved(r),
           \A v \in User \ tangled' :
              \/ LoadUser(v)'.connected \subseteq LoadUser(v).connected
              \/ pc[r] # "idle" /\ v \in UsersOf(op[r]),
           \/ installed \subseteq installed'
           \/ pc[r] # "idle" /\ op[r].kind = "uninstall",
           \A v \in User \ tangled' : LoadUser(v)'.connected \subseteq installed',
           pc'[r] # "idle" => UninstallSees(r)' /\ ConnectsInstalled(r)'
    PROVE  UInv'
<1>1. ASSUME NEW q \in Request, q # r, pc'[q] # "idle"
      PROVE  UninstallSees(q)' /\ ConnectsInstalled(q)'
  <2>1. /\ pc'[q] = pc[q] /\ op'[q] = op[q] /\ todo'[q] = todo[q] /\ page'[q] = page[q]
        /\ pc[q] # "idle" /\ tangled \subseteq tangled'
        /\ UninstallSees(q) /\ ConnectsInstalled(q)
    BY <1>1 DEF Moved, UInv
  <2>2. \A v \in User \ tangled' :
           ~(pc[r] # "idle" /\ v \in UsersOf(op[r]) /\ v \in UsersOf(op[q]))
    BY <1>1, <2>1 DEF UInv, SInv, Exclusive, Active
  <2>3. UninstallSees(q)'
    <3>1. CASE op[q].kind = "uninstall"
      <4>1. \A v \in User \ tangled' : LoadUser(v)'.connected \subseteq LoadUser(v).connected
        BY <2>2, <3>1 DEF UsersOf
      <4> QED
        BY <2>1, <3>1, <4>1 DEF UninstallSees, Disconnecting
    <3>2. CASE op[q].kind # "uninstall"
      BY <2>1, <3>2 DEF UninstallSees
    <3> QED
      BY <3>1, <3>2
  <2>4. ConnectsInstalled(q)'
    <3> SUFFICES ASSUME pc[q] \in {"user", "store", "index", "again", "keep"},
                        op[q].kind = "connect", op[q].user \notin tangled'
                 PROVE  op[q].inst \in installed'
      BY <2>1 DEF ConnectsInstalled
    <3>1. op[q].user \in User /\ op[q].user \in UsersOf(op[q])
      BY OnUser DEF UInv, Unread
    <3>2. ~(pc[r] # "idle" /\ op[r].kind = "uninstall")
      BY <2>2, <3>1 DEF UsersOf
    <3> QED
      BY <2>1, <3>2 DEF ConnectsInstalled
  <2> QED
    BY <2>3, <2>4
<1> QED
  BY <1>1 DEF UInv

\* A step that stores no user and removes no instance
LEMMA UninstallQuiet ==
    ASSUME UInv, SInv', NEW r \in Request, Moved(r),
           users' = users, installed \subseteq installed',
           pc'[r] # "idle" => UninstallSees(r)' /\ ConnectsInstalled(r)'
    PROVE  UInv'
<1>1. \A v : LoadUser(v)' = LoadUser(v)
  BY DEF LoadUser
<1>2. \A v \in User \ tangled' : LoadUser(v)'.connected \subseteq installed'
  BY <1>1 DEF UInv, Moved
<1> QED
  BY <1>1, <1>2, UninstallStep

\* A request that ends, or neither connects nor uninstalls
LEMMA UninstallElsewhere ==
    ASSUME UInv, SInv', NEW r \in Request, Moved(r),
           users' = users, installed \subseteq installed',
           pc'[r] = "idle" \/ op'[r].kind \notin {"connect", "uninstall"}
    PROVE  UInv'
<1>1. pc'[r] # "idle" => UninstallSees(r)' /\ ConnectsInstalled(r)'
  BY DEF UninstallSees, ConnectsInstalled
<1> QED
  BY <1>1, UninstallQuiet

\* A connect, or an uninstall that disconnects a user, which goes on to the
\* next call of the store
LEMMA UninstallGoesOn ==
    ASSUME UInv, SInv', NEW r \in Request, Moved(r),
           users' = users, installed' = installed, pc[r] # "idle",
           op'[r] = op[r], todo'[r] = todo[r], page'[r] = page[r],
           op[r].kind = "uninstall" => pc[r] \in Disconnecting /\ pc'[r] \in Disconnecting,
           op[r].kind = "connect" => pc[r] \in {"user", "store", "index", "again", "keep"}
    PROVE  UInv'
<1>1. UninstallSees(r) /\ ConnectsInstalled(r)
  BY DEF UInv
<1>2. \A v : LoadUser(v)' = LoadUser(v)
  BY DEF LoadUser
<1>3. UninstallSees(r)'
  BY <1>1, <1>2 DEF UninstallSees, Disconnecting, Moved
<1>4. ConnectsInstalled(r)'
  BY <1>1 DEF ConnectsInstalled, Moved
<1> QED
  BY <1>3, <1>4, UninstallQuiet

LEMMA SubmitUInv ==
    ASSUME UInv, NEW r \in Request, NEW o \in Arriving, Submit(r, o)
    PROVE  UInv'
<1>0. TypeOK /\ SInv /\ o \in Op
  BY DEF UInv, SInv, IInv, Arriving
<1>1. SInv'
  BY <1>0, SubmitSInv
<1>2. pc'[r] = First(o) /\ op'[r] = o
  BY <1>0 DEF Submit, Goto, TypeOK
<1>3. Moved(r) /\ users' = users /\ installed' = installed
  BY <1>0 DEF Submit, Goto, Moved, TypeOK, store
<1>4. o.kind \in Kind
  BY <1>0 DEF Op
<1>5. o.kind \in {"connect", "uninstall"} => First(o) = "instance"
  BY <1>4, ConnectionsAssumption DEF First
<1>6. UninstallSees(r)' /\ ConnectsInstalled(r)'
  BY <1>2, <1>5 DEF UninstallSees, ConnectsInstalled, Disconnecting
<1> QED
  BY <1>1, <1>3, <1>6, UninstallQuiet

LEMMA BreakUInv ==
    ASSUME UInv, NEW r \in Request, Break(r) \/ SkipUser(r)
    PROVE  UInv'
<1>0. TypeOK /\ SInv /\ SInv'
  BY BreakSInv DEF UInv, SInv, IInv
<1>1. CASE Break(r)
  <2>1. Moved(r) /\ pc'[r] = "idle" /\ users' = users /\ installed' = installed
    BY <1>0, <1>1 DEF Break, End, Goto, Moved, TypeOK, store
  <2> QED
    BY <1>0, <2>1, UninstallElsewhere
<1>2. CASE SkipUser(r)
  <2>1. Moved(r) /\ users' = users /\ installed' = installed
    BY <1>0, <1>2 DEF SkipUser, Goto, Moved, TypeOK, store
  <2>2. /\ pc[r] \in Disconnecting /\ pc'[r] = "next" /\ op[r].kind = "uninstall"
        /\ op' = op /\ todo' = todo /\ page' = page /\ tangled' = tangled \cup {op[r].user}
    BY <1>0, <1>2 DEF SkipUser, Goto, TypeOK, Disconnecting
  <2>3. UninstallSees(r) /\ pc[r] # "idle"
    BY <2>2 DEF UInv, Disconnecting
  <2>4. \A v : LoadUser(v)' = LoadUser(v)
    BY <2>1 DEF LoadUser
  <2>5. UninstallSees(r)' /\ ConnectsInstalled(r)'
    BY <2>2, <2>3, <2>4 DEF UninstallSees, ConnectsInstalled, Disconnecting
  <2> QED
    BY <1>0, <2>1, <2>5, UninstallQuiet
<1> QED
  BY <1>1, <1>2

LEMMA ResolveUInv ==
    ASSUME UInv, NEW r \in Request, Resolve(r)
    PROVE  UInv'
<1>0. TypeOK /\ SInv /\ SInv' /\ op[r] \in Op /\ op[r].kind \in {"disconnect", "settings"}
  BY ResolveSInv, OnUser DEF Resolve, UInv, SInv, IInv, KindAt, Unread
<1>1. Moved(r) /\ users' = users /\ installed' = installed
  BY <1>0 DEF Resolve, End, Goto, Moved, TypeOK, store
<1>2. pc'[r] = "idle" \/ op'[r].kind = op[r].kind
  <2>1. CASE End(r)
    BY <1>0, <2>1 DEF End, Goto, TypeOK
  <2>2. CASE ~End(r)
    <3>1. PICK i : op' = [op EXCEPT ![r].inst = i]
      BY <2>2 DEF Resolve
    <3>2. op'[r] = [op[r] EXCEPT !.inst = i]
      BY <1>0, <3>1 DEF TypeOK
    <3> QED
      BY <1>0, <3>2 DEF Op
  <2> QED
    BY <2>1, <2>2
<1> QED
  BY <1>0, <1>1, <1>2, UninstallElsewhere

LEMMA LoadInstanceUInv ==
    ASSUME UInv, NEW r \in Request, LoadInstance(r)
    PROVE  UInv'
<1>0. TypeOK /\ SInv /\ SInv' /\ pc[r] = "instance"
  BY LoadInstanceSInv DEF LoadInstance, UInv, SInv, IInv
<1>1. Moved(r) /\ users' = users /\ installed' = installed
  BY <1>0 DEF LoadInstance, End, Goto, Moved, TypeOK, store
<1>2. CASE pc'[r] = "idle" \/ op'[r].kind \notin {"connect", "uninstall"}
  BY <1>0, <1>1, <1>2, UninstallElsewhere
<1>3. CASE pc'[r] # "idle" /\ op'[r].kind \in {"connect", "uninstall"}
  <2>1. ~End(r)
    BY <1>0, <1>3 DEF End, Goto, TypeOK
  <2>2. op' = op /\ op[r].kind \in {"connect", "uninstall"} /\ op[r].inst \in installed
    BY <1>3, <2>1 DEF LoadInstance
  <2>3. \/ op[r].kind = "connect" /\ pc'[r] = "user"
        \/ op[r].kind = "uninstall" /\ pc'[r] = "list" /\ page'[r] = 0
    BY <1>0, <2>1, <2>2 DEF LoadInstance, Goto, TypeOK
  <2>4. UninstallSees(r)' /\ ConnectsInstalled(r)'
    BY <1>1, <2>2, <2>3 DEF UninstallSees, ConnectsInstalled, Disconnecting
  <2> QED
    BY <1>0, <1>1, <2>4, UninstallQuiet
<1> QED
  BY <1>2, <1>3

LEMMA ReadUserUInv ==
    ASSUME UInv, NEW r \in Request, ReadUser(r)
    PROVE  UInv'
<1>0. TypeOK /\ SInv /\ SInv' /\ pc[r] = "user"
  BY ReadUserSInv DEF ReadUser, UInv, SInv, IInv
<1>1. Moved(r) /\ users' = users /\ installed' = installed
  BY <1>0 DEF ReadUser, End, Goto, Moved, TypeOK, store
<1>2. CASE End(r)
  <2>1. pc'[r] = "idle"
    BY <1>0, <1>2 DEF End, Goto, TypeOK
  <2> QED
    BY <1>0, <1>1, <2>1, UninstallElsewhere
<1>3. CASE ~End(r)
  <2>1. op' = op /\ todo' = todo /\ page' = page /\ op[r].kind \in {"connect", "defaults"}
    BY <1>3 DEF ReadUser
  <2> QED
    BY <1>0, <1>1, <2>1, UninstallGoesOn
<1> QED
  BY <1>2, <1>3

\* The actions of the other commands, which store no user
LEMMA ReadConnectionUInv ==
    ASSUME UInv, NEW r \in Request, ReadConnection(r) \/ CheckSettings(r)
    PROVE  UInv'
<1>0. TypeOK /\ SInv /\ SInv'
  BY ReadConnectionSInv, CheckSettingsSInv DEF UInv, SInv, IInv
<1>1. Moved(r) /\ users' = users /\ installed' = installed
  <2>1. CASE ReadConnection(r)
    BY <1>0, <2>1 DEF ReadConnection, ReadSettings, RefreshToken, ReadDefaults, End, Goto,
                      Moved, TypeOK, store
  <2>2. CASE CheckSettings(r)
    BY <1>0, <2>2 DEF CheckSettings, End, Goto, Moved, TypeOK, store
  <2> QED
    BY <2>1, <2>2
<1>2. CASE End(r)
  <2>1. pc'[r] = "idle"
    BY <1>0, <1>2 DEF End, Goto, TypeOK
  <2> QED
    BY <1>0, <1>1, <2>1, UninstallElsewhere
<1>3. CASE ~End(r)
  <2>1. CASE ReadConnection(r)
    <3>1. op' = op /\ op[r].kind \notin {"connect", "uninstall"}
      BY <1>3, <2>1 DEF ReadConnection, ReadSettings, RefreshToken, ReadDefaults
    <3> QED
      BY <1>0, <1>1, <3>1, UninstallElsewhere
  <2>2. CASE CheckSettings(r)
    <3>1. pc[r] = "check" /\ pc'[r] = "panic" /\ op' = op /\ todo' = todo /\ page' = page
      BY <1>0, <1>3, <2>2 DEF CheckSettings, Goto, TypeOK
    <3>2. UninstallSees(r)' /\ ConnectsInstalled(r)'
      BY <3>1 DEF UninstallSees, ConnectsInstalled, Disconnecting
    <3> QED
      BY <1>0, <1>1, <3>2, UninstallQuiet
  <2> QED
    BY <2>1, <2>2
<1> QED
  BY <1>2, <1>3

LEMMA StoreConnectionUInv ==
    ASSUME UInv, NEW r \in Request,
           StoreConnection(r) \/ StoreIndex(r) \/ StoreIndexAgain(r)
    PROVE  UInv'
<1>0. TypeOK /\ SInv /\ SInv' /\ pc[r] \in {"store", "index", "again"}
  BY StoreConnectionSInv, StoreIndexSInv, StoreIndexAgainSInv
     DEF StoreConnection, StoreIndex, StoreIndexAgain, WriteIndex, UInv, SInv, IInv
<1>1. Moved(r) /\ users' = users /\ installed' = installed
  BY <1>0 DEF StoreConnection, StoreIndex, StoreIndexAgain, WriteIndex, End, Goto, Moved, TypeOK
<1>2. CASE pc'[r] = "idle"
  BY <1>0, <1>1, <1>2, UninstallElsewhere
<1>3. CASE pc'[r] # "idle"
  <2>1. op' = op /\ todo' = todo /\ page' = page
    BY <1>0, <1>3 DEF StoreConnection, StoreIndex, StoreIndexAgain, End, Goto, TypeOK
  <2>2. op[r].kind # "uninstall"
    BY <1>0 DEF SInv, KindAt
  <2> QED
    BY <1>0, <1>1, <2>1, <2>2, UninstallGoesOn
<1> QED
  BY <1>2, <1>3

LEMMA DeleteConnectionUInv ==
    ASSUME UInv, NEW r \in Request, DeleteConnection(r) \/ Unlink(r) \/ Unindex(r)
    PROVE  UInv'
<1>0. TypeOK /\ SInv /\ SInv' /\ pc[r] \in {"delete", "unlink", "unindex"}
  BY DeleteConnectionSInv, UnlinkSInv, UnindexSInv
     DEF DeleteConnection, Unlink, Unindex, UInv, SInv, IInv
<1>1. Moved(r) /\ users' = users /\ installed' = installed
  BY <1>0 DEF DeleteConnection, Unlink, Unindex, Goto, Moved, TypeOK, store
<1>2. /\ op' = op /\ todo' = todo /\ page' = page
      /\ pc[r] \in Disconnecting /\ pc'[r] \in Disconnecting
  BY <1>0 DEF DeleteConnection, Unlink, Unindex, Goto, TypeOK, Disconnecting
<1>3. op[r].kind # "connect"
  BY <1>0 DEF SInv, KindAt
<1> QED
  BY <1>0, <1>1, <1>2, <1>3, UninstallGoesOn

\* The one page of an uninstall has every user that is connected.
LEMMA ListKeysUInv ==
    ASSUME OnePage, UInv, NEW r \in Request, ListKeys(r)
    PROVE  UInv'
<1>0. /\ TypeOK /\ SInv /\ SInv' /\ pc[r] = "list" /\ op[r].kind = "uninstall"
      /\ UninstallSees(r)
  BY PageSInv DEF ListKeys, UInv, SInv, IInv, KindAt
<1>1. Moved(r) /\ users' = users /\ installed' = installed
  BY <1>0 DEF ListKeys, Goto, Moved, TypeOK, store
<1>2. page[r] = 0
  BY <1>0 DEF UninstallSees
<1>3. pc'[r] = "next" /\ op' = op /\ todo'[r] = Stored /\ page'[r] = Nothing
  BY <1>0, <1>2, FirstPage DEF ListKeys, Goto, TypeOK
<1>4. ASSUME NEW u \in User, op[r].inst \in LoadUser(u)'.connected PROVE u \in Stored
  BY <1>1, <1>4 DEF LoadUser, NewUser, Stored
<1>5. UninstallSees(r)' /\ ConnectsInstalled(r)'
  BY <1>3, <1>4 DEF UninstallSees, ConnectsInstalled, Disconnecting
<1> QED
  BY <1>0, <1>1, <1>5, UninstallQuiet

LEMMA NextUserUInv ==
    ASSUME UInv, NEW r \in Request, NextUser(r)
    PROVE  UInv'
<1>0. /\ TypeOK /\ SInv /\ SInv' /\ pc[r] = "next" /\ op[r] \in Op /\ op[r].kind = "uninstall"
      /\ UninstallSees(r)
  BY NextUserSInv, KnownKey DEF NextUser, UInv, SInv, IInv, KindAt
<1>1. Moved(r) /\ users' = users /\ installed' = installed /\ tangled' = tangled
  BY <1>0 DEF NextUser, Goto, Moved, TypeOK, store
<1>2. PICK i : i = op[r].inst
  OBVIOUS
<1>3. PICK u \in todo[r] :
         /\ op' = [op EXCEPT ![r].user = u]
         /\ todo' = [todo EXCEPT ![r] = @ \ {u}]
         /\ Goto(r, IF i \in LoadUser(u).connected THEN "delete" ELSE "next")
  BY <1>2 DEF NextUser
<1>4. op'[r] = [op[r] EXCEPT !.user = u]
  BY <1>0, <1>3 DEF TypeOK
<1>5. op'[r].kind = "uninstall" /\ op'[r].user = u /\ op'[r].inst = i
  BY <1>0, <1>2, <1>4 DEF Op
<1>6. /\ todo'[r] = todo[r] \ {u} /\ page'[r] = page[r]
      /\ pc'[r] = IF i \in LoadUser(u).connected THEN "delete" ELSE "next"
  BY <1>0, <1>3 DEF NextUser, Goto, TypeOK
<1>7. \A v : LoadUser(v)' = LoadUser(v)
  BY <1>1 DEF LoadUser
<1>8. /\ page[r] = Nothing
      /\ \A v \in User \ tangled : i \in LoadUser(v).connected => v \in todo[r]
  BY <1>0, <1>2 DEF UninstallSees, Disconnecting
<1>9. UninstallSees(r)' /\ ConnectsInstalled(r)'
  BY <1>1, <1>5, <1>6, <1>7, <1>8 DEF UninstallSees, ConnectsInstalled, Disconnecting
<1> QED
  BY <1>0, <1>1, <1>9, UninstallQuiet

LEMMA NextPageUInv ==
    ASSUME UInv, NEW r \in Request, NextPage(r)
    PROVE  UInv'
<1>0. /\ TypeOK /\ SInv /\ SInv' /\ pc[r] = "next" /\ op[r].kind = "uninstall"
      /\ UninstallSees(r) /\ todo[r] = {}
  BY PageSInv DEF NextPage, UInv, SInv, IInv, KindAt
<1>1. Moved(r) /\ users' = users /\ installed' = installed /\ tangled' = tangled
  BY <1>0 DEF NextPage, Goto, Moved, TypeOK, store
<1>2. pc'[r] = "remove" /\ op' = op /\ todo' = todo /\ page' = page
  BY <1>0 DEF NextPage, Goto, UninstallSees, TypeOK
<1>3. \A v : LoadUser(v)' = LoadUser(v)
  BY <1>1 DEF LoadUser
<1>4. UninstallSees(r)' /\ ConnectsInstalled(r)'
  BY <1>0, <1>1, <1>2, <1>3 DEF UninstallSees, ConnectsInstalled, Disconnecting
<1> QED
  BY <1>0, <1>1, <1>4, UninstallQuiet

\* An instance that is removed has no users left who are not tangled.
LEMMA RemoveInstallUInv ==
    ASSUME UInv, NEW r \in Request, Remove(r) \/ Install(r)
    PROVE  UInv'
<1>0. TypeOK /\ SInv /\ SInv' /\ pc[r] \in {"remove", "install"}
  BY RemoveInstallSInv DEF Remove, Install, UInv, SInv, IInv
<1>1. Moved(r) /\ pc'[r] = "idle" /\ users' = users /\ tangled' = tangled
  BY <1>0 DEF Remove, Install, End, Goto, Moved, TypeOK
<1>2. CASE Install(r)
  BY <1>0, <1>1, <1>2, UninstallElsewhere DEF Install
<1>3. CASE Remove(r)
  <2>1. pc[r] = "remove" /\ op[r].kind = "uninstall" /\ installed' = installed \ {op[r].inst}
    BY <1>0, <1>3 DEF Remove, SInv, KindAt
  <2>2. \A v \in User \ tangled : op[r].inst \notin LoadUser(v).connected
    BY <2>1 DEF UInv, UninstallSees, Disconnecting
  <2>3. \A v : LoadUser(v)' = LoadUser(v)
    BY <1>1 DEF LoadUser
  <2>4. \A v \in User \ tangled' : LoadUser(v)'.connected \subseteq installed'
    BY <1>1, <2>1, <2>2, <2>3 DEF UInv
  <2> QED
    BY <1>0, <1>1, <2>1, <2>3, <2>4, UninstallStep
<1> QED
  BY <1>2, <1>3

LEMMA StoreDefaultUInv ==
    ASSUME UInv, NEW r \in Request, StoreDefault(r)
    PROVE  UInv'
<1>0. SInv /\ SInv' /\ pc[r] = "default" /\ op[r].kind = "defaults"
  BY StoreDefaultSInv DEF StoreDefault, UInv, SInv, KindAt
<1>1. /\ TypeOK /\ op[r].user \in User /\ op[r].user \in UsersOf(op[r]) /\ pc[r] # "idle"
  BY <1>0, Writing
<1>2. Moved(r) /\ installed' = installed /\ tangled' = tangled
  BY <1>1 DEF StoreDefault, End, Goto, Moved, TypeOK
<1>3. pc'[r] = "idle" \/ op'[r] = op[r]
  BY <1>1 DEF StoreDefault, End, Goto, TypeOK
<1>4. PICK w, k : w \in User /\ w = op[r].user /\ k = op[r].inst
  BY <1>1
<1>5. ASSUME NEW v \in User \ tangled PROVE LoadUser(v)'.connected = LoadUser(v).connected
  <2>1. CASE v = w /\ usr[r].default # k
    <3>1. usr[r] = LoadUser(w) /\ usr[r] \in UserRecord
      BY <1>0, <1>1, <1>4, <2>1, OwnReads, Writing DEF ReadAgrees
    <3>2. users'[w] = [usr[r] EXCEPT !.default = k]
      BY <1>1, <1>4, <2>1 DEF StoreDefault, TypeOK
    <3>3. users'[w].connected = usr[r].connected
      BY <3>1, <3>2 DEF UserRecord
    <3>4. users'[w] # Nothing
      <4>1. [usr[r] EXCEPT !.default = k] \in UserRecord
        BY <1>0, <1>4, <3>1, Writing DEF UserRecord
      <4> QED
        BY <3>2, <4>1, ConnectionsAssumption
    <3> QED
      BY <2>1, <3>1, <3>3, <3>4 DEF LoadUser
  <2>2. CASE ~(v = w /\ usr[r].default # k)
    <3>1. users'[v] = users[v]
      BY <1>1, <1>4, <2>2 DEF StoreDefault, TypeOK
    <3> QED
      BY <3>1 DEF LoadUser
  <2> QED
    BY <2>1, <2>2
<1>6. \A v \in User \ tangled' : LoadUser(v)'.connected \subseteq installed'
  BY <1>2, <1>5 DEF UInv
<1>7. pc'[r] # "idle" => UninstallSees(r)' /\ ConnectsInstalled(r)'
  BY <1>0, <1>3 DEF UninstallSees, ConnectsInstalled
<1> QED
  BY <1>0, <1>2, <1>5, <1>6, <1>7, UninstallStep

LEMMA StoreUserUInv ==
    ASSUME UInv, NEW r \in Request, StoreUser(r)
    PROVE  UInv'
<1>0. /\ SInv /\ SInv' /\ pc[r] = "keep" /\ op[r].kind \in {"connect", "disconnect", "uninstall"}
      /\ pc[r] # "idle" /\ UninstallSees(r) /\ ConnectsInstalled(r)
  BY StoreUserSInv DEF StoreUser, UInv, SInv, KindAt
<1>1. /\ TypeOK /\ op[r].user \in User /\ op[r].user \in UsersOf(op[r]) /\ usr[r] \in UserRecord
  BY <1>0, Writing
<1>2. Moved(r) /\ installed' = installed /\ tangled' = tangled
  BY <1>1 DEF StoreUser, End, Goto, Moved, TypeOK
<1>3. \/ pc'[r] = "idle"
      \/ /\ pc'[r] = "next" /\ op[r].kind = "uninstall"
         /\ op'[r] = op[r] /\ todo'[r] = todo[r] /\ page'[r] = page[r]
  BY <1>0, <1>1 DEF StoreUser, End, Goto, TypeOK
<1>4. PICK w, k : w \in User /\ w = op[r].user /\ k = op[r].inst
  BY <1>1
<1>5. LoadUser(w)' = usr[r]
  <2>1. users'[w] = usr[r]
    BY <1>1, <1>4 DEF StoreUser, TypeOK
  <2> QED
    BY <1>1, <2>1, ConnectionsAssumption DEF LoadUser
<1>6. ASSUME NEW v \in User, v # w PROVE LoadUser(v)' = LoadUser(v)
  <2>1. users'[v] = users[v]
    BY <1>1, <1>4, <1>6 DEF StoreUser, TypeOK
  <2> QED
    BY <2>1 DEF LoadUser
<1>7. ASSUME w \notin tangled, op[r].kind = "connect"
      PROVE  usr[r].connected = LoadUser(w).connected \cup {k} /\ k \in installed
  <2>1. usr[r] = With(LoadUser(w), k) /\ k \in installed
    BY <1>0, <1>4, <1>7, OwnReads DEF ReadAgrees, ConnectsInstalled
  <2>2. LoadUser(w) \in UserRecord
    BY <1>0, <1>4, ReadOK DEF SInv
  <2> QED
    BY <2>1, <2>2 DEF With, UserRecord
<1>8. ASSUME w \notin tangled, op[r].kind # "connect"
      PROVE  usr[r].connected = LoadUser(w).connected \ {k}
  <2>1. usr[r] = Without(LoadUser(w), k)
    BY <1>0, <1>4, <1>8, OwnReads DEF ReadAgrees
  <2> QED
    BY <2>1 DEF Without
<1>9. \A v \in User \ tangled : LoadUser(v).connected \subseteq installed
  BY DEF UInv
<1>10. \A v \in User \ tangled' : LoadUser(v)'.connected \subseteq installed'
  BY <1>2, <1>5, <1>6, <1>7, <1>8, <1>9
<1>11. \A v \in User \ tangled' :
          \/ LoadUser(v)'.connected \subseteq LoadUser(v).connected
          \/ pc[r] # "idle" /\ v \in UsersOf(op[r])
  BY <1>0, <1>1, <1>4, <1>6
<1>12. pc'[r] # "idle" => UninstallSees(r)' /\ ConnectsInstalled(r)'
  <2> SUFFICES ASSUME pc'[r] # "idle" PROVE UninstallSees(r)' /\ ConnectsInstalled(r)'
    OBVIOUS
  <2>1. /\ pc'[r] = "next" /\ op[r].kind = "uninstall"
        /\ op'[r] = op[r] /\ todo'[r] = todo[r] /\ page'[r] = page[r]
    BY <1>3
  <2>2. /\ page[r] = Nothing
        /\ \A v \in User \ tangled : k \in LoadUser(v).connected => v \in todo[r] \/ v = w
    BY <1>0, <1>4, <2>1 DEF UninstallSees, Disconnecting
  <2>3. \A v \in User \ tangled : k \in LoadUser(v)'.connected => v \in todo[r]
    BY <1>5, <1>6, <1>8, <2>1, <2>2
  <2>4. UninstallSees(r)'
    BY <1>2, <1>4, <2>1, <2>2, <2>3 DEF UninstallSees, Disconnecting
  <2> QED
    BY <2>1, <2>4 DEF ConnectsInstalled
<1> QED
  BY <1>0, <1>2, <1>10, <1>11, <1>12, UninstallStep

LEMMA NextUInv ==
    ASSUME OnePage
    PROVE  UInv /\ [Next]_vars => UInv'
<1> SUFFICES ASSUME UInv, [Next]_vars PROVE UInv'
  OBVIOUS
<1>1. ASSUME UNCHANGED vars PROVE UInv'
  <2> USE <1>1 DEF vars, store, request
  <2>1. SInv'
    BY NextSInv DEF UInv
  <2>2. \A u : LoadUser(u)' = LoadUser(u)
    BY SameStore
  <2>3. \A u \in User \ tangled' : LoadUser(u)'.connected \subseteq installed'
    BY <2>2 DEF UInv
  <2>4. ASSUME NEW r \in Request, pc'[r] # "idle" PROVE UninstallSees(r)' /\ ConnectsInstalled(r)'
    <3>1. UninstallSees(r) /\ ConnectsInstalled(r)
      BY <2>4 DEF UInv
    <3> QED
      BY <2>2, <3>1 DEF UninstallSees, ConnectsInstalled
  <2> QED
    BY <2>1, <2>3, <2>4 DEF UInv
<1>2. ASSUME NEW r \in Request,
             \/ \E o \in Arriving : Submit(r, o)
             \/ Break(r) \/ SkipUser(r) \/ Resolve(r) \/ LoadInstance(r) \/ ReadUser(r)
      PROVE  UInv'
  BY <1>2, SubmitUInv, BreakUInv, ResolveUInv, LoadInstanceUInv, ReadUserUInv
<1>3. ASSUME NEW r \in Request,
             \/ ReadConnection(r) \/ CheckSettings(r) \/ StoreDefault(r)
             \/ StoreConnection(r) \/ StoreIndex(r) \/ StoreIndexAgain(r)
      PROVE  UInv'
  BY <1>3, ReadConnectionUInv, StoreDefaultUInv, StoreConnectionUInv
<1>4. ASSUME NEW r \in Request,
             \/ DeleteConnection(r) \/ Unlink(r) \/ Unindex(r) \/ StoreUser(r)
             \/ ListKeys(r) \/ NextUser(r) \/ NextPage(r) \/ Remove(r) \/ Install(r)
      PROVE  UInv'
  BY <1>4, DeleteConnectionUInv, StoreUserUInv, ListKeysUInv, NextUserUInv, NextPageUInv,
     RemoveInstallUInv
<1> QED
  BY <1>1, <1>2, <1>3, <1>4 DEF Next

(* Uninstalling an instance disconnects everyone from it, whoever connects *)
(* or disconnects at the same time, as long as the keys of the store fit   *)
(* on the one page that ListKeys reads: with a second page, the deletes of *)
(* the uninstall itself move users to the page that was read already.      *)
THEOREM UninstallAlwaysDisconnects ==
    ASSUME OnePage
    PROVE  Spec => []UninstallDisconnects
<1>1. UInv => UninstallDisconnects
  BY DEF UInv, UninstallDisconnects, Settled
<1>2. UInv /\ [Next]_vars => UInv'
  BY NextUInv
<1> QED
  BY <1>1, <1>2, InitUInv, PTL DEF Spec
==============================================================================
