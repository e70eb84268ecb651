--------------------------- MODULE InstancesProofs ---------------------------
(* Proofs about Instances: whatever commands overlap, the list keeps its   *)
(* aliases distinct, one legacy mark, and the limit of the license.        *)
EXTENDS Instances, TLAPS

(* A record a request is about to write is a record, and not marked when   *)
(* there was no migration.                                                 *)
LEMMA NewRecordOK ==
    ASSUME IInv, NEW r \in Request, pc[r] \in {"store", "save"},
           op[r].kind \in {"install", "inactive", "activate", "configure", "alias"}
    PROVE  NewRecord(r) \in Record /\ Unmarked(NewRecord(r))
<1> USE InstancesAssumption
<1>1. op[r] \in Op /\ op[r].alias \in Alias \cup {NoAlias} /\ Unmarked(rec[r])
  BY DEF IInv, TypeOK, RequestConsistent, Op
<1>2. NewCommon \in Entry /\ ~NewCommon.legacy
  BY DEF NewCommon, Entry
<1>3. CASE op[r].kind \in {"install", "inactive", "activate"}
  BY <1>2, <1>3 DEF NewRecord, Record, Type, Unmarked
<1>4. CASE op[r].kind \in {"configure", "alias"}
  <2>1. rec[r] \in Record
    BY <1>4 DEF IInv, TypeOK, RequestConsistent
  <2>2. CASE op[r].kind = "configure"
    BY <1>1, <2>1, <2>2 DEF NewRecord
  <2>3. CASE op[r].kind = "alias"
    <3> DEFINE c == rec[r]
    <3>1. NewRecord(r) = [c EXCEPT !.common.alias = op[r].alias]
      BY <2>3 DEF NewRecord
    <3>2. c \in Record /\ c # Nothing
      BY <2>1
    <3> HIDE DEF c
    <3>3. NewRecord(r) \in Record /\ NewRecord(r).common.legacy = c.common.legacy
      BY <1>1, <3>1, <3>2 DEF Record, Entry
    <3>4. Unmarked(c)
      BY <1>1 DEF c
    <3> QED
      BY <3>2, <3>3, <3>4 DEF Unmarked
  <2> QED
    BY <1>4, <2>2, <2>3
<1> QED
  BY <1>3, <1>4

(* The list a request is about to write is as good as the one it has read; *)
(* an alias command may add one instance to it.                            *)
Added(r) == IF op[r].kind = "alias" /\ snap[r][op[r].id] = Nothing THEN {op[r].id} ELSE {}

LEMMA NewListOK ==
    ASSUME IInv, NEW r \in Request, pc[r] \in {"save", "repair", "again"}
    PROVE  /\ NewList(r) \in List
           /\ AliasesDistinct(NewList(r))
           /\ Migrated = {} => LegacyDistinct(NewList(r))
           /\ licensed \/ \A i, j \in Listed(NewList(r)) \ (listedByAlias \cup Added(r)) : i = j
<1> DEFINE l == snap[r]
           o == op[r]
           n == NewList(r)
<1> USE InstancesAssumption
<1>1. /\ l \in List /\ o \in Op /\ o.id \in Instance /\ o.alias \in Alias \cup {NoAlias}
      /\ \A i \in Instance : l[i] # Nothing => l[i] \in Entry
  BY DEF IInv, TypeOK, RequestConsistent, Op, List
<1>2. /\ AliasesDistinct(l)
      /\ LicenseKept(l)
      /\ Migrated = {} => LegacyDistinct(l)
  BY DEF IInv, ListConsistent
<1>3. CASE o.kind = "uninstall"
  <2>1. n = [l EXCEPT ![o.id] = Nothing]
    BY <1>3 DEF NewList
  <2> HIDE DEF n, l, o
  <2>2. n \in List
    BY <1>1, <2>1 DEF List
  <2>3. \A i \in Listed(n) : i \in Listed(l) /\ n[i] = l[i]
    BY <1>1, <2>1 DEF Listed, List
  <2> QED
    BY <1>2, <2>2, <2>3 DEF AliasesDistinct, LicenseKept, LegacyDistinct, Legacy, n
<1>4. CASE o.kind = "v2"
  <2>1. n = SetV2Legacy(l, o.id) /\ l[o.id] # Nothing
    BY <1>4 DEF NewList, IInv, RequestConsistent
  <2> DEFINE prev == IF Legacy(l) = {} THEN o.id ELSE CHOOSE i \in Legacy(l) : TRUE
  <2>2. Legacy(l) # {} => prev \in Legacy(l)
    OBVIOUS
  <2> HIDE DEF prev
  <2>3. n = [i \in Instance |->
               IF l[i] = Nothing THEN Nothing
               ELSE [l[i] EXCEPT !.legacy = i = o.id \/ (@ /\ i # prev)]]
    BY <2>1 DEF SetV2Legacy, prev
  <2> HIDE DEF n, l, o
  <2>4. \A i \in Instance : l[i] # Nothing =>
           /\ n[i] \in Entry
           /\ n[i].alias = l[i].alias
           /\ n[i].legacy = (i = o.id \/ (l[i].legacy /\ i # prev))
    <3> SUFFICES ASSUME NEW i \in Instance, l[i] # Nothing
                 PROVE  /\ n[i] \in Entry
                        /\ n[i].alias = l[i].alias
                        /\ n[i].legacy = (i = o.id \/ (l[i].legacy /\ i # prev))
      OBVIOUS
    <3> DEFINE e == l[i]
               b == i = o.id \/ (e.legacy /\ i # prev)
    <3>1. n[i] = [e EXCEPT !.legacy = b]
      BY <2>3
    <3>2. e \in Entry /\ b \in BOOLEAN
      BY <1>1 DEF Entry
    <3> HIDE DEF e, b
    <3>3. n[i] \in Entry /\ n[i].alias = e.alias /\ n[i].legacy = b
      BY <3>1, <3>2 DEF Entry
    <3> QED
      BY <3>3 DEF e, b
  <2>5. \A i \in Instance : n[i] = Nothing <=> l[i] = Nothing
    BY <2>3, <2>4
  <2>6. n \in List
    BY <1>1, <2>3, <2>4 DEF List
  <2>7. Listed(n) = Listed(l)
    BY <2>5 DEF Listed
  <2>8. AliasesDistinct(n)
    BY <1>2, <2>4, <2>7 DEF AliasesDistinct, Listed
  <2>9. ASSUME Migrated = {} PROVE LegacyDistinct(n)
    <3>1. \A i \in Legacy(l) : i = prev
      BY <1>2, <2>2, <2>9 DEF LegacyDistinct
    <3>2. \A i \in Legacy(n) : i = o.id
      BY <2>4, <2>7, <3>1 DEF Legacy, Listed
    <3> QED
      BY <3>2 DEF LegacyDistinct
  <2> QED
    BY <1>2, <2>6, <2>7, <2>8, <2>9 DEF LicenseKept, n
<1>5. CASE o.kind \in {"install", "activate", "alias"}
  <2> DEFINE e == NewRecord(r).common
  <2>1. pc[r] = "save"
    BY <1>5 DEF IInv, RequestConsistent
  <2>2. e \in Entry /\ (Migrated = {} => ~e.legacy)
    BY <1>5, <2>1, NewRecordOK DEF Record, Unmarked
  <2>3. e.alias # NoAlias => AliasFree(l, o.id, e.alias)
    <3>1. CASE o.kind # "alias"
      BY <1>5, <3>1 DEF NewRecord, NewCommon
    <3>2. CASE o.kind = "alias"
      <4>1. rec[r] \in Record
        BY <2>1, <3>2 DEF IInv, TypeOK, RequestConsistent
      <4>2. e.alias = o.alias
        BY <3>2, <4>1 DEF NewRecord, Record, Entry
      <4> QED
        BY <2>1, <3>2, <4>2 DEF IInv, RequestConsistent
    <3> QED
      BY <3>1, <3>2
  <2>4. n = [l EXCEPT ![o.id] = e]
    BY <1>5 DEF NewList
  <2>5. o.kind # "alias" => Installable(l, o.id)
    BY <1>5, <2>1 DEF IInv, RequestConsistent
  <2>6. Added(r) = IF o.kind = "alias" /\ l[o.id] = Nothing THEN {o.id} ELSE {}
    BY DEF Added
  <2> HIDE DEF n, l, o, e
  <2>7. n \in List
    BY <1>1, <2>2, <2>4 DEF List
  <2>8. Listed(n) = Listed(l) \cup {o.id}
    BY <1>1, <2>2, <2>4 DEF Listed, List
  <2>9. n[o.id] = e /\ \A i \in Instance \ {o.id} : n[i] = l[i]
    BY <1>1, <2>4 DEF List
  <2>10. AliasesDistinct(n)
    BY <1>1, <1>2, <2>3, <2>8, <2>9 DEF AliasesDistinct, AliasFree, Listed
  <2>11. Migrated = {} => LegacyDistinct(n)
    BY <1>2, <2>2, <2>8, <2>9 DEF LegacyDistinct, Legacy, Listed
  <2>12. licensed \/ \A i, j \in Listed(n) \ (listedByAlias \cup Added(r)) : i = j
    BY <1>2, <1>5, <2>5, <2>6, <2>8 DEF LicenseKept, Installable, Listed
  <2> QED
    BY <2>7, <2>10, <2>11, <2>12 DEF n
<1> QED
  BY <1>3, <1>4, <1>5 DEF IInv, RequestConsistent

(* A request that a step leaves alone keeps what it has read and checked.  *)
Sound(q) == ListConsistent(snap[q]) /\ Unmarked(rec[q]) /\ RequestConsistent(q)

LEMMA OthersKept ==
    ASSUME IInv, NEW q \in Request,
           licensed' = licensed, listedByAlias \subseteq listedByAlias',
           pc'[q] = pc[q], op'[q] = op[q], snap'[q] = snap[q], rec'[q] = rec[q]
    PROVE  Sound(q)'
<1>1. Sound(q)
  BY DEF IInv, Sound
<1>2. ListConsistent(snap[q])'
  BY <1>1 DEF Sound, ListConsistent, AliasesDistinct, LicenseKept, LegacyDistinct, Legacy, Listed
<1>3. Unmarked(rec[q])'
  BY <1>1 DEF Sound, Unmarked
<1>4. RequestConsistent(q)'
  BY <1>1 DEF Sound, RequestConsistent, Installable, AliasFree, Listed
<1> QED
  BY <1>2, <1>3, <1>4 DEF Sound

(* A request that ends has nothing left to go wrong.                       *)
LEMMA EndKept ==
    ASSUME IInv, NEW r \in Request, End(r),
           licensed' = licensed, listedByAlias \subseteq listedByAlias'
    PROVE  /\ pc' \in [Request -> {"idle", "panic"} \cup Working]
           /\ op' \in [Request -> Op \cup {Nothing}]
           /\ snap' \in [Request -> List]
           /\ rec' \in [Request -> Record \cup {Nothing}]
           /\ \A q \in Request : Sound(q)'
<1>1. NoInstances \in List
  BY DEF NoInstances, List
<1>2. /\ pc' \in [Request -> {"idle", "panic"} \cup Working]
      /\ op' \in [Request -> Op \cup {Nothing}]
      /\ snap' \in [Request -> List]
      /\ rec' \in [Request -> Record \cup {Nothing}]
  BY <1>1 DEF IInv, TypeOK, End, Goto
<1>3. Sound(r)'
  <2>1. pc'[r] = "idle" /\ snap'[r] = NoInstances /\ rec'[r] = Nothing
    BY DEF IInv, TypeOK, End, Goto
  <2> QED
    BY <2>1 DEF Sound, ListConsistent, AliasesDistinct, LicenseKept, LegacyDistinct, Legacy,
                Listed, NoInstances, Unmarked, RequestConsistent
<1>4. ASSUME NEW q \in Request, q # r PROVE Sound(q)'
  <2>1. pc'[q] = pc[q] /\ op'[q] = op[q] /\ snap'[q] = snap[q] /\ rec'[q] = rec[q]
    BY <1>4 DEF IInv, TypeOK, End, Goto
  <2> QED
    BY <2>1, OthersKept
<1> QED
  BY <1>2, <1>3, <1>4

(* Nothing is installed, or one migrated instance.                         *)
LEMMA InitIInv == Init => IInv
<1> USE InstancesAssumption
<1> SUFFICES ASSUME Init PROVE IInv
  OBVIOUS
<1> DEFINE legacy == [NewCommon EXCEPT !.legacy = TRUE]
<1>1. legacy \in Entry /\ legacy # Nothing
  BY DEF NewCommon, Entry
<1>2. list = [i \in Instance |-> IF i \in Migrated THEN legacy ELSE Nothing]
  BY DEF Init
<1>3. PICK t \in {"server", "cloud"} : records = [i \in Instance |->
                     IF i \in Migrated THEN [type |-> t, common |-> legacy] ELSE Nothing]
  BY DEF Init
<1> HIDE DEF legacy
<1>4. TypeOK
  BY <1>1, <1>2, <1>3 DEF Init, TypeOK, List, Record, Type, NoInstances
<1>5. Listed(list) = Migrated
  BY <1>1, <1>2 DEF Listed
<1>6. ListConsistent(list)
  BY <1>5 DEF ListConsistent, AliasesDistinct, LicenseKept, LegacyDistinct, Legacy
<1>7. \A i \in Instance : Unmarked(records[i])
  BY <1>3 DEF Unmarked
<1>8. ASSUME NEW r \in Request
      PROVE  ListConsistent(snap[r]) /\ Unmarked(rec[r]) /\ RequestConsistent(r)
  BY DEF Init, ListConsistent, AliasesDistinct, LicenseKept, LegacyDistinct, Legacy,
         Listed, NoInstances, Unmarked, RequestConsistent
<1> QED
  BY <1>4, <1>6, <1>7, <1>8 DEF IInv

(* No command, callback or failure breaks the invariant.                   *)
LEMMA NextIInv == IInv /\ [Next]_vars => IInv'
<1> USE InstancesAssumption
<1> SUFFICES ASSUME IInv, [Next]_vars PROVE IInv'
  OBVIOUS
<1>0. TypeOK /\ ListConsistent(list) /\ \A i \in Instance : Unmarked(records[i])
  BY DEF IInv
<1>1. ASSUME UNCHANGED licensed, UNCHANGED list, listedByAlias \subseteq listedByAlias'
      PROVE  ListConsistent(list)'
  BY <1>0, <1>1 DEF ListConsistent, AliasesDistinct, LicenseKept, LegacyDistinct, Legacy, Listed
<1>2. ASSUME NEW r \in Request, NEW o \in Op, Submit(r, o)
      PROVE  IInv'
  <2> USE <1>2 DEF Submit
  <2>1. o.kind \in Kind
    BY DEF Op
  <2>2. TypeOK'
    BY <1>0 DEF TypeOK, Goto, Working, store
  <2>3. ListConsistent(list)' /\ (\A i \in Instance : Unmarked(records[i]))'
    BY <1>0, <1>1 DEF store, Unmarked
  <2>4. Sound(r)'
    <3>1. /\ op'[r] = o
          /\ pc'[r] = IF o.kind \in {"activate", "configure"} THEN "read" ELSE "load"
      BY <1>0 DEF TypeOK, Goto
    <3>2. ListConsistent(snap[r])' /\ Unmarked(rec[r])'
      BY DEF IInv, ListConsistent, AliasesDistinct, LicenseKept, LegacyDistinct, Legacy, Listed,
             Unmarked
    <3>3. RequestConsistent(r)'
      BY <3>1 DEF RequestConsistent
    <3> QED
      BY <3>2, <3>3 DEF Sound
  <2>5. ASSUME NEW q \in Request, q # r PROVE Sound(q)'
    BY <1>0, <2>5, OthersKept DEF TypeOK, Goto
  <2> QED
    BY <2>2, <2>3, <2>4, <2>5 DEF IInv, Sound
<1>3. ASSUME NEW r \in Request, Break(r)
      PROVE  IInv'
  <2> USE <1>3 DEF Break
  <2>1. TypeOK'
    BY <1>0, EndKept DEF TypeOK, store
  <2>2. ListConsistent(list)' /\ (\A i \in Instance : Unmarked(records[i]))'
    BY <1>0, <1>1 DEF store, Unmarked
  <2> QED
    BY <2>1, <2>2, EndKept DEF IInv, Sound
<1>4. ASSUME NEW r \in Request, Load(r)
      PROVE  IInv'
  <2> USE <1>4
  <2>1. ListConsistent(list)' /\ (\A i \in Instance : Unmarked(records[i]))'
    BY <1>0, <1>1 DEF Load, store, Unmarked
  <2>2. CASE End(r)
    <3>1. TypeOK'
      BY <1>0, <2>2, EndKept DEF Load, TypeOK, store
    <3> QED
      BY <2>1, <2>2, <3>1, EndKept DEF IInv, Sound, Load
  <2>3. CASE /\ Allowed(list, op[r])
             /\ snap' = IF op[r].kind = "inactive" THEN snap ELSE [snap EXCEPT ![r] = list]
             /\ Goto(r, AfterLoad(op[r]))
             /\ UNCHANGED <<op, rec>>
    <3> USE <2>3
    <3>1. /\ op[r] \in Op /\ op[r].kind \in Kind /\ op[r].kind # "configure"
          /\ AfterLoad(op[r]) \in {"read", "save", "store"}
      BY DEF IInv, RequestConsistent, Load, Op, AfterLoad
    <3>2. TypeOK'
      BY <1>0, <3>1 DEF TypeOK, Load, Goto, Working, store
    <3>3. /\ pc'[r] = AfterLoad(op[r]) /\ op'[r] = op[r] /\ rec'[r] = rec[r]
          /\ snap'[r] = IF op[r].kind = "inactive" THEN snap[r] ELSE list
      BY <1>0 DEF TypeOK, Goto
    <3>4. ListConsistent(snap[r])'
      BY <1>0, <3>3 DEF IInv, ListConsistent, AliasesDistinct, LicenseKept, LegacyDistinct,
                        Legacy, Listed, Load
    <3>5. Unmarked(rec[r])'
      BY DEF IInv, Unmarked
    <3>6. RequestConsistent(r)'
      <4> DEFINE o == op[r]
                 l == snap'[r]
      <4>1. o \in Op /\ op'[r] = o /\ licensed' = licensed /\ pc'[r] = AfterLoad(o)
        BY <3>1, <3>3 DEF Load
      <4>2. o.kind # "inactive" => Allowed(l, o)
        BY <3>3
      <4> HIDE DEF o, l
      <4>3. CASE o.kind \in {"install", "activate"}
        <5>1. pc'[r] = "store" /\ Installable(l, o.id)
          BY <4>1, <4>2, <4>3 DEF AfterLoad, Allowed
        <5> QED
          BY <4>1, <4>3, <5>1 DEF RequestConsistent, o, l, Installable, Listed
      <4>4. CASE o.kind = "inactive"
        BY <4>1, <4>4 DEF RequestConsistent, AfterLoad, o
      <4>5. CASE o.kind = "uninstall"
        BY <4>1, <4>5 DEF RequestConsistent, AfterLoad, o
      <4>6. CASE o.kind = "alias"
        <5>1. pc'[r] = "read" /\ (o.alias # NoAlias => AliasFree(l, o.id, o.alias))
          BY <4>1, <4>2, <4>6 DEF AfterLoad, Allowed
        <5> QED
          BY <4>1, <4>6, <5>1 DEF RequestConsistent, o, l, AliasFree, Listed
      <4>7. CASE o.kind = "v2"
        <5>1. pc'[r] = "save" /\ l[o.id] # Nothing
          BY <4>1, <4>2, <4>7 DEF AfterLoad, Allowed
        <5> QED
          BY <4>1, <4>7, <5>1 DEF RequestConsistent, o, l
      <4> QED
        BY <3>1, <4>3, <4>4, <4>5, <4>6, <4>7 DEF o
    <3>7. ASSUME NEW q \in Request, q # r PROVE Sound(q)'
      BY <1>0, <3>7, OthersKept DEF TypeOK, Goto, Load
    <3> QED
      BY <2>1, <3>2, <3>4, <3>5, <3>6, <3>7 DEF IInv, Sound
  <2> QED
    BY <2>2, <2>3 DEF Load
<1>5. ASSUME NEW r \in Request, Read(r)
      PROVE  IInv'
  <2> DEFINE c == records[op[r].id]
  <2> USE <1>5
  <2>1. ListConsistent(list)' /\ (\A i \in Instance : Unmarked(records[i]))'
    BY <1>0, <1>1 DEF Read, store, Unmarked
  <2>2. CASE End(r)
    <3>1. TypeOK'
      BY <1>0, <2>2, EndKept DEF Read, TypeOK, store
    <3> QED
      BY <2>1, <2>2, <3>1, EndKept DEF IInv, Sound, Read
  <2>3. CASE /\ Suitable(c, op[r])
             /\ rec' = IF op[r].kind \in {"configure", "alias"}
                       THEN [rec EXCEPT ![r] = c] ELSE rec
             /\ Goto(r, AfterRead(c, op[r]))
             /\ UNCHANGED <<op, snap>>
    <3> USE <2>3
    <3>1. /\ op[r] \in Op /\ op[r].id \in Instance
          /\ op[r].kind \in {"activate", "configure", "uninstall", "alias"}
          /\ c \in Record \cup {Nothing} /\ Unmarked(c)
      BY <1>0 DEF IInv, RequestConsistent, Read, Op, TypeOK
    <3> HIDE DEF c
    <3>2. AfterRead(c, op[r]) \in {"load", "store", "save", "repair", "delete"}
      BY <3>1 DEF AfterRead
    <3>3. TypeOK'
      BY <1>0, <3>1, <3>2 DEF TypeOK, Read, Goto, Working, store
    <3>4. /\ pc'[r] = AfterRead(c, op[r]) /\ op'[r] = op[r] /\ snap'[r] = snap[r]
          /\ rec'[r] = IF op[r].kind \in {"configure", "alias"} THEN c ELSE rec[r]
      BY <1>0 DEF TypeOK, Goto
    <3>5. ListConsistent(snap[r])'
      BY <3>4 DEF IInv, ListConsistent, AliasesDistinct, LicenseKept, LegacyDistinct,
                  Legacy, Listed, Read
    <3>6. Unmarked(rec[r])'
      BY <3>1, <3>4 DEF IInv, Unmarked
    <3>7. RequestConsistent(r)'
      <4> DEFINE o == op[r]
      <4>1. o.kind \in {"configure", "alias"} => c # Nothing /\ rec'[r] = c
        BY <3>4 DEF Suitable
      <4>2. o.kind = "alias" /\ o.alias # NoAlias => AliasFree(snap[r], o.id, o.alias)
        BY DEF IInv, RequestConsistent, Read
      <4>3. /\ o \in Op /\ op'[r] = o /\ snap'[r] = snap[r] /\ pc'[r] = AfterRead(c, o)
            /\ o.kind \in {"activate", "configure", "uninstall", "alias"}
        BY <3>1, <3>4
      <4> HIDE DEF o
      <4>4. CASE o.kind = "activate"
        BY <4>3, <4>4 DEF RequestConsistent, AfterRead, o
      <4>5. CASE o.kind = "configure"
        BY <4>1, <4>3, <4>5 DEF RequestConsistent, AfterRead, o
      <4>6. CASE o.kind = "uninstall"
        BY <4>3, <4>6 DEF RequestConsistent, AfterRead, o
      <4>7. CASE o.kind = "alias"
        <5>1. pc'[r] = "save"
          BY <4>3, <4>7 DEF AfterRead
        <5> QED
          BY <4>1, <4>2, <4>3, <4>7, <5>1 DEF RequestConsistent, AliasFree, Listed, o
      <4> QED
        BY <4>3, <4>4, <4>5, <4>6, <4>7
    <3>8. ASSUME NEW q \in Request, q # r PROVE Sound(q)'
      BY <1>0, <3>8, OthersKept DEF TypeOK, Goto, Read
    <3> QED
      BY <2>1, <3>3, <3>5, <3>6, <3>7, <3>8 DEF IInv, Sound
  <2> QED
    BY <2>2, <2>3 DEF Read
<1>6. ASSUME NEW r \in Request, Delete(r)
      PROVE  IInv'
  <2> USE <1>6 DEF Delete
  <2>1. op[r] \in Op /\ op[r].id \in Instance /\ op[r].kind = "uninstall"
    BY DEF IInv, RequestConsistent, Op
  <2>2. TypeOK'
    BY <1>0, <2>1 DEF TypeOK, Goto, Working
  <2>3. ListConsistent(list)'
    BY <1>0, <1>1
  <2>4. (\A i \in Instance : Unmarked(records[i]))'
    BY <1>0, <2>1 DEF TypeOK, Unmarked
  <2>5. Sound(r)'
    BY <1>0, <2>1 DEF Sound, IInv, TypeOK, Goto, ListConsistent, AliasesDistinct, LicenseKept,
                      LegacyDistinct, Legacy, Listed, Unmarked, RequestConsistent
  <2>6. ASSUME NEW q \in Request, q # r PROVE Sound(q)'
    BY <1>0, <2>6, OthersKept DEF TypeOK, Goto
  <2> QED
    BY <2>2, <2>3, <2>4, <2>5, <2>6 DEF IInv, Sound
<1>7. ASSUME NEW r \in Request, Store(r)
      PROVE  IInv'
  <2> USE <1>7
  <2>1. /\ op[r] \in Op /\ op[r].id \in Instance
        /\ op[r].kind \in {"install", "inactive", "activate", "configure", "alias"}
    BY DEF IInv, RequestConsistent, Store, Op
  <2>2. NewRecord(r) \in Record /\ Unmarked(NewRecord(r))
    BY <2>1, NewRecordOK DEF Store
  <2>3. records' \in [Instance -> Record \cup {Nothing}]
    BY <1>0, <2>2 DEF TypeOK, Store
  <2>4. ListConsistent(list)'
    BY <1>0, <1>1 DEF Store
  <2>5. (\A i \in Instance : Unmarked(records[i]))'
    BY <1>0, <2>1, <2>2 DEF TypeOK, Store, Unmarked
  <2>6. CASE End(r)
    <3>1. TypeOK'
      BY <1>0, <2>3, <2>6, EndKept DEF Store, TypeOK
    <3> QED
      BY <2>4, <2>5, <2>6, <3>1, EndKept DEF IInv, Sound, Store
  <2>7. CASE /\ op[r].kind \in {"install", "activate"}
             /\ Goto(r, "save")
             /\ UNCHANGED <<op, snap, rec>>
    <3>1. TypeOK'
      BY <1>0, <2>3, <2>7 DEF Store, TypeOK, Goto, Working
    <3>2. pc'[r] = "save"
      BY <1>0, <2>7 DEF TypeOK, Goto
    <3>3. ListConsistent(snap[r])' /\ Unmarked(rec[r])'
      BY <2>7 DEF Store, IInv, ListConsistent, AliasesDistinct, LicenseKept, LegacyDistinct,
                  Legacy, Listed, Unmarked
    <3>4. RequestConsistent(r)'
      BY <2>1, <2>7, <3>2 DEF Store, IInv, RequestConsistent, Installable, Listed
    <3>5. ASSUME NEW q \in Request, q # r PROVE Sound(q)'
      BY <1>0, <2>7, <3>5, OthersKept DEF TypeOK, Goto, Store
    <3> QED
      BY <2>4, <2>5, <3>1, <3>3, <3>4, <3>5 DEF IInv, Sound
  <2> QED
    BY <2>6, <2>7 DEF Store
<1>8. ASSUME NEW r \in Request, Save(r)
      PROVE  IInv'
  <2> USE <1>8
  <2>1. op[r] \in Op /\ op[r].id \in Instance
    BY DEF IInv, RequestConsistent, Save, Op
  <2>2. /\ listedByAlias' = listedByAlias \cup Added(r)
        /\ listedByAlias' \subseteq Instance
    BY <1>0, <2>1 DEF Save, Added, TypeOK
  <2>3. list' \in List /\ ListConsistent(list)'
    <3>1. /\ list' = NewList(r)
          /\ list' \in List
          /\ AliasesDistinct(list')
          /\ Migrated = {} => LegacyDistinct(list')
          /\ licensed \/ \A i, j \in Listed(list') \ listedByAlias' : i = j
      BY <2>2, NewListOK DEF Save
    <3> QED
      BY <3>1 DEF Save, ListConsistent, AliasesDistinct, LicenseKept, LegacyDistinct, Legacy,
                  Listed
  <2>4. (\A i \in Instance : Unmarked(records[i]))'
    BY <1>0 DEF Save, Unmarked
  <2>5. CASE End(r)
    <3>1. TypeOK'
      BY <1>0, <2>2, <2>3, <2>5, EndKept DEF Save, TypeOK
    <3> QED
      BY <2>2, <2>3, <2>4, <2>5, <3>1, EndKept DEF IInv, Sound, Save
  <2>6. CASE op[r].kind = "alias" /\ Goto(r, "store") /\ UNCHANGED <<op, snap, rec>>
    <3>1. TypeOK'
      BY <1>0, <2>2, <2>3, <2>6 DEF Save, TypeOK, Goto, Working
    <3>2. pc'[r] = "store"
      BY <1>0, <2>6 DEF TypeOK, Goto
    <3>3. ListConsistent(snap[r])' /\ Unmarked(rec[r])'
      BY <2>2, <2>6 DEF Save, IInv, ListConsistent, AliasesDistinct, LicenseKept, LegacyDistinct,
                        Legacy, Listed, Unmarked
    <3>4. RequestConsistent(r)'
      BY <2>1, <2>6, <3>2 DEF Save, IInv, RequestConsistent
    <3>5. ASSUME NEW q \in Request, q # r PROVE Sound(q)'
      BY <1>0, <2>2, <2>6, <3>5, OthersKept DEF TypeOK, Goto, Save
    <3> QED
      BY <2>3, <2>4, <3>1, <3>3, <3>4, <3>5 DEF IInv, Sound
  <2> QED
    BY <2>5, <2>6 DEF Save
<1>9. ASSUME NEW r \in Request, Repair(r)
      PROVE  IInv'
  <2> USE <1>9
  <2>1. op[r] \in Op /\ op[r].kind = "uninstall" /\ Added(r) = {}
    BY DEF IInv, RequestConsistent, Repair, Added
  <2>2. list' \in List /\ ListConsistent(list)'
    <3>1. /\ list' \in List
          /\ AliasesDistinct(list')
          /\ Migrated = {} => LegacyDistinct(list')
          /\ licensed \/ \A i, j \in Listed(list') \ listedByAlias : i = j
      BY <2>1, NewListOK DEF Repair
    <3> QED
      BY <3>1 DEF Repair, ListConsistent, AliasesDistinct, LicenseKept, LegacyDistinct, Legacy,
                  Listed
  <2>3. (\A i \in Instance : Unmarked(records[i]))'
    BY <1>0 DEF Repair, Unmarked
  <2>4. TypeOK'
    BY <1>0, <2>2 DEF Repair, TypeOK, Goto, Working
  <2>5. pc'[r] \in {"again", "panic"}
    BY <1>0 DEF Repair, TypeOK, Goto
  <2>6. Sound(r)'
    BY <2>1, <2>5 DEF Repair, Sound, IInv, ListConsistent, AliasesDistinct, LicenseKept,
                      LegacyDistinct, Legacy, Listed, Unmarked, RequestConsistent
  <2>7. ASSUME NEW q \in Request, q # r PROVE Sound(q)'
    BY <1>0, <2>7, OthersKept DEF TypeOK, Goto, Repair
  <2> QED
    BY <2>2, <2>3, <2>4, <2>6, <2>7 DEF IInv, Sound
<1>10. CASE UNCHANGED vars
  <2> USE <1>10 DEF vars, store, request
  <2>1. TypeOK' /\ ListConsistent(list)' /\ (\A i \in Instance : Unmarked(records[i]))'
    BY <1>0, <1>1 DEF TypeOK, Unmarked
  <2>2. ASSUME NEW q \in Request PROVE Sound(q)'
    BY OthersKept
  <2> QED
    BY <2>1, <2>2 DEF IInv, Sound
<1> QED
  BY <1>2, <1>3, <1>4, <1>5, <1>6, <1>7, <1>8, <1>9, <1>10 DEF Next

(* The lists and records are consistent, stored or read, in every reachable *)
(* state, for any number of instances, aliases and requests, at any time.   *)
THEOREM InstancesConsistency == Spec => []IInv
<1> QED
  BY InitIInv, NextIInv, PTL DEF Spec

(* No two instances are ever listed with the same alias: the check of      *)
(* executeInstanceAlias survives the lost updates of UpdateInstances,      *)
(* because whoever writes replaces the list it has checked.                *)
THEOREM AliasUniqueness == Spec => []AliasesUnique
<1>1. IInv => AliasesUnique
  BY DEF IInv, ListConsistent, AliasesUnique
<1> QED
  BY <1>1, InstancesConsistency, PTL

(* Without a migrated instance the list never has two legacy instances.    *)
THEOREM OneLegacyInstance == Spec => []OneLegacy
<1>1. IInv => OneLegacy
  BY DEF IInv, ListConsistent, OneLegacy
<1> QED
  BY <1>1, InstancesConsistency, PTL

(* Without enterprise features, overlapping installs list one instance at  *)
(* most beside those that an alias command listed.                         *)
THEOREM LicenseByInstalls == Spec => []InstallsKeepLicense
<1>1. IInv => InstallsKeepLicense
  BY DEF IInv, ListConsistent, InstallsKeepLicense
<1> QED
  BY <1>1, InstancesConsistency, PTL
=============================================================================
