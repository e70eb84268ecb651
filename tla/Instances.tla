------------------------------ MODULE Instances ------------------------------
(***************************************************************************)
(* The Jira instances an administrator installs.  The store has a record   *)
(* per instance and, under one key, the list of instances.  The commands   *)
(* and callbacks that change them                                          *)
(*                                                                         *)
(*   install     /jira instance install server | cloud-oauth               *)
(*   inactive    /jira instance install cloud, which stores an inactive    *)
(*   activate      record, and httpACInstalled, Jira's callback for it     *)
(*   configure   the setup wizard stores the OAuth client's credentials    *)
(*   uninstall   /jira instance uninstall                                  *)
(*   alias       /jira instance alias, and unalias (to no alias)           *)
(*   v2          /jira instance v2                                         *)
(*                                                                         *)
(* read the list, change it and write it back (UpdateInstances) with no    *)
(* compare-and-set, and read and write the record on the way.  They may    *)
(* run at the same time on several servers, and any of them may end        *)
(* between two calls of the store.                                         *)
(***************************************************************************)
EXTENDS Naturals, FiniteSets

CONSTANTS
    Instance,       \* instance IDs, their URLs
    CloudURL,       \* those of Jira Cloud
    Alias,          \* aliases, without the empty one
    NoAlias,        \* the empty alias
    Nothing,        \* no record, no entry of the list
    Request,        \* commands and callbacks in progress at the same time
    Kind,           \* the operations they perform
    MaxRequests,    \* bound: how many there are in all
    Licenses,       \* whether there may be enterprise features
    Migrated        \* the instance MigrateV2Instances left, or none

\* An instance has a type; a cloud instance is inactive until Jira's callback.
Type == {"server", "inactive", "cloud", "cloud-oauth"}

\* Of InstanceCommon, what an entry of the list and a record hold.
Entry  == [alias: Alias \cup {NoAlias}, legacy: BOOLEAN]
Record == [type: Type, common: Entry]

ASSUME InstancesAssumption ==
    /\ NoAlias \notin Alias
    /\ Nothing \notin Entry \cup Record
    /\ CloudURL \subseteq Instance
    /\ Kind \subseteq {"install", "inactive", "activate", "configure", "uninstall", "alias", "v2"}
    /\ MaxRequests \in Nat
    /\ Licenses \subseteq BOOLEAN
    /\ Migrated \subseteq Instance
    /\ \A i, j \in Migrated : i = j

VARIABLES
    licensed,   \* there are enterprise features
    list,       \* the stored list
    records,    \* the stored records
    submitted,  \* how many requests there have been
    pc,         \* where each request is
    op,         \* what it was asked to do
    snap,       \* the list it has read and will change
    rec,        \* the record it has read and will change
    listedByAlias   \* instances an alias command listed

store   == <<list, records>>
request == <<submitted, pc, op, snap, rec>>
vars    == <<licensed, store, request, listedByAlias>>

List == [Instance -> Entry \cup {Nothing}]

Listed(l) == {i \in Instance : l[i] # Nothing}

Op == {o \in [kind: Kind, id: Instance, alias: Alias \cup {NoAlias}] :
          o.kind # "alias" => o.alias = NoAlias}

Working == {"load", "read", "delete", "store", "save", "repair", "again"}

TypeOK ==
    /\ licensed \in BOOLEAN
    /\ list \in List
    /\ records \in [Instance -> Record \cup {Nothing}]
    /\ submitted \in Nat
    /\ pc \in [Request -> {"idle", "panic"} \cup Working]
    /\ op \in [Request -> Op \cup {Nothing}]
    /\ snap \in [Request -> List]
    /\ rec \in [Request -> Record \cup {Nothing}]
    /\ listedByAlias \subseteq Instance

NoInstances == [i \in Instance |-> Nothing]

NewCommon == [alias |-> NoAlias, legacy |-> FALSE]

\* Nothing is installed, or MigrateV2Instances has written the list and the
\* record of the one current instance of version 2.
Init ==
    /\ licensed \in Licenses
    /\ LET legacy == [NewCommon EXCEPT !.legacy = TRUE]
       IN  /\ list = [i \in Instance |-> IF i \in Migrated THEN legacy ELSE Nothing]
           /\ \E t \in {"server", "cloud"} :
                 records = [i \in Instance |->
                     IF i \in Migrated THEN [type |-> t, common |-> legacy] ELSE Nothing]
    /\ submitted = 0
    /\ pc = [r \in Request |-> "idle"]
    /\ op = [r \in Request |-> Nothing]
    /\ snap = [r \in Request |-> NoInstances]
    /\ rec = [r \in Request |-> Nothing]
    /\ listedByAlias = {}

-----------------------------------------------------------------------------
Goto(r, l) == pc' = [pc EXCEPT ![r] = l]

\* A command or callback arrives.  Those that start with the record read it
\* before anything else, the others read the list.
Submit(r, o) ==
    /\ pc[r] = "idle"
    /\ submitted < MaxRequests
    /\ submitted' = submitted + 1
    /\ Goto(r, IF o.kind \in {"activate", "configure"} THEN "read" ELSE "load")
    /\ op' = [op EXCEPT ![r] = o]
    /\ UNCHANGED <<licensed, store, snap, rec, listedByAlias>>

\* The command is answered, or its server dies: the store stays as it is.
End(r) ==
    /\ Goto(r, "idle")
    /\ op' = [op EXCEPT ![r] = Nothing]
    /\ snap' = [snap EXCEPT ![r] = NoInstances]
    /\ rec' = [rec EXCEPT ![r] = Nothing]

\* At any point: a call of the store or MapUsers fails, the user is not an
\* administrator, the URL is malformed, the type an uninstall names is not
\* the record's; or the server dies.
Break(r) ==
    /\ pc[r] # "idle"
    /\ End(r)
    /\ UNCHANGED <<licensed, submitted, store, listedByAlias>>

\* Mutants: one more instance is allowed; the alias is not compared.
InstallableOneMore(l, id) == licensed \/ Cardinality(Listed(l)) <= 1 \/ l[id] # Nothing

AliasFreeOfItself(l, id, a) == l[id] # Nothing => l[id].alias # a

\* What the list read must allow.  Without enterprise features InstallInstance
\* accepts a second install of an instance that is listed,
\* installInactiveCloudInstance does not.
Installable(l, id) == licensed \/ Listed(l) = {} \/ l[id] # Nothing

AliasFree(l, id, a) == \A i \in Listed(l) \ {id} : l[i].alias # a

Allowed(l, o) ==
    CASE o.kind \in {"install", "activate"} -> Installable(l, o.id)
      [] o.kind = "inactive" -> licensed \/ Listed(l) = {}
      [] o.kind \in {"uninstall", "v2"} -> l[o.id] # Nothing
      \* unalias names the instance by the alias it has in the list
      [] o.kind = "alias" /\ o.alias = NoAlias -> l[o.id] # Nothing /\ l[o.id].alias # NoAlias
      [] o.kind = "alias" /\ o.alias # NoAlias -> AliasFree(l, o.id, o.alias)

AfterLoad(o) ==
    CASE o.kind \in {"uninstall", "alias"} -> "read"
      [] o.kind = "v2" -> "save"
      [] OTHER -> "store"

\* LoadInstances, and the checks of what it returns
Load(r) ==
    /\ pc[r] = "load"
    /\ \/ /\ Allowed(list, op[r])
          /\ snap' = IF op[r].kind = "inactive" THEN snap ELSE [snap EXCEPT ![r] = list]
          /\ Goto(r, AfterLoad(op[r]))
          /\ UNCHANGED <<op, rec>>
       \/ ~Allowed(list, op[r]) /\ End(r)
    /\ UNCHANGED <<licensed, submitted, store, listedByAlias>>

\* What the record must be.  An uninstall goes on without one, to repair a
\* list that has an instance without a record.
Suitable(c, o) ==
    CASE o.kind = "uninstall" -> TRUE
      [] o.kind = "activate"  -> c # Nothing /\ c.type = "inactive"
      [] o.kind = "configure" -> c # Nothing /\ c.type = "cloud-oauth"
      [] o.kind = "alias"     -> c # Nothing

AfterRead(c, o) ==
    CASE o.kind = "activate"  -> "load"
      [] o.kind = "configure" -> "store"
      [] o.kind = "alias"     -> "save"
      [] o.kind = "uninstall" -> IF c = Nothing THEN "repair" ELSE "delete"

\* LoadInstance, and the checks of what it returns
Read(r) ==
    /\ pc[r] = "read"
    /\ LET c == records[op[r].id]
       IN  \/ /\ Suitable(c, op[r])
              /\ rec' = IF op[r].kind \in {"configure", "alias"}
                        THEN [rec EXCEPT ![r] = c] ELSE rec
              /\ Goto(r, AfterRead(c, op[r]))
              /\ UNCHANGED <<op, snap>>
           \/ ~Suitable(c, op[r]) /\ End(r)
    /\ UNCHANGED <<licensed, submitted, store, listedByAlias>>

\* DeleteInstance, after the users were disconnected
Delete(r) ==
    /\ pc[r] = "delete"
    /\ records' = [records EXCEPT ![op[r].id] = Nothing]
    /\ Goto(r, "save")
    /\ UNCHANGED <<licensed, submitted, list, op, snap, rec, listedByAlias>>

\* The instance a request works on: a new one, or the one it has read.
NewRecord(r) ==
    CASE op[r].kind = "install" ->
            [type |-> IF op[r].id \in CloudURL THEN "cloud-oauth" ELSE "server",
             common |-> NewCommon]
      [] op[r].kind = "inactive"  -> [type |-> "inactive", common |-> NewCommon]
      [] op[r].kind = "activate"  -> [type |-> "cloud", common |-> NewCommon]
      [] op[r].kind = "configure" -> rec[r]
      [] op[r].kind = "alias"     -> [rec[r] EXCEPT !.common.alias = op[r].alias]

\* StoreInstance and CreateInactiveCloudInstance, whose SetExpiry(15*60) is
\* less than a second, which the store takes for no expiry at all.  Installs
\* go on to write the list.
Store(r) ==
    /\ pc[r] = "store"
    /\ records' = [records EXCEPT ![op[r].id] = NewRecord(r)]
    /\ \/ /\ op[r].kind \in {"install", "activate"}
          /\ Goto(r, "save")
          /\ UNCHANGED <<op, snap, rec>>
       \/ op[r].kind \in {"inactive", "configure", "alias"} /\ End(r)
    /\ UNCHANGED <<licensed, submitted, list, listedByAlias>>

Legacy(l) == {i \in Listed(l) : l[i].legacy}

\* Mutant: the instance that was the legacy one stays it.
SetAnotherLegacy(l, id) == [l EXCEPT ![id].legacy = TRUE]

\* The instance becomes the legacy one, and the first legacy one found is it
\* no more.  (The order of the list is not modelled: any one will do.)
SetV2Legacy(l, id) ==
    LET prev == IF Legacy(l) = {} THEN id ELSE CHOOSE i \in Legacy(l) : TRUE
    IN  [i \in Instance |->
           IF l[i] = Nothing THEN Nothing
           ELSE [l[i] EXCEPT !.legacy = i = id \/ (@ /\ i # prev)]]

\* The list a request writes, from the one it has read
NewList(r) ==
    CASE op[r].kind = "uninstall" -> [snap[r] EXCEPT ![op[r].id] = Nothing]
      [] op[r].kind = "v2" -> SetV2Legacy(snap[r], op[r].id)
      [] op[r].kind \in {"install", "activate", "alias"} ->
            [snap[r] EXCEPT ![op[r].id] = NewRecord(r).common]

\* StoreInstances.  An alias command goes on to write the record.
Save(r) ==
    /\ pc[r] = "save"
    /\ list' = NewList(r)
    /\ listedByAlias' = IF op[r].kind = "alias" /\ snap[r][op[r].id] = Nothing
                        THEN listedByAlias \cup {op[r].id} ELSE listedByAlias
    /\ \/ op[r].kind = "alias" /\ Goto(r, "store") /\ UNCHANGED <<op, snap, rec>>
       \/ op[r].kind # "alias" /\ End(r)
    /\ UNCHANGED <<licensed, submitted, records>>

\* An uninstall that found no record writes the list itself; UpdateInstances
\* writes it once more, and `updated`, which is still nil, is dereferenced.
Repair(r) ==
    /\ pc[r] \in {"repair", "again"}
    /\ list' = NewList(r)
    /\ Goto(r, IF pc[r] = "repair" THEN "again" ELSE "panic")
    /\ UNCHANGED <<licensed, submitted, records, op, snap, rec, listedByAlias>>

-----------------------------------------------------------------------------
Next ==
    \E r \in Request :
        \/ \E o \in Op : Submit(r, o)
        \/ Load(r) \/ Read(r) \/ Delete(r) \/ Store(r) \/ Save(r) \/ Repair(r)
        \/ Break(r)

Spec == Init /\ [][Next]_vars

-----------------------------------------------------------------------------
(* command.go: "Alias `%v` already exists on InstanceID: %v."  No two      *)
(* instances of the list have one alias, whatever commands run at the same *)
(* time: the one that writes last replaces the list it has checked.        *)
AliasesDistinct(l) ==
    \A i, j \in Listed(l) : l[i].alias = l[j].alias /\ l[i].alias # NoAlias => i = j

AliasesUnique == AliasesDistinct(list)

(* `/jira instance v2` moves the mark: of the instances installed since    *)
(* version 2, no two process the webhooks that name no instance.           *)
LegacyDistinct(l) == \A i, j \in Legacy(l) : i = j

OneLegacy == Migrated = {} => LegacyDistinct(list)

(* instances.go: "You need a valid ... License to install multiple Jira    *)
(* instances."  An alias command for an instance that is not in the list   *)
(* lists it all the same; installs do not exceed the limit, even when they *)
(* overlap.                                                                *)
LicenseKept(l) == licensed \/ \A i, j \in Listed(l) \ listedByAlias : i = j

InstallsKeepLicense == LicenseKept(list)

\* What each request has checked still holds of what it has read.
RequestConsistent(r) ==
    /\ pc[r] # "idle" => op[r] \in Op
    /\ pc[r] = "load" => op[r].kind # "configure"
    /\ pc[r] = "read" => op[r].kind \in {"activate", "configure", "uninstall", "alias"}
    /\ pc[r] \in {"delete", "repair", "again"} => op[r].kind = "uninstall"
    /\ pc[r] = "store" => op[r].kind \in {"install", "inactive", "activate", "configure", "alias"}
    /\ pc[r] = "save" => op[r].kind \in {"install", "activate", "uninstall", "alias", "v2"}
    /\ pc[r] \in {"store", "save"} /\ op[r].kind \in {"configure", "alias"} => rec[r] # Nothing
    /\ pc[r] \in {"store", "save"} /\ op[r].kind \in {"install", "activate"} =>
          Installable(snap[r], op[r].id)
    /\ pc[r] \in {"read", "save"} /\ op[r].kind = "alias" /\ op[r].alias # NoAlias =>
          AliasFree(snap[r], op[r].id, op[r].alias)
    /\ pc[r] = "save" /\ op[r].kind = "v2" => snap[r][op[r].id] # Nothing

\* Every list, stored or read, has distinct aliases, keeps the license, and,
\* unless there was a migration, has one legacy instance ...
ListConsistent(l) ==
    AliasesDistinct(l) /\ LicenseKept(l) /\ (Migrated = {} => LegacyDistinct(l))

\* ... and no record is marked as the legacy one.
Unmarked(c) == Migrated = {} /\ c # Nothing => ~c.common.legacy

(* The inductive invariant of the proofs: the lists and records read are   *)
(* as good as those stored, and what a request has checked still holds of  *)
(* the list it will replace.                                               *)
IInv ==
    /\ TypeOK
    /\ ListConsistent(list)
    /\ \A i \in Instance : Unmarked(records[i])
    /\ \A r \in Request :
          ListConsistent(snap[r]) /\ Unmarked(rec[r]) /\ RequestConsistent(r)
=============================================================================
