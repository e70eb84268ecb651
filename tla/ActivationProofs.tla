-------------------------- MODULE ActivationProofs --------------------------
(***************************************************************************)
(* Theorems about Activation, for any number of servers and instances.     *)
(* The invariant has a part for each subject: the keys; what the lists     *)
(* consist of; what is known of a migration under way; what holds of the   *)
(* list until a command changes it.                                        *)
(***************************************************************************)
EXTENDS Activation, TLAPS

USE ActivationAssumption

Place == {"down", "rsa", "load", "up"} \cup Migrating

-----------------------------------------------------------------------------
(* Types                                                                   *)

LEMMA Lists ==
    /\ Empty \in List /\ Empty.ids = {} /\ Empty.legacy = {}
    /\ \A l \in List : l.ids \subseteq Instance /\ l.legacy \subseteq Instance
    /\ \A a, b \in SUBSET Instance : [ids |-> a, legacy |-> b] \in List
    /\ \A l, m \in List : l.ids = m.ids /\ l.legacy = m.legacy => l = m
    BY DEF List, Empty

(* A revert knows the legacy instance it is about.                         *)
Types == TypeOK /\ (revert # "none" <=> legacy # Nothing)

LEMMA TypesInit == Init => Types
<1> SUFFICES ASSUME Init PROVE Types
    OBVIOUS
<1>1. [n \in Node |-> Empty] \in [Node -> List]
    BY Lists
<1>2. /\ state \in [Node -> {"down", "rsa", "load", "up"} \cup Migrating]
      /\ config \in [Node -> Node \cup {Nothing}]
      /\ snap \in [Node -> List]
    BY <1>1 DEF Init
<1>3. /\ known \subseteq Instance /\ records \subseteq Instance /\ old \subseteq Instance
      /\ current \in Instance \cup {Nothing}
    BY DEF Init
<1> QED
    BY <1>2, <1>3, Lists DEF Init, Types, TypeOK

LEMMA TypesStep == Types /\ [Next]_vars => Types'
<1> SUFFICES ASSUME Types, [Next]_vars PROVE Types'
    OBVIOUS
<1> USE Lists DEF Types, TypeOK, Migrating, cluster, store, history, Goto
<1>1. ASSUME NEW n \in Node, EnsureRSAKey(n) PROVE Types'
  <2>1. raced' \in BOOLEAN
    BY <1>1 DEF EnsureRSAKey
  <2>2. CASE rsaKey # Nothing
    BY <1>1, <2>1, <2>2 DEF EnsureRSAKey
  <2>3. CASE rsaKey = Nothing
    BY <1>1, <2>1, <2>3 DEF EnsureRSAKey
  <2> QED
    BY <2>2, <2>3
<1>2. ASSUME NEW n \in Node, StoreRSAKey(n) PROVE Types'
    BY <1>2 DEF StoreRSAKey
<1>3. ASSUME NEW n \in Node, Register(n) PROVE Types'
    BY <1>3 DEF Register, Up
<1>4. ASSUME NEW n \in Node, LoadInstances(n) PROVE Types'
    BY <1>4 DEF LoadInstances
<1>5. ASSUME NEW n \in Node, LoadKnown(n) PROVE Types'
    BY <1>5 DEF LoadKnown, Known
<1>6. ASSUME NEW n \in Node, LoadCurrent(n) PROVE Types'
  <2>1. CASE current = Nothing
    BY <1>6, <2>1 DEF LoadCurrent
  <2>2. CASE current # Nothing
    <3>1. [ids |-> snap[n].ids \cup {current}, legacy |-> {current}] \in List
      BY <2>2
    <3> QED
      BY <1>6, <2>2, <3>1 DEF LoadCurrent
  <2> QED
    BY <2>1, <2>2
<1>7. ASSUME NEW n \in Node, StoreInstance(n) PROVE Types'
    BY <1>7 DEF StoreInstance
<1>8. ASSUME NEW n \in Node, StoreInstances(n) PROVE Types'
    BY <1>8 DEF StoreInstances
<1>9. ASSUME NEW n \in Node, Stop(n) PROVE Types'
    BY <1>9 DEF Stop
<1>10. ASSUME NEW i \in Instance, Install(i) PROVE Types'
    BY <1>10 DEF Install, Crossing
<1>11. ASSUME NEW i \in Instance, Uninstall(i) PROVE Types'
    BY <1>11 DEF Uninstall, Without, Crossing
<1>12. ASSUME NEW i \in Instance, SetV2Legacy(i) PROVE Types'
  <2>1. Marked(list, i) \in List
    BY DEF Marked, List
  <2> QED
    BY <1>12, <2>1 DEF SetV2Legacy, Crossing
<1>13. CASE MigrateV3InstancesToV2
    BY <1>13 DEF MigrateV3InstancesToV2, LegacyInstance, Crossing
<1>14. CASE SetKnown
    BY <1>14 DEF SetKnown, KnownAfter, Crossing
<1>15. CASE DeleteInstances
    BY <1>15 DEF DeleteInstances, Crossing
<1>16. CASE Disable \/ GiveUp \/ Enable
    BY <1>16 DEF Disable, GiveUp, Enable
<1>17. CASE UNCHANGED vars
    BY <1>17 DEF vars
<1> QED
    BY <1>1, <1>2, <1>3, <1>4, <1>5, <1>6, <1>7, <1>8, <1>9, <1>10, <1>11, <1>12,
       <1>13, <1>14, <1>15, <1>16, <1>17 DEF Next

-----------------------------------------------------------------------------
(* The RSA key                                                             *)

(* Unless two servers raced, at most one is about to store a key, while    *)
(* there is none, and every key in use is the one stored.                  *)
KeysInv ==
    /\ \A n \in Node : /\ state[n] \notin {"down", "rsa"} => config[n] # Nothing
                       /\ config[n] # Nothing => rsaKey # Nothing
    /\ rsaKey = Nothing => jira = Nothing
    /\ ~raced =>
          /\ \A n \in Node : config[n] \in {Nothing, rsaKey}
          /\ \A n, m \in Node : state[n] = "rsa" /\ state[m] = "rsa" => n = m
          /\ \A n \in Node : state[n] = "rsa" => rsaKey = Nothing
          /\ jira \in {Nothing, rsaKey}

(* A server that moves on, with the key it has, takes nothing away.        *)
LEMMA KeysKept ==
    ASSUME Types, KeysInv, UNCHANGED <<config, rsaKey, jira, raced>>,
           \A n \in Node : \/ state'[n] = state[n]
                           \/ state[n] \notin {"down", "rsa"} /\ state'[n] # "rsa"
    PROVE  KeysInv'
    BY DEF KeysInv

LEMMA KeysStep == Types /\ KeysInv /\ [Next]_vars => KeysInv'
<1> SUFFICES ASSUME Types, KeysInv, [Next]_vars PROVE KeysInv'
    OBVIOUS
<1> USE DEF Types, TypeOK, cluster, store, history, Goto
<1>1. ASSUME NEW n \in Node, EnsureRSAKey(n) PROVE KeysInv'
  <2>1. CASE rsaKey # Nothing
    BY <1>1, <2>1 DEF EnsureRSAKey, KeysInv
  <2>2. CASE rsaKey = Nothing
    <3>1. UNCHANGED <<config, rsaKey, jira>> /\ state' = [state EXCEPT ![n] = "rsa"]
      BY <1>1, <2>2 DEF EnsureRSAKey
    <3>2. ~raced' => ~raced /\ \A m \in Node : state[m] # "rsa"
      BY <1>1, <2>2 DEF EnsureRSAKey
    <3> QED
      BY <2>2, <3>1, <3>2 DEF KeysInv
  <2> QED
    BY <2>1, <2>2
<1>2. ASSUME NEW n \in Node, StoreRSAKey(n) PROVE KeysInv'
    BY <1>2 DEF StoreRSAKey, KeysInv
<1>3. ASSUME NEW n \in Node, Register(n) PROVE KeysInv'
    BY <1>3 DEF Register, Up, KeysInv
<1>4. ASSUME NEW n \in Node, Stop(n) PROVE KeysInv'
    BY <1>4 DEF Stop, KeysInv
<1>5. ASSUME NEW n \in Node,
             \/ LoadInstances(n) \/ LoadKnown(n) \/ LoadCurrent(n)
             \/ StoreInstance(n) \/ StoreInstances(n)
      PROVE  KeysInv'
  <2>1. UNCHANGED <<config, rsaKey, jira, raced>>
    BY <1>5 DEF LoadInstances, LoadKnown, LoadCurrent, StoreInstance, StoreInstances
  <2>2. /\ state[n] \notin {"down", "rsa"} /\ state'[n] # "rsa"
        /\ \A m \in Node \ {n} : state'[m] = state[m]
    BY <1>5 DEF LoadInstances, LoadKnown, LoadCurrent, StoreInstance, StoreInstances
  <2> QED
    BY <2>1, <2>2, KeysKept
<1>6. ASSUME \/ \E i \in Instance : Install(i) \/ Uninstall(i) \/ SetV2Legacy(i)
             \/ MigrateV3InstancesToV2 \/ SetKnown \/ DeleteInstances
             \/ Disable \/ GiveUp \/ Enable \/ UNCHANGED vars
      PROVE  KeysInv'
  <2>1. UNCHANGED <<state, config, rsaKey, jira, raced>>
    BY <1>6 DEF Install, Uninstall, SetV2Legacy, MigrateV3InstancesToV2, SetKnown,
                DeleteInstances, Disable, GiveUp, Enable, vars
  <2> QED
    BY <2>1, KeysKept
<1> QED
    BY <1>1, <1>2, <1>3, <1>4, <1>5, <1>6 DEF Next

(* All servers sign with the stored RSA key, and Jira knows it, unless two *)
(* of them were activated while there was none.                            *)
THEOREM OneKey == Spec => []KeysAgree
<1>1. Init => KeysInv
    BY DEF Init, KeysInv
<1>2. KeysInv => KeysAgree
    BY DEF KeysInv, KeysAgree, Up
<1> QED
    BY <1>1, <1>2, TypesInit, TypesStep, KeysStep, PTL DEF Spec

-----------------------------------------------------------------------------
(* What comes back                                                         *)

(* What version 2 named, and what servers migrate, was named by it once.   *)
NamedInv ==
    /\ known \cup ({current} \ {Nothing}) \subseteq old
    /\ \A n \in Node : snap[n].ids \subseteq old
    /\ UninstalledStay

LEMMA NamedStep == Types /\ NamedInv /\ [Next]_vars => NamedInv'
<1> SUFFICES ASSUME Types, NamedInv, [Next]_vars PROVE NamedInv'
    OBVIOUS
<1> USE Lists DEF Types, TypeOK, NamedInv, UninstalledStay, cluster, store, history, Goto
<1>1. ASSUME NEW n \in Node,
             EnsureRSAKey(n) \/ StoreRSAKey(n) \/ Register(n) \/ LoadInstances(n) \/ StoreInstance(n)
      PROVE  NamedInv'
    BY <1>1 DEF EnsureRSAKey, StoreRSAKey, Register, LoadInstances, StoreInstance
<1>2. ASSUME NEW n \in Node, LoadKnown(n) PROVE NamedInv'
    BY <1>2 DEF LoadKnown, Known
<1>3. ASSUME NEW n \in Node, LoadCurrent(n) PROVE NamedInv'
    BY <1>3 DEF LoadCurrent
<1>4. ASSUME NEW n \in Node, StoreInstances(n) PROVE NamedInv'
    BY <1>4 DEF StoreInstances
<1>5. ASSUME NEW n \in Node, Stop(n) PROVE NamedInv'
    BY <1>5 DEF Stop
<1>6. ASSUME NEW i \in Instance, Install(i) PROVE NamedInv'
    BY <1>6 DEF Install
<1>7. ASSUME NEW i \in Instance, Uninstall(i) PROVE NamedInv'
    BY <1>7 DEF Uninstall, Without
<1>8. ASSUME NEW i \in Instance, SetV2Legacy(i) PROVE NamedInv'
  <2>1. list'.ids = list.ids
    BY <1>8 DEF SetV2Legacy, Marked, List
  <2> QED
    BY <1>8, <2>1 DEF SetV2Legacy
<1>9. CASE MigrateV3InstancesToV2 \/ Disable \/ GiveUp \/ Enable
    BY <1>9 DEF MigrateV3InstancesToV2, Disable, GiveUp, Enable
<1>10. CASE SetKnown
    BY <1>10 DEF SetKnown, KnownAfter
<1>11. CASE DeleteInstances
    BY <1>11 DEF DeleteInstances
<1>12. CASE UNCHANGED vars
    BY <1>12 DEF vars
<1> QED
    BY <1>1, <1>2, <1>3, <1>4, <1>5, <1>6, <1>7, <1>8, <1>9, <1>10, <1>11, <1>12 DEF Next

(* What was uninstalled comes back only if version 2 named it, or a revert *)
(* made it do so: whatever commands, migrations and reverts overlap.       *)
THEOREM UninstalledDoNotReturn == Spec => []UninstalledStay
<1>1. Init => NamedInv
    BY Lists DEF Init, NamedInv, UninstalledStay
<1>2. NamedInv => UninstalledStay
    BY DEF NamedInv
<1> QED
    BY <1>1, <1>2, TypesInit, TypesStep, NamedStep, PTL DEF Spec

-----------------------------------------------------------------------------
(* What servers carry                                                      *)

LEMMA NodesStep ==
    Types /\ NodesOK /\ [Next]_vars => NodesOK'
<1> SUFFICES ASSUME Types, NodesOK, [Next]_vars PROVE NodesOK'
    OBVIOUS
<1> USE Lists DEF Types, TypeOK, NodesOK, Migrating, cluster, store, history, Goto
<1>1. ASSUME NEW n \in Node, EnsureRSAKey(n) PROVE NodesOK'
  <2>1. CASE rsaKey # Nothing
    BY <1>1, <2>1 DEF EnsureRSAKey
  <2>2. CASE rsaKey = Nothing
    BY <1>1, <2>2 DEF EnsureRSAKey
  <2> QED
    BY <2>1, <2>2
<1>2. ASSUME NEW n \in Node, StoreRSAKey(n) PROVE NodesOK'
    BY <1>2 DEF StoreRSAKey
<1>3. ASSUME NEW n \in Node, LoadInstances(n) PROVE NodesOK'
    BY <1>3 DEF LoadInstances
<1>4. ASSUME NEW n \in Node, LoadKnown(n) PROVE NodesOK'
    BY <1>4 DEF LoadKnown, Known
<1>5. ASSUME NEW n \in Node, LoadCurrent(n) PROVE NodesOK'
  <2>1. CASE current = Nothing
    BY <1>5, <2>1 DEF LoadCurrent
  <2>2. CASE current # Nothing
    <3>1. snap'[n].legacy = {current}
      BY <1>5, <2>2 DEF LoadCurrent
    <3> QED
      BY <1>5, <2>2, <3>1 DEF LoadCurrent
  <2> QED
    BY <2>1, <2>2
<1>6. ASSUME NEW n \in Node, StoreInstance(n) PROVE NodesOK'
    BY <1>6 DEF StoreInstance
<1>7. ASSUME NEW n \in Node, StoreInstances(n) PROVE NodesOK'
    BY <1>7 DEF StoreInstances
<1>8. ASSUME NEW n \in Node, Stop(n) PROVE NodesOK'
    BY <1>8 DEF Stop
<1>9. ASSUME \/ \E n \in Node : Register(n)
             \/ \E i \in Instance : Install(i) \/ Uninstall(i) \/ SetV2Legacy(i)
             \/ MigrateV3InstancesToV2 \/ SetKnown \/ DeleteInstances
             \/ Disable \/ GiveUp \/ Enable \/ UNCHANGED vars
      PROVE  NodesOK'
  <2>1. UNCHANGED <<state, config, snap, current>>
    BY <1>9 DEF Register, Install, Uninstall, SetV2Legacy, MigrateV3InstancesToV2, SetKnown,
                DeleteInstances, Disable, GiveUp, Enable, vars
  <2> QED
    BY <2>1
<1> QED
    BY <1>1, <1>2, <1>3, <1>4, <1>5, <1>6, <1>7, <1>8, <1>9 DEF Next

OneLegacyEach == OneLegacy(list) /\ \A n \in Node : OneLegacy(snap[n])

LEMMA LegacyStep ==
    Types /\ NodesOK /\ OneLegacyEach /\ [Next]_vars => OneLegacyEach'
<1> SUFFICES ASSUME Types, NodesOK, OneLegacyEach, [Next]_vars PROVE OneLegacyEach'
    OBVIOUS
<1> USE Lists DEF Types, TypeOK, OneLegacyEach, OneLegacy, cluster, store, history
<1>1. ASSUME NEW n \in Node, LoadKnown(n) PROVE OneLegacyEach'
    BY <1>1 DEF LoadKnown, Known
<1>2. ASSUME NEW n \in Node, LoadCurrent(n) PROVE OneLegacyEach'
  <2>1. CASE current = Nothing
    BY <1>2, <2>1 DEF LoadCurrent
  <2>2. CASE current # Nothing
    <3>1. OneLegacy(snap'[n])
      BY <1>2, <2>2 DEF LoadCurrent
    <3> QED
      BY <1>2, <2>2, <3>1 DEF LoadCurrent
  <2> QED
    BY <2>1, <2>2
<1>3. ASSUME NEW n \in Node, StoreInstances(n) PROVE OneLegacyEach'
    BY <1>3 DEF StoreInstances
<1>4. ASSUME NEW n \in Node, Stop(n) PROVE OneLegacyEach'
    BY <1>4 DEF Stop
<1>5. ASSUME NEW i \in Instance, Install(i) PROVE OneLegacyEach'
    BY <1>5 DEF Install
<1>6. ASSUME NEW i \in Instance, Uninstall(i) PROVE OneLegacyEach'
    BY <1>6 DEF Uninstall, Without
<1>7. ASSUME NEW i \in Instance, SetV2Legacy(i) PROVE OneLegacyEach'
  <2>1. list'.ids = list.ids /\ list'.legacy = {i} /\ i \in list.ids
    BY <1>7 DEF SetV2Legacy, Marked, List
  <2> QED
    BY <1>7, <2>1 DEF SetV2Legacy
<1>8. CASE DeleteInstances
    BY <1>8 DEF DeleteInstances
<1>9. ASSUME \/ \E n \in Node : \/ EnsureRSAKey(n) \/ StoreRSAKey(n) \/ Register(n)
                                \/ LoadInstances(n) \/ StoreInstance(n)
             \/ MigrateV3InstancesToV2 \/ SetKnown \/ Disable \/ GiveUp \/ Enable
             \/ UNCHANGED vars
      PROVE  OneLegacyEach'
  <2>1. UNCHANGED <<snap, list>>
    BY <1>9 DEF EnsureRSAKey, StoreRSAKey, Register, LoadInstances, StoreInstance,
                MigrateV3InstancesToV2, SetKnown, Disable, GiveUp, Enable, vars
  <2> QED
    BY <2>1
<1> QED
    BY <1>1, <1>2, <1>3, <1>4, <1>5, <1>6, <1>7, <1>8, <1>9 DEF Next

LEMMA ConsistentInit == Init => NodesOK /\ OneLegacyEach /\ KeysInv
    BY Lists DEF Init, NodesOK, OneLegacyEach, OneLegacy, KeysInv, Migrating

(* Types, what a server carries, one legacy instance in every list: it is  *)
(* what the theorems below start from.                                     *)
THEOREM ActivationConsistency == Spec => []IInv
<1>1. Types /\ NodesOK /\ OneLegacyEach /\ KeysInv => IInv
    BY DEF Types, OneLegacyEach, KeysInv, IInv
<1> QED
    BY <1>1, TypesInit, TypesStep, ConsistentInit, NodesStep, LegacyStep, KeysStep, PTL DEF Spec

-----------------------------------------------------------------------------
(* Migrations                                                              *)

Full == [ids |-> known \cup {current}, legacy |-> {current}]

(* What there is of an instance that some list names: a record, unless it  *)
(* was uninstalled.                                                        *)
TraceInv ==
    /\ list.ids \cup known \subseteq records \cup gone
    /\ {current, legacy} \ {Nothing} \subseteq records \cup gone
    /\ \A n \in Node : snap[n].ids \subseteq records \cup gone

LEMMA TraceStep ==
    Types /\ OneLegacyEach /\ TraceInv /\ [Next]_vars => TraceInv'
<1> SUFFICES ASSUME Types, OneLegacyEach, TraceInv, [Next]_vars PROVE TraceInv'
    OBVIOUS
<1> USE Lists DEF Types, TypeOK, TraceInv, cluster, store, history, Goto
<1>1. ASSUME NEW n \in Node,
             EnsureRSAKey(n) \/ StoreRSAKey(n) \/ Register(n) \/ LoadInstances(n) \/ StoreInstance(n)
      PROVE  TraceInv'
    BY <1>1 DEF EnsureRSAKey, StoreRSAKey, Register, LoadInstances, StoreInstance
<1>2. ASSUME NEW n \in Node, LoadKnown(n) PROVE TraceInv'
    BY <1>2 DEF LoadKnown, Known
<1>3. ASSUME NEW n \in Node, LoadCurrent(n) PROVE TraceInv'
    BY <1>3 DEF LoadCurrent
<1>4. ASSUME NEW n \in Node, StoreInstances(n) PROVE TraceInv'
    BY <1>4 DEF StoreInstances
<1>5. ASSUME NEW n \in Node, Stop(n) PROVE TraceInv'
    BY <1>5 DEF Stop
<1>6. ASSUME NEW i \in Instance, Install(i) PROVE TraceInv'
    BY <1>6 DEF Install
<1>7. ASSUME NEW i \in Instance, Uninstall(i) PROVE TraceInv'
    BY <1>7 DEF Uninstall, Without
<1>8. ASSUME NEW i \in Instance, SetV2Legacy(i) PROVE TraceInv'
  <2>1. list'.ids = list.ids
    BY <1>8 DEF SetV2Legacy, Marked, List
  <2> QED
    BY <1>8, <2>1 DEF SetV2Legacy
<1>9. CASE MigrateV3InstancesToV2
    BY <1>9 DEF MigrateV3InstancesToV2, LegacyInstance, OneLegacyEach, OneLegacy
<1>10. CASE SetKnown
    BY <1>10 DEF SetKnown, KnownAfter
<1>11. CASE DeleteInstances
    BY <1>11 DEF DeleteInstances
<1>12. CASE Disable \/ GiveUp \/ Enable
    BY <1>12 DEF Disable, GiveUp, Enable
<1>13. CASE UNCHANGED vars
    BY <1>13 DEF vars
<1> QED
    BY <1>1, <1>2, <1>3, <1>4, <1>5, <1>6, <1>7, <1>8, <1>9, <1>10, <1>11, <1>12, <1>13 DEF Next

(* Where a server that migrates is, while no command ran: what it will     *)
(* write is the whole list of version 2, and nobody installed anything.    *)
MigrationInv ==
    ~crossed =>
        /\ owed \subseteq list.ids
        /\ list.ids \ records \subseteq gone \ {current}
        /\ \A n \in Node :
              /\ state[n] \in Migrating => owed = {}
              /\ state[n] = "current" => snap[n].ids = known
              /\ state[n] \in {"record", "list"} => snap[n] = Full
              /\ state[n] = "list" => current \in records

(* A command that nothing crossed found no server migrating.               *)
LEMMA Uncrossed ==
    ASSUME crossed' = Crossing, UNCHANGED state, ~crossed'
    PROVE  ~crossed /\ \A n \in Node : state'[n] \notin Migrating
    BY DEF Crossing

LEMMA MigrationStep ==
    Types /\ NodesOK /\ TraceInv /\ MigrationInv /\ [Next]_vars => MigrationInv'
<1> SUFFICES ASSUME Types, NodesOK, TraceInv, MigrationInv, [Next]_vars, ~crossed'
             PROVE  MigrationInv'
    BY DEF MigrationInv
<1> USE Lists DEF Types, TypeOK, cluster, store, history, Goto
<1>1. ASSUME NEW n \in Node, EnsureRSAKey(n) \/ StoreRSAKey(n) \/ Stop(n)
      PROVE  MigrationInv'
  <2>1. /\ UNCHANGED <<crossed, owed, list, records, gone, current, known>>
        /\ state'[n] \notin Migrating
        /\ \A m \in Node \ {n} : state'[m] = state[m] /\ snap'[m] = snap[m]
    BY <1>1 DEF EnsureRSAKey, StoreRSAKey, Stop, Migrating
  <2>2. Full' = Full
    BY <2>1 DEF Full
  <2> QED
    BY <2>1, <2>2 DEF MigrationInv, Migrating
<1>2. ASSUME NEW n \in Node, LoadInstances(n) PROVE MigrationInv'
    BY <1>2 DEF LoadInstances, MigrationInv, Migrating, Full
<1>3. ASSUME NEW n \in Node, LoadKnown(n) PROVE MigrationInv'
    BY <1>3 DEF LoadKnown, Known, MigrationInv, Migrating, Full
<1>4. ASSUME NEW n \in Node, LoadCurrent(n) PROVE MigrationInv'
  <2>1. CASE current = Nothing
    BY <1>4, <2>1 DEF LoadCurrent, MigrationInv, Migrating, Full
  <2>2. CASE current # Nothing
    <3>1. /\ UNCHANGED <<crossed, owed, list, records, gone, current, known>>
          /\ state[n] = "current" /\ state'[n] = "record"
          /\ snap'[n] = [ids |-> snap[n].ids \cup {current}, legacy |-> {current}]
          /\ \A m \in Node \ {n} : state'[m] = state[m] /\ snap'[m] = snap[m]
      BY <1>4, <2>2 DEF LoadCurrent
    <3>2. Full' = Full /\ snap'[n] = Full
      BY <3>1 DEF Full, MigrationInv
    <3> QED
      BY <3>1, <3>2 DEF MigrationInv, Migrating
  <2> QED
    BY <2>1, <2>2
<1>5. ASSUME NEW n \in Node, StoreInstance(n) PROVE MigrationInv'
  <2>1. /\ UNCHANGED <<crossed, owed, list, gone, current, known, snap>>
        /\ state[n] = "record" /\ state'[n] = "list"
        /\ records' = records \cup {current}
        /\ \A m \in Node \ {n} : state'[m] = state[m]
    BY <1>5 DEF StoreInstance, NodesOK
  <2>2. Full' = Full
    BY <2>1 DEF Full
  <2> QED
    BY <2>1, <2>2 DEF MigrationInv, Migrating
<1>6. ASSUME NEW n \in Node, StoreInstances(n) PROVE MigrationInv'
  <2>1. /\ UNCHANGED <<crossed, owed, records, gone, current, known>>
        /\ state[n] = "list" /\ state'[n] = "up"
        /\ list' = Full /\ current \in records /\ owed = {}
        /\ \A m \in Node \ {n} : state'[m] = state[m] /\ snap'[m] = snap[m]
    BY <1>6 DEF StoreInstances, MigrationInv, Migrating
  <2>2. Full' = Full /\ list'.ids = known \cup {current}
    BY <2>1 DEF Full
  <2> QED
    BY <2>1, <2>2 DEF MigrationInv, Migrating, TraceInv
<1>7. ASSUME NEW i \in Instance, Install(i) PROVE MigrationInv'
    BY <1>7, Uncrossed DEF Install, MigrationInv, Migrating
<1>8. ASSUME NEW i \in Instance, Uninstall(i) PROVE MigrationInv'
    BY <1>8, Uncrossed DEF Uninstall, Without, MigrationInv, Migrating
<1>9. ASSUME NEW i \in Instance, SetV2Legacy(i) PROVE MigrationInv'
  <2>1. list'.ids = list.ids
    BY <1>9 DEF SetV2Legacy, Marked, List
  <2> QED
    BY <1>9, <2>1, Uncrossed DEF SetV2Legacy, MigrationInv, Migrating
<1>10. CASE MigrateV3InstancesToV2
    BY <1>10, Uncrossed DEF MigrateV3InstancesToV2, MigrationInv, Migrating
<1>11. CASE SetKnown
    BY <1>11, Uncrossed DEF SetKnown, MigrationInv, Migrating
<1>12. CASE DeleteInstances
    BY <1>12, Uncrossed DEF DeleteInstances, MigrationInv, Migrating
<1>13. ASSUME \/ \E n \in Node : Register(n)
              \/ Disable \/ GiveUp \/ Enable \/ UNCHANGED vars
       PROVE  MigrationInv'
  <2>1. UNCHANGED <<crossed, owed, list, records, gone, current, known, state, snap>>
    BY <1>13 DEF Register, Disable, GiveUp, Enable, vars
  <2> QED
    BY <2>1 DEF MigrationInv, Full
<1> QED
    BY <1>1, <1>2, <1>3, <1>4, <1>5, <1>6, <1>7, <1>8, <1>9, <1>10, <1>11, <1>12, <1>13 DEF Next

LEMMA MigrationInit == Init => TraceInv /\ MigrationInv
    BY Lists DEF Init, TraceInv, MigrationInv, Migrating

(* Unless a command came while a server migrated, nothing installed is     *)
(* lost, and what is listed has a record or was uninstalled before.        *)
THEOREM InstalledAlwaysStay == Spec => []InstalledStay
<1>1. MigrationInv => InstalledStay
    BY DEF MigrationInv, InstalledStay
<1> QED
    BY <1>1, TypesInit, TypesStep, ConsistentInit, NodesStep, LegacyStep,
       MigrationInit, TraceStep, MigrationStep, PTL DEF Spec

-----------------------------------------------------------------------------
(* The list, until commands change it                                      *)

RevertInv ==
    /\ reverted # Nothing => known = {reverted}
    /\ revert = "delete" => known = {legacy}

LEMMA RevertStep == Types /\ RevertInv /\ [Next]_vars => RevertInv'
<1> SUFFICES ASSUME Types, RevertInv, [Next]_vars PROVE RevertInv'
    OBVIOUS
<1> USE DEF RevertInv, cluster, store, history
<1>1. CASE MigrateV3InstancesToV2
    BY <1>1 DEF MigrateV3InstancesToV2
<1>2. CASE SetKnown
    BY <1>2 DEF SetKnown, KnownAfter
<1>3. CASE DeleteInstances
    BY <1>3 DEF DeleteInstances
<1>4. CASE Disable \/ GiveUp \/ Enable
    BY <1>4 DEF Disable, GiveUp, Enable
<1>5. ASSUME \/ \E n \in Node : \/ EnsureRSAKey(n) \/ StoreRSAKey(n) \/ Register(n)
                                \/ LoadInstances(n) \/ LoadKnown(n) \/ LoadCurrent(n)
                                \/ StoreInstance(n) \/ StoreInstances(n) \/ Stop(n)
             \/ \E i \in Instance : Install(i) \/ Uninstall(i) \/ SetV2Legacy(i)
             \/ UNCHANGED vars
      PROVE  RevertInv'
  <2>1. UNCHANGED <<known, revert, legacy, reverted>>
    BY <1>5 DEF EnsureRSAKey, StoreRSAKey, Register, LoadInstances, LoadKnown, LoadCurrent,
                StoreInstance, StoreInstances, Stop, Install, Uninstall, SetV2Legacy, vars
  <2> QED
    BY <2>1
<1> QED
    BY <1>1, <1>2, <1>3, <1>4, <1>5 DEF Next

(* The list is what a migration stores, or empty, and then only a revert   *)
(* leaves a server up.                                                     *)
ListInv ==
    ~crossed /\ ~changed /\ current # Nothing =>
        /\ list \in {Empty, Full}
        /\ reverted = Nothing /\ list = Empty => Up = {}

LEMMA ListStep ==
    Types /\ NodesOK /\ MigrationInv /\ ListInv /\ [Next]_vars => ListInv'
<1> SUFFICES ASSUME Types, NodesOK, MigrationInv, ListInv, [Next]_vars,
                    ~crossed', ~changed', current' # Nothing
             PROVE  /\ list' \in {Empty, Full'}
                    /\ reverted' = Nothing /\ list' = Empty => Up' = {}
    BY DEF ListInv
<1> DEFINE Goal == /\ list' \in {Empty, Full'}
                   /\ reverted' = Nothing /\ list' = Empty => Up' = {}
<1> USE Lists DEF Types, TypeOK, cluster, store, history, Goto
<1>1. ASSUME NEW n \in Node,
             \/ EnsureRSAKey(n) \/ StoreRSAKey(n) \/ Register(n) \/ LoadInstances(n)
             \/ LoadKnown(n) \/ LoadCurrent(n) \/ StoreInstance(n) \/ Stop(n)
      PROVE  Goal
  <2>1. UNCHANGED <<crossed, changed, current, known, list, reverted>>
    BY <1>1 DEF EnsureRSAKey, StoreRSAKey, Register, LoadInstances, LoadKnown, LoadCurrent,
                StoreInstance, Stop
  <2>2. Full' = Full
    BY <2>1 DEF Full
  <2>3. list = Empty => state'[n] # "up" \/ state'[n] = state[n]
    BY <1>1, <2>1 DEF EnsureRSAKey, StoreRSAKey, Register, LoadInstances, LoadKnown, LoadCurrent,
                StoreInstance, Stop
  <2>4. \A m \in Node \ {n} : state'[m] = state[m]
    BY <1>1 DEF EnsureRSAKey, StoreRSAKey, Register, LoadInstances, LoadKnown, LoadCurrent,
                StoreInstance, Stop
  <2> QED
    BY <2>1, <2>2, <2>3, <2>4 DEF ListInv, Up
<1>2. ASSUME NEW n \in Node, StoreInstances(n) PROVE Goal
  <2>1. UNCHANGED <<crossed, current, known>> /\ list' = Full
    BY <1>2 DEF StoreInstances, MigrationInv
  <2>2. Full' = Full
    BY <2>1 DEF Full
  <2>3. Full.ids # {}
    BY DEF Full
  <2> QED
    BY <2>1, <2>2, <2>3
<1>3. CASE DeleteInstances
    BY <1>3 DEF DeleteInstances
<1>4. ASSUME \/ \E i \in Instance : Install(i) \/ Uninstall(i) \/ SetV2Legacy(i)
             \/ SetKnown
      PROVE  Goal
    BY <1>4 DEF Install, Uninstall, SetV2Legacy, SetKnown
<1>5. ASSUME MigrateV3InstancesToV2 \/ Disable \/ GiveUp \/ Enable \/ UNCHANGED vars
      PROVE  Goal
  <2>1. UNCHANGED <<changed, current, known, list, reverted, state>>
    BY <1>5 DEF MigrateV3InstancesToV2, Disable, GiveUp, Enable, vars
  <2>2. ~crossed
    BY <1>5 DEF MigrateV3InstancesToV2, Crossing, Disable, GiveUp, Enable, vars
  <2> QED
    BY <2>1, <2>2 DEF ListInv, Full, Up
<1> QED
    BY <1>1, <1>2, <1>3, <1>4, <1>5 DEF Next

LEMMA ListInit == Init => RevertInv /\ ListInv
    BY DEF Init, RevertInv, ListInv, Up

(* A server that is up has the whole list of version 2, whatever broke off *)
(* and whoever else migrated, until commands change the list.              *)
THEOREM MigrationsComplete == Spec => []MigrationComplete
<1>1. ListInv => MigrationComplete
    BY DEF ListInv, MigrationComplete, Full
<1> QED
    BY <1>1, TypesInit, TypesStep, ConsistentInit, NodesStep, LegacyStep,
       MigrationInit, TraceStep, MigrationStep, ListInit, ListStep, PTL DEF Spec

(* After a revert to the instance that was current in version 2, servers   *)
(* that are activated again have that one and no other.                    *)
THEOREM RevertsRestore == Spec => []RevertRestores
<1>1. ListInv /\ RevertInv => RevertRestores
    BY DEF ListInv, RevertInv, RevertRestores, Full
<1> QED
    BY <1>1, TypesInit, TypesStep, ConsistentInit, NodesStep, LegacyStep, RevertStep,
       MigrationInit, TraceStep, MigrationStep, ListInit, ListStep, PTL DEF Spec
=============================================================================
