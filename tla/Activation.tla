----------------------------- MODULE Activation -----------------------------
(***************************************************************************)
(* The activation of the plugin on the servers of a cluster: the RSA key   *)
(* that signs requests to Jira server, and the migration of the instances  *)
(* from version 2 of the plugin, which kept the known instances and the    *)
(* current one under two other keys.  And the way back, /jira v2revert,    *)
(* which writes the old keys and has the plugin disabled.  Each of them is *)
(* a sequence of calls of the store; servers activate and stop as they     *)
(* like.  Nothing ever deletes the keys of version 2.                      *)
(*                                                                         *)
(* The commands that change the list of instances are one step here        *)
(* (module Instances has theirs).                                          *)
(***************************************************************************)
EXTENDS FiniteSets

CONSTANTS
    Node,       \* Mattermost servers of the cluster
    Instance,   \* Jira instances
    Nothing     \* no key, no instance

ASSUME ActivationAssumption == Nothing \notin Node \cup Instance

\* A list of instances: of which it consists, and which it marks as legacy
List == [ids: SUBSET Instance, legacy: SUBSET Instance]

Empty == [ids |-> {}, legacy |-> {}]

VARIABLES
    enabled,    \* the plugin is
    state,      \* how far each server is
    config,     \* the RSA key each server has loaded
    snap,       \* the list each server migrates
    rsaKey,     \* the stored RSA key, by the server that generated it
    jira,       \* the public key in the application link of Jira server
    list,       \* the stored list, keyInstances
    records,    \* instances with a record
    known,      \* v2keyKnownJiraInstances
    current,    \* v2keyCurrentJIRAInstance
    revert,     \* where /jira v2revert is
    legacy,     \* the legacy instance it has found
    raced,      \* history: two servers found no RSA key at the same time
    crossed,    \* history: a command ran while a server was migrating
    changed,    \* history: commands changed the lists since the migration
    owed,       \* history: instances installed, and not uninstalled since
    gone,       \* history: instances uninstalled, and not installed since
    old,        \* history: instances the keys of version 2 ever named
    reverted    \* history: the legacy instance of the last revert

cluster == <<enabled, state, config, snap>>
store   == <<rsaKey, jira, list, records, known, current>>
history == <<raced, crossed, changed, owed, gone, old, reverted>>
vars    == <<cluster, store, revert, legacy, history>>

Migrating == {"known", "current", "record", "list"}

TypeOK ==
    /\ enabled \in BOOLEAN
    /\ state \in [Node -> {"down", "rsa", "load", "up"} \cup Migrating]
    /\ config \in [Node -> Node \cup {Nothing}]
    /\ snap \in [Node -> List]
    /\ rsaKey \in Node \cup {Nothing}
    /\ jira \in Node \cup {Nothing}
    /\ list \in List
    /\ records \subseteq Instance
    /\ known \subseteq Instance
    /\ current \in Instance \cup {Nothing}
    /\ revert \in {"none", "known", "delete", "disable"}
    /\ legacy \in Instance \cup {Nothing}
    /\ raced \in BOOLEAN /\ crossed \in BOOLEAN /\ changed \in BOOLEAN
    /\ owed \subseteq Instance /\ gone \subseteq Instance /\ old \subseteq Instance
    /\ reverted \in Instance \cup {Nothing}

\* Version 2 knew some instances, each with its record, and one was current,
\* if any; a new installation has none.
Init ==
    /\ enabled = TRUE
    /\ state = [n \in Node |-> "down"]
    /\ config = [n \in Node |-> Nothing]
    /\ snap = [n \in Node |-> Empty]
    /\ rsaKey = Nothing /\ jira = Nothing
    /\ list = Empty
    /\ known \in SUBSET Instance
    /\ records = known /\ old = known
    /\ current \in known \cup {Nothing}
    /\ revert = "none" /\ legacy = Nothing
    /\ raced = FALSE /\ crossed = FALSE /\ changed = FALSE
    /\ owed = {} /\ gone = {} /\ reverted = Nothing

Up == {n \in Node : state[n] = "up"}

Goto(n, s) == state' = [state EXCEPT ![n] = s]

-----------------------------------------------------------------------------
(* The RSA key.                                                            *)

\* Mutant: a server makes a key of its own.
EnsureRSAKeyAfresh(n) ==
    /\ enabled /\ state[n] = "down"
    /\ Goto(n, "rsa")
    /\ UNCHANGED <<enabled, config, snap, store, revert, legacy, history>>

\* OnActivate, up to EnsureRSAKey finding a key, or none
EnsureRSAKey(n) ==
    /\ enabled /\ state[n] = "down"
    /\ IF rsaKey # Nothing
       THEN /\ config' = [config EXCEPT ![n] = rsaKey]
            /\ Goto(n, "load")
            /\ UNCHANGED raced
       ELSE /\ Goto(n, "rsa")
            /\ raced' = (raced \/ \E m \in Node : state[m] = "rsa")
            /\ UNCHANGED config
    /\ UNCHANGED <<enabled, snap, store, revert, legacy,
                   crossed, changed, owed, gone, old, reverted>>

\* It stores what it generated, whatever is stored by now, and uses it.
StoreRSAKey(n) ==
    /\ state[n] = "rsa"
    /\ rsaKey' = n
    /\ config' = [config EXCEPT ![n] = n]
    /\ Goto(n, "load")
    /\ UNCHANGED <<enabled, snap, jira, list, records, known, current,
                   revert, legacy, history>>

\* /jira instance install server: the administrator copies the public key of
\* the server that answers into Jira.
Register(n) ==
    /\ n \in Up
    /\ jira' = config[n]
    /\ UNCHANGED <<cluster, rsaKey, list, records, known, current,
                   revert, legacy, history>>

-----------------------------------------------------------------------------
(* MigrateV2Instances.                                                     *)

\* Mutant: what there is is migrated again.
LoadInstancesAnyway(n) ==
    /\ state[n] = "load"
    /\ Goto(n, "known")
    /\ UNCHANGED <<enabled, config, snap, store, revert, legacy, history>>

\* A list that is not empty is used; an empty one counts as missing.
LoadInstances(n) ==
    /\ state[n] = "load"
    /\ Goto(n, IF list.ids # {} THEN "up" ELSE "known")
    /\ UNCHANGED <<enabled, config, snap, store, revert, legacy, history>>

\* Mutant: the old list is not understood.
NothingKnown == Empty

Known == [ids |-> known, legacy |-> {}]

LoadKnown(n) ==
    /\ state[n] = "known"
    /\ snap' = [snap EXCEPT ![n] = Known]
    /\ Goto(n, "current")
    /\ UNCHANGED <<enabled, config, store, revert, legacy, history>>

\* Without a current instance, the list is returned and never stored.
LoadCurrent(n) ==
    /\ state[n] = "current"
    /\ IF current = Nothing
       THEN Goto(n, "up") /\ snap' = [snap EXCEPT ![n] = Empty]
       ELSE /\ Goto(n, "record")
            /\ snap' = [snap EXCEPT ![n] = [ids |-> @.ids \cup {current},
                                            legacy |-> {current}]]
    /\ UNCHANGED <<enabled, config, store, revert, legacy, history>>

StoreInstance(n) ==
    /\ state[n] = "record"
    /\ records' = records \cup snap[n].legacy
    /\ Goto(n, "list")
    /\ UNCHANGED <<enabled, config, snap, rsaKey, jira, list, known, current,
                   revert, legacy, history>>

StoreInstances(n) ==
    /\ state[n] = "list"
    /\ list' = snap[n]
    /\ snap' = [snap EXCEPT ![n] = Empty]
    /\ Goto(n, "up")
    /\ changed' = FALSE
    /\ UNCHANGED <<enabled, config, rsaKey, jira, records, known, current,
                   revert, legacy, raced, crossed, owed, gone, old, reverted>>

\* A server stops, or a call of its activation fails.
Stop(n) ==
    /\ state[n] # "down"
    /\ Goto(n, "down")
    /\ config' = [config EXCEPT ![n] = Nothing]
    /\ snap' = [snap EXCEPT ![n] = Empty]
    /\ UNCHANGED <<enabled, store, revert, legacy, history>>

-----------------------------------------------------------------------------
(* Commands, on any server that is up.                                     *)

Crossing == crossed \/ \E n \in Node : state[n] \in Migrating

Install(i) ==
    /\ Up # {}
    /\ list' = [ids |-> list.ids \cup {i}, legacy |-> list.legacy \ {i}]
    /\ records' = records \cup {i}
    /\ crossed' = Crossing
    /\ changed' = TRUE
    /\ owed' = owed \cup {i}
    /\ gone' = gone \ {i}
    /\ UNCHANGED <<cluster, rsaKey, jira, known, current, revert, legacy, raced, old, reverted>>

\* Mutant: the list stays.
StillListed(l, i) == l

Without(l, i) == [ids |-> l.ids \ {i}, legacy |-> l.legacy \ {i}]

Uninstall(i) ==
    /\ Up # {}
    /\ i \in list.ids
    /\ list' = Without(list, i)
    /\ records' = records \ {i}
    /\ crossed' = Crossing
    /\ changed' = TRUE
    /\ owed' = owed \ {i}
    /\ gone' = gone \cup {i}
    /\ UNCHANGED <<cluster, rsaKey, jira, known, current, revert, legacy, raced, old, reverted>>

\* Mutant: the instance that was the legacy one stays it.
MarkedToo(l, i) == [l EXCEPT !.legacy = @ \cup {i}]

Marked(l, i) == [l EXCEPT !.legacy = {i}]

\* /jira instance v2
SetV2Legacy(i) ==
    /\ Up # {}
    /\ i \in list.ids
    /\ list' = Marked(list, i)
    /\ crossed' = Crossing
    /\ changed' = TRUE
    /\ UNCHANGED <<cluster, rsaKey, jira, records, known, current, revert, legacy,
                   raced, owed, gone, old, reverted>>

-----------------------------------------------------------------------------
(* /jira v2revert --force: MigrateV3ToV2.                                  *)

\* GetV2Legacy
LegacyInstance == list.legacy

MigrateV3InstancesToV2 ==
    /\ Up # {}
    /\ revert = "none"
    /\ \E i \in LegacyInstance : legacy' = i
    /\ revert' = "known"
    /\ crossed' = Crossing
    /\ UNCHANGED <<cluster, store, raced, changed, owed, gone, old, reverted>>

\* Mutant: all instances are kept.
AllOfThem == list.ids

KnownAfter == {legacy}

\* Known is the legacy instance alone; the current one stays what it was.
SetKnown ==
    /\ revert = "known"
    /\ known' = KnownAfter
    /\ revert' = "delete"
    /\ crossed' = Crossing
    /\ changed' = TRUE
    /\ old' = old \cup {legacy}
    /\ reverted' = Nothing
    /\ UNCHANGED <<cluster, rsaKey, jira, list, records, current, legacy,
                   raced, owed, gone>>

DeleteInstances ==
    /\ revert = "delete"
    /\ list' = Empty
    /\ revert' = "disable"
    /\ reverted' = legacy
    /\ crossed' = Crossing
    /\ changed' = FALSE
    /\ owed' = {}
    /\ UNCHANGED <<cluster, rsaKey, jira, records, known, current, legacy, raced, gone, old>>

\* A goroutine has the plugin disabled, after the answer.
Disable ==
    /\ revert = "disable"
    /\ enabled' = FALSE
    /\ revert' = "none" /\ legacy' = Nothing
    /\ UNCHANGED <<state, config, snap, store, history>>

\* The server of the command dies, or a call of the store fails.
GiveUp ==
    /\ revert # "none"
    /\ revert' = "none" /\ legacy' = Nothing
    /\ UNCHANGED <<cluster, store, history>>

\* An administrator enables the plugin, once it has stopped everywhere.
Enable ==
    /\ ~enabled
    /\ \A n \in Node : state[n] = "down"
    /\ enabled' = TRUE
    /\ UNCHANGED <<state, config, snap, store, revert, legacy, history>>

-----------------------------------------------------------------------------
Next ==
    \/ \E n \in Node :
          \/ EnsureRSAKey(n) \/ StoreRSAKey(n) \/ Register(n)
          \/ LoadInstances(n) \/ LoadKnown(n) \/ LoadCurrent(n)
          \/ StoreInstance(n) \/ StoreInstances(n) \/ Stop(n)
    \/ \E i \in Instance : Install(i) \/ Uninstall(i) \/ SetV2Legacy(i)
    \/ MigrateV3InstancesToV2 \/ SetKnown \/ DeleteInstances \/ Disable \/ GiveUp \/ Enable

Spec == Init /\ [][Next]_vars

-----------------------------------------------------------------------------
(* Properties.                                                             *)

\* What a server carries from one call of its activation to the next.
NodesOK ==
    \A n \in Node :
        /\ state[n] \in {"down", "rsa"} <=> config[n] = Nothing
        /\ state[n] \notin {"current", "record", "list"} => snap[n] = Empty
        /\ state[n] \in {"record", "list"} => snap[n].legacy = {current} /\ current # Nothing
        /\ state[n] = "current" => snap[n].legacy = {}

\* No list has more than one legacy instance, nor one that is not in it.
OneLegacy(l) == l.legacy \subseteq l.ids /\ \A i, j \in l.legacy : i = j

IInv ==
    /\ TypeOK
    /\ NodesOK
    /\ OneLegacy(list) /\ \A n \in Node : OneLegacy(snap[n])
    /\ revert # "none" <=> legacy # Nothing
    /\ rsaKey = Nothing => jira = Nothing

\* A server that is up has the instances of version 2 in its list, and the
\* current one as the legacy one, until commands change the list: a migration
\* that breaks off is made up for, and one that several servers make at the
\* same time is made once.
MigrationComplete ==
    Up # {} /\ current # Nothing /\ ~changed /\ reverted = Nothing /\ ~crossed =>
        list = [ids |-> known \cup {current}, legacy |-> {current}]

\* What administrators installed stays until it is uninstalled or reverted, and
\* what is listed has a record, or LoadInstance would fail for it: in whatever
\* order servers migrate, stop and start over, unless a command came while one
\* migrated.  Only what was uninstalled and a later migration brings back is
\* listed without a record.
InstalledStay ==
    ~crossed => /\ owed \subseteq list.ids
                /\ list.ids \ records \subseteq gone \ {current}

\* What they uninstalled does not come back, except, when nothing else is
\* left at an activation, what the keys of version 2 name or named.
UninstalledStay == gone \cap list.ids \subseteq old

\* /jira v2revert says: "all non-legacy instances being removed", and "you can
\* re-enable the plugin": the legacy instance is there again, and no other,
\* if it is the one that was current in version 2, as soon as a server was
\* activated again.
RevertRestores ==
    /\ reverted # Nothing /\ reverted = current /\ revert = "none"
    /\ Up # {} /\ enabled /\ ~changed /\ ~crossed /\ list # Empty
    => list = [ids |-> {reverted}, legacy |-> {reverted}]

\* All servers sign with the stored RSA key, and Jira knows it, unless two of
\* them were activated while there was none.
KeysAgree ==
    ~raced => /\ \A n \in Up : config[n] = rsaKey
              /\ jira # Nothing => jira = rsaKey

=============================================================================
