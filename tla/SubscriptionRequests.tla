------------------------ MODULE SubscriptionRequests ------------------------
(***************************************************************************)
(* The handlers that read and change the subscriptions of one Jira         *)
(* instance, as any number of requests interleave on any number of plugin  *)
(* servers that share the key-value store:                                 *)
(*                                                                         *)
(*   create   httpChannelCreateSubscription, addChannelSubscription        *)
(*   edit     httpChannelEditSubscription, editChannelSubscription         *)
(*   delete   httpChannelDeleteSubscription, removeChannelSubscription     *)
(*   list     /jira subscribe list, listChannelSubscriptions               *)
(*                                                                         *)
(* The first three change the store with KV.SetAtomicWithRetries: read the *)
(* value, compute the new one, write it if the stored bytes are still the  *)
(* ones read, and otherwise try again.  The name check of create and edit  *)
(* reads the store a second time, between the read and the write.          *)
(***************************************************************************)
EXTENDS ChannelSubscriptions, Naturals

CONSTANTS
    Request,        \* requests that may be in progress at the same time
    Kind,           \* the operations they perform
    NoID,           \* the ID of an operation that names no subscription
    DirectChannel,  \* each user's direct channel with the bot
    EventSets,      \* the sets of events a user selects
    Encoding,       \* the byte strings one value marshals to
    MaxTries        \* attempts of SetAtomicWithRetries

ASSUME RequestAssumption ==
    /\ Kind \subseteq {"create", "edit", "delete", "list"}
    /\ NoID \notin SubID
    /\ DirectChannel \in [User -> Channel]
    /\ EventSets \subseteq SUBSET Event
    /\ Encoding # {}
    /\ MaxTries \in Nat \ {0}

VARIABLES
    store,      \* the stored value: the subscriptions and their encoding
    issued,     \* identifiers of the subscriptions ever stored
    pc,         \* where each request is
    op,         \* what it was asked to do
    snap,       \* the value its last read of the store returned
    tries       \* the attempts that lost the race to write

vars == <<store, issued, pc, op, snap, tries>>

\* The handlers override the user and the channel of the request body with
\* the acting user and that user's direct channel with the bot.
Requested == {[user |-> u, channel |-> DirectChannel[u], name |-> n, events |-> es] :
                 u \in User, n \in Name, es \in EventSets}

NoOp    == [kind |-> "none", id |-> NoID, sub |-> NoSub]
Creates == [kind: {"create"}, id: {NoID}, sub: Requested]
Edits   == [kind: {"edit"},   id: SubID,  sub: Requested]
Deletes == [kind: {"delete"}, id: SubID,  sub: {NoSub}]
Lists   == [kind: {"list"},   id: {NoID}, sub: {NoSub}]
Op      == {o \in Creates \cup Edits \cup Deletes \cup Lists : o.kind \in Kind}

Stored  == [subs: Subscriptions, enc: Encoding]
NoSnap  == [subs |-> NewSubscriptions, enc |-> CHOOSE e \in Encoding : TRUE]

Working  == {"lookup", "get", "validate", "cas", "reread"}
Answered == {"ok", "failed", "panic"}

TypeOK ==
    /\ store \in Stored
    /\ issued \in SUBSET SubID
    /\ pc \in [Request -> {"idle"} \cup Working \cup Answered]
    /\ op \in [Request -> Op \cup {NoOp}]
    /\ snap \in [Request -> Stored]
    /\ tries \in [Request -> 0 .. MaxTries]

Init ==
    /\ store \in [subs: {NewSubscriptions}, enc: Encoding]
    /\ issued = {}
    /\ pc = [r \in Request |-> "idle"]
    /\ op = [r \in Request |-> NoOp]
    /\ snap = [r \in Request |-> NoSnap]
    /\ tries = [r \in Request |-> 0]

-----------------------------------------------------------------------------
Goto(r, l) == pc' = [pc EXCEPT ![r] = l]

\* A request arrives.  Delete first reads the subscription it will name in
\* its notice; the others start with the read of SetAtomicWithRetries (list:
\* of getSortedSubscriptions).
Submit(r, o) ==
    /\ pc[r] = "idle"
    /\ Goto(r, IF o.kind = "delete" THEN "lookup" ELSE "get")
    /\ op' = [op EXCEPT ![r] = o]
    /\ UNCHANGED <<store, issued, snap, tries>>

\* Every early return that changes nothing: the request does not decode, the
\* bot's direct channel or the Jira client cannot be had, a store call fails,
\* an input check of validateSubscription or Jira's answer refuses it.
Refuse(r) ==
    /\ pc[r] \in Working
    /\ Goto(r, "failed")
    /\ UNCHANGED <<store, issued, op, snap, tries>>

\* getChannelSubscription in the delete handler
Lookup(r) ==
    /\ pc[r] = "lookup"
    /\ Goto(r, IF store.subs.byID[op[r].id] = NoSub THEN "failed" ELSE "get")
    /\ UNCHANGED <<store, issued, op, snap, tries>>

\* The read that starts an attempt; edit and delete fail when the value read
\* no longer holds the subscription.
Get(r) ==
    /\ pc[r] = "get"
    /\ op[r].kind # "list"
    /\ \/ /\ op[r].kind \in {"edit", "delete"}
          /\ store.subs.byID[op[r].id] = NoSub
          /\ Goto(r, "failed")
          /\ UNCHANGED snap
       \/ /\ op[r].kind \in {"edit", "delete"} => store.subs.byID[op[r].id] # NoSub
          /\ snap' = [snap EXCEPT ![r] = store]
          /\ Goto(r, IF op[r].kind = "delete" THEN "cas" ELSE "validate")
    /\ UNCHANGED <<store, issued, op, tries>>

\* Mutant: the names of the channel's subscriptions are not compared.
ValidateInput(r) ==
    /\ pc[r] = "validate"
    /\ Goto(r, IF op[r].sub.events = {} THEN "failed" ELSE "cas")
    /\ UNCHANGED <<store, issued, op, snap, tries>>

\* validateSubscription: the names are those of the store as it is now, not
\* those of the value the attempt will replace.
Validate(r) ==
    /\ pc[r] = "validate"
    /\ Goto(r, IF op[r].sub.events = {} \/ NameTaken(store.subs, op[r].id, op[r].sub)
               THEN "failed" ELSE "cas")
    /\ UNCHANGED <<store, issued, op, snap, tries>>

\* The new value an attempt computes from the value it read.
NewValue(s, o, id) ==
    CASE o.kind = "create" -> Add(s, id, o.sub)
      [] o.kind = "edit"   -> Replace(s, id, o.sub)
      [] o.kind = "delete" -> Remove(s, id, s.byID[id])

\* Mutant: a plain Set, whatever the store holds by now.
WriteBlindly(r) ==
    /\ pc[r] = "cas"
    /\ \E id \in (IF op[r].kind = "create" THEN SubID \ issued ELSE {op[r].id}),
          enc \in Encoding :
          /\ store' = [subs |-> NewValue(snap[r].subs, op[r], id), enc |-> enc]
          /\ issued' = issued \cup {id}
    /\ Goto(r, "ok")
    /\ UNCHANGED <<op, snap, tries>>

\* The compare-and-set finds the bytes it read.  The identifier of a new
\* subscription is fresh; StringSet marshals in map order, so the value
\* written has any of its encodings.
Write(r) ==
    /\ pc[r] = "cas"
    /\ store = snap[r]
    /\ \E id \in (IF op[r].kind = "create" THEN SubID \ issued ELSE {op[r].id}),
          enc \in Encoding :
          /\ store' = [subs |-> NewValue(snap[r].subs, op[r], id), enc |-> enc]
          /\ issued' = issued \cup {id}
    /\ Goto(r, "ok")
    /\ UNCHANGED <<op, snap, tries>>

\* Mutant: the attempts are not counted, and never given up.
ConflictUncounted(r) ==
    /\ pc[r] = "cas"
    /\ store # snap[r]
    /\ Goto(r, "get")
    /\ UNCHANGED <<store, issued, op, snap, tries>>

\* The compare-and-set finds other bytes: one more attempt, or give up.
Conflict(r) ==
    /\ pc[r] = "cas"
    /\ store # snap[r]
    /\ tries' = [tries EXCEPT ![r] = @ + 1]
    /\ Goto(r, IF tries[r] + 1 = MaxTries THEN "failed" ELSE "get")
    /\ UNCHANGED <<store, issued, op, snap>>

\* getSortedSubscriptions, the first read of the list: it collects the
\* identifiers of every channel.
GetForList(r) ==
    /\ pc[r] = "get"
    /\ op[r].kind = "list"
    /\ snap' = [snap EXCEPT ![r] = store]
    /\ Goto(r, "reread")
    /\ UNCHANGED <<store, issued, op, tries>>

\* listChannelSubscriptions reads the store again and looks up the
\* identifiers of its first read.  (The code reads once per channel; one
\* second read reaches the same outcomes.)  A subscription that has gone
\* reads as the zero value, and Projects.Elems()[0] is out of range.
Reread(r) ==
    /\ pc[r] = "reread"
    /\ Goto(r, IF Present(snap[r].subs) \subseteq Present(store.subs) THEN "ok" ELSE "panic")
    /\ UNCHANGED <<store, issued, op, snap, tries>>

\* The handler posts its notice and returns, or the server it runs on dies
\* at any point of it: either way nothing of the request is left but what it
\* wrote to the store.
Forget(r) ==
    /\ Goto(r, "idle")
    /\ op' = [op EXCEPT ![r] = NoOp]
    /\ snap' = [snap EXCEPT ![r] = NoSnap]
    /\ tries' = [tries EXCEPT ![r] = 0]
    /\ UNCHANGED <<store, issued>>

Finish(r) == pc[r] \in Answered /\ Forget(r)

Crash(r) == pc[r] \in Working /\ Forget(r)

-----------------------------------------------------------------------------
Step(r) ==
    \/ Lookup(r)
    \/ Get(r)
    \/ Validate(r)
    \/ Write(r)
    \/ Conflict(r)
    \/ GetForList(r)
    \/ Reread(r)
    \/ Finish(r)

Next ==
    \E r \in Request :
        \/ \E o \in Op : Submit(r, o)
        \/ Refuse(r)
        \/ Crash(r)
        \/ Step(r)

Spec == Init /\ [][Next]_vars

\* The Go scheduler keeps running a handler that has started; nothing makes
\* a user send one, a store call fail or a server die.
FairSpec == Spec /\ \A r \in Request : WF_vars(Step(r))

-----------------------------------------------------------------------------
(* Safety: whatever interleaves, the three maps of the stored value agree. *)
StoredIndexesMatch == IndexesMatch(store.subs)

(* The values the store and the requests hold were all written by Add and  *)
(* Remove on a consistent value, from identifiers already issued.          *)
ValuesConsistent ==
    \A s \in {store.subs} \cup {snap[r].subs : r \in Request} :
        IndexesMatch(s) /\ Present(s) \subseteq issued

(* A request is at a step its operation has, and one that is about to      *)
(* write edits or deletes a subscription its own read found: the zero      *)
(* value is never removed or replaced.                                     *)
RequestsConsistent ==
    \A r \in Request :
        /\ pc[r] # "idle"     => op[r] \in Op
        /\ pc[r] \in Working \cup {"idle"} => tries[r] < MaxTries
        /\ pc[r] = "lookup"   => op[r].kind = "delete"
        /\ pc[r] = "reread"   => op[r].kind = "list"
        /\ pc[r] = "validate" => op[r].kind \in {"create", "edit"}
        /\ pc[r] = "cas"      => op[r].kind \in {"create", "edit", "delete"}
        /\ (pc[r] \in {"validate", "cas"} /\ op[r].kind # "create")
              => snap[r].subs.byID[op[r].id] # NoSub

(* The inductive invariant of the proofs.                                  *)
IInv == TypeOK /\ ValuesConsistent /\ RequestsConsistent

(* validateSubscription answers "already exists. Please choose another     *)
(* name.": no two subscriptions of a channel have the same name.           *)
UniqueNames == NamesUnique(store.subs)

(* A deleted subscription stays deleted: an edit that was under way when   *)
(* it was deleted does not bring it back.                                  *)
DeletedStaysDeleted ==
    [][\A id \in issued \ Present(store.subs) : id \notin Present(store'.subs)]_vars

(* Liveness: a request that has started is answered, however many others   *)
(* keep winning the race to write (unless a create finds no identifier     *)
(* left in SubID, which is the model's bound).                             *)
EveryRequestAnswered ==
    \A r \in Request : pc[r] \in Working ~> (pc[r] \notin Working \/ issued = SubID)

-----------------------------------------------------------------------------
(* Each request takes effect at once, on the store as it is at that        *)
(* moment, or not at all: the handlers implement AtomicSubscriptions.      *)
PhaseOf(l) == IF l \in Working THEN "pending"
              ELSE IF l = "panic" THEN "failed" ELSE l

phase == [r \in Request |-> PhaseOf(pc[r])]

Atomic == INSTANCE AtomicSubscriptions WITH subs <- store.subs.byID

AtomicSpec == Atomic!Spec
=============================================================================
