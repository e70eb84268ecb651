------------------------- MODULE SubscriptionProofs -------------------------
(***************************************************************************)
(* Proofs about SubscriptionRequests for every set of requests, users,     *)
(* channels, names and events and every bound on the retries:              *)
(*   - types are respected and the three maps of the store always agree;   *)
(*   - a deleted subscription stays deleted;                               *)
(*   - the handlers implement AtomicSubscriptions.                         *)
(***************************************************************************)
EXTENDS SubscriptionRequests, TLAPS

-----------------------------------------------------------------------------
(* Lemmas about the stored value.                                          *)

\* An absent identifier, and only such a one, has NoSub; what is present is
\* a subscription.
LEMMA PresentSub ==
    ASSUME NEW s \in Subscriptions, NEW id \in SubID
    PROVE  (id \in Present(s) <=> s.byID[id] # NoSub)
           /\ (id \in Present(s) <=> s.byID[id] \in Sub)
  BY NoSubAssumption DEF Subscriptions, Present

\* NewChannelSubscriptions: the empty value is well-typed, holds nothing,
\* and its indexes agree.
LEMMA NewSubscriptionsFacts ==
    /\ NewSubscriptions \in Subscriptions
    /\ Present(NewSubscriptions) = {}
    /\ IndexesMatch(NewSubscriptions)
  BY DEF NewSubscriptions, Subscriptions, Present, IndexesMatch,
         ChannelIndexMatches, EventIndexMatches

\* add: the result is well-typed, holds the subscription under its
\* identifier and everything else as before.
LEMMA AddFacts ==
    ASSUME NEW s \in Subscriptions, NEW id \in SubID, NEW sub \in Sub
    PROVE  /\ Add(s, id, sub) \in Subscriptions
           /\ Add(s, id, sub).byID = [s.byID EXCEPT ![id] = sub]
  BY DEF Add, Subscriptions, Sub

\* remove: the result is well-typed, the identifier is absent from it and
\* everything else is as before.
LEMMA RemoveFacts ==
    ASSUME NEW s \in Subscriptions, NEW id \in SubID, NEW sub \in Sub
    PROVE  /\ Remove(s, id, sub) \in Subscriptions
           /\ Remove(s, id, sub).byID = [s.byID EXCEPT ![id] = NoSub]
  BY DEF Remove, Subscriptions, Sub

\* add keeps the indexes in agreement when the identifier was absent.
LEMMA AddIndexes ==
    ASSUME NEW s \in Subscriptions, NEW id \in SubID, NEW sub \in Sub,
           IndexesMatch(s), s.byID[id] = NoSub
    PROVE  IndexesMatch(Add(s, id, sub))
  <1>1. ChannelIndexMatches(Add(s, id, sub))
    BY NoSubAssumption DEF IndexesMatch, ChannelIndexMatches, Add, Subscriptions, Sub
  <1>2. EventIndexMatches(Add(s, id, sub))
    BY NoSubAssumption DEF IndexesMatch, EventIndexMatches, Add, Subscriptions, Sub
  <1>3. QED
    BY <1>1, <1>2 DEF IndexesMatch

\* remove keeps the indexes in agreement when it is given the subscription
\* that is stored, whose channel and events are those the indexes name.
LEMMA RemoveIndexes ==
    ASSUME NEW s \in Subscriptions, NEW id \in SubID,
           IndexesMatch(s), s.byID[id] # NoSub
    PROVE  IndexesMatch(Remove(s, id, s.byID[id]))
  <1>1. s.byID[id] \in Sub
    BY PresentSub DEF Present
  <1>2. ChannelIndexMatches(Remove(s, id, s.byID[id]))
    BY <1>1, NoSubAssumption DEF IndexesMatch, ChannelIndexMatches, Remove, Subscriptions, Sub
  <1>3. EventIndexMatches(Remove(s, id, s.byID[id]))
    BY <1>1, NoSubAssumption DEF IndexesMatch, EventIndexMatches, Remove, Subscriptions, Sub
  <1>4. QED
    BY <1>2, <1>3 DEF IndexesMatch

\* The edit, remove then add, changes the one subscription and keeps the
\* indexes in agreement, whatever the channels and events before and after.
LEMMA ReplaceFacts ==
    ASSUME NEW s \in Subscriptions, NEW id \in SubID, NEW sub \in Sub,
           s.byID[id] # NoSub
    PROVE  /\ Replace(s, id, sub) \in Subscriptions
           /\ Replace(s, id, sub).byID = [s.byID EXCEPT ![id] = sub]
           /\ IndexesMatch(s) => IndexesMatch(Replace(s, id, sub))
  <1> DEFINE old == s.byID[id]
             t   == Remove(s, id, old)
  <1>1. old \in Sub
    BY PresentSub DEF Present
  <1>2. t \in Subscriptions /\ t.byID = [s.byID EXCEPT ![id] = NoSub]
    BY <1>1, RemoveFacts
  <1>3. t.byID[id] = NoSub
    BY <1>2 DEF Subscriptions
  <1>4. Add(t, id, sub) \in Subscriptions /\ Add(t, id, sub).byID = [t.byID EXCEPT ![id] = sub]
    BY <1>2, AddFacts
  <1>5. [t.byID EXCEPT ![id] = sub] = [s.byID EXCEPT ![id] = sub]
    BY <1>2 DEF Subscriptions
  <1>6. IndexesMatch(s) => IndexesMatch(Add(t, id, sub))
    BY <1>2, <1>3, RemoveIndexes, AddIndexes
  <1>7. QED
    BY <1>4, <1>5, <1>6 DEF Replace

-----------------------------------------------------------------------------
(* The inductive invariant.                                                *)

\* An operation names a subscription of the right type, unless it is a
\* delete or a list, and an identifier, unless it is a create or a list.
LEMMA OpFacts ==
    ASSUME NEW o \in Op
    PROVE  /\ o.kind \in {"create", "edit", "delete", "list"}
           /\ o.kind \in {"create", "edit"} => o.sub \in Sub
           /\ o.kind \in {"edit", "delete"} => o.id \in SubID
  BY RequestAssumption DEF Op, Creates, Edits, Deletes, Lists, Requested, Sub

\* The empty snapshot a request holds when it is not in an attempt.
LEMMA NoSnapFacts == NoSnap \in Stored
  BY NewSubscriptionsFacts, RequestAssumption DEF NoSnap, Stored

\* What a write stores, given the consistent value it read: a well-typed
\* and consistent value that differs in the one identifier.
LEMMA WriteFacts ==
    ASSUME NEW s \in Subscriptions, NEW o \in Op, NEW id \in SubID, IndexesMatch(s),
           o.kind # "list",
           o.kind = "create" => s.byID[id] = NoSub,
           o.kind \in {"edit", "delete"} => s.byID[id] # NoSub
    PROVE  /\ NewValue(s, o, id) \in Subscriptions
           /\ IndexesMatch(NewValue(s, o, id))
           /\ NewValue(s, o, id).byID =
                 [s.byID EXCEPT ![id] = IF o.kind = "delete" THEN NoSub ELSE o.sub]
  <1>1. CASE o.kind = "create"
    <2>1. o.sub \in Sub /\ NewValue(s, o, id) = Add(s, id, o.sub)
      BY <1>1, OpFacts DEF NewValue
    <2>2. QED
      BY <1>1, <2>1, AddFacts, AddIndexes
  <1>2. CASE o.kind = "edit"
    <2>1. o.sub \in Sub /\ NewValue(s, o, id) = Replace(s, id, o.sub)
      BY <1>2, OpFacts DEF NewValue
    <2>2. QED
      BY <1>2, <2>1, ReplaceFacts
  <1>3. CASE o.kind = "delete"
    <2>1. s.byID[id] \in Sub /\ NewValue(s, o, id) = Remove(s, id, s.byID[id])
      BY <1>3, PresentSub DEF NewValue
    <2>2. QED
      BY <1>3, <2>1, RemoveFacts, RemoveIndexes
  <1>4. QED
    BY <1>1, <1>2, <1>3, OpFacts

\* A write by request r: the value that was stored before it, the new one,
\* and the identifier it concerns.
LEMMA WriteStep ==
    ASSUME IInv, NEW r \in Request, Write(r)
    PROVE  \E id \in SubID, enc \in Encoding :
               /\ op[r].kind = "create" => id \notin issued
               /\ op[r].kind # "create" => (id = op[r].id /\ store.subs.byID[id] # NoSub)
               /\ op[r] \in Op /\ op[r].kind # "list"
               /\ store' \in Stored
               /\ IndexesMatch(store'.subs)
               /\ issued' = issued \cup {id}
               /\ store'.subs.byID =
                    [store.subs.byID EXCEPT ![id] = IF op[r].kind = "delete" THEN NoSub
                                                                             ELSE op[r].sub]
  <1>1. /\ store = snap[r] /\ pc[r] = "cas" /\ op[r] \in Op
        /\ op[r].kind \in {"create", "edit", "delete"}
        /\ store.subs \in Subscriptions
        /\ IndexesMatch(store.subs) /\ Present(store.subs) \subseteq issued
    BY DEF IInv, TypeOK, Stored, ValuesConsistent, RequestsConsistent, Write
  <1>2. PICK id \in (IF op[r].kind = "create" THEN SubID \ issued ELSE {op[r].id}),
             enc \in Encoding :
             /\ store' = [subs |-> NewValue(snap[r].subs, op[r], id), enc |-> enc]
             /\ issued' = issued \cup {id}
    BY DEF Write
  <1>3. id \in SubID
    BY <1>1, <1>2, OpFacts
  <1>4. op[r].kind = "create" => (id \notin issued /\ store.subs.byID[id] = NoSub)
    BY <1>1, <1>2, <1>3 DEF Present
  <1>5. op[r].kind # "create" => (id = op[r].id /\ store.subs.byID[id] # NoSub)
    BY <1>1, <1>2 DEF IInv, RequestsConsistent
  <1>6. /\ NewValue(store.subs, op[r], id) \in Subscriptions
        /\ IndexesMatch(NewValue(store.subs, op[r], id))
        /\ NewValue(store.subs, op[r], id).byID =
             [store.subs.byID EXCEPT ![id] = IF op[r].kind = "delete" THEN NoSub ELSE op[r].sub]
    <2> DEFINE s == store.subs
               o == op[r]
    <2>1. /\ s \in Subscriptions /\ IndexesMatch(s) /\ id \in SubID /\ o \in Op
          /\ o.kind \in {"create", "edit", "delete"}
          /\ o.kind = "create" => s.byID[id] = NoSub
          /\ o.kind # "create" => s.byID[id] # NoSub
      BY <1>1, <1>3, <1>4, <1>5
    <2> HIDE DEF s, o
    <2>2. /\ NewValue(s, o, id) \in Subscriptions
          /\ IndexesMatch(NewValue(s, o, id))
          /\ NewValue(s, o, id).byID =
               [s.byID EXCEPT ![id] = IF o.kind = "delete" THEN NoSub ELSE o.sub]
      BY <2>1, WriteFacts
    <2> QED
      BY <2>2 DEF s, o
  <1>7. store' = [subs |-> NewValue(store.subs, op[r], id), enc |-> enc]
    BY <1>1, <1>2
  <1>8. store'.subs = NewValue(store.subs, op[r], id) /\ store' \in Stored
    BY <1>2, <1>6, <1>7 DEF Stored
  <1>9. QED
    BY <1>1, <1>2, <1>3, <1>4, <1>5, <1>6, <1>8

LEMMA InitIInv == Init => IInv
  <1> SUFFICES ASSUME Init PROVE IInv
    OBVIOUS
  <1>1. TypeOK
    BY NewSubscriptionsFacts, NoSnapFacts, RequestAssumption DEF Init, TypeOK, Stored
  <1>2. ValuesConsistent
    BY NewSubscriptionsFacts DEF Init, ValuesConsistent, NoSnap
  <1>3. RequestsConsistent
    BY RequestAssumption DEF Init, RequestsConsistent, Working
  <1>4. QED
    BY <1>1, <1>2, <1>3 DEF IInv

\* The values of the state after a step that only reads the store.
LEMMA ReadStep ==
    ASSUME IInv, NEW r \in Request, UNCHANGED <<store, issued>>,
           snap' = snap \/ snap' = [snap EXCEPT ![r] = store]
                        \/ snap' = [snap EXCEPT ![r] = NoSnap]
    PROVE  snap' \in [Request -> Stored] /\ ValuesConsistent'
  <1>1. snap' \in [Request -> Stored]
    BY NoSnapFacts DEF IInv, TypeOK
  <1>2. ASSUME NEW q \in Request
        PROVE  snap'[q] \in {snap[q], store, NoSnap}
    BY DEF IInv, TypeOK
  <1>3. ASSUME NEW q \in Request
        PROVE  IndexesMatch(snap'[q].subs) /\ Present(snap'[q].subs) \subseteq issued'
    BY <1>2, NewSubscriptionsFacts DEF IInv, ValuesConsistent, NoSnap
  <1>4. IndexesMatch(store'.subs) /\ Present(store'.subs) \subseteq issued'
    BY DEF IInv, ValuesConsistent
  <1>5. QED
    BY <1>1, <1>3, <1>4 DEF ValuesConsistent

LEMMA StepIInv == IInv /\ [Next]_vars => IInv'
  <1> SUFFICES ASSUME IInv, [Next]_vars PROVE IInv'
    OBVIOUS
  <1> USE DEF IInv
  <1>1. ASSUME NEW r \in Request, NEW o \in Op, Submit(r, o) PROVE IInv'
    <2>1. ValuesConsistent'
      BY <1>1, ReadStep DEF Submit
    <2>2. TypeOK'
      BY <1>1 DEF Submit, Goto, TypeOK, Working
    <2>3. RequestsConsistent'
      BY <1>1, RequestAssumption DEF Submit, Goto, TypeOK, RequestsConsistent, Working
    <2>4. QED
      BY <2>1, <2>2, <2>3
  <1>2. ASSUME NEW r \in Request, Refuse(r) PROVE IInv'
    <2>1. ValuesConsistent'
      BY <1>2, ReadStep DEF Refuse
    <2>2. TypeOK'
      BY <1>2 DEF Refuse, Goto, TypeOK, Answered
    <2>3. RequestsConsistent'
      BY <1>2 DEF Refuse, Goto, TypeOK, RequestsConsistent, Working
    <2>4. QED
      BY <2>1, <2>2, <2>3
  <1>3. ASSUME NEW r \in Request, Lookup(r) PROVE IInv'
    <2>1. ValuesConsistent'
      BY <1>3, ReadStep DEF Lookup
    <2>2. TypeOK'
      BY <1>3 DEF Lookup, Goto, TypeOK, Answered, Working
    <2>3. RequestsConsistent'
      BY <1>3 DEF Lookup, Goto, TypeOK, RequestsConsistent, Working
    <2>4. QED
      BY <2>1, <2>2, <2>3
  <1>4. ASSUME NEW r \in Request, Get(r) PROVE IInv'
    <2>1. snap' \in [Request -> Stored] /\ ValuesConsistent'
      BY <1>4, ReadStep DEF Get
    <2>2. TypeOK'
      BY <1>4, <2>1 DEF Get, Goto, TypeOK, Answered, Working
    <2>3. op[r] \in Op /\ op[r].kind \in {"create", "edit", "delete"}
      BY <1>4, OpFacts DEF Get, RequestsConsistent
    <2>4. RequestsConsistent'
      BY <1>4, <2>3 DEF Get, Goto, TypeOK, RequestsConsistent, Working
    <2>5. QED
      BY <2>1, <2>2, <2>4
  <1>5. ASSUME NEW r \in Request, Validate(r) PROVE IInv'
    <2>1. ValuesConsistent'
      BY <1>5, ReadStep DEF Validate
    <2>2. TypeOK'
      BY <1>5 DEF Validate, Goto, TypeOK, Answered, Working
    <2>3. RequestsConsistent'
      BY <1>5 DEF Validate, Goto, TypeOK, RequestsConsistent, Working
    <2>4. QED
      BY <2>1, <2>2, <2>3
  <1>6. ASSUME NEW r \in Request, Write(r) PROVE IInv'
    <2>1. PICK id \in SubID, enc \in Encoding :
               /\ op[r] \in Op
               /\ store' \in Stored
               /\ IndexesMatch(store'.subs)
               /\ issued' = issued \cup {id}
               /\ store'.subs.byID =
                    [store.subs.byID EXCEPT ![id] = IF op[r].kind = "delete" THEN NoSub
                                                                             ELSE op[r].sub]
      BY <1>6, WriteStep
    <2>2. Present(store'.subs) \subseteq issued'
      BY <2>1 DEF ValuesConsistent, Present, TypeOK, Stored, Subscriptions
    <2>3. ValuesConsistent'
      BY <1>6, <2>1, <2>2 DEF ValuesConsistent, Write
    <2>4. TypeOK'
      BY <1>6, <2>1 DEF Write, Goto, TypeOK, Answered
    <2>5. RequestsConsistent'
      BY <1>6 DEF Write, Goto, TypeOK, RequestsConsistent, Working
    <2>6. QED
      BY <2>3, <2>4, <2>5
  <1>7. ASSUME NEW r \in Request, Conflict(r) PROVE IInv'
    <2>1. ValuesConsistent'
      BY <1>7, ReadStep DEF Conflict
    <2>2. tries' \in [Request -> 0 .. MaxTries]
      BY <1>7, RequestAssumption DEF Conflict, TypeOK, RequestsConsistent, Working
    <2>3. TypeOK'
      BY <1>7, <2>2 DEF Conflict, Goto, TypeOK, Answered, Working
    <2>4. RequestsConsistent'
      BY <1>7, <2>2, RequestAssumption DEF Conflict, Goto, TypeOK, RequestsConsistent, Working
    <2>5. QED
      BY <2>1, <2>3, <2>4
  <1>8. ASSUME NEW r \in Request, Reread(r) PROVE IInv'
    <2>1. ValuesConsistent'
      BY <1>8, ReadStep DEF Reread
    <2>2. TypeOK'
      BY <1>8 DEF Reread, Goto, TypeOK, Answered
    <2>3. RequestsConsistent'
      BY <1>8 DEF Reread, Goto, TypeOK, RequestsConsistent, Working
    <2>4. QED
      BY <2>1, <2>2, <2>3
  <1>9. ASSUME NEW r \in Request, GetForList(r) PROVE IInv'
    <2>1. snap' \in [Request -> Stored] /\ ValuesConsistent'
      BY <1>9, ReadStep DEF GetForList
    <2>2. TypeOK'
      BY <1>9, <2>1 DEF GetForList, Goto, TypeOK, Working
    <2>3. RequestsConsistent'
      BY <1>9 DEF GetForList, Goto, TypeOK, RequestsConsistent, Working
    <2>4. QED
      BY <2>1, <2>2, <2>3
  <1>10. ASSUME NEW r \in Request, Forget(r) PROVE IInv'
    <2>1. snap' \in [Request -> Stored] /\ ValuesConsistent'
      BY <1>10, ReadStep DEF Forget
    <2>2. TypeOK'
      BY <1>10, <2>1, RequestAssumption DEF Forget, Goto, TypeOK
    <2>3. RequestsConsistent'
      BY <1>10, RequestAssumption DEF Forget, Goto, TypeOK, RequestsConsistent, Working
    <2>4. QED
      BY <2>1, <2>2, <2>3
  <1>11. CASE UNCHANGED vars
    BY <1>11 DEF vars, TypeOK, ValuesConsistent, RequestsConsistent
  <1>12. QED
    BY <1>1, <1>2, <1>3, <1>4, <1>5, <1>6, <1>7, <1>8, <1>9, <1>10, <1>11
       DEF Next, Step, Finish, Crash

(* The inductive invariant holds in every state of every execution: types, *)
(* the stored value and the values read, and the place of each request.    *)
THEOREM Consistency == Spec => []IInv
  <1>1. QED
    BY InitIInv, StepIInv, PTL DEF Spec

(* addChannelSubscription, editChannelSubscription and                     *)
(* removeChannelSubscription leave the maps ByID, IDByChannelID and        *)
(* IDByEvent in agreement, however the requests interleave.                *)
THEOREM IndexesAlwaysMatch == Spec => []StoredIndexesMatch
  <1>1. IInv => StoredIndexesMatch
    BY DEF IInv, ValuesConsistent, StoredIndexesMatch
  <1>2. QED
    BY <1>1, Consistency, PTL

-----------------------------------------------------------------------------
(* A deleted subscription stays deleted.                                   *)

LEMMA StepDeleted ==
    IInv /\ [Next]_vars =>
        [\A id \in issued \ Present(store.subs) : id \notin Present(store'.subs)]_vars
  <1> SUFFICES ASSUME IInv, [Next]_vars, NEW id \in issued \ Present(store.subs), store' # store
               PROVE  id \notin Present(store'.subs)
    BY DEF vars
  <1>1. PICK r \in Request : Write(r)
    BY DEF Next, Step, Submit, Refuse, Crash, Lookup, Get, Validate, Conflict,
           GetForList, Reread, Finish, Forget, vars
  <1>2. PICK id2 \in SubID, enc \in Encoding :
               /\ op[r].kind = "create" => id2 \notin issued
               /\ op[r].kind # "create" => (id2 = op[r].id /\ store.subs.byID[id2] # NoSub)
               /\ store'.subs.byID =
                    [store.subs.byID EXCEPT ![id2] = IF op[r].kind = "delete" THEN NoSub
                                                                              ELSE op[r].sub]
    BY <1>1, WriteStep
  <1>3. id \in SubID /\ id2 # id
    BY <1>2 DEF IInv, TypeOK, Present
  <1>4. store'.subs.byID[id] = store.subs.byID[id]
    BY <1>2, <1>3 DEF IInv, TypeOK, Stored, Subscriptions
  <1>5. QED
    BY <1>4 DEF Present

(* An edit that raced with a delete never brings the subscription back:    *)
(* its write finds other bytes, and its next read no subscription.         *)
THEOREM NoResurrection == Spec => DeletedStaysDeleted
  <1>1. QED
    BY Consistency, StepDeleted, PTL DEF Spec, DeletedStaysDeleted

-----------------------------------------------------------------------------
(* The handlers implement AtomicSubscriptions.                             *)

LEMMA InitAtomic == Init => Atomic!Init
  BY DEF Init, Atomic!Init, NewSubscriptions, phase, PhaseOf, Working

LEMMA PhaseStep ==
    ASSUME NEW r \in Request, NEW l, TypeOK, Goto(r, l)
    PROVE  phase' = [phase EXCEPT ![r] = PhaseOf(l)]
  BY DEF phase, Goto, TypeOK

LEMMA StepAtomic == IInv /\ [Next]_vars => [Atomic!Next]_Atomic!vars
  <1> SUFFICES ASSUME IInv, [Next]_vars PROVE [Atomic!Next]_Atomic!vars
    OBVIOUS
  <1> USE DEF IInv
  <1>1. ASSUME NEW r \in Request, NEW o \in Op, Submit(r, o)
        PROVE  Atomic!Begin(r, o)
    BY <1>1, PhaseStep DEF Submit, Atomic!Begin, phase, PhaseOf, Working
  <1>2. ASSUME NEW r \in Request, Refuse(r) PROVE Atomic!Reject(r)
    BY <1>2, PhaseStep DEF Refuse, Atomic!Reject, phase, PhaseOf, Working
  <1>3. ASSUME NEW r \in Request, Lookup(r) PROVE Atomic!Reject(r) \/ UNCHANGED Atomic!vars
    <2>1. CASE pc' = [pc EXCEPT ![r] = "failed"]
      BY <1>3, <2>1, PhaseStep DEF Lookup, Goto, Atomic!Reject, phase, PhaseOf, Working
    <2>2. CASE pc' = [pc EXCEPT ![r] = "get"]
      BY <1>3, <2>2 DEF Lookup, TypeOK, Atomic!vars, phase, PhaseOf, Working
    <2>3. QED
      BY <1>3, <2>1, <2>2 DEF Lookup, Goto
  <1>4. ASSUME NEW r \in Request, Get(r) PROVE Atomic!Reject(r) \/ UNCHANGED Atomic!vars
    <2>1. CASE pc' = [pc EXCEPT ![r] = "failed"]
      BY <1>4, <2>1, PhaseStep DEF Get, Goto, Atomic!Reject, phase, PhaseOf, Working
    <2>2. ASSUME NEW l \in {"cas", "validate"}, pc' = [pc EXCEPT ![r] = l]
          PROVE  UNCHANGED Atomic!vars
      BY <1>4, <2>2 DEF Get, TypeOK, Atomic!vars, phase, PhaseOf, Working
    <2>3. QED
      BY <1>4, <2>1, <2>2 DEF Get, Goto
  <1>5. ASSUME NEW r \in Request, Validate(r) PROVE Atomic!Reject(r) \/ UNCHANGED Atomic!vars
    <2>1. CASE pc' = [pc EXCEPT ![r] = "failed"]
      BY <1>5, <2>1, PhaseStep DEF Validate, Goto, Atomic!Reject, phase, PhaseOf, Working
    <2>2. CASE pc' = [pc EXCEPT ![r] = "cas"]
      BY <1>5, <2>2 DEF Validate, TypeOK, Atomic!vars, phase, PhaseOf, Working
    <2>3. QED
      BY <1>5, <2>1, <2>2 DEF Validate, Goto
  <1>6. ASSUME NEW r \in Request, Write(r) PROVE Atomic!TakeEffect(r)
    <2>1. PICK id \in SubID, enc \in Encoding :
               /\ op[r].kind = "create" => id \notin issued
               /\ op[r].kind # "create" => (id = op[r].id /\ store.subs.byID[id] # NoSub)
               /\ op[r] \in Op /\ op[r].kind # "list"
               /\ issued' = issued \cup {id}
               /\ store'.subs.byID =
                    [store.subs.byID EXCEPT ![id] = IF op[r].kind = "delete" THEN NoSub
                                                                             ELSE op[r].sub]
      BY <1>6, WriteStep
    <2>2. Atomic!Assign(id, IF op[r].kind = "delete" THEN NoSub ELSE op[r].sub)
      BY <2>1 DEF Atomic!Assign
    <2>3. op[r].kind \in {"create", "edit", "delete"}
      BY <2>1, OpFacts
    <2>4. Atomic!Create(r) \/ Atomic!Edit(r) \/ Atomic!Delete(r)
      BY <2>1, <2>2, <2>3 DEF Atomic!Create, Atomic!Edit, Atomic!Delete
    <2>5. phase[r] = "pending" /\ phase' = [phase EXCEPT ![r] = "ok"] /\ op' = op
      BY <1>6, PhaseStep DEF Write, phase, PhaseOf, Working
    <2>6. QED
      BY <2>4, <2>5 DEF Atomic!TakeEffect
  <1>7. ASSUME NEW r \in Request, Conflict(r) PROVE Atomic!Reject(r) \/ UNCHANGED Atomic!vars
    <2>1. CASE pc' = [pc EXCEPT ![r] = "failed"]
      BY <1>7, <2>1, PhaseStep DEF Conflict, Goto, Atomic!Reject, phase, PhaseOf, Working
    <2>2. CASE pc' = [pc EXCEPT ![r] = "get"]
      BY <1>7, <2>2 DEF Conflict, TypeOK, Atomic!vars, phase, PhaseOf, Working
    <2>3. QED
      BY <1>7, <2>1, <2>2 DEF Conflict, Goto
  <1>8. ASSUME NEW r \in Request, Reread(r) PROVE Atomic!Reject(r) \/ Atomic!TakeEffect(r)
    <2>1. phase[r] = "pending" /\ op[r].kind = "list"
      BY <1>8 DEF Reread, RequestsConsistent, phase, PhaseOf, Working
    <2>2. CASE Goto(r, "ok")
      BY <1>8, <2>1, <2>2, PhaseStep DEF Reread, Atomic!TakeEffect, Atomic!List, PhaseOf, Working
    <2>3. CASE Goto(r, "panic")
      BY <1>8, <2>1, <2>3, PhaseStep DEF Reread, Atomic!Reject, PhaseOf, Working
    <2>4. QED
      BY <1>8, <2>2, <2>3 DEF Reread
  <1>9. ASSUME NEW r \in Request, GetForList(r) PROVE UNCHANGED Atomic!vars
    BY <1>9 DEF GetForList, Goto, TypeOK, Atomic!vars, phase, PhaseOf, Working
  <1>10. ASSUME NEW r \in Request, pc[r] # "idle", Forget(r) PROVE Atomic!Return(r)
    BY <1>10, PhaseStep DEF Forget, Atomic!Return, phase, PhaseOf, Working, TypeOK, Answered
  <1>11. CASE UNCHANGED vars
    BY <1>11 DEF vars, Atomic!vars, phase
  <1>12. QED
    BY <1>1, <1>2, <1>3, <1>4, <1>5, <1>6, <1>7, <1>8, <1>9, <1>10, <1>11
       DEF Next, Step, Finish, Crash, Working, Answered, Atomic!Next

(* Every request of the interleaved, retrying handlers takes effect in one *)
(* step on the current subscriptions, or not at all, and is answered so.   *)
THEOREM ImplementsAtomic == Spec => AtomicSpec
  <1>1. QED
    BY InitAtomic, StepAtomic, Consistency, PTL DEF Spec, AtomicSpec, Atomic!Spec
=============================================================================
