------------------------ MODULE AtomicSubscriptions -------------------------
(***************************************************************************)
(* What the subscription handlers promise their callers, without reads,    *)
(* retries, indexes or encodings: a map from identifiers to subscriptions  *)
(* on which each request takes effect in one step, at some moment between  *)
(* its arrival and its answer.  A request answered "ok" has taken effect   *)
(* exactly once, one answered "failed" never has.                          *)
(***************************************************************************)
CONSTANTS SubID, Request, Op, NoOp, NoSub

VARIABLES
    subs,       \* the subscription under each identifier, or NoSub
    issued,     \* identifiers ever given to a subscription
    phase,      \* "idle", "pending", "ok" or "failed"
    op          \* the operation of each request

vars == <<subs, issued, phase, op>>

Init ==
    /\ subs = [id \in SubID |-> NoSub]
    /\ issued = {}
    /\ phase = [r \in Request |-> "idle"]
    /\ op = [r \in Request |-> NoOp]

Begin(r, o) ==
    /\ phase[r] = "idle"
    /\ phase' = [phase EXCEPT ![r] = "pending"]
    /\ op' = [op EXCEPT ![r] = o]
    /\ UNCHANGED <<subs, issued>>

Assign(id, sub) ==
    /\ subs' = [subs EXCEPT ![id] = sub]
    /\ issued' = issued \cup {id}

Create(r) == op[r].kind = "create" /\ \E id \in SubID \ issued : Assign(id, op[r].sub)

Edit(r) == op[r].kind = "edit" /\ subs[op[r].id] # NoSub /\ Assign(op[r].id, op[r].sub)

Delete(r) == op[r].kind = "delete" /\ subs[op[r].id] # NoSub /\ Assign(op[r].id, NoSub)

List(r) == op[r].kind = "list" /\ UNCHANGED <<subs, issued>>

TakeEffect(r) ==
    /\ phase[r] = "pending"
    /\ Create(r) \/ Edit(r) \/ Delete(r) \/ List(r)
    /\ phase' = [phase EXCEPT ![r] = "ok"]
    /\ UNCHANGED op

Reject(r) ==
    /\ phase[r] = "pending"
    /\ phase' = [phase EXCEPT ![r] = "failed"]
    /\ UNCHANGED <<subs, issued, op>>

\* The answer is delivered, or the server dies before there is one.
Return(r) ==
    /\ phase[r] # "idle"
    /\ phase' = [phase EXCEPT ![r] = "idle"]
    /\ op' = [op EXCEPT ![r] = NoOp]
    /\ UNCHANGED <<subs, issued>>

Next ==
    \E r \in Request :
        \/ \E o \in Op : Begin(r, o)
        \/ TakeEffect(r)
        \/ Reject(r)
        \/ Return(r)

Spec == Init /\ [][Next]_vars
=============================================================================
