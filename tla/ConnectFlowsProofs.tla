------------------------- MODULE ConnectFlowsProofs -------------------------
(***************************************************************************)
(* Theorems about ConnectFlows, for any number of users, instances,        *)
(* requests and links.  First what each step does, in terms of the fields  *)
(* of the requests; then the invariant, FlowsOK; then the requests of one  *)
(* user that overlap, on which the last two theorems rest.                 *)
(***************************************************************************)
EXTENDS ConnectFlows, FiniteSetTheorems, TLAPS

USE FlowsAssumption, NothingAssumption

Label == {"idle", "store", "ensure", "generate", "get", "delete", "connect", "disconnect"}

-----------------------------------------------------------------------------
(* What the steps do, in terms of the requests' fields                     *)

SameFields(q) ==
    /\ op'[q].kind = op[q].kind /\ op'[q].user = op[q].user /\ op'[q].inst = op[q].inst
    /\ op'[q].link = op[q].link /\ op'[q].newest = op[q].newest /\ op'[q].late = op[q].late
    /\ op'[q].cookie = op[q].cookie

Active(q) == pc[q] # "idle" /\ Secretive(op[q])

LEMMA AloneOnly ==
    ASSUME NEW o \in Op, NEW b \in BOOLEAN
    PROVE  LET p == [o EXCEPT !.alone = b]
           IN  /\ p \in Op /\ p.alone = b
               /\ p.kind = o.kind /\ p.user = o.user /\ p.inst = o.inst /\ p.link = o.link
               /\ p.newest = o.newest /\ p.late = o.late /\ p.cookie = o.cookie
    BY DEF Op

(* A request arrives.                                                      *)
LEMMA SubmitEffect ==
    ASSUME IInv, NEW r \in Request, NEW o \in Op, NEW first \in Label \ {"idle"},
           Submit(r, o, first)
    PROVE  /\ pc[r] = "idle" /\ pc' \in [Request -> Label] /\ pc'[r] = first
           /\ \A q \in Request \ {r} : pc'[q] = pc[q]
           /\ op' \in [Request -> Op \cup {Nothing}]
           /\ op'[r] \in Op
           /\ op'[r].kind = o.kind /\ op'[r].user = o.user /\ op'[r].inst = o.inst
           /\ op'[r].link = o.link /\ op'[r].newest = o.newest /\ op'[r].late = o.late
           /\ op'[r].cookie = o.cookie
           /\ \A q \in Request \ {r} :
                 /\ op[q] = Nothing => op'[q] = Nothing
                 /\ op[q] # Nothing => op'[q] \in Op /\ SameFields(q)
                 /\ op'[q] = op[q] \/ op'[q].alone = FALSE
           /\ Secretive(o) /\ op'[r].alone =>
                 \A q \in Request \ {r} : Active(q) => op[q].user # o.user
           /\ Secretive(o) => \A q \in Request \ {r} :
                 Active(q) /\ op[q].user = o.user =>
                    /\ op'[q].alone = FALSE
                    /\ {o.link, op[q].link} \cap Link \subseteq overlapped'
           /\ overlapped \subseteq overlapped' /\ overlapped' \subseteq Link
           /\ spoiled \subseteq spoiled' /\ spoiled' \subseteq Link
           /\ Secretive(o) => Of(o.user) \ {o.link} \subseteq spoiled'
<1> DEFINE others == IF Secretive(o) THEN Busy(o.user) ELSE {}
<1>1. /\ pc[r] = "idle" /\ pc' = [pc EXCEPT ![r] = first]
      /\ op' = [q \in Request |->
                    IF q = r THEN [o EXCEPT !.alone = others = {}]
                    ELSE IF q \in others THEN [op[q] EXCEPT !.alone = FALSE] ELSE op[q]]
      /\ overlapped' = IF others = {} THEN overlapped
                       ELSE overlapped \cup (({o.link} \cup {op[q].link : q \in others}) \cap Link)
      /\ spoiled' = IF Secretive(o) THEN spoiled \cup (Of(o.user) \ {o.link}) ELSE spoiled
    BY DEF Submit
<1>2. /\ \A q \in Request : op[q] \in Op \cup {Nothing} /\ (pc[q] = "idle" <=> op[q] = Nothing)
      /\ overlapped \subseteq Link /\ spoiled \subseteq Link
    BY DEF IInv, TypeOK, RequestOK
<1>3. others \subseteq Request \ {r}
    BY <1>1 DEF Busy
<1>4. \A q \in others : op[q] \in Op
    BY <1>1, <1>2, <1>3 DEF Busy
<1>5. /\ op'[r] \in Op
      /\ op'[r].kind = o.kind /\ op'[r].user = o.user /\ op'[r].inst = o.inst
      /\ op'[r].link = o.link /\ op'[r].newest = o.newest /\ op'[r].late = o.late
      /\ op'[r].cookie = o.cookie /\ op'[r].alone = (others = {})
  <2>1. op'[r] = [o EXCEPT !.alone = others = {}]
    BY <1>1
  <2> HIDE DEF others
  <2>2. (others = {}) \in BOOLEAN
    OBVIOUS
  <2> DEFINE b == (others = {})
  <2>3. op'[r] = [o EXCEPT !.alone = b]
    BY <2>1
  <2> HIDE DEF b
  <2>4. b \in BOOLEAN
    BY <2>2 DEF b
  <2>5. /\ op'[r] \in Op /\ op'[r].alone = b
        /\ op'[r].kind = o.kind /\ op'[r].user = o.user /\ op'[r].inst = o.inst
        /\ op'[r].link = o.link /\ op'[r].newest = o.newest /\ op'[r].late = o.late
        /\ op'[r].cookie = o.cookie
    BY <2>3, <2>4, AloneOnly
  <2> QED
    BY <2>5 DEF b
<1>6. \A q \in others : /\ op'[q] \in Op /\ SameFields(q)
                        /\ op'[q].alone = FALSE
  <2> TAKE q \in others
  <2>1. op'[q] = [op[q] EXCEPT !.alone = FALSE]
    BY <1>1, <1>3
  <2>2. op[q] \in Op
    BY <1>4
  <2> HIDE DEF others
  <2> QED
    BY <2>1, <2>2, AloneOnly DEF SameFields
<1>7. \A q \in Request \ {r} : q \notin others => op'[q] = op[q]
    BY <1>1
<1>8. op' \in [Request -> Op \cup {Nothing}]
  <2>1. \A q \in Request : op'[q] \in Op \cup {Nothing}
    BY <1>2, <1>5, <1>6, <1>7
  <2> QED
    BY <1>1, <2>1
<1>9. Secretive(o) => \A q \in Request \ {r} : Active(q) /\ op[q].user = o.user => q \in others
    BY DEF Busy, Active, Secretive
<1>10. \A q \in others : {o.link, op[q].link} \cap Link \subseteq overlapped'
    BY <1>1
<1>11. /\ overlapped \subseteq overlapped' /\ overlapped' \subseteq Link
       /\ spoiled \subseteq spoiled' /\ spoiled' \subseteq Link
       /\ Secretive(o) => Of(o.user) \ {o.link} \subseteq spoiled'
    BY <1>1, <1>2 DEF Of
<1>12. Secretive(o) /\ op'[r].alone => \A q \in Request \ {r} : Active(q) => op[q].user # o.user
    BY <1>5, <1>9
<1>13. \A q \in Request \ {r} :
                 /\ op[q] = Nothing => op'[q] = Nothing
                 /\ op[q] # Nothing => op'[q] \in Op /\ SameFields(q)
                 /\ op'[q] = op[q] \/ op'[q].alone = FALSE
    BY <1>2, <1>4, <1>6, <1>7 DEF SameFields
<1>14. pc' \in [Request -> Label] /\ pc'[r] = first /\ \A q \in Request \ {r} : pc'[q] = pc[q]
    BY <1>1 DEF IInv, TypeOK, Label
<1> HIDE DEF others
<1> QED
    BY <1>1, <1>5, <1>6, <1>8, <1>9, <1>10, <1>11, <1>12, <1>13, <1>14

-----------------------------------------------------------------------------
(* Types                                                                   *)

(* The links that were stored are the first ones.                          *)
Taken == {g \in Link : links[g] # Nothing}

FirstOnes == \E k \in Nat : Taken = 1 .. k

Fresh == 1 + Cardinality(Taken)

LEMMA FreshLink ==
    ASSUME FirstOnes, Fresh \in Link
    PROVE  /\ links[Fresh] = Nothing
           /\ \E k \in Nat : Taken \cup {Fresh} = 1 .. k
<1>1. PICK k \in Nat : Taken = 1 .. k
    BY DEF FirstOnes
<1>2. Cardinality(1 .. k) = k
    BY FS_Interval
<1>3. Fresh = k + 1
    BY <1>1, <1>2 DEF Fresh
<1>4. Fresh \notin Taken
    BY <1>1, <1>3
<1>5. Taken \cup {Fresh} = 1 .. (k + 1)
    BY <1>1, <1>3
<1> QED
    BY <1>4, <1>5 DEF Taken

(* A secret is stored.                                                     *)
LEMMA StoreEffect ==
    ASSUME IInv, FirstOnes, NEW r \in Request, StoreSecret(r)
    PROVE  LET f == Fresh
               u == op[r].user
               i == op[r].inst
           IN  /\ pc[r] = "store" /\ op[r] \in Op /\ u \in User /\ i \in Instance
               /\ f \in Link /\ links[f] = Nothing
               /\ secret' = [secret EXCEPT ![u] = f]
               /\ links' = [links EXCEPT ![f] = [user |-> u, inst |-> i, token |-> Nothing]]
               /\ [user |-> u, inst |-> i, token |-> Nothing] \in Route
               /\ last' = [last EXCEPT ![u] = f]
               /\ overlapped \subseteq overlapped' /\ overlapped' \subseteq overlapped \cup {f}
               /\ f \in overlapped' \/ op[r].alone
               /\ FirstOnes'
               /\ \/ /\ Type[i] = "jwt"
                     /\ pc' = [pc EXCEPT ![r] = "ensure"]
                     /\ op' = [op EXCEPT ![r].link = f]
                     /\ op'[r] \in Op
                     /\ op'[r].kind = op[r].kind /\ op'[r].user = u /\ op'[r].inst = i
                     /\ op'[r].link = f /\ op'[r].newest = op[r].newest
                     /\ op'[r].late = op[r].late /\ op'[r].alone = op[r].alone
                     /\ UNCHANGED <<issued, took, visits>>
                  \/ /\ Type[i] # "jwt"
                     /\ Finish(r)
                     /\ issued' = issued \cup {f}
               /\ UNCHANGED <<tokenSecret, cookie, connected,
                              expired, uses, again, refused, spoiled, raced>>
<1> DEFINE f == Fresh
           u == op[r].user
           i == op[r].inst
<1>1. pc[r] = "store" /\ op[r] # Nothing /\ op[r] \in Op
    BY DEF StoreSecret, IInv, RequestOK, TypeOK
<1>2. u \in User /\ i \in Instance
    BY <1>1 DEF Op
<1>3. /\ f \in Link
      /\ secret' = [secret EXCEPT ![u] = f]
      /\ links' = [links EXCEPT ![f] = [user |-> u, inst |-> i, token |-> Nothing]]
      /\ last' = [last EXCEPT ![u] = f]
      /\ overlapped' = IF op[r].alone THEN overlapped ELSE overlapped \cup {f}
      /\ IF Type[i] = "jwt" THEN MakeToken(r, f) ELSE GiveLink(r, f)
      /\ UNCHANGED <<tokenSecret, cookie, connected, expired, uses, again, refused, spoiled, raced>>
    BY DEF StoreSecret, Fresh, Taken, Stored
<1>4. links[f] = Nothing /\ \E k \in Nat : Taken \cup {f} = 1 .. k
    BY <1>3, FreshLink
<1>5. [user |-> u, inst |-> i, token |-> Nothing] \in Route
    BY <1>2 DEF Route
<1>6. links \in [Link -> Route \cup {Nothing}]
    BY DEF IInv, TypeOK
<1>7. Taken' = Taken \cup {f}
  <2> HIDE DEF f, u, i
  <2> QED
    BY <1>3, <1>5, <1>6 DEF Taken
<1>8. FirstOnes'
    BY <1>4, <1>7 DEF FirstOnes
<1>9. ASSUME Type[i] = "jwt"
      PROVE  /\ pc' = [pc EXCEPT ![r] = "ensure"]
             /\ op' = [op EXCEPT ![r].link = f]
             /\ op'[r] \in Op
             /\ op'[r].kind = op[r].kind /\ op'[r].user = u /\ op'[r].inst = i
             /\ op'[r].link = f /\ op'[r].newest = op[r].newest
             /\ op'[r].late = op[r].late /\ op'[r].alone = op[r].alone
             /\ UNCHANGED <<issued, took, visits>>
  <2>1. /\ pc' = [pc EXCEPT ![r] = "ensure"]
        /\ op' = [op EXCEPT ![r].link = f]
        /\ UNCHANGED <<issued, took, visits>>
    BY <1>3, <1>9 DEF MakeToken
  <2>2. op'[r] = [op[r] EXCEPT !.link = f]
    BY <2>1 DEF IInv, TypeOK
  <2> HIDE DEF f
  <2> QED
    BY <1>1, <1>3, <2>1, <2>2 DEF Op
<1>10. Type[i] # "jwt" => Finish(r) /\ issued' = issued \cup {f}
    BY <1>3 DEF GiveLink
<1> HIDE DEF f, u, i
<1>11. /\ overlapped \subseteq overlapped' /\ overlapped' \subseteq overlapped \cup {f}
       /\ f \in overlapped' \/ op[r].alone
    BY <1>3
<1>12. /\ pc[r] = "store" /\ op[r] \in Op /\ u \in User /\ i \in Instance
       /\ f \in Link /\ links[f] = Nothing
       /\ secret' = [secret EXCEPT ![u] = f]
       /\ links' = [links EXCEPT ![f] = [user |-> u, inst |-> i, token |-> Nothing]]
       /\ [user |-> u, inst |-> i, token |-> Nothing] \in Route
       /\ last' = [last EXCEPT ![u] = f]
       /\ overlapped \subseteq overlapped' /\ overlapped' \subseteq overlapped \cup {f}
       /\ f \in overlapped' \/ op[r].alone
       /\ FirstOnes'
       /\ UNCHANGED <<tokenSecret, cookie, connected,
                      expired, uses, again, refused, spoiled, raced>>
    BY <1>1, <1>2, <1>3, <1>4, <1>5, <1>8, <1>11
<1> QED
    BY <1>9, <1>10, <1>12 DEF f, u, i

(* A start, and a callback, are requests that arrive.                      *)
StartOp(u, i) == [kind |-> "start", user |-> u, inst |-> i, link |-> Nothing,
                  newest |-> FALSE, late |-> FALSE, cookie |-> Nothing, alone |-> TRUE]

VisitOp(f, kind) ==
    [kind |-> kind, user |-> links[f].user, inst |-> links[f].inst,
     link |-> f, newest |-> last[links[f].user] = f, late |-> f \in expired,
     cookie |-> IF Type[links[f].inst] = "jwt" THEN cookie[links[f].user] ELSE Nothing,
     alone |-> TRUE]

LEMMA StartEffect ==
    ASSUME IInv, NEW r \in Request, NEW u \in User, NEW i \in Instance, Start(r, u, i)
    PROVE  /\ StartOp(u, i) \in Op /\ Submit(r, StartOp(u, i), "store")
           /\ Secretive(StartOp(u, i)) /\ i \notin connected[u]
           /\ UNCHANGED visits
    BY DEF Start, StartOp, Op, Secretive, NotConnected

LEMMA LinkFields ==
    ASSUME IInv, NEW f \in Link, links[f] # Nothing
    PROVE  /\ links[f] \in Route /\ links[f].user \in User /\ links[f].inst \in Instance
           /\ links[f].token \in Request \cup {Nothing}
           /\ f \in Of(links[f].user)
<1>1. links[f] \in Route
    BY DEF IInv, TypeOK
<1> QED
    BY <1>1 DEF Route, Of

LEMMA VisitEffect ==
    ASSUME IInv, NEW r \in Request, NEW f \in Link, NEW kind \in {"callback", "unlink"},
           Visit(r, f, kind)
    PROVE  LET o == VisitOp(f, kind)
               first == IF Type[links[f].inst] = "jwt" THEN "ensure" ELSE "get"
           IN  /\ o \in Op /\ Submit(r, o, first)
               /\ f \in issued /\ links[f] # Nothing
               /\ kind # "callback" => Type[links[f].inst] = "jwt"
               /\ visits' = visits + 1
<1>1. /\ f \in issued
      /\ kind # "callback" => Type[links[f].inst] = "jwt"
      /\ visits' = visits + 1
      /\ Submit(r, VisitOp(f, kind), IF Type[links[f].inst] = "jwt" THEN "ensure" ELSE "get")
    BY DEF Visit, VisitOp
<1>2. links[f] # Nothing
    BY <1>1 DEF IInv, LinksOK
<1>3. links[f].user \in User /\ links[f].inst \in Instance
    BY <1>2, LinkFields
<1>4. cookie[links[f].user] \in Link \cup {Nothing}
    BY <1>3 DEF IInv, TypeOK
<1>5. VisitOp(f, kind) \in Op
    BY <1>3, <1>4 DEF VisitOp, Op
<1> QED
    BY <1>1, <1>2, <1>5

(* The key of tokens is read or made: the request generates one, gives its *)
(* link away, goes on with the token of its link or refuses it.            *)
Generates(r) ==
    /\ pc[r] = "ensure" /\ tokenSecret = Nothing
    /\ raced' = (raced \/ \E q \in Request : pc[q] = "generate")
    /\ Goto(r, "generate")
    /\ UNCHANGED <<tokenSecret, links, issued, cookie, took, refused>>

KeyIs(r, key) ==
    \/ pc[r] = "ensure" /\ tokenSecret # Nothing /\ key = tokenSecret /\ tokenSecret' = tokenSecret
    \/ pc[r] = "generate" /\ key = r /\ tokenSecret' = r

Issues(r, key) == op[r].kind = "start" /\ Issue(r, key)

GoesOn(r, key) ==
    /\ op[r].kind # "start"
    /\ links[op[r].link].token = key /\ op[r].link \notin expired
    /\ Goto(r, IF op[r].kind = "callback" THEN "get" ELSE "disconnect")
    /\ UNCHANGED <<took, refused, links, issued, cookie>>

Rejects(r, key) ==
    /\ op[r].kind # "start"
    /\ links[op[r].link].token # key \/ op[r].link \in expired
    /\ Finish(r)
    /\ refused' = refused \cup {op[r].link}
    /\ UNCHANGED <<links, issued, cookie>>

LEMMA KeyEffect ==
    ASSUME IInv, NEW r \in Request, EnsureAuthTokenEncryptSecret(r) \/ StoreTokenSecret(r)
    PROVE  /\ UNCHANGED <<secret, connected, last, expired, uses, again, spoiled, overlapped>>
           /\ \/ Generates(r)
              \/ /\ UNCHANGED raced
                 /\ \E key \in Request :
                       KeyIs(r, key) /\ (Issues(r, key) \/ GoesOn(r, key) \/ Rejects(r, key))
<1>1. UNCHANGED <<secret, connected, last, expired, uses, again, spoiled, overlapped>>
    BY DEF EnsureAuthTokenEncryptSecret, StoreTokenSecret
<1>2. ASSUME NEW key \in Request, WithKey(r, key)
      PROVE  Issues(r, key) \/ GoesOn(r, key) \/ Rejects(r, key)
    BY <1>2 DEF WithKey, Issues, ParseAuthToken, Parse, GoesOn, Rejects
<1>3. CASE EnsureAuthTokenEncryptSecret(r)
  <2>1. CASE tokenSecret = Nothing
    BY <1>1, <1>3, <2>1 DEF EnsureAuthTokenEncryptSecret, Generates
  <2>2. CASE tokenSecret # Nothing
    <3>1. tokenSecret \in Request
      BY <2>2 DEF IInv, TypeOK
    <3>2. WithKey(r, tokenSecret) /\ UNCHANGED raced /\ KeyIs(r, tokenSecret)
      BY <1>3, <2>2 DEF EnsureAuthTokenEncryptSecret, KeyIs
    <3> QED
      BY <1>1, <1>2, <3>1, <3>2
  <2> QED
    BY <2>1, <2>2
<1>4. CASE StoreTokenSecret(r)
  <2>1. WithKey(r, r) /\ UNCHANGED raced /\ KeyIs(r, r)
    BY <1>4 DEF StoreTokenSecret, KeyIs
  <2> QED
    BY <1>1, <1>2, <2>1
<1> QED
    BY <1>3, <1>4

(* A link is given away, with a token of the key.                          *)
LEMMA IssueEffect ==
    ASSUME IInv, NEW r \in Request, NEW key \in Request, Issues(r, key),
           pc[r] \in {"ensure", "generate"}
    PROVE  LET f == op[r].link
           IN  /\ f \in Link /\ links[f] # Nothing
               /\ links[f].user = op[r].user /\ links[f].inst = op[r].inst
               /\ op[r].user \in User /\ Type[links[f].inst] = "jwt"
               /\ links' \in [Link -> Route \cup {Nothing}]
               /\ links'[f] \in Route
               /\ links'[f].user = links[f].user /\ links'[f].inst = links[f].inst
               /\ links'[f].token = key
               /\ \A g \in Link \ {f} : links'[g] = links[g]
               /\ issued' = issued \cup {f}
               /\ cookie' = [cookie EXCEPT ![op[r].user] = f]
               /\ Finish(r)
               /\ UNCHANGED refused
<1> DEFINE f == op[r].link
<1>1. op[r] \in Op /\ op[r].user \in User
  <2>1. op[r] \in Op
    BY DEF IInv, RequestOK, TypeOK
  <2> QED
    BY <2>1 DEF Op
<1>2. f \in Of(op[r].user) /\ links[f].inst = op[r].inst /\ Type[op[r].inst] = "jwt"
    BY DEF IInv, RequestOK
<1>3. f \in Link /\ links[f] # Nothing /\ links[f].user = op[r].user
    BY <1>2 DEF Of
<1>4. /\ links' = [links EXCEPT ![f].token = key]
      /\ issued' = issued \cup {f}
      /\ cookie' = [cookie EXCEPT ![op[r].user] = f]
      /\ Finish(r)
      /\ UNCHANGED refused
    BY DEF Issues, Issue
<1>5. links \in [Link -> Route \cup {Nothing}] /\ links[f] \in Route
    BY <1>3 DEF IInv, TypeOK
<1> HIDE DEF f
<1>6. links'[f] = [links[f] EXCEPT !.token = key] /\ \A g \in Link \ {f} : links'[g] = links[g]
    BY <1>3, <1>4, <1>5
<1>7. links'[f] \in Route /\ links'[f].user = links[f].user /\ links'[f].inst = links[f].inst
      /\ links'[f].token = key
    BY <1>5, <1>6 DEF Route
<1>8. links' \in [Link -> Route \cup {Nothing}]
    BY <1>4, <1>5, <1>6, <1>7
<1> QED
    BY <1>1, <1>2, <1>3, <1>4, <1>6, <1>7, <1>8 DEF f

LEMMA TypesInit == Init => TypeOK /\ FirstOnes
<1> SUFFICES ASSUME Init PROVE TypeOK /\ FirstOnes
    OBVIOUS
<1>1. Taken = 1 .. 0
    BY DEF Init, Taken
<1>2. FirstOnes
    BY <1>1 DEF FirstOnes
<1>3. /\ uses \in [Link -> 0..2] /\ visits \in Nat /\ connected \in [User -> SUBSET Instance]
      /\ links \in [Link -> Route \cup {Nothing}]
    BY DEF Init
<1> QED
    BY <1>2, <1>3 DEF Init, TypeOK

LEMMA TypesStep == IInv /\ FirstOnes /\ [Next]_vars => TypeOK' /\ FirstOnes'
<1> SUFFICES ASSUME IInv, FirstOnes, [Next]_vars PROVE TypeOK' /\ FirstOnes'
    OBVIOUS
<1>0. TypeOK
    BY DEF IInv
<1>1. ASSUME NEW r \in Request, NEW o \in Op, NEW first \in Label \ {"idle"},
             Submit(r, o, first), visits' \in Nat
      PROVE  TypeOK' /\ FirstOnes'
  <2>1. /\ op' \in [Request -> Op \cup {Nothing}] /\ pc' \in [Request -> Label]
        /\ overlapped' \subseteq Link /\ spoiled' \subseteq Link
    BY <1>1, SubmitEffect
  <2>2. UNCHANGED <<store, took, last, expired, uses, again, refused, raced>>
    BY <1>1 DEF Submit
  <2> QED
    BY <1>0, <1>1, <2>1, <2>2 DEF TypeOK, store, Label, FirstOnes, Taken
<1>2. ASSUME NEW r \in Request, NEW u \in User, NEW i \in Instance, Start(r, u, i)
      PROVE  TypeOK' /\ FirstOnes'
  <2>1. visits' \in Nat
    BY <1>0, <1>2, StartEffect DEF TypeOK
  <2> QED
    BY <1>1, <1>2, <2>1, StartEffect DEF Label
<1>3. ASSUME NEW r \in Request, NEW f \in Link, NEW kind \in {"callback", "unlink"},
             Visit(r, f, kind)
      PROVE  TypeOK' /\ FirstOnes'
  <2>1. visits' \in Nat
    BY <1>0, <1>3, VisitEffect DEF TypeOK
  <2> QED
    BY <1>1, <1>3, <2>1, VisitEffect DEF Label
<1>4. ASSUME NEW r \in Request, StoreSecret(r) PROVE TypeOK' /\ FirstOnes'
  <2> DEFINE f == Fresh
             u == op[r].user
             i == op[r].inst
  <2>1. /\ FirstOnes' /\ f \in Link /\ u \in User
        /\ secret' = [secret EXCEPT ![u] = f]
        /\ links' = [links EXCEPT ![f] = [user |-> u, inst |-> i, token |-> Nothing]]
        /\ [user |-> u, inst |-> i, token |-> Nothing] \in Route
        /\ last' = [last EXCEPT ![u] = f]
        /\ overlapped' \subseteq overlapped \cup {f}
        /\ UNCHANGED <<tokenSecret, cookie, connected, expired, uses, again, refused, spoiled,
                       raced>>
    BY <1>4, StoreEffect
  <2>2. \/ /\ pc' = [pc EXCEPT ![r] = "ensure"]
           /\ op' = [op EXCEPT ![r].link = f] /\ op'[r] \in Op
           /\ UNCHANGED <<issued, took, visits>>
        \/ Finish(r) /\ issued' = issued \cup {f}
    BY <1>4, StoreEffect
  <2> HIDE DEF f, u, i
  <2>3. /\ secret' \in [User -> Link \cup {Nothing}] /\ last' \in [User -> Link \cup {Nothing}]
        /\ links' \in [Link -> Route \cup {Nothing}] /\ overlapped' \subseteq Link
    BY <1>0, <2>1 DEF TypeOK
  <2>4. CASE /\ pc' = [pc EXCEPT ![r] = "ensure"]
             /\ op' = [op EXCEPT ![r].link = f] /\ op'[r] \in Op
             /\ UNCHANGED <<issued, took, visits>>
    <3>1. op' \in [Request -> Op \cup {Nothing}]
      BY <1>0, <2>4 DEF TypeOK
    <3> QED
      BY <1>0, <2>1, <2>3, <2>4, <3>1 DEF TypeOK
  <2>5. CASE Finish(r) /\ issued' = issued \cup {f}
    BY <1>0, <2>1, <2>3, <2>5 DEF TypeOK, Finish
  <2> QED
    BY <2>1, <2>2, <2>4, <2>5
<1>5. ASSUME NEW r \in Request, EnsureAuthTokenEncryptSecret(r) \/ StoreTokenSecret(r)
      PROVE  TypeOK' /\ FirstOnes'
  <2>1. UNCHANGED <<secret, connected, last, expired, uses, again, spoiled, overlapped>>
    BY <1>5, KeyEffect
  <2>2. CASE Generates(r)
    <3>1. raced' \in BOOLEAN
      BY <2>2 DEF Generates
    <3> QED
      BY <1>0, <2>1, <2>2, <3>1 DEF Generates, Goto, TypeOK, FirstOnes, Taken
  <2>3. ASSUME NEW key \in Request, KeyIs(r, key), UNCHANGED raced,
               Issues(r, key) \/ GoesOn(r, key) \/ Rejects(r, key)
        PROVE  TypeOK' /\ FirstOnes'
    <3>1. tokenSecret' \in Request \cup {Nothing} /\ pc[r] \in {"ensure", "generate"}
      BY <2>3 DEF KeyIs
    <3>2. CASE Issues(r, key)
      <4>1. /\ op[r].link \in Link /\ op[r].user \in User /\ links[op[r].link] # Nothing
            /\ links' \in [Link -> Route \cup {Nothing}] /\ links'[op[r].link] \in Route
            /\ \A g \in Link \ {op[r].link} : links'[g] = links[g]
            /\ issued' = issued \cup {op[r].link}
            /\ cookie' = [cookie EXCEPT ![op[r].user] = op[r].link]
            /\ Finish(r)
            /\ UNCHANGED refused
        BY <2>3, <3>1, <3>2, IssueEffect
      <4>2. Taken' = Taken
        BY <4>1 DEF Taken
      <4> QED
        BY <1>0, <2>1, <2>3, <3>1, <4>1, <4>2 DEF TypeOK, FirstOnes, Finish
    <3>3. CASE GoesOn(r, key)
      BY <1>0, <2>1, <2>3, <3>1, <3>3 DEF GoesOn, Goto, TypeOK, FirstOnes, Taken
    <3>4. CASE Rejects(r, key)
      <4>1. op[r].link \in Link
        BY <3>1, <3>4 DEF Rejects, IInv, RequestOK, Of
      <4> QED
        BY <1>0, <2>1, <2>3, <3>1, <3>4, <4>1 DEF Rejects, Finish, TypeOK, FirstOnes, Taken
    <3> QED
      BY <2>3, <3>2, <3>3, <3>4
  <2> QED
    BY <1>5, <2>2, <2>3, KeyEffect
<1>6. ASSUME NEW r \in Request,
             GetSecret(r) \/ DeleteSecret(r) \/ Connect(r) \/ Disconnected(r) \/ Break(r)
      PROVE  TypeOK' /\ FirstOnes'
  <2>1. op[r] \in Op /\ pc[r] # "idle"
    BY <1>6 DEF GetSecret, DeleteSecret, Connect, Disconnected, Break, IInv, RequestOK, TypeOK
  <2>2. op[r].user \in User /\ op[r].inst \in Instance /\ op[r].link \in Link \cup {Nothing}
    BY <2>1 DEF Op
  <2>3. op[r].kind = "callback" => op[r].link \in Link
    BY <2>1 DEF IInv, RequestOK, Of
  <2>4. pc[r] \in {"get", "delete", "connect"} => op[r].kind = "callback"
    BY DEF IInv, RequestOK
  <2>5. UNCHANGED links
    BY <1>6 DEF GetSecret, DeleteSecret, Connect, Disconnected, Break, Refuse, store
  <2>6. CASE GetSecret(r)
    BY <1>0, <2>2, <2>3, <2>4, <2>5, <2>6
    DEF GetSecret, Refuse, Finish, Goto, store, history, TypeOK, FirstOnes, Taken
  <2>7. CASE DeleteSecret(r)
    BY <1>0, <2>2, <2>3, <2>4, <2>5, <2>7
    DEF DeleteSecret, Deleted, Spent, Finish, Goto, TypeOK, FirstOnes, Taken
  <2>8. CASE Connect(r)
    BY <1>0, <2>2, <2>3, <2>4, <2>5, <2>8 DEF Connect, Spent, Finish, TypeOK, FirstOnes, Taken
  <2>9. CASE Disconnected(r)
    BY <1>0, <2>2, <2>5, <2>9 DEF Disconnected, Finish, history, TypeOK, FirstOnes, Taken
  <2>10. CASE Break(r)
    BY <1>0, <2>2, <2>3, <2>5, <2>10 DEF Break, Spent, Finish, store, TypeOK, FirstOnes, Taken
  <2> QED
    BY <1>6, <2>6, <2>7, <2>8, <2>9, <2>10
<1>7. ASSUME NEW f \in Link, Expire(f) PROVE TypeOK' /\ FirstOnes'
    BY <1>0, <1>7 DEF Expire, store, request, TypeOK, FirstOnes, Taken
<1>8. ASSUME NEW u \in User, NEW i \in Instance, Disconnect(u, i) PROVE TypeOK' /\ FirstOnes'
    BY <1>0, <1>8 DEF Disconnect, request, history, TypeOK, FirstOnes, Taken
<1>9. CASE UNCHANGED vars
    BY <1>0, <1>9 DEF vars, store, request, history, TypeOK, FirstOnes, Taken
<1> QED
    BY <1>2, <1>3, <1>4, <1>5, <1>6, <1>7, <1>8, <1>9 DEF Next, Step

-----------------------------------------------------------------------------
(* What a step leaves alone                                                *)

(* Nothing that is stored about links, or written in the history, is taken *)
(* back, and a secret that is stored is of a new link.                     *)
Grows ==
    /\ \A f \in Link : links[f] # Nothing =>
          /\ links'[f] # Nothing
          /\ links'[f].user = links[f].user /\ links'[f].inst = links[f].inst
    /\ issued \subseteq issued' /\ expired \subseteq expired'
    /\ overlapped \subseteq overlapped' /\ spoiled \subseteq spoiled'
    /\ \A u \in User : \/ last'[u] = last[u]
                       \/ last'[u] \in Link /\ links[last'[u]] = Nothing

(* The request is where it was; at most it is not alone any more.          *)
Untouched(q) ==
    /\ pc'[q] = pc[q] /\ took'[q] = took[q]
    /\ op[q] = Nothing => op'[q] = Nothing
    /\ op[q] # Nothing => op'[q] # Nothing /\ SameFields(q)
    /\ op'[q] = op[q] \/ op'[q].alone = FALSE

Arrives(r) ==
    \/ \E u \in User, i \in Instance : Start(r, u, i)
    \/ \E f \in Link, k \in {"callback", "unlink"} : Visit(r, f, k)

LEMMA GrowsStep == IInv /\ FirstOnes /\ [Next]_vars => Grows
<1> SUFFICES ASSUME IInv, FirstOnes, [Next]_vars PROVE Grows
    OBVIOUS
<1>0. TypeOK
    BY DEF IInv
<1>1. ASSUME NEW r \in Request, NEW o \in Op, NEW first \in Label \ {"idle"}, Submit(r, o, first)
      PROVE  Grows
  <2>1. overlapped \subseteq overlapped' /\ spoiled \subseteq spoiled'
    BY <1>1, SubmitEffect
  <2>2. UNCHANGED <<links, issued, last, expired>>
    BY <1>1 DEF Submit, store
  <2> QED
    BY <2>1, <2>2 DEF Grows
<1>2. ASSUME NEW r \in Request, Arrives(r) PROVE Grows
    BY <1>1, <1>2, StartEffect, VisitEffect DEF Arrives, Label
<1>3. ASSUME NEW r \in Request, StoreSecret(r) PROVE Grows
  <2>1. /\ Fresh \in Link /\ links[Fresh] = Nothing /\ op[r].user \in User
        /\ last' = [last EXCEPT ![op[r].user] = Fresh]
        /\ \A g \in Link \ {Fresh} : links'[g] = links[g]
        /\ overlapped \subseteq overlapped'
        /\ UNCHANGED <<expired, spoiled>>
    BY <1>0, <1>3, StoreEffect DEF TypeOK
  <2>2. issued \subseteq issued'
    BY <1>3 DEF StoreSecret, MakeToken, GiveLink
  <2> QED
    BY <1>0, <2>1, <2>2 DEF Grows, TypeOK
<1>4. ASSUME NEW r \in Request, EnsureAuthTokenEncryptSecret(r) \/ StoreTokenSecret(r)
      PROVE  Grows
  <2>1. UNCHANGED <<last, expired, spoiled, overlapped>>
    BY <1>4, KeyEffect
  <2>2. ASSUME UNCHANGED <<links, issued>> PROVE Grows
    BY <2>1, <2>2 DEF Grows
  <2>3. ASSUME NEW key \in Request, KeyIs(r, key), Issues(r, key) PROVE Grows
    <3>1. pc[r] \in {"ensure", "generate"}
      BY <2>3 DEF KeyIs
    <3>2. /\ op[r].link \in Link /\ links[op[r].link] # Nothing
          /\ links'[op[r].link] \in Route
          /\ links'[op[r].link].user = links[op[r].link].user
          /\ links'[op[r].link].inst = links[op[r].link].inst
          /\ \A g \in Link \ {op[r].link} : links'[g] = links[g]
          /\ issued' = issued \cup {op[r].link}
      BY <2>3, <3>1, IssueEffect
    <3> QED
      BY <2>1, <3>2 DEF Grows
  <2> QED
    BY <1>4, <2>2, <2>3, KeyEffect DEF Generates, GoesOn, Rejects
<1>5. ASSUME NEW r \in Request,
             GetSecret(r) \/ DeleteSecret(r) \/ Connect(r) \/ Disconnected(r) \/ Break(r)
      PROVE  Grows
  <2>1. UNCHANGED <<links, issued, last, expired, overlapped>> /\ spoiled \subseteq spoiled'
    BY <1>5 DEF GetSecret, DeleteSecret, Connect, Disconnected, Break, Refuse, store, history
  <2> QED
    BY <2>1 DEF Grows
<1>6. ASSUME \/ \E f \in Link : Expire(f)
             \/ \E u \in User, i \in Instance : Disconnect(u, i)
             \/ UNCHANGED vars
      PROVE  Grows
  <2>1. UNCHANGED <<links, issued, last, overlapped, spoiled>> /\ expired \subseteq expired'
    BY <1>6 DEF Expire, Disconnect, vars, store, history
  <2> QED
    BY <2>1 DEF Grows
<1> QED
    BY <1>2, <1>3, <1>4, <1>5, <1>6 DEF Next, Step, Arrives

(* A step of one request moves no other.                                   *)
LEMMA StepOthers ==
    ASSUME IInv, NEW r \in Request, Step(r) \/ Break(r), NEW q \in Request, q # r
    PROVE  pc'[q] = pc[q] /\ op'[q] = op[q] /\ took'[q] = took[q]
<1>0. TypeOK
    BY DEF IInv
<1>1. CASE StoreSecret(r)
    BY <1>0, <1>1 DEF StoreSecret, MakeToken, GiveLink, Finish, TypeOK
<1>2. CASE EnsureAuthTokenEncryptSecret(r) \/ StoreTokenSecret(r)
  <2>1. CASE Generates(r)
    BY <1>0, <2>1 DEF Generates, Goto, TypeOK
  <2>2. ASSUME NEW key \in Request, Issues(r, key) \/ GoesOn(r, key) \/ Rejects(r, key)
        PROVE  pc'[q] = pc[q] /\ op'[q] = op[q] /\ took'[q] = took[q]
    BY <1>0, <2>2 DEF Issues, Issue, GoesOn, Rejects, Goto, Finish, TypeOK
  <2> QED
    BY <1>2, <2>1, <2>2, KeyEffect
<1>3. CASE GetSecret(r) \/ DeleteSecret(r) \/ Connect(r) \/ Disconnected(r) \/ Break(r)
    BY <1>0, <1>3 DEF GetSecret, DeleteSecret, Connect, Disconnected, Break, Refuse,
                      Goto, Finish, TypeOK
<1> QED
    BY <1>1, <1>2, <1>3 DEF Step

LEMMA OthersUntouched ==
    ASSUME IInv, FirstOnes, NEW r \in Request, Arrives(r) \/ Step(r) \/ Break(r),
           NEW q \in Request, q # r
    PROVE  Untouched(q)
<1>0. TypeOK
    BY DEF IInv
<1>1. ASSUME NEW o \in Op, NEW first \in Label \ {"idle"}, Submit(r, o, first)
      PROVE  Untouched(q)
  <2>1. UNCHANGED took
    BY <1>1 DEF Submit
  <2>2. \A p \in Request \ {r} : pc'[p] = pc[p]
    BY <1>1, SubmitEffect
  <2>3. \A p \in Request \ {r} :
           /\ op[p] = Nothing => op'[p] = Nothing
           /\ op[p] # Nothing => op'[p] \in Op /\ SameFields(p)
           /\ op'[p] = op[p] \/ op'[p].alone = FALSE
    BY <1>1, SubmitEffect
  <2>4. Nothing \notin Op
    OBVIOUS
  <2> QED
    BY <2>1, <2>2, <2>3, <2>4 DEF Untouched
<1>2. CASE Arrives(r)
    BY <1>1, <1>2, StartEffect, VisitEffect DEF Arrives, Label
<1>3. ASSUME pc'[q] = pc[q], took'[q] = took[q], op'[q] = op[q] PROVE Untouched(q)
    BY <1>3 DEF Untouched, SameFields
<1>4. CASE Step(r) \/ Break(r)
    BY <1>3, <1>4, StepOthers
<1> QED
    BY <1>2, <1>4

(* No request moves.                                                       *)
LEMMA AllUntouched ==
    ASSUME NEW q \in Request,
           \/ \E f \in Link : Expire(f)
           \/ \E u \in User, i \in Instance : Disconnect(u, i)
           \/ UNCHANGED vars
    PROVE  Untouched(q)
    BY DEF Expire, Disconnect, vars, request, Untouched, SameFields

-----------------------------------------------------------------------------
(* Links                                                                   *)

LEMMA LinksStep == IInv /\ FirstOnes /\ [Next]_vars => LinksOK'
<1> SUFFICES ASSUME IInv, FirstOnes, [Next]_vars PROVE LinksOK'
    OBVIOUS
<1>0. TypeOK /\ LinksOK
    BY DEF IInv
<1>1. ASSUME UNCHANGED <<links, issued, last, cookie>>,
             \A u \in User : secret'[u] \in {secret[u], Nothing}
      PROVE  LinksOK'
    BY <1>0, <1>1 DEF LinksOK, Of
<1>2. ASSUME NEW r \in Request, Arrives(r) PROVE LinksOK'
  <2>1. ASSUME NEW o \in Op, NEW first \in Label \ {"idle"}, Submit(r, o, first)
        PROVE  UNCHANGED <<links, issued, last, cookie, secret>>
    BY <2>1 DEF Submit, store
  <2>2. UNCHANGED <<links, issued, last, cookie, secret>>
    BY <1>2, <2>1, StartEffect, VisitEffect DEF Arrives, Label
  <2> QED
    BY <1>1, <2>2
<1>3. ASSUME NEW r \in Request, StoreSecret(r) PROVE LinksOK'
  <2> DEFINE f == Fresh
             u == op[r].user
             i == op[r].inst
  <2>1. /\ f \in Link /\ links[f] = Nothing /\ u \in User
        /\ secret' = [secret EXCEPT ![u] = f]
        /\ links' = [links EXCEPT ![f] = [user |-> u, inst |-> i, token |-> Nothing]]
        /\ [user |-> u, inst |-> i, token |-> Nothing] \in Route
        /\ last' = [last EXCEPT ![u] = f]
        /\ UNCHANGED cookie
    BY <1>3, StoreEffect
  <2>2. \/ Type[i] = "jwt" /\ UNCHANGED issued
        \/ Type[i] # "jwt" /\ issued' = issued \cup {f}
    BY <1>3, StoreEffect
  <2> HIDE DEF f, u, i
  <2>3. f \notin issued
    BY <1>0, <2>1 DEF LinksOK
  <2>4. /\ links'[f] # Nothing /\ links'[f].user = u /\ links'[f].inst = i
        /\ links'[f].token = Nothing
        /\ \A g \in Link \ {f} : links'[g] = links[g]
    BY <1>0, <2>1 DEF TypeOK
  <2>5. \A g \in issued' : /\ links'[g] # Nothing
                           /\ links'[g].token # Nothing <=> Type[links'[g].inst] = "jwt"
    BY <1>0, <2>1, <2>2, <2>3, <2>4 DEF TypeOK, LinksOK
  <2>6. \A v \in User : Of(v) \subseteq Of(v)' /\ (v = u => f \in Of(v)')
    BY <2>1, <2>4 DEF Of
  <2>7. \A v \in User : /\ last'[v] # Nothing => last'[v] \in Of(v)'
                        /\ cookie'[v] # Nothing => cookie'[v] \in issued' \cap Of(v)'
                        /\ secret'[v] # Nothing => secret'[v] = last'[v]
    BY <1>0, <2>1, <2>2, <2>6 DEF TypeOK, LinksOK
  <2> QED
    BY <2>5, <2>7 DEF LinksOK
<1>4. ASSUME NEW r \in Request, EnsureAuthTokenEncryptSecret(r) \/ StoreTokenSecret(r)
      PROVE  LinksOK'
  <2>1. UNCHANGED <<secret, last>>
    BY <1>4, KeyEffect
  <2>2. ASSUME UNCHANGED <<links, issued, cookie>> PROVE LinksOK'
    BY <1>1, <2>1, <2>2
  <2>3. ASSUME NEW key \in Request, KeyIs(r, key), Issues(r, key) PROVE LinksOK'
    <3> DEFINE f == op[r].link
               u == op[r].user
    <3>1. pc[r] \in {"ensure", "generate"}
      BY <2>3 DEF KeyIs
    <3>2. /\ f \in Link /\ links[f] # Nothing /\ links[f].user = u /\ u \in User
          /\ Type[links[f].inst] = "jwt" /\ links'[f] \in Route
          /\ links'[f].user = links[f].user /\ links'[f].inst = links[f].inst
          /\ links'[f].token = key
          /\ \A g \in Link \ {f} : links'[g] = links[g]
          /\ issued' = issued \cup {f}
          /\ cookie' = [cookie EXCEPT ![u] = f]
      BY <2>3, <3>1, IssueEffect
    <3> HIDE DEF f, u
    <3>3. \A g \in issued' : /\ links'[g] # Nothing
                             /\ links'[g].token # Nothing <=> Type[links'[g].inst] = "jwt"
      BY <1>0, <3>2 DEF TypeOK, LinksOK
    <3>4. \A v \in User : Of(v) \subseteq Of(v)' /\ (v = u => f \in Of(v)')
      BY <3>2 DEF Of
    <3>5. \A v \in User : /\ last'[v] # Nothing => last'[v] \in Of(v)'
                          /\ cookie'[v] # Nothing => cookie'[v] \in issued' \cap Of(v)'
                          /\ secret'[v] # Nothing => secret'[v] = last'[v]
      BY <1>0, <2>1, <3>2, <3>4 DEF TypeOK, LinksOK
    <3> QED
      BY <3>3, <3>5 DEF LinksOK
  <2> QED
    BY <1>4, <2>2, <2>3, KeyEffect DEF Generates, GoesOn, Rejects
<1>5. ASSUME NEW r \in Request,
             GetSecret(r) \/ DeleteSecret(r) \/ Connect(r) \/ Disconnected(r) \/ Break(r)
      PROVE  LinksOK'
  <2>1. UNCHANGED <<links, issued, last, cookie>>
    BY <1>5 DEF GetSecret, DeleteSecret, Connect, Disconnected, Break, Refuse, store, history
  <2>2. \A u \in User : secret'[u] \in {secret[u], Nothing}
    BY <1>0, <1>5 DEF GetSecret, DeleteSecret, Deleted, Connect, Disconnected, Break, Refuse, store,
                      TypeOK
  <2> QED
    BY <1>1, <2>1, <2>2
<1>6. ASSUME \/ \E f \in Link : Expire(f)
             \/ \E u \in User, i \in Instance : Disconnect(u, i)
             \/ UNCHANGED vars
      PROVE  LinksOK'
  <2>1. UNCHANGED <<links, issued, last, cookie, secret>>
    BY <1>6 DEF Expire, Disconnect, vars, store, history
  <2> QED
    BY <1>1, <2>1
<1> QED
    BY <1>2, <1>3, <1>4, <1>5, <1>6 DEF Next, Step, Arrives

-----------------------------------------------------------------------------
(* Requests                                                                *)

(* RequestOK, of one request                                               *)
FlowOK(r) ==
    /\ pc[r] = "idle" <=> op[r] = Nothing
    /\ pc[r] = "store" => op[r].kind = "start"
    /\ pc[r] \in {"ensure", "generate", "disconnect"} => Type[op[r].inst] = "jwt"
    /\ pc[r] \in {"get", "delete", "connect"} => op[r].kind = "callback"
    /\ pc[r] # "idle" => IF op[r].link = Nothing THEN pc[r] = "store"
                         ELSE /\ op[r].link \in Of(op[r].user)
                              /\ links[op[r].link].inst = op[r].inst
                              /\ op[r].kind # "start" => op[r].link \in issued
    /\ pc[r] = "delete" /\ took[r] # Nothing => took[r] \in Of(op[r].user)
    /\ pc[r] = "connect" => took[r] = op[r].link
    /\ pc[r] \in {"get", "delete", "connect"} /\ ~op[r].newest =>
          /\ last[op[r].user] # op[r].link
          /\ took[r] # op[r].link

(* What it read or was told before, compared with the history              *)
PastOK(r) ==
    /\ pc[r] \notin {"delete", "connect"} => took[r] = Nothing
    /\ pc[r] = "store" => op[r].link = Nothing
    /\ pc[r] \notin {"idle", "store"} /\ op[r].kind # "start" /\ ~op[r].newest =>
          last[op[r].user] # op[r].link
    /\ pc[r] \notin {"idle", "store"} /\ op[r].kind # "start" /\ op[r].late =>
          op[r].link \in expired
    /\ pc[r] \in {"get", "delete", "connect"} /\ Type[op[r].inst] = "jwt" => ~op[r].late

FlowsOK == IInv /\ FirstOnes /\ \A r \in Request : PastOK(r)

LEMMA FlowsOKDef == IInv <=> TypeOK /\ LinksOK /\ \A r \in Request : FlowOK(r)
    BY DEF IInv, RequestOK, FlowOK

LEMMA OfGrows == TypeOK /\ Grows => \A u \in User : Of(u) \subseteq Of(u)'
    BY DEF Grows, Of

LEMMA ActiveOp ==
    ASSUME IInv, NEW r \in Request, pc[r] # "idle"
    PROVE  /\ op[r] \in Op /\ op[r] # Nothing
           /\ op[r].user \in User /\ op[r].inst \in Instance /\ op[r].link \in Link \cup {Nothing}
           /\ op[r].newest \in BOOLEAN /\ op[r].late \in BOOLEAN /\ op[r].alone \in BOOLEAN
           /\ op[r].kind \in {"start", "callback", "unlink"}
           /\ op[r].cookie \in Link \cup {Nothing}
           /\ pc[r] # "store" => op[r].link \in Link /\ links[op[r].link] # Nothing
<1>1. op[r] \in Op /\ op[r] # Nothing
    BY DEF IInv, RequestOK, TypeOK
<1>2. pc[r] # "store" => op[r].link \in Link /\ links[op[r].link] # Nothing
    BY DEF IInv, RequestOK, Of
<1> QED
    BY <1>1, <1>2 DEF Op

(* Nothing of this changes for a request that another one leaves alone,    *)
LEMMA FlowKept ==
    ASSUME IInv, Grows, NEW q \in Request, Untouched(q), PastOK(q)
    PROVE  FlowOK(q)' /\ PastOK(q)'
<1>0. FlowOK(q) /\ TypeOK
    BY FlowsOKDef DEF IInv
<1>1. CASE pc[q] = "idle"
    BY <1>0, <1>1 DEF Untouched, FlowOK, PastOK
<1>2. CASE pc[q] # "idle"
  <2> DEFINE u == op[q].user
             f == op[q].link
  <2>1. /\ op[q] # Nothing /\ u \in User /\ f \in Link \cup {Nothing}
        /\ pc[q] # "store" => f \in Link /\ links[f] # Nothing
    BY <1>2, ActiveOp
  <2>2. /\ pc'[q] = pc[q] /\ took'[q] = took[q] /\ op'[q] # Nothing
        /\ op'[q].kind = op[q].kind /\ op'[q].user = u /\ op'[q].inst = op[q].inst
        /\ op'[q].link = f /\ op'[q].newest = op[q].newest /\ op'[q].late = op[q].late
    BY <2>1 DEF Untouched, SameFields
  <2>3. Of(u) \subseteq Of(u)'
    BY <1>0, <2>1, <2>2 DEF Grows, Of
  <2>4. f # Nothing => f \in Of(u) /\ links[f].inst = op[q].inst
                       /\ (op[q].kind # "start" => f \in issued)
    BY <1>0, <1>2 DEF FlowOK
  <2>5. f # Nothing => f \in Of(u)' /\ links'[f].inst = op[q].inst
                       /\ (op[q].kind # "start" => f \in issued')
    BY <2>1, <2>3, <2>4 DEF Grows, Of
  <2>6. pc[q] # "store" /\ last[u] # f => last'[u] # f
    BY <2>1 DEF Grows
  <2> HIDE DEF u, f
  <2>7. FlowOK(q)'
    BY <1>0, <1>2, <2>2, <2>3, <2>5, <2>6 DEF FlowOK, u, f
  <2>8. PastOK(q)'
    BY <1>2, <2>2, <2>6 DEF PastOK, Grows, u, f
  <2> QED
    BY <2>7, <2>8
<1> QED
    BY <1>1, <1>2

(* nor matters any more for one that ends.                                 *)
LEMMA FlowEnds ==
    ASSUME IInv, NEW r \in Request, Finish(r)
    PROVE  pc'[r] = "idle" /\ FlowOK(r)' /\ PastOK(r)'
<1>1. pc'[r] = "idle" /\ op'[r] = Nothing /\ took'[r] = Nothing
    BY DEF Finish, IInv, TypeOK
<1> QED
    BY <1>1 DEF FlowOK, PastOK

(* The request that arrives is the one that was to.                        *)
LEMMA ArrivedOp ==
    ASSUME IInv, NEW r \in Request, NEW o \in Op, NEW first \in Label \ {"idle"},
           Submit(r, o, first)
    PROVE  /\ pc[r] = "idle" /\ pc'[r] = first
           /\ op'[r] \in Op
           /\ op'[r].kind = o.kind /\ op'[r].user = o.user /\ op'[r].inst = o.inst
           /\ op'[r].link = o.link /\ op'[r].newest = o.newest /\ op'[r].late = o.late
           /\ op'[r].cookie = o.cookie
           /\ UNCHANGED <<store, took, last, expired, uses, again, refused, raced>>
<1>1. UNCHANGED <<store, took, last, expired, uses, again, refused, raced>>
    BY DEF Submit
<1>2. pc[r] = "idle" /\ pc'[r] = first
    BY DEF Submit, IInv, TypeOK
<1>3. /\ op'[r] \in Op
      /\ op'[r].kind = o.kind /\ op'[r].user = o.user /\ op'[r].inst = o.inst
      /\ op'[r].link = o.link /\ op'[r].newest = o.newest /\ op'[r].late = o.late
      /\ op'[r].cookie = o.cookie
  <2>1. \E b \in BOOLEAN : op'[r] = [o EXCEPT !.alone = b]
    BY DEF Submit
  <2> QED
    BY <2>1, AloneOnly
<1> QED
    BY <1>1, <1>2, <1>3

LEMMA RequestsStep == FlowsOK /\ [Next]_vars => \A r \in Request : FlowOK(r)' /\ PastOK(r)'
<1> SUFFICES ASSUME FlowsOK, [Next]_vars PROVE \A r \in Request : FlowOK(r)' /\ PastOK(r)'
    OBVIOUS
<1>0. IInv /\ FirstOnes /\ TypeOK /\ LinksOK /\ Grows /\ \A r \in Request : FlowOK(r) /\ PastOK(r)
    BY FlowsOKDef, GrowsStep DEF FlowsOK
<1>1. ASSUME NEW r \in Request, Arrives(r) \/ Step(r) \/ Break(r), FlowOK(r)' /\ PastOK(r)'
      PROVE  \A q \in Request : FlowOK(q)' /\ PastOK(q)'
  <2>1. \A q \in Request \ {r} : Untouched(q)
    BY <1>0, <1>1, OthersUntouched
  <2> QED
    BY <1>0, <1>1, <2>1, FlowKept
<1>2. ASSUME NEW r \in Request, NEW u \in User, NEW i \in Instance, Start(r, u, i)
      PROVE  FlowOK(r)' /\ PastOK(r)'
  <2> DEFINE o == StartOp(u, i)
  <2>1. o \in Op /\ Submit(r, o, "store")
    BY <1>0, <1>2, StartEffect
  <2>2. o.kind = "start" /\ o.link = Nothing
    BY DEF StartOp
  <2> HIDE DEF o
  <2>3. /\ pc[r] = "idle" /\ pc'[r] = "store" /\ op'[r] \in Op
        /\ op'[r].kind = "start" /\ op'[r].link = Nothing
    <3>1. "store" \in Label \ {"idle"}
      BY DEF Label
    <3> QED
      BY <1>0, <2>1, <2>2, <3>1, ArrivedOp
  <2>4. UNCHANGED took
    BY <2>1 DEF Submit
  <2> QED
    BY <1>0, <2>3, <2>4 DEF FlowOK, PastOK
<1>3. ASSUME NEW r \in Request, NEW f \in Link, NEW kind \in {"callback", "unlink"},
             Visit(r, f, kind)
      PROVE  FlowOK(r)' /\ PastOK(r)'
  <2> DEFINE o == VisitOp(f, kind)
             first == IF Type[links[f].inst] = "jwt" THEN "ensure" ELSE "get"
  <2>1. /\ o \in Op /\ Submit(r, o, first) /\ first \in Label \ {"idle"}
        /\ f \in issued /\ links[f] # Nothing
        /\ kind # "callback" => Type[links[f].inst] = "jwt"
    BY <1>0, <1>3, VisitEffect DEF Label
  <2>2. /\ o.kind = kind /\ o.user = links[f].user /\ o.inst = links[f].inst /\ o.link = f
        /\ o.newest = (last[links[f].user] = f) /\ o.late = (f \in expired)
    BY DEF VisitOp
  <2>9. first \in {"ensure", "get"} /\ (first = "ensure" <=> Type[links[f].inst] = "jwt")
    OBVIOUS
  <2> HIDE DEF o, first
  <2>3. /\ pc[r] = "idle" /\ pc'[r] = first /\ op'[r] \in Op
        /\ op'[r].kind = o.kind /\ op'[r].user = o.user /\ op'[r].inst = o.inst
        /\ op'[r].link = o.link /\ op'[r].newest = o.newest /\ op'[r].late = o.late
    BY <1>0, <2>1, ArrivedOp
  <2>4. UNCHANGED <<took, links, issued, last, expired>>
    BY <2>1 DEF Submit, store
  <2>5. f \in Of(op[r].user)'
    BY <2>1, <2>2, <2>3, <2>4 DEF Of
  <2>6. took'[r] = Nothing
    BY <1>0, <2>3, <2>4 DEF PastOK
  <2>10. /\ pc'[r] \in {"ensure", "get"}
         /\ pc'[r] = "ensure" <=> Type[links'[f].inst] = "jwt"
         /\ op'[r] \in Op
         /\ op'[r].kind = kind /\ op'[r].inst = links'[f].inst /\ op'[r].link = f
         /\ op'[r].newest = (last'[op'[r].user] = f) /\ op'[r].late = (f \in expired')
         /\ kind # "callback" => Type[links'[f].inst] = "jwt"
         /\ f \in issued'
    BY <2>1, <2>2, <2>3, <2>4, <2>9
  <2>11. op'[r] # Nothing /\ f # Nothing /\ links'[f].inst = op'[r].inst
    BY <2>10 DEF Link
  <2>7. FlowOK(r)'
    <3>1. /\ pc'[r] \notin {"idle", "store", "delete", "connect", "disconnect", "generate"}
          /\ pc'[r] = "ensure" => Type[op'[r].inst] = "jwt"
          /\ pc'[r] = "get" => op'[r].kind = "callback"
      BY <2>10
    <3>2. ~op'[r].newest => last'[op'[r].user] # op'[r].link /\ took'[r] # op'[r].link
      BY <2>6, <2>10, <2>11
    <3> QED
      BY <2>5, <2>10, <2>11, <3>1, <3>2 DEF FlowOK
  <2>8. PastOK(r)'
    BY <2>6, <2>10 DEF PastOK
  <2> QED
    BY <2>7, <2>8
<1>4. ASSUME NEW r \in Request, StoreSecret(r) PROVE FlowOK(r)' /\ PastOK(r)'
  <2> DEFINE f == Fresh
             u == op[r].user
             i == op[r].inst
  <2>1. /\ pc[r] = "store" /\ u \in User /\ f \in Link
        /\ links' = [links EXCEPT ![f] = [user |-> u, inst |-> i, token |-> Nothing]]
        /\ [user |-> u, inst |-> i, token |-> Nothing] \in Route
    BY <1>0, <1>4, StoreEffect
  <2>2. \/ Finish(r)
        \/ /\ Type[i] = "jwt"
           /\ pc' = [pc EXCEPT ![r] = "ensure"]
           /\ op'[r] \in Op
           /\ op'[r].kind = op[r].kind /\ op'[r].user = u /\ op'[r].inst = i
           /\ op'[r].link = f
           /\ UNCHANGED took
    BY <1>0, <1>4, StoreEffect
  <2>3. links'[f] # Nothing /\ links'[f].user = u /\ links'[f].inst = i
    BY <1>0, <2>1 DEF TypeOK
  <2>4. CASE Finish(r)
    BY <1>0, <2>4, FlowEnds
  <2>5. CASE /\ Type[i] = "jwt"
             /\ pc' = [pc EXCEPT ![r] = "ensure"]
             /\ op'[r] \in Op
             /\ op'[r].kind = op[r].kind /\ op'[r].user = u /\ op'[r].inst = i
             /\ op'[r].link = f
             /\ UNCHANGED took
    <3> HIDE DEF f
    <3>1. pc'[r] = "ensure" /\ op[r].kind = "start" /\ took'[r] = Nothing
      BY <1>0, <2>1, <2>5 DEF FlowOK, PastOK, TypeOK
    <3>2. f \in Of(op[r].user)'
      BY <2>1, <2>3, <2>5 DEF Of
    <3>3. /\ op'[r] \in Op /\ op'[r].kind = "start" /\ op'[r].link = f
          /\ Type[op'[r].inst] = "jwt" /\ links'[f].inst = op'[r].inst
      BY <2>3, <2>5, <3>1
    <3>5. op'[r] # Nothing /\ f # Nothing
      BY <2>1, <3>3 DEF Link
    <3>4. FlowOK(r)'
      BY <3>1, <3>2, <3>3, <3>5 DEF FlowOK
    <3> QED
      BY <3>1, <3>3, <3>4 DEF PastOK
  <2> QED
    BY <2>2, <2>4, <2>5
<1>5. ASSUME NEW r \in Request, EnsureAuthTokenEncryptSecret(r) \/ StoreTokenSecret(r)
      PROVE  FlowOK(r)' /\ PastOK(r)'
  <2>1. UNCHANGED <<last, expired>> /\ pc[r] \in {"ensure", "generate"}
    BY <1>5, KeyEffect, <1>0 DEF EnsureAuthTokenEncryptSecret, StoreTokenSecret
  <2>2. took[r] = Nothing /\ op[r].kind \in {"start", "callback", "unlink"}
    BY <1>0, <2>1, ActiveOp DEF PastOK
  <2>3. CASE Generates(r)
    <3>1. pc'[r] = "generate" /\ UNCHANGED <<op, took, links, issued>>
      BY <1>0, <2>3 DEF Generates, Goto, TypeOK
    <3>2. Of(op[r].user)' = Of(op[r].user)
      BY <3>1 DEF Of
    <3> QED
      BY <1>0, <2>1, <3>1, <3>2 DEF FlowOK, PastOK
  <2>4. ASSUME NEW key \in Request, GoesOn(r, key) PROVE FlowOK(r)' /\ PastOK(r)'
    <3>1. /\ op[r].kind # "start" /\ op[r].link \notin expired
          /\ pc'[r] = IF op[r].kind = "callback" THEN "get" ELSE "disconnect"
          /\ UNCHANGED <<op, took, links, issued>>
      BY <1>0, <2>4 DEF GoesOn, Goto, TypeOK
    <3>2. Of(op[r].user)' = Of(op[r].user)
      BY <3>1 DEF Of
    <3>3. op[r].link \in Link
      BY <1>0, <2>1, ActiveOp
    <3>4. FlowOK(r)'
      BY <1>0, <2>1, <2>2, <3>1, <3>2, <3>3 DEF FlowOK, PastOK
    <3>5. PastOK(r)'
      BY <1>0, <2>1, <2>2, <3>1 DEF PastOK
    <3> QED
      BY <3>4, <3>5
  <2>5. ASSUME NEW key \in Request, Issues(r, key) \/ Rejects(r, key) PROVE Finish(r)
    BY <2>5 DEF Issues, Issue, Rejects
  <2> QED
    BY <1>0, <1>5, <2>3, <2>4, <2>5, KeyEffect, FlowEnds
<1>6. ASSUME NEW r \in Request, GetSecret(r) PROVE FlowOK(r)' /\ PastOK(r)'
  <2> DEFINE u == op[r].user
  <2>1. /\ pc[r] = "get" /\ op[r].kind = "callback" /\ u \in User /\ op[r].link \in Link
    BY <1>0, <1>6, ActiveOp DEF GetSecret, FlowOK
  <2>2. \/ Finish(r)
        \/ /\ pc' = [pc EXCEPT ![r] = "delete"]
           /\ took' = [took EXCEPT ![r] = secret[u]]
           /\ UNCHANGED <<op, store, history>>
    BY <1>6 DEF GetSecret, Refuse, Goto
  <2>3. CASE /\ pc' = [pc EXCEPT ![r] = "delete"]
             /\ took' = [took EXCEPT ![r] = secret[u]]
             /\ UNCHANGED <<op, store, history>>
    <3>1. /\ pc'[r] = "delete" /\ took'[r] = secret[u]
          /\ UNCHANGED <<op, links, issued, last, expired>>
      BY <1>0, <2>3 DEF TypeOK, store, history
    <3>2. Of(u)' = Of(u)
      BY <3>1 DEF Of
    <3>3. secret[u] # Nothing => secret[u] = last[u] /\ secret[u] \in Of(u)
      BY <1>0, <2>1 DEF LinksOK
    <3>4. FlowOK(r)'
      BY <1>0, <2>1, <3>1, <3>2, <3>3 DEF FlowOK
    <3>5. PastOK(r)'
      BY <1>0, <2>1, <3>1 DEF PastOK
    <3> QED
      BY <3>4, <3>5
  <2> QED
    BY <1>0, <2>2, <2>3, FlowEnds
<1>7. ASSUME NEW r \in Request, DeleteSecret(r) PROVE FlowOK(r)' /\ PastOK(r)'
  <2>1. \/ Finish(r)
        \/ /\ pc[r] = "delete" /\ pc' = [pc EXCEPT ![r] = "connect"]
           /\ took[r] = op[r].link
           /\ UNCHANGED <<op, took, links, issued, last, expired>>
    BY <1>7 DEF DeleteSecret, Same, Goto
  <2>2. CASE /\ pc[r] = "delete" /\ pc' = [pc EXCEPT ![r] = "connect"]
             /\ took[r] = op[r].link
             /\ UNCHANGED <<op, took, links, issued, last, expired>>
    <3>1. pc'[r] = "connect"
      BY <1>0, <2>2 DEF TypeOK
    <3>2. Of(op[r].user)' = Of(op[r].user)
      BY <2>2 DEF Of
    <3> QED
      BY <1>0, <2>2, <3>1, <3>2 DEF FlowOK, PastOK
  <2> QED
    BY <1>0, <2>1, <2>2, FlowEnds
<1>8. ASSUME NEW r \in Request, Connect(r) \/ Disconnected(r) \/ Break(r)
      PROVE  FlowOK(r)' /\ PastOK(r)'
  <2>1. Finish(r)
    BY <1>8 DEF Connect, Disconnected, Break
  <2> QED
    BY <1>0, <2>1, FlowEnds
<1>9. ASSUME \/ \E f \in Link : Expire(f)
             \/ \E u \in User, i \in Instance : Disconnect(u, i)
             \/ UNCHANGED vars
      PROVE  \A q \in Request : FlowOK(q)' /\ PastOK(q)'
  <2>1. \A q \in Request : Untouched(q)
    BY <1>9, AllUntouched
  <2> QED
    BY <1>0, <2>1, FlowKept
<1>10. ASSUME NEW r \in Request, Arrives(r) \/ Step(r) \/ Break(r)
       PROVE  FlowOK(r)' /\ PastOK(r)'
    BY <1>2, <1>3, <1>4, <1>5, <1>6, <1>7, <1>8, <1>10 DEF Arrives, Step
<1> QED
    BY <1>1, <1>9, <1>10 DEF Next, Arrives

LEMMA FlowsInit == Init => FlowsOK
<1> SUFFICES ASSUME Init PROVE FlowsOK
    OBVIOUS
<1>1. TypeOK /\ FirstOnes
    BY TypesInit
<1>2. LinksOK
    BY DEF Init, LinksOK
<1>3. \A r \in Request : FlowOK(r) /\ PastOK(r)
    BY DEF Init, FlowOK, PastOK
<1> QED
    BY <1>1, <1>2, <1>3, FlowsOKDef DEF FlowsOK

LEMMA FlowsStep == FlowsOK /\ [Next]_vars => FlowsOK'
<1> SUFFICES ASSUME FlowsOK, [Next]_vars PROVE FlowsOK'
    OBVIOUS
<1>1. TypeOK' /\ FirstOnes' /\ LinksOK'
    BY TypesStep, LinksStep DEF FlowsOK
<1>2. \A r \in Request : FlowOK(r)' /\ PastOK(r)'
    BY RequestsStep
<1>3. RequestOK'
    BY <1>2 DEF RequestOK, FlowOK
<1> QED
    BY <1>1, <1>2, <1>3 DEF FlowsOK, IInv

(* What is stored, and what a request carries from one call to the next,   *)
(* is of one user.                                                         *)
THEOREM FlowsConsistency == Spec => []IInv
<1>1. FlowsOK => IInv
    BY DEF FlowsOK
<1> QED
    BY <1>1, FlowsInit, FlowsStep, PTL DEF Spec

(* A link that was replaced, or whose token is too old, connects nobody.   *)
THEOREM LiveLinks == Spec => []OnlyLiveLinks
<1>1. FlowsOK => OnlyLiveLinks
    BY FlowsOKDef DEF FlowsOK, FlowOK, PastOK, OnlyLiveLinks
<1> QED
    BY <1>1, FlowsInit, FlowsStep, PTL DEF Spec

-----------------------------------------------------------------------------
(* Requests that overlap                                                   *)

(* Two requests of a user that need his secret know that they overlap, and *)
(* so do their links.                                                      *)
Rivals(q, r) == q # r /\ Active(q) /\ Active(r) /\ op[q].user = op[r].user

AloneOK ==
    /\ \A q \in Request, r \in Request : Rivals(q, r) => ~op[r].alone
    /\ \A r \in Request :
          Active(r) /\ ~op[r].alone /\ op[r].link # Nothing => op[r].link \in overlapped

(* One arrives.                                                            *)
LEMMA Meets ==
    ASSUME IInv, NEW r \in Request, NEW o \in Op, NEW first \in Label \ {"idle"},
           Submit(r, o, first), Secretive(o),
           NEW q \in Request, q # r, Active(q), op[q].user = o.user
    PROVE  /\ ~op'[r].alone /\ ~op'[q].alone
           /\ o.link \in Link => o.link \in overlapped'
           /\ op[q].link \in Link => op[q].link \in overlapped'
<1>1. q \in Busy(o.user)
    BY DEF Busy, Active, Secretive
<1>2. op[q] \in Op
    BY ActiveOp DEF Active
<1>3. /\ op'[r] = [o EXCEPT !.alone = FALSE]
      /\ op'[q] = [op[q] EXCEPT !.alone = FALSE]
      /\ overlapped' = overlapped \cup (({o.link} \cup {op[p].link : p \in Busy(o.user)})
                                          \cap Link)
    BY <1>1 DEF Submit
<1> QED
    BY <1>1, <1>2, <1>3, AloneOnly

LEMMA DoesNotMeet ==
    ASSUME IInv, NEW r \in Request, NEW o \in Op, NEW first \in Label \ {"idle"},
           Submit(r, o, first),
           NEW q \in Request, q # r, ~(Secretive(o) /\ Active(q) /\ op[q].user = o.user)
    PROVE  op'[q] = op[q]
<1>1. Secretive(o) => q \notin Busy(o.user)
    BY DEF Busy, Active, Secretive
<1> QED
    BY <1>1 DEF Submit

LEMMA AloneArrives ==
    ASSUME FlowsOK, AloneOK, NEW r \in Request, Arrives(r)
    PROVE  AloneOK'
<1>0. IInv /\ FirstOnes /\ TypeOK
    BY DEF FlowsOK, IInv
<1>1. \A q \in Request \ {r} : Untouched(q)
    BY <1>0, OthersUntouched
<1>2. ASSUME NEW o \in Op, NEW first \in Label \ {"idle"}, Submit(r, o, first)
      PROVE  AloneOK'
  <2>1. /\ pc[r] = "idle" /\ pc'[r] = first /\ op'[r] \in Op
        /\ op'[r].kind = o.kind /\ op'[r].user = o.user /\ op'[r].link = o.link
    BY <1>0, <1>2, ArrivedOp
  <2>2. ASSUME NEW q \in Request \ {r}
        PROVE  /\ Active(q)' <=> Active(q)
               /\ Active(q) => /\ op'[q].user = op[q].user /\ op'[q].link = op[q].link
                               /\ op[q].alone = FALSE => op'[q].alone = FALSE
    <3>1. pc'[q] = pc[q] /\ (pc[q] # "idle" => op[q] # Nothing)
      BY <1>0, <1>1, ActiveOp DEF Untouched
    <3>2. CASE pc[q] = "idle"
      BY <3>1, <3>2 DEF Active
    <3>3. CASE pc[q] # "idle"
      BY <1>1, <3>1, <3>3 DEF Untouched, SameFields, Active, Secretive
    <3> QED
      BY <3>2, <3>3
  <2>3. \A q \in Request : Active(q) => op[q].alone \in BOOLEAN
    BY <1>0, ActiveOp DEF Active
  <2>4. Active(r)' => Secretive(o)
    BY <2>1 DEF Active, Secretive
  <2>5. ASSUME NEW q \in Request \ {r}, Active(q), Active(r)', op[q].user = o.user
        PROVE  /\ ~op'[r].alone /\ ~op'[q].alone
               /\ o.link \in Link => o.link \in overlapped'
               /\ op[q].link \in Link => op[q].link \in overlapped'
    BY <1>0, <1>2, <2>4, <2>5, Meets
  <2>6. ASSUME NEW p \in Request, NEW q \in Request, Rivals(p, q)' PROVE ~op'[q].alone
    <3>1. CASE p # r /\ q # r
      <4>1. Rivals(p, q)
        BY <2>2, <2>6, <3>1 DEF Rivals
      <4>2. op[q].alone = FALSE
        BY <2>3, <4>1 DEF AloneOK, Rivals
      <4> QED
        BY <2>2, <3>1, <4>1, <4>2 DEF Rivals
    <3>2. CASE p = r /\ q # r
      BY <2>1, <2>2, <2>5, <2>6, <3>2 DEF Rivals
    <3>3. CASE p # r /\ q = r
      BY <2>1, <2>2, <2>5, <2>6, <3>3 DEF Rivals
    <3> QED
      BY <2>6, <3>1, <3>2, <3>3 DEF Rivals
  <2>7. ASSUME NEW q \in Request, Active(q)', ~op'[q].alone, op'[q].link # Nothing
        PROVE  op'[q].link \in overlapped'
    <3>1. op'[q].link \in Link
      <4>1. op'[q] \in Op
        <5>1. op' \in [Request -> Op \cup {Nothing}]
          BY <1>0, <1>2, SubmitEffect
        <5>2. op'[q] # Nothing
          <6>1. CASE q = r
            BY <2>1, <6>1
          <6>2. CASE q # r
            BY <1>0, <1>1, <2>2, <2>7, <6>2, ActiveOp DEF Untouched, Active
          <6> QED
            BY <6>1, <6>2
        <5> QED
          BY <5>1, <5>2
      <4> QED
        BY <2>7, <4>1 DEF Op
    <3>2. CASE \E p \in Request \ {r} : /\ Secretive(o) /\ Active(p) /\ op[p].user = o.user
                                        /\ q \in {p, r}
      <4>1. PICK p \in Request \ {r} : /\ Secretive(o) /\ Active(p) /\ op[p].user = o.user
                                       /\ q \in {p, r}
        BY <3>2
      <4>2. /\ o.link \in Link => o.link \in overlapped'
            /\ op[p].link \in Link => op[p].link \in overlapped'
        BY <1>0, <1>2, <4>1, Meets
      <4> QED
        BY <2>1, <2>2, <3>1, <4>1, <4>2
    <3>3. CASE q # r /\ ~(Secretive(o) /\ Active(q) /\ op[q].user = o.user)
      <4>1. op'[q] = op[q]
        BY <1>0, <1>2, <3>3, DoesNotMeet
      <4>2. overlapped \subseteq overlapped'
        BY <1>0, <1>2, SubmitEffect
      <4> QED
        BY <2>2, <2>7, <3>3, <4>1, <4>2 DEF AloneOK
    <3>4. CASE q = r /\ \A p \in Request \ {r} : ~(Secretive(o) /\ Active(p) /\ op[p].user = o.user)
      <4>1. Secretive(o) => Busy(o.user) = {}
        BY <2>1, <3>4 DEF Busy, Active, Secretive
      <4>2. op'[r] = [o EXCEPT !.alone = TRUE]
        BY <1>2, <4>1 DEF Submit
      <4> QED
        BY <2>7, <3>4, <4>2, AloneOnly
    <3> QED
      BY <3>2, <3>3, <3>4
  <2> QED
    BY <2>6, <2>7 DEF AloneOK
<1> QED
    BY <1>0, <1>2, StartEffect, VisitEffect DEF Arrives, Label

(* It ends its request, moves it, or gives it the link of a new secret.     *)
LEMMA StepOwn ==
    ASSUME FlowsOK, NEW r \in Request, Step(r) \/ Break(r)
    PROVE  /\ pc[r] # "idle"
           /\ \/ pc'[r] = "idle"
              \/ op'[r] = op[r]
              \/ /\ StoreSecret(r)
                 /\ op'[r].kind = op[r].kind /\ op'[r].user = op[r].user
                 /\ op'[r].inst = op[r].inst /\ op'[r].alone = op[r].alone
                 /\ op'[r].link = Fresh
                 /\ pc'[r] = "ensure"
<1>0. IInv /\ FirstOnes /\ TypeOK
    BY DEF FlowsOK, IInv
<1>1. CASE StoreSecret(r)
  <2>1. /\ pc[r] = "store"
        /\ \/ Finish(r)
           \/ /\ pc' = [pc EXCEPT ![r] = "ensure"]
              /\ op'[r].kind = op[r].kind /\ op'[r].user = op[r].user
              /\ op'[r].inst = op[r].inst /\ op'[r].alone = op[r].alone
              /\ op'[r].link = Fresh
    BY <1>0, <1>1, StoreEffect
  <2> QED
    BY <1>0, <1>1, <2>1, FlowEnds DEF TypeOK
<1>2. CASE EnsureAuthTokenEncryptSecret(r) \/ StoreTokenSecret(r)
  <2>1. pc[r] # "idle"
    BY <1>2 DEF EnsureAuthTokenEncryptSecret, StoreTokenSecret
  <2>2. CASE Generates(r)
    BY <2>1, <2>2 DEF Generates, Goto
  <2>3. ASSUME NEW key \in Request, Issues(r, key) \/ GoesOn(r, key) \/ Rejects(r, key)
        PROVE  pc'[r] = "idle" \/ op'[r] = op[r]
    BY <1>0, <2>3, FlowEnds DEF Issues, Issue, GoesOn, Rejects, Goto
  <2> QED
    BY <1>0, <1>2, <2>1, <2>2, <2>3, KeyEffect
<1>3. CASE GetSecret(r) \/ DeleteSecret(r) \/ Connect(r) \/ Disconnected(r) \/ Break(r)
    BY <1>0, <1>3, FlowEnds DEF GetSecret, DeleteSecret, Connect, Disconnected, Break, Refuse,
                                Goto
<1> QED
    BY <1>1, <1>2, <1>3 DEF Step

LEMMA AloneStep == FlowsOK /\ AloneOK /\ [Next]_vars => AloneOK'
<1> SUFFICES ASSUME FlowsOK, AloneOK, [Next]_vars PROVE AloneOK'
    OBVIOUS
<1>0. IInv /\ FirstOnes /\ TypeOK /\ Grows
    BY GrowsStep DEF FlowsOK, IInv
<1>1. ASSUME NEW r \in Request, Step(r) \/ Break(r) PROVE AloneOK'
  <2>1. ASSUME NEW q \in Request, Active(q)'
        PROVE  /\ Active(q)
               /\ op'[q].user = op[q].user /\ op'[q].alone = op[q].alone
               /\ \/ op'[q].link = op[q].link
                  \/ q = r /\ StoreSecret(r) /\ op'[q].link = Fresh
    <3>1. CASE q # r
      BY <1>0, <1>1, <2>1, <3>1, StepOthers DEF Active, Secretive
    <3>2. CASE q = r
      BY <1>1, <2>1, <3>2, StepOwn DEF Active, Secretive
    <3> QED
      BY <3>1, <3>2
  <2>2. \A p \in Request, q \in Request : Rivals(p, q)' => ~op'[q].alone
    BY <2>1 DEF Rivals, AloneOK
  <2>3. ASSUME NEW q \in Request, Active(q)', ~op'[q].alone, op'[q].link # Nothing
        PROVE  op'[q].link \in overlapped'
    <3>1. CASE op'[q].link = op[q].link
      BY <1>0, <2>1, <2>3, <3>1 DEF AloneOK, Grows
    <3>2. CASE q = r /\ StoreSecret(r) /\ op'[q].link = Fresh
      <4>1. Fresh \in overlapped' \/ op[r].alone
        BY <1>0, <3>2, StoreEffect
      <4> QED
        BY <2>1, <2>3, <3>2, <4>1
    <3> QED
      BY <2>1, <2>3, <3>1, <3>2
  <2> QED
    BY <2>2, <2>3 DEF AloneOK
<1>2. ASSUME \/ \E f \in Link : Expire(f)
             \/ \E u \in User, i \in Instance : Disconnect(u, i)
             \/ UNCHANGED vars
      PROVE  AloneOK'
  <2>1. UNCHANGED <<pc, op, overlapped>>
    BY <1>2 DEF Expire, Disconnect, vars, request, history
  <2> QED
    BY <2>1 DEF AloneOK, Rivals, Active, Secretive
<1> QED
    BY <1>1, <1>2, AloneArrives DEF Next, Arrives

-----------------------------------------------------------------------------
(* Connected once                                                          *)

(* A request that has not overlapped still holds what it found: the user   *)
(* was not connected, and the secret is the one it read.  One that is about*)
(* to connect its user has left no other secret to use.                    *)
OnceFlow(r) ==
    /\ pc[r] = "store" /\ op[r].alone => op[r].inst \notin connected[op[r].user]
    /\ pc[r] = "delete" /\ op[r].alone => secret[op[r].user] = took[r]
    /\ pc[r] = "connect" => secret[op[r].user] \in overlapped \cup {Nothing}
    /\ pc[r] = "connect" /\ op[r].link \notin overlapped =>
          uses[op[r].link] = 0 /\ op[r].inst \notin connected[op[r].user]

UnusedOK ==
    /\ \A f \in Link : links[f] = Nothing => uses[f] = 0
    /\ \A u \in User : secret[u] \notin overlapped \cup {Nothing} =>
          uses[secret[u]] = 0 /\ links[secret[u]].inst \notin connected[u]

OnceOK == UnusedOK /\ ConnectedOnce /\ \A r \in Request : OnceFlow(r)

LEMMA OnceFlowKept ==
    ASSUME IInv, Grows, UNCHANGED <<secret, uses>>,
           \A u \in User : connected'[u] \subseteq connected[u],
           NEW q \in Request, Untouched(q), OnceFlow(q)
    PROVE  OnceFlow(q)'
<1>1. CASE pc[q] = "idle"
    BY <1>1 DEF Untouched, OnceFlow
<1>2. CASE pc[q] # "idle"
  <2>1. op[q] # Nothing /\ op[q].user \in User
    BY <1>2, ActiveOp
  <2>2. /\ pc'[q] = pc[q] /\ took'[q] = took[q]
        /\ op'[q].user = op[q].user /\ op'[q].inst = op[q].inst /\ op'[q].link = op[q].link
        /\ op'[q].alone => op[q].alone
    BY <2>1 DEF Untouched, SameFields
  <2>3. overlapped \subseteq overlapped'
    BY DEF Grows
  <2> QED
    BY <2>1, <2>2, <2>3 DEF OnceFlow
<1> QED
    BY <1>1, <1>2

LEMMA UnusedKept ==
    ASSUME IInv, Grows, UNCHANGED <<secret, uses>>, UnusedOK,
           \A u \in User : connected'[u] \subseteq connected[u]
    PROVE  UnusedOK'
<1>1. \A f \in Link : links'[f] = Nothing => links[f] = Nothing
    BY DEF Grows
<1>2. \A u \in User : secret[u] # Nothing =>
         secret[u] \in Link /\ links'[secret[u]].inst = links[secret[u]].inst
    BY DEF IInv, TypeOK, LinksOK, Of, Grows
<1>3. overlapped \subseteq overlapped'
    BY DEF Grows
<1> QED
    BY <1>1, <1>2, <1>3 DEF UnusedOK

(* What a step leaves of this when it does not connect or touch a secret.  *)
LEMMA OnceKept ==
    ASSUME IInv, Grows, OnceOK, UNCHANGED <<secret, uses, again>>,
           \A u \in User : connected'[u] \subseteq connected[u],
           \A q \in Request : \/ Untouched(q)
                              \/ pc'[q] \notin {"store", "delete", "connect"}
                              \/ OnceFlow(q)'
    PROVE  OnceOK'
<1>1. UnusedOK'
    BY UnusedKept DEF OnceOK
<1>2. ConnectedOnce'
    BY DEF OnceOK, ConnectedOnce, Grows
<1>3. ASSUME NEW q \in Request PROVE OnceFlow(q)'
  <2>1. CASE Untouched(q)
    BY <2>1, OnceFlowKept DEF OnceOK
  <2>2. CASE pc'[q] \notin {"store", "delete", "connect"}
    BY <2>2 DEF OnceFlow
  <2> QED
    BY <2>1, <2>2
<1> QED
    BY <1>1, <1>2, <1>3 DEF OnceOK

LEMMA OnceArrives ==
    ASSUME FlowsOK, Grows, OnceOK, NEW r \in Request, Arrives(r)
    PROVE  OnceOK'
<1>0. IInv /\ FirstOnes
    BY DEF FlowsOK
<1>1. \A q \in Request \ {r} : Untouched(q)
    BY <1>0, OthersUntouched
<1>2. ASSUME NEW o \in Op, NEW first \in Label \ {"idle"}, Submit(r, o, first),
             first = "store" => o.inst \notin connected[o.user],
             first \in {"store", "ensure", "get"}
      PROVE  OnceOK'
  <2>1. /\ pc'[r] = first /\ op'[r].user = o.user /\ op'[r].inst = o.inst
        /\ UNCHANGED <<store, took, last, expired, uses, again, refused, raced>>
    BY <1>0, <1>2, ArrivedOp
  <2>2. UNCHANGED <<secret, connected, uses, again>>
    BY <2>1 DEF store
  <2>3. OnceFlow(r)'
    BY <1>2, <2>1, <2>2 DEF OnceFlow
  <2> QED
    BY <1>0, <1>1, <2>2, <2>3, OnceKept
<1>3. ASSUME NEW u \in User, NEW i \in Instance, Start(r, u, i) PROVE OnceOK'
  <2> DEFINE o == StartOp(u, i)
  <2>1. o \in Op /\ Submit(r, o, "store") /\ i \notin connected[u]
    BY <1>0, <1>3, StartEffect
  <2>2. o.user = u /\ o.inst = i
    BY DEF StartOp
  <2>3. "store" \in Label \ {"idle"}
    BY DEF Label
  <2> HIDE DEF o
  <2> QED
    BY <1>2, <2>1, <2>2, <2>3
<1>4. ASSUME NEW f \in Link, NEW k \in {"callback", "unlink"}, Visit(r, f, k) PROVE OnceOK'
  <2> DEFINE o == VisitOp(f, k)
             first == IF Type[links[f].inst] = "jwt" THEN "ensure" ELSE "get"
  <2>1. o \in Op /\ Submit(r, o, first)
    BY <1>0, <1>4, VisitEffect
  <2>2. first \in Label \ {"idle"} /\ first \in {"ensure", "get"}
    BY DEF Label
  <2> HIDE DEF o, first
  <2> QED
    BY <1>2, <2>1, <2>2
<1> QED
    BY <1>3, <1>4 DEF Arrives

(* A secret is stored by a request that is alone, or is marked.            *)
LEMMA OnceStore ==
    ASSUME FlowsOK, Grows, AloneOK, OnceOK, NEW r \in Request, StoreSecret(r)
    PROVE  OnceOK'
<1> DEFINE f == Fresh
           u == op[r].user
           i == op[r].inst
<1>0. IInv /\ FirstOnes /\ TypeOK /\ LinksOK
    BY DEF FlowsOK, IInv
<1>1. /\ pc[r] = "store" /\ u \in User /\ i \in Instance /\ f \in Link /\ links[f] = Nothing
      /\ secret' = [secret EXCEPT ![u] = f]
      /\ links' = [links EXCEPT ![f] = [user |-> u, inst |-> i, token |-> Nothing]]
      /\ f \in overlapped' \/ op[r].alone
      /\ UNCHANGED <<connected, uses, again>>
    BY <1>0, StoreEffect
<1>2. links'[f].inst = i
    BY <1>0, <1>1 DEF TypeOK
<1>3. Active(r)
    BY <1>0, <1>1 DEF Active, Secretive, IInv, RequestOK
<1>4. overlapped \subseteq overlapped'
    BY DEF Grows
<1>5. op[r].alone \in BOOLEAN
    BY <1>0, <1>1, ActiveOp
<1> HIDE DEF f, u, i
<1>6. UnusedOK'
  <2>1. \A g \in Link : links'[g] = Nothing => links[g] = Nothing
    BY DEF Grows
  <2>2. ASSUME NEW v \in User, v # u, secret'[v] \notin overlapped' \cup {Nothing}
        PROVE  uses'[secret'[v]] = 0 /\ links'[secret'[v]].inst \notin connected'[v]
    <3>1. secret'[v] = secret[v] /\ secret[v] \in Link
      BY <1>0, <1>1, <2>2 DEF TypeOK
    <3>2. links'[secret[v]].inst = links[secret[v]].inst
      BY <1>0, <2>2, <3>1 DEF LinksOK, Of, Grows
    <3> QED
      BY <1>1, <1>4, <2>2, <3>1, <3>2 DEF OnceOK, UnusedOK
  <2>3. secret'[u] = f
    BY <1>0, <1>1 DEF TypeOK
  <2>4. f \notin overlapped' => uses[f] = 0 /\ i \notin connected[u]
    BY <1>1 DEF OnceOK, UnusedOK, OnceFlow, u, i
  <2> QED
    BY <1>1, <1>2, <2>1, <2>2, <2>3, <2>4 DEF OnceOK, UnusedOK
<1>7. ConnectedOnce'
    BY <1>1 DEF OnceOK, ConnectedOnce, Grows
<1>8. ASSUME NEW q \in Request, q # r PROVE OnceFlow(q)'
  <2>1. pc'[q] = pc[q] /\ op'[q] = op[q] /\ took'[q] = took[q]
    BY <1>0, <1>8, StepOthers DEF Step
  <2>2. CASE pc[q] = "store"
    BY <1>1, <2>1, <2>2 DEF OnceOK, OnceFlow
  <2>3. CASE pc[q] \in {"delete", "connect"}
    <3>1. Active(q) /\ op[q].user \in User
      BY <1>0, <2>3, ActiveOp DEF Active, Secretive, IInv, RequestOK
    <3>2. CASE op[q].user = u
      <4>1. ~op[q].alone /\ ~op[r].alone
        BY <1>3, <1>8, <3>1, <3>2 DEF AloneOK, Rivals, u
      <4>2. f \in overlapped' /\ secret'[u] = f
        BY <1>0, <1>1, <4>1 DEF TypeOK
      <4> QED
        BY <1>1, <1>4, <2>1, <2>3, <3>2, <4>1, <4>2 DEF OnceOK, OnceFlow
    <3>3. CASE op[q].user # u
      <4>1. secret'[op[q].user] = secret[op[q].user]
        BY <1>0, <1>1, <3>1, <3>3 DEF TypeOK
      <4> QED
        BY <1>1, <1>4, <2>1, <2>3, <4>1 DEF OnceOK, OnceFlow
    <3> QED
      BY <3>2, <3>3
  <2>4. CASE pc[q] \notin {"store", "delete", "connect"}
    BY <2>1, <2>4 DEF OnceFlow
  <2> QED
    BY <2>2, <2>3, <2>4
<1>9. OnceFlow(r)'
  <2>1. pc'[r] \in {"idle", "ensure"}
    <3>1. Finish(r) \/ pc' = [pc EXCEPT ![r] = "ensure"]
      BY <1>0, StoreEffect
    <3> QED
      BY <1>0, <3>1, FlowEnds DEF TypeOK
  <2> QED
    BY <2>1 DEF OnceFlow
<1> QED
    BY <1>6, <1>7, <1>8, <1>9 DEF OnceOK

(* A secret is deleted.                                                    *)
LEMMA OnceDelete ==
    ASSUME FlowsOK, Grows, AloneOK, OnceOK, NEW r \in Request, DeleteSecret(r)
    PROVE  OnceOK'
<1> DEFINE u == op[r].user
<1>0. IInv /\ FirstOnes /\ TypeOK /\ LinksOK
    BY DEF FlowsOK, IInv
<1>1. /\ pc[r] = "delete"
      /\ secret' = [secret EXCEPT ![u] = Nothing]
      /\ UNCHANGED <<links, connected, uses, again, overlapped>>
    BY DEF DeleteSecret, Deleted
<1>2. /\ Active(r) /\ u \in User /\ op[r].link \in Link /\ op[r].alone \in BOOLEAN
      /\ links[op[r].link].inst = op[r].inst
    BY <1>0, <1>1, ActiveOp DEF Active, Secretive, IInv, RequestOK
<1> HIDE DEF u
<1>3. \A v \in User : secret'[v] = IF v = u THEN Nothing ELSE secret[v]
    BY <1>0, <1>1 DEF TypeOK
<1>4. UnusedOK' /\ ConnectedOnce'
    BY <1>1, <1>3 DEF OnceOK, UnusedOK, ConnectedOnce
<1>5. ASSUME NEW q \in Request, q # r PROVE OnceFlow(q)'
  <2>1. pc'[q] = pc[q] /\ op'[q] = op[q] /\ took'[q] = took[q]
    BY <1>0, <1>5, StepOthers DEF Step
  <2>2. CASE pc[q] = "store"
    BY <1>1, <2>1, <2>2 DEF OnceOK, OnceFlow
  <2>3. CASE pc[q] \in {"delete", "connect"}
    <3>1. Active(q) /\ op[q].user \in User
      BY <1>0, <2>3, ActiveOp DEF Active, Secretive, IInv, RequestOK
    <3>2. op[q].user = u => ~op[q].alone
      BY <1>2, <1>5, <3>1 DEF AloneOK, Rivals, u
    <3> QED
      BY <1>1, <1>3, <2>1, <2>3, <3>1, <3>2 DEF OnceOK, OnceFlow
  <2>4. CASE pc[q] \notin {"store", "delete", "connect"}
    BY <2>1, <2>4 DEF OnceFlow
  <2> QED
    BY <2>2, <2>3, <2>4
<1>6. OnceFlow(r)'
  <2>1. \/ Finish(r)
        \/ took[r] = op[r].link /\ pc' = [pc EXCEPT ![r] = "connect"] /\ UNCHANGED op
    BY DEF DeleteSecret, Same, Goto
  <2>2. CASE Finish(r)
    BY <1>0, <2>2, FlowEnds DEF OnceFlow
  <2>3. CASE took[r] = op[r].link /\ pc' = [pc EXCEPT ![r] = "connect"] /\ UNCHANGED op
    <3>1. pc'[r] = "connect"
      BY <1>0, <2>3 DEF TypeOK
    <3>2. op[r].link # Nothing
      BY <1>2 DEF Link
    <3>3. op[r].link \notin overlapped => op[r].alone
      BY <1>2, <3>2 DEF AloneOK
    <3>4. op[r].alone => secret[u] = op[r].link
      BY <1>1, <2>3 DEF OnceOK, OnceFlow, u
    <3>5. op[r].link \notin overlapped =>
             uses[op[r].link] = 0 /\ op[r].inst \notin connected[u]
      BY <1>2, <3>2, <3>3, <3>4 DEF OnceOK, UnusedOK
    <3> QED
      BY <1>1, <1>2, <1>3, <2>3, <3>1, <3>5 DEF OnceFlow, u
  <2> QED
    BY <2>1, <2>2, <2>3
<1> QED
    BY <1>4, <1>5, <1>6 DEF OnceOK

(* A link connects its user.                                               *)
LEMMA OnceConnect ==
    ASSUME FlowsOK, Grows, AloneOK, OnceOK, NEW r \in Request, Connect(r)
    PROVE  OnceOK'
<1> DEFINE u == op[r].user
           f == op[r].link
           i == op[r].inst
<1>0. IInv /\ FirstOnes /\ TypeOK /\ LinksOK
    BY DEF FlowsOK, IInv
<1>1. /\ pc[r] = "connect" /\ Finish(r)
      /\ connected' = [connected EXCEPT ![u] = @ \cup {i}]
      /\ uses' = [uses EXCEPT ![f] = IF @ < 2 THEN @ + 1 ELSE @]
      /\ again' = IF i \in connected[u] THEN again \cup {f} ELSE again
      /\ UNCHANGED <<secret, links, overlapped>>
    BY DEF Connect
<1>2. Active(r) /\ u \in User /\ f \in Link /\ f \in Of(u)
    BY <1>0, <1>1, ActiveOp DEF Active, Secretive, IInv, RequestOK
<1>3. links[f] # Nothing /\ links[f].user = u
    BY <1>2 DEF Of
<1>4. /\ secret[u] \in overlapped \cup {Nothing}
      /\ f \notin overlapped => uses[f] = 0 /\ i \notin connected[u]
    BY <1>1 DEF OnceOK, OnceFlow
<1> HIDE DEF u, f, i
<1>5. /\ \A v \in User : v # u => connected'[v] = connected[v]
      /\ \A g \in Link : g # f => uses'[g] = uses[g]
      /\ uses[f] = 0 => uses'[f] = 1
    BY <1>0, <1>1, <1>2 DEF TypeOK
<1>6. UnusedOK'
  <2>1. ASSUME NEW v \in User, v # u, secret[v] # Nothing PROVE secret[v] \in Link /\ secret[v] # f
    BY <1>0, <1>3, <2>1 DEF LinksOK, Of
  <2> QED
    BY <1>1, <1>2, <1>3, <1>4, <1>5, <2>1 DEF OnceOK, UnusedOK
<1>7. ConnectedOnce'
  <2>1. f \notin overlapped => uses'[f] = 1 /\ again' = again
    BY <1>1, <1>4, <1>5
  <2>2. \A g \in Link : uses'[g] > 1 => g \in overlapped
    BY <1>5, <2>1 DEF OnceOK, ConnectedOnce
  <2>3. again' \subseteq overlapped
    BY <1>1, <2>1 DEF OnceOK, ConnectedOnce
  <2> QED
    BY <1>1, <2>2, <2>3 DEF ConnectedOnce
<1>8. ASSUME NEW q \in Request, q # r PROVE OnceFlow(q)'
  <2>1. pc'[q] = pc[q] /\ op'[q] = op[q] /\ took'[q] = took[q]
    BY <1>0, <1>8, StepOthers DEF Step
  <2>2. CASE pc[q] \in {"store", "delete", "connect"}
    <3>1. Active(q) /\ op[q].user \in User
      BY <1>0, <2>2, ActiveOp DEF Active, Secretive, IInv, RequestOK
    <3>2. op[q].user = u => ~op[q].alone
      BY <1>2, <1>8, <3>1 DEF AloneOK, Rivals, u
    <3>3. pc[q] = "connect" => op[q].link \in Link /\ op[q].link \in Of(op[q].user)
      BY <1>0, <2>2, ActiveOp DEF IInv, RequestOK
    <3>4. pc[q] = "connect" /\ op[q].user = u => op[q].link \in overlapped
      <4>1. op[q].link \in Link => op[q].link # Nothing
        BY DEF Link
      <4> QED
        BY <3>1, <3>2, <3>3, <4>1 DEF AloneOK
    <3>5. pc[q] = "connect" /\ op[q].user # u => op[q].link # f
      BY <1>3, <3>3 DEF Of
    <3> QED
      BY <1>1, <1>5, <2>1, <2>2, <3>1, <3>2, <3>3, <3>4, <3>5 DEF OnceOK, OnceFlow
  <2>3. CASE pc[q] \notin {"store", "delete", "connect"}
    BY <2>1, <2>3 DEF OnceFlow
  <2> QED
    BY <2>2, <2>3
<1>9. OnceFlow(r)'
    BY <1>0, <1>1, FlowEnds DEF OnceFlow
<1> QED
    BY <1>6, <1>7, <1>8, <1>9 DEF OnceOK

LEMMA OnceStep == FlowsOK /\ AloneOK /\ OnceOK /\ [Next]_vars => OnceOK'
<1> SUFFICES ASSUME FlowsOK, AloneOK, OnceOK, [Next]_vars PROVE OnceOK'
    OBVIOUS
<1>0. IInv /\ FirstOnes /\ TypeOK /\ Grows
    BY GrowsStep DEF FlowsOK, IInv
<1>1. ASSUME NEW r \in Request, Step(r) \/ Break(r),
             UNCHANGED <<secret, uses, again>>,
             \A u \in User : connected'[u] \subseteq connected[u],
             pc'[r] \notin {"store", "delete", "connect"} \/ OnceFlow(r)'
      PROVE  OnceOK'
  <2>1. \A q \in Request \ {r} : Untouched(q)
    BY <1>0, <1>1, OthersUntouched
  <2> QED
    BY <1>0, <1>1, <2>1, OnceKept
<1>2. ASSUME NEW r \in Request, EnsureAuthTokenEncryptSecret(r) \/ StoreTokenSecret(r)
      PROVE  OnceOK'
  <2>1. UNCHANGED <<secret, connected, uses, again>>
    BY <1>0, <1>2, KeyEffect
  <2>2. CASE Generates(r)
    <3>1. pc'[r] = "generate"
      BY <1>0, <2>2 DEF Generates, Goto, TypeOK
    <3> QED
      BY <1>1, <1>2, <2>1, <3>1 DEF Step
  <2>3. ASSUME NEW key \in Request, Issues(r, key) \/ GoesOn(r, key) \/ Rejects(r, key)
        PROVE  OnceOK'
    <3>1. \/ Finish(r)
          \/ pc' = [pc EXCEPT ![r] = IF op[r].kind = "callback" THEN "get" ELSE "disconnect"]
      BY <2>3 DEF Issues, Issue, GoesOn, Rejects, Goto
    <3>2. pc'[r] \in {"idle", "get", "disconnect"}
      BY <1>0, <3>1, FlowEnds DEF TypeOK
    <3> QED
      BY <1>1, <1>2, <2>1, <3>2 DEF Step
  <2> QED
    BY <1>0, <1>2, <2>2, <2>3, KeyEffect
<1>3. ASSUME NEW r \in Request, GetSecret(r) PROVE OnceOK'
  <2> DEFINE u == op[r].user
  <2>1. UNCHANGED <<secret, connected, uses, again>> /\ u \in User
    BY <1>0, <1>3, ActiveOp DEF GetSecret, Refuse, store, history
  <2>2. \/ Finish(r)
        \/ /\ pc' = [pc EXCEPT ![r] = "delete"]
           /\ took' = [took EXCEPT ![r] = secret[u]]
           /\ UNCHANGED op
    BY <1>3 DEF GetSecret, Refuse, Goto
  <2>3. pc'[r] \notin {"store", "delete", "connect"} \/ OnceFlow(r)'
    <3>1. CASE Finish(r)
      BY <1>0, <3>1, FlowEnds
    <3>2. CASE /\ pc' = [pc EXCEPT ![r] = "delete"]
               /\ took' = [took EXCEPT ![r] = secret[u]]
               /\ UNCHANGED op
      BY <1>0, <2>1, <3>2 DEF TypeOK, OnceFlow
    <3> QED
      BY <2>2, <3>1, <3>2
  <2> QED
    BY <1>1, <1>3, <2>1, <2>3 DEF Step
<1>4. ASSUME NEW r \in Request, Disconnected(r) \/ Break(r) PROVE OnceOK'
  <2>1. UNCHANGED <<secret, uses, again>> /\ pc'[r] = "idle"
    BY <1>0, <1>4, FlowEnds DEF Disconnected, Break, store, history
  <2>2. \A u \in User : connected'[u] \subseteq connected[u]
    BY <1>0, <1>4 DEF Disconnected, Break, store, TypeOK
  <2> QED
    BY <1>1, <1>4, <2>1, <2>2 DEF Step
<1>5. ASSUME \/ \E f \in Link : Expire(f)
             \/ \E u \in User, i \in Instance : Disconnect(u, i)
             \/ UNCHANGED vars
      PROVE  OnceOK'
  <2>1. \A q \in Request : Untouched(q)
    BY <1>5, AllUntouched
  <2>2. UNCHANGED <<secret, uses, again>>
    BY <1>5 DEF Expire, Disconnect, vars, store, history
  <2>3. \A u \in User : connected'[u] \subseteq connected[u]
    BY <1>0, <1>5 DEF Expire, Disconnect, vars, store, TypeOK
  <2> QED
    BY <1>0, <2>1, <2>2, <2>3, OnceKept
<1> QED
    BY <1>0, <1>2, <1>3, <1>4, <1>5, OnceArrives, OnceStore, OnceDelete, OnceConnect
    DEF Next, Step, Arrives

LEMMA OnceInit == Init => AloneOK /\ OnceOK
<1> SUFFICES ASSUME Init PROVE AloneOK /\ OnceOK
    OBVIOUS
<1>1. AloneOK
    BY DEF Init, AloneOK, Rivals, Active
<1>2. UnusedOK /\ ConnectedOnce
    BY DEF Init, UnusedOK, ConnectedOnce
<1>3. \A r \in Request : OnceFlow(r)
    BY DEF Init, OnceFlow
<1> QED
    BY <1>1, <1>2, <1>3 DEF OnceOK

(* A one-time secret is used once, and a user who is connected is not      *)
(* connected again, except by requests of his that overlapped.             *)
THEOREM OneConnection == Spec => []ConnectedOnce
<1>1. OnceOK => ConnectedOnce
    BY DEF OnceOK
<1> QED
    BY <1>1, FlowsInit, FlowsStep, OnceInit, AloneStep, OnceStep, PTL DEF Spec

-----------------------------------------------------------------------------
(* Refused for a reason                                                    *)

(* Unless two requests found none at the same time, there is one key of    *)
(* tokens: none has one before it is stored, and then all have that.       *)
TokensOK ==
    ~raced =>
        /\ \A f \in Link : links[f] # Nothing => links[f].token \in {Nothing, tokenSecret}
        /\ \A r \in Request : pc[r] = "generate" => tokenSecret = Nothing
        /\ \A q \in Request, r \in Request : pc[q] = "generate" /\ pc[r] = "generate" => q = r

LEMMA TokensKept ==
    ASSUME TokensOK, tokenSecret' = tokenSecret, raced => raced',
           \A f \in Link : links'[f] # Nothing =>
               \/ links'[f].token \in {Nothing, tokenSecret}
               \/ links[f] # Nothing /\ links'[f].token = links[f].token,
           \A q \in Request : pc'[q] = "generate" => pc[q] = "generate"
    PROVE  TokensOK'
    BY DEF TokensOK

LEMMA TokensStep == FlowsOK /\ TokensOK /\ [Next]_vars => TokensOK'
<1> SUFFICES ASSUME FlowsOK, TokensOK, [Next]_vars PROVE TokensOK'
    OBVIOUS
<1>0. IInv /\ FirstOnes /\ TypeOK /\ Grows
    BY GrowsStep DEF FlowsOK, IInv
<1>1. ASSUME NEW r \in Request, Arrives(r) PROVE TokensOK'
  <2>1. ASSUME NEW o \in Op, NEW first \in Label \ {"idle"}, Submit(r, o, first),
               first \in {"store", "ensure", "get"}
        PROVE  TokensOK'
    <3>1. pc'[r] = first
      BY <1>0, <2>1, ArrivedOp
    <3>2. UNCHANGED <<tokenSecret, links, raced>>
      BY <2>1 DEF Submit, store
    <3>3. \A q \in Request \ {r} : pc'[q] = pc[q]
      BY <1>0, <1>1, OthersUntouched DEF Untouched
    <3> QED
      BY <2>1, <3>1, <3>2, <3>3, TokensKept
  <2> QED
    BY <1>0, <1>1, <2>1, StartEffect, VisitEffect DEF Arrives, Label
<1>2. ASSUME NEW r \in Request, Step(r) \/ Break(r)
      PROVE  \A q \in Request \ {r} : pc'[q] = pc[q]
    BY <1>0, <1>2, StepOthers
<1>3. ASSUME NEW r \in Request, StoreSecret(r) PROVE TokensOK'
  <2>1. /\ UNCHANGED <<tokenSecret, raced>>
        /\ links' = [links EXCEPT ![Fresh] = [user |-> op[r].user, inst |-> op[r].inst,
                                              token |-> Nothing]]
        /\ Finish(r) \/ pc' = [pc EXCEPT ![r] = "ensure"]
    BY <1>0, <1>3, StoreEffect
  <2>2. \A f \in Link : links'[f] = links[f] \/ links'[f].token = Nothing
    BY <1>0, <2>1 DEF TypeOK
  <2>3. pc'[r] \in {"idle", "ensure"}
    BY <1>0, <2>1, FlowEnds DEF TypeOK
  <2>4. \A q \in Request : pc'[q] = "generate" => pc[q] = "generate"
    BY <1>2, <1>3, <2>3 DEF Step
  <2> QED
    BY <2>1, <2>2, <2>4, TokensKept
<1>4. ASSUME NEW r \in Request, EnsureAuthTokenEncryptSecret(r) \/ StoreTokenSecret(r)
      PROVE  TokensOK'
  <2>0. \A q \in Request \ {r} : pc'[q] = pc[q]
    BY <1>2, <1>4 DEF Step
  <2>1. CASE Generates(r)
    <3>1. /\ tokenSecret = Nothing /\ pc'[r] = "generate"
          /\ raced' = (raced \/ \E q \in Request : pc[q] = "generate")
          /\ UNCHANGED <<tokenSecret, links>>
      BY <1>0, <2>1 DEF Generates, Goto, TypeOK
    <3> QED
      BY <2>0, <3>1 DEF TokensOK
  <2>2. ASSUME NEW key \in Request, KeyIs(r, key), UNCHANGED raced,
               Issues(r, key) \/ GoesOn(r, key) \/ Rejects(r, key)
        PROVE  TokensOK'
    <3>1. pc'[r] # "generate"
      <4>1. \/ Finish(r)
            \/ pc' = [pc EXCEPT ![r] = IF op[r].kind = "callback" THEN "get" ELSE "disconnect"]
        BY <2>2 DEF Issues, Issue, GoesOn, Rejects, Goto
      <4> QED
        BY <1>0, <4>1, FlowEnds DEF TypeOK
    <3>2. \A f \in Link : links'[f] # Nothing =>
             links[f] # Nothing /\ links'[f].token \in {links[f].token, key}
      <4>1. CASE Issues(r, key)
        <5>1. pc[r] \in {"ensure", "generate"}
          BY <2>2 DEF KeyIs
        <5>2. /\ op[r].link \in Link /\ links[op[r].link] # Nothing
              /\ links'[op[r].link].token = key
              /\ \A g \in Link \ {op[r].link} : links'[g] = links[g]
          BY <1>0, <4>1, <5>1, IssueEffect
        <5> QED
          BY <5>2
      <4>2. CASE GoesOn(r, key) \/ Rejects(r, key)
        BY <4>2 DEF GoesOn, Rejects
      <4> QED
        BY <2>2, <4>1, <4>2
    <3>3. CASE key = tokenSecret /\ tokenSecret' = tokenSecret
      <4>1. \A q \in Request : pc'[q] = "generate" => pc[q] = "generate"
        BY <2>0, <3>1
      <4> QED
        BY <2>2, <3>2, <3>3, <4>1, TokensKept
    <3>4. CASE pc[r] = "generate" /\ tokenSecret' = key
      BY <2>0, <2>2, <3>1, <3>2, <3>4 DEF TokensOK
    <3> QED
      BY <2>2, <3>3, <3>4 DEF KeyIs
  <2> QED
    BY <1>0, <1>4, <2>1, <2>2, KeyEffect
<1>5. ASSUME NEW r \in Request,
             GetSecret(r) \/ DeleteSecret(r) \/ Connect(r) \/ Disconnected(r) \/ Break(r)
      PROVE  TokensOK'
  <2>1. UNCHANGED <<tokenSecret, links, raced>>
    BY <1>5 DEF GetSecret, DeleteSecret, Connect, Disconnected, Break, Refuse, store, history
  <2>2. \/ Finish(r)
        \/ pc' = [pc EXCEPT ![r] = "delete"] \/ pc' = [pc EXCEPT ![r] = "connect"]
    BY <1>5 DEF GetSecret, DeleteSecret, Connect, Disconnected, Break, Refuse, Goto
  <2>3. pc'[r] # "generate"
    BY <1>0, <2>2, FlowEnds DEF TypeOK
  <2>4. \A q \in Request : pc'[q] = "generate" => pc[q] = "generate"
    BY <1>2, <1>5, <2>3 DEF Step
  <2> QED
    BY <2>1, <2>4, TokensKept
<1>6. ASSUME \/ \E f \in Link : Expire(f)
             \/ \E u \in User, i \in Instance : Disconnect(u, i)
             \/ UNCHANGED vars
      PROVE  TokensOK'
  <2>1. UNCHANGED <<tokenSecret, links, raced, pc>>
    BY <1>6 DEF Expire, Disconnect, vars, store, request, history
  <2> QED
    BY <2>1, TokensKept
<1> QED
    BY <1>1, <1>3, <1>4, <1>5, <1>6 DEF Next, Step, Arrives

(* A link that the user's secret is not of was used, replaced or put off,  *)
(* or overlapped, or is about to connect him.                              *)
Marked == spoiled \cup overlapped

LeftOK ==
    /\ \A f \in Link : links[f] # Nothing /\ secret[links[f].user] # f =>
          f \in Marked \/ \E r \in Request : pc[r] = "connect" /\ op[r].link = f
    /\ \A r \in Request : Active(r) => Of(op[r].user) \ {op[r].link} \subseteq Marked

LEMMA LeftKept ==
    ASSUME FlowsOK, Grows, LeftOK, UNCHANGED secret,
           \A f \in Link : links'[f] # Nothing => links[f] # Nothing,
           \A q \in Request :
              \/ Untouched(q)
              \/ pc'[q] = "idle" /\ (pc[q] = "connect" => op[q].link \in Marked')
              \/ op'[q] = op[q] /\ pc[q] \notin {"idle", "connect"}
              \/ pc[q] = "idle" /\ (Active(q)' => Of(op[q].user)' \ {op'[q].link} \subseteq Marked')
    PROVE  LeftOK'
<1>0. IInv /\ Marked \subseteq Marked'
    BY DEF FlowsOK, Grows, Marked
<1>1. \A f \in Link : links'[f] # Nothing => links[f] # Nothing /\ links'[f].user = links[f].user
    BY DEF Grows
<1>2. ASSUME NEW f \in Link, links'[f] # Nothing, secret'[links'[f].user] # f
      PROVE  f \in Marked' \/ \E r \in Request : pc'[r] = "connect" /\ op'[r].link = f
  <2>1. f \in Marked \/ \E r \in Request : pc[r] = "connect" /\ op[r].link = f
    BY <1>1, <1>2 DEF LeftOK
  <2>2. ASSUME NEW r \in Request, pc[r] = "connect", op[r].link = f
        PROVE  f \in Marked' \/ (pc'[r] = "connect" /\ op'[r].link = f)
    <3>1. op[r] # Nothing
      BY <1>0, <2>2, ActiveOp
    <3>2. CASE Untouched(r)
      BY <2>2, <3>1, <3>2 DEF Untouched, SameFields
    <3>3. CASE pc'[r] = "idle" /\ (pc[r] = "connect" => op[r].link \in Marked')
      BY <2>2, <3>3
    <3> QED
      BY <2>2, <3>2, <3>3
  <2> QED
    BY <1>0, <2>1, <2>2
<1>3. ASSUME NEW q \in Request, Active(q)'
      PROVE  Of(op[q].user)' \ {op'[q].link} \subseteq Marked'
  <2>1. CASE Active(q) /\ op'[q].user = op[q].user /\ op'[q].link = op[q].link
    <3>1. Of(op[q].user)' \subseteq Of(op[q].user)
      BY <1>1, <2>1 DEF Of
    <3> QED
      BY <1>0, <2>1, <3>1 DEF LeftOK
  <2>2. CASE Untouched(q)
    <3>1. pc'[q] = pc[q] /\ pc[q] # "idle" /\ op[q] # Nothing
      BY <1>0, <1>3, <2>2, ActiveOp DEF Untouched, Active
    <3>2. Active(q) /\ op'[q].user = op[q].user /\ op'[q].link = op[q].link
      BY <1>3, <2>2, <3>1 DEF Untouched, SameFields, Active, Secretive
    <3> QED
      BY <2>1, <3>2
  <2>3. CASE op'[q] = op[q] /\ pc[q] \notin {"idle", "connect"}
    <3>1. Active(q)
      BY <1>3, <2>3 DEF Active, Secretive
    <3> QED
      BY <2>1, <2>3, <3>1
  <2> QED
    BY <1>3, <2>2, <2>3 DEF Active
<1> QED
    BY <1>2, <1>3 DEF LeftOK

LEMMA LeftArrives ==
    ASSUME FlowsOK, Grows, LeftOK, NEW r \in Request, Arrives(r)
    PROVE  LeftOK'
<1>0. IInv /\ FirstOnes
    BY DEF FlowsOK
<1>1. \A q \in Request \ {r} : Untouched(q)
    BY <1>0, OthersUntouched
<1>2. ASSUME NEW o \in Op, NEW first \in Label \ {"idle"}, Submit(r, o, first)
      PROVE  LeftOK'
  <2>1. /\ pc[r] = "idle" /\ op'[r].kind = o.kind /\ op'[r].user = o.user /\ op'[r].link = o.link
        /\ UNCHANGED <<store, took, last, expired, uses, again, refused, raced>>
    BY <1>0, <1>2, ArrivedOp
  <2>2. UNCHANGED <<secret, links>>
    BY <2>1 DEF store
  <2>3. Secretive(o) => Of(o.user) \ {o.link} \subseteq Marked'
    BY <1>2 DEF Submit, Marked
  <2>4. Active(r)' => Secretive(o)
    BY <2>1 DEF Active, Secretive
  <2>5. Of(op[r].user)' = Of(o.user)
    BY <2>1, <2>2 DEF Of
  <2>6. Active(r)' => Of(op[r].user)' \ {op'[r].link} \subseteq Marked'
    BY <2>1, <2>3, <2>4, <2>5
  <2> QED
    BY <1>1, <2>1, <2>2, <2>6, LeftKept
<1> QED
    BY <1>0, <1>2, StartEffect, VisitEffect DEF Arrives, Label

(* The new secret leaves only links that were there when the flow started, *)
(* or came from requests that overlapped with it.                          *)
LEMMA LeftStore ==
    ASSUME FlowsOK, Grows, AloneOK, LeftOK, NEW r \in Request, StoreSecret(r)
    PROVE  LeftOK'
<1> DEFINE f == Fresh
           u == op[r].user
<1>0. IInv /\ FirstOnes /\ TypeOK /\ Marked \subseteq Marked'
    BY DEF FlowsOK, IInv, Grows, Marked
<1>1. /\ pc[r] = "store" /\ u \in User /\ f \in Link /\ links[f] = Nothing
      /\ secret' = [secret EXCEPT ![u] = f]
      /\ links' = [links EXCEPT ![f] = [user |-> u, inst |-> op[r].inst, token |-> Nothing]]
      /\ [user |-> u, inst |-> op[r].inst, token |-> Nothing] \in Route
      /\ f \in overlapped' \/ op[r].alone
    BY <1>0, StoreEffect
<1>2. /\ \A g \in Link \ {f} : links'[g] = links[g]
      /\ links'[f].user = u
    BY <1>0, <1>1 DEF TypeOK
<1>3. Active(r) /\ op[r].link = Nothing
    BY <1>0, <1>1 DEF Active, Secretive, IInv, RequestOK, FlowsOK, PastOK
<1> HIDE DEF f
<1>4. Of(u) \subseteq Marked
    BY <1>3 DEF LeftOK, Of, Link
<1> HIDE DEF u
<1>5. \A q \in Request \ {r} : pc'[q] = pc[q] /\ op'[q] = op[q]
    BY <1>0, StepOthers DEF Step
<1>6. ASSUME NEW g \in Link, links'[g] # Nothing, secret'[links'[g].user] # g
      PROVE  g \in Marked' \/ \E q \in Request : pc'[q] = "connect" /\ op'[q].link = g
  <2>1. g # f
    BY <1>0, <1>1, <1>2, <1>6 DEF TypeOK
  <2>2. links'[g] = links[g] /\ links[g].user \in User
    BY <1>0, <1>2, <1>6, <2>1, LinkFields
  <2>3. CASE links[g].user = u
    BY <1>0, <1>4, <1>6, <2>2, <2>3 DEF Of
  <2>4. CASE links[g].user # u
    <3>1. secret'[links[g].user] = secret[links[g].user]
      BY <1>0, <1>1, <2>2, <2>4 DEF TypeOK
    <3>2. g \in Marked \/ \E q \in Request : pc[q] = "connect" /\ op[q].link = g
      BY <1>6, <2>2, <3>1 DEF LeftOK
    <3> QED
      BY <1>0, <1>1, <1>5, <3>2
  <2> QED
    BY <2>3, <2>4
<1>7. \A v \in User : {g \in Link : links'[g] # Nothing /\ links'[g].user = v}
                         \subseteq IF v = u THEN Of(v) \cup {f} ELSE Of(v)
    BY <1>2 DEF Of
<1>8. ASSUME NEW q \in Request, Active(q)'
      PROVE  {g \in Link : links'[g] # Nothing /\ links'[g].user = op'[q].user} \ {op'[q].link}
                \subseteq Marked'
  <2>1. CASE q = r
    <3>1. op'[r].user = u /\ op'[r].link = f
      <4>1. pc'[r] # "idle"
        BY <1>8, <2>1 DEF Active
      <4>2. \/ Finish(r)
            \/ op'[r].user = u /\ op'[r].link = f
        BY <1>0, StoreEffect DEF f, u
      <4> QED
        BY <1>0, <4>1, <4>2, FlowEnds
    <3> QED
      BY <1>0, <1>1, <1>4, <1>7, <2>1, <3>1
  <2>2. CASE q # r
    <3>1. Active(q) /\ op'[q] = op[q] /\ op[q].user \in User
      BY <1>0, <1>5, <1>8, <2>2, ActiveOp DEF Active, Secretive
    <3>2. Of(op[q].user) \ {op[q].link} \subseteq Marked'
      BY <1>0, <3>1 DEF LeftOK
    <3>3. op[q].user = u => f \in Marked'
      BY <1>1, <1>3, <2>2, <3>1 DEF AloneOK, Rivals, Marked, u
    <3> QED
      BY <1>7, <3>1, <3>2, <3>3
  <2> QED
    BY <2>1, <2>2
<1> QED
    BY <1>6, <1>8 DEF LeftOK, Of

(* A callback that deletes the secret has put off the user's other links.  *)
LEMMA LeftDelete ==
    ASSUME FlowsOK, Grows, LeftOK, NEW r \in Request, DeleteSecret(r)
    PROVE  LeftOK'
<1> DEFINE u == op[r].user
<1>0. IInv /\ FirstOnes /\ TypeOK /\ Marked \subseteq Marked'
    BY DEF FlowsOK, IInv, Grows, Marked
<1>1. /\ pc[r] = "delete"
      /\ secret' = [secret EXCEPT ![u] = Nothing]
      /\ UNCHANGED links
    BY DEF DeleteSecret, Deleted
<1>2. /\ Active(r) /\ op[r].kind = "callback" /\ u \in User
    BY <1>0, <1>1, ActiveOp DEF Active, Secretive, IInv, RequestOK
<1>3. \/ pc'[r] = "connect" /\ op'[r] = op[r]
      \/ pc'[r] = "idle" /\ op[r].link \in Marked'
  <2>1. \/ pc' = [pc EXCEPT ![r] = "connect"] /\ UNCHANGED op
        \/ Finish(r) /\ op[r].link \in spoiled'
    BY <1>2 DEF DeleteSecret, Goto, Spent
  <2> QED
    BY <1>0, <2>1, FlowEnds DEF TypeOK, Marked
<1>4. \A q \in Request \ {r} : pc'[q] = pc[q] /\ op'[q] = op[q]
    BY <1>0, StepOthers DEF Step
<1> HIDE DEF u
<1>5. ASSUME NEW f \in Link, links'[f] # Nothing, secret'[links'[f].user] # f
      PROVE  f \in Marked' \/ \E q \in Request : pc'[q] = "connect" /\ op'[q].link = f
  <2>1. links[f] # Nothing /\ links[f].user \in User
    BY <1>0, <1>1, <1>5, LinkFields
  <2>2. CASE links[f].user = u
    BY <1>0, <1>2, <1>3, <2>1, <2>2 DEF LeftOK, Of, u
  <2>3. CASE links[f].user # u
    <3>1. secret[links[f].user] # f
      BY <1>0, <1>1, <1>5, <2>1, <2>3 DEF TypeOK
    <3>2. f \in Marked \/ \E q \in Request : pc[q] = "connect" /\ op[q].link = f
      BY <2>1, <3>1 DEF LeftOK
    <3> QED
      BY <1>0, <1>1, <1>4, <3>2
  <2> QED
    BY <2>2, <2>3
<1>6. ASSUME NEW q \in Request, Active(q)'
      PROVE  {g \in Link : links'[g] # Nothing /\ links'[g].user = op'[q].user} \ {op'[q].link}
                \subseteq Marked'
  <2>1. Active(q) /\ op'[q] = op[q]
    BY <1>2, <1>3, <1>4, <1>6 DEF Active, Secretive
  <2> QED
    BY <1>0, <1>1, <2>1 DEF LeftOK, Of
<1> QED
    BY <1>5, <1>6 DEF LeftOK, Of

LEMMA LeftStep == FlowsOK /\ AloneOK /\ LeftOK /\ [Next]_vars => LeftOK'
<1> SUFFICES ASSUME FlowsOK, AloneOK, LeftOK, [Next]_vars PROVE LeftOK'
    OBVIOUS
<1>0. IInv /\ FirstOnes /\ TypeOK /\ Grows
    BY GrowsStep DEF FlowsOK, IInv
<1>1. ASSUME NEW r \in Request, Step(r) \/ Break(r), UNCHANGED secret,
             \A f \in Link : links'[f] # Nothing => links[f] # Nothing,
             \/ pc'[r] = "idle" /\ (pc[r] = "connect" => op[r].link \in Marked')
             \/ op'[r] = op[r] /\ pc[r] \notin {"idle", "connect"}
      PROVE  LeftOK'
  <2>1. \A q \in Request \ {r} : Untouched(q)
    BY <1>0, <1>1, OthersUntouched
  <2> QED
    BY <1>0, <1>1, <2>1, LeftKept
<1>2. ASSUME NEW r \in Request, EnsureAuthTokenEncryptSecret(r) \/ StoreTokenSecret(r)
      PROVE  LeftOK'
  <2>1. UNCHANGED secret /\ pc[r] \in {"ensure", "generate"}
    BY <1>0, <1>2, KeyEffect DEF EnsureAuthTokenEncryptSecret, StoreTokenSecret
  <2>2. CASE Generates(r)
    <3>1. UNCHANGED <<links, op>>
      BY <2>2 DEF Generates, Goto
    <3> QED
      BY <1>1, <1>2, <2>1, <3>1 DEF Step
  <2>3. ASSUME NEW key \in Request, KeyIs(r, key),
               Issues(r, key) \/ GoesOn(r, key) \/ Rejects(r, key)
        PROVE  LeftOK'
    <3>1. \A f \in Link : links'[f] # Nothing => links[f] # Nothing
      <4>1. CASE Issues(r, key)
        <5>1. /\ op[r].link \in Link /\ links[op[r].link] # Nothing
              /\ \A g \in Link \ {op[r].link} : links'[g] = links[g]
          BY <1>0, <2>1, <4>1, IssueEffect
        <5> QED
          BY <5>1
      <4>2. CASE GoesOn(r, key) \/ Rejects(r, key)
        BY <4>2 DEF GoesOn, Rejects
      <4> QED
        BY <2>3, <4>1, <4>2
    <3>2. pc'[r] = "idle" \/ UNCHANGED op
      BY <1>0, <2>3, FlowEnds DEF Issues, Issue, GoesOn, Rejects, Goto
    <3> QED
      BY <1>1, <1>2, <2>1, <3>1, <3>2 DEF Step
  <2> QED
    BY <1>0, <1>2, <2>2, <2>3, KeyEffect
<1>3. ASSUME NEW r \in Request, GetSecret(r) PROVE LeftOK'
  <2>1. UNCHANGED <<secret, links>> /\ pc[r] = "get" /\ (Finish(r) \/ UNCHANGED op)
    BY <1>3 DEF GetSecret, Refuse, Goto, store
  <2> QED
    BY <1>0, <1>1, <1>3, <2>1, FlowEnds DEF Step
<1>4. ASSUME NEW r \in Request, Connect(r) \/ Disconnected(r) \/ Break(r) PROVE LeftOK'
  <2>1. UNCHANGED <<secret, links>> /\ Finish(r)
    BY <1>4 DEF Connect, Disconnected, Break, store
  <2>2. pc[r] = "connect" => op[r].kind = "callback"
    BY <1>0 DEF IInv, RequestOK
  <2>3. pc[r] = "connect" => op[r].link \in Marked'
    BY <1>4, <2>2 DEF Connect, Disconnected, Break, Spent, Marked
  <2> QED
    BY <1>0, <1>1, <1>4, <2>1, <2>3, FlowEnds DEF Step
<1>5. ASSUME \/ \E f \in Link : Expire(f)
             \/ \E u \in User, i \in Instance : Disconnect(u, i)
             \/ UNCHANGED vars
      PROVE  LeftOK'
  <2>1. \A q \in Request : Untouched(q)
    BY <1>5, AllUntouched
  <2>2. UNCHANGED <<secret, links>>
    BY <1>5 DEF Expire, Disconnect, vars, store
  <2> QED
    BY <1>0, <2>1, <2>2, LeftKept
<1> QED
    BY <1>0, <1>2, <1>3, <1>4, <1>5, LeftArrives, LeftStore, LeftDelete
    DEF Next, Step, Arrives

RefusedOK == RefusedForAReason /\ \A f \in refused : links[f] # Nothing

LEMMA RefusedKept ==
    ASSUME IInv, Grows, RefusedOK, raced => raced',
           \A f \in refused' \ refused :
              /\ f \in Link /\ links[f] # Nothing
              /\ \/ f \in spoiled' \cup overlapped'
                 \/ Type[links[f].inst] = "jwt" /\ (f \in expired' \/ raced')
    PROVE  RefusedOK'
<1>1. \A f \in refused' : f \in Link /\ links[f] # Nothing
    BY DEF RefusedOK, IInv, TypeOK
<1>2. \A f \in refused' : links'[f] # Nothing /\ links'[f].inst = links[f].inst
    BY <1>1 DEF Grows
<1> QED
    BY <1>2 DEF RefusedOK, RefusedForAReason, Grows

LEMMA RefusedStep ==
    FlowsOK /\ AloneOK /\ TokensOK /\ LeftOK /\ RefusedOK /\ [Next]_vars => RefusedOK'
<1> SUFFICES ASSUME FlowsOK, AloneOK, TokensOK, LeftOK, RefusedOK, [Next]_vars
             PROVE  RefusedOK'
    OBVIOUS
<1>0. IInv /\ FirstOnes /\ TypeOK /\ LinksOK /\ Grows
    BY GrowsStep DEF FlowsOK, IInv
<1>1. ASSUME UNCHANGED refused, raced => raced' PROVE RefusedOK'
    BY <1>0, <1>1, RefusedKept
<1>2. ASSUME NEW r \in Request, Arrives(r) PROVE RefusedOK'
  <2>1. ASSUME NEW o \in Op, NEW first \in Label \ {"idle"}, Submit(r, o, first)
        PROVE  RefusedOK'
    BY <1>1, <2>1 DEF Submit
  <2> QED
    BY <1>0, <1>2, <2>1, StartEffect, VisitEffect DEF Arrives, Label
<1>3. ASSUME NEW r \in Request, StoreSecret(r) PROVE RefusedOK'
    BY <1>1, <1>3 DEF StoreSecret
<1>4. ASSUME NEW r \in Request, EnsureAuthTokenEncryptSecret(r) \/ StoreTokenSecret(r)
      PROVE  RefusedOK'
  <2>0. UNCHANGED expired /\ pc[r] \in {"ensure", "generate"}
    BY <1>0, <1>4, KeyEffect DEF EnsureAuthTokenEncryptSecret, StoreTokenSecret
  <2>1. CASE Generates(r)
    BY <1>1, <2>1 DEF Generates
  <2>2. ASSUME NEW key \in Request, KeyIs(r, key), UNCHANGED raced,
               Issues(r, key) \/ GoesOn(r, key) \/ Rejects(r, key)
        PROVE  RefusedOK'
    <3>1. CASE Issues(r, key) \/ GoesOn(r, key)
      BY <1>1, <2>2, <3>1 DEF Issues, Issue, GoesOn
    <3>2. CASE Rejects(r, key)
      <4> DEFINE f == op[r].link
      <4>1. /\ refused' = refused \cup {f}
            /\ links[f].token # key \/ f \in expired
            /\ op[r].kind # "start"
        BY <3>2 DEF Rejects
      <4>2. /\ f \in Link /\ links[f] # Nothing /\ f \in issued
            /\ Type[links[f].inst] = "jwt"
        BY <1>0, <2>0, <4>1, ActiveOp DEF IInv, RequestOK
      <4>3. links[f].token # Nothing
        BY <1>0, <4>2 DEF LinksOK
      <4> HIDE DEF f
      <4>4. ASSUME ~raced PROVE links[f].token = key
        <5>1. links[f].token = tokenSecret /\ tokenSecret # Nothing
          BY <4>2, <4>3, <4>4 DEF TokensOK
        <5> QED
          BY <2>2, <4>4, <5>1 DEF KeyIs, TokensOK
      <4>5. f \in expired' \/ raced'
        BY <2>0, <2>2, <4>1, <4>4
      <4> QED
        BY <1>0, <2>2, <4>1, <4>2, <4>5, RefusedKept
    <3> QED
      BY <2>2, <3>1, <3>2
  <2> QED
    BY <1>0, <1>4, <2>1, <2>2, KeyEffect
<1>5. ASSUME NEW r \in Request, GetSecret(r) PROVE RefusedOK'
  <2> DEFINE u == op[r].user
             f == op[r].link
             s == secret[u]
  <2>1. /\ pc[r] = "get" /\ u \in User /\ f \in Link /\ links[f] # Nothing
        /\ f \in Of(u) /\ links[f].inst = op[r].inst /\ Active(r) /\ op[r].alone \in BOOLEAN
    BY <1>0, <1>5, ActiveOp DEF GetSecret, IInv, RequestOK, Active, Secretive
  <2>2. \/ UNCHANGED history
        \/ /\ Type[op[r].inst] = "server" /\ (s = Nothing \/ Type[links[s].inst] # "server")
           /\ refused' = refused \cup {f} /\ UNCHANGED raced
    BY <1>5 DEF GetSecret, Refuse
  <2>3. CASE UNCHANGED history
    BY <1>1, <2>3 DEF history
  <2>4. CASE /\ Type[op[r].inst] = "server" /\ (s = Nothing \/ Type[links[s].inst] # "server")
             /\ refused' = refused \cup {f} /\ UNCHANGED raced
    <3>1. s # f
      BY <2>1, <2>4 DEF Link
    <3>2. links[f].user = u
      BY <2>1 DEF Of
    <3>3. f \in Marked \/ \E q \in Request : pc[q] = "connect" /\ op[q].link = f
      BY <2>1, <3>1, <3>2 DEF LeftOK
    <3>4. ASSUME NEW q \in Request, pc[q] = "connect", op[q].link = f PROVE f \in Marked
      <4>1. /\ Active(q) /\ f \in Of(op[q].user)
        BY <1>0, <3>4, ActiveOp DEF IInv, RequestOK, Active, Secretive
      <4>2. Rivals(q, r)
        BY <2>1, <3>2, <3>4, <4>1 DEF Rivals, Of
      <4> QED
        BY <2>1, <4>2 DEF AloneOK, Marked, Link
    <3>5. f \in Marked'
      BY <1>0, <3>3, <3>4 DEF Marked, Grows
    <3> QED
      BY <1>0, <2>1, <2>4, <3>5, RefusedKept DEF Marked
  <2> QED
    BY <2>2, <2>3, <2>4
<1>6. ASSUME NEW r \in Request, DeleteSecret(r) PROVE RefusedOK'
  <2>1. pc[r] = "delete" /\ UNCHANGED raced
    BY <1>6 DEF DeleteSecret
  <2>2. op[r].kind = "callback" /\ op[r].link \in Link /\ links[op[r].link] # Nothing
    BY <1>0, <2>1, ActiveOp DEF IInv, RequestOK
  <2>3. \/ UNCHANGED refused
        \/ refused' = refused \cup {op[r].link} /\ op[r].link \in spoiled'
    BY <1>6, <2>2 DEF DeleteSecret, Spent
  <2> QED
    BY <1>0, <1>1, <2>1, <2>2, <2>3, RefusedKept
<1>7. ASSUME NEW r \in Request, Connect(r) \/ Disconnected(r) \/ Break(r) PROVE RefusedOK'
  <2>1. UNCHANGED <<refused, raced>>
    BY <1>7 DEF Connect, Disconnected, Break, history
  <2> QED
    BY <1>1, <2>1
<1>8. ASSUME \/ \E f \in Link : Expire(f)
             \/ \E u \in User, i \in Instance : Disconnect(u, i)
             \/ UNCHANGED vars
      PROVE  RefusedOK'
  <2>1. UNCHANGED <<refused, raced>>
    BY <1>8 DEF Expire, Disconnect, vars, history
  <2> QED
    BY <1>1, <2>1
<1> QED
    BY <1>2, <1>3, <1>4, <1>5, <1>6, <1>7, <1>8 DEF Next, Step, Arrives

LEMMA RefusedInit == Init => TokensOK /\ LeftOK /\ RefusedOK
<1> SUFFICES ASSUME Init PROVE TokensOK /\ LeftOK /\ RefusedOK
    OBVIOUS
<1>1. TokensOK
    BY DEF Init, TokensOK
<1>2. LeftOK
    BY DEF Init, LeftOK, Active
<1>3. RefusedOK
    BY DEF Init, RefusedOK, RefusedForAReason
<1> QED
    BY <1>1, <1>2, <1>3

(* Nobody is refused for the secret or the token of a link but for what    *)
(* they did themselves, or for two requests that found no key of tokens.   *)
THEOREM RefusalsExplained == Spec => []RefusedForAReason
<1>1. RefusedOK => RefusedForAReason
    BY DEF RefusedOK
<1> QED
    BY <1>1, FlowsInit, FlowsStep, OnceInit, AloneStep, RefusedInit, TokensStep, LeftStep,
       RefusedStep, PTL DEF Spec
=============================================================================
