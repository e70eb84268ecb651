---------------------------- MODULE ConnectFlows ----------------------------
(***************************************************************************)
(* How a user proves to have a Jira account, up to the call of connectUser *)
(* (module Connections has what that writes).  A flow has two halves: a    *)
(* start, which stores a one-time secret under a key made of the user's ID *)
(* alone and gives the user a link, and a callback, which the browser      *)
(* calls when the user comes back from Jira, as often and as late as it    *)
(* likes.  All flows of a user, for all instances, share that one key.     *)
(* There are three types of flow: OAuth 1.0a (Jira server), OAuth 2.0 and  *)
(* Atlassian Connect (JWT), whose link has an encrypted token in it.       *)
(*                                                                         *)
(* The key that encrypts the tokens is the cluster's: it is generated when *)
(* it is first used, and read again at each use.                           *)
(***************************************************************************)
EXTENDS Naturals, FiniteSets

CONSTANTS
    User,       \* Mattermost users
    Instance,   \* Jira instances
    Type,       \* the type of each, "server", "oauth" or "jwt"
    Request,    \* requests in progress at the same time
    MaxLinks,   \* bound: how many secrets are stored in all
    MaxVisits,  \* bound: how often browsers call back in all
    Nothing     \* no key, no secret, no link

ASSUME FlowsAssumption ==
    /\ Type \in [Instance -> {"server", "oauth", "jwt"}]
    /\ MaxLinks \in Nat /\ MaxVisits \in Nat
    /\ Nothing \notin User \cup Instance \cup Request \cup Nat

\* The flows that got as far as storing a secret, numbered; each secret is
\* random, and known by the number of its flow.
Link == 1..MaxLinks

Op == [kind: {"start", "callback", "unlink"}, user: User,
       inst: Instance, link: Link \cup {Nothing}, newest: BOOLEAN, late: BOOLEAN,
       cookie: Link \cup {Nothing}, alone: BOOLEAN]

\* A link: whose and for which instance, and the key of its token
Route == [user: User, inst: Instance, token: Request \cup {Nothing}]

ASSUME NothingAssumption == Nothing \notin Op \cup Route

VARIABLES
    tokenSecret,\* the stored key of tokens, by the request that generated it
    secret,     \* the stored one-time secret of each user
    links,      \* the link of each flow, with the key of its token
    issued,     \* links the user was given
    cookie,     \* the cookie in the user's browser
    connected,  \* the instances each user is connected to
    visits,     \* how often browsers called back
    pc,         \* where each request is
    op,         \* what it is for
    took,       \* the secret it has read
    last,       \* history: the last secret stored for each user
    expired,    \* links with a token made more than 15 minutes ago
    uses,       \* history: how often each link connected its user, up to two
    again,      \* history: links that connected a user who was connected
    refused,    \* history: links refused because of the secret or the token
    spoiled,    \* history: links used, replaced, or put off by another's use
    overlapped, \* history: links of requests of one user that overlapped
    raced       \* history: two requests found no key of tokens at the same time

store   == <<tokenSecret, secret, links, issued, cookie, connected>>
request == <<visits, pc, op, took>>
history == <<last, expired, uses, again, refused, spoiled, overlapped, raced>>
vars    == <<store, request, history>>

TypeOK ==
    /\ tokenSecret \in Request \cup {Nothing}
    /\ secret \in [User -> Link \cup {Nothing}]
    /\ links \in [Link -> Route \cup {Nothing}]
    /\ issued \subseteq Link
    /\ cookie \in [User -> Link \cup {Nothing}]
    /\ connected \in [User -> SUBSET Instance]
    /\ pc \in [Request -> {"idle", "store", "ensure", "generate",
                           "get", "delete", "connect", "disconnect"}]
    /\ op \in [Request -> Op \cup {Nothing}]
    /\ visits \in Nat
    /\ took \in [Request -> Link \cup {Nothing}]
    /\ last \in [User -> Link \cup {Nothing}]
    /\ uses \in [Link -> 0..2]
    /\ expired \subseteq Link /\ again \subseteq Link /\ refused \subseteq Link
    /\ spoiled \subseteq Link /\ overlapped \subseteq Link
    /\ raced \in BOOLEAN

Init ==
    /\ tokenSecret = Nothing
    /\ secret = [u \in User |-> Nothing]
    /\ links = [f \in Link |-> Nothing]
    /\ issued = {}
    /\ cookie = [u \in User |-> Nothing]
    /\ connected = [u \in User |-> {}]
    /\ pc = [r \in Request |-> "idle"]
    /\ op = [r \in Request |-> Nothing]
    /\ visits = 0
    /\ took = [r \in Request |-> Nothing]
    /\ last = [u \in User |-> Nothing]
    /\ uses = [f \in Link |-> 0]
    /\ expired = {} /\ again = {} /\ refused = {} /\ spoiled = {} /\ overlapped = {}
    /\ raced = FALSE

-----------------------------------------------------------------------------
Of(u) == {f \in Link : links[f] # Nothing /\ links[f].user = u}

\* The requests of a user that read or write the secret
Busy(u) == {q \in Request : /\ pc[q] # "idle"
                            /\ op[q].user = u
                            /\ op[q].kind \in {"start", "callback"}}

Secretive(o) == o.kind \in {"start", "callback"}

\* A request o arrives: a start, or one for a link.
Submit(r, o, first) ==
    LET others == IF Secretive(o) THEN Busy(o.user) ELSE {}
    IN  /\ pc[r] = "idle"
        /\ pc' = [pc EXCEPT ![r] = first]
        /\ op' = [q \in Request |->
                    IF q = r THEN [o EXCEPT !.alone = others = {}]
                    ELSE IF q \in others THEN [op[q] EXCEPT !.alone = FALSE] ELSE op[q]]
        /\ overlapped' = IF others = {} THEN overlapped
                         ELSE overlapped \cup (({o.link} \cup {op[q].link : q \in others})
                                                 \cap Link)
        /\ spoiled' = IF Secretive(o) THEN spoiled \cup (Of(o.user) \ {o.link}) ELSE spoiled
        /\ UNCHANGED <<store, took, last, expired, uses, again, refused, raced>>

\* httpUserConnect: "you already have a Jira account linked"
NotConnected(u, i) == i \notin connected[u]

\* httpUserConnect, up to storing the secret; the connection may be made, and
\* the instance gone, before that.
Start(r, u, i) ==
    /\ NotConnected(u, i)
    /\ UNCHANGED visits
    /\ Submit(r, [kind |-> "start", user |-> u, inst |-> i, link |-> Nothing,
                  newest |-> FALSE, late |-> FALSE, cookie |-> Nothing, alone |-> TRUE], "store")

\* The browser calls back.  One that has lost the cookie of Atlassian Connect
\* is sent away before anything is read.
Visit(r, f, kind) ==
    LET u   == links[f].user
        jwt == Type[links[f].inst] = "jwt"
    IN  /\ f \in issued
        /\ visits < MaxVisits
        /\ visits' = visits + 1
        /\ kind # "callback" => jwt
        /\ Submit(r, [kind |-> kind, user |-> u, inst |-> links[f].inst,
                      link |-> f, newest |-> last[u] = f, late |-> f \in expired,
                      cookie |-> IF jwt THEN cookie[u] ELSE Nothing, alone |-> TRUE],
                  IF jwt THEN "ensure" ELSE "get")

\* The request is answered.
Finish(r) ==
    /\ pc' = [pc EXCEPT ![r] = "idle"]
    /\ op' = [op EXCEPT ![r] = Nothing]
    /\ took' = [took EXCEPT ![r] = Nothing]
    /\ UNCHANGED visits

Spent(r) == IF op[r].kind = "callback" THEN {op[r].link} ELSE {}

\* A call of the store or of Jira fails, or the server dies.
Break(r) ==
    /\ pc[r] # "idle"
    /\ Finish(r)
    /\ spoiled' = spoiled \cup Spent(r)
    /\ UNCHANGED <<store, last, expired, uses, again, refused, overlapped, raced>>

Refuse(r) ==
    /\ Finish(r)
    /\ refused' = refused \cup {op[r].link}
    /\ UNCHANGED <<store, last, expired, uses, again, spoiled, overlapped, raced>>

Goto(r, l) ==
    /\ pc' = [pc EXCEPT ![r] = l]
    /\ UNCHANGED <<op, visits>>

-----------------------------------------------------------------------------
(* The start of a flow.                                                    *)

\* Mutant: the name of the key is the prefix alone.
StoredForAll(u, f) == [v \in User |-> f]

\* prefixOneTimeSecret and the ID of the user
Stored(u, f) == [secret EXCEPT ![u] = f]

\* The links of OAuth are complete.
GiveLink(r, f) == Finish(r) /\ issued' = issued \cup {f}

\* That of Atlassian Connect has a token in it, which needs the key of tokens.
MakeToken(r, f) ==
    /\ pc' = [pc EXCEPT ![r] = "ensure"]
    /\ op' = [op EXCEPT ![r].link = f]
    /\ UNCHANGED <<issued, took, visits>>

\* GetUserConnectURL.  The secret is meant to expire, but SetExpiry takes its
\* 900 for nanoseconds and rounds it to no expiry.
StoreSecret(r) ==
    LET f == 1 + Cardinality({g \in Link : links[g] # Nothing})
        u == op[r].user
    IN  /\ pc[r] = "store"
        /\ f \in Link
        /\ secret' = Stored(u, f)
        /\ links' = [links EXCEPT ![f] = [user |-> u, inst |-> op[r].inst, token |-> Nothing]]
        /\ last' = [last EXCEPT ![u] = f]
        /\ overlapped' = IF op[r].alone THEN overlapped ELSE overlapped \cup {f}
        /\ IF Type[op[r].inst] = "jwt" THEN MakeToken(r, f) ELSE GiveLink(r, f)
        /\ UNCHANGED <<tokenSecret, cookie, connected,
                       expired, uses, again, refused, spoiled, raced>>

-----------------------------------------------------------------------------
(* Tokens.                                                                 *)

\* NewEncodedAuthToken, and the answer with the link and the cookie
Issue(r, key) ==
    /\ links' = [links EXCEPT ![op[r].link].token = key]
    /\ issued' = issued \cup {op[r].link}
    /\ cookie' = [cookie EXCEPT ![op[r].user] = op[r].link]
    /\ Finish(r)
    /\ UNCHANGED refused

\* ParseAuthToken.  The page that asks to confirm does no more than this, and
\* is left out.
Parse(r, readable) ==
    /\ IF readable
       THEN /\ Goto(r, IF op[r].kind = "callback" THEN "get" ELSE "disconnect")
            /\ UNCHANGED <<took, refused>>
       ELSE Finish(r) /\ refused' = refused \cup {op[r].link}
    /\ UNCHANGED <<links, issued, cookie>>

\* Mutant: the time in the token is not compared.
ParseWithoutTime(r, key) == Parse(r, links[op[r].link].token = key)

ParseAuthToken(r, key) ==
    Parse(r, links[op[r].link].token = key /\ op[r].link \notin expired)

WithKey(r, key) == IF op[r].kind = "start" THEN Issue(r, key) ELSE ParseAuthToken(r, key)

\* Mutant: each use makes a key of its own.
GenerateAlways(r) ==
    /\ pc[r] = "ensure"
    /\ Goto(r, "generate") /\ UNCHANGED <<links, issued, cookie, took, refused, raced>>
    /\ UNCHANGED <<tokenSecret, secret, connected,
                   last, expired, uses, again, spoiled, overlapped>>

EnsureAuthTokenEncryptSecret(r) ==
    /\ pc[r] = "ensure"
    /\ IF tokenSecret # Nothing
       THEN WithKey(r, tokenSecret) /\ UNCHANGED raced
       ELSE /\ Goto(r, "generate")
            /\ raced' = (raced \/ \E q \in Request : pc[q] = "generate")
            /\ UNCHANGED <<links, issued, cookie, took, refused>>
    /\ UNCHANGED <<tokenSecret, secret, connected,
                   last, expired, uses, again, spoiled, overlapped>>

\* It stores what it generated, whatever is stored by now, and uses it.
StoreTokenSecret(r) ==
    /\ pc[r] = "generate"
    /\ tokenSecret' = r
    /\ WithKey(r, r)
    /\ UNCHANGED <<secret, connected,
                   last, expired, uses, again, spoiled, overlapped, raced>>

-----------------------------------------------------------------------------
(* The callback.                                                           *)

\* OAuth 1.0a reads its secret as JSON, which those of the others are not,
\* and gives up before deleting when there is none.
GetSecret(r) ==
    LET s == secret[op[r].user]
    IN  /\ pc[r] = "get"
        /\ IF Type[op[r].inst] = "server"
              /\ (s = Nothing \/ Type[links[s].inst] # "server")
           THEN Refuse(r)
           ELSE /\ Goto(r, "delete")
                /\ took' = [took EXCEPT ![r] = s]
                /\ UNCHANGED <<store, history>>

\* Mutant: the secret stays.
Kept(u) == secret

\* The secret is deleted, be it a newer one by now.
Deleted(u) == [secret EXCEPT ![u] = Nothing]

\* The secret that was read is the link's, and the cookie its other half.
Same(r) ==
    /\ took[r] = op[r].link
    /\ Type[op[r].inst] = "jwt" => took[r] = op[r].cookie

DeleteSecret(r) ==
    /\ pc[r] = "delete"
    /\ secret' = Deleted(op[r].user)
    /\ IF Same(r) THEN Goto(r, "connect") /\ UNCHANGED <<took, refused, spoiled>>
       ELSE /\ Finish(r)
            /\ refused' = refused \cup {op[r].link}
            /\ spoiled' = spoiled \cup Spent(r)
    /\ UNCHANGED <<tokenSecret, links, issued, cookie, connected,
                   last, expired, uses, again, overlapped, raced>>

\* Jira's answers, and connectUser
Connect(r) ==
    LET f == op[r].link
        u == op[r].user
    IN  /\ pc[r] = "connect"
        /\ connected' = [connected EXCEPT ![u] = @ \cup {op[r].inst}]
        /\ uses' = [uses EXCEPT ![f] = IF @ < 2 THEN @ + 1 ELSE @]
        /\ again' = IF op[r].inst \in connected[u] THEN again \cup {f} ELSE again
        /\ spoiled' = spoiled \cup Spent(r)
        /\ Finish(r)
        /\ UNCHANGED <<tokenSecret, secret, links, issued, cookie,
                       last, expired, refused, overlapped, raced>>

\* The page of Atlassian Connect that disconnects, with any token
Disconnected(r) ==
    /\ pc[r] = "disconnect"
    /\ connected' = [connected EXCEPT ![op[r].user] = @ \ {op[r].inst}]
    /\ Finish(r)
    /\ UNCHANGED <<tokenSecret, secret, links, issued, cookie, history>>

-----------------------------------------------------------------------------
\* authTokenTTL, 15 minutes, passes.
Expire(f) ==
    /\ f \in issued \ expired
    /\ Type[links[f].inst] = "jwt"
    /\ expired' = expired \cup {f}
    /\ UNCHANGED <<store, request,
                   last, uses, again, refused, spoiled, overlapped, raced>>

\* /jira disconnect
Disconnect(u, i) ==
    /\ i \in connected[u]
    /\ connected' = [connected EXCEPT ![u] = @ \ {i}]
    /\ UNCHANGED <<tokenSecret, secret, links, issued, cookie, request, history>>

Step(r) ==
    \/ StoreSecret(r)
    \/ EnsureAuthTokenEncryptSecret(r) \/ StoreTokenSecret(r)
    \/ GetSecret(r) \/ DeleteSecret(r) \/ Connect(r) \/ Disconnected(r)

Next ==
    \/ \E r \in Request, u \in User, i \in Instance : Start(r, u, i)
    \/ \E r \in Request, f \in Link, k \in {"callback", "unlink"} :
          Visit(r, f, k)
    \/ \E r \in Request : Step(r) \/ Break(r)
    \/ \E f \in Link : Expire(f)
    \/ \E u \in User, i \in Instance : Disconnect(u, i)

Spec == Init /\ [][Next]_vars

-----------------------------------------------------------------------------
(* Properties.                                                             *)

\* What is stored, and what a request carries from one call to the next, is of
\* one user; the stored secret is the last one, or none.
LinksOK ==
    /\ \A f \in issued : /\ links[f] # Nothing
                         /\ links[f].token # Nothing <=> Type[links[f].inst] = "jwt"
    /\ \A u \in User : /\ last[u] # Nothing => last[u] \in Of(u)
                       /\ cookie[u] # Nothing => cookie[u] \in issued \cap Of(u)
                       /\ secret[u] # Nothing => secret[u] = last[u]

RequestOK ==
    \A r \in Request :
        /\ pc[r] = "idle" <=> op[r] = Nothing
        /\ pc[r] = "store" => op[r].kind = "start"
        /\ pc[r] \in {"ensure", "generate", "disconnect"} => Type[op[r].inst] = "jwt"
        /\ pc[r] \in {"get", "delete", "connect"} => op[r].kind = "callback"
        /\ pc[r] # "idle" => IF op[r].link = Nothing THEN pc[r] = "store"
                             ELSE /\ op[r].link \in Of(op[r].user)
                                  /\ links[op[r].link].inst = op[r].inst
                                  /\ op[r].kind # "start" => op[r].link \in issued
        /\ pc[r] = "delete" /\ took[r] # Nothing => took[r] \in Of(op[r].user)
        /\ pc[r] = "connect" => took[r] = op[r].link
        /\ pc[r] \in {"get", "delete", "connect"} /\ ~op[r].newest =>
              /\ last[op[r].user] # op[r].link
              /\ took[r] # op[r].link

IInv == TypeOK /\ LinksOK /\ RequestOK

\* A link that was replaced, or whose token was 15 minutes old, when the user
\* came back with it does not connect them: the two meanings of one key, three
\* types of flow and the late callbacks of each leave no way around.
OnlyLiveLinks ==
    \A r \in Request : pc[r] = "connect" =>
        /\ op[r].newest
        /\ Type[op[r].inst] = "jwt" => ~op[r].late

\* A one-time secret is used once, and httpUserConnect says: "Users shouldn't
\* be able to make multiple connections."  A secret read and deleted in two
\* calls is used twice, and a user who is connected connects by another link he
\* holds, only by requests of his that overlapped.
ConnectedOnce == {f \in Link : uses[f] > 1} \cup again \subseteq overlapped

\* Nobody is refused for the secret or the token of a link except for what
\* they did themselves (used it, asked for or used another, were late), or for
\* two requests that found no key of tokens, whosever they were.
RefusedForAReason ==
    \A f \in refused :
        \/ f \in spoiled \cup overlapped
        \/ Type[links[f].inst] = "jwt" /\ (f \in expired \/ raced)

=============================================================================
