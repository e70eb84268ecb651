-------------------------- MODULE WebhookDelivery ---------------------------
(***************************************************************************)
(* What a worker does with one webhook event of one Jira instance, from    *)
(* ParseWebhook to the last post, while users connect and disconnect,      *)
(* subscribe and unsubscribe, the instance is uninstalled and Jira's       *)
(* permissions change.  The worker reads every piece of this at a time of  *)
(* its own and acts on what it read.                                       *)
(*                                                                         *)
(* A connection is the Jira account it is for; a user who is not connected *)
(* has the empty connection, NoAccount (KV.Get of a missing key leaves the *)
(* zero value and reports no error).                                       *)
(***************************************************************************)
EXTENDS Naturals, Sequences

CONSTANTS
    User,           \* Mattermost users
    NoUser,         \* the empty Mattermost user ID
    Account,        \* Jira accounts
    NoAccount,      \* the account of the empty connection
    SubID,          \* subscriptions that match the event's type, project and fields
    NoSubID,        \* no subscription
    Owner,          \* who created each; NoUser for those of older versions
    Roles,          \* its Self filter, in order
    InstanceType,   \* "server", "cloud" (JWT) or "cloud-oauth"
    HasJWT,         \* a cloud-oauth instance that still has its JWT bot
    Author,         \* the event's user
    CommentAuthor,  \* the account expandIssue fetches the issue for
    Reporter,       \* of the issue; NoAccount when it has none
    Assignee,
    Watchers,
    Assigns,        \* an issue_assigned event
    Expands,        \* a comment or issue_created event
    Changes         \* what the environment may do meanwhile

Role == {"reporter", "assignee", "watcher"}

ASSUME DeliveryAssumption ==
    /\ NoUser \notin User /\ NoAccount \notin Account /\ NoSubID \notin SubID
    /\ Owner \in [SubID -> User \cup {NoUser}]
    /\ Roles \in [SubID -> Seq(Role)]
    \* validateSubscription: "please provide a issue role"
    /\ \A s \in SubID : Owner[s] # NoUser => Roles[s] # <<>>
    /\ InstanceType \in {"server", "cloud", "cloud-oauth"}
    /\ HasJWT \in BOOLEAN /\ Assigns \in BOOLEAN /\ Expands \in BOOLEAN
    /\ {Author, CommentAuthor, Reporter, Assignee} \subseteq Account \cup {NoAccount}
    /\ Watchers \subseteq Account

VARIABLES
    connected,  \* the connection of each user
    userOf,     \* the reverse index, from accounts to users
    installed,  \* the instance's record exists
    subs,       \* the subscriptions in the store
    mayRead,    \* the accounts Jira lets read the issue
    pc,         \* where the worker is
    todo,       \* subscriptions still to match, or to post to
    matched,    \* those that passed matchesSubsciptionFilters
    target,     \* the user a direct message is for
    current,    \* the subscription being posted to
    notified,   \* users sent a direct message about the event
    posted,     \* subscriptions whose channel got the post
    could,      \* users who could read the issue at some time since the worker began
    left        \* users who disconnected since then

environment == <<connected, userOf, installed, subs, mayRead>>
worker      == <<pc, todo, matched, target, current>>
history     == <<could, left>>
vars        == <<environment, worker, notified, posted, history>>

AnyUser    == User \cup {NoUser}
AnyAccount == Account \cup {NoAccount}

TypeOK ==
    /\ connected \in [User -> AnyAccount]
    /\ userOf \in [Account -> AnyUser]
    /\ installed \in BOOLEAN
    /\ subs \subseteq SubID
    /\ mayRead \subseteq Account
    /\ pc \in {"parse", "notify", "dmcheck", "dm", "expand", "subs", "match",
               "next", "check", "post", "done", "panic"}
    /\ todo \subseteq SubID /\ matched \subseteq SubID
    /\ target \in AnyUser
    /\ current \in SubID \cup {NoSubID}
    /\ notified \subseteq User
    /\ posted \subseteq SubID
    /\ could \subseteq User /\ left \subseteq User

\* LoadConnection
Connection(u) == IF u = NoUser THEN NoAccount ELSE connected[u]

\* LoadMattermostUserID
MattermostUser(a) == IF a = NoAccount THEN NoUser ELSE userOf[a]

\* GetClient: a server or OAuth connection without its token makes no client;
\* a JWT client is made for any account.
GetClient(c) ==
    \/ c # NoAccount
    \/ InstanceType = "cloud"
    \/ InstanceType = "cloud-oauth" /\ HasJWT

\* GetIssue with the client of a connection: Jira answers for its account.
GetIssue(c) == c \in mayRead

Init ==
    /\ connected \in [User -> AnyAccount]
    /\ \A u, v \in User : connected[u] = connected[v] => u = v \/ connected[u] = NoAccount
    /\ userOf = [a \in Account |->
                    IF \E u \in User : connected[u] = a
                    THEN CHOOSE u \in User : connected[u] = a ELSE NoUser]
    /\ installed = TRUE
    /\ subs \in SUBSET SubID
    /\ mayRead \in SUBSET Account
    /\ pc = "parse"
    /\ todo = {} /\ matched = {}
    /\ target = NoUser
    /\ current = NoSubID
    /\ notified = {} /\ posted = {}
    /\ could = {u \in User : connected[u] \in mayRead} /\ left = {}

-----------------------------------------------------------------------------
(* ParseWebhook and PostNotifications                                      *)

Goto(l) == pc' = l
Keep    == UNCHANGED <<environment, todo, matched, target, current, notified, posted>>

\* ParseWebhook: the body is malformed, ignored or of an unsupported event;
\* or there is a webhook to process.
Parse ==
    /\ pc = "parse"
    /\ Goto("done") \/ Goto("notify")
    /\ Keep

\* PostNotifications: without an instance or a notification there is nothing
\* to do (appendNotificationForAssignee makes the only one).  The recipient
\* is looked up by the assignee's account.
Notify ==
    /\ pc = "notify"
    /\ IF Assigns /\ Assignee \notin {NoAccount, Author} /\ installed
       THEN Goto("dmcheck") /\ target' = MattermostUser(Assignee)
       ELSE Goto("expand") /\ UNCHANGED target
    /\ UNCHANGED <<environment, todo, matched, current, notified, posted>>

\* Mutant: whoever is assigned is told, whatever Jira says.
NotifyUnchecked ==
    /\ pc = "dmcheck"
    /\ Goto("dm")
    /\ Keep

\* The recipient's own connection must be able to get the issue.
NotifyCheck ==
    /\ pc = "dmcheck"
    /\ Goto(IF GetClient(Connection(target)) /\ GetIssue(Connection(target)) THEN "dm" ELSE "expand")
    /\ Keep

\* CreateBotDMPost loads the connection once more, for its settings: a
\* disconnected user has none and gets no message, nor does one who turned
\* notifications off; creating the post may fail.
NotifyPost ==
    /\ pc = "dm"
    /\ Goto("expand")
    /\ \/ Connection(target) # NoAccount /\ notified' = notified \cup {target}
       \/ UNCHANGED notified
    /\ UNCHANGED <<environment, todo, matched, target, current, posted>>

-----------------------------------------------------------------------------
(* expandIssue and getChannelsSubscribed                                   *)

\* expandIssue with the OAuth connection of the comment's author.  An author
\* who is not connected has the empty Mattermost user ID, no error, and the
\* empty connection: the branch that falls back to the JWT bot is not taken.
ExpandAsAuthor ==
    LET c == Connection(MattermostUser(CommentAuthor))
    IN  GetClient(c) /\ GetIssue(c)

\* The events that need no expansion, and those of a server, are left as they
\* are; the JWT bot of a cloud instance may fail to get the issue.
Expand ==
    /\ pc = "expand"
    /\ \E ok \in BOOLEAN :
          /\ ok => ~Expands \/ InstanceType # "cloud-oauth" \/ ExpandAsAuthor
          /\ ~ok => /\ Expands
                    /\ InstanceType # "server"
                    /\ InstanceType = "cloud-oauth" => ~ExpandAsAuthor
          /\ Goto(IF installed /\ ok THEN "subs" ELSE "done")
    /\ Keep

\* getSubscriptions: one read of the store; it may fail.
Subscribed ==
    /\ pc = "subs"
    /\ \/ Goto("match") /\ todo' = subs
       \/ Goto("done") /\ UNCHANGED todo
    /\ UNCHANGED <<environment, matched, target, current, notified, posted>>

RoleHolds(c, role) ==
    CASE role = "reporter" -> Reporter # NoAccount /\ c = Reporter
      [] role = "assignee" -> Assignee # NoAccount /\ c = Assignee
      [] role = "watcher"  -> installed /\ GetClient(c) /\ GetIssue(c) /\ c \in Watchers

\* The roles are tried in order up to the first that holds.
ReachesReporter(c, roles) ==
    \E i \in DOMAIN roles :
        roles[i] = "reporter" /\ \A j \in 1 .. i - 1 : ~RoleHolds(c, roles[j])

MatchesSelf(c, roles) ==
    roles = <<>> \/ \E i \in DOMAIN roles : RoleHolds(c, roles[i])

\* Mutant: a subscription that was matched stays to be matched.
MatchAgain(s) ==
    /\ pc = "match"
    /\ s \in todo
    /\ matched' = matched \cup {s}
    /\ UNCHANGED <<environment, pc, todo, target, current, notified, posted>>

\* matchesSubsciptionFilters for one subscription of the snapshot.  The
\* reporter role dereferences the issue's reporter, which may be absent.
Match(s) ==
    /\ pc = "match"
    /\ s \in todo
    /\ LET c == Connection(Owner[s])
       IN  IF Reporter = NoAccount /\ ReachesReporter(c, Roles[s])
           THEN Goto("panic") /\ UNCHANGED <<todo, matched>>
           ELSE /\ todo' = todo \ {s}
                /\ matched' = IF MatchesSelf(c, Roles[s]) THEN matched \cup {s} ELSE matched
                /\ Goto("match")
    /\ UNCHANGED <<environment, target, current, notified, posted>>

Matched ==
    /\ pc = "match"
    /\ todo = {}
    /\ Goto("next")
    /\ UNCHANGED <<environment, todo, matched, target, current, notified, posted>>

-----------------------------------------------------------------------------
(* The loop over the subscribed channels                                   *)

\* The next of them: skipped when it is of an older version or its owner
\* made the change.
Take(s) ==
    /\ pc = "next"
    /\ s \in matched
    /\ matched' = matched \ {s}
    /\ IF Owner[s] = NoUser \/ Connection(Owner[s]) = Author
       THEN Goto("next") /\ UNCHANGED current
       ELSE Goto("check") /\ current' = s
    /\ UNCHANGED <<environment, todo, target, notified, posted>>

\* Mutant: the permissions are not checked for a subscription that matched.
CheckNothing ==
    /\ pc = "check"
    /\ Goto("post")
    /\ Keep

\* Mutant: the permissions are checked with the connection alone.
CheckConnection ==
    /\ pc = "check"
    /\ LET c == Connection(Owner[current])
       IN  Goto(IF GetClient(c) => GetIssue(c) THEN "post" ELSE "next")
    /\ Keep

\* CheckPermissions.  When there is no client for the owner's connection, it
\* returns err, which is nil there, and not err2.
CheckPermissions ==
    /\ pc = "check"
    /\ LET c == Connection(Owner[current])
       IN  Goto(IF installed /\ (GetClient(c) => GetIssue(c)) THEN "post" ELSE "next")
    /\ Keep

\* PostToChannel; creating the post may fail.
PostToChannel ==
    /\ pc = "post"
    /\ Goto("next")
    /\ posted' \in {posted, posted \cup {current}}
    /\ UNCHANGED <<environment, todo, matched, target, current, notified>>

Finish ==
    /\ pc = "next"
    /\ matched = {}
    /\ Goto("done")
    /\ Keep

Step ==
    \/ Parse \/ Notify \/ NotifyCheck \/ NotifyPost
    \/ Expand \/ Subscribed
    \/ \E s \in SubID : Match(s)
    \/ Matched
    \/ \E s \in SubID : Take(s)
    \/ CheckPermissions \/ PostToChannel \/ Finish

-----------------------------------------------------------------------------
(* The environment                                                         *)

Busy == pc \notin {"done", "panic"}

\* connectUser: StoreConnection writes the connection and the reverse index.
Connect(u, a) ==
    /\ "connect" \in Changes
    /\ connected[u] = NoAccount
    /\ connected' = [connected EXCEPT ![u] = a]
    /\ userOf' = [userOf EXCEPT ![a] = u]
    /\ UNCHANGED <<installed, subs, mayRead>>

\* disconnectUser: DeleteConnection deletes both keys, whoever the second is for.
Disconnect(u) ==
    /\ "disconnect" \in Changes
    /\ connected[u] # NoAccount
    /\ connected' = [connected EXCEPT ![u] = NoAccount]
    /\ userOf' = [userOf EXCEPT ![connected[u]] = NoUser]
    /\ UNCHANGED <<installed, subs, mayRead>>

\* The end of UninstallInstance (it disconnects the users first).
Uninstall ==
    /\ "uninstall" \in Changes
    /\ installed
    /\ installed' = FALSE
    /\ UNCHANGED <<connected, userOf, subs, mayRead>>

\* A subscription is created or deleted.
Resubscribe(s) ==
    /\ "subscribe" \in Changes
    /\ subs' = IF s \in subs THEN subs \ {s} ELSE subs \cup {s}
    /\ UNCHANGED <<connected, userOf, installed, mayRead>>

\* Jira's administrators change who may read the issue.
Repermit(a) ==
    /\ "permission" \in Changes
    /\ mayRead' = IF a \in mayRead THEN mayRead \ {a} ELSE mayRead \cup {a}
    /\ UNCHANGED <<connected, userOf, installed, subs>>

Environment ==
    /\ Busy
    /\ \/ \E u \in User, a \in Account : Connect(u, a)
       \/ \E u \in User : Disconnect(u)
       \/ Uninstall
       \/ \E s \in SubID : Resubscribe(s)
       \/ \E a \in Account : Repermit(a)
    /\ UNCHANGED <<worker, notified, posted>>

Remember ==
    /\ could' = could \cup {u \in User : connected'[u] \in mayRead'}
    /\ left' = left \cup {u \in User : connected[u] # NoAccount /\ connected'[u] = NoAccount}

Next == (Step \/ Environment) /\ Remember

Spec == Init /\ [][Next]_vars

\* The worker goroutine keeps running; Jira and the store answer each call.
FairSpec == Spec /\ WF_vars(Step /\ Remember)

-----------------------------------------------------------------------------
(* Only users who could read the issue in Jira, with the account they are  *)
(* connected to, at some time since the worker began, are sent a direct    *)
(* message about it, whoever the reverse index says the assignee is.       *)
MessagesOnlyToReaders == notified \subseteq could

(* webhook.go, PostNotifications: "Not connected to Jira, so can't check   *)
(* permissions".  A channel gets the post only on behalf of a user who     *)
(* could read the issue in Jira at some time since the worker began.       *)
PostsOnlyToReaders == \A s \in posted : Owner[s] \in could

(* The one way to a post that nobody checked: its owner disconnected while *)
(* the worker was at it.                                                   *)
UncheckedOnlyAfterDisconnect == \A s \in posted : Owner[s] \in could \cup left

\* What the proofs need besides: could holds at least the present readers; a
\* message under way is for one who could read; a matched subscription has an
\* owner who was connected, and still is unless he has left; the one being
\* posted to has passed CheckPermissions.
OwnerWasConnected(s) ==
    Owner[s] # NoUser => connected[Owner[s]] # NoAccount \/ Owner[s] \in left

IInv ==
    /\ TypeOK
    /\ \A u \in User : connected[u] \in mayRead => u \in could
    /\ pc = "dm" => target \in could
    /\ \A s \in matched : OwnerWasConnected(s)
    /\ pc \in {"check", "post"} =>
          current \in SubID /\ Owner[current] # NoUser /\ OwnerWasConnected(current)
    /\ pc = "post" => Owner[current] \in could \cup left
    /\ MessagesOnlyToReaders
    /\ UncheckedOnlyAfterDisconnect

(* Once the instance is gone, no further subscription is posted to, and    *)
(* none will be, but the one whose check had passed already.               *)
NothingAfterUninstall ==
    [][~installed /\ pc # "post" => pc' # "post" /\ posted' = posted]_vars

(* Liveness: the worker gets to the end of the event or panics.            *)
EventEnds == <>(pc \in {"done", "panic"})
=============================================================================
