--------------------------- MODULE IssueOperations ---------------------------
(***************************************************************************)
(* What users do with Jira issues from Mattermost.  A command, a dialog or *)
(* a button is a handler that makes several calls, of Jira with the user's *)
(* own client and of the Mattermost server, and gives one answer.  Any     *)
(* call may fail; a call that changes Jira may also succeed and its answer *)
(* be lost.  A handler stops at the first failure and undoes nothing.      *)
(*                                                                         *)
(* A handler is the sequence of its steps, todo the steps it has left.     *)
(* Files of a post are attached by a goroutine, job, which goes on after   *)
(* the answer and, in AttachCommentToIssue, shares the variable err with   *)
(* the handler.  A panic in an HTTP handler is recovered; in a command or  *)
(* a goroutine it ends the plugin process and all that is under way in it. *)
(***************************************************************************)
EXTENDS Naturals, FiniteSets, Sequences

CONSTANTS
    Request,    \* requests, each made once
    Kind,       \* the handlers
    Kinds,      \* those a request may be for
    User,       \* Mattermost users
    Account,    \* Jira accounts
    Status,     \* states of an issue, by their names
    Done,       \* the state with DONE_STATUS_ID
    Contains,   \* pairs of names, of which the second contains the first
    Transition, \* transitions of the workflow, by their IDs
    To,         \* the state a transition leads to
    From,       \* the states a transition is offered in
    Files,      \* the sequence of files of a post
    Nothing     \* no state, transition, account

\* The calls that change Jira or a channel, and the ones that only read.
Change == {"create", "comment", "transition", "assign", "worklog", "post"}
Read   == {"user", "getPost", "getUser", "getProject", "covered", "getIssue",
           "resolutions", "projects", "statuses", "meta",
           "transitions", "editMeta", "assignees", "projectsOnly"}
Own    == {"client", "findDone", "match", "search", "issues", "attachment",
           "reply", "test", "files", "notify"}
Step   == Change \cup Read \cup Own

Elements(s) == {s[i] : i \in 1..Len(s)}

File == Elements(Files)

\* What a request asks: a state by (part of) its name, a transition by its ID,
\* an account; whether the post has files.
Asked == [kind: Kind, user: User, name: Status \cup {Nothing},
             to: Transition \cup {Nothing}, who: Account \cup {Nothing}, files: BOOLEAN]

Op == {o \in Asked :
          /\ o.name # Nothing <=> o.kind \in {"transition", "button"}
          /\ o.to # Nothing => o.kind = "update"
          /\ o.who # Nothing => o.kind \in {"update", "assign"}
          /\ o.kind = "update" => (o.to # Nothing \/ o.who # Nothing)
          /\ o.files => o.kind \in {"create", "attach"}}

ASSUME IssueAssumption ==
    /\ Kinds \in [Request -> SUBSET Kind]
    /\ Done \in Status
    /\ Nothing \notin Status \cup Transition \cup Account \cup Request \cup Asked
    /\ Contains \subseteq Status \X Status
    /\ To \in [Transition -> Status]
    /\ From \in [Transition -> SUBSET Status]
    /\ IsFiniteSet(Transition)
    /\ Files \in Seq(STRING)
    /\ "comment" \notin {Files[i] : i \in 1..Len(Files)}
    /\ \A i, j \in 1..Len(Files) : Files[i] = Files[j] => i = j

VARIABLES
    jwt,            \* the instance makes clients without a user's token
    hasReporter,    \* whether issues have a reporter
    connected,      \* users with a connection to it
    issue,          \* the issue in Jira: its state and its assignee
    op,             \* what each request asks
    todo,           \* the steps its handler has left
    answer,         \* the answer
    choice,         \* the transition or the account it has found
    err,            \* the variable err of AttachCommentToIssue
    job,            \* where the goroutine is that attaches the files
    left,           \* the files it has left
    attached,       \* the files it has attached
    reported,       \* what it reported to the user as failed
    listed,         \* the attachments the comment lists
    did,            \* history: the changes a request has made
    offered,        \* history: the transitions it was offered
    overlapped      \* history: handler and goroutine overwrote each other's err

handler == <<op, todo, answer, choice, offered>>
files   == <<job, left, attached, reported, listed>>
vars    == <<jwt, hasReporter, connected, issue, handler, err, files, did, overlapped>>

TypeOK ==
    /\ jwt \in BOOLEAN
    /\ hasReporter \in BOOLEAN
    /\ connected \subseteq User
    /\ issue \in [status: Status, assignee: Account \cup {Nothing}]
    /\ op \in [Request -> Asked \cup {Nothing}]
    /\ todo \in [Request -> Seq(Step)]
    /\ answer \in [Request -> {"idle", "running", "ok", "error", "blank", "panic", "lost"}]
    /\ choice \in [Request -> Transition \cup Account \cup {Nothing}]
    /\ err \in [Request -> {"nil", "reply", "update"}]
    /\ job \in [Request -> {"none", "files", "update", "test", "done", "lost"}]
    /\ left \in [Request -> Seq(File)]
    /\ attached \in [Request -> SUBSET File]
    /\ reported \in [Request -> SUBSET (File \cup {"comment"})]
    /\ listed \in [Request -> SUBSET File]
    /\ did \in [Request -> SUBSET Change]
    /\ offered \in [Request -> SUBSET Transition]
    /\ overlapped \in [Request -> BOOLEAN]

Init ==
    /\ jwt \in BOOLEAN
    /\ hasReporter \in BOOLEAN
    /\ connected = User
    /\ issue \in [status: Status, assignee: {Nothing}]
    /\ op = [r \in Request |-> Nothing]
    /\ todo = [r \in Request |-> <<>>]
    /\ answer = [r \in Request |-> "idle"]
    /\ choice = [r \in Request |-> Nothing]
    /\ err = [r \in Request |-> "nil"]
    /\ job = [r \in Request |-> "none"]
    /\ left = [r \in Request |-> <<>>]
    /\ attached = [r \in Request |-> {}]
    /\ reported = [r \in Request |-> {}]
    /\ listed = [r \in Request |-> {}]
    /\ did = [r \in Request |-> {}]
    /\ offered = [r \in Request |-> {}]
    /\ overlapped = [r \in Request |-> FALSE]

-----------------------------------------------------------------------------
(* The handlers, as the sequences of their calls.                          *)

If(b, steps) == IF b THEN steps ELSE <<>>

\* Dialogs of the web app.
CreateIssue(o) ==
    <<"client">> \o If(o.files, <<"getPost">>) \o
    <<"getProject", "covered", "create", "attachment", "getIssue", "post">> \o
    If(o.files, <<"files">>)

AttachCommentToIssue == <<"client", "getPost", "getUser", "comment", "reply", "test">>

\* Transitions, from a button of a post, and from the commands, which then
\* load the connection again for the notice.
TransitionIssue(resolution) ==
    <<"client", "match">> \o If(resolution, <<"resolutions">>) \o <<"transition", "getIssue">>

httpTransitionIssuePostAction == TransitionIssue(FALSE)

executeTransition == <<"user">> \o TransitionIssue(FALSE) \o <<"notify">>

executeResolution ==
    <<"user", "client", "findDone">> \o TransitionIssue(TRUE) \o <<"notify">>

executeAssign   == <<"user", "client", "getIssue", "search", "assign", "notify">>
executeUnassign == <<"user", "client", "getIssue", "assign", "notify">>
executeWorkLog  == <<"user", "client", "worklog">>
executeView     == <<"user", "client", "attachment">>

\* Mutant: the assignee before the transition.
UpdateAssigneeFirst(o) ==
    <<"client">> \o If(o.who # Nothing, <<"getUser", "assign">>) \o
    If(o.to # Nothing, <<"transition">>) \o <<"getIssue">>

\* HTTP handlers.
httpUpdateIssue(o) ==
    <<"client">> \o If(o.to # Nothing, <<"transition">>) \o
    If(o.who # Nothing, <<"getUser", "assign">>) \o <<"getIssue">>

httpShareIssuePublicly == <<"client", "attachment", "post">>
httpCreateWorkLog      == <<"client", "worklog">>
httpGetIssueByKey      == <<"client", "getIssue">>
httpGetSearchIssues    == <<"client", "issues">>
httpGetMetadata        == <<"client", "statuses", "meta">>
httpGetProjects        == <<"client", "projects">>
httpGetTransitions     == <<"client", "transitions">>
httpGetAssignees       == <<"client", "editMeta", "assignees">>
httpCheckWorklog       == <<"client", "editMeta">>
httpParseIssuesInPost  == <<"user", "client", "getPost">>

Steps(o) ==
    CASE o.kind = "create"      -> CreateIssue(o)
      [] o.kind = "attach"      -> AttachCommentToIssue
      [] o.kind = "button"      -> httpTransitionIssuePostAction
      [] o.kind = "transition"  -> executeTransition
      [] o.kind = "resolution"  -> executeResolution
      [] o.kind = "assign"      -> executeAssign
      [] o.kind = "unassign"    -> executeUnassign
      [] o.kind = "worklog"     -> executeWorkLog
      [] o.kind = "view"        -> executeView
      [] o.kind = "update"      -> httpUpdateIssue(o)
      [] o.kind = "share"       -> httpShareIssuePublicly
      [] o.kind = "bot worklog" -> httpCreateWorkLog
      [] o.kind = "issue"       -> httpGetIssueByKey
      [] o.kind = "search"      -> httpGetSearchIssues
      [] o.kind = "metadata"    -> httpGetMetadata
      [] o.kind = "projects"    -> httpGetProjects
      [] o.kind = "transitions" -> httpGetTransitions
      [] o.kind = "assignees"   -> httpGetAssignees
      [] o.kind = "permission"  -> httpCheckWorklog
      [] OTHER                  -> httpParseIssuesInPost

\* Slash commands: a panic in one is not recovered.
Command == {"transition", "resolution", "assign", "unassign", "worklog", "view"}

-----------------------------------------------------------------------------
(* The handlers' steps.                                                    *)

At(r, step) == /\ answer[r] = "running"
               /\ todo[r] # <<>>
               /\ Head(todo[r]) = step

Advance(r) == /\ todo' = [todo EXCEPT ![r] = Tail(@)]
              /\ UNCHANGED answer

End(r, a) == /\ todo' = [todo EXCEPT ![r] = <<>>]
             /\ answer' = [answer EXCEPT ![r] = a]

environment == <<jwt, hasReporter, connected>>

Submit(r, o) ==
    /\ answer[r] = "idle"
    /\ o.kind \in Kinds[r]
    /\ op' = [op EXCEPT ![r] = o]
    /\ todo' = [todo EXCEPT ![r] = Steps(o)]
    /\ answer' = [answer EXCEPT ![r] = "running"]
    /\ UNCHANGED <<environment, issue, choice, offered, err, files, did, overlapped>>

\* The handler has come to its end.
Answer(r) ==
    /\ answer[r] = "running"
    /\ todo[r] = <<>>
    /\ End(r, "ok")
    /\ UNCHANGED <<environment, issue, op, choice, offered, err, files, did, overlapped>>

\* Mutant: no return after an error.
FailUnnoticed(r) ==
    /\ answer[r] = "running"
    /\ todo[r] # <<>>
    /\ Advance(r)
    /\ UNCHANGED <<environment, issue, op, choice, offered, err, files, did, overlapped>>

\* A call fails, or what it returned makes the handler refuse.  Errors of the
\* search are ignored, and its nil result is dereferenced.
Fail(r) ==
    /\ answer[r] = "running"
    /\ todo[r] # <<>>
    /\ Head(todo[r]) \notin {"reply", "test", "files", "notify"}
    /\ End(r, IF Head(todo[r]) = "issues" THEN "blank" ELSE "error")
    /\ UNCHANGED <<environment, issue, op, choice, offered, err, files, did, overlapped>>

\* getClient: an instance that needs a token of the user has none if the user
\* is not connected; a missing connection is an empty one.
HasClient(u) == u \in connected \/ jwt

Client(r) ==
    /\ At(r, "client")
    /\ HasClient(op[r].user)
    /\ Advance(r)
    /\ UNCHANGED <<environment, issue, op, choice, offered, err, files, did, overlapped>>

ReadOnly(r) ==
    /\ \E step \in Read \cup {"issues"} : At(r, step)
    /\ Advance(r)
    /\ UNCHANGED <<environment, issue, op, choice, offered, err, files, did, overlapped>>

\* The projects with their issue types; when Jira refuses that (400), without,
\* and then the types project by project: one that fails is left out.
ListAgain(r) ==
    /\ At(r, "projects")
    /\ todo' = [todo EXCEPT ![r] = <<"client", "projectsOnly">>]
    /\ UNCHANGED <<environment, issue, op, answer, choice, offered, err, files, did, overlapped>>

\* Transitions Jira offers for the issue as it is.
Offered == {t \in Transition : issue.status \in From[t]}

\* getDoneTransition, whose result is not checked (FindDone of the state).
FindDone(r) ==
    /\ At(r, "findDone")
    /\ \E t \in Offered : To[t] = Done
    /\ op' = [op EXCEPT ![r].name = Done]
    /\ Advance(r)
    /\ UNCHANGED <<environment, issue, choice, offered, err, files, did, overlapped>>

\* findMatchingTransition.
Matching(ts, name) == {t \in ts : <<name, To[t]>> \in Contains}

\* Mutant: takes one of several matches.
MatchAny(r) ==
    /\ At(r, "match")
    /\ offered' = [offered EXCEPT ![r] = Offered]
    /\ \E t \in Matching(Offered, op[r].name) : choice' = [choice EXCEPT ![r] = t]
    /\ Advance(r)
    /\ UNCHANGED <<environment, issue, op, err, files, did, overlapped>>

Match(r) ==
    /\ At(r, "match")
    /\ offered' = [offered EXCEPT ![r] = Offered]
    /\ \E t \in Transition :
          /\ Matching(Offered, op[r].name) = {t}
          /\ choice' = [choice EXCEPT ![r] = t]
    /\ Advance(r)
    /\ UNCHANGED <<environment, issue, op, err, files, did, overlapped>>

\* The mentioned account, or the only one Jira finds.
Search(r) ==
    /\ At(r, "search")
    /\ \E a \in Account :
          /\ op[r].who \in {a, Nothing}
          /\ choice' = [choice EXCEPT ![r] = a]
    /\ Advance(r)
    /\ UNCHANGED <<environment, issue, op, offered, err, files, did, overlapped>>

\* What the request does to the issue; Jira knows the transitions it offers.
Target(r) == IF op[r].kind = "update" THEN op[r].to ELSE choice[r]
Assignee(r) == IF op[r].kind = "update" THEN op[r].who ELSE choice[r]

Changed(r, step) ==
    CASE step = "transition" -> /\ Target(r) \in Offered
                                /\ issue' = [issue EXCEPT !.status = To[Target(r)]]
      [] step = "assign"     -> issue' = [issue EXCEPT !.assignee = Assignee(r)]
      [] OTHER               -> UNCHANGED issue

\* A goroutine attaches the files, one after the other.
StartJob(r) ==
    /\ job' = [job EXCEPT ![r] = "files"]
    /\ left' = [left EXCEPT ![r] = IF op[r].files THEN Files ELSE <<>>]
    /\ UNCHANGED <<attached, reported, listed>>

\* A call that changes Jira or a channel, whose answer may be lost.
DoChange(r, step) ==
    /\ At(r, step)
    /\ Changed(r, step)
    /\ did' = [did EXCEPT ![r] = @ \cup {step}]
    /\ \/ /\ Advance(r)
          /\ IF step = "comment" THEN StartJob(r) ELSE UNCHANGED files
       \/ End(r, "error") /\ UNCHANGED files
    /\ UNCHANGED <<environment, op, choice, offered, err, overlapped>>

AttachFiles(r) ==
    /\ At(r, "files")
    /\ StartJob(r)
    /\ Advance(r)
    /\ UNCHANGED <<environment, issue, op, choice, offered, err, did, overlapped>>

\* AttachCommentToIssue posts its reply and tests the error: two steps, since
\* the goroutine assigns to the same variable.
Reply(r) ==
    /\ At(r, "reply")
    /\ \/ /\ err' = [err EXCEPT ![r] = "nil"]
          /\ did' = [did EXCEPT ![r] = @ \cup {"post"}]
       \/ /\ err' = [err EXCEPT ![r] = "reply"]
          /\ UNCHANGED did
    /\ overlapped' = [overlapped EXCEPT ![r] = @ \/ job[r] = "test"]
    /\ Advance(r)
    /\ UNCHANGED <<environment, issue, op, choice, offered, files>>

TestReply(r) ==
    /\ At(r, "test")
    /\ IF err[r] = "nil" THEN Advance(r) ELSE End(r, "error")
    /\ UNCHANGED <<environment, issue, op, choice, offered, err, files, did, overlapped>>

-----------------------------------------------------------------------------
(* The goroutine.                                                          *)

\* Mutant: returns at the first failure, where the code continues.
AttachFileOrReturn(r) ==
    /\ job[r] = "files"
    /\ left[r] # <<>>
    /\ \/ /\ attached' = [attached EXCEPT ![r] = @ \cup {Head(left[r])}]
          /\ left' = [left EXCEPT ![r] = Tail(@)]
          /\ UNCHANGED <<reported, job>>
       \/ /\ reported' = [reported EXCEPT ![r] = @ \cup {Head(left[r])}]
          /\ job' = [job EXCEPT ![r] = "done"]
          /\ UNCHANGED <<attached, left>>
    /\ UNCHANGED <<environment, issue, handler, err, listed, did, overlapped>>

AttachFile(r) ==
    /\ job[r] = "files"
    /\ left[r] # <<>>
    /\ left' = [left EXCEPT ![r] = Tail(@)]
    /\ \/ /\ attached' = [attached EXCEPT ![r] = @ \cup {Head(left[r])}]
          /\ UNCHANGED reported
       \/ /\ reported' = [reported EXCEPT ![r] = @ \cup {Head(left[r])}]
          /\ UNCHANGED attached
    /\ UNCHANGED <<environment, issue, handler, err, job, listed, did, overlapped>>

\* All files were tried; a comment then gets the names of those attached.
FilesTried(r) ==
    /\ job[r] = "files"
    /\ left[r] = <<>>
    /\ job' = [job EXCEPT ![r] =
          IF op[r].kind = "attach" /\ attached[r] # {} THEN "update" ELSE "done"]
    /\ UNCHANGED <<environment, issue, handler, err, left, attached, reported, listed, did,
                   overlapped>>

UpdateComment(r) ==
    /\ job[r] = "update"
    /\ \/ /\ err' = [err EXCEPT ![r] = "nil"]
          /\ listed' = [listed EXCEPT ![r] = attached[r]]
       \/ /\ err' = [err EXCEPT ![r] = "update"]
          /\ UNCHANGED listed
    /\ job' = [job EXCEPT ![r] = "test"]
    /\ overlapped' = [overlapped EXCEPT ![r] = @ \/ At(r, "test")]
    /\ UNCHANGED <<environment, issue, handler, left, attached, reported, did>>

\* Mutant: the error of UpdateComment is dropped.
UpdateUntested(r) ==
    /\ job[r] = "test"
    /\ job' = [job EXCEPT ![r] = "done"]
    /\ UNCHANGED <<environment, issue, handler, err, left, attached, reported, listed, did,
                   overlapped>>

TestUpdate(r) ==
    /\ job[r] = "test"
    /\ reported' = [reported EXCEPT ![r] =
          IF err[r] = "nil" THEN @ ELSE @ \cup {"comment"}]
    /\ job' = [job EXCEPT ![r] = "done"]
    /\ UNCHANGED <<environment, issue, handler, err, left, attached, listed, did, overlapped>>

-----------------------------------------------------------------------------
(* Panics and the process.                                                 *)

\* The plugin process ends: request r panicked, or none did (Nothing).
ProcessEnds(r) ==
    /\ todo' = [q \in Request |-> <<>>]
    /\ answer' = [q \in Request |->
          IF q = r THEN "panic" ELSE IF answer[q] = "running" THEN "lost" ELSE answer[q]]
    /\ job' = [q \in Request |-> IF job[q] \in {"none", "done"} THEN job[q] ELSE "lost"]
    /\ UNCHANGED <<environment, issue, op, choice, offered, err, left, attached,
                   reported, listed, did, overlapped>>

Stop == /\ \E r \in Request : answer[r] = "running" \/ job[r] \notin {"none", "done", "lost"}
        /\ ProcessEnds(Nothing)

\* The issue as an attachment of a post: reporterSummary dereferences the
\* reporter.
Attachment(r) ==
    /\ At(r, "attachment")
    /\ \/ /\ hasReporter
          /\ Advance(r)
          /\ UNCHANGED <<environment, issue, op, choice, offered, err, files, did, overlapped>>
       \/ /\ ~hasReporter /\ op[r].kind \notin Command
          /\ End(r, "blank")
          /\ UNCHANGED <<environment, issue, op, choice, offered, err, files, did, overlapped>>
       \/ /\ ~hasReporter /\ op[r].kind \in Command
          /\ ProcessEnds(r)

\* executeResolution dereferences the transition it has not found.
NoDone(r) ==
    /\ At(r, "findDone")
    /\ \A t \in Offered : To[t] # Done
    /\ ProcessEnds(r)

\* The commands load the connection again, for the settings in it: no client
\* is no notice but the answer; an empty connection has nil settings.
Notify(r) ==
    /\ At(r, "notify")
    /\ \/ /\ op[r].user \in connected \/ ~jwt
          /\ Advance(r)
          /\ UNCHANGED <<environment, issue, op, choice, offered, err, files, did, overlapped>>
       \/ /\ op[r].user \notin connected /\ jwt
          /\ ProcessEnds(r)

-----------------------------------------------------------------------------
Disconnect(u) ==
    /\ u \in connected
    /\ connected' = connected \ {u}
    /\ UNCHANGED <<jwt, hasReporter, issue, handler, err, files, did, overlapped>>

\* Somebody moves the issue in Jira.
OthersTransition(t) ==
    /\ t \in Offered
    /\ issue' = [issue EXCEPT !.status = To[t]]
    /\ UNCHANGED <<environment, handler, err, files, did, overlapped>>

Handle(r) ==
    \/ Answer(r) \/ Fail(r) \/ Client(r) \/ ReadOnly(r) \/ ListAgain(r)
    \/ FindDone(r) \/ Match(r) \/ Search(r)
    \/ \E step \in Change : DoChange(r, step)
    \/ AttachFiles(r) \/ Reply(r) \/ TestReply(r)
    \/ Attachment(r) \/ NoDone(r) \/ Notify(r)

Job(r) == AttachFile(r) \/ FilesTried(r) \/ UpdateComment(r) \/ TestUpdate(r)

Next ==
    \/ \E r \in Request : \/ \E o \in Op : Submit(r, o)
                          \/ Handle(r)
                          \/ Job(r)
    \/ Stop
    \/ \E u \in User : Disconnect(u)
    \/ \E t \in Transition : OthersTransition(t)

Spec == Init /\ [][Next]_vars

-----------------------------------------------------------------------------
(* What the answers are worth.                                             *)

Active(r) == op[r] # Nothing

\* What a request is for.  The reply of an attached comment is not counted
\* when handler and goroutine overwrote each other's error.
Purpose(r) ==
    LET k == op[r].kind
    IN  CASE k = "create" -> {"create", "post"}
          [] k = "attach" -> {"comment"} \cup (IF overlapped[r] THEN {} ELSE {"post"})
          [] k \in {"button", "transition", "resolution"} -> {"transition"}
          [] k \in {"assign", "unassign"} -> {"assign"}
          [] k \in {"worklog", "bot worklog"} -> {"worklog"}
          [] k = "share" -> {"post"}
          [] k = "update" -> (IF op[r].to = Nothing THEN {} ELSE {"transition"})
                             \cup (IF op[r].who = Nothing THEN {} ELSE {"assign"})
          [] OTHER -> {}

\* A user who is told that it worked can rely on it: whatever failed, was
\* lost, panicked or was done by others meanwhile, all the changes the request
\* is for were made (CreateIssue, AttachCommentToIssue, TransitionIssue,
\* AssignIssue, httpUpdateIssue and the commands over them).
OkMeansDone == \A r \in Request : answer[r] = "ok" => Purpose(r) \subseteq did[r]

\* Nothing is undone, so what a request that failed leaves behind matters: no
\* channel is told of an issue or a comment that is not there, and no issue
\* has the assignee of an update without the transition it came with.
PartialInOrder ==
    \A r \in Request :
        /\ "post" \in did[r] /\ op[r].kind = "create" => "create" \in did[r]
        /\ "post" \in did[r] /\ op[r].kind = "attach" => "comment" \in did[r]
        /\ "assign" \in did[r] /\ op[r].to # Nothing => "transition" \in did[r]

\* An issue is moved by name only to a state the user can have meant: the one
\* state with that name among those it was offered, also if others move the
\* issue between the question and the move (findMatchingTransition).
MovedAsMeant ==
    \A r \in Request :
        ("transition" \in did[r] /\ op[r].kind # "update")
            => Matching(offered[r], op[r].name) = {choice[r]}

\* When the goroutine is done, every file of the post is attached or was
\* reported to the user as failed, and no file is both.
FilesAccounted ==
    \A r \in Request :
        job[r] = "done" =>
            /\ attached[r] \cup (reported[r] \ {"comment"}) = (IF op[r].files THEN File ELSE {})
            /\ attached[r] \cap reported[r] = {}

\* ... and the comment lists what is attached or the user was told that it
\* does not, unless the handler overwrote the goroutine's error.
CommentOrNotice ==
    \A r \in Request :
        (job[r] = "done" /\ op[r].kind = "attach") =>
            \/ listed[r] = attached[r]
            \/ "comment" \in reported[r]
            \/ overlapped[r]

-----------------------------------------------------------------------------
(* The inductive invariant.                                                *)

\* Steps of which the first never comes after the second in a handler.
Before == {<<"create", "post">>, <<"comment", "reply">>, <<"transition", "assign">>,
           <<"match", "transition">>, <<"findDone", "match">>, <<"findDone", "transition">>,
           <<"reply", "test">>, <<"reply", "reply">>, <<"comment", "comment">>,
           <<"files", "files">>}

InOrder(s) == \A i, j \in 1..Len(s) : i < j => <<s[j], s[i]>> \notin Before

\* The steps that only some handlers have
OfKind(step, k) ==
    /\ step \in {"comment", "reply", "test"} => k = "attach"
    /\ step \in {"create", "files"} => k = "create"
    /\ step = "post" => k \in {"create", "share"}
    /\ step = "findDone" => k = "resolution"
    /\ step = "match" => k \in {"button", "transition", "resolution"}
    /\ step = "transition" => k \in {"button", "transition", "resolution", "update"}
    /\ step = "assign" => k \in {"assign", "unassign", "update"}
    /\ step = "search" => k = "assign"
    /\ step = "projects" => k = "projects"

\* A handler tests its reply at once, and looks for a match of what it found.
Paired(s) ==
    /\ \A i \in 1..Len(s) : s[i] = "reply" => i < Len(s) /\ s[i + 1] = "test"
    /\ "findDone" \in Elements(s) => "match" \in Elements(s)

\* What the steps left will still do; a reply that failed still has its test.
LeftToDo(r) ==
    Elements(todo[r]) \cup
    (IF "reply" \in Elements(todo[r]) \/ (At(r, "test") /\ err[r] # "nil") THEN {"post"} ELSE {})

HandlerOK(r) ==
    /\ answer[r] = "idle" <=> op[r] = Nothing
    /\ answer[r] = "idle" => did[r] = {} /\ choice[r] = Nothing
    /\ answer[r] # "running" => todo[r] = <<>>
    /\ answer[r] = "running" => Purpose(r) \subseteq did[r] \cup LeftToDo(r)
    /\ answer[r] = "ok" => Purpose(r) \subseteq did[r]
    /\ InOrder(todo[r]) /\ Paired(todo[r])
    /\ \A step \in Elements(todo[r]) : OfKind(step, op[r].kind)
    /\ op[r] # Nothing => (op[r].to # Nothing => op[r].kind = "update")

\* No step before one that was made is left.
DoneInOrder(r) ==
    /\ "post" \in did[r] => Elements(todo[r]) \cap {"create", "comment", "reply"} = {}
    /\ "assign" \in did[r] => "transition" \notin Elements(todo[r])
    /\ "transition" \in did[r] => Elements(todo[r]) \cap {"match", "findDone"} = {}
    /\ "transition" \in did[r] => OfKind("transition", op[r].kind)

MatchOK(r) ==
    /\ (/\ "transition" \in did[r] \cup Elements(todo[r])
        /\ "match" \notin Elements(todo[r])
        /\ op[r].kind # "update")
           => Matching(offered[r], op[r].name) = {choice[r]}
    /\ op[r].kind \in {"assign", "unassign"} => choice[r] \in Account \cup {Nothing}

\* Every file is attached, reported or left, and one of these only.
JobOK(r) ==
    /\ answer[r] = "idle" \/ Elements(todo[r]) \cap {"comment", "files"} # {} => job[r] = "none"
    /\ job[r] \in {"update", "test"} => op[r].kind = "attach"
    /\ job[r] = "none" => attached[r] = {} /\ reported[r] = {} /\ listed[r] = {}
    /\ job[r] \in {"files", "update", "test", "done"} =>
          attached[r] \cup (reported[r] \ {"comment"}) \cup Elements(left[r])
             = (IF op[r].files THEN File ELSE {})
    /\ job[r] \in {"update", "test", "done"} => left[r] = <<>>
    /\ \A i, j \in 1..Len(left[r]) : left[r][i] = left[r][j] => i = j
    /\ attached[r] \cap reported[r] = {}
    /\ (attached[r] \cup reported[r]) \cap Elements(left[r]) = {}
    /\ job[r] \in {"none", "files", "update"} => listed[r] = {}
    /\ job[r] = "test" /\ err[r] = "nil" => listed[r] = attached[r] \/ overlapped[r]

IInv ==
    /\ TypeOK
    /\ \A r \in Request : HandlerOK(r) /\ DoneInOrder(r) /\ JobOK(r)
    /\ \A r \in Request : Active(r) => MatchOK(r)
    /\ PartialInOrder
    /\ CommentOrNotice

=============================================================================
