-------------------------- MODULE MC_IssueOperations --------------------------
(* Two requests on one issue, of a workflow where the name of one state is    *)
(* part of another's and one transition leads where another does.             *)
EXTENDS IssueOperations, TLC

MCStatus == {"open", "done", "undone"}

MCContains == {<<s, s>> : s \in MCStatus} \cup {<<"done", "undone">>}

MCTransition == {"close", "finish", "reopen"}

MCTo == [t \in MCTransition |->
    CASE t = "close" -> "done" [] t = "finish" -> "undone" [] t = "reopen" -> "open"]

MCFrom == [t \in MCTransition |->
    CASE t = "close" -> {"open"} [] t = "finish" -> {"open", "done"} [] t = "reopen" -> {"done", "undone"}]

CONSTANTS r1, r2

\* The first request is anything, the second one that moves the issue.
MCKinds == (r1 :> Kind) @@ (r2 :> {"update"})

MCFiles == <<"f1", "f2">>

=============================================================================
