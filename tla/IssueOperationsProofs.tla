------------------------ MODULE IssueOperationsProofs ------------------------
(***************************************************************************)
(* Proofs about IssueOperations, for any number of requests of every kind, *)
(* any workflow and any number of files: whatever fails, is lost, panics   *)
(* or is done by others meanwhile, an answer that reports success is true, *)
(* what a failed request leaves behind is in order, and every file and     *)
(* every change of a comment is accounted for.                             *)
(***************************************************************************)
EXTENDS IssueOperations, SequenceTheorems, TLAPS

-----------------------------------------------------------------------------
(* Sequences of steps                                                      *)

LEMMA ElementsConcat ==
    ASSUME NEW S, NEW s \in Seq(S), NEW t \in Seq(S)
    PROVE  Elements(s \o t) = Elements(s) \cup Elements(t)
<1>1. Len(s \o t) = Len(s) + Len(t) /\ Len(s) \in Nat /\ Len(t) \in Nat
  OBVIOUS
<1>2. ASSUME NEW x \in Elements(s \o t) PROVE x \in Elements(s) \cup Elements(t)
  <2>1. PICK i \in 1..Len(s \o t) : x = (s \o t)[i]
    BY DEF Elements
  <2>2. CASE i <= Len(s)
    BY <1>1, <2>1, <2>2 DEF Elements
  <2>3. CASE i > Len(s)
    <3>1. i - Len(s) \in 1..Len(t) /\ x = t[i - Len(s)]
      BY <1>1, <2>1, <2>3
    <3> QED
      BY <3>1 DEF Elements
  <2> QED
    BY <1>1, <2>2, <2>3
<1>3. ASSUME NEW x \in Elements(s) PROVE x \in Elements(s \o t)
  <2>1. PICK i \in 1..Len(s) : x = s[i]
    BY DEF Elements
  <2>2. i \in 1..Len(s \o t) /\ (s \o t)[i] = x
    BY <1>1, <2>1
  <2> QED
    BY <2>2 DEF Elements
<1>4. ASSUME NEW x \in Elements(t) PROVE x \in Elements(s \o t)
  <2>1. PICK i \in 1..Len(t) : x = t[i]
    BY DEF Elements
  <2>2. i + Len(s) \in 1..Len(s \o t) /\ (s \o t)[i + Len(s)] = x
    BY <1>1, <2>1
  <2> QED
    BY <2>2 DEF Elements
<1> QED
  BY <1>2, <1>3, <1>4

\* What comes after a step of a sequence comes after its first step.
LEMMA HeadAndTail ==
    ASSUME NEW S, NEW s \in Seq(S), s # <<>>
    PROVE  /\ Tail(s) \in Seq(S) /\ Len(Tail(s)) = Len(s) - 1 /\ Len(s) >= 1 /\ Head(s) = s[1]
           /\ \A i \in 1..Len(Tail(s)) : Tail(s)[i] = s[i + 1] /\ i + 1 \in 1..Len(s)
           /\ Elements(s) = {Head(s)} \cup Elements(Tail(s))
           /\ Head(s) \in Elements(s)
<1>1. /\ Tail(s) \in Seq(S) /\ Len(Tail(s)) = Len(s) - 1 /\ Len(s) >= 1 /\ Len(s) \in Nat
      /\ Head(s) = s[1]
  OBVIOUS
<1>2. \A i \in 1..Len(Tail(s)) : Tail(s)[i] = s[i + 1] /\ i + 1 \in 1..Len(s)
  BY <1>1
<1>3. ASSUME NEW x \in Elements(s) PROVE x \in {Head(s)} \cup Elements(Tail(s))
  <2>1. PICK i \in 1..Len(s) : x = s[i]
    BY DEF Elements
  <2>2. CASE i = 1
    BY <1>1, <2>1, <2>2
  <2>3. CASE i # 1
    <3>1. i - 1 \in 1..Len(Tail(s)) /\ Tail(s)[i - 1] = s[i]
      BY <1>1, <1>2, <2>3
    <3> QED
      BY <2>1, <3>1 DEF Elements
  <2> QED
    BY <2>2, <2>3
<1>4. Head(s) \in Elements(s)
  BY <1>1 DEF Elements
<1>5. Elements(Tail(s)) \subseteq Elements(s)
  BY <1>2 DEF Elements
<1> QED
  BY <1>1, <1>2, <1>3, <1>4, <1>5

LEMMA ElementsType ==
    ASSUME NEW S, NEW s \in Seq(S)
    PROVE  Elements(s) \subseteq S /\ (s = <<>> <=> Elements(s) = {})
<1>1. Elements(s) \subseteq S
  BY DEF Elements
<1>2. ASSUME s # <<>> PROVE Elements(s) # {}
  BY <1>2, HeadAndTail
<1>3. Elements(<<>>) = {}
  BY DEF Elements
<1> QED
  BY <1>1, <1>2, <1>3

\* The step that is made comes before those that are left.
LEMMA TailInOrder ==
    ASSUME NEW s \in Seq(Step), s # <<>>, InOrder(s), Paired(s)
    PROVE  /\ InOrder(Tail(s))
           /\ \A x \in Elements(Tail(s)) : <<x, Head(s)>> \notin Before
           /\ Paired(Tail(s))
           /\ Head(s) = "reply" => Tail(s) # <<>> /\ Head(Tail(s)) = "test"
<1> DEFINE t == Tail(s)
<1>1. /\ t \in Seq(Step) /\ Len(t) = Len(s) - 1 /\ Len(t) \in Nat /\ Head(s) = s[1] /\ Len(s) >= 1
      /\ \A i \in 1..Len(t) : t[i] = s[i + 1] /\ i + 1 \in 1..Len(s)
      /\ Elements(s) = {Head(s)} \cup Elements(t)
  BY HeadAndTail
<1> HIDE DEF t
<1>2. InOrder(t)
  BY <1>1 DEF InOrder
<1>3. ASSUME NEW x \in Elements(t) PROVE <<x, Head(s)>> \notin Before
  <2>1. PICK i \in 1..Len(t) : x = t[i]
    BY DEF Elements
  <2>2. x = s[i + 1] /\ i + 1 \in 1..Len(s) /\ 1 < i + 1 /\ 1 \in 1..Len(s)
    BY <1>1, <2>1
  <2> QED
    BY <1>1, <2>2 DEF InOrder
<1>4. ASSUME NEW i \in 1..Len(t), t[i] = "reply" PROVE i < Len(t) /\ t[i + 1] = "test"
  <2>1. i + 1 \in 1..Len(s) /\ s[i + 1] = "reply"
    BY <1>1, <1>4
  <2>2. i + 1 < Len(s) /\ s[i + 1 + 1] = "test"
    BY <2>1 DEF Paired
  <2>3. i < Len(t) /\ i + 1 \in 1..Len(t)
    BY <1>1, <2>2
  <2> QED
    BY <1>1, <2>2, <2>3
<1>5. "findDone" \in Elements(t) => "match" \in Elements(t)
  <2> SUFFICES ASSUME "findDone" \in Elements(t) PROVE "match" \in Elements(t)
    OBVIOUS
  <2>1. Head(s) # "match"
    BY <1>3 DEF Before
  <2> QED
    BY <1>1, <2>1 DEF Paired
<1>6. ASSUME Head(s) = "reply" PROVE t # <<>> /\ Head(t) = "test"
  <2>1. 1 < Len(s) /\ s[1 + 1] = "test"
    BY <1>1, <1>6 DEF Paired
  <2>2. 1 \in 1..Len(t)
    BY <1>1, <2>1
  <2>3. t[1] = "test" /\ t # <<>>
    BY <1>1, <2>1, <2>2
  <2> QED
    BY <1>1, <2>3
<1> QED
  BY <1>2, <1>3, <1>4, <1>5, <1>6 DEF t, Paired

-----------------------------------------------------------------------------
(* The handlers                                                            *)

\* A sequence of these steps, in order, with its replies tested
Chunk(s, steps) ==
    /\ s \in Seq(Step) /\ Elements(s) = steps /\ InOrder(s)
    /\ \A i \in 1..Len(s) : s[i] = "reply" => i < Len(s) /\ s[i + 1] = "test"

LEMMA Appended ==
    ASSUME NEW s, NEW E, NEW t, NEW F, Chunk(s, E), Chunk(t, F),
           \A x \in E, y \in F : <<y, x>> \notin Before
    PROVE  Chunk(s \o t, E \cup F)
<1> DEFINE u == s \o t
<1>0. s \in Seq(Step) /\ t \in Seq(Step)
  BY DEF Chunk
<1>1. /\ u \in Seq(Step) /\ Len(u) = Len(s) + Len(t) /\ Len(s) \in Nat /\ Len(t) \in Nat
      /\ \A i \in 1..Len(s) : u[i] = s[i]
      /\ \A i \in 1..Len(u) : i > Len(s) => u[i] = t[i - Len(s)] /\ i - Len(s) \in 1..Len(t)
      /\ Elements(u) = E \cup F
  BY <1>0, ElementsConcat DEF Chunk
<1> HIDE DEF u
<1>2. ASSUME NEW i \in 1..Len(u), NEW j \in 1..Len(u), i < j PROVE <<u[j], u[i]>> \notin Before
  <2>1. CASE j <= Len(s)
    <3>1. i \in 1..Len(s) /\ j \in 1..Len(s)
      BY <1>1, <1>2, <2>1
    <3>2. <<s[j], s[i]>> \notin Before
      BY <1>2, <3>1 DEF Chunk, InOrder
    <3> QED
      BY <1>1, <3>1, <3>2
  <2>2. CASE i > Len(s)
    <3>1. i - Len(s) \in 1..Len(t) /\ j - Len(s) \in 1..Len(t) /\ i - Len(s) < j - Len(s)
      BY <1>1, <1>2, <2>2
    <3>2. <<t[j - Len(s)], t[i - Len(s)]>> \notin Before
      BY <3>1 DEF Chunk, InOrder
    <3>3. u[i] = t[i - Len(s)]
      BY <1>1, <2>2
    <3>4. u[j] = t[j - Len(s)]
      BY <1>1, <1>2, <2>2
    <3> QED
      BY <3>2, <3>3, <3>4
  <2>3. CASE i <= Len(s) /\ j > Len(s)
    <3>1. u[i] \in E /\ u[j] \in F
      BY <1>1, <2>3 DEF Chunk, Elements
    <3> QED
      BY <3>1
  <2> QED
    BY <1>1, <2>1, <2>2, <2>3
<1>3. ASSUME NEW i \in 1..Len(u), u[i] = "reply" PROVE i < Len(u) /\ u[i + 1] = "test"
  <2>1. CASE i <= Len(s)
    <3>1. s[i] = "reply" /\ i \in 1..Len(s)
      BY <1>1, <1>3, <2>1
    <3>2. i < Len(s) /\ s[i + 1] = "test" /\ i + 1 \in 1..Len(s)
      BY <3>1, <1>1 DEF Chunk
    <3> QED
      BY <1>1, <3>2
  <2>2. CASE i > Len(s)
    <3>1. t[i - Len(s)] = "reply" /\ i - Len(s) \in 1..Len(t)
      BY <1>1, <1>3, <2>2
    <3>2. i - Len(s) < Len(t) /\ t[i - Len(s) + 1] = "test"
      BY <3>1 DEF Chunk
    <3>3. i + 1 \in 1..Len(u) /\ i + 1 > Len(s) /\ i + 1 - Len(s) = i - Len(s) + 1
      BY <1>1, <2>2, <3>2
    <3> QED
      BY <1>1, <3>2, <3>3
  <2> QED
    BY <1>1, <2>1, <2>2
<1>4. InOrder(u)
  BY <1>2 DEF InOrder
<1> QED
  BY <1>1, <1>3, <1>4 DEF Chunk, u

LEMMA EmptyChunk == Chunk(<<>>, {})
BY DEF Chunk, Elements, InOrder

LEMMA ShortChunks ==
    /\ \A x \in Step : x # "reply" => Chunk(<<x>>, {x})
    /\ \A x, y \in Step : x # "reply" /\ y # "reply" /\ <<y, x>> \notin Before =>
          Chunk(<<x, y>>, {x, y})
<1>1. ASSUME NEW x \in Step, x # "reply" PROVE Chunk(<<x>>, {x})
  BY <1>1 DEF Chunk, Elements, InOrder
<1>2. ASSUME NEW x \in Step, NEW y \in Step, x # "reply", y # "reply", <<y, x>> \notin Before
      PROVE Chunk(<<x, y>>, {x, y})
  BY <1>2 DEF Chunk, Elements, InOrder
<1> QED
  BY <1>1, <1>2

LEMMA IfChunk ==
    ASSUME NEW s, NEW E, Chunk(s, E), NEW b
    PROVE  Chunk(If(b, s), IF b THEN E ELSE {})
BY EmptyChunk DEF If

LEMMA CreateIssueSteps ==
    ASSUME NEW o
    PROVE  Chunk(CreateIssue(o),
                 {"client", "getProject", "covered", "create", "attachment", "getIssue", "post"}
                 \cup (IF o.files THEN {"getPost", "files"} ELSE {}))
<1> DEFINE a == {"client"}
           b == IF o.files THEN {"getPost"} ELSE {}
           c == {"getProject", "covered", "create", "attachment", "getIssue", "post"}
           d == IF o.files THEN {"files"} ELSE {}
<1>1. /\ Chunk(<<"client">>, a)
      /\ Chunk(<<"getPost">>, {"getPost"})
      /\ Chunk(<<"files">>, {"files"})
  BY ShortChunks DEF Step, Read, Own
<1>2. Chunk(<<"getProject", "covered", "create", "attachment", "getIssue", "post">>, c)
  <2> DEFINE s == <<"getProject", "covered", "create", "attachment", "getIssue", "post">>
  <2>1. s \in Seq(Step)
    BY DEF Step, Change, Read, Own
  <2>2. Elements(s) = c
    BY DEF Elements
  <2>3. InOrder(s)
    BY DEF InOrder, Before
  <2> QED
    BY <2>1, <2>2, <2>3 DEF Chunk
<1>3. Chunk(If(o.files, <<"getPost">>), b) /\ Chunk(If(o.files, <<"files">>), d)
  BY <1>1, IfChunk
<1>4. Chunk(<<"client">> \o If(o.files, <<"getPost">>), a \cup b)
  BY <1>1, <1>3, Appended DEF Before
<1>5. Chunk(<<"client">> \o If(o.files, <<"getPost">>)
            \o <<"getProject", "covered", "create", "attachment", "getIssue", "post">>,
            (a \cup b) \cup c)
  BY <1>2, <1>4, Appended DEF Before
<1>6. Chunk(CreateIssue(o), ((a \cup b) \cup c) \cup d)
  BY <1>3, <1>5, Appended DEF Before, CreateIssue
<1>7. ((a \cup b) \cup c) \cup d =
        {"client", "getProject", "covered", "create", "attachment", "getIssue", "post"}
        \cup (IF o.files THEN {"getPost", "files"} ELSE {})
  OBVIOUS
<1> QED
  BY <1>6, <1>7

LEMMA AttachSteps ==
    Chunk(AttachCommentToIssue, {"client", "getPost", "getUser", "comment", "reply", "test"})
<1> DEFINE s == <<"client", "getPost", "getUser", "comment", "reply", "test">>
<1>1. s \in Seq(Step)
  BY DEF Step, Change, Read, Own
<1>2. Elements(s) = {"client", "getPost", "getUser", "comment", "reply", "test"}
  BY DEF Elements
<1>3. InOrder(s)
  BY DEF InOrder, Before
<1>4. \A i \in 1..Len(s) : s[i] = "reply" => i < Len(s) /\ s[i + 1] = "test"
  OBVIOUS
<1> QED
  BY <1>1, <1>2, <1>3, <1>4 DEF Chunk, AttachCommentToIssue

LEMMA TransitionSteps ==
    ASSUME NEW b
    PROVE  Chunk(TransitionIssue(b), {"client", "match", "transition", "getIssue"}
                                     \cup (IF b THEN {"resolutions"} ELSE {}))
<1> DEFINE a == {"client", "match"}
           c == IF b THEN {"resolutions"} ELSE {}
           d == {"transition", "getIssue"}
<1>1. /\ Chunk(<<"client", "match">>, a)
      /\ Chunk(<<"resolutions">>, {"resolutions"})
      /\ Chunk(<<"transition", "getIssue">>, d)
  BY ShortChunks DEF Step, Change, Read, Own, Before
<1>2. Chunk(If(b, <<"resolutions">>), c)
  BY <1>1, IfChunk
<1>3. Chunk(<<"client", "match">> \o If(b, <<"resolutions">>), a \cup c)
  BY <1>1, <1>2, Appended DEF Before
<1>4. Chunk(TransitionIssue(b), (a \cup c) \cup d)
  BY <1>1, <1>3, Appended DEF Before, TransitionIssue
<1>5. (a \cup c) \cup d = {"client", "match", "transition", "getIssue"}
                          \cup (IF b THEN {"resolutions"} ELSE {})
  OBVIOUS
<1> QED
  BY <1>4, <1>5

LEMMA CommandSteps ==
    /\ Chunk(executeTransition, {"user", "client", "match", "transition", "getIssue", "notify"})
    /\ Chunk(executeResolution, {"user", "client", "findDone", "match", "resolutions",
                                 "transition", "getIssue", "notify"})
<1> DEFINE t == {"client", "match", "transition", "getIssue"}
<1>1. Chunk(<<"user">>, {"user"}) /\ Chunk(<<"notify">>, {"notify"})
  BY ShortChunks DEF Step, Read, Own
<1>2. Chunk(TransitionIssue(FALSE), t) /\ Chunk(TransitionIssue(TRUE), t \cup {"resolutions"})
  <2>1. t \cup {} = t
    OBVIOUS
  <2> QED
    BY <2>1, TransitionSteps
<1>3. Chunk(executeTransition, {"user"} \cup t \cup {"notify"})
  <2>1. Chunk(<<"user">> \o TransitionIssue(FALSE), {"user"} \cup t)
    BY <1>1, <1>2, Appended DEF Before
  <2> QED
    BY <1>1, <2>1, Appended DEF Before, executeTransition
<1>4. Chunk(<<"user", "client", "findDone">>, {"user", "client", "findDone"})
  <2> DEFINE s == <<"user", "client", "findDone">>
  <2>1. s \in Seq(Step) /\ Elements(s) = {"user", "client", "findDone"}
    BY DEF Step, Read, Own, Elements
  <2>2. InOrder(s)
    BY DEF InOrder, Before
  <2> QED
    BY <2>1, <2>2 DEF Chunk
<1>5. Chunk(executeResolution, {"user", "client", "findDone"} \cup (t \cup {"resolutions"})
                               \cup {"notify"})
  <2>1. Chunk(<<"user", "client", "findDone">> \o TransitionIssue(TRUE),
              {"user", "client", "findDone"} \cup (t \cup {"resolutions"}))
    BY <1>2, <1>4, Appended DEF Before
  <2> QED
    BY <1>1, <2>1, Appended DEF Before, executeResolution
<1>6. /\ {"user"} \cup t \cup {"notify"}
            = {"user", "client", "match", "transition", "getIssue", "notify"}
      /\ {"user", "client", "findDone"} \cup (t \cup {"resolutions"}) \cup {"notify"}
            = {"user", "client", "findDone", "match", "resolutions", "transition",
               "getIssue", "notify"}
  OBVIOUS
<1> QED
  BY <1>3, <1>5, <1>6

LEMMA UpdateSteps ==
    ASSUME NEW o
    PROVE  Chunk(httpUpdateIssue(o),
                 {"client", "getIssue"}
                 \cup (IF o.to # Nothing THEN {"transition"} ELSE {})
                 \cup (IF o.who # Nothing THEN {"getUser", "assign"} ELSE {}))
<1> DEFINE b == IF o.to # Nothing THEN {"transition"} ELSE {}
           c == IF o.who # Nothing THEN {"getUser", "assign"} ELSE {}
<1>1. /\ Chunk(<<"client">>, {"client"})
      /\ Chunk(<<"transition">>, {"transition"})
      /\ Chunk(<<"getUser", "assign">>, {"getUser", "assign"})
      /\ Chunk(<<"getIssue">>, {"getIssue"})
  BY ShortChunks DEF Step, Change, Read, Own, Before
<1>2. /\ Chunk(If(o.to # Nothing, <<"transition">>), b)
      /\ Chunk(If(o.who # Nothing, <<"getUser", "assign">>), c)
  BY <1>1, IfChunk
<1>3. Chunk(<<"client">> \o If(o.to # Nothing, <<"transition">>), {"client"} \cup b)
  BY <1>1, <1>2, Appended DEF Before
<1>4. Chunk(<<"client">> \o If(o.to # Nothing, <<"transition">>)
            \o If(o.who # Nothing, <<"getUser", "assign">>), ({"client"} \cup b) \cup c)
  BY <1>2, <1>3, Appended DEF Before
<1>5. Chunk(httpUpdateIssue(o), (({"client"} \cup b) \cup c) \cup {"getIssue"})
  BY <1>1, <1>4, Appended DEF Before, httpUpdateIssue
<1>6. (({"client"} \cup b) \cup c) \cup {"getIssue"} = ({"client", "getIssue"} \cup b) \cup c
  OBVIOUS
<1> QED
  BY <1>5, <1>6

LEMMA NoReply ==
    ASSUME NEW s \in Seq(Step), InOrder(s), "reply" \notin Elements(s)
    PROVE  Chunk(s, Elements(s))
BY DEF Chunk, Elements

LEMMA AssignSteps ==
    /\ Chunk(executeAssign, {"user", "client", "getIssue", "search", "assign", "notify"})
    /\ Chunk(executeUnassign, {"user", "client", "getIssue", "assign", "notify"})
    /\ Chunk(executeWorkLog, {"user", "client", "worklog"})
    /\ Chunk(executeView, {"user", "client", "attachment"})
<1>1. /\ executeAssign \in Seq(Step)
      /\ Elements(executeAssign) = {"user", "client", "getIssue", "search", "assign", "notify"}
      /\ InOrder(executeAssign)
  BY DEF executeAssign, Step, Change, Read, Own, Elements, InOrder, Before
<1>2. /\ executeUnassign \in Seq(Step)
      /\ Elements(executeUnassign) = {"user", "client", "getIssue", "assign", "notify"}
      /\ InOrder(executeUnassign)
  BY DEF executeUnassign, Step, Change, Read, Own, Elements, InOrder, Before
<1>3. /\ executeWorkLog \in Seq(Step) /\ Elements(executeWorkLog) = {"user", "client", "worklog"}
      /\ InOrder(executeWorkLog)
  BY DEF executeWorkLog, Step, Change, Read, Own, Elements, InOrder, Before
<1>4. /\ executeView \in Seq(Step) /\ Elements(executeView) = {"user", "client", "attachment"}
      /\ InOrder(executeView)
  BY DEF executeView, Step, Change, Read, Own, Elements, InOrder, Before
<1> QED
  BY <1>1, <1>2, <1>3, <1>4, NoReply

LEMMA HTTPSteps ==
    /\ Chunk(httpShareIssuePublicly, {"client", "attachment", "post"})
    /\ Chunk(httpCreateWorkLog, {"client", "worklog"})
    /\ Chunk(httpGetIssueByKey, {"client", "getIssue"})
    /\ Chunk(httpGetSearchIssues, {"client", "issues"})
    /\ Chunk(httpGetMetadata, {"client", "statuses", "meta"})
    /\ Chunk(httpGetProjects, {"client", "projects"})
    /\ Chunk(httpGetTransitions, {"client", "transitions"})
    /\ Chunk(httpGetAssignees, {"client", "editMeta", "assignees"})
    /\ Chunk(httpCheckWorklog, {"client", "editMeta"})
    /\ Chunk(httpParseIssuesInPost, {"user", "client", "getPost"})
<1>1. /\ Chunk(httpCreateWorkLog, {"client", "worklog"})
      /\ Chunk(httpGetIssueByKey, {"client", "getIssue"})
      /\ Chunk(httpGetSearchIssues, {"client", "issues"})
      /\ Chunk(httpGetProjects, {"client", "projects"})
      /\ Chunk(httpGetTransitions, {"client", "transitions"})
      /\ Chunk(httpCheckWorklog, {"client", "editMeta"})
  BY ShortChunks DEF httpCreateWorkLog, httpGetIssueByKey, httpGetSearchIssues, httpGetProjects,
                     httpGetTransitions, httpCheckWorklog, Step, Change, Read, Own, Before
<1>2. /\ httpShareIssuePublicly \in Seq(Step) /\ InOrder(httpShareIssuePublicly)
      /\ Elements(httpShareIssuePublicly) = {"client", "attachment", "post"}
  BY DEF httpShareIssuePublicly, Step, Change, Read, Own, Elements, InOrder, Before
<1>3. /\ httpGetMetadata \in Seq(Step) /\ InOrder(httpGetMetadata)
      /\ Elements(httpGetMetadata) = {"client", "statuses", "meta"}
  BY DEF httpGetMetadata, Step, Change, Read, Own, Elements, InOrder, Before
<1>4. /\ httpGetAssignees \in Seq(Step) /\ InOrder(httpGetAssignees)
      /\ Elements(httpGetAssignees) = {"client", "editMeta", "assignees"}
  BY DEF httpGetAssignees, Step, Change, Read, Own, Elements, InOrder, Before
<1>5. /\ httpParseIssuesInPost \in Seq(Step) /\ InOrder(httpParseIssuesInPost)
      /\ Elements(httpParseIssuesInPost) = {"user", "client", "getPost"}
  BY DEF httpParseIssuesInPost, Step, Change, Read, Own, Elements, InOrder, Before
<1> QED
  BY <1>1, <1>2, <1>3, <1>4, <1>5, NoReply

\* What a handler is for is among its steps.
Serves(o, steps) ==
    /\ o.kind = "create" => {"create", "post"} \subseteq steps
    /\ o.kind = "attach" => {"comment", "reply"} \subseteq steps
    /\ o.kind \in {"button", "transition", "resolution"} => {"match", "transition"} \subseteq steps
    /\ o.kind \in {"assign", "unassign"} => "assign" \in steps
    /\ o.kind \in {"worklog", "bot worklog"} => "worklog" \in steps
    /\ o.kind = "share" => "post" \in steps
    /\ o.kind = "update" => /\ o.to # Nothing => "transition" \in steps
                            /\ o.who # Nothing => "assign" \in steps

LEMMA StepsOK ==
    ASSUME NEW o
    PROVE  /\ Steps(o) \in Seq(Step) /\ InOrder(Steps(o)) /\ Paired(Steps(o))
           /\ \A step \in Elements(Steps(o)) : OfKind(step, o.kind)
           /\ Serves(o, Elements(Steps(o)))
<1> DEFINE Good(E) == /\ Chunk(Steps(o), E)
                      /\ "findDone" \in E => "match" \in E
                      /\ \A step \in E : OfKind(step, o.kind)
                      /\ Serves(o, E)
<1>0. SUFFICES \E E : Good(E)
  BY DEF Chunk, Paired
<1>1. CASE o.kind = "create"
  <2> DEFINE E == {"client", "getProject", "covered", "create", "attachment", "getIssue", "post"}
                  \cup (IF o.files THEN {"getPost", "files"} ELSE {})
  <2>1. Chunk(Steps(o), E)
    BY <1>1, CreateIssueSteps DEF Steps
  <2>2. Good(E)
    BY <1>1, <2>1 DEF OfKind, Serves
  <2> QED
    BY <2>2
<1>2. CASE o.kind = "attach"
  <2>1. Chunk(Steps(o), {"client", "getPost", "getUser", "comment", "reply", "test"})
    BY <1>2, AttachSteps DEF Steps
  <2>2. Good({"client", "getPost", "getUser", "comment", "reply", "test"})
    BY <1>2, <2>1 DEF OfKind, Serves
  <2> QED
    BY <2>2
<1>3. CASE o.kind = "button"
  <2> DEFINE E == {"client", "match", "transition", "getIssue"}
                  \cup (IF FALSE THEN {"resolutions"} ELSE {})
  <2>1. Chunk(Steps(o), E)
    BY <1>3, TransitionSteps DEF Steps, httpTransitionIssuePostAction
  <2>2. Good(E)
    BY <1>3, <2>1 DEF OfKind, Serves
  <2> QED
    BY <2>2
<1>4. CASE o.kind = "transition"
  <2>1. Chunk(Steps(o), {"user", "client", "match", "transition", "getIssue",
                       "notify"})
    BY <1>4, CommandSteps DEF Steps
  <2>2. Good({"user", "client", "match", "transition", "getIssue",
             "notify"})
    BY <1>4, <2>1 DEF OfKind, Serves
  <2> QED
    BY <2>2
<1>5. CASE o.kind = "resolution"
  <2>1. Chunk(Steps(o), {"user", "client", "findDone", "match", "resolutions",
                       "transition", "getIssue", "notify"})
    BY <1>5, CommandSteps DEF Steps
  <2>2. Good({"user", "client", "findDone", "match", "resolutions",
             "transition", "getIssue", "notify"})
    BY <1>5, <2>1 DEF OfKind, Serves
  <2> QED
    BY <2>2
<1>6. CASE o.kind = "update"
  <2> DEFINE E == {"client", "getIssue"}
                  \cup (IF o.to # Nothing THEN {"transition"} ELSE {})
                  \cup (IF o.who # Nothing THEN {"getUser", "assign"} ELSE {})
  <2>1. Chunk(Steps(o), E)
    BY <1>6, UpdateSteps DEF Steps
  <2>2. Good(E)
    BY <1>6, <2>1 DEF OfKind, Serves
  <2> QED
    BY <2>2
<1>7. CASE o.kind = "assign"
  <2>1. Chunk(Steps(o), {"user", "client", "getIssue", "search", "assign", "notify"})
    BY <1>7, AssignSteps DEF Steps
  <2>2. Good({"user", "client", "getIssue", "search", "assign", "notify"})
    BY <1>7, <2>1 DEF OfKind, Serves
  <2> QED
    BY <2>2
<1>8. CASE o.kind = "unassign"
  <2>1. Chunk(Steps(o), {"user", "client", "getIssue", "assign", "notify"})
    BY <1>8, AssignSteps DEF Steps
  <2>2. Good({"user", "client", "getIssue", "assign", "notify"})
    BY <1>8, <2>1 DEF OfKind, Serves
  <2> QED
    BY <2>2
<1>9. CASE o.kind = "worklog"
  <2>1. Chunk(Steps(o), {"user", "client", "worklog"})
    BY <1>9, AssignSteps DEF Steps
  <2>2. Good({"user", "client", "worklog"})
    BY <1>9, <2>1 DEF OfKind, Serves
  <2> QED
    BY <2>2
<1>10. CASE o.kind = "view"
  <2>1. Chunk(Steps(o), {"user", "client", "attachment"})
    BY <1>10, AssignSteps DEF Steps
  <2>2. Good({"user", "client", "attachment"})
    BY <1>10, <2>1 DEF OfKind, Serves
  <2> QED
    BY <2>2
<1>11. CASE o.kind = "share"
  <2>1. Chunk(Steps(o), {"client", "attachment", "post"})
    BY <1>11, HTTPSteps DEF Steps
  <2>2. Good({"client", "attachment", "post"})
    BY <1>11, <2>1 DEF OfKind, Serves
  <2> QED
    BY <2>2
<1>12. CASE o.kind = "bot worklog"
  <2>1. Chunk(Steps(o), {"client", "worklog"})
    BY <1>12, HTTPSteps DEF Steps
  <2>2. Good({"client", "worklog"})
    BY <1>12, <2>1 DEF OfKind, Serves
  <2> QED
    BY <2>2
<1>13. CASE o.kind = "issue"
  <2>1. Chunk(Steps(o), {"client", "getIssue"})
    BY <1>13, HTTPSteps DEF Steps
  <2>2. Good({"client", "getIssue"})
    BY <1>13, <2>1 DEF OfKind, Serves
  <2> QED
    BY <2>2
<1>14. CASE o.kind = "search"
  <2>1. Chunk(Steps(o), {"client", "issues"})
    BY <1>14, HTTPSteps DEF Steps
  <2>2. Good({"client", "issues"})
    BY <1>14, <2>1 DEF OfKind, Serves
  <2> QED
    BY <2>2
<1>15. CASE o.kind = "metadata"
  <2>1. Chunk(Steps(o), {"client", "statuses", "meta"})
    BY <1>15, HTTPSteps DEF Steps
  <2>2. Good({"client", "statuses", "meta"})
    BY <1>15, <2>1 DEF OfKind, Serves
  <2> QED
    BY <2>2
<1>16. CASE o.kind = "projects"
  <2>1. Chunk(Steps(o), {"client", "projects"})
    BY <1>16, HTTPSteps DEF Steps
  <2>2. Good({"client", "projects"})
    BY <1>16, <2>1 DEF OfKind, Serves
  <2> QED
    BY <2>2
<1>17. CASE o.kind = "transitions"
  <2>1. Chunk(Steps(o), {"client", "transitions"})
    BY <1>17, HTTPSteps DEF Steps
  <2>2. Good({"client", "transitions"})
    BY <1>17, <2>1 DEF OfKind, Serves
  <2> QED
    BY <2>2
<1>18. CASE o.kind = "assignees"
  <2>1. Chunk(Steps(o), {"client", "editMeta", "assignees"})
    BY <1>18, HTTPSteps DEF Steps
  <2>2. Good({"client", "editMeta", "assignees"})
    BY <1>18, <2>1 DEF OfKind, Serves
  <2> QED
    BY <2>2
<1>19. CASE o.kind = "permission"
  <2>1. Chunk(Steps(o), {"client", "editMeta"})
    BY <1>19, HTTPSteps DEF Steps
  <2>2. Good({"client", "editMeta"})
    BY <1>19, <2>1 DEF OfKind, Serves
  <2> QED
    BY <2>2
<1>20. CASE o.kind \notin {"create", "attach", "button", "transition", "resolution", "update",
                           "assign", "unassign", "worklog", "view", "share", "bot worklog",
                           "issue", "search", "metadata", "projects", "transitions",
                           "assignees", "permission"}
  <2>1. Chunk(Steps(o), {"user", "client", "getPost"})
    BY <1>20, HTTPSteps DEF Steps
  <2>2. Good({"user", "client", "getPost"})
    BY <1>20, <2>1 DEF OfKind, Serves
  <2> QED
    BY <2>2
<1> QED
  BY <1>1, <1>2, <1>3, <1>4, <1>5, <1>6, <1>7, <1>8, <1>9, <1>10,
     <1>11, <1>12, <1>13, <1>14, <1>15, <1>16, <1>17, <1>18, <1>19, <1>20

-----------------------------------------------------------------------------
(* One request                                                             *)

PartialAt(r) ==
    /\ "post" \in did[r] /\ op[r].kind = "create" => "create" \in did[r]
    /\ "post" \in did[r] /\ op[r].kind = "attach" => "comment" \in did[r]
    /\ "assign" \in did[r] /\ op[r].to # Nothing => "transition" \in did[r]

NoticeAt(r) ==
    job[r] = "done" /\ op[r].kind = "attach" =>
        listed[r] = attached[r] \/ "comment" \in reported[r] \/ overlapped[r]

\* What the inductive invariant says of one request
RequestOK(r) ==
    /\ HandlerOK(r) /\ DoneInOrder(r) /\ JobOK(r)
    /\ Active(r) => MatchOK(r)
    /\ PartialAt(r) /\ NoticeAt(r)

LEMMA EachRequest == IInv <=> TypeOK /\ \A r \in Request : RequestOK(r)
BY DEF IInv, RequestOK, PartialInOrder, PartialAt, CommentOrNotice, NoticeAt

\* A step of another request
Still(q) ==
    /\ op'[q] = op[q] /\ todo'[q] = todo[q] /\ answer'[q] = answer[q]
    /\ choice'[q] = choice[q] /\ offered'[q] = offered[q] /\ err'[q] = err[q]
    /\ job'[q] = job[q] /\ left'[q] = left[q] /\ attached'[q] = attached[q]
    /\ reported'[q] = reported[q] /\ listed'[q] = listed[q]
    /\ did'[q] = did[q] /\ overlapped'[q] = overlapped[q]

LEMMA StillOK ==
    ASSUME NEW q, Still(q), RequestOK(q)
    PROVE  RequestOK(q)'
<1> USE DEF Still
<1>1. HandlerOK(q)'
  <2>1. Purpose(q)' = Purpose(q) /\ LeftToDo(q)' = LeftToDo(q)
    BY DEF Purpose, LeftToDo, At
  <2> QED
    BY <2>1 DEF RequestOK, HandlerOK
<1>2. DoneInOrder(q)'
  BY DEF RequestOK, DoneInOrder
<1>3. JobOK(q)'
  BY DEF RequestOK, JobOK
<1>4. Active(q)' => MatchOK(q)'
  BY DEF RequestOK, Active, MatchOK
<1>5. PartialAt(q)' /\ NoticeAt(q)'
  BY DEF RequestOK, PartialAt, NoticeAt
<1> QED
  BY <1>1, <1>2, <1>3, <1>4, <1>5 DEF RequestOK

LEMMA OneMoves ==
    ASSUME IInv, TypeOK', NEW r \in Request, RequestOK(r)', \A q \in Request \ {r} : Still(q)
    PROVE  IInv'
<1>1. \A q \in Request : RequestOK(q)'
  BY StillOK, EachRequest
<1> QED
  BY <1>1 DEF IInv, RequestOK, PartialInOrder, PartialAt, CommentOrNotice, NoticeAt

LEMMA InitIInv == Init => IInv
<1> SUFFICES ASSUME Init PROVE IInv
  OBVIOUS
<1> USE DEF Init
<1>1. TypeOK
  BY DEF TypeOK
<1>2. ASSUME NEW r \in Request PROVE RequestOK(r)
  <2>1. todo[r] = <<>> /\ left[r] = <<>> /\ answer[r] = "idle" /\ did[r] = {} /\ job[r] = "none"
        /\ op[r] = Nothing /\ attached[r] = {} /\ reported[r] = {} /\ listed[r] = {}
        /\ choice[r] = Nothing
    OBVIOUS
  <2>2. Elements(todo[r]) = {} /\ Elements(left[r]) = {} /\ Len(todo[r]) = 0 /\ Len(left[r]) = 0
    BY <2>1 DEF Elements
  <2> USE <2>1, <2>2
  <2>3. HandlerOK(r)
    BY DEF HandlerOK, InOrder, Paired
  <2>4. JobOK(r)
    BY DEF JobOK
  <2>5. DoneInOrder(r) /\ ~Active(r) /\ PartialAt(r) /\ NoticeAt(r)
    BY DEF DoneInOrder, Active, PartialAt, NoticeAt
  <2> QED
    BY <2>3, <2>4, <2>5 DEF RequestOK
<1> QED
  BY <1>1, <1>2, EachRequest

\* What the type invariant says of one request
LEMMA RequestType ==
    ASSUME TypeOK, NEW r \in Request
    PROVE  /\ op[r] \in Asked \cup {Nothing} /\ todo[r] \in Seq(Step)
           /\ did[r] \subseteq Change /\ offered[r] \subseteq Transition
           /\ left[r] \in Seq(File) /\ attached[r] \subseteq File
           /\ reported[r] \subseteq File \cup {"comment"} /\ listed[r] \subseteq File
           /\ "comment" \notin File /\ Nothing \notin Asked /\ Nothing \notin Request
BY IssueAssumption DEF TypeOK, File, Elements

LEMMA Requested ==
    ASSUME IInv, NEW r \in Request, answer[r] # "idle"
    PROVE  op[r] \in Asked /\ op[r] # Nothing
BY RequestType DEF IInv, HandlerOK

-----------------------------------------------------------------------------
(* What a step of a handler keeps                                          *)

\* The request stays the one it was, but for the state FindDone gives it.
SameRequest(r) ==
    /\ op'[r] \in Asked /\ op'[r].kind = op[r].kind /\ op'[r].to = op[r].to
    /\ op'[r].who = op[r].who /\ op'[r].files = op[r].files

\* The handler has made its next step.
Stepped(r, h) ==
    /\ answer[r] = "running" /\ todo[r] # <<>> /\ Head(todo[r]) = h
    /\ answer'[r] = "running" /\ todo'[r] = Tail(todo[r])

FilesStay(r) ==
    /\ job'[r] = job[r] /\ left'[r] = left[r] /\ attached'[r] = attached[r]
    /\ reported'[r] = reported[r] /\ listed'[r] = listed[r]

LEMMA PurposeIsChange == \A r : Purpose(r) \subseteq Change
BY DEF Purpose, Change

LEMMA SamePurpose ==
    ASSUME NEW r, SameRequest(r), overlapped[r] => overlapped'[r]
    PROVE  Purpose(r)' \subseteq Purpose(r)
BY DEF SameRequest, Purpose

LEMMA SteppedHandler ==
    ASSUME IInv, NEW r \in Request, NEW h, Stepped(r, h), SameRequest(r),
           overlapped[r] => overlapped'[r],
           did[r] \subseteq did'[r], h \in Change => h \in did'[r],
           h # "reply" => err'[r] = err[r],
           h = "reply" => "post" \in did'[r] \/ err'[r] # "nil",
           h = "test" => err[r] = "nil"
    PROVE  HandlerOK(r)'
<1>1. /\ HandlerOK(r) /\ op[r] \in Asked /\ op[r] # Nothing /\ todo[r] \in Seq(Step)
      /\ Nothing \notin Asked
  BY Requested, RequestType DEF IInv, Stepped
<1>2. /\ Elements(todo[r]) = {h} \cup Elements(todo'[r])
      /\ InOrder(todo'[r]) /\ Paired(todo'[r])
      /\ h = "reply" => todo'[r] # <<>> /\ Head(todo'[r]) = "test"
  BY <1>1, HeadAndTail, TailInOrder DEF Stepped, HandlerOK
<1>3. Purpose(r)' \subseteq Purpose(r) /\ Purpose(r) \subseteq Change
  BY SamePurpose, PurposeIsChange
<1>4. ASSUME NEW x \in Purpose(r)' PROVE x \in did'[r] \cup LeftToDo(r)'
  <2>1. x \in did[r] \cup LeftToDo(r) /\ x \in Change
    BY <1>1, <1>3, <1>4 DEF HandlerOK, Stepped
  <2>2. CASE x \in did[r]
    BY <2>2
  <2>3. CASE x \in Elements(todo[r])
    BY <1>2, <2>1, <2>3 DEF LeftToDo
  <2>4. CASE x = "post" /\ "reply" \in Elements(todo[r])
    <3>1. CASE h = "reply"
      BY <1>2, <2>4, <3>1 DEF LeftToDo, At, Stepped
    <3>2. CASE h # "reply"
      BY <1>2, <2>4, <3>2 DEF LeftToDo
    <3> QED
      BY <3>1, <3>2
  <2>5. CASE At(r, "test") /\ err[r] # "nil"
    BY <2>5 DEF At, Stepped
  <2> QED
    BY <2>1, <2>2, <2>3, <2>4, <2>5 DEF LeftToDo
<1> QED
  BY <1>1, <1>2, <1>4 DEF HandlerOK, Stepped, SameRequest

LEMMA SteppedFiles ==
    ASSUME IInv, NEW r \in Request, SameRequest(r), FilesStay(r), answer'[r] # "idle",
           Elements(todo'[r]) \cap {"comment", "files"} \subseteq Elements(todo[r]),
           err'[r] = err[r] \/ job[r] # "test" \/ overlapped'[r],
           overlapped[r] => overlapped'[r]
    PROVE  JobOK(r)' /\ NoticeAt(r)'
<1>1. JobOK(r) /\ NoticeAt(r)
  BY EachRequest DEF RequestOK
<1>2. Elements(left'[r]) = Elements(left[r])
  BY DEF FilesStay
<1>3. JobOK(r)'
  BY <1>1, <1>2 DEF JobOK, FilesStay, SameRequest
<1>4. NoticeAt(r)'
  BY <1>1 DEF NoticeAt, FilesStay, SameRequest
<1> QED
  BY <1>3, <1>4

\* A step leaves what was done in order, whether the handler goes on or ends.
LEMMA HistoryOK ==
    ASSUME IInv, NEW r \in Request, answer[r] = "running", todo[r] # <<>>,
           NEW h, h = Head(todo[r]), h # "match",
           op'[r] = op[r], choice'[r] = choice[r], offered'[r] = offered[r],
           NEW x, x = IF h = "reply" THEN "post" ELSE h,
           did'[r] \in {did[r], did[r] \cup {x}},
           todo'[r] \in {Tail(todo[r]), <<>>}
    PROVE  DoneInOrder(r)' /\ PartialAt(r)' /\ MatchOK(r)'
<1>1. /\ HandlerOK(r) /\ DoneInOrder(r) /\ PartialAt(r) /\ MatchOK(r)
      /\ op[r] \in Asked /\ todo[r] \in Seq(Step)
  BY Requested, EachRequest, RequestType DEF RequestOK, Active, IInv
<1>2. /\ Elements(todo[r]) = {h} \cup Elements(Tail(todo[r]))
      /\ \A y \in Elements(Tail(todo[r])) : <<y, h>> \notin Before
      /\ \A y \in Elements(todo[r]) : OfKind(y, op[r].kind)
  BY <1>1, HeadAndTail, TailInOrder DEF HandlerOK
<1>3. Elements(<<>>) = {}
  BY DEF Elements
<1>4. /\ Elements(todo'[r]) \subseteq Elements(Tail(todo[r]))
      /\ Elements(todo'[r]) \in {Elements(Tail(todo[r])), {}}
  BY <1>3
<1>5. Purpose(r) \subseteq did[r] \cup LeftToDo(r)
  BY <1>1 DEF HandlerOK
<1>6. OfKind(h, op[r].kind)
  BY <1>2
<1>7. ASSUME NEW y \in Purpose(r), y # "post", <<y, h>> \in Before, y # h PROVE y \in did[r]
  BY <1>2, <1>5, <1>7 DEF LeftToDo
<1>8. PartialAt(r)'
  <2>1. ASSUME "post" \in did'[r], op[r].kind = "create" PROVE "create" \in did'[r]
    <3>1. CASE "post" \in did[r]
      BY <1>1, <2>1, <3>1 DEF PartialAt
    <3>2. CASE "post" \notin did[r]
      <4>1. h = "post"
        BY <1>6, <2>1, <3>2 DEF OfKind
      <4>2. "create" \in Purpose(r)
        BY <2>1 DEF Purpose
      <4> QED
        BY <1>7, <4>1, <4>2 DEF Before
    <3> QED
      BY <3>1, <3>2
  <2>2. ASSUME "post" \in did'[r], op[r].kind = "attach" PROVE "comment" \in did'[r]
    <3>1. CASE "post" \in did[r]
      BY <1>1, <2>2, <3>1 DEF PartialAt
    <3>2. CASE "post" \notin did[r]
      <4>1. h = "reply"
        BY <1>6, <2>2, <3>2 DEF OfKind
      <4>2. "comment" \in Purpose(r)
        BY <2>2 DEF Purpose
      <4> QED
        BY <1>7, <4>1, <4>2 DEF Before
    <3> QED
      BY <3>1, <3>2
  <2>3. ASSUME "assign" \in did'[r], op[r].to # Nothing PROVE "transition" \in did'[r]
    <3>1. CASE "assign" \in did[r]
      BY <1>1, <2>3, <3>1 DEF PartialAt
    <3>2. CASE "assign" \notin did[r]
      <4>1. h = "assign"
        BY <2>3, <3>2
      <4>2. op[r].kind = "update"
        BY <1>1, <2>3 DEF HandlerOK
      <4>3. "transition" \in Purpose(r)
        BY <2>3, <4>2 DEF Purpose
      <4> QED
        BY <1>7, <4>1, <4>3 DEF Before
    <3> QED
      BY <3>1, <3>2
  <2> QED
    BY <2>1, <2>2, <2>3 DEF PartialAt
<1>9. DoneInOrder(r)'
  <2>1. ASSUME "post" \in did'[r]
        PROVE  Elements(todo'[r]) \cap {"create", "comment", "reply"} = {}
    <3>1. CASE "post" \in did[r]
      BY <1>1, <1>2, <1>4, <3>1 DEF DoneInOrder
    <3>2. CASE h = "post"
      <4>1. "create" \notin Elements(Tail(todo[r]))
        BY <1>2, <3>2 DEF Before
      <4>2. op[r].kind \in {"create", "share"}
        BY <1>6, <3>2 DEF OfKind
      <4>3. "comment" \notin Elements(todo[r]) /\ "reply" \notin Elements(todo[r])
        BY <1>2, <4>2 DEF OfKind
      <4> QED
        BY <1>2, <1>4, <4>1, <4>3
    <3>3. CASE h = "reply"
      <4>1. /\ "comment" \notin Elements(Tail(todo[r]))
            /\ "reply" \notin Elements(Tail(todo[r]))
        BY <1>2, <3>3 DEF Before
      <4>2. op[r].kind = "attach"
        BY <1>6, <3>3 DEF OfKind
      <4>3. "create" \notin Elements(todo[r])
        BY <1>2, <4>2 DEF OfKind
      <4> QED
        BY <1>2, <1>4, <4>1, <4>3
    <3> QED
      BY <2>1, <3>1, <3>2, <3>3
  <2>2. ASSUME "assign" \in did'[r] PROVE "transition" \notin Elements(todo'[r])
    <3>1. "assign" \in did[r] \/ h = "assign"
      BY <2>2
    <3> QED
      BY <1>1, <1>2, <1>4, <3>1 DEF DoneInOrder, Before
  <2>3. ASSUME "transition" \in did'[r]
        PROVE  /\ Elements(todo'[r]) \cap {"match", "findDone"} = {}
               /\ OfKind("transition", op[r].kind)
    <3>1. CASE "transition" \in did[r]
      BY <1>1, <1>2, <1>4, <3>1 DEF DoneInOrder
    <3>2. CASE "transition" \notin did[r]
      <4>1. h = "transition"
        BY <2>3, <3>2
      <4>2. /\ "match" \notin Elements(Tail(todo[r]))
            /\ "findDone" \notin Elements(Tail(todo[r]))
        BY <1>2, <4>1 DEF Before
      <4> QED
        BY <1>4, <1>6, <4>1, <4>2
    <3> QED
      BY <3>1, <3>2
  <2> QED
    BY <2>1, <2>2, <2>3 DEF DoneInOrder
<1>10. MatchOK(r)'
  <2> SUFFICES ASSUME "transition" \in did'[r] \cup Elements(todo'[r]),
                      "match" \notin Elements(todo'[r]), op[r].kind # "update"
               PROVE  Matching(offered[r], op[r].name) = {choice[r]}
    BY <1>1 DEF MatchOK
  <2>1. "transition" \in did[r] \cup Elements(todo[r])
    BY <1>2, <1>4
  <2>2. "match" \notin Elements(todo[r])
    <3>1. CASE "transition" \in did[r]
      BY <1>1, <3>1 DEF DoneInOrder
    <3>2. CASE "transition" \notin did[r] /\ h = "transition"
      BY <1>2, <3>2 DEF Before
    <3>3. CASE "transition" \notin did[r] /\ h # "transition"
      <4>1. todo'[r] = Tail(todo[r])
        BY <1>3, <3>3
      <4> QED
        BY <1>2, <4>1
    <3> QED
      BY <3>1, <3>2, <3>3
  <2> QED
    BY <1>1, <2>1, <2>2 DEF MatchOK
<1> QED
  BY <1>8, <1>9, <1>10

\* Nothing more was done, and no step is left.
LEMMA QuietHistory ==
    ASSUME IInv, NEW r \in Request, answer[r] # "idle",
           op'[r] = op[r], choice'[r] = choice[r], offered'[r] = offered[r],
           did'[r] = did[r], todo'[r] = <<>>
    PROVE  DoneInOrder(r)' /\ PartialAt(r)' /\ MatchOK(r)'
<1>1. DoneInOrder(r) /\ PartialAt(r) /\ MatchOK(r) /\ op[r] # Nothing
  BY Requested, EachRequest DEF RequestOK, Active
<1>2. Elements(todo'[r]) = {}
  BY DEF Elements
<1>3. DoneInOrder(r)' /\ PartialAt(r)'
  BY <1>1, <1>2 DEF DoneInOrder, PartialAt
<1>4. MatchOK(r)'
  BY <1>1, <1>2 DEF DoneInOrder, MatchOK
<1> QED
  BY <1>3, <1>4

\* The handler has ended, with its process if the goroutine is lost.
LEMMA EndedOK ==
    ASSUME IInv, NEW r \in Request, answer[r] # "idle",
           op'[r] = op[r], todo'[r] = <<>>, answer'[r] \notin {"idle", "running"},
           answer'[r] = "ok" => Purpose(r)' \subseteq did'[r],
           overlapped'[r] = overlapped[r], err'[r] = err[r],
           job'[r] = job[r] \/ (job'[r] = "lost" /\ job[r] # "none"),
           left'[r] = left[r], attached'[r] = attached[r],
           reported'[r] = reported[r], listed'[r] = listed[r],
           DoneInOrder(r)', PartialAt(r)', MatchOK(r)'
    PROVE  RequestOK(r)'
<1>1. HandlerOK(r) /\ JobOK(r) /\ NoticeAt(r) /\ op[r] # Nothing
  BY Requested, EachRequest DEF RequestOK
<1>2. Elements(todo'[r]) = {} /\ Len(todo'[r]) = 0
  BY DEF Elements
<1>3. HandlerOK(r)'
  BY <1>1, <1>2 DEF HandlerOK, InOrder, Paired
<1>4. Elements(left'[r]) = Elements(left[r])
  OBVIOUS
<1>5. JobOK(r)'
  BY <1>1, <1>2, <1>4 DEF JobOK
<1>6. NoticeAt(r)'
  BY <1>1 DEF NoticeAt
<1> QED
  BY <1>3, <1>5, <1>6 DEF RequestOK

\* The handler has made a step that does not start the goroutine.
LEMMA SteppedOK ==
    ASSUME IInv, NEW r \in Request, NEW h, Stepped(r, h), h # "match",
           op'[r] = op[r], choice'[r] = choice[r], offered'[r] = offered[r], FilesStay(r),
           NEW x, x = IF h = "reply" THEN "post" ELSE h,
           did'[r] \in {did[r], did[r] \cup {x}}, h \in Change => h \in did'[r],
           err'[r] = err[r] \/ (h = "reply" /\ (job[r] # "test" \/ overlapped'[r])),
           h = "reply" => "post" \in did'[r] \/ err'[r] # "nil",
           h = "test" => err[r] = "nil",
           overlapped[r] => overlapped'[r]
    PROVE  RequestOK(r)'
<1>1. op[r] \in Asked /\ op[r] # Nothing /\ todo[r] \in Seq(Step)
  BY Requested, RequestType DEF IInv, Stepped
<1>2. SameRequest(r)
  BY <1>1 DEF SameRequest
<1>3. HandlerOK(r)'
  BY <1>2, SteppedHandler
<1>4. Elements(todo'[r]) \subseteq Elements(todo[r])
  BY <1>1, HeadAndTail DEF Stepped
<1>5. JobOK(r)' /\ NoticeAt(r)'
  BY <1>2, <1>4, SteppedFiles DEF Stepped
<1>6. DoneInOrder(r)' /\ PartialAt(r)' /\ MatchOK(r)'
  BY HistoryOK DEF Stepped
<1> QED
  BY <1>3, <1>5, <1>6 DEF RequestOK

-----------------------------------------------------------------------------
(* The handlers' steps                                                     *)

LEMMA Advanced ==
    ASSUME IInv, NEW r \in Request, NEW h, At(r, h), Advance(r)
    PROVE  /\ todo' \in [Request -> Seq(Step)] /\ answer' = answer
           /\ Stepped(r, h)
           /\ \A q \in Request \ {r} : todo'[q] = todo[q]
<1>1. todo \in [Request -> Seq(Step)] /\ todo[r] # <<>> /\ Tail(todo[r]) \in Seq(Step)
  BY HeadAndTail DEF IInv, TypeOK, At
<1> QED
  BY <1>1 DEF Advance, At, Stepped

LEMMA Ended ==
    ASSUME IInv, NEW r \in Request, answer[r] = "running", NEW a \in {"ok", "error", "blank"},
           End(r, a)
    PROVE  /\ todo' \in [Request -> Seq(Step)] /\ todo'[r] = <<>> /\ answer'[r] = a
           /\ answer' \in [Request -> {"idle", "running", "ok", "error", "blank", "panic", "lost"}]
           /\ \A q \in Request \ {r} : todo'[q] = todo[q] /\ answer'[q] = answer[q]
<1>1. /\ todo \in [Request -> Seq(Step)] /\ <<>> \in Seq(Step)
      /\ answer \in [Request -> {"idle", "running", "ok", "error", "blank", "panic", "lost"}]
  BY DEF IInv, TypeOK
<1> QED
  BY <1>1 DEF End

\* A step that changes nothing but the handler's place
LEMMA OnlyAdvances ==
    ASSUME IInv, NEW r \in Request, NEW h, At(r, h), Advance(r),
           h \notin Change \cup {"match", "reply"}, h = "test" => err[r] = "nil",
           UNCHANGED <<environment, issue, op, choice, offered, err, files, did, overlapped>>
    PROVE  IInv'
<1> USE DEF environment, files
<1>1. /\ todo' \in [Request -> Seq(Step)] /\ answer' = answer /\ Stepped(r, h)
      /\ \A q \in Request \ {r} : todo'[q] = todo[q]
  BY Advanced
<1>2. TypeOK'
  BY <1>1 DEF IInv, TypeOK
<1>3. RequestOK(r)'
  <2> DEFINE x == IF h = "reply" THEN "post" ELSE h
  <2>1. FilesStay(r) /\ did'[r] \in {did[r], did[r] \cup {x}}
    BY DEF FilesStay
  <2> HIDE DEF x
  <2> QED
    BY <1>1, <2>1, SteppedOK DEF x
<1>4. \A q \in Request \ {r} : Still(q)
  BY <1>1 DEF Still
<1> QED
  BY <1>2, <1>3, <1>4, OneMoves

\* A handler that ends and changes nothing else
LEMMA OnlyEnds ==
    ASSUME IInv, NEW r \in Request, answer[r] = "running", NEW a \in {"ok", "error", "blank"},
           End(r, a), a = "ok" => Purpose(r) \subseteq did[r],
           UNCHANGED <<environment, issue, op, choice, offered, err, files, did, overlapped>>
    PROVE  IInv'
<1> USE DEF environment, files
<1>1. /\ todo' \in [Request -> Seq(Step)] /\ todo'[r] = <<>> /\ answer'[r] = a
      /\ answer' \in [Request -> {"idle", "running", "ok", "error", "blank", "panic", "lost"}]
      /\ \A q \in Request \ {r} : todo'[q] = todo[q] /\ answer'[q] = answer[q]
  BY Ended
<1>2. TypeOK'
  BY <1>1 DEF IInv, TypeOK
<1>3. RequestOK(r)'
  <2>1. DoneInOrder(r)' /\ PartialAt(r)' /\ MatchOK(r)'
    BY <1>1, QuietHistory
  <2>2. Purpose(r)' = Purpose(r)
    BY DEF Purpose
  <2> QED
    BY <1>1, <2>1, <2>2, EndedOK
<1>4. \A q \in Request \ {r} : Still(q)
  BY <1>1 DEF Still
<1> QED
  BY <1>2, <1>3, <1>4, OneMoves

LEMMA EndOfProcess ==
    ASSUME IInv, NEW r, r \in Request => answer[r] = "running", ProcessEnds(r)
    PROVE  IInv'
<1> USE DEF environment, files
<1>1. TypeOK'
  <2>1. <<>> \in Seq(Step)
    OBVIOUS
  <2> QED
    BY <2>1 DEF ProcessEnds, IInv, TypeOK
<1>2. ASSUME NEW q \in Request PROVE RequestOK(q)'
  <2>1. /\ todo'[q] = <<>> /\ op' = op /\ choice' = choice /\ offered' = offered /\ err' = err
        /\ did' = did /\ overlapped' = overlapped /\ left' = left /\ attached' = attached
        /\ reported' = reported /\ listed' = listed
        /\ answer'[q] = (IF q = r THEN "panic"
                         ELSE IF answer[q] = "running" THEN "lost" ELSE answer[q])
        /\ job'[q] = (IF job[q] \in {"none", "done"} THEN job[q] ELSE "lost")
    BY DEF ProcessEnds
  <2>2. HandlerOK(q) /\ JobOK(q) /\ RequestOK(q)
    BY EachRequest DEF RequestOK
  <2>3. CASE answer[q] = "idle"
    <3>1. Still(q)
      BY <2>1, <2>2, <2>3 DEF Still, HandlerOK, JobOK
    <3> QED
      BY <2>2, <3>1, StillOK
  <2>4. CASE answer[q] # "idle"
    <3>1. DoneInOrder(q)' /\ PartialAt(q)' /\ MatchOK(q)'
      BY <2>1, <2>4, QuietHistory
    <3>2. answer'[q] = "ok" => Purpose(q)' \subseteq did'[q]
      BY <2>1, <2>2 DEF HandlerOK, Purpose
    <3>3. answer'[q] \notin {"idle", "running"}
      BY <2>1, <2>4
    <3>4. job'[q] = job[q] \/ (job'[q] = "lost" /\ job[q] # "none")
      BY <2>1
    <3> QED
      BY <2>1, <2>4, <3>1, <3>2, <3>3, <3>4, EndedOK
  <2> QED
    BY <2>3, <2>4
<1> QED
  BY <1>1, <1>2 DEF IInv, RequestOK, PartialInOrder, PartialAt, CommentOrNotice, NoticeAt

\* A new request: its handler has all its steps to make.
LEMMA SubmitKeeps ==
    ASSUME IInv, NEW r \in Request, NEW o \in Op, Submit(r, o)
    PROVE  IInv'
<1> USE DEF Submit, environment, files
<1>1. /\ op'[r] = o /\ todo'[r] = Steps(o) /\ answer'[r] = "running" /\ o \in Asked /\ o # Nothing
      /\ Steps(o) \in Seq(Step)
      /\ \A q \in Request \ {r} : Still(q)
  BY StepsOK, IssueAssumption DEF IInv, TypeOK, Op, Still
<1>2. TypeOK'
  BY <1>1 DEF IInv, TypeOK
<1>3. /\ answer[r] = "idle" /\ HandlerOK(r) /\ JobOK(r) /\ did[r] = {} /\ choice[r] = Nothing
      /\ job[r] = "none"
  BY EachRequest DEF RequestOK, HandlerOK, JobOK
<1>4. /\ InOrder(Steps(o)) /\ Paired(Steps(o)) /\ Serves(o, Elements(Steps(o)))
      /\ \A step \in Elements(Steps(o)) : OfKind(step, o.kind)
  BY StepsOK
<1>5. HandlerOK(r)'
  <2>1. Purpose(r)' \subseteq LeftToDo(r)'
    BY <1>1, <1>4 DEF Purpose, LeftToDo, Serves
  <2>2. o.to # Nothing => o.kind = "update"
    BY DEF Op
  <2> QED
    BY <1>1, <1>3, <1>4, <2>1, <2>2 DEF HandlerOK
<1>6. DoneInOrder(r)' /\ PartialAt(r)' /\ NoticeAt(r)'
  BY <1>3 DEF DoneInOrder, PartialAt, NoticeAt
<1>7. MatchOK(r)'
  <2>1. CASE "transition" \in Elements(Steps(o)) /\ o.kind # "update"
    <3>1. o.kind \in {"button", "transition", "resolution"}
      BY <1>4, <2>1 DEF OfKind
    <3>2. "match" \in Elements(Steps(o))
      BY <1>4, <3>1 DEF Serves
    <3> QED
      BY <1>1, <1>3, <3>1, <3>2 DEF MatchOK
  <2>2. CASE ~("transition" \in Elements(Steps(o)) /\ o.kind # "update")
    BY <1>1, <1>3, <2>2 DEF MatchOK
  <2> QED
    BY <2>1, <2>2
<1>8. JobOK(r)'
  BY <1>3, <1>1 DEF JobOK
<1> QED
  BY <1>1, <1>2, <1>5, <1>6, <1>7, <1>8, OneMoves DEF RequestOK

LEMMA AnswerKeeps ==
    ASSUME IInv, NEW r \in Request, Answer(r)
    PROVE  IInv'
<1>1. Purpose(r) \subseteq did[r]
  <2>1. Purpose(r) \subseteq did[r] \cup LeftToDo(r) /\ Elements(todo[r]) = {}
    BY DEF Answer, IInv, HandlerOK, Elements
  <2> QED
    BY <2>1 DEF LeftToDo, At, Answer
<1> QED
  BY <1>1, OnlyEnds DEF Answer

LEMMA FailKeeps ==
    ASSUME IInv, NEW r \in Request, Fail(r)
    PROVE  IInv'
<1>1. CASE Head(todo[r]) = "issues"
  BY <1>1, OnlyEnds DEF Fail
<1>2. CASE Head(todo[r]) # "issues"
  BY <1>2, OnlyEnds DEF Fail
<1> QED
  BY <1>1, <1>2

LEMMA ClientKeeps ==
    ASSUME IInv, NEW r \in Request, Client(r)
    PROVE  IInv'
<1>1. "client" \notin Change \cup {"match", "reply", "test"}
  BY DEF Change
<1> QED
  BY <1>1, OnlyAdvances DEF Client

LEMMA ReadOnlyKeeps ==
    ASSUME IInv, NEW r \in Request, ReadOnly(r)
    PROVE  IInv'
<1>1. PICK step \in Read \cup {"issues"} : At(r, step)
  BY DEF ReadOnly
<1>2. step \notin Change \cup {"match", "reply", "test"}
  BY DEF Change, Read
<1> QED
  BY <1>1, <1>2, OnlyAdvances DEF ReadOnly

\* The projects again, without their issue types: for this nothing is changed.
LEMMA ListAgainKeeps ==
    ASSUME IInv, NEW r \in Request, ListAgain(r)
    PROVE  IInv'
<1> USE DEF ListAgain, environment, files
<1> DEFINE s == <<"client", "projectsOnly">>
<1>1. /\ s \in Seq(Step) /\ Elements(s) = {"client", "projectsOnly"} /\ InOrder(s) /\ Paired(s)
  <2>1. Chunk(s, {"client", "projectsOnly"})
    BY ShortChunks DEF Step, Read, Own, Before
  <2> QED
    BY <2>1 DEF Chunk, Paired
<1>2. /\ todo' \in [Request -> Seq(Step)] /\ todo'[r] = s
      /\ \A q \in Request \ {r} : Still(q)
  BY <1>1 DEF IInv, TypeOK, Still
<1> HIDE DEF s
<1>3. TypeOK'
  BY <1>2 DEF IInv, TypeOK
<1>4. /\ answer[r] = "running" /\ op[r] \in Asked /\ HandlerOK(r) /\ DoneInOrder(r) /\ MatchOK(r)
      /\ PartialAt(r) /\ todo[r] \in Seq(Step) /\ todo[r] # <<>> /\ Head(todo[r]) = "projects"
  BY Requested, EachRequest, RequestType DEF RequestOK, Active, At, IInv
<1>5. op[r].kind = "projects"
  BY <1>4, HeadAndTail DEF HandlerOK, OfKind
<1>6. HandlerOK(r)'
  <2>1. Purpose(r)' = {}
    BY <1>5 DEF Purpose
  <2>2. \A step \in Elements(s) : OfKind(step, op[r].kind)
    BY <1>1 DEF OfKind
  <2> QED
    BY <1>1, <1>2, <1>4, <2>1, <2>2 DEF HandlerOK
<1>7. DoneInOrder(r)' /\ PartialAt(r)'
  BY <1>1, <1>2, <1>4 DEF DoneInOrder, PartialAt
<1>8. MatchOK(r)'
  BY <1>1, <1>2, <1>4, <1>5 DEF MatchOK, DoneInOrder, OfKind
<1>9. JobOK(r)' /\ NoticeAt(r)'
  <2>1. SameRequest(r) /\ FilesStay(r)
    BY <1>4 DEF SameRequest, FilesStay
  <2> QED
    BY <1>1, <1>2, <1>4, <2>1, SteppedFiles
<1> QED
  BY <1>2, <1>3, <1>6, <1>7, <1>8, <1>9, OneMoves DEF RequestOK

\* The steps that find the transition or the account: nothing is done yet.
LEMMA FoundOK ==
    ASSUME IInv, NEW r \in Request, NEW h \in {"findDone", "match", "search"}, Stepped(r, h),
           SameRequest(r), err'[r] = err[r], overlapped'[r] = overlapped[r], FilesStay(r),
           did'[r] = did[r], MatchOK(r)'
    PROVE  RequestOK(r)'
<1>1. /\ DoneInOrder(r) /\ PartialAt(r) /\ op[r] \in Asked /\ op[r] # Nothing
      /\ todo[r] \in Seq(Step)
  BY Requested, EachRequest, RequestType DEF RequestOK, Stepped, IInv
<1>2. Elements(todo'[r]) \subseteq Elements(todo[r])
  BY <1>1, HeadAndTail DEF Stepped
<1>3. HandlerOK(r)'
  <2>1. h \notin Change \cup {"reply", "test"}
    BY DEF Change
  <2> QED
    BY <2>1, SteppedHandler
<1>4. DoneInOrder(r)' /\ PartialAt(r)'
  BY <1>1, <1>2 DEF DoneInOrder, PartialAt, SameRequest
<1>5. JobOK(r)' /\ NoticeAt(r)'
  BY <1>2, SteppedFiles DEF Stepped
<1> QED
  BY <1>3, <1>4, <1>5 DEF RequestOK

\* What is known of the request at such a step
LEMMA AtHead ==
    ASSUME IInv, NEW r \in Request, NEW h, At(r, h)
    PROVE  /\ op[r] \in Asked /\ op[r] # Nothing /\ OfKind(h, op[r].kind)
           /\ HandlerOK(r) /\ DoneInOrder(r) /\ MatchOK(r) /\ PartialAt(r) /\ JobOK(r) /\ NoticeAt(r)
           /\ todo[r] \in Seq(Step) /\ Elements(todo[r]) = {h} \cup Elements(Tail(todo[r]))
           /\ \A step \in Elements(Tail(todo[r])) : <<step, h>> \notin Before
           /\ \A step \in Elements(todo[r]) : OfKind(step, op[r].kind)
<1>1. /\ HandlerOK(r) /\ DoneInOrder(r) /\ MatchOK(r) /\ PartialAt(r) /\ JobOK(r) /\ NoticeAt(r)
      /\ op[r] \in Asked /\ op[r] # Nothing /\ todo[r] \in Seq(Step)
  BY Requested, EachRequest, RequestType DEF RequestOK, Active, At, IInv
<1>2. /\ Elements(todo[r]) = {h} \cup Elements(Tail(todo[r]))
      /\ \A step \in Elements(Tail(todo[r])) : <<step, h>> \notin Before
  BY <1>1, HeadAndTail, TailInOrder DEF HandlerOK, At
<1> QED
  BY <1>1, <1>2 DEF HandlerOK

LEMMA FindDoneKeeps ==
    ASSUME IInv, NEW r \in Request, FindDone(r)
    PROVE  IInv'
<1> USE DEF FindDone, environment, files
<1>1. /\ todo' \in [Request -> Seq(Step)] /\ answer' = answer /\ Stepped(r, "findDone")
      /\ \A q \in Request \ {r} : todo'[q] = todo[q]
  BY Advanced
<1>2. /\ op[r] \in Asked /\ HandlerOK(r) /\ DoneInOrder(r) /\ OfKind("findDone", op[r].kind)
      /\ Elements(todo[r]) = {"findDone"} \cup Elements(Tail(todo[r]))
  BY AtHead
<1>3. /\ op' \in [Request -> Asked \cup {Nothing}] /\ SameRequest(r)
      /\ \A q \in Request \ {r} : op'[q] = op[q]
  <2>1. [op[r] EXCEPT !.name = Done] \in Asked
    BY <1>2, IssueAssumption DEF Asked
  <2>2. op \in [Request -> Asked \cup {Nothing}]
    BY DEF IInv, TypeOK
  <2>3. op'[r] = [op[r] EXCEPT !.name = Done]
    BY <2>2
  <2>4. SameRequest(r)
    BY <1>2, <2>1, <2>3 DEF SameRequest, Asked
  <2> QED
    BY <2>1, <2>2, <2>4
<1>4. TypeOK'
  BY <1>1, <1>3 DEF IInv, TypeOK
<1>5. MatchOK(r)'
  <2>1. "match" \in Elements(todo[r])
    BY <1>2 DEF HandlerOK, Paired
  <2>2. "match" \in Elements(todo'[r])
    BY <1>1, <1>2, <2>1 DEF Stepped
  <2>3. op'[r].kind = "resolution"
    BY <1>2, <1>3 DEF OfKind, SameRequest
  <2> QED
    BY <2>2, <2>3 DEF MatchOK
<1>6. RequestOK(r)'
  <2>1. FilesStay(r)
    BY DEF FilesStay
  <2> QED
    BY <1>1, <1>3, <1>5, <2>1, FoundOK
<1>7. \A q \in Request \ {r} : Still(q)
  BY <1>1, <1>3 DEF Still
<1> QED
  BY <1>4, <1>6, <1>7, OneMoves

\* The one transition with the name the user gave
LEMMA MatchKeeps ==
    ASSUME IInv, NEW r \in Request, Match(r)
    PROVE  IInv'
<1> USE DEF Match, environment, files
<1>1. /\ todo' \in [Request -> Seq(Step)] /\ answer' = answer /\ Stepped(r, "match")
      /\ \A q \in Request \ {r} : todo'[q] = todo[q]
  BY Advanced
<1>2. PICK t \in Transition : /\ Matching(Offered, op[r].name) = {t}
                              /\ choice' = [choice EXCEPT ![r] = t]
  OBVIOUS
<1>3. /\ choice'[r] = t /\ choice' \in [Request -> Transition \cup Account \cup {Nothing}]
      /\ \A q \in Request \ {r} : choice'[q] = choice[q]
  BY <1>2 DEF IInv, TypeOK
<1>4. /\ offered'[r] = Offered /\ offered' \in [Request -> SUBSET Transition]
      /\ \A q \in Request \ {r} : offered'[q] = offered[q]
  BY DEF IInv, TypeOK, Offered
<1>5. TypeOK'
  BY <1>1, <1>3, <1>4 DEF IInv, TypeOK
<1>6. op[r] \in Asked /\ OfKind("match", op[r].kind)
  BY AtHead
<1>7. MatchOK(r)'
  <2>1. Matching(offered'[r], op'[r].name) = {choice'[r]}
    BY <1>2, <1>3, <1>4
  <2>2. op'[r].kind \in {"button", "transition", "resolution"}
    BY <1>6 DEF OfKind
  <2> QED
    BY <2>1, <2>2 DEF MatchOK, Matching
<1>8. RequestOK(r)'
  <2>1. FilesStay(r) /\ SameRequest(r)
    BY <1>6 DEF FilesStay, SameRequest
  <2> QED
    BY <1>1, <1>7, <2>1, FoundOK
<1>9. \A q \in Request \ {r} : Still(q)
  BY <1>1, <1>3, <1>4 DEF Still
<1> QED
  BY <1>5, <1>8, <1>9, OneMoves

LEMMA SearchKeeps ==
    ASSUME IInv, NEW r \in Request, Search(r)
    PROVE  IInv'
<1> USE DEF Search, environment, files
<1>1. /\ todo' \in [Request -> Seq(Step)] /\ answer' = answer /\ Stepped(r, "search")
      /\ \A q \in Request \ {r} : todo'[q] = todo[q]
  BY Advanced
<1>2. PICK a \in Account : choice' = [choice EXCEPT ![r] = a]
  OBVIOUS
<1>3. /\ choice'[r] = a /\ choice' \in [Request -> Transition \cup Account \cup {Nothing}]
      /\ \A q \in Request \ {r} : choice'[q] = choice[q]
  BY <1>2 DEF IInv, TypeOK
<1>4. TypeOK'
  BY <1>1, <1>3 DEF IInv, TypeOK
<1>5. /\ op[r] \in Asked /\ OfKind("search", op[r].kind) /\ DoneInOrder(r)
      /\ \A step \in Elements(todo[r]) : OfKind(step, op[r].kind)
      /\ Elements(todo[r]) = {"search"} \cup Elements(Tail(todo[r]))
  BY AtHead
<1>6. MatchOK(r)'
  <2>1. op[r].kind = "assign"
    BY <1>5 DEF OfKind
  <2>2. "transition" \notin did[r]
    BY <1>5, <2>1 DEF DoneInOrder, OfKind
  <2>3. "transition" \notin Elements(todo[r])
    BY <1>5, <2>1 DEF OfKind
  <2>4. "transition" \notin did'[r] \cup Elements(todo'[r])
    BY <1>1, <1>5, <2>2, <2>3 DEF Stepped
  <2> QED
    BY <1>3, <2>4 DEF MatchOK
<1>7. RequestOK(r)'
  <2>1. FilesStay(r) /\ SameRequest(r)
    BY <1>5 DEF FilesStay, SameRequest
  <2> QED
    BY <1>1, <1>6, <2>1, FoundOK
<1>8. \A q \in Request \ {r} : Still(q)
  BY <1>1, <1>3 DEF Still
<1> QED
  BY <1>4, <1>7, <1>8, OneMoves

\* The goroutine is started, for the first time: it has all the files to attach.
LEMMA StartedOK ==
    ASSUME IInv, NEW r \in Request, NEW h \in {"comment", "files"}, Stepped(r, h),
           op'[r] = op[r], choice'[r] = choice[r], offered'[r] = offered[r],
           did'[r] = (IF h = "comment" THEN did[r] \cup {h} ELSE did[r]),
           err'[r] = err[r], overlapped'[r] = overlapped[r],
           job'[r] = "files", left'[r] = (IF op[r].files THEN Files ELSE <<>>),
           attached'[r] = attached[r], reported'[r] = reported[r], listed'[r] = listed[r]
    PROVE  RequestOK(r)'
<1>1. /\ op[r] \in Asked /\ op[r] # Nothing /\ OfKind(h, op[r].kind) /\ JobOK(r)
      /\ Elements(todo[r]) = {h} \cup Elements(Tail(todo[r]))
      /\ \A step \in Elements(Tail(todo[r])) : <<step, h>> \notin Before
      /\ \A step \in Elements(todo[r]) : OfKind(step, op[r].kind)
  BY AtHead DEF Stepped, At
<1>2. SameRequest(r)
  BY <1>1 DEF SameRequest
<1>3. HandlerOK(r)'
  <2>1. h \in Change => h \in did'[r]
    BY DEF Change
  <2>2. did[r] \subseteq did'[r]
    OBVIOUS
  <2> QED
    BY <1>2, <2>1, <2>2, SteppedHandler
<1>4. DoneInOrder(r)' /\ PartialAt(r)' /\ MatchOK(r)'
  <2>1. did'[r] \in {did[r], did[r] \cup {h}}
    OBVIOUS
  <2>2. h = (IF h = "reply" THEN "post" ELSE h)
    OBVIOUS
  <2> QED
    BY <2>1, <2>2, HistoryOK DEF Stepped
<1>5. JobOK(r)'
  <2>1. job[r] = "none" /\ attached[r] = {} /\ reported[r] = {} /\ listed[r] = {}
    BY <1>1 DEF JobOK
  <2>2. Elements(todo'[r]) \cap {"comment", "files"} = {}
    BY <1>1 DEF Stepped, OfKind, Before
  <2>3. /\ Elements(left'[r]) = (IF op[r].files THEN File ELSE {})
        /\ \A i, j \in 1..Len(left'[r]) : left'[r][i] = left'[r][j] => i = j
    <3>1. CASE op[r].files
      BY <3>1, IssueAssumption DEF File
    <3>2. CASE ~op[r].files
      BY <3>2 DEF Elements
    <3> QED
      BY <3>1, <3>2
  <2>4. answer'[r] # "idle"
    BY DEF Stepped
  <2> QED
    BY <2>1, <2>2, <2>3, <2>4 DEF JobOK
<1>6. NoticeAt(r)'
  BY DEF NoticeAt
<1> QED
  BY <1>3, <1>4, <1>5, <1>6 DEF RequestOK

LEMMA Started ==
    ASSUME IInv, NEW r \in Request, op[r] \in Asked, StartJob(r)
    PROVE  /\ job'[r] = "files" /\ left'[r] = (IF op[r].files THEN Files ELSE <<>>)
           /\ job' \in [Request -> {"none", "files", "update", "test", "done", "lost"}]
           /\ left' \in [Request -> Seq(File)]
           /\ attached' = attached /\ reported' = reported /\ listed' = listed
           /\ \A q \in Request \ {r} : job'[q] = job[q] /\ left'[q] = left[q]
<1>1. /\ job \in [Request -> {"none", "files", "update", "test", "done", "lost"}]
      /\ left \in [Request -> Seq(File)]
  BY DEF IInv, TypeOK
<1>2. Files \in Seq(File) /\ <<>> \in Seq(File)
  <2>1. Files \in Seq(STRING) /\ \A i \in 1..Len(Files) : Files[i] \in File
    BY IssueAssumption DEF File, Elements
  <2> QED
    BY <2>1
<1> QED
  BY <1>1, <1>2 DEF StartJob

LEMMA AttachFilesKeeps ==
    ASSUME IInv, NEW r \in Request, AttachFiles(r)
    PROVE  IInv'
<1> USE DEF AttachFiles, environment
<1>1. /\ todo' \in [Request -> Seq(Step)] /\ answer' = answer /\ Stepped(r, "files")
      /\ \A q \in Request \ {r} : todo'[q] = todo[q]
  BY Advanced
<1>2. op[r] \in Asked
  BY AtHead
<1>3. /\ job'[r] = "files" /\ left'[r] = (IF op[r].files THEN Files ELSE <<>>)
      /\ job' \in [Request -> {"none", "files", "update", "test", "done", "lost"}]
      /\ left' \in [Request -> Seq(File)]
      /\ attached' = attached /\ reported' = reported /\ listed' = listed
      /\ \A q \in Request \ {r} : job'[q] = job[q] /\ left'[q] = left[q]
  BY <1>2, Started
<1>4. TypeOK'
  BY <1>1, <1>3 DEF IInv, TypeOK
<1>5. RequestOK(r)'
  BY <1>1, <1>3, StartedOK
<1>6. \A q \in Request \ {r} : Still(q)
  BY <1>1, <1>3 DEF Still
<1> QED
  BY <1>4, <1>5, <1>6, OneMoves

LEMMA ChangedType ==
    ASSUME IInv, NEW r \in Request, NEW step \in Change, At(r, step), Changed(r, step)
    PROVE  issue' \in [status: Status, assignee: Account \cup {Nothing}]
<1>1. issue \in [status: Status, assignee: Account \cup {Nothing}]
  BY DEF IInv, TypeOK
<1>2. op[r] \in Asked /\ OfKind(step, op[r].kind) /\ MatchOK(r)
  BY AtHead
<1>3. CASE step = "transition"
  <2>1. Target(r) \in Transition /\ issue' = [issue EXCEPT !.status = To[Target(r)]]
    BY <1>3 DEF Changed, Offered
  <2>2. To[Target(r)] \in Status
    BY <2>1, IssueAssumption
  <2> QED
    BY <1>1, <2>1, <2>2
<1>4. CASE step = "assign"
  <2>1. issue' = [issue EXCEPT !.assignee = Assignee(r)]
    BY <1>4 DEF Changed
  <2>2. Assignee(r) \in Account \cup {Nothing}
    BY <1>2, <1>4 DEF Assignee, OfKind, MatchOK, Asked
  <2> QED
    BY <1>1, <2>1, <2>2
<1>5. CASE step \notin {"transition", "assign"}
  BY <1>1, <1>5 DEF Changed
<1> QED
  BY <1>3, <1>4, <1>5

\* A call that changes something; its answer may be lost.
LEMMA DoChangeKeeps ==
    ASSUME IInv, NEW r \in Request, NEW step \in Change, DoChange(r, step)
    PROVE  IInv'
<1> USE DEF DoChange, environment
<1>1. issue' \in [status: Status, assignee: Account \cup {Nothing}]
  BY ChangedType
<1>2. /\ did'[r] = did[r] \cup {step} /\ did' \in [Request -> SUBSET Change]
      /\ \A q \in Request \ {r} : did'[q] = did[q]
  BY DEF IInv, TypeOK
<1>3. op[r] \in Asked /\ answer[r] = "running" /\ step \notin {"reply", "match", "files", "test"}
  BY AtHead DEF At, Change
<1>4. CASE Advance(r) /\ step = "comment" /\ StartJob(r)
  <2>1. /\ todo' \in [Request -> Seq(Step)] /\ answer' = answer /\ Stepped(r, step)
        /\ \A q \in Request \ {r} : todo'[q] = todo[q]
    BY <1>4, Advanced
  <2>2. /\ job'[r] = "files" /\ left'[r] = (IF op[r].files THEN Files ELSE <<>>)
        /\ job' \in [Request -> {"none", "files", "update", "test", "done", "lost"}]
        /\ left' \in [Request -> Seq(File)]
        /\ attached' = attached /\ reported' = reported /\ listed' = listed
        /\ \A q \in Request \ {r} : job'[q] = job[q] /\ left'[q] = left[q]
    BY <1>3, <1>4, Started
  <2>3. TypeOK'
    BY <1>1, <1>2, <2>1, <2>2 DEF IInv, TypeOK
  <2>4. RequestOK(r)'
    BY <1>2, <1>4, <2>1, <2>2, StartedOK
  <2>5. \A q \in Request \ {r} : Still(q)
    BY <1>2, <2>1, <2>2 DEF Still
  <2> QED
    BY <2>3, <2>4, <2>5, OneMoves
<1>5. CASE Advance(r) /\ UNCHANGED files
  <2>1. /\ todo' \in [Request -> Seq(Step)] /\ answer' = answer /\ Stepped(r, step)
        /\ \A q \in Request \ {r} : todo'[q] = todo[q]
    BY <1>5, Advanced
  <2>2. TypeOK'
    BY <1>1, <1>2, <1>5, <2>1 DEF IInv, TypeOK, files
  <2>3. RequestOK(r)'
    <3>1. FilesStay(r) /\ did'[r] \in {did[r], did[r] \cup {step}}
      BY <1>2, <1>5 DEF FilesStay, files
    <3>2. step = (IF step = "reply" THEN "post" ELSE step)
      BY <1>3
    <3> QED
      BY <1>2, <1>3, <2>1, <3>1, <3>2, SteppedOK
  <2>4. \A q \in Request \ {r} : Still(q)
    BY <1>2, <1>5, <2>1 DEF Still, files
  <2> QED
    BY <2>2, <2>3, <2>4, OneMoves
<1>6. CASE End(r, "error") /\ UNCHANGED files
  <2>1. /\ todo' \in [Request -> Seq(Step)] /\ todo'[r] = <<>> /\ answer'[r] = "error"
        /\ answer' \in [Request -> {"idle", "running", "ok", "error", "blank", "panic", "lost"}]
        /\ \A q \in Request \ {r} : todo'[q] = todo[q] /\ answer'[q] = answer[q]
    BY <1>3, <1>6, Ended
  <2>2. TypeOK'
    BY <1>1, <1>2, <1>6, <2>1 DEF IInv, TypeOK, files
  <2>3. RequestOK(r)'
    <3>1. step = (IF step = "reply" THEN "post" ELSE step)
      BY <1>3
    <3>2. did'[r] \in {did[r], did[r] \cup {step}} /\ todo'[r] \in {Tail(todo[r]), <<>>}
      BY <1>2, <2>1
    <3>3. DoneInOrder(r)' /\ PartialAt(r)' /\ MatchOK(r)'
      BY <1>3, <3>1, <3>2, HistoryOK DEF At
    <3> QED
      BY <1>3, <1>6, <2>1, <3>3, EndedOK DEF files
  <2>4. \A q \in Request \ {r} : Still(q)
    BY <1>2, <1>6, <2>1 DEF Still, files
  <2> QED
    BY <2>2, <2>3, <2>4, OneMoves
<1> QED
  BY <1>4, <1>5, <1>6

\* The reply to the comment, and the error of it in the shared variable
LEMMA ReplyKeeps ==
    ASSUME IInv, NEW r \in Request, Reply(r)
    PROVE  IInv'
<1> USE DEF Reply, environment, files
<1>1. /\ todo' \in [Request -> Seq(Step)] /\ answer' = answer /\ Stepped(r, "reply")
      /\ \A q \in Request \ {r} : todo'[q] = todo[q]
  BY Advanced
<1>2. /\ overlapped' \in [Request -> BOOLEAN]
      /\ overlapped[r] => overlapped'[r]
      /\ job[r] = "test" => overlapped'[r]
      /\ \A q \in Request \ {r} : overlapped'[q] = overlapped[q]
  BY DEF IInv, TypeOK
<1>3. /\ err' \in [Request -> {"nil", "reply", "update"}] /\ did' \in [Request -> SUBSET Change]
      /\ \A q \in Request \ {r} : err'[q] = err[q] /\ did'[q] = did[q]
      /\ did'[r] \in {did[r], did[r] \cup {"post"}}
      /\ "post" \in did'[r] \/ err'[r] # "nil"
  <2>1. err \in [Request -> {"nil", "reply", "update"}] /\ did \in [Request -> SUBSET Change]
    BY DEF IInv, TypeOK
  <2>2. CASE /\ err' = [err EXCEPT ![r] = "nil"]
             /\ did' = [did EXCEPT ![r] = @ \cup {"post"}]
    <3>1. did[r] \cup {"post"} \in SUBSET Change
      BY <2>1 DEF Change
    <3> QED
      BY <2>1, <2>2, <3>1
  <2>3. CASE err' = [err EXCEPT ![r] = "reply"] /\ UNCHANGED did
    BY <2>1, <2>3
  <2> QED
    BY <2>2, <2>3
<1>4. TypeOK'
  BY <1>1, <1>2, <1>3 DEF IInv, TypeOK
<1>5. RequestOK(r)'
  <2>1. FilesStay(r) /\ "reply" \notin Change
    BY DEF FilesStay, Change
  <2>2. job[r] # "test" \/ overlapped'[r]
    BY <1>2
  <2>3. "post" = (IF "reply" = "reply" THEN "post" ELSE "reply")
    OBVIOUS
  <2> QED
    BY <1>1, <1>2, <1>3, <2>1, <2>2, <2>3, SteppedOK
<1>6. \A q \in Request \ {r} : Still(q)
  BY <1>1, <1>2, <1>3 DEF Still
<1> QED
  BY <1>4, <1>5, <1>6, OneMoves

LEMMA TestReplyKeeps ==
    ASSUME IInv, NEW r \in Request, TestReply(r)
    PROVE  IInv'
<1>1. CASE err[r] = "nil"
  <2>1. "test" \notin Change \cup {"match", "reply"}
    BY DEF Change
  <2> QED
    BY <1>1, <2>1, OnlyAdvances DEF TestReply
<1>2. CASE err[r] # "nil"
  BY <1>2, OnlyEnds DEF TestReply, At
<1> QED
  BY <1>1, <1>2

LEMMA AttachmentKeeps ==
    ASSUME IInv, NEW r \in Request, Attachment(r)
    PROVE  IInv'
<1>1. "attachment" \notin Change \cup {"match", "reply", "test"} /\ answer[r] = "running"
  BY DEF Change, Attachment, At
<1>2. CASE /\ Advance(r)
           /\ UNCHANGED <<environment, issue, op, choice, offered, err, files, did, overlapped>>
  BY <1>1, <1>2, OnlyAdvances DEF Attachment
<1>3. CASE /\ End(r, "blank")
           /\ UNCHANGED <<environment, issue, op, choice, offered, err, files, did, overlapped>>
  BY <1>1, <1>3, OnlyEnds DEF Attachment
<1>4. CASE ProcessEnds(r)
  BY <1>1, <1>4, EndOfProcess
<1> QED
  BY <1>2, <1>3, <1>4 DEF Attachment

LEMMA NoDoneKeeps ==
    ASSUME IInv, NEW r \in Request, NoDone(r)
    PROVE  IInv'
BY EndOfProcess DEF NoDone, At

LEMMA NotifyKeeps ==
    ASSUME IInv, NEW r \in Request, Notify(r)
    PROVE  IInv'
<1>1. "notify" \notin Change \cup {"match", "reply", "test"} /\ answer[r] = "running"
  BY DEF Change, Notify, At
<1>2. CASE /\ Advance(r)
           /\ UNCHANGED <<environment, issue, op, choice, offered, err, files, did, overlapped>>
  BY <1>1, <1>2, OnlyAdvances DEF Notify
<1>3. CASE ProcessEnds(r)
  BY <1>1, <1>3, EndOfProcess
<1> QED
  BY <1>2, <1>3 DEF Notify

LEMMA StopKeeps ==
    ASSUME IInv, Stop
    PROVE  IInv'
<1>1. Nothing \notin Request
  BY IssueAssumption
<1> QED
  BY <1>1, EndOfProcess DEF Stop

-----------------------------------------------------------------------------
(* The goroutine's steps                                                   *)

\* The goroutine leaves the handler and what it did alone.
HandlerStays(r) ==
    /\ op'[r] = op[r] /\ todo'[r] = todo[r] /\ answer'[r] = answer[r]
    /\ choice'[r] = choice[r] /\ offered'[r] = offered[r] /\ did'[r] = did[r]

LEMMA HandlerStill ==
    ASSUME IInv, NEW r \in Request, HandlerStays(r), overlapped[r] => overlapped'[r],
           err'[r] = err[r] \/ ~At(r, "test") \/ overlapped'[r]
    PROVE  HandlerOK(r)' /\ DoneInOrder(r)' /\ PartialAt(r)' /\ (Active(r) => MatchOK(r))'
<1>1. HandlerOK(r) /\ DoneInOrder(r) /\ PartialAt(r) /\ (Active(r) => MatchOK(r))
  BY EachRequest DEF RequestOK
<1>2. Purpose(r)' \subseteq Purpose(r)
  BY DEF HandlerStays, Purpose
<1>3. ASSUME answer[r] = "running" PROVE Purpose(r)' \subseteq did[r] \cup LeftToDo(r)'
  <2>1. CASE At(r, "test") /\ err[r] # "nil" /\ err'[r] # err[r]
    <3>1. LeftToDo(r) \subseteq LeftToDo(r)' \cup {"post"}
      BY DEF LeftToDo, HandlerStays, At
    <3>2. /\ op[r] \in Asked /\ op[r] # Nothing /\ OfKind("test", op[r].kind)
      BY <2>1, AtHead
    <3>3. op[r].kind = "attach"
      BY <3>2 DEF OfKind
    <3>4. "post" \notin Purpose(r)'
      BY <2>1, <3>3 DEF Purpose, HandlerStays
    <3> QED
      BY <1>1, <1>2, <1>3, <3>1, <3>4 DEF HandlerOK
  <2>2. CASE ~(At(r, "test") /\ err[r] # "nil" /\ err'[r] # err[r])
    <3>1. LeftToDo(r) \subseteq LeftToDo(r)'
      BY <2>2 DEF LeftToDo, HandlerStays, At
    <3> QED
      BY <1>1, <1>2, <1>3, <3>1 DEF HandlerOK
  <2> QED
    BY <2>1, <2>2
<1>4. HandlerOK(r)'
  BY <1>1, <1>2, <1>3 DEF HandlerOK, HandlerStays
<1>5. DoneInOrder(r)' /\ PartialAt(r)'
  BY <1>1 DEF DoneInOrder, PartialAt, HandlerStays
<1>6. (Active(r) => MatchOK(r))'
  BY <1>1 DEF Active, MatchOK, HandlerStays
<1> QED
  BY <1>4, <1>5, <1>6

\* A file is attached or reported, and no longer left.
LEMMA AttachFileKeeps ==
    ASSUME IInv, NEW r \in Request, AttachFile(r)
    PROVE  IInv'
<1> USE DEF AttachFile, environment, handler
<1> DEFINE x == Head(left[r])
<1>1. /\ job[r] = "files" /\ left[r] # <<>> /\ JobOK(r)
      /\ left[r] \in Seq(File) /\ attached[r] \subseteq File
      /\ reported[r] \subseteq File \cup {"comment"} /\ "comment" \notin File
  BY RequestType, EachRequest DEF RequestOK, IInv
<1>2. /\ Tail(left[r]) \in Seq(File) /\ x \in File
      /\ Elements(left[r]) = {x} \cup Elements(Tail(left[r]))
      /\ \A i, j \in 1..Len(Tail(left[r])) : Tail(left[r])[i] = Tail(left[r])[j] => i = j
      /\ x \notin Elements(Tail(left[r]))
  <2>1. /\ Tail(left[r]) \in Seq(File) /\ x = left[r][1] /\ x \in Elements(left[r])
        /\ Len(left[r]) >= 1 /\ Len(left[r]) \in Nat
        /\ \A i \in 1..Len(Tail(left[r])) :
              Tail(left[r])[i] = left[r][i + 1] /\ i + 1 \in 1..Len(left[r])
        /\ Elements(left[r]) = {x} \cup Elements(Tail(left[r]))
    BY <1>1, HeadAndTail
  <2>2. x \in File
    BY <1>1
  <2>3. \A i, j \in 1..Len(left[r]) : left[r][i] = left[r][j] => i = j
    BY <1>1 DEF JobOK
  <2> HIDE DEF x
  <2>4. ASSUME NEW i \in 1..Len(Tail(left[r])), NEW j \in 1..Len(Tail(left[r])),
               Tail(left[r])[i] = Tail(left[r])[j]
        PROVE  i = j
    <3>1. i + 1 = j + 1
      BY <2>1, <2>3, <2>4
    <3> QED
      BY <3>1
  <2>5. ASSUME x \in Elements(Tail(left[r])) PROVE FALSE
    <3>1. PICK i \in 1..Len(Tail(left[r])) : x = Tail(left[r])[i]
      BY <2>5 DEF Elements
    <3>2. left[r][1] = left[r][i + 1] /\ 1 \in 1..Len(left[r]) /\ i + 1 \in 1..Len(left[r])
      BY <2>1, <3>1
    <3>3. 1 = i + 1
      BY <2>3, <3>2
    <3> QED
      BY <3>3
  <2> QED
    BY <2>1, <2>2, <2>4, <2>5
<1> HIDE DEF x
<1>3. /\ left' \in [Request -> Seq(File)] /\ left'[r] = Tail(left[r])
      /\ \A q \in Request \ {r} : left'[q] = left[q]
  BY <1>2 DEF IInv, TypeOK
<1>4. /\ attached' \in [Request -> SUBSET File]
      /\ reported' \in [Request -> SUBSET (File \cup {"comment"})]
      /\ \A q \in Request \ {r} : attached'[q] = attached[q] /\ reported'[q] = reported[q]
      /\ \/ attached'[r] = attached[r] \cup {x} /\ reported'[r] = reported[r]
         \/ attached'[r] = attached[r] /\ reported'[r] = reported[r] \cup {x}
  <2>1. /\ attached \in [Request -> SUBSET File]
        /\ reported \in [Request -> SUBSET (File \cup {"comment"})]
    BY DEF IInv, TypeOK
  <2>2. CASE attached' = [attached EXCEPT ![r] = @ \cup {x}] /\ UNCHANGED reported
    BY <1>2, <2>1, <2>2
  <2>3. CASE reported' = [reported EXCEPT ![r] = @ \cup {x}] /\ UNCHANGED attached
    BY <1>2, <2>1, <2>3
  <2> QED
    BY <2>2, <2>3 DEF x
<1>5. TypeOK'
  BY <1>3, <1>4 DEF IInv, TypeOK
<1>6. HandlerOK(r)' /\ DoneInOrder(r)' /\ PartialAt(r)' /\ (Active(r) => MatchOK(r))'
  BY HandlerStill DEF HandlerStays
<1>7. JobOK(r)'
  <2>1. /\ attached'[r] \cup (reported'[r] \ {"comment"}) \cup Elements(left'[r])
             = (IF op[r].files THEN File ELSE {})
        /\ attached'[r] \cap reported'[r] = {}
        /\ (attached'[r] \cup reported'[r]) \cap Elements(left'[r]) = {}
    <3>1. /\ attached[r] \cup (reported[r] \ {"comment"}) \cup Elements(left[r])
             = (IF op[r].files THEN File ELSE {})
          /\ attached[r] \cap reported[r] = {}
          /\ (attached[r] \cup reported[r]) \cap Elements(left[r]) = {}
      BY <1>1 DEF JobOK
    <3>2. x # "comment" /\ x \notin attached[r] /\ x \notin reported[r]
      BY <1>1, <1>2, <3>1
    <3> QED
      BY <1>2, <1>3, <1>4, <3>1, <3>2
  <2>2. \A i, j \in 1..Len(left'[r]) : left'[r][i] = left'[r][j] => i = j
    BY <1>2, <1>3
  <2>3. listed'[r] = {} /\ job'[r] = "files"
    BY <1>1 DEF JobOK
  <2>4. answer[r] # "idle" /\ Elements(todo[r]) \cap {"comment", "files"} = {}
    BY <1>1 DEF JobOK
  <2> QED
    BY <2>1, <2>2, <2>3, <2>4 DEF JobOK
<1>8. NoticeAt(r)'
  BY <1>1 DEF NoticeAt
<1>9. \A q \in Request \ {r} : Still(q)
  BY <1>3, <1>4 DEF Still
<1> QED
  BY <1>5, <1>6, <1>7, <1>8, <1>9, OneMoves DEF RequestOK

LEMMA FilesTriedKeeps ==
    ASSUME IInv, NEW r \in Request, FilesTried(r)
    PROVE  IInv'
<1> USE DEF FilesTried, environment, handler
<1>1. /\ job' \in [Request -> {"none", "files", "update", "test", "done", "lost"}]
      /\ job'[r] = (IF op[r].kind = "attach" /\ attached[r] # {} THEN "update" ELSE "done")
      /\ \A q \in Request \ {r} : job'[q] = job[q]
  BY DEF IInv, TypeOK
<1>2. TypeOK'
  BY <1>1 DEF IInv, TypeOK
<1>3. JobOK(r) /\ job[r] = "files" /\ left[r] = <<>>
  BY EachRequest DEF RequestOK
<1>4. HandlerOK(r)' /\ DoneInOrder(r)' /\ PartialAt(r)' /\ (Active(r) => MatchOK(r))'
  BY HandlerStill DEF HandlerStays
<1>5. JobOK(r)'
  BY <1>1, <1>3 DEF JobOK
<1>6. NoticeAt(r)'
  BY <1>1, <1>3 DEF NoticeAt, JobOK
<1>7. \A q \in Request \ {r} : Still(q)
  BY <1>1 DEF Still
<1> QED
  BY <1>2, <1>4, <1>5, <1>6, <1>7, OneMoves DEF RequestOK

\* The comment gets the names of the files, or the shared error is set.
LEMMA UpdateCommentKeeps ==
    ASSUME IInv, NEW r \in Request, UpdateComment(r)
    PROVE  IInv'
<1> USE DEF UpdateComment, environment, handler
<1>1. /\ job' \in [Request -> {"none", "files", "update", "test", "done", "lost"}]
      /\ job'[r] = "test"
      /\ \A q \in Request \ {r} : job'[q] = job[q]
  BY DEF IInv, TypeOK
<1>2. /\ overlapped' \in [Request -> BOOLEAN]
      /\ overlapped[r] => overlapped'[r]
      /\ At(r, "test") => overlapped'[r]
      /\ \A q \in Request \ {r} : overlapped'[q] = overlapped[q]
  BY DEF IInv, TypeOK
<1>3. /\ err' \in [Request -> {"nil", "reply", "update"}] /\ listed' \in [Request -> SUBSET File]
      /\ \A q \in Request \ {r} : err'[q] = err[q] /\ listed'[q] = listed[q]
      /\ err'[r] = "nil" => listed'[r] = attached[r]
  <2>1. /\ err \in [Request -> {"nil", "reply", "update"}] /\ listed \in [Request -> SUBSET File]
        /\ attached[r] \in SUBSET File
    BY DEF IInv, TypeOK
  <2>2. CASE err' = [err EXCEPT ![r] = "nil"] /\ listed' = [listed EXCEPT ![r] = attached[r]]
    BY <2>1, <2>2
  <2>3. CASE err' = [err EXCEPT ![r] = "update"] /\ UNCHANGED listed
    BY <2>1, <2>3
  <2> QED
    BY <2>2, <2>3
<1>4. TypeOK'
  BY <1>1, <1>2, <1>3 DEF IInv, TypeOK
<1>5. JobOK(r) /\ job[r] = "update"
  BY EachRequest DEF RequestOK
<1>6. HandlerOK(r)' /\ DoneInOrder(r)' /\ PartialAt(r)' /\ (Active(r) => MatchOK(r))'
  <2>1. HandlerStays(r)
    BY DEF HandlerStays
  <2> QED
    BY <1>2, <2>1, HandlerStill
<1>7. JobOK(r)'
  BY <1>1, <1>3, <1>5 DEF JobOK
<1>8. NoticeAt(r)'
  BY <1>1 DEF NoticeAt
<1>9. \A q \in Request \ {r} : Still(q)
  BY <1>1, <1>2, <1>3 DEF Still
<1> QED
  BY <1>4, <1>6, <1>7, <1>8, <1>9, OneMoves DEF RequestOK

LEMMA TestUpdateKeeps ==
    ASSUME IInv, NEW r \in Request, TestUpdate(r)
    PROVE  IInv'
<1> USE DEF TestUpdate, environment, handler
<1>1. /\ job' \in [Request -> {"none", "files", "update", "test", "done", "lost"}]
      /\ job'[r] = "done" /\ job[r] = "test"
      /\ \A q \in Request \ {r} : job'[q] = job[q]
  BY DEF IInv, TypeOK
<1>2. /\ reported' \in [Request -> SUBSET (File \cup {"comment"})]
      /\ reported'[r] = (IF err[r] = "nil" THEN reported[r] ELSE reported[r] \cup {"comment"})
      /\ \A q \in Request \ {r} : reported'[q] = reported[q]
  BY DEF IInv, TypeOK
<1>3. TypeOK'
  BY <1>1, <1>2 DEF IInv, TypeOK
<1>4. JobOK(r) /\ "comment" \notin File /\ attached[r] \subseteq File
  BY EachRequest, RequestType DEF RequestOK, IInv
<1>5. HandlerOK(r)' /\ DoneInOrder(r)' /\ PartialAt(r)' /\ (Active(r) => MatchOK(r))'
  BY HandlerStill DEF HandlerStays
<1>6. JobOK(r)'
  <2>1. left[r] = <<>> /\ Elements(left[r]) = {}
    BY <1>1, <1>4 DEF JobOK, Elements
  <2> QED
    BY <1>1, <1>2, <1>4, <2>1 DEF JobOK
<1>7. NoticeAt(r)'
  BY <1>1, <1>2, <1>4 DEF NoticeAt, JobOK
<1>8. \A q \in Request \ {r} : Still(q)
  BY <1>1, <1>2 DEF Still
<1> QED
  BY <1>3, <1>5, <1>6, <1>7, <1>8, OneMoves DEF RequestOK

-----------------------------------------------------------------------------
(* The theorems                                                            *)

LEMMA OthersKeep ==
    ASSUME IInv,
           \/ \E u \in User : Disconnect(u)
           \/ \E t \in Transition : OthersTransition(t)
           \/ UNCHANGED vars
    PROVE  IInv'
<1>1. TypeOK'
  <2>1. CASE \E u \in User : Disconnect(u)
    BY <2>1 DEF IInv, TypeOK, Disconnect, handler, files
  <2>2. CASE \E t \in Transition : OthersTransition(t)
    <3>1. PICK t \in Transition : OthersTransition(t)
      BY <2>2
    <3>2. To[t] \in Status /\ issue \in [status: Status, assignee: Account \cup {Nothing}]
      BY IssueAssumption DEF IInv, TypeOK
    <3>3. issue' \in [status: Status, assignee: Account \cup {Nothing}]
      BY <3>1, <3>2 DEF OthersTransition
    <3> QED
      BY <3>1, <3>3 DEF IInv, TypeOK, OthersTransition, environment, handler, files
  <2>3. CASE UNCHANGED vars
    BY <2>3 DEF IInv, TypeOK, vars, handler, files
  <2> QED
    BY <2>1, <2>2, <2>3
<1>2. ASSUME NEW q \in Request PROVE Still(q)
  <2>1. UNCHANGED <<handler, err, files, did, overlapped>>
    BY DEF Disconnect, OthersTransition, vars
  <2> QED
    BY <2>1 DEF Still, handler, files
<1>3. \A q \in Request : RequestOK(q)'
  BY <1>2, StillOK, EachRequest
<1> QED
  BY <1>1, <1>3 DEF IInv, RequestOK, PartialInOrder, PartialAt, CommentOrNotice, NoticeAt

LEMMA NextIInv == IInv /\ [Next]_vars => IInv'
<1> SUFFICES ASSUME IInv, [Next]_vars PROVE IInv'
  OBVIOUS
<1>1. ASSUME NEW r \in Request, NEW o \in Op, Submit(r, o) PROVE IInv'
  BY <1>1, SubmitKeeps
<1>2. ASSUME NEW r \in Request, Handle(r) PROVE IInv'
  BY <1>2, AnswerKeeps, FailKeeps, ClientKeeps, ReadOnlyKeeps, ListAgainKeeps, FindDoneKeeps,
     MatchKeeps, SearchKeeps, DoChangeKeeps, AttachFilesKeeps, ReplyKeeps, TestReplyKeeps,
     AttachmentKeeps, NoDoneKeeps, NotifyKeeps
  DEF Handle
<1>3. ASSUME NEW r \in Request, Job(r) PROVE IInv'
  BY <1>3, AttachFileKeeps, FilesTriedKeeps, UpdateCommentKeeps, TestUpdateKeeps DEF Job
<1>4. CASE Stop
  BY <1>4, StopKeeps
<1>5. CASE \/ \E u \in User : Disconnect(u)
           \/ \E t \in Transition : OthersTransition(t)
           \/ UNCHANGED vars
  BY <1>5, OthersKeep
<1> QED
  BY <1>1, <1>2, <1>3, <1>4, <1>5 DEF Next

\* Every handler keeps its steps in order: what a running request is for is
\* done or still to do, no step before one that was made is left, a transition
\* found by its name is the only match, and every file of the goroutine is
\* attached, reported or left (issue.go, command.go).
THEOREM IssuesConsistency == Spec => []IInv
BY InitIInv, NextIInv, PTL DEF Spec

\* A request that is answered with success has made every change it is for
\* (CreateIssue, AttachCommentToIssue, TransitionIssue, AssignIssue and
\* httpUpdateIssue return the first error they meet).
THEOREM SuccessIsTrue == Spec => []OkMeansDone
<1>1. IInv => OkMeansDone
  BY DEF IInv, HandlerOK, OkMeansDone
<1> QED
  BY <1>1, IssuesConsistency, PTL

\* Nothing is undone, and what a failed request leaves behind is in order: no
\* post of an issue or a comment that is not there, no assignee of an update
\* without its transition.
THEOREM PartsInOrder == Spec => []PartialInOrder
<1>1. IInv => PartialInOrder
  BY DEF IInv
<1> QED
  BY <1>1, IssuesConsistency, PTL

\* An issue is moved by name only with the one transition of that name among
\* those it was offered (findMatchingTransition).
THEOREM AlwaysMovedAsMeant == Spec => []MovedAsMeant
<1>1. ASSUME IInv PROVE MovedAsMeant
  <2> SUFFICES ASSUME NEW r \in Request, "transition" \in did[r], op[r].kind # "update"
               PROVE  Matching(offered[r], op[r].name) = {choice[r]}
    BY DEF MovedAsMeant
  <2>1. HandlerOK(r) /\ DoneInOrder(r) /\ (Active(r) => MatchOK(r))
    BY <1>1 DEF IInv
  <2>2. Active(r)
    BY <2>1 DEF Active, HandlerOK
  <2> QED
    BY <2>1, <2>2 DEF DoneInOrder, MatchOK
<1> QED
  BY <1>1, IssuesConsistency, PTL

\* When the goroutine is done, each file of the post is attached or reported to
\* the user as failed, and none is both (the loops over the files of a post in
\* CreateIssue and AttachCommentToIssue).
THEOREM FilesAlwaysAccounted == Spec => []FilesAccounted
<1>1. ASSUME IInv PROVE FilesAccounted
  <2> SUFFICES ASSUME NEW r \in Request, job[r] = "done"
               PROVE  /\ attached[r] \cup (reported[r] \ {"comment"})
                            = (IF op[r].files THEN File ELSE {})
                      /\ attached[r] \cap reported[r] = {}
    BY DEF FilesAccounted
  <2>1. JobOK(r)
    BY <1>1 DEF IInv
  <2>2. Elements(left[r]) = {}
    BY <2>1 DEF JobOK, Elements
  <2> QED
    BY <2>1, <2>2 DEF JobOK
<1> QED
  BY <1>1, IssuesConsistency, PTL

\* ... and the comment lists what is attached or the user was told that it does
\* not, unless handler and goroutine overwrote each other's error
\* (AttachCommentToIssue shares err with its goroutine).
THEOREM CommentAlwaysListsOrNotice == Spec => []CommentOrNotice
<1>1. IInv => CommentOrNotice
  BY DEF IInv
<1> QED
  BY <1>1, IssuesConsistency, PTL
==============================================================================
