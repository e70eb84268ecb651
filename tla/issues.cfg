CONSTANTS
    r1 = r1
    r2 = r2
    Kinds <- MCKinds
    Request = {r1, r2}
    Kind = {"create", "attach", "button", "transition", "resolution", "assign", "unassign", "worklog", "view", "update", "share", "bot worklog", "issue", "search", "metadata", "projects", "transitions", "assignees", "permission", "parse"}
    User = {u1}
    Account = {a1}
    Status <- MCStatus
    Done = "done"
    Contains <- MCContains
    Transition <- MCTransition
    To <- MCTo
    From <- MCFrom
    Files <- MCFiles
    Nothing = Nothing
SPECIFICATION Spec
CHECK_DEADLOCK FALSE
INVARIANTS
    IInv
    OkMeansDone
    PartialInOrder
    
    
    
