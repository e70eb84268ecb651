SPECIFICATION Spec
CONSTANTS
    r1 = r1  r2 = r2
    s1 = s1  s2 = s2
    u1 = u1  u2 = u2
    n1 = n1  n2 = n2
    e1 = e1  e2 = e2
    NoSub = NoSub
    NoID = NoID
    SubID <- TwoSubIDs
    Request <- TwoRequests
    Kind = {"create", "edit"}
    User <- OneUser
    Channel <- OneUser
    DirectChannel <- OwnChannel
    Name <- TwoNames
    Event <- OneEvent
    EventSets <- OneEventSet
    Encoding = {1}
    MaxTries = 2
SYMMETRY DataSymmetry
INVARIANTS
    UniqueNames
