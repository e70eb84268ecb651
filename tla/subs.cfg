SPECIFICATION FairSpec
CONSTANTS
    r1 = r1  r2 = r2
    s1 = s1  s2 = s2
    u1 = u1  u2 = u2
    n1 = n1  n2 = n2
    e1 = e1  e2 = e2
    NoSub = NoSub
    NoID = NoID
    SubID <- TwoSubIDs
    Request <- TwoRequests
    Kind = {"create", "edit", "delete", "list"}
    User <- OneUser
    Channel <- OneUser
    DirectChannel <- OwnChannel
    Name <- OneName
    Event <- TwoEvents
    EventSets <- TwoEventSets
    Encoding = {1}
    MaxTries = 2
INVARIANTS
    StoredIndexesMatch
PROPERTIES
    AtomicSpec
    
