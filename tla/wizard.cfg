SPECIFICATION Spec
CONSTANTS
    u1 = u1  u2 = u2
    s1 = s1  c1 = c1
    NoUser = NoUser
    NoURL = NoURL
    Idle = Idle
    User <- TwoUsers
    Admin <- OneAdmin
    ServerURL <- OneServer
    CloudURL <- OneCloud
    MaxStarts = 2
    MaxCalls = 2
CHECK_DEADLOCK FALSE
INVARIANTS
    IInv
    
    SuccessNeedsConnection
    InstalledFirst
