SPECIFICATION Spec
CONSTANTS
    u1 = u1  u2 = u2
    r1 = r1  r2 = r2
    server = server  oauth = oauth  connect = connect
    Nothing = Nothing
    User = {u1, u2}
    Instance = {server, oauth, connect}
    Type <- MCType
    Request = {r1, r2}
    MaxLinks = 2
    MaxVisits = 2
SYMMETRY Symmetry
INVARIANTS
    IInv
    OnlyLiveLinks
    
    
CHECK_DEADLOCK FALSE
