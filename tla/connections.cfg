SPECIFICATION Spec
CONSTANTS
    i1 = i1  i2 = i2
    a1 = a1  a2 = a2
    r1 = r1  r2 = r2
    NoAccount = NoAccount
    Nothing = Nothing
    Instance <- TwoInstances
    User <- TwoUsers
    Account <- TwoAccounts
    Request <- TwoRequests
    Kind = {"connect", "disconnect", "settings", "defaults", "refresh", "uninstall", "install"}
    MaxRequests = 3
    ListPerPage = 100
    OtherKeys = 3
SYMMETRY Symmetry
INVARIANTS
    AccountsProven
    ListsAgree
    NotificationsArrive
    
CHECK_DEADLOCK FALSE
