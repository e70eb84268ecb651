SPECIFICATION FairSpec
CONSTANTS
    u1 = u1  u2 = u2
    a1 = a1  a2 = a2
    s1 = s1  s2 = s2  s3 = s3
    NoUser = NoUser
    NoAccount = NoAccount
    NoSubID = NoSubID
    User <- Users
    Account <- Accounts
    SubID <- TwoSubs
    Owner <- SubOwner
    Roles <- SubRoles
    InstanceType = "cloud-oauth"
    HasJWT = FALSE
    Author = a1
    CommentAuthor = a1
    Reporter = NoAccount
    Assignee = a2
    Watchers <- OneWatcher
    Assigns = TRUE
    Expands = TRUE
    Changes = {"connect", "disconnect", "uninstall", "subscribe", "permission"}
CHECK_DEADLOCK FALSE
INVARIANTS
    MessagesOnlyToReaders
    

    
    
