SPECIFICATION Spec
CONSTANTS
    i1 = i1  i2 = i2
    a1 = a1
    r1 = r1  r2 = r2
    NoAlias = NoAlias
    Nothing = Nothing
    Instance <- TwoInstances
    CloudURL <- SecondInstance
    Alias <- OneAlias
    Request <- TwoRequests
    MaxRequests = 5
    Kind = {"install", "inactive", "activate", "configure", "uninstall", "alias", "v2"}
    Licenses = {TRUE, FALSE}
    Migrated <- NotMigrated
SYMMETRY RequestSymmetry
INVARIANTS
    AliasesUnique
    OneLegacy
    InstallsKeepLicense
CHECK_DEADLOCK FALSE
