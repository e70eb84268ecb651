SPECIFICATION Spec
CONSTANTS
    n1 = n1  n2 = n2
    i1 = i1  i2 = i2
    Nothing = Nothing
    Node = {n1, n2}
    Instance = {i1, i2}
SYMMETRY Symmetry
INVARIANTS
    IInv
    MigrationComplete
    InstalledStay
    UninstalledStay
    RevertRestores
    
CHECK_DEADLOCK FALSE
