SPECIFICATION EventsSpec
CONSTANTS
    v1 = v1  v2 = v2
    NoResult = NoResult
    Value <- TwoValues
    MaxItems = 2
    MaxFilters = 2
CHECK_DEADLOCK FALSE
INVARIANTS
    AssigneeNotified
    
    
