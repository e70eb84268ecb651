SPECIFICATION QueueFairSpec
CONSTANTS
    d1 = d1  d2 = d2  d3 = d3
    s1 = s1  s2 = s2
    w1 = w1  w2 = w2
    NoDelivery = NoDelivery
    Delivery <- ThreeDeliveries
    Server <- TwoServers
    Worker <- TwoWorkers
    Hanging <- OneWorker
    BufferSize = 2
INVARIANTS
    InOnePlace
    StartedInOrder
PROPERTIES
    EveryAcceptedStarts
