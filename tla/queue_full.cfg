SPECIFICATION QueueSpec
CONSTANTS
    d1 = d1  d2 = d2  d3 = d3
    s1 = s1  s2 = s2
    w1 = w1  w2 = w2
    NoDelivery = NoDelivery
    Delivery <- ThreeDeliveries
    Server <- OneServer
    Worker <- OneWorker
    Hanging <- NoWorker
    BufferSize = 1
INVARIANTS
    OkMeansAccepted
