SPECIFICATION Spec
CONSTANTS
    T1 = T1  T2 = T2  T3 = T3
    P1 = P1  P2 = P2  S1 = S1  S2 = S2
    Threads <- AllThreads
    Ports <- BothPorts
    PortSets <- BothSets
    NoObject = NoObject
    Operations = {}
    Mixes <- AllMixes
    MaxMessages = 2
INVARIANTS
    TopologyExact
PROPERTIES
    DeliveredInFifoOrder
    ReceivesEnd
CHECK_DEADLOCK FALSE
