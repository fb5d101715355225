SPECIFICATION Spec
CONSTANTS
    T1 = T1
    T2 = T2
    Tasks = {T1, T2}
    Slots = {0, 1, 2}
    Controls <- Everyone
    Operations = {}
    Mixes <- SharingAndTimed
    MaxSemaphores = 2
    MaxCount = 1
INVARIANTS
    WaitsExact
PROPERTY
    SignalsEndWaits
CHECK_DEADLOCK FALSE
