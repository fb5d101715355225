SPECIFICATION Spec
CONSTANTS
    p = p  q = q
    Tasks <- Everybody
    Objects <- ThreeObjects
    FirstName = 1
    NameStride = 1
    LastName = 9
    MaxUserReferences = 9
    CountLimit = 9
    Mixes <- RequestMixes
    SharedDispositions = {"make_send"}
    MaxCarried = 1
    MaxObjects = 3
    MaxMakeSends = 1
    MaxReferences = 1
SYMMETRY TaskSymmetry
INVARIANTS
    RequestsLive
PROPERTIES
    DeadRequestsAnswered
CHECK_DEADLOCK FALSE
