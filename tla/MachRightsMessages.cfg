SPECIFICATION Spec
CONSTANTS
    p = p  q = q
    Tasks <- Everybody
    Objects <- TwoObjects
    FirstName = 1
    NameStride = 1
    LastName = 9
    MaxUserReferences = 9
    CountLimit = 9
    Mixes <- MessageMixes
    SharedDispositions = {"make_send"}
    MaxCarried = 1
    MaxObjects = 2
    MaxMakeSends = 1
    MaxReferences = 1
SYMMETRY TaskSymmetry
INVARIANTS
    RightsCounted
    OneReceiveRight
    NothingDangles
CHECK_DEADLOCK FALSE
