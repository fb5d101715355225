SPECIFICATION Spec
CONSTANTS
    Tasks = {t1}
    Objects = {o1, o2}
    FirstName = 2
    NameStride = 1
    LastName = 3
    MaxUserReferences = 2
    CountLimit = 2
    ChosenNames = {1, 3}
    GrantedRights = {"Send", "SendOnce"}
    Increments = {1, 2}
    Decrements = {1}
INVARIANTS
    TypeOK
    EntriesExact
PROPERTY
    ImplementsIpcSpaces
