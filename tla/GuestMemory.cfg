SPECIFICATION Spec
CONSTANTS
    Spaces = {1, 2}
    Pages = {0, 1, 2}
    Backings = {1, 2, 3, 4, 5, 6, 7, 8, 9, 10, 11, 12}
    Files = {"f"}
    FilePages = 2
    Zero = 0
    Text = 1
    Values = {0, 1, 2}
    MaxCachedPages = 2
    Entries = {1, 2}
    Volatile = {}
    SharedRegion = {1, 2}
    PermSets = {{"read", "write"}, {"read", "execute"}}
    Stored_ = {2}
    FilesChange = TRUE
    Absent = Absent
    Lazy = Lazy
    Own = Own
    Mixes = {"fork", "share", "files", "track", "excl", "region"}
    MaxCalls = 4
    Longer = {{"fork", "track", "excl"}, {"excl"}}
INVARIANT JitEntriesSound
INVARIANT MappingsDescribed
PROPERTY StoresSeen
PROPERTY ImplementsFlatMemory
CHECK_DEADLOCK FALSE
