SPECIFICATION Spec
CONSTANTS
    Pids = {1, 2}
    Slots = {1, 2}
    Signals = {"alarm", "kill"}
    IgnoredByDefault = {}
    MaxTime = 2
    MaxImages = 2
    Fds = {3, 4, 5}
    NoName = "no name"
    LockOffsets = {0, 1}
    Unbounded = 2
    NoOwner = 0
    Names = {"a", "b"}
    Inodes = {1, 2}
    Descriptions = {1, 2}
    Blocks = {1}
    MaxSize = 1
    Pairs = {1}
    Listeners = {1}
    SocketNames = {"s"}
    MaxBytes = 2
    CopyoutFaults = FALSE
    Mixes = {"files", "data", "listen", "rights", "locks", "flocks", "waits", "events", "signals", "users"}
    MaxCalls = 6
    OneMore = {"data", "flocks", "signals"}
    TwoMore = {"listen", "users"}
INVARIANT LocksExact
INVARIANT RightsBoundToBytes
INVARIANT NothingOutlivesOwner
PROPERTY OverdueWaitersWake
CHECK_DEADLOCK FALSE
