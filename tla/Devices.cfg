SPECIFICATION Spec
CONSTANTS
    Mixes <- AllMixes
    MaxSteps <- Bounds
    Tasks = {1, 2}  Ids = {1}  Kinds = {"CoreSurface"}  Slots = {1}
    MaxRefs = 2  MaxPublications = 2
    Pix = {1, 2}  Colors = {0, 1}  Encoders = {1}  MaxGenerations = 8
    ScreenWidth = 3  SourceWidth = 2  Inks = {"red", "glass"}  Translucent = {"glass"}
    LayerOrders = {0, 1}  Sources = {1}
    RingSize = 2  MaxHistory = 2  MaxSequence = 2
    Apps = {1, 2}  MaxInputs = 9  MaxLookups = 1
    Callers <- TwoThreads  OpenedFirst = {"none", "audio", "sgx", "mbx"}
    Matchings = {"BSDName", "isp"}  Pages = {1, 2}  MaxObjects = 7
    Displays = {1, 2}  Cameras = {3}  Ports = {"p", "q"}
    VsyncPeriod = 2  CapturePeriod = 1  MaxNow = 6  MaxCaptures = 3
    FirmwareDevices = {"hal"}  Callbacks = {"render"}  ThreadSlots = {1, 2}  FrameSizes = {0, 1}
    MaxFrames = 1  MaxProcs = 2  MaxAudioNow = 4
    SourceIds = {1, 2}  AudioFiles = {"song", "lost"}  Unplayable = {"lost"}  ReplyPorts = {"r"}
    FileFrames = 2  FadeFrames = 1  LeadFrames = 1  Volumes = {0, 1}  MaxQueued = 4
    Listeners = {"l"}  RouteSockets = {"w"}  Protocols = {"any"}
    UserAddresses <- UserAddressesUsed  RouteKeys <- RouteKeysUsed  MaxRetained = 2  MaxPosted = 12
    Clients = {1, 2}  Fds = {1, 2}  MaxHandles = 2  MaxStreams = 2  MaxUnread = 2
    Targets = {1, 2}  Owned = {1}  Textures = {"a", "b"}  DrawnUnits <- DrawnUnitsUsed
    CommandSlots = 2  MaxBatchDraws = 2  CacheBudget = 2  PoolBudget = 1  MaxColors = 2
    Processors = {"p", "q"}  EaglObjects = {"o"}  MaxContexts = 2  MaxNames = 2
    CoreSurfaces = {"s"}
    HleThreads = {"p0", "p1"}  MainThread = "p0"
    Entries = {"arm", "thumb"}  ThumbEntries = {"thumb"}
    MaxTrampolines = 3  MaxDeferred = 2  MaxDepth = 3  MaxBirths = 2
    PhoneThreads = {"p0"}  Addresses = {1, 2, 3}  MaxDials = 2  MaxChains = 2
    Debuggees = {1, 2}  DebugSlots = {1, 2}  Sites = {0}  MaxVersion = 1  GuestProcessors = 2
    UdpSockets = {1, 2}  FixedPorts = {0}  FirstEphemeral = 7  LastPort = 8
    QueueLimit = 1  MaxDatagrams = 3  MaxDescriptors = 2
INVARIANTS
    SurfacesExact
    TouchesGoToForeground
    IoKitExact
    AudioExact
    
    GraphicsExact
    ReplacedCallsExact
    DebuggerExact
CHECK_DEADLOCK FALSE
