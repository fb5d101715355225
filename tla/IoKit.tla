-------------------------------- MODULE IoKit --------------------------------
(*****************************************************************************)
(* The IOKit registry (iokit.cpp): services are made when somebody looks     *)
(* for them and stay; iterators, connections and interest notifications      *)
(* are kernel ports that live as long as a task has a Send right to them.    *)
(* A connection to the audio, graphics or MBX service maps device memory     *)
(* into its task (audio, graphics and mbx service.cpp).  mach_mutex is       *)
(* held over every lookup and change, and released before pages are          *)
(* unmapped: a thread in between is in call[k].  A matching dictionary is    *)
(* the class it names, or "BSDName".                                         *)
(*                                                                           *)
(* Then the messages that the clock sends over connections: the pulses of    *)
(* the display (display/vsync.cpp) and the completions of camera captures    *)
(* (camera/service.cpp).  Both are delivered by the guest loop; a capture    *)
(* is copied under mach_mutex, its surface is written without it, and its    *)
(* completion is queued under it again (due).  Messages need of a connection *)
(* only that it is open, so they are a state machine of their own.           *)
(*****************************************************************************)
EXTENDS Integers, FiniteSets, Sequences, Lists, TLC

CONSTANTS
    Tasks,          \* process identifiers
    Callers,        \* threads: pairs of a task and a number
    OpenedFirst,    \* classes whose service a task may have opened at the start
    Matchings,      \* the matching dictionaries that are tried
    Pages,          \* addresses device memory is mapped at
    MaxObjects      \* bound of the kernel objects made

IoKitRegistryAssumption ==
    /\ \A k \in Callers : k[1] \in Tasks
    /\ Pages \subseteq Nat /\ MaxObjects \in Nat \ {0}

VARIABLES
    entry,          \* by object: iokit_services, iokit_iterators, iokit_connections,
                    \* iokit_interest_notifications
    cache,          \* the identifiers remembered beside the tables
    nextObject,     \* allocate_mach_object
    right,          \* Send rights, by task and object
    notified,       \* iokit_notifications: their owners
    device,         \* iokit_audio_, iokit_graphics_ and iokit_mbx_connections
    memory,         \* by task, the device pages that are mapped
    call,           \* by thread, a call that has let go of the lock
    exited,         \* tasks that have exited
    gone,           \* history: services that somebody closed
    stray           \* history: pages unmapped by the close of another task's connection

iokitVars == <<entry, cache, nextObject, right, notified, device, memory, call, exited, gone, stray>>

Without(f, S) == [x \in DOMAIN f \ S |-> f[x]]
Idle == [op |-> "idle"]
Objects == 1 .. MaxObjects
RootObject == 1     \* the registry's options object, there from the start

-----------------------------------------------------------------------------
(***************************************************************************)
(* Services.  lookup says how an ensure_* function finds the one it made:  *)
(* by a search of the table, by an identifier that is forgotten with the   *)
(* object (cache), by one that is also looked up (checked), or by one that *)
(* is never forgotten (sticky).  An eager one ensures its parent first,    *)
(* the others only when they have to be made.                              *)
(***************************************************************************)
PlatformExpert   == [above |-> "none", profile |-> "None", lookup |-> "search", eager |-> FALSE]
UsbDeviceMux     == [above |-> "platform", profile |-> "None", lookup |-> "search", eager |-> FALSE]
WifiBus          == [above |-> "none", profile |-> "None", lookup |-> "search", eager |-> FALSE]
WifiController   == [above |-> "bus", profile |-> "None", lookup |-> "cache", eager |-> FALSE]
WifiInterface    == [above |-> "wifi", profile |-> "None", lookup |-> "cache", eager |-> FALSE]
NetworkStack     == [above |-> "none", profile |-> "Generic", lookup |-> "search", eager |-> FALSE]
Framebuffer      == [above |-> "none", profile |-> "Display", lookup |-> "cache", eager |-> FALSE]
SurfaceRoot      == [above |-> "none", profile |-> "CoreSurface", lookup |-> "search", eager |-> FALSE]
MbxDevice        == [above |-> "platform", profile |-> "Mbx", lookup |-> "search", eager |-> TRUE]
Accelerator      == [above |-> "platform", profile |-> "Graphics", lookup |-> "search", eager |-> TRUE]
Audio2Device     == [above |-> "none", profile |-> "Audio", lookup |-> "checked", eager |-> FALSE]
CameraSensor     == [above |-> "platform", profile |-> "CameraSensor", lookup |-> "sticky", eager |-> TRUE]
CameraIsp        == [above |-> "platform", profile |-> "CameraAccelerator", lookup |-> "sticky", eager |-> TRUE]
JpegAccelerator  == [above |-> "platform", profile |-> "Jpeg", lookup |-> "sticky", eager |-> TRUE]
FileIntegrity    == [above |-> "none", profile |-> "FileIntegrity", lookup |-> "sticky", eager |-> FALSE]
BasebandService  == [above |-> "none", profile |-> "Generic", lookup |-> "sticky", eager |-> FALSE]
PowerRoot        == [above |-> "none", profile |-> "None", lookup |-> "search", eager |-> FALSE]

Catalog ==
    [platform |-> PlatformExpert, usb |-> UsbDeviceMux, bus |-> WifiBus, wifi |-> WifiController,
     interface |-> WifiInterface, stack |-> NetworkStack, lcd |-> Framebuffer,
     surfaces |-> SurfaceRoot, mbx |-> MbxDevice, sgx |-> Accelerator, audio |-> Audio2Device,
     sensor |-> CameraSensor, isp |-> CameraIsp, jpeg |-> JpegAccelerator,
     integrity |-> FileIntegrity, baseband |-> BasebandService, power |-> PowerRoot]
Classes == DOMAIN Catalog

Lineage(c) ==
    LET p == Catalog[c].above
    IN  CASE p = "none" -> <<c>>
          [] p # "none" /\ Catalog[p].above = "none" -> <<p, c>>
          [] OTHER -> <<Catalog[p].above, p, c>>

\* A world is [entry, cache, next].
Services(w, c) == {o \in DOMAIN w.entry : w.entry[o].kind = "service" /\ w.entry[o].class = c}
Found(w, c) ==
    CASE Catalog[c].lookup = "search"  -> IF Services(w, c) = {} THEN 0 ELSE CHOOSE o \in Services(w, c) : TRUE
      [] Catalog[c].lookup = "checked" -> IF w.cache[c] \in DOMAIN w.entry THEN w.cache[c] ELSE 0
      [] OTHER -> w.cache[c]

Made(w, c) ==
    [entry |-> (w.next :> [kind |-> "service", class |-> c,
                           above |-> IF Catalog[c].above = "none" THEN 0 ELSE Found(w, Catalog[c].above)])
               @@ w.entry,
     cache |-> IF Catalog[c].lookup = "search" THEN w.cache ELSE [w.cache EXCEPT ![c] = w.next],
     next  |-> w.next + 1]

MadeAlong(w, chain, eager) ==
    LET there == {i \in DOMAIN chain : Found(w, chain[i]) # 0}
        make(v, i) == IF there \cap (IF eager THEN {i} ELSE i .. Len(chain)) = {} THEN Made(v, chain[i]) ELSE v
    IN  FoldLeft(make, w, [i \in DOMAIN chain |-> i])
Ensured(w, c) == MadeAlong(w, Lineage(c), Catalog[c].eager)

\* The world after a matching dictionary is looked up, and what it matches.
Matched(v, m) ==
    LET named == IF m = "BSDName" THEN Services(v, "wifi") \cup Services(v, "interface") ELSE {Found(v, m)}
    IN  [world |-> v, queue |-> SetToSortSeq(named, LAMBDA a, b : a < b)]
populate_matching_services(w, m) ==
    Matched(Ensured(w, IF m = "BSDName" THEN "interface" ELSE m), m)

-----------------------------------------------------------------------------
IsKind(o, kind) == o \in DOMAIN entry /\ entry[o].kind = kind

\* The start of the emulator, or the state once a task has found the service of
\* a class, opened it and let go of the iterator and the service.
Opened(c) ==
    LET booted == [entry |-> (RootObject :> [kind |-> "root"]),
                   cache |-> [k \in Classes |-> 0], next |-> 2]
        first == CHOOSE t \in Tasks : \A u \in Tasks : t <= u
        with(w) == [w EXCEPT !.entry = (w.next :> [kind |-> "connection", service |-> Found(w, c),
                                                   owner |-> first]) @@ @,
                             !.next = @ + 1]
    IN  IF c = "none" THEN booted ELSE with(Ensured(booted, c))

IoKitInit ==
    /\ \E w \in {Opened(c) : c \in OpenedFirst} :
          /\ entry = w.entry /\ cache = w.cache /\ nextObject = w.next
          /\ right = [t \in Tasks |-> [o \in Objects |->
                IF o = RootObject \/ (IsKind(o, "connection") /\ entry[o].owner = t) THEN 1 ELSE 0]]
    /\ notified = {} /\ device = << >> /\ memory = [t \in Tasks |-> {}]
    /\ call = [k \in Callers |-> Idle] /\ exited = {} /\ gone = {} /\ stray = {}

Of(k) == k[1]
Free(k) == call[k] = Idle /\ Of(k) \notin exited
Names(k, o) == Free(k) /\ right[Of(k)][o] > 0
Held(t) == {o \in Objects : right[t][o] > 0}
Copyout(t, o) == [right EXCEPT ![t][o] = @ + 1]
World == [entry |-> entry, cache |-> cache, next |-> nextObject]
Fits(n) == n <= MaxObjects + 1

\* connection_user_client_profile_locked
Profile(o) ==
    IF IsKind(o, "connection") /\ IsKind(entry[o].service, "service")
    THEN Catalog[entry[entry[o].service].class].profile ELSE "none"
ConnectionOf(k, o, profiles) ==
    Names(k, o) /\ Profile(o) \in profiles /\ entry[o].owner = Of(k)

\* A new port for the caller.
NewPort(k, record) ==
    /\ Fits(nextObject + 1)
    /\ entry' = (nextObject :> record) @@ entry /\ nextObject' = nextObject + 1
    /\ right' = Copyout(Of(k), nextObject)

ServiceGetMatchingServices(k, m) ==
    \E found \in {populate_matching_services([World EXCEPT !.next = @ + 1], m)} :
        /\ Free(k) /\ Fits(found.world.next)
        /\ entry' = (nextObject :> [kind |-> "iterator", queue |-> found.queue]) @@ found.world.entry
        /\ cache' = found.world.cache /\ nextObject' = found.world.next
        /\ right' = Copyout(Of(k), nextObject)
        /\ UNCHANGED <<notified, device, memory, call, exited, gone, stray>>

ServiceAddNotification(k, m) ==
    \E found \in {populate_matching_services([World EXCEPT !.next = @ + 1], m)} :
        /\ Free(k) /\ Fits(found.world.next)
        /\ entry' = (nextObject :> [kind |-> "iterator", queue |-> found.queue]) @@ found.world.entry
        /\ cache' = found.world.cache /\ nextObject' = found.world.next
        /\ right' = Copyout(Of(k), nextObject)
        /\ notified' = notified \cup {Of(k)}
        /\ UNCHANGED <<device, memory, call, exited, gone, stray>>

\* The service it names may be gone by now.
IteratorNext(k, o) ==
    /\ Names(k, o) /\ IsKind(o, "iterator") /\ entry[o].queue # << >>
    /\ entry' = [entry EXCEPT ![o].queue = Tail(@)]
    /\ right' = Copyout(Of(k), Head(entry[o].queue))
    /\ UNCHANGED <<cache, nextObject, notified, device, memory, call, exited, gone, stray>>

RegistryIterator(k, o, upwards) ==
    LET above == IF IsKind(o, "service") /\ entry[o].above # 0 THEN <<entry[o].above>> ELSE << >>
        below == SetToSortSeq({s \in DOMAIN entry : IsKind(s, "service") /\ entry[s].above = o},
                              LAMBDA a, b : a < b)
    IN  /\ Names(k, o)
        /\ NewPort(k, [kind |-> "iterator", queue |-> IF upwards THEN above ELSE below])
        /\ UNCHANGED <<cache, notified, device, memory, call, exited, gone, stray>>

\* ServiceOpenExtended asks for a profile, ServiceOpen does not.
ServiceOpen(k, o) ==
    /\ Names(k, o) /\ IsKind(o, "service")
    /\ NewPort(k, [kind |-> "connection", service |-> o, owner |-> Of(k)])
    /\ UNCHANGED <<cache, notified, device, memory, call, exited, gone, stray>>

ServiceOpenExtended(k, o) ==
    /\ Names(k, o) /\ IsKind(o, "service") /\ Catalog[entry[o].class].profile # "None"
    /\ NewPort(k, [kind |-> "connection", service |-> o, owner |-> Of(k)])
    /\ UNCHANGED <<cache, notified, device, memory, call, exited, gone, stray>>

\* The first open of the options object makes it the power root.
handle_power_open(k) ==
    /\ Names(k, RootObject) /\ Fits(nextObject + 1)
    /\ entry' = (nextObject :> [kind |-> "connection", service |-> RootObject, owner |-> Of(k)])
                @@ IF IsKind(RootObject, "service") THEN entry
                   ELSE (RootObject :> [kind |-> "service", class |-> "power", above |-> 0]) @@ entry
    /\ nextObject' = nextObject + 1 /\ right' = Copyout(Of(k), nextObject)
    /\ UNCHANGED <<cache, notified, device, memory, call, exited, gone, stray>>

handle_interest_registration(k, o) ==
    /\ Names(k, o) /\ IsKind(o, "service")
    /\ NewPort(k, [kind |-> "interest", owner |-> Of(k)])
    /\ UNCHANGED <<cache, notified, device, memory, call, exited, gone, stray>>

-----------------------------------------------------------------------------
(***************************************************************************)
(* The end of an object.  remove_port_object_locked forgets the audio and  *)
(* MBX state of a connection, and not its graphics state.                  *)
(***************************************************************************)
CacheWithout(S) ==
    [c \in Classes |-> IF cache[c] \in S /\ Catalog[c].lookup # "sticky" THEN 0 ELSE cache[c]]
DeviceWithout(S) == Without(device, {o \in S \cap DOMAIN device : device[o].of # "Graphics"})

Transient == {"iterator", "connection", "interest"}
\* release_unreferenced_iokit_object_locked, for the objects of S.
Unreferenced(S, rights) ==
    {o \in S \cap DOMAIN entry : entry[o].kind \in Transient /\ \A t \in Tasks : rights[t][o] = 0}

RemoveObjects(S) ==
    /\ entry' = Without(entry, S) /\ cache' = CacheWithout(S) /\ device' = DeviceWithout(S)
    /\ gone' = gone \cup {o \in S : IsKind(o, "service")}

mach_port_deallocate(k, o) ==
    LET rights == [right EXCEPT ![Of(k)][o] = @ - 1]
    IN  /\ Names(k, o)
        /\ right' = rights /\ RemoveObjects(Unreferenced({o}, rights))
        /\ UNCHANGED <<nextObject, notified, memory, call, exited, stray>>

\* A message carries a copy of a Send right to another task, which had none.
SendRight(k, t, o) ==
    /\ Names(k, o) /\ t \notin exited /\ right[t][o] = 0
    /\ right' = Copyout(t, o)
    /\ UNCHANGED <<entry, cache, nextObject, notified, device, memory, call, exited, gone, stray>>

\* What ServiceClose takes from a connection before it unmaps it.
Taken(o) == IF o \in DOMAIN device THEN {device[o].slots[s] : s \in DOMAIN device[o].slots} ELSE {}
Forgotten(o) == Without(device, {o})

ServiceClose(k, o) ==
    /\ Names(k, o)
    /\ device' = Forgotten(o)
    /\ call' = [call EXCEPT ![k] = [op |-> "close", object |-> o, pages |-> Taken(o),
                                    own |-> IsKind(o, "connection") /\ entry[o].owner = Of(k)]]
    /\ UNCHANGED <<entry, cache, nextObject, right, notified, memory, exited, gone, stray>>

\* One page is unmapped, if it is mapped.
UnmapPage(k, p) ==
    /\ call[k] # Idle /\ p \in call[k].pages
    /\ memory' = [memory EXCEPT ![Of(k)] = @ \ {p}]
    /\ stray' = IF call[k].own THEN stray ELSE stray \cup {<<Of(k), p>>}
    /\ call' = [call EXCEPT ![k].pages = @ \ {p}]
    /\ UNCHANGED <<entry, cache, nextObject, right, notified, device, exited, gone>>

\* Every right dies, whatever the object is.
CloseEnds(k) ==
    /\ call[k].op = "close" /\ call[k].pages = {}
    /\ right' = [t \in Tasks |-> [right[t] EXCEPT ![call[k].object] = 0]]
    /\ RemoveObjects({call[k].object})
    /\ call' = [call EXCEPT ![k] = Idle]
    /\ UNCHANGED <<nextObject, notified, memory, exited, stray>>

UnmapEnds(k) ==
    /\ call[k].op = "unmap" /\ call[k].pages = {}
    /\ call' = [call EXCEPT ![k] = Idle]
    /\ UNCHANGED <<entry, cache, nextObject, right, notified, device, memory, exited, gone, stray>>

\* The rights of the task go, and then whatever it still owns.
OwnedBy(t) == {o \in DOMAIN entry : entry[o].kind \in {"connection", "interest"} /\ entry[o].owner = t}
ExitTask(t) ==
    LET rights == [right EXCEPT ![t] = [o \in Objects |-> 0]]
        released == Unreferenced({o \in Objects : right[t][o] > 0}, rights)
        removed == released \cup OwnedBy(t)
    IN  /\ t \notin exited /\ \A k \in Callers : Of(k) = t => call[k] = Idle
        /\ right' = [u \in Tasks |-> [o \in Objects |-> IF o \in removed THEN 0 ELSE rights[u][o]]]
        /\ RemoveObjects(removed)
        /\ notified' = notified \ {t} /\ memory' = [memory EXCEPT ![t] = {}]
        /\ exited' = exited \cup {t}
        /\ UNCHANGED <<nextObject, call, stray>>

-----------------------------------------------------------------------------
(***************************************************************************)
(* Device memory.                                                          *)
(***************************************************************************)
State(o, profile) ==
    IF o \in DOMAIN device THEN device[o]
    ELSE [of |-> profile, slots |-> << >>, next |-> 1, flags |-> {}, peer |-> 0]
IsMapped(k, o, s) ==
    s \in DOMAIN State(o, "").slots /\ State(o, "").slots[s] \in memory[Of(k)]

\* find_free_guest_region and map, under the lock.
MapsInto(k, o, s, p) ==
    LET before == State(o, Profile(o))
    IN  /\ p \in Pages \ memory[Of(k)] /\ \A q \in Pages \ memory[Of(k)] : p <= q
        /\ memory' = [memory EXCEPT ![Of(k)] = @ \cup {p}]
        /\ device' = (o :> [before EXCEPT !.slots = (s :> p) @@ @,
                                          !.next = IF Profile(o) = "Mbx" /\ s # 0 THEN @ + 1 ELSE @])
                     @@ device
        /\ UNCHANGED <<entry, cache, nextObject, right, notified, call, exited, gone, stray>>

MemoryTypes == {1}
audio_map_memory(k, o, s, p) ==
    ConnectionOf(k, o, {"Audio"}) /\ ~IsMapped(k, o, s) /\ MapsInto(k, o, s, p)
graphics_map_memory(k, o, s, p) ==
    ConnectionOf(k, o, {"Graphics"}) /\ ~IsMapped(k, o, s) /\ MapsInto(k, o, s, p)

\* The mapping is forgotten under the lock and unmapped after it.
UnmapsFrom(k, o, s) ==
    /\ s \in DOMAIN State(o, "").slots
    /\ device' = [device EXCEPT ![o].slots = Without(@, {s})]
    /\ call' = [call EXCEPT ![k] = [op |-> "unmap", object |-> o, pages |-> {device[o].slots[s]}, own |-> TRUE]]
    /\ UNCHANGED <<entry, cache, nextObject, right, notified, memory, exited, gone, stray>>
audio_unmap_memory(k, o, s) == ConnectionOf(k, o, {"Audio"}) /\ UnmapsFrom(k, o, s)
graphics_unmap_memory(k, o, s) == ConnectionOf(k, o, {"Graphics"}) /\ UnmapsFrom(k, o, s)

\* Start, stop and the settings of an audio connection.
AudioMethod(k, o) ==
    LET before == State(o, "Audio")
    IN  /\ ConnectionOf(k, o, {"Audio"})
        /\ device' = (o :> [before EXCEPT !.flags = IF "running" \in @ THEN {} ELSE {"running"}]) @@ device
        /\ UNCHANGED <<entry, cache, nextObject, right, notified, memory, call, exited, gone, stray>>

allocate_resource(k, o, p) ==
    ConnectionOf(k, o, {"Mbx"}) /\ MapsInto(k, o, State(o, "Mbx").next, p)

release_resource(k, o, h) ==
    /\ ConnectionOf(k, o, {"Mbx"}) /\ h # 0 /\ h \in DOMAIN State(o, "Mbx").slots
    /\ device' = [device EXCEPT ![o].slots = Without(@, {h})]
    /\ memory' = [memory EXCEPT ![Of(k)] = @ \ {device[o].slots[h]}]
    /\ UNCHANGED <<entry, cache, nextObject, right, notified, call, exited, gone, stray>>

\* The command queue is slot 0.
get_command_queue(k, o, p) ==
    ConnectionOf(k, o, {"Mbx"}) /\ ~IsMapped(k, o, 0) /\ MapsInto(k, o, 0, p)

add_client(k, o, other) ==
    LET before == State(o, "Graphics")
    IN  /\ ConnectionOf(k, o, {"Graphics"}) /\ ConnectionOf(k, other, {"Graphics"})
        /\ device' = (o :> [before EXCEPT !.peer = other]) @@ device
        /\ UNCHANGED <<entry, cache, nextObject, right, notified, memory, call, exited, gone, stray>>

\* CreateShared, and InitializeContext once there is something to share.
GraphicsMethod(k, o, flag) ==
    LET before == State(o, "Graphics")
    IN  /\ ConnectionOf(k, o, {"Graphics"})
        /\ flag = "context" => "shared" \in before.flags \/ before.slots # << >>
        /\ device' = (o :> [before EXCEPT !.flags = @ \cup {flag}]) @@ device
        /\ UNCHANGED <<entry, cache, nextObject, right, notified, memory, call, exited, gone, stray>>

\* shared_mapping_reply: the arena of the connection, of the one it was added
\* to, or of one that was added to it.
Arena(o) ==
    LET of(c) == IF c \in DOMAIN device /\ 1 \in DOMAIN device[c].slots THEN {device[c].slots[1]} ELSE {}
        joined == {c \in DOMAIN device : IsKind(c, "connection") /\ entry[c].owner = entry[o].owner
                                         /\ device[c].peer = o}
    IN  IF of(o) # {} THEN of(o)
        ELSE IF State(o, "").peer # 0 /\ of(State(o, "").peer) # {} THEN of(State(o, "").peer)
        ELSE UNION {of(c) : c \in joined}

IoKitNext ==
    \/ \E k \in Callers, m \in Matchings :
          ServiceGetMatchingServices(k, m) \/ ServiceAddNotification(k, m)
    \/ \E k \in Callers : \E o \in Held(Of(k)) :
          \/ IteratorNext(k, o) \/ RegistryIterator(k, o, TRUE) \/ RegistryIterator(k, o, FALSE)
          \/ ServiceOpen(k, o) \/ ServiceOpenExtended(k, o) \/ handle_interest_registration(k, o)
          \/ mach_port_deallocate(k, o) \/ ServiceClose(k, o)
          \/ AudioMethod(k, o)
          \/ \E f \in {"shared", "context"} : GraphicsMethod(k, o, f)
          \/ \E other \in Held(Of(k)) : add_client(k, o, other)
          \/ \E t \in Tasks : SendRight(k, t, o)
          \/ \E s \in MemoryTypes : audio_unmap_memory(k, o, s) \/ graphics_unmap_memory(k, o, s)
          \/ \E p \in Pages :
                \/ \E s \in MemoryTypes : audio_map_memory(k, o, s, p) \/ graphics_map_memory(k, o, s, p)
                \/ allocate_resource(k, o, p) \/ get_command_queue(k, o, p)
          \/ \E h \in 1 .. MaxObjects : release_resource(k, o, h)
    \/ \E k \in Callers :
          \/ handle_power_open(k) \/ CloseEnds(k) \/ UnmapEnds(k)
          \/ \E p \in Pages : UnmapPage(k, p)
    \/ \E t \in Tasks : ExitTask(t)

-----------------------------------------------------------------------------
\* An iterator, a connection and an interest notification live exactly while
\* some task can name them: no call leaves one behind that nobody can close.
TransientObjectsHeld ==
    \A o \in DOMAIN entry : entry[o].kind \in Transient => \E t \in Tasks : right[t][o] > 0

\* A Send right names an object that is there: an iterator that still queues
\* a service, a parent link or a remembered identifier hands out a dead one
\* only after somebody closed that service.
RightsNameObjects ==
    \A t \in Tasks, o \in Objects : right[t][o] > 0 => o \in DOMAIN entry \cup gone

\* One service of a class, however many tasks look for it, and no link to a
\* service that was never there.
ServicesUnique ==
    /\ \A c \in Classes : Cardinality(Services(World, c)) <= 1
    /\ \A o \in DOMAIN entry : IsKind(o, "service") => entry[o].above \in DOMAIN entry \cup gone \cup {0}

\* Nothing that names a process by its identifier outlives it.
NothingOfExited == \A t \in exited : OwnedBy(t) = {} /\ t \notin notified

\* The pages a task's connections record are mapped, each recorded once, and
\* none of them is about to be unmapped by a thread that has let go of the
\* lock; a page unmapped by closing another task's connection is the exception.
DeviceMappingsExact ==
    LET recorded == UNION {{<<o, s>> : s \in DOMAIN device[o].slots} : o \in DOMAIN device \cap DOMAIN entry}
        page(r) == <<entry[r[1]].owner, device[r[1]].slots[r[2]]>>
        leaving(k) == IF call[k] = Idle \/ ~call[k].own THEN {} ELSE {<<Of(k), p>> : p \in call[k].pages}
    IN  /\ \A r \in recorded : page(r) \notin stray => page(r)[2] \in memory[page(r)[1]]
        /\ \A r, q \in recorded : r # q /\ page(r) = page(q) => page(r) \in stray
        /\ \A k \in Callers, r \in recorded : page(r) \in leaving(k) => page(r) \in stray
        /\ \A j, k \in Callers : j # k => leaving(j) \cap leaving(k) \subseteq stray

\* The arena a graphics connection tells its task about is mapped there.
ArenaMapped ==
    \A o \in DOMAIN entry : entry[o].kind = "connection" /\ Profile(o) = "Graphics" =>
        \A p \in Arena(o) : p \in memory[entry[o].owner] \/ <<entry[o].owner, p>> \in stray

-----------------------------------------------------------------------------
CONSTANTS
    Displays,       \* connections to the display
    Cameras,        \* connections to the camera accelerator
    Ports,          \* notification ports of the one process that has them
    VsyncPeriod, CapturePeriod,
    MaxNow,         \* bound of the clock
    MaxCaptures     \* bound of the captures asked for

IoKitEventsAssumption ==
    /\ Displays \subseteq Nat /\ VsyncPeriod \in Nat \ {0} /\ CapturePeriod \in Nat \ {0}
    /\ MaxNow \in Nat /\ MaxCaptures \in Nat

VARIABLES
    clock,          \* KernelClock::now
    open,           \* iokit_connections
    alive,          \* mach_port_objects, of Ports
    queue,          \* mach_queues, of Ports
    vsync,          \* iokit_display_vsync, with 0 for no next_deadline
    pulses,         \* iokit_display_vsync_deadlines
    camera,         \* iokit_camera_accelerator_connections
    requests,       \* iokit_camera_capture_requests
    due,            \* captures copied by service_due_captures
    asked,          \* history: captures accepted so far
    registered,     \* history: notification ports set so far
    answered,       \* history: completions, in the order they were queued
    excused         \* history: captures dropped with their connection or port

Drop(f, S) == [x \in DOMAIN f \ S |-> f[x]]
EventsInit ==
    /\ clock = 0 /\ open = Displays \cup Cameras /\ alive = Ports
    /\ queue = [p \in Ports |-> << >>] /\ vsync = << >> /\ pulses = {}
    /\ camera = << >> /\ requests = << >> /\ due = << >>
    /\ asked = 0 /\ registered = 0 /\ answered = << >> /\ excused = {}

Tick == 
    /\ clock < MaxNow /\ clock' = clock + 1
    /\ UNCHANGED <<open, alive, queue, vsync, pulses, camera, requests, due,
                   asked, registered, answered, excused>>

-----------------------------------------------------------------------------
(***************************************************************************)
(* The display.  A registration with no next deadline has 0.               *)
(***************************************************************************)
Unindexed(c) == IF c \in DOMAIN vsync THEN pulses \ {<<vsync[c].deadline, c>>} ELSE pulses

SetVsyncPort(c, p) ==
    /\ c \in open \cap Displays /\ p \in alive
    /\ pulses' = Unindexed(c)
    /\ vsync' = (c :> [port |-> p, enabled |-> FALSE, deadline |-> 0, sequence |-> 0]) @@ vsync
    /\ UNCHANGED <<clock, open, alive, queue, camera, requests, due,
                   asked, registered, answered, excused>>

\* Mutant: an overdue pulse comes a period after the call, off the display's beat.
NextPulseFromNow(deadline) ==
    IF deadline = 0 \/ deadline <= clock THEN clock + VsyncPeriod ELSE deadline
\* A pulse that is still to come is kept.
NextPulse(deadline) ==
    IF deadline = 0 \/ deadline <= clock THEN (clock \div VsyncPeriod + 1) * VsyncPeriod ELSE deadline

VsyncMethod(c, on) ==
    /\ c \in open \cap Displays /\ c \in DOMAIN vsync
    /\ LET at == IF on THEN NextPulse(vsync[c].deadline) ELSE vsync[c].deadline
       IN  /\ vsync' = [vsync EXCEPT ![c].enabled = on, ![c].deadline = at]
           /\ pulses' = Unindexed(c) \cup IF on THEN {<<at, c>>} ELSE {}
    /\ UNCHANGED <<clock, open, alive, queue, camera, requests, due,
                   asked, registered, answered, excused>>

QueueHasVsync(q) == \E i \in DOMAIN q : q[i].kind = "vsync"

\* One iteration of deliver_due_vsync_locked over the state d.
Pulse(d, due_pulse) ==
    LET c == due_pulse[2]
        r == d.vsync[c]
        next == r.deadline + ((clock - r.deadline) \div VsyncPeriod + 1) * VsyncPeriod
        rest == d.pulses \ {due_pulse}
    IN  IF c \notin DOMAIN d.vsync THEN [d EXCEPT !.pulses = rest]
        ELSE IF r.port \notin alive THEN [d EXCEPT !.pulses = rest, !.vsync = Drop(@, {c})]
        ELSE IF ~r.enabled \/ r.deadline # due_pulse[1] THEN [d EXCEPT !.pulses = rest]
        ELSE LET sends == ~QueueHasVsync(d.queue[r.port])
             IN  [pulses |-> rest \cup {<<next, c>>},
                  vsync  |-> [d.vsync EXCEPT ![c].deadline = next,
                                             ![c].sequence = IF sends THEN @ + 1 ELSE @],
                  queue  |-> IF sends THEN [d.queue EXCEPT ![r.port] = Append(@, [kind |-> "vsync", of |-> c])]
                             ELSE d.queue]

DeliverDueVsync ==
    LET ready == {e \in pulses : e[1] <= clock}
        before == [pulses |-> pulses, vsync |-> vsync, queue |-> queue]
        after == FoldLeft(Pulse, before,
                    SetToSortSeq(ready, LAMBDA a, b : a[1] < b[1] \/ (a[1] = b[1] /\ a[2] < b[2])))
    IN  /\ ready # {}
        /\ pulses' = after.pulses /\ vsync' = after.vsync /\ queue' = after.queue
        /\ UNCHANGED <<clock, open, alive, camera, requests, due, asked, registered, answered, excused>>

-----------------------------------------------------------------------------
(***************************************************************************)
(* The camera.                                                             *)
(***************************************************************************)
SetCapturePort(c, p) ==
    /\ c \in open \cap Cameras /\ p \in alive
    /\ camera' = (c :> [port |-> p, sequence |-> 0, next |-> 0, life |-> registered + 1]) @@ camera
    /\ registered' = registered + 1
    /\ UNCHANGED <<clock, open, alive, queue, vsync, pulses, requests, due, asked, answered, excused>>

\* One capture at a time: the next begins a period after the last.
CaptureDeadline(c) ==
    IF camera[c].next > clock + CapturePeriod THEN camera[c].next ELSE clock + CapturePeriod

CaptureSurface(c) ==
    LET at == CaptureDeadline(c)
    IN  /\ c \in open \cap Cameras /\ c \in DOMAIN camera /\ asked < MaxCaptures
        /\ camera' = [camera EXCEPT ![c].sequence = @ + 1, ![c].next = at + CapturePeriod]
        /\ requests' = Append(requests, [of |-> c, id |-> asked + 1, sequence |-> camera[c].sequence + 1,
                                         deadline |-> at, life |-> camera[c].life])
        /\ asked' = asked + 1
        /\ UNCHANGED <<clock, open, alive, queue, vsync, pulses, due, registered, answered, excused>>

Completion(r, result) == [kind |-> "capture", id |-> r.id, life |-> r.life, sequence |-> r.sequence,
                          deadline |-> r.deadline, result |-> result]
OfConnection(c) == SelectSeq(requests, LAMBDA r : r.of = c)
OfOthers(c) == SelectSeq(requests, LAMBDA r : r.of # c)
IdsOf(s) == {s[i].id : i \in DOMAIN s}

\* The aborted completions are queued even when the port has died.
AbortCaptures(c) ==
    LET mine == OfConnection(c)
        aborted == [i \in DOMAIN mine |-> Completion(mine[i], "aborted")]
    IN  /\ c \in open \cap Cameras
        /\ requests' = OfOthers(c)
        /\ IF c \in DOMAIN camera
           THEN /\ queue' = [queue EXCEPT ![camera[c].port] = @ \o aborted]
                /\ answered' = answered \o aborted
                /\ camera' = [camera EXCEPT ![c].next = 0] /\ UNCHANGED excused
           ELSE UNCHANGED <<queue, answered, camera>> /\ excused' = excused \cup IdsOf(mine)
        /\ UNCHANGED <<clock, open, alive, vsync, pulses, due, asked, registered>>

\* The first half of service_due_captures, by the process of the connections.
CollectDueCaptures ==
    LET ready == SelectSeq(requests, LAMBDA r : r.deadline <= clock)
        served(r) == r.of \in open /\ r.of \in DOMAIN camera
    IN  /\ due = << >> /\ ready # << >>
        /\ requests' = SelectSeq(requests, LAMBDA r : r.deadline > clock)
        /\ LET kept == SelectSeq(ready, served)
           IN  /\ due' = [i \in DOMAIN kept |-> [request |-> kept[i], port |-> camera[kept[i].of].port]]
               /\ excused' = excused \cup (IdsOf(ready) \ IdsOf(kept))
        /\ UNCHANGED <<clock, open, alive, queue, vsync, pulses, camera, asked, registered, answered>>

\* The second half, for one capture: the connection may be closed by now.
CompleteCapture(result) ==
    LET capture == Head(due)
        message == Completion(capture.request, result)
    IN  /\ due # << >> /\ due' = Tail(due)
        /\ IF capture.port \in alive
           THEN /\ queue' = [queue EXCEPT ![capture.port] = Append(@, message)]
                /\ answered' = Append(answered, message) /\ UNCHANGED excused
           ELSE excused' = excused \cup {capture.request.id} /\ UNCHANGED <<queue, answered>>
        /\ UNCHANGED <<clock, open, alive, vsync, pulses, camera, requests, asked, registered>>

-----------------------------------------------------------------------------
\* ServiceClose: the camera's state goes, the display's registration stays.
Close(c) ==
    /\ c \in open /\ open' = open \ {c}
    /\ camera' = Drop(camera, {c}) /\ requests' = OfOthers(c)
    /\ excused' = excused \cup IdsOf(OfConnection(c))
    /\ UNCHANGED <<clock, alive, queue, vsync, pulses, due, asked, registered, answered>>

\* The last Send right of a connection goes: only the connection does.
DropConnection(c) ==
    /\ c \in open /\ open' = open \ {c}
    /\ UNCHANGED <<clock, alive, queue, vsync, pulses, camera, requests, due,
                   asked, registered, answered, excused>>

DestroyPort(p) ==
    /\ p \in alive /\ alive' = alive \ {p} /\ queue' = [queue EXCEPT ![p] = << >>]
    /\ UNCHANGED <<clock, open, vsync, pulses, camera, requests, due,
                   asked, registered, answered, excused>>

Receive(p) ==
    /\ p \in alive /\ queue[p] # << >> /\ queue' = [queue EXCEPT ![p] = Tail(@)]
    /\ UNCHANGED <<clock, open, alive, vsync, pulses, camera, requests, due,
                   asked, registered, answered, excused>>

\* The process exits: its connections, its ports and its registrations go.
ExitClient ==
    /\ open # {} /\ open' = {} /\ alive' = {} /\ queue' = [p \in Ports |-> << >>]
    /\ vsync' = << >>
    /\ pulses' = pulses \ {<<vsync[c].deadline, c>> : c \in DOMAIN vsync}
    /\ UNCHANGED <<clock, camera, requests, due, asked, registered, answered, excused>>

EventsNext ==
    \/ Tick \/ DeliverDueVsync \/ CollectDueCaptures \/ ExitClient
    \/ \E result \in {"success", "failed"} : CompleteCapture(result)
    \/ \E c \in Displays :
          (\E p \in Ports : SetVsyncPort(c, p)) \/ \E on \in BOOLEAN : VsyncMethod(c, on)
    \/ \E c \in Cameras :
          (\E p \in Ports : SetCapturePort(c, p)) \/ CaptureSurface(c) \/ AbortCaptures(c)
    \/ \E c \in Displays \cup Cameras : Close(c) \/ DropConnection(c)
    \/ \E p \in Ports : DestroyPort(p) \/ Receive(p)

-----------------------------------------------------------------------------
\* The deadlines the guest loop sleeps for are those of the enabled
\* registrations, on the scan phase of the panel and at most one period away
\* when they are set: a client that turns its pulses off and on cannot chase
\* them, and a port never holds two of them.
PulsesExact ==
    /\ pulses = {<<vsync[c].deadline, c>> : c \in {k \in DOMAIN vsync : vsync[k].enabled}}
    /\ \A e \in pulses : e[1] % VsyncPeriod = 0 /\ e[1] <= clock + VsyncPeriod
    /\ \A p \in Ports : Cardinality({i \in DOMAIN queue[p] : queue[p][i].kind = "vsync"}) <= 1

\* A capture that was accepted is pending, being written, completed once, or
\* dropped because its connection or port is gone.
CapturesAnsweredOnce ==
    LET writing == {due[i].request.id : i \in DOMAIN due}
        counted == Len(requests) + Len(due) + Len(answered) + Cardinality(excused)
    IN  /\ IdsOf(requests) \cup writing \cup IdsOf(answered) \cup excused = 1 .. asked
        /\ counted = asked

\* Frames of one registration arrive in the order they were asked for, a
\* capture period apart, whatever is aborted or closed in between.
FramesInOrder ==
    \A i, j \in DOMAIN answered :
        i < j /\ answered[i].life = answered[j].life
              /\ answered[i].result # "aborted" /\ answered[j].result # "aborted" =>
            /\ answered[i].sequence < answered[j].sequence
            /\ answered[i].deadline + CapturePeriod <= answered[j].deadline
=============================================================================
