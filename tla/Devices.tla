------------------------------ MODULE Devices ------------------------------
(***************************************************************************)
(* The services above the kernel: surfaces and their images, the hardware  *)
(* compositor, the application on the screen, IOKit, audio, the virtual    *)
(* networks, rendering and OpenGL ES, functions replaced in the firmware's *)
(* libraries, telephone calls, and the debugger server.  Each is a state   *)
(* machine of its own, and what one needs of another is part of its        *)
(* module.  A behaviour moves one of them (mix) for at most MaxSteps[mix]  *)
(* steps; the variables of the others are Parked.                          *)
(***************************************************************************)
EXTENDS Integers

CONSTANTS
    Mixes,      \* the services explored
    MaxSteps,   \* bound of the steps of a behaviour, by mix
    Tasks, Ids, Kinds, Slots, MaxRefs, MaxPublications,
    Pix, Colors, Encoders, MaxGenerations,
    ScreenWidth, SourceWidth, Inks, Translucent, LayerOrders, Sources,
    RingSize, MaxHistory, MaxSequence,
    Apps, MaxInputs, MaxLookups,
    Callers, OpenedFirst, Matchings, Pages, MaxObjects,
    Displays, Cameras, Ports, VsyncPeriod, CapturePeriod, MaxNow, MaxCaptures,
    FirmwareDevices, Callbacks, ThreadSlots, FrameSizes, MaxFrames, MaxProcs,
    MaxAudioNow,
    SourceIds, AudioFiles, Unplayable, ReplyPorts, FileFrames, FadeFrames, LeadFrames,
    Volumes, MaxQueued,
    Listeners, RouteSockets, Protocols, UserAddresses, RouteKeys, MaxRetained, MaxPosted,
    Clients, Fds, MaxHandles, MaxStreams, MaxUnread,
    Targets, Owned, Textures, DrawnUnits, CommandSlots, MaxBatchDraws, CacheBudget,
    PoolBudget, MaxColors,
    Processors, EaglObjects, MaxContexts, MaxNames,
    CoreSurfaces,
    HleThreads, MainThread, Entries, ThumbEntries, MaxTrampolines, MaxDeferred,
    MaxDepth, MaxBirths,
    PhoneThreads, Addresses, MaxDials, MaxChains,
    Debuggees, DebugSlots, Sites, MaxVersion, GuestProcessors,
    UdpSockets, FixedPorts, FirstEphemeral, LastPort, QueueLimit, MaxDatagrams,
    MaxDescriptors

VARIABLES
    mix, steps,
    objects, published, nextId, ports, task, borrowed,
    guest, snapshot, pageWritten, host, target, lockHeld, encoding,
    newest, unflushed, unwritten, lapsed,
    layers, submitted, background, submittedBackground, ring, scanout, ringIndex,
    scanoutValid, source, sequence, suppressed, display, swapped,
    ui, pressing, committing, locked, toApp,
    entry, cache, nextObject, right, notified, device, memory, call, exited, gone, stray,
    clock, open, alive, queue, vsync, pulses, camera, requests, due, asked, registered,
    answered, excused,
    procs, nextProc, frames, slot, audioNow, misused, rewritten,
    sources, requested, playing, latest, stopMode, ringtone, deviceVolume, sink, todo,
    orphans, restated,
    radio, interface, routes, events, messages, posted, listener, watcher, silent,
    card, registration, nextRegistration, pending, stack, fd, stream, scanned,
    scheduled, learnt, broker, untold, reused,
    renderer, pixels, levels, colors, ideal, lost, wanted,
    contexts, eagl, drawables, threads, textures, next, generated, targets, owner,
    leaked, hidden,
    store, texels, hosts, natives, pixmap, drawing, window, intended, outdated,
    pc, returns, born, arguments, images, patched, installed, parked, free, cursor,
    deferred, raced, skipped, hijacked, bypassed, adopted,
    activity, at, chain, calls, dialled, kept, live, ended, repeated, announced,
    clobbered,
    session, toServer, toDebugger, expecting, general, resuming, stopped, current,
    request, runtimes, allocated, queued, batch, code, breakpoints, unpatched,
    overwritten, crossed, confused, executed, vanished, interrupted,
    descriptors, boundTo, connected, joined, quiet, incoming, nextPort, sent, rebound,
    since, taken, lastAccepted

Registry == INSTANCE SurfaceRegistry
Images   == INSTANCE SurfaceImages
Screen   == INSTANCE Compositor
Launch   == INSTANCE ApplicationLaunch
IoKit    == INSTANCE IoKit
Sound    == INSTANCE Audio
Network  == INSTANCE Networks
Batches  == INSTANCE RendererBatches
Objects  == INSTANCE GlesObjects
Pixels   == INSTANCE GlesTextures
Calls    == INSTANCE Replacements
Debug    == INSTANCE DebuggerSessions
Udp      == INSTANCE VirtualUdp

ASSUME DevicesAssumption ==
    /\ MaxSteps \in [Mixes -> Nat]
    /\ Registry!SurfaceRegistryAssumption /\ Images!SurfaceImagesAssumption
    /\ Screen!CompositorAssumption /\ Launch!ApplicationLaunchAssumption
    /\ IoKit!IoKitRegistryAssumption
    /\ IoKit!IoKitEventsAssumption
    /\ Sound!AudioCallbacksAssumption
    /\ Sound!AudioPlaybackAssumption
    /\ Network!InterfacesAssumption
    /\ Network!WifiClientsAssumption
    /\ Batches!RendererBatchesAssumption
    /\ Objects!GlesObjectsAssumption
    /\ Pixels!GlesTexturesAssumption
    /\ Calls!UserlandAssumption
    /\ Calls!OfflineCallsAssumption
    /\ Debug!DebuggerSessionsAssumption
    /\ Udp!VirtualUdpAssumption

Parked == "parked"
registryVars == <<objects, published, nextId, ports, task, borrowed>>
imageVars    == <<guest, snapshot, pageWritten, host, target, lockHeld, encoding,
                  newest, unflushed, unwritten, lapsed>>
screenVars   == <<layers, submitted, background, submittedBackground, ring, scanout, ringIndex,
                  scanoutValid, source, sequence, suppressed, display, swapped>>
launchVars   == <<ui, pressing, committing, locked, toApp>>
iokitVars    == <<entry, cache, nextObject, right, notified, device, memory, call, exited, gone, stray>>
eventsVars   == <<clock, open, alive, queue, vsync, pulses, camera, requests, due,
                  asked, registered, answered, excused>>
callbacksVars == <<procs, nextProc, frames, slot, audioNow, misused, rewritten>>
playbackVars == <<sources, requested, playing, latest, stopMode, ringtone,
                  deviceVolume, sink, todo, orphans, restated>>
networkVars  == <<radio, interface, routes, events, messages, posted, listener,
                  watcher, silent>>
wifiVars     == <<card, registration, nextRegistration, pending, stack, fd, stream,
                  scanned, scheduled, learnt, broker, untold, reused>>
batchesVars  == <<renderer, pixels, levels, colors, ideal, lost, wanted>>
glesVars     == <<contexts, eagl, drawables, threads, textures, next, generated,
                  targets, owner, leaked, hidden>>
texturesVars == <<store, texels, hosts, natives, pixmap, drawing, window, intended,
                  outdated>>
callsVars    == <<pc, returns, born, arguments, images, patched, installed, parked,
                  free, cursor, deferred, raced, skipped, hijacked, bypassed, adopted>>
phoneVars    == <<activity, at, chain, calls, dialled, kept, live, ended, repeated,
                  announced, clobbered>>
debugVars    == <<session, toServer, toDebugger, expecting, general, resuming, stopped,
                  current, request, runtimes, allocated, queued, batch, code,
                  breakpoints, unpatched, overwritten, crossed, confused, executed,
                  vanished, interrupted>>
udpVars      == <<descriptors, boundTo, connected, joined, quiet, incoming, nextPort,
                  sent, rebound, since, taken, lastAccepted>>
vars == <<mix, steps, registryVars, imageVars, screenVars, launchVars, iokitVars, eventsVars,
          callbacksVars, playbackVars, networkVars, wifiVars, batchesVars, glesVars,
          texturesVars, callsVars, phoneVars, debugVars, udpVars>>

Init ==
    /\ mix \in Mixes /\ steps = 0
    /\ IF mix = "registry" THEN Registry!SurfaceInit
       ELSE objects = Parked /\ published = Parked /\ nextId = Parked /\ ports = Parked
            /\ task = Parked /\ borrowed = Parked
    /\ IF mix = "images" THEN Images!ImagesInit
       ELSE guest = Parked /\ snapshot = Parked /\ pageWritten = Parked /\ host = Parked
            /\ target = Parked /\ lockHeld = Parked /\ encoding = Parked /\ newest = Parked
            /\ unflushed = Parked /\ unwritten = Parked /\ lapsed = Parked
    /\ IF mix = "screen" THEN Screen!CompositorInit
       ELSE layers = Parked /\ submitted = Parked /\ background = Parked
            /\ submittedBackground = Parked /\ ring = Parked /\ scanout = Parked
            /\ ringIndex = Parked /\ scanoutValid = Parked /\ source = Parked
            /\ sequence = Parked /\ suppressed = Parked /\ display = Parked
            /\ swapped = Parked
    /\ IF mix = "launch" THEN Launch!LaunchInit
       ELSE ui = Parked /\ pressing = Parked /\ committing = Parked /\ locked = Parked
            /\ toApp = Parked
    /\ IF mix = "iokit" THEN IoKit!IoKitInit
       ELSE entry = Parked /\ cache = Parked /\ nextObject = Parked /\ right = Parked
            /\ notified = Parked /\ device = Parked /\ memory = Parked /\ call = Parked
            /\ exited = Parked /\ gone = Parked /\ stray = Parked
    /\ IF mix = "events" THEN IoKit!EventsInit
       ELSE clock = Parked /\ open = Parked /\ alive = Parked /\ queue = Parked
            /\ vsync = Parked /\ pulses = Parked /\ camera = Parked
            /\ requests = Parked /\ due = Parked /\ asked = Parked
            /\ registered = Parked /\ answered = Parked /\ excused = Parked
    /\ IF mix = "callbacks" THEN Sound!CallbacksInit
       ELSE procs = Parked /\ nextProc = Parked /\ frames = Parked /\ slot = Parked
            /\ audioNow = Parked /\ misused = Parked /\ rewritten = Parked
    /\ IF mix = "playback" THEN Sound!PlaybackInit
       ELSE sources = Parked /\ requested = Parked /\ playing = Parked
            /\ latest = Parked /\ stopMode = Parked /\ ringtone = Parked
            /\ deviceVolume = Parked /\ sink = Parked /\ todo = Parked
            /\ orphans = Parked /\ restated = Parked
    /\ IF mix = "network" THEN Network!NetworkInit
       ELSE radio = Parked /\ interface = Parked /\ routes = Parked
            /\ events = Parked /\ messages = Parked /\ posted = Parked
            /\ listener = Parked /\ watcher = Parked /\ silent = Parked
    /\ IF mix = "wifi" THEN Network!WifiClientsInit
       ELSE card = Parked /\ registration = Parked /\ nextRegistration = Parked
            /\ pending = Parked /\ stack = Parked /\ fd = Parked /\ stream = Parked
            /\ scanned = Parked /\ scheduled = Parked /\ learnt = Parked
            /\ broker = Parked /\ untold = Parked /\ reused = Parked
    /\ IF mix = "batches" THEN Batches!BatchesInit
       ELSE renderer = Parked /\ pixels = Parked /\ levels = Parked
            /\ colors = Parked /\ ideal = Parked /\ lost = Parked /\ wanted = Parked
    /\ IF mix = "gles" THEN Objects!ObjectsInit
       ELSE contexts = Parked /\ eagl = Parked /\ drawables = Parked
            /\ threads = Parked /\ textures = Parked /\ next = Parked
            /\ generated = Parked /\ targets = Parked /\ owner = Parked
            /\ leaked = Parked /\ hidden = Parked
    /\ IF mix = "textures" THEN Pixels!TexturesInit
       ELSE store = Parked /\ texels = Parked /\ hosts = Parked /\ natives = Parked
            /\ pixmap = Parked /\ drawing = Parked /\ window = Parked
            /\ intended = Parked /\ outdated = Parked
    /\ IF mix = "calls" THEN Calls!Init
       ELSE pc = Parked /\ returns = Parked /\ born = Parked /\ arguments = Parked
            /\ images = Parked /\ patched = Parked /\ installed = Parked
            /\ parked = Parked /\ free = Parked /\ cursor = Parked /\ deferred = Parked
            /\ raced = Parked /\ skipped = Parked /\ hijacked = Parked
            /\ bypassed = Parked /\ adopted = Parked
    /\ IF mix = "phone" THEN Calls!PhoneInit
       ELSE activity = Parked /\ at = Parked /\ chain = Parked /\ calls = Parked
            /\ dialled = Parked /\ kept = Parked /\ live = Parked /\ ended = Parked
            /\ repeated = Parked /\ announced = Parked /\ clobbered = Parked
    /\ IF mix = "debug" THEN Debug!Init
       ELSE session = Parked /\ toServer = Parked /\ toDebugger = Parked
            /\ expecting = Parked /\ general = Parked /\ resuming = Parked
            /\ stopped = Parked /\ current = Parked /\ request = Parked
            /\ runtimes = Parked /\ allocated = Parked /\ queued = Parked
            /\ batch = Parked /\ code = Parked /\ breakpoints = Parked
            /\ unpatched = Parked /\ overwritten = Parked /\ crossed = Parked
            /\ confused = Parked /\ executed = Parked /\ vanished = Parked
            /\ interrupted = Parked
    /\ IF mix = "udp" THEN Udp!Init
       ELSE descriptors = Parked /\ boundTo = Parked /\ connected = Parked
            /\ joined = Parked /\ quiet = Parked /\ incoming = Parked
            /\ nextPort = Parked /\ sent = Parked /\ rebound = Parked /\ since = Parked
            /\ taken = Parked /\ lastAccepted = Parked

Next ==
    /\ steps < MaxSteps[mix] /\ steps' = steps + 1 /\ UNCHANGED mix
    /\ \/ /\ mix = "registry" /\ Registry!SurfaceNext
          /\ UNCHANGED <<imageVars, screenVars, launchVars, iokitVars, eventsVars,
                        callbacksVars, playbackVars, networkVars, wifiVars,
                        batchesVars, glesVars, texturesVars, callsVars, phoneVars,
                        debugVars, udpVars>>
       \/ /\ mix = "images" /\ Images!ImagesNext
          /\ UNCHANGED <<registryVars, screenVars, launchVars, iokitVars, eventsVars,
                        callbacksVars, playbackVars, networkVars, wifiVars,
                        batchesVars, glesVars, texturesVars, callsVars, phoneVars,
                        debugVars, udpVars>>
       \/ /\ mix = "screen" /\ Screen!CompositorNext
          /\ UNCHANGED <<registryVars, imageVars, launchVars, iokitVars, eventsVars,
                        callbacksVars, playbackVars, networkVars, wifiVars,
                        batchesVars, glesVars, texturesVars, callsVars, phoneVars,
                        debugVars, udpVars>>
       \/ /\ mix = "launch" /\ Launch!LaunchNext
          /\ UNCHANGED <<registryVars, imageVars, screenVars, iokitVars, eventsVars,
                        callbacksVars, playbackVars, networkVars, wifiVars,
                        batchesVars, glesVars, texturesVars, callsVars, phoneVars,
                        debugVars, udpVars>>
       \/ /\ mix = "iokit" /\ IoKit!IoKitNext
          /\ UNCHANGED <<registryVars, imageVars, screenVars, launchVars, eventsVars,
                        callbacksVars, playbackVars, networkVars, wifiVars,
                        batchesVars, glesVars, texturesVars, callsVars, phoneVars,
                        debugVars, udpVars>>
       \/ /\ mix = "events" /\ IoKit!EventsNext
          /\ UNCHANGED <<registryVars, imageVars, screenVars, launchVars, iokitVars,
                        callbacksVars, playbackVars, networkVars, wifiVars,
                        batchesVars, glesVars, texturesVars, callsVars, phoneVars,
                        debugVars, udpVars>>
       \/ /\ mix = "callbacks" /\ Sound!CallbacksNext
          /\ UNCHANGED <<registryVars, imageVars, screenVars, launchVars, iokitVars,
                        eventsVars, playbackVars, networkVars, wifiVars, batchesVars,
                        glesVars, texturesVars, callsVars, phoneVars, debugVars, udpVars>>
       \/ /\ mix = "playback" /\ Sound!PlaybackNext
          /\ UNCHANGED <<registryVars, imageVars, screenVars, launchVars, iokitVars,
                        eventsVars, callbacksVars, networkVars, wifiVars, batchesVars,
                        glesVars, texturesVars, callsVars, phoneVars, debugVars, udpVars>>
       \/ /\ mix = "network" /\ Network!NetworkNext
          /\ UNCHANGED <<registryVars, imageVars, screenVars, launchVars, iokitVars,
                        eventsVars, callbacksVars, playbackVars, wifiVars, batchesVars,
                        glesVars, texturesVars, callsVars, phoneVars, debugVars, udpVars>>
       \/ /\ mix = "wifi" /\ Network!WifiClientsNext
          /\ UNCHANGED <<registryVars, imageVars, screenVars, launchVars, iokitVars,
                        eventsVars, callbacksVars, playbackVars, networkVars,
                        batchesVars, glesVars, texturesVars, callsVars, phoneVars,
                        debugVars, udpVars>>
       \/ /\ mix = "batches" /\ Batches!BatchesNext
          /\ UNCHANGED <<registryVars, imageVars, screenVars, launchVars, iokitVars,
                        eventsVars, callbacksVars, playbackVars, networkVars, wifiVars,
                        glesVars, texturesVars, callsVars, phoneVars, debugVars, udpVars>>
       \/ /\ mix = "gles" /\ Objects!ObjectsNext
          /\ UNCHANGED <<registryVars, imageVars, screenVars, launchVars, iokitVars,
                        eventsVars, callbacksVars, playbackVars, networkVars, wifiVars,
                        batchesVars, texturesVars, callsVars, phoneVars, debugVars,
                        udpVars>>
       \/ /\ mix = "textures" /\ Pixels!TexturesNext
          /\ UNCHANGED <<registryVars, imageVars, screenVars, launchVars, iokitVars,
                        eventsVars, callbacksVars, playbackVars, networkVars, wifiVars,
                        batchesVars, glesVars, callsVars, phoneVars, debugVars, udpVars>>
       \/ /\ mix = "calls" /\ Calls!Next
          /\ UNCHANGED <<registryVars, imageVars, screenVars, launchVars, iokitVars,
                        eventsVars, callbacksVars, playbackVars, networkVars, wifiVars,
                        batchesVars, glesVars, texturesVars, phoneVars, debugVars,
                        udpVars>>
       \/ /\ mix = "phone" /\ Calls!PhoneNext
          /\ UNCHANGED <<registryVars, imageVars, screenVars, launchVars, iokitVars,
                        eventsVars, callbacksVars, playbackVars, networkVars, wifiVars,
                        batchesVars, glesVars, texturesVars, callsVars, debugVars,
                        udpVars>>
       \/ /\ mix = "debug" /\ Debug!Next
          /\ UNCHANGED <<registryVars, imageVars, screenVars, launchVars, iokitVars,
                        eventsVars, callbacksVars, playbackVars, networkVars, wifiVars,
                        batchesVars, glesVars, texturesVars, callsVars, phoneVars,
                        udpVars>>
       \/ /\ mix = "udp" /\ Udp!Next
          /\ UNCHANGED <<registryVars, imageVars, screenVars, launchVars, iokitVars,
                        eventsVars, callbacksVars, playbackVars, networkVars, wifiVars,
                        batchesVars, glesVars, texturesVars, callsVars, phoneVars,
                        debugVars>>

Spec == Init /\ [][Next]_vars
-----------------------------------------------------------------------------
\* Surfaces shared between processes are counted, backed and mapped exactly
\* (core_surface_hle.cpp, surface_store.cpp); whoever reads a surface reads the newest
\* pixels (surface_store.cpp, vulkan_gles_renderer.cpp); and composing the damage alone
\* shows what composing everything would (mobile_framebuffer_hle.cpp, mbx2d_hle.cpp).
SurfacesExact ==
    /\ mix = "registry" =>
        /\ Registry!StoreReferencesExact /\ Registry!BackingsMatchClients
        /\ Registry!ImportsOwned
    /\ mix = "images" =>
        /\ Images!HostHoldsNewest /\ Images!SourcesSampleNewest /\ Images!LockReadsNewest
    /\ mix = "screen" => Screen!DisplayShowsLastSwap

\* The lock screen, Home and the exit of an application take it off the touches for
\* good (graphics_services.cpp, process.cpp).
TouchesGoToForeground == mix = "launch" =>
    /\ Launch!LockedTouchesStay /\ Launch!CancelledStaysBack
    /\ Launch!NoTraceOfDead /\ Launch!WakeHolds

\* Kernel ports of IOKit live while they are named, and device memory is recorded
\* exactly (iokit.cpp); pulses of the display keep their phase and captures are
\* answered once, in order (vsync.cpp, camera/service.cpp).
IoKitExact ==
    /\ mix = "iokit" =>
        /\ IoKit!TransientObjectsHeld /\ IoKit!RightsNameObjects /\ IoKit!ServicesUnique
        /\ IoKit!NothingOfExited /\ IoKit!DeviceMappingsExact /\ IoKit!ArenaMapped
    /\ mix = "events" =>
        /\ IoKit!PulsesExact /\ IoKit!CapturesAnsweredOnce /\ IoKit!FramesInOrder

\* Audio callbacks run on a thread of their own, one at a time, and go on
\* (core_audio_hle.cpp); the host plays what the media server asked for, at its volume
\* (audio.cpp, sdl_audio_sink.cpp).
AudioExact ==
    /\ mix = "callbacks" =>
        /\ Sound!ThreadsOwned /\ Sound!CallbackAwaited /\ Sound!ThreadsRewrittenParked
    /\ mix = "playback" =>
        /\ Sound!SinkCountsExact /\ Sound!SoundsOwned /\ Sound!GainFollowsSource


\* Rendered in batches, from cached textures and pooled images, every target holds what
\* the draws asked for executed at once would have left in it, a cached texture holds
\* the colour of its revision, and the display shows the target it was last given
\* (vulkan_gles_renderer.cpp).  Whatever order contexts, surfaces, textures,
\* framebuffers and renderbuffers are created, bound and deleted in, by whichever
\* thread, what is current, bound or attached exists, renderbuffers share no texture, a
\* generated name is not in use, and a native target belongs to the level it was made
\* for (opengles_hle.cpp).  What textures, surfaces and the window hold is what the
\* uploads, stores, draws and clears make of them, through every refresh, readback and
\* fallback (gles_resources.cpp, gles_renderer.cpp).
GraphicsExact ==
    /\ mix = "batches" =>
        /\ Batches!TargetsHoldDraws /\ Batches!CleanImagesMatch
        /\ Batches!CachedTexturesExact /\ Batches!DisplayShowsPresented
    /\ mix = "gles" =>
        /\ Objects!CurrentsLive /\ Objects!AttachmentsLive /\ Objects!RenderbuffersApart
        /\ Objects!GeneratedNamesFresh /\ Objects!TargetsBelong
    /\ mix = "textures" =>
        /\ Pixels!ThingsHoldDraws /\ Pixels!CachedTexelsExact

\* Continuations of replaced functions run once, for the call they were installed for,
\* and a function is patched exactly while it has a record (userland_hle.cpp); the
\* disconnect chains of telephone calls release what they make, end the call they were
\* begun for and announce it once (core_telephony_hle.cpp).
ReplacedCallsExact ==
    /\ mix = "calls" =>
        /\ Calls!TrampolinesExact /\ Calls!CallsReturnToOwners /\ Calls!CallsKeepArguments
        /\ Calls!PatchesMatchRecords /\ Calls!FirstInstructionRuns
    /\ mix = "phone" =>
        /\ Calls!ObjectsOwned /\ Calls!CallsCanBeEnded /\ Calls!EndedCallsForgotten

\* Breakpoints come out again as they went in, and the debugger's commands, steps and
\* stops are answered (gdb_rsp.cpp, main.cpp).
DebuggerExact == mix = "debug" =>
    /\ Debug!BreakpointsReversible /\ Debug!RepliesMatchCommands
    /\ Debug!StepsReported /\ Debug!StopsNameThreads
=============================================================================
