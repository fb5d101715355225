-------------------------------- MODULE Audio --------------------------------
(*****************************************************************************)
(* The two sides of audio.  First the I/O procedures of CoreAudio            *)
(* (media/core_audio_hle.cpp) and the guest threads that run them            *)
(* (CompatibilityKernel::schedule_due_audio_io) within one process: a        *)
(* procedure of the synthetic device is the one "legacy" procedure of the    *)
(* process; procedures of the firmware's devices have identifiers.  Each     *)
(* owns one guest thread, parked between periods.  System calls and the      *)
(* guest loop exclude one another (mutex_, deferred SVC dispatch), so every  *)
(* handler is one step.                                                      *)
(*                                                                           *)
(* Then what the host plays: the sources that the firmware's media server is *)
(* seen to create and control (AudioService, media/audio.cpp), the samples   *)
(* of the audio devices, and the queue of the host's audio device            *)
(* (app/audio/sdl_audio_sink.cpp).  A service call decides under the         *)
(* service's mutex and then works on the sink, one lock at a time (todo),    *)
(* while the host's audio callback consumes.                                 *)
(*                                                                           *)
(* The two meet only in the samples, whose values are not modelled: each is  *)
(* a state machine of its own.                                               *)
(*****************************************************************************)
EXTENDS Integers, FiniteSets, FiniteSetsExt, Sequences

CONSTANTS
    FirmwareDevices,    \* devices of the firmware's own HAL
    Callbacks,          \* guest functions given as procedures
    ThreadSlots,        \* guest threads besides the caller's
    FrameSizes,         \* buffer sizes a guest sets, with 0
    MaxFrames,          \* maximum_buffer_frame_size
    MaxProcs,           \* bound of the identifiers
    MaxAudioNow         \* bound of the clock

AudioCallbacksAssumption ==
    /\ ThreadSlots \subseteq Nat \ {0} /\ FrameSizes \subseteq Nat
    /\ MaxFrames \in Nat /\ MaxProcs \in Nat /\ MaxAudioNow \in Nat

VARIABLES
    procs,          \* io_procs_ and native_io_procs_
    nextProc,       \* next_native_io_proc_id_
    frames,         \* buffer_frame_size_
    slot,           \* the guest threads: free, or parked or running a bound callback
    audioNow,       \* KernelClock::now
    misused,        \* history: procedures added over another or started in flight
    rewritten       \* history: procedures whose running thread was given new registers

Synthetic == "synthetic"
Legacy == 0
Free == [state |-> "free"]
NoSlot == 0
Registered(d, f) ==
    [device |-> d, callback |-> f, slot |-> NoSlot, running |-> FALSE, inFlight |-> FALSE, due |-> 0]

CallbacksInit ==
    /\ procs = << >> /\ nextProc = 1 /\ frames = 1
    /\ slot = [s \in ThreadSlots |-> Free] /\ audioNow = 0
    /\ misused = {} /\ rewritten = {}

Put(f, x, v) == [y \in DOMAIN f \cup {x} |-> IF y = x THEN v ELSE f[y]]
Without(f, x) == [y \in DOMAIN f \ {x} |-> f[y]]
\* reap_stopped_audio_threads, at the end of the call that retired the thread.
Reaped(s) == IF s = NoSlot THEN slot ELSE [slot EXCEPT ![s] = Free]

-----------------------------------------------------------------------------
(***************************************************************************)
(* The calls of the guest.                                                 *)
(***************************************************************************)
\* A legacy procedure takes the place of the one there was, thread and all.
add_io_proc(d, f) ==
    /\ IF d = Synthetic
       THEN /\ procs' = Put(procs, Legacy, Registered(d, f))
            /\ misused' = misused \cup (DOMAIN procs \cap {Legacy})
            /\ UNCHANGED nextProc
       ELSE /\ nextProc <= MaxProcs
            /\ procs' = Put(procs, nextProc, Registered(d, f))
            /\ nextProc' = nextProc + 1 /\ UNCHANGED misused
    /\ UNCHANGED <<frames, slot, audioNow, rewritten>>

\* output_id may be unwritable, which takes the registration back.
create_native_io_proc(d, f, writable) ==
    /\ nextProc <= MaxProcs /\ nextProc' = nextProc + 1
    /\ procs' = IF writable THEN Put(procs, nextProc, Registered(d, f)) ELSE procs
    /\ UNCHANGED <<frames, slot, audioNow, misused, rewritten>>

Removed(k) ==
    /\ slot' = Reaped(procs[k].slot) /\ procs' = Without(procs, k)
    /\ UNCHANGED <<nextProc, frames, audioNow, misused, rewritten>>

destroy_native_io_proc(k, d) ==
    /\ k \in DOMAIN procs \ {Legacy} /\ procs[k].device = d /\ Removed(k)

\* The procedures a call names by the device and the callback: for a native
\* one the first of them, or the identifier itself.
Native(d, f) == {k \in DOMAIN procs \ {Legacy} : procs[k].device = d /\ procs[k].callback = f}
Named(d, f) ==
    IF d = Synthetic THEN {k \in DOMAIN procs \cap {Legacy} : procs[k].callback = f}
    ELSE IF Native(d, f) = {} THEN {} ELSE {Min(Native(d, f))}
Identified(d, k) == IF d # Synthetic /\ k \in DOMAIN procs \ {Legacy} /\ procs[k].device = d THEN {k} ELSE {}

remove_io_proc(d, f) == \E k \in Named(d, f) : Removed(k)

start_io(k) ==
    /\ frames \in 1 .. MaxFrames
    /\ procs' = [procs EXCEPT ![k].running = TRUE, ![k].inFlight = FALSE, ![k].due = 0]
    /\ misused' = IF procs[k].running /\ procs[k].inFlight THEN misused \cup {k} ELSE misused
    /\ UNCHANGED <<nextProc, frames, slot, audioNow, rewritten>>

stop_io(k) ==
    /\ procs' = [procs EXCEPT ![k].running = FALSE, ![k].slot = NoSlot]
    /\ slot' = Reaped(procs[k].slot)
    /\ UNCHANGED <<nextProc, frames, audioNow, misused, rewritten>>

SetFrames(n) == 
    /\ frames' = n /\ UNCHANGED <<procs, nextProc, slot, audioNow, misused, rewritten>>

\* prepare_exec, after which the guest loop frees the other threads.
ExecAudio ==
    /\ procs' = << >> /\ nextProc' = 1 /\ slot' = [s \in ThreadSlots |-> Free]
    /\ misused' = {} /\ rewritten' = {} /\ UNCHANGED <<frames, audioNow>>

-----------------------------------------------------------------------------
(***************************************************************************)
(* The guest loop.                                                         *)
(***************************************************************************)
Due(now) == {k \in DOMAIN procs : procs[k].running /\ ~procs[k].inFlight /\ procs[k].due <= now}

\* The native procedure of the lowest identifier, or the legacy one unless
\* the native one is due earlier.
take_due_io_proc(now) ==
    LET native == Due(now) \ {Legacy}
        first == Min(native)
    IN  IF native = {} \/ (Legacy \in Due(now) /\ procs[Legacy].due <= procs[first].due)
        THEN Legacy ELSE first

\* The taken procedure, its next period begun.
Taken(k, now) ==
    [procs EXCEPT ![k].inFlight = TRUE,
                  ![k].due = Max({now, @}) + Max({1, frames})]
\* Mutant: a callback that could not be scheduled stays in flight.
FailureKeepsFlight(k, now) == [Taken(k, now) EXCEPT ![k].slot = NoSlot]
io_proc_schedule_failed(k, now) ==
    [Taken(k, now) EXCEPT ![k].inFlight = FALSE, ![k].slot = NoSlot]

MemoryLost(k) ==
    /\ procs' = [procs EXCEPT ![k].running = FALSE] /\ UNCHANGED <<slot, rewritten>>

WakeThread(k, now) ==
    /\ procs[k].slot # NoSlot /\ procs' = Taken(k, now)
    /\ slot' = [slot EXCEPT ![procs[k].slot].state = "running"]
    /\ rewritten' = IF slot[procs[k].slot].state = "running" THEN rewritten \cup {k} ELSE rewritten

CreateThread(k, now) ==
    /\ procs[k].slot = NoSlot
    /\ \E s \in ThreadSlots :
          /\ slot[s] = Free
          /\ slot' = [slot EXCEPT ![s] = [state |-> "running", of |-> k]]
          /\ procs' = [Taken(k, now) EXCEPT ![k].slot = s]
    /\ UNCHANGED rewritten

\* No thread to be had, or one that cannot be bound or woken: it is unbound,
\* terminated and given up.
ScheduleFails(k, now) ==
    /\ procs' = io_proc_schedule_failed(k, now) /\ slot' = Reaped(procs[k].slot)
    /\ UNCHANGED rewritten

schedule_due_audio_io(now) ==
    /\ Due(now) # {}
    /\ LET k == take_due_io_proc(now)
       IN  MemoryLost(k) \/ WakeThread(k, now) \/ CreateThread(k, now) \/ ScheduleFails(k, now)
    /\ UNCHANGED <<nextProc, frames, misused>>

\* The clock moves on, or an idle loop serves the earliest deadline, which
\* may lie behind the clock.
AudioPeriod ==
    \/ /\ audioNow < MaxAudioNow /\ audioNow' = audioNow + 1
       /\ \/ schedule_due_audio_io(audioNow + 1)
          \/ Due(audioNow + 1) = {} /\ UNCHANGED <<procs, nextProc, frames, slot, misused, rewritten>>
    \/ \E k \in DOMAIN procs :
          /\ k \in Due(audioNow) /\ procs[k].due < audioNow
          /\ \A j \in Due(audioNow) : procs[k].due <= procs[j].due
          /\ schedule_due_audio_io(procs[k].due) /\ UNCHANGED audioNow

\* The callback returns into thread_callback_return_address_.
complete_io_proc(k) ==
    IF k \in DOMAIN procs THEN [procs EXCEPT ![k].inFlight = FALSE] ELSE procs
CallbackReturns(s) ==
    /\ slot[s].state = "running"
    /\ procs' = complete_io_proc(slot[s].of)
    /\ slot' = [slot EXCEPT ![s].state = "parked"]
    /\ UNCHANGED <<nextProc, frames, audioNow, misused, rewritten>>

CallbacksNext ==
    \/ \E d \in FirmwareDevices \cup {Synthetic}, f \in Callbacks :
          \/ add_io_proc(d, f) \/ remove_io_proc(d, f)
          \/ \E w \in BOOLEAN : create_native_io_proc(d, f, w)
          \/ \E k \in Named(d, f) : start_io(k) \/ stop_io(k)
    \/ \E d \in FirmwareDevices, i \in DOMAIN procs : \E k \in Identified(d, i) :
          destroy_native_io_proc(k, d) \/ start_io(k) \/ stop_io(k)
    \/ \E n \in FrameSizes : SetFrames(n)
    \/ ExecAudio
    \/ AudioPeriod
    \/ \E s \in ThreadSlots : CallbackReturns(s)

-----------------------------------------------------------------------------
\* A procedure and its thread name each other: a thread kept for a procedure
\* is bound to it, and a bound thread is kept by its procedure, unless a
\* legacy procedure was added over the one that had it.
ThreadsOwned ==
    /\ \A k \in DOMAIN procs : procs[k].slot # NoSlot =>
          slot[procs[k].slot] # Free /\ slot[procs[k].slot].of = k
    /\ \A s \in ThreadSlots : slot[s] # Free =>
          \/ slot[s].of \in DOMAIN procs /\ procs[slot[s].of].slot = s
          \/ slot[s].of = Legacy

\* A started procedure waits for a callback only while one runs, so that the
\* next period is served: audio never falls silent.
CallbackAwaited ==
    \A k \in DOMAIN procs \ misused :
        procs[k].running /\ procs[k].inFlight =>
            procs[k].slot # NoSlot /\ slot[procs[k].slot].state = "running"

\* The registers of a thread are set for the next period only when it has
\* returned from the last.
ThreadsRewrittenParked == rewritten \subseteq misused

-----------------------------------------------------------------------------
CONSTANTS
    SourceIds,          \* identifiers of media server sources
    AudioFiles, Unplayable,
    ReplyPorts,         \* objects a create request awaits its reply on
    FileFrames,         \* frames of a decoded file
    FadeFrames,         \* frames of fade_duration_milliseconds
    LeadFrames,         \* frames of streaming_lead_periods
    Volumes,            \* gains
    MaxQueued           \* bound of the frames queued

AudioPlaybackAssumption ==
    /\ Unplayable \subseteq AudioFiles /\ SourceIds \subseteq Nat \ {0} /\ Volumes \subseteq Nat
    /\ {FileFrames, FadeFrames, MaxQueued} \subseteq Nat \ {0} /\ LeadFrames \in Nat

VARIABLES
    sources,        \* service_sources_
    requested,      \* pending_service_source_creates_
    playing,        \* playing_service_source_id_, playing_service_source_
    latest,         \* latest_service_source_id_
    stopMode,       \* service_output_stop_mode_
    ringtone,       \* category_volumes_["Ringtone"]
    deviceVolume,   \* device_output_gain of the device that produces samples
    sink,           \* SdlAudioSink::Impl
    todo,           \* what the call in progress has left to do on the sink
    orphans,        \* history: files of sources whose replacement could not be played
    restated        \* history: the playing source, created again

playbackVars == <<sources, requested, playing, latest, stopMode, ringtone, deviceVolume,
                  sink, todo, orphans, restated>>

None == 0
Pcm == "pcm"
Unset == -1
NoPath == "no path"

PlaybackInit ==
    /\ sources = << >> /\ requested = [r \in ReplyPorts |-> << >>]
    /\ playing = None /\ latest = None /\ stopMode = "immediate"
    /\ ringtone \in Volumes /\ deviceVolume = Max(Volumes)
    /\ sink = [queue |-> << >>, count |-> 0, fade |-> 0, lead |-> 0, needsLead |-> TRUE,
               gain |-> Max(Volumes)]
    /\ todo = << >> /\ orphans = {} /\ restated = FALSE

-----------------------------------------------------------------------------
(***************************************************************************)
(* The sink.                                                               *)
(***************************************************************************)
\* The chunks of the queue are one sequence of frames, each with its file.
trim_pending_samples(k, n) == [k EXCEPT !.queue = SubSeq(@, 1, Min({n, Len(@)})), !.count = Min({n, @})]
retire_all(k) == [k EXCEPT !.queue = << >>, !.count = 0, !.lead = 0, !.fade = 0]

\* A fade in progress is not begun again, and what was queued behind it goes.
stop(k, mode) ==
    LET stopped == [k EXCEPT !.lead = 0, !.needsLead = TRUE]
        fade == Min({k.count, FadeFrames})
    IN  IF mode = "immediate" \/ k.count = 0 THEN retire_all(stopped)
        ELSE IF k.fade # 0 THEN trim_pending_samples(stopped, k.fade)
        ELSE [trim_pending_samples(stopped, fade) EXCEPT !.fade = fade]

\* The converter may hold back the frames of a streamed buffer.
play(k, from, n) ==
    LET begins == from = Pcm /\ k.needsLead
        led == IF ~begins THEN k
               ELSE [k EXCEPT !.needsLead = FALSE,
                              !.lead = IF k.count = 0 /\ @ = 0 THEN LeadFrames ELSE @]
    IN  [led EXCEPT !.queue = @ \o [i \in 1 .. n |-> from], !.count = @ + n]

\* One frame of the host's audio callback: silence that leads, then samples.
Consumed(k) ==
    IF k.lead > 0 THEN [k EXCEPT !.lead = @ - 1]
    ELSE IF k.queue = << >> THEN k
    ELSE [k EXCEPT !.queue = Tail(@), !.count = @ - 1,
                   !.fade = IF Len(k.queue) = 1 THEN 0 ELSE Max({0, @ - 1})]
consume ==
    /\ sink.lead > 0 \/ sink.queue # << >>
    /\ sink' = Consumed(sink)
    /\ UNCHANGED <<sources, requested, playing, latest, stopMode, ringtone, deviceVolume,
                   todo, orphans, restated>>

\* The next sink operation of the call in progress; the host may refuse to
\* play, and a source that it refuses no longer plays.
SinkStep ==
    /\ todo # << >> /\ todo' = Tail(todo)
    /\ LET op == Head(todo)
       IN  \/ /\ op.do = "stop" /\ sink' = stop(sink, op.mode)
              /\ orphans' = {} /\ restated' = FALSE /\ UNCHANGED playing
           \/ /\ op.do = "gain" /\ sink' = [sink EXCEPT !.gain = op.to]
              /\ UNCHANGED <<playing, orphans, restated>>
           \/ /\ op.do = "play" /\ Len(sink.queue) + op.frames <= MaxQueued
              /\ sink' = play(sink, op.of, op.frames)
              /\ UNCHANGED <<playing, orphans, restated>>
           \/ /\ op.do = "play" /\ UNCHANGED <<sink, orphans, restated>>
              /\ playing' = IF op.by = playing THEN None ELSE playing
    /\ UNCHANGED <<sources, requested, latest, stopMode, ringtone, deviceVolume>>

-----------------------------------------------------------------------------
(***************************************************************************)
(* The service.  Each call begins when the one before has ended.           *)
(***************************************************************************)
Stops(mode) == <<[do |-> "stop", mode |-> mode]>>
SetsGain(g) == <<[do |-> "gain", to |-> g]>>
Plays(s, what, n) == <<[do |-> "play", by |-> s, of |-> what, frames |-> n]>>

\* The playing source once retire_finished_service_source_locked was called.
Retired == IF sink.count # 0 THEN playing ELSE None
NewSource == [path |-> NoPath, volume |-> Unset, rate |-> 0, mode |-> "immediate"]
Known(s) == IF s \in DOMAIN sources THEN sources[s] ELSE NewSource
Gain(source) == IF source.volume = Unset THEN ringtone ELSE source.volume

observe_service_source_create_request(r, path) ==
    /\ todo = << >> /\ Len(requested[r]) < 2
    /\ requested' = [requested EXCEPT ![r] = Append(@, path)]
    /\ UNCHANGED <<sources, playing, latest, stopMode, ringtone, deviceVolume, sink, todo, orphans, restated>>

Changes(s, path) == Known(s).path # path
observe_service_source_create_reply(r, s) ==
    /\ todo = << >> /\ requested[r] # << >>
    /\ LET path == Head(requested[r])
           ends == Changes(s, path) /\ playing = s
       IN  /\ requested' = [requested EXCEPT ![r] = Tail(@)]
           /\ sources' = Put(sources, s, [NewSource EXCEPT !.path = path, !.mode = stopMode])
           /\ latest' = s
           /\ playing' = IF ends THEN None ELSE playing
           /\ todo' = IF ends THEN Stops(IF s \in DOMAIN sources THEN sources[s].mode ELSE stopMode)
                      ELSE << >>
           /\ restated' = (restated \/ (playing = s /\ ~ends))
    /\ UNCHANGED <<stopMode, ringtone, deviceVolume, sink, orphans>>

\* A property that is neither leaves an empty source behind.
SetUserVolume(s, v) ==
    /\ todo = << >> /\ playing' = Retired
    /\ sources' = Put(sources, s, [Known(s) EXCEPT !.volume = v])
    /\ todo' = IF Retired = s THEN SetsGain(v) ELSE << >>
    /\ restated' = (restated /\ Retired # s)
    /\ UNCHANGED <<requested, latest, stopMode, ringtone, deviceVolume, sink, orphans>>

StopRate(s) ==
    /\ todo = << >>
    /\ sources' = Put(sources, s, [Known(s) EXCEPT !.rate = 0])
    /\ playing' = IF Retired = s THEN None ELSE Retired
    /\ todo' = IF Retired = s THEN Stops(Known(s).mode) ELSE << >>
    /\ UNCHANGED <<requested, latest, stopMode, ringtone, deviceVolume, sink, orphans, restated>>

\* The file is decoded before the one that plays is stopped.
StartRate(s) ==
    LET starts == Known(s).path # NoPath /\ Retired # s
        mode == IF Retired # None THEN Known(Retired).mode ELSE Known(s).mode
        fails == Known(s).path \in Unplayable
    IN  /\ todo = << >>
        /\ sources' = Put(sources, s, [Known(s) EXCEPT !.rate = 1])
        /\ playing' = IF ~starts THEN Retired ELSE IF fails THEN None ELSE s
        /\ todo' = IF starts /\ ~fails
                   THEN Stops(mode) \o SetsGain(Gain(Known(s))) \o Plays(s, Known(s).path, FileFrames) ELSE << >>
        /\ orphans' = IF starts /\ fails /\ Retired # None THEN orphans \cup {sources[Retired].path}
                      ELSE orphans
        /\ UNCHANGED <<requested, latest, stopMode, ringtone, deviceVolume, sink, restated>>

\* start_io of a device, which ends its output abruptly or by a fade.
observe_service_output_stop_mode(mode) ==
    /\ todo = << >> /\ playing' = Retired /\ stopMode' = mode
    /\ sources' = [s \in DOMAIN sources |->
                     IF s \in {latest, Retired} THEN [sources[s] EXCEPT !.mode = mode] ELSE sources[s]]
    /\ UNCHANGED <<requested, latest, ringtone, deviceVolume, sink, todo, orphans, restated>>

\* A new ringtone volume is heard at once unless the source has its own.
CategoryGain(v) ==
    IF playing # None /\ playing \in DOMAIN sources /\ sources[playing].volume = Unset
    THEN SetsGain(v) ELSE << >>
observe_category_volume(v) ==
    /\ todo = << >> /\ ringtone' = v /\ todo' = CategoryGain(v)
    /\ restated' = (restated /\ CategoryGain(v) = << >>)
    /\ UNCHANGED <<sources, requested, playing, latest, stopMode, deviceVolume, sink, orphans>>

SetDeviceVolume(v) ==
    /\ todo = << >> /\ deviceVolume' = v
    /\ UNCHANGED <<sources, requested, playing, latest, stopMode, ringtone, sink, todo, orphans, restated>>

\* complete_io_proc with samples that are not all silence: they are dropped
\* while a source plays.  A native procedure applies no gain of its own.
CompletePeriod(native, n) ==
    /\ todo = << >> /\ playing' = Retired
    /\ todo' = IF Retired # None THEN << >>
               ELSE SetsGain(IF native THEN Max(Volumes) ELSE deviceVolume) \o
                    IF n = 0 THEN << >> ELSE Plays(None, Pcm, n)
    /\ UNCHANGED <<sources, requested, latest, stopMode, ringtone, deviceVolume, sink, orphans, restated>>

PlaybackNext ==
    \/ \E r \in ReplyPorts, path \in AudioFiles : observe_service_source_create_request(r, path)
    \/ \E r \in ReplyPorts, s \in SourceIds : observe_service_source_create_reply(r, s)
    \/ \E s \in SourceIds, v \in Volumes : SetUserVolume(s, v)
    \/ \E s \in SourceIds : StopRate(s) \/ StartRate(s)
    \/ \E mode \in {"immediate", "fade"} : observe_service_output_stop_mode(mode)
    \/ \E v \in Volumes : observe_category_volume(v) \/ SetDeviceVolume(v)
    \/ \E native \in BOOLEAN, n \in {0, 1} : CompletePeriod(native, n)
    \/ SinkStep
    \/ consume

-----------------------------------------------------------------------------
\* The count of samples that decides whether a source has finished is the sum
\* of what is queued, a fade never outlasts the queue, and the silence that
\* leads samples of a device delays nothing else.
SinkCountsExact ==
    /\ sink.count = Len(sink.queue) /\ sink.fade <= sink.count
    /\ sink.lead > 0 => sink.fade = 0 /\ \A i \in DOMAIN sink.queue : sink.queue[i] = Pcm

\* What is heard after the fades is the playing source or, while none plays,
\* the devices: a source that was stopped, replaced or created anew is not
\* heard on, except one whose successor could not be played.
SoundsOwned ==
    todo = << >> => \A i \in sink.fade + 1 .. Len(sink.queue) :
        sink.queue[i] \in (IF playing = None THEN {Pcm} ELSE {sources[playing].path}) \cup orphans

\* A playing source is heard at its own volume, or at the ringtone volume.
GainFollowsSource ==
    (todo = << >> /\ playing # None /\ sink.count > 0 /\ ~restated) =>
        sink.gain = Gain(sources[playing])
=============================================================================
