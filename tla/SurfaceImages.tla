--------------------------- MODULE SurfaceImages ---------------------------
(***************************************************************************)
(* The three copies of a surface's pixels and what keeps them coherent:    *)
(* the guest's bytes with the snapshot the emulator compares them with     *)
(* (SurfaceStore::SyncState), the CPU frame of the HostSurface with its    *)
(* generations and damage (host_graphics.cpp), and the image the Vulkan    *)
(* renderer draws to and samples (vulkan_gles_renderer.cpp).               *)
(*                                                                         *)
(* A surface is a row of pixels in one guest page.  An encoder captures    *)
(* what it may have to upload without the renderer's lock, so a draw is    *)
(* two steps; every other call is one.  The guest stores only into a       *)
(* surface it has locked, and draws to it only while it is not locked.     *)
(***************************************************************************)
EXTENDS Integers, FiniteSets

CONSTANTS
    Pix,            \* pixels, 1 .. n
    Colors,         \* their values
    Encoders,       \* command encoders that may be drawing at once
    MaxGenerations  \* bound of the generations of the surface

SurfaceImagesAssumption ==
    /\ Pix = 1 .. Cardinality(Pix) /\ Pix # {} /\ Colors # {}
    /\ MaxGenerations \in Nat

VARIABLES
    guest,          \* the pixels in guest memory
    snapshot,       \* guest_pixel_snapshot
    pageWritten,    \* the page was written since shared_page_generations was noted
    host,           \* the HostSurface: CPU frame, generations, cpu_damage_
    target,         \* the renderer's Target of the surface
    lockHeld,       \* the options of the guest's Lock, or "none"
    encoding,       \* by encoder: what was captured, or Idle
    newest,         \* history: the content the guest's calls define
    unflushed,      \* history: pixels stored in guest memory and not yet published
    unwritten,      \* history: pixels read back from the renderer past the guest's bytes
    lapsed          \* history: pixels of which the host's newest copy is lost (see Lapses)

imageVars == <<guest, snapshot, pageWritten, host, target, lockHeld, encoding,
               newest, unflushed, unwritten, lapsed>>

Idle == [role |-> "idle"]
Merge(old, new, S) == [p \in Pix |-> IF p \in S THEN new[p] ELSE old[p]]
Painted(old, S, v) == [p \in Pix |-> IF p \in S THEN v ELSE old[p]]
\* Rectangles, and the union_rectangle of several.
Rectangles == {a .. b : a, b \in Pix} \ {{}}
Hull(S) == {p \in Pix : (\E a \in S : a <= p) /\ (\E b \in S : p <= b)}
Later(a, b) == IF a >= b THEN a ELSE b

\* publish: the CPU frame is what the guest's bytes are, two replacements on.
ImagesInit ==
    /\ \E v \in Colors : guest = [p \in Pix |-> v]
    /\ snapshot = guest /\ newest = guest /\ pageWritten = FALSE
    /\ host = [frame |-> guest, cpu |-> 3, gpu |-> 0, next |-> 3, damage |-> Pix]
    /\ target = [image |-> guest, valid |-> FALSE, cpu |-> 0, dirty |-> {}]
    /\ lockHeld = "none" /\ encoding = [e \in Encoders |-> Idle]
    /\ unflushed = {} /\ unwritten = {} /\ lapsed = {}

-----------------------------------------------------------------------------
(***************************************************************************)
(* HostSurface.                                                            *)
(***************************************************************************)
mark_cpu_write(h, S) == [h EXCEPT !.cpu = h.next + 1, !.next = @ + 1, !.damage = @ \cup S]
replace_cpu(h, pixels) == [mark_cpu_write(h, Pix) EXCEPT !.frame = pixels]
replace_cpu_region(h, S, v) == [mark_cpu_write(h, S) EXCEPT !.frame = Painted(h.frame, S, v)]

mark_gpu_write(h) == [h EXCEPT !.gpu = h.next + 1, !.next = @ + 1]

mark_cpu_synchronized(h, generation) ==
    [h EXCEPT !.cpu = Later(@, generation), !.next = Later(@, Later(h.cpu, generation)),
              !.damage = IF generation >= h.cpu THEN {} ELSE @]

\* Mutant: an upload clears the damage of a write that came after it.
SynchronizedForgets(h, generation) ==
    [h EXCEPT !.gpu = Later(@, generation), !.next = Later(@, Later(h.gpu, generation)),
              !.damage = {}]

mark_gpu_synchronized(h, generation) ==
    [h EXCEPT !.gpu = Later(@, generation), !.next = Later(@, Later(h.gpu, generation)),
              !.damage = IF generation >= h.cpu THEN {} ELSE @]

GpuNewer(h) == h.gpu > h.cpu

-----------------------------------------------------------------------------
(***************************************************************************)
(* The renderer.                                                           *)
(***************************************************************************)
\* synchronize: the dirty rectangle is copied into the CPU frame.
Readback(t) == IF t.valid THEN t.dirty ELSE {}
map_cpu(h, t) == mark_cpu_synchronized([h EXCEPT !.frame = Merge(@, t.image, Readback(t))], h.gpu)
Synchronized(t) == IF t.valid THEN [t EXCEPT !.dirty = {}] ELSE t
\* A failure of the device takes the dirty pixels with it.
SynchronizeFailed(t) == [t EXCEPT !.valid = FALSE, !.dirty = {}]

\* capture_surface_preparation.
Captured(role, S) ==
    LET current == target.valid /\ (host.cpu <= target.cpu \/ (host.gpu # 0 /\ host.cpu = host.gpu))
    IN  [role |-> role, region |-> S, cpu |-> host.cpu, gpu |-> host.gpu,
         needed |-> ~current /\ ~GpuNewer(host), frame |-> host.frame,
         damage |-> IF host.cpu > host.gpu THEN host.damage ELSE {}, published |-> {}]

\* prepare_host_surface.
Prepared(t, c) ==
    LET partial == t.valid /\ t.cpu # 0 /\ c.damage # {}
        upload == IF partial THEN c.damage ELSE Pix
    IN  IF \/ t.valid /\ c.cpu <= t.cpu
           \/ t.valid /\ c.gpu # 0 /\ c.cpu = c.gpu
           \/ c.cpu < c.gpu \/ ~c.needed
        THEN t
        ELSE [image |-> Merge(t.image, c.frame, upload), valid |-> TRUE, cpu |-> c.cpu,
              dirty |-> IF upload = Pix THEN {} ELSE t.dirty]

-----------------------------------------------------------------------------
(***************************************************************************)
(* SurfaceStore.  Each call is given by what it does to the six copies,    *)
(* m = [guest, snapshot, pageWritten, host, target], and to the history.   *)
(***************************************************************************)
Copies == [guest |-> guest, snapshot |-> snapshot, pageWritten |-> pageWritten,
           host |-> host, target |-> target, unwritten |-> unwritten]

Become(m) ==
    /\ guest' = m.guest /\ snapshot' = m.snapshot /\ pageWritten' = m.pageWritten
    /\ host' = m.host /\ target' = m.target /\ unwritten' = m.unwritten

Within == host.next + 3 <= MaxGenerations

\* synchronize_for_cpu, when the GPU's copy is newer: what is read back goes
\* to the guest's bytes and to the snapshot.
synchronize_for_cpu(m) ==
    IF ~GpuNewer(m.host) THEN m
    ELSE LET S == Readback(m.target)
             h == map_cpu(m.host, m.target)
         IN  [m EXCEPT !.host = h, !.target = Synchronized(@),
                       !.guest = Merge(@, h.frame, S), !.snapshot = Merge(@, h.frame, S),
                       !.pageWritten = IF S = {} THEN @ ELSE FALSE,
                       !.unwritten = @ \ S]

\* map_cpu for a reader on the host's side: the guest's bytes stay behind.
ReadBack(m) ==
    [m EXCEPT !.host = map_cpu(@, m.target), !.target = Synchronized(@),
              !.unwritten = @ \cup Readback(m.target)]

\* synchronize_from_guest: the pixels that differ from the snapshot.
Stored(m) == IF m.pageWritten THEN {p \in Pix : m.guest[p] # m.snapshot[p]} ELSE {}

synchronize_from_guest(m) ==
    LET S == Stored(m)
        m1 == IF S # {} /\ GpuNewer(m.host) THEN ReadBack(m) ELSE m
    IN  IF S = {} THEN [m EXCEPT !.pageWritten = FALSE]
        ELSE [m1 EXCEPT !.host = [mark_cpu_write(@, Hull(S)) EXCEPT !.frame = Merge(@, m.guest, S)],
                        !.snapshot = Merge(@, m.guest, S), !.pageWritten = FALSE,
                        !.unwritten = @ \ S]

\* read_argb: the renderer's pixels if they are newer, else the guest's.
read_argb(m) ==
    IF GpuNewer(m.host) THEN ReadBack(m)
    ELSE [m EXCEPT !.host = replace_cpu(@, m.guest), !.snapshot = m.guest, !.pageWritten = FALSE]

write_argb(m, pixels) ==
    [m EXCEPT !.guest = pixels, !.host = replace_cpu(@, pixels), !.snapshot = pixels,
              !.pageWritten = FALSE, !.unwritten = {}]

\* write_bytes: nothing tells the host's copies.
write_bytes(m, S, v) == [m EXCEPT !.guest = Painted(@, S, v), !.pageWritten = FALSE]

\* Mbx2dHle::write_region, the software path of a draw: the snapshot is not
\* told.
write_region(m, S, v) ==
    LET m1 == IF S = Pix THEN m ELSE synchronize_for_cpu(m)
    IN  [m1 EXCEPT !.guest = Painted(@, S, v), !.pageWritten = TRUE,
                   !.host = replace_cpu_region(@, S, v), !.unwritten = @ \ S]

\* What a copy's pixels are on the host: the copy with the newer generation.
HostPixel(h, t, p) == IF GpuNewer(h) THEN t.image[p] ELSE h.frame[p]

\* Guest bytes that no host copy knows of are overwritten by a readback.
Overwritten == IF GpuNewer(host) THEN unflushed \cap Readback(target) ELSE {}
Overwrites == unflushed' = unflushed \ Overwritten /\ lapsed' = lapsed \cup Overwritten

-----------------------------------------------------------------------------
(***************************************************************************)
(* The guest's processor.                                                  *)
(***************************************************************************)
NoDraw == \A e \in Encoders : encoding[e].role # "destination"
Publishing(S) == encoding' = [e \in Encoders |-> IF encoding[e] = Idle THEN Idle
                                ELSE [encoding[e] EXCEPT !.published = @ \cup S]]

\* CoreSurfaceBufferLock.  AvoidSync is obeyed for writable locks only.
Lock(options) ==
    /\ lockHeld = "none" /\ NoDraw
    /\ Become(IF options = "avoid" THEN Copies ELSE synchronize_for_cpu(Copies))
    /\ IF options = "avoid" THEN UNCHANGED <<unflushed, lapsed>> ELSE Overwrites
    /\ lockHeld' = options
    /\ UNCHANGED <<encoding, newest>>

\* The readback fails: the pixels are lost, and the lock is refused.
LockFails(options) ==
    /\ lockHeld = "none" /\ NoDraw /\ options # "avoid"
    /\ GpuNewer(host) /\ Readback(target) # {}
    /\ target' = SynchronizeFailed(target) /\ lapsed' = lapsed \cup Pix
    /\ UNCHANGED <<guest, snapshot, pageWritten, host, lockHeld, encoding, newest, unflushed, unwritten>>

Store(p, v) ==
    /\ lockHeld \in {"write", "avoid"}
    /\ guest' = [guest EXCEPT ![p] = v] /\ pageWritten' = TRUE
    /\ newest' = [newest EXCEPT ![p] = v] /\ unflushed' = unflushed \cup {p}
    /\ unwritten' = unwritten \ {p}
    /\ UNCHANGED <<snapshot, host, target, lockHeld, encoding, lapsed>>

\* Stored pixels reach the host unless the snapshot has the same value and
\* the host another; what the snapshot was never told is published again.
Publishes ==
    /\ Within /\ Become(synchronize_from_guest(Copies))
    /\ unflushed' = IF pageWritten THEN {} ELSE unflushed
    /\ Publishing(Stored(Copies))
    /\ lapsed' = (lapsed \ Stored(Copies)) \cup {p \in Pix \ unflushed' : p \in Stored(Copies) \cup unflushed
                                                    /\ HostPixel(host', target', p) # newest[p]}
    /\ UNCHANGED newest

\* FlushProcessorCaches, mbx2DFlushSurfaces and the consumption of a source.
FlushSurface == Publishes /\ UNCHANGED lockHeld

Unlock ==
    /\ lockHeld # "none" /\ lockHeld' = "none"
    /\ IF lockHeld = "read"
       THEN UNCHANGED <<guest, snapshot, pageWritten, host, target, encoding, newest,
                        unflushed, unwritten, lapsed>>
       ELSE Publishes

-----------------------------------------------------------------------------
(***************************************************************************)
(* Draws.                                                                  *)
(***************************************************************************)
BeginDraw(e, S) ==
    /\ Within /\ encoding[e] = Idle /\ lockHeld = "none"
    /\ encoding' = [encoding EXCEPT ![e] = Captured("destination", S)]
    /\ UNCHANGED <<guest, snapshot, pageWritten, host, target, lockHeld, newest, unflushed, unwritten, lapsed>>

\* The source of a blit or a composition.
BeginSample(e) ==
    /\ encoding[e] = Idle
    /\ encoding' = [encoding EXCEPT ![e] = Captured("source", {})]
    /\ UNCHANGED <<guest, snapshot, pageWritten, host, target, lockHeld, newest, unflushed, unwritten, lapsed>>

EncodesDraw(e, v) ==
    LET c == encoding[e]
        t == Prepared(target, c)
    IN  /\ t.valid
        /\ target' = [t EXCEPT !.image = Painted(@, c.region, v), !.dirty = Hull(@ \cup c.region)]
        /\ host' = mark_gpu_write(mark_gpu_synchronized(host, c.cpu))
        /\ UNCHANGED <<guest, snapshot, pageWritten, unwritten>>

\* The renderer refuses: the draw is done in guest memory.
DrawsInSoftware(e, v) ==
    /\ ~Prepared(target, encoding[e]).valid
    /\ Become(write_region(Copies, encoding[e].region, v))

EndDraw(e, v) ==
    /\ Within /\ encoding[e].role = "destination" /\ lockHeld = "none"
    /\ EncodesDraw(e, v) \/ DrawsInSoftware(e, v)
    /\ encoding' = [d \in Encoders |->
          IF d = e \/ encoding[d] = Idle THEN Idle
          ELSE [encoding[d] EXCEPT !.published = @ \cup encoding[e].region]]
    /\ newest' = Painted(newest, encoding[e].region, v)
    /\ unflushed' = unflushed \ encoding[e].region
    /\ lapsed' = (lapsed \ encoding[e].region)
                    \cup {p \in encoding[e].published \ encoding[e].region :
                            HostPixel(host', target', p) # newest[p]}
    /\ UNCHANGED lockHeld

EndSample(e) ==
    /\ encoding[e].role = "source"
    /\ target' = Prepared(target, encoding[e])
    /\ host' = IF target'.valid THEN mark_gpu_synchronized(host, encoding[e].cpu) ELSE host
    /\ encoding' = [encoding EXCEPT ![e] = Idle]
    /\ UNCHANGED <<guest, snapshot, pageWritten, lockHeld, newest, unflushed, unwritten, lapsed>>

\* A draw with a blend the encoder does not know.
SoftwareDraw(S, v) ==
    /\ Within /\ lockHeld = "none" /\ NoDraw
    /\ Become(write_region(Copies, S, v))
    /\ newest' = Painted(newest, S, v) /\ unflushed' = unflushed \ S
    /\ Publishing(S) /\ lapsed' = lapsed \ S
    /\ UNCHANGED lockHeld

-----------------------------------------------------------------------------
(***************************************************************************)
(* Readers and writers outside the guest's locks.                          *)
(***************************************************************************)
\* read_region of a source the encoder cannot use.
SoftwareSample ==
    /\ NoDraw /\ Become(synchronize_for_cpu(Copies)) /\ Overwrites
    /\ UNCHANGED <<lockHeld, encoding, newest>>

\* read_argb: the software compositor, JPEG and texture uploads.
ReadPixels ==
    /\ Within /\ Become(read_argb(Copies))
    /\ unflushed' = IF GpuNewer(host) THEN unflushed ELSE {}
    /\ Publishing(IF GpuNewer(host) THEN {} ELSE Pix)
    /\ lapsed' = IF GpuNewer(host) THEN lapsed
                 ELSE {p \in Pix : guest[p] # newest[p]}
    /\ UNCHANGED <<lockHeld, newest>>

\* write_argb: the camera, a software renderer and transfer_scaled.
WritePixels(v) ==
    /\ Within /\ lockHeld = "none" /\ NoDraw
    /\ Become(write_argb(Copies, [p \in Pix |-> v]))
    /\ newest' = [p \in Pix |-> v] /\ unflushed' = {}
    /\ Publishing(Pix) /\ lapsed' = {}
    /\ UNCHANGED lockHeld

\* write_bytes: the JPEG codec.
WriteBytes(S, v) ==
    /\ lockHeld = "none" /\ NoDraw
    /\ Become(write_bytes(Copies, S, v))
    /\ newest' = Painted(newest, S, v) /\ lapsed' = lapsed \cup S
    /\ UNCHANGED <<lockHeld, encoding, unflushed>>

\* The display reads the surface it was given, whichever copy is newer.
DeferredRead ==
    /\ Become(ReadBack(Copies))
    /\ lapsed' = lapsed \cup IF GpuNewer(host) THEN {} ELSE Readback(target)
    /\ UNCHANGED <<lockHeld, encoding, newest, unflushed>>

\* The renderer gives the image up (release, release_owner): nothing of the
\* surface is read back.
ReleaseTarget ==
    /\ target.valid /\ ~GpuNewer(host) /\ \A e \in Encoders : encoding[e] = Idle
    /\ target' = [target EXCEPT !.valid = FALSE, !.cpu = 0, !.dirty = {}]
    /\ UNCHANGED <<guest, snapshot, pageWritten, host, lockHeld, encoding, newest,
                   unflushed, unwritten, lapsed>>

ImagesNext ==
    \/ \E o \in {"read", "write", "avoid"} : Lock(o) \/ LockFails(o)
    \/ \E p \in Pix, v \in Colors : Store(p, v)
    \/ FlushSurface \/ Unlock
    \/ \E e \in Encoders : \/ \E S \in Rectangles : BeginDraw(e, S)
                           \/ \E v \in Colors : EndDraw(e, v)
                           \/ BeginSample(e) \/ EndSample(e)
    \/ \E S \in Rectangles, v \in Colors : SoftwareDraw(S, v) \/ WriteBytes(S, v)
    \/ \E v \in Colors : WritePixels(v)
    \/ SoftwareSample \/ ReadPixels \/ DeferredRead \/ ReleaseTarget

-----------------------------------------------------------------------------
\* The host never falls behind what was published to it, whichever of its
\* copies is the newer one.
HostHoldsNewest ==
    \A p \in Pix \ (unflushed \cup lapsed) : HostPixel(host, target, p) = newest[p]

\* A draw that began now would sample the newest pixels.
SourcesSampleNewest ==
    LET t == Prepared(target, Captured("source", {}))
    IN  t.valid => \A p \in Pix \ (unflushed \cup lapsed) : t.image[p] = newest[p]

\* A guest that locked the surface to read it reads the newest pixels.
LockReadsNewest ==
    lockHeld \in {"read", "write"} =>
        \A p \in Pix \ (unwritten \cup lapsed) : guest[p] = newest[p]
=============================================================================
