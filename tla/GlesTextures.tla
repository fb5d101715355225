---------------------------- MODULE GlesTextures ----------------------------
(***************************************************************************)
(* The pixels of textures and of what is drawn to.  A texture level keeps  *)
(* pixels of its own, is a view of a CoreSurface, or has become a render   *)
(* target of the framebuffer it is attached to; a HostSurface has a CPU    *)
(* frame, and the renderer an image of it; the renderer caches texels by   *)
(* the revision of their level.  One context of one process draws here, to *)
(* a window, to a pixmap of a CoreSurface or to a framebuffer texture,     *)
(* through the renderer that falls back to software (GlesBackend::Auto).   *)
(* An image is a row of pixels and a draw paints one of them, with a       *)
(* colour or with the same pixel of a texture.                             *)
(***************************************************************************)
EXTENDS Integers, FiniteSets
LOCAL INSTANCE FiniteSetsExt

CONSTANTS
    Textures,      \* texture names
    CoreSurfaces,  \* CoreSurfaces, each with an EGL pixmap surface
    Pix,           \* pixels of an image
    Colors         \* their values

VARIABLES
    store,     \* [levels, revision]: GlesResourceStore
    texels,    \* [cache keys -> revision and pixels]: the renderer's texture_cache_
    hosts,     \* [Keys -> HostSurface: frame and generations]
    natives,   \* [Keys -> the renderer's Target: image, valid, dirty, cpu]
    pixmap,    \* [CoreSurfaces -> SurfaceState: pixels, refreshed; history: stale]
    drawing,   \* the current draw surface
    window,    \* the display's pixels
    intended,  \* history: what each surface, texture and the window should hold
    outdated   \* history: those of which the code has lost or missed a change

GlesTexturesAssumption == Textures \cap CoreSurfaces = {} /\ "window" \notin Textures \cup CoreSurfaces

\* HostSurfaceKeys: a CoreSurface's, and those of render targets of textures.
OfSurface(s) == <<"surface", s>>
OfTexture(t) == <<"texture", t>>
None == <<"none", "none">>
Keys == {OfSurface(s) : s \in CoreSurfaces} \cup {OfTexture(t) : t \in Textures}

Flat(c) == [p \in Pix |-> c]
Merge(old, new, S) == [p \in Pix |-> IF p \in S THEN new[p] ELSE old[p]]
Absent == [p \in {} |-> 0]
Level(argb, surface, host, generation, revision) ==
    [argb |-> argb, surface |-> surface, host |-> host,
     generation |-> generation, revision |-> revision]

-----------------------------------------------------------------------------
(* HostSurface and the renderer's targets, by m = [hosts, natives].         *)

GpuNewer(h) == h.gpu > h.cpu
Generation(h) == IF h.gpu > h.cpu THEN h.gpu ELSE h.cpu
replace_cpu(h, pixels) == [h EXCEPT !.frame = pixels, !.cpu = h.next + 1, !.next = @ + 1]
mark_gpu_write(h) == [h EXCEPT !.gpu = h.next + 1, !.next = @ + 1]
Invalid(n) == [n EXCEPT !.valid = FALSE, !.dirty = {}]
Dirty(n) == IF n.valid THEN n.dirty ELSE {}

Newest(m, k) ==
    IF GpuNewer(m.hosts[k]) /\ m.natives[k].valid THEN m.natives[k].image ELSE m.hosts[k].frame

\* What a readback adds to a frame of the CPU.
Synchronized(frame, n) == Merge(frame, n.image, Dirty(n))

map_cpu(m, k) ==
    LET h == m.hosts[k]
    IN  [hosts   |-> [m.hosts EXCEPT ![k] =
                        [h EXCEPT !.frame = Synchronized(@, m.natives[k]), !.cpu = Generation(h)]],
         natives |-> [m.natives EXCEPT ![k].dirty = {}]]

\* SurfaceStore::read_argb: pixels the CPU holds count as a new write of it.
read_argb(m, s) ==
    LET k == OfSurface(s)
    IN  IF GpuNewer(m.hosts[k]) THEN map_cpu(m, k)
        ELSE [m EXCEPT !.hosts[k] = replace_cpu(@, m.hosts[k].frame)]

Everything == [hosts |-> hosts, natives |-> natives]

\* pixmaps keep the pixels they read when the frame they read them from changes.
Left(m) ==
    /\ hosts' = m.hosts /\ natives' = m.natives
    /\ pixmap' = [s \in CoreSurfaces |->
                    [pixmap[s] EXCEPT !.stale = @ \/ m.hosts[OfSurface(s)].frame # hosts[OfSurface(s)].frame]]

-----------------------------------------------------------------------------
(* GlesResourceStore.                                                       *)

Revised(st, t, l) ==
    [st EXCEPT !.levels[t] = [l EXCEPT !.revision = st.revision], !.revision = @ + 1]

Exists(t) == store.levels[t].revision # 0
Viewed(st, t) == st.levels[t].surface
Thing(t) == IF Viewed(store, t) = "none" THEN t ELSE Viewed(store, t)

\* What import and refresh make of a surface, and the state that reading it leaves.
Decoded(m, s) ==
    LET k    == OfSurface(s)
        read == read_argb(m, s)
    IN  IF GpuNewer(m.hosts[k])
        THEN [m |-> m, level |-> Level(Absent, s, k, m.hosts[k].gpu, 0)]
        ELSE [m |-> read, level |-> Level(read.hosts[k].frame, s, k, read.hosts[k].cpu, 0)]

\* Mutant: a level with pixels counts as current.
RefreshedOnce(m, st, t) ==
    LET l == st.levels[t]
        d == Decoded(m, l.surface)
    IN  IF l.surface = "none" \/ l.argb # Absent THEN [m |-> m, st |-> st]
        ELSE [m |-> d.m, st |-> Revised(st, t, d.level)]

\* refresh_surface_texture.
Refreshed(m, st, t) ==
    LET l == st.levels[t]
        d == Decoded(m, l.surface)
    IN  IF l.surface = "none" THEN [m |-> m, st |-> st]
        ELSE IF [d.level EXCEPT !.revision = l.revision] = [l EXCEPT !.argb = d.level.argb]
                /\ (d.level.argb = Absent \/ d.level.argb = l.argb)
             THEN [m |-> d.m, st |-> st]
             ELSE [m |-> d.m, st |-> Revised(st, t, d.level)]

\* The render target an earlier level of the texture had, of this process.
Previous(t) ==
    IF Viewed(store, t) = "none" /\ store.levels[t].host # None THEN {store.levels[t].host} ELSE {}

Released(ks) ==
    [k \in DOMAIN natives |-> IF k \in ks THEN [Invalid(natives[k]) EXCEPT !.cpu = 0] ELSE natives[k]]

\* upload_texture_2d, allocate_texture_2d, upload_compressed_texture_2d.
Uploaded(st, t, c) == Revised(st, t, Level(Flat(c), "none", None, 0, 0))

\* glTexImage2D, glCompressedTexImage2D.
TexImage2D(t, c) ==
    /\ store' = Uploaded(store, t, c)
    /\ natives' = Released(Previous(t))
    /\ intended' = [intended EXCEPT ![t] = Flat(c)]
    /\ outdated' = outdated \ {t}
    /\ UNCHANGED <<texels, hosts, pixmap, drawing, window>>

Updated(st, t, p, c) == Revised(st, t, [st.levels[t] EXCEPT !.argb[p] = c])

\* glTexSubImage2D changes the level's own pixels, never a render target's.  On
\* a view of a surface the change lasts until the next refresh: left out.
TexSubImage2D(t, p, c) ==
    /\ Exists(t) /\ Viewed(store, t) = "none"
    /\ store' = Updated(store, t, p, c)
    /\ intended' = [intended EXCEPT ![t][p] = c]
    /\ outdated' = IF store.levels[t].host = None THEN outdated ELSE outdated \cup {t}
    /\ UNCHANGED <<texels, hosts, natives, pixmap, drawing, window>>

\* glTexImageCoreSurfaceAPPLE: a render target the level had is not released.
TexImageCoreSurface(t, s) ==
    LET d == Decoded(Everything, s)
    IN  /\ store' = Revised(store, t, d.level)
        /\ Left(d.m)
        /\ UNCHANGED <<texels, drawing, window, intended, outdated>>

\* glFinishTextureAPPLE.
FinishTexture(t) ==
    LET r == Refreshed(Everything, store, t)
    IN  /\ Viewed(store, t) # "none"
        /\ store' = r.st /\ Left(r.m)
        /\ UNCHANGED <<texels, drawing, window, intended, outdated>>

-----------------------------------------------------------------------------
(* The guest's own access to a CoreSurface.                                 *)

\* The guest locks the surface, stores one pixel and unlocks it.
Store(s, p, c) ==
    LET k == OfSurface(s)
        m == IF GpuNewer(hosts[k]) THEN map_cpu(Everything, k) ELSE Everything
    IN  /\ Left([m EXCEPT !.hosts[k] = replace_cpu(@, [m.hosts[k].frame EXCEPT ![p] = c])])
        /\ intended' = [intended EXCEPT ![s][p] = c]
        /\ UNCHANGED <<store, texels, drawing, window, outdated>>

\* eglMakeCurrent with another surface: reload_surface keeps the pixels it has
\* while the GPU's are newer.
MakeCurrent(x) ==
    /\ x # drawing /\ drawing' = x
    /\ IF x = "window" THEN UNCHANGED <<hosts, natives, pixmap>>
       ELSE LET k == OfSurface(x)
                m == read_argb(Everything, x)
            IN  IF GpuNewer(hosts[k])
                THEN pixmap' = [pixmap EXCEPT ![x].refreshed = {}] /\ UNCHANGED <<hosts, natives>>
                ELSE /\ hosts' = m.hosts
                     /\ natives' = [natives EXCEPT ![k] = Invalid(@)]
                     /\ pixmap' = [pixmap EXCEPT ![x] = [pixels |-> m.hosts[k].frame, refreshed |-> {},
                                                         stale |-> FALSE]]
    /\ UNCHANGED <<store, texels, window, intended, outdated>>

-----------------------------------------------------------------------------
(* What is drawn to: the current draw surface, or a framebuffer's texture.  *)

Drawn == {drawing} \cup {t \in Textures : Exists(t)}
IsFramebuffer(x) == x \in Textures
ThingOf(x) == IF IsFramebuffer(x) THEN Thing(x) ELSE x

Key(x) ==
    IF x = "window" THEN None
    ELSE IF ThingOf(x) \in CoreSurfaces THEN OfSurface(ThingOf(x)) ELSE OfTexture(x)

\* ensure_texture_render_target: the level gets a HostSurface of its pixels.
Fresh(x) == IsFramebuffer(x) /\ store.levels[x].host = None
Ensured(x) ==
    IF ~Fresh(x) THEN [m |-> Everything, st |-> store]
    ELSE [m |-> [Everything EXCEPT !.hosts[Key(x)] =
                    [frame |-> store.levels[x].argb, cpu |-> 1, gpu |-> 0, next |-> 1]],
          st |-> [store EXCEPT !.levels[x].host = Key(x), !.levels[x].generation = 1]]

\* render_target: the frame that is uploaded when the renderer has no valid image.
Frame(m, x) ==
    CASE x = "window"       -> window
      [] x \in CoreSurfaces -> pixmap[x].pixels
      [] OTHER              -> m.hosts[Key(x)].frame

\* update_texture_render_target_generation.
GenerationUpdated(m, st, x) ==
    IF IsFramebuffer(x)
    THEN [st EXCEPT !.levels[x].generation = Generation(m.hosts[st.levels[x].host])]
    ELSE st

\* The changes of the target that are not in what the call starts from: pixels
\* of the CPU newer than a valid image, pixels the pixmap has not read, and the
\* image of an earlier level of the texture.
Missed(m, x) ==
    LET k == Key(x)
        n == m.natives[k]
        h == m.hosts[k]
    IN  /\ x # "window"
        /\ \/ n.valid /\ h.cpu > h.gpu /\ h.frame # n.image
           \/ ~n.valid /\ x \in CoreSurfaces /\ pixmap[x].stale
           \/ n.valid /\ Fresh(x)

-----------------------------------------------------------------------------
(* Draws, of a texture or of a colour.                                      *)

TextureSources == {<<t, 0>> : t \in Textures} \cup {<<"color", c>> : c \in Colors}
Textured(source) == source[1] # "color"

\* A pixmap refreshes a texture once until it becomes current again.
Ready(x, source) ==
    LET e == Ensured(x)
    IN  IF ~Textured(source) \/ (x \in CoreSurfaces /\ source[1] \in pixmap[x].refreshed) THEN e
        ELSE Refreshed(e.m, e.st, source[1])

CacheKey(st, t) == IF st.levels[t].host = None THEN <<"name", t>> ELSE st.levels[t].host

Natively(m, st, t) ==
    LET l == st.levels[t]
    IN  l.host # None /\ GpuNewer(m.hosts[l.host]) /\ m.natives[l.host].valid

\* TargetBusy: the level has no pixels and the renderer no newer image.
Busy(m, st, source) ==
    Textured(source) /\ ~Natively(m, st, source[1]) /\ st.levels[source[1]].argb = Absent

Cached(st, t) ==
    LET k == CacheKey(st, t)
        l == st.levels[t]
    IN  IF texels[k].revision = l.revision THEN texels
        ELSE [texels EXCEPT ![k] = [revision |-> l.revision, pixels |-> l.argb]]

TexelsAfter(m, st, source) ==
    IF ~Textured(source) \/ Natively(m, st, source[1]) THEN texels ELSE Cached(st, source[1])

Sample(m, st, source, p) ==
    IF ~Textured(source) THEN source[2]
    ELSE IF Natively(m, st, source[1]) THEN m.natives[st.levels[source[1]].host].image[p]
    ELSE Cached(st, source[1])[CacheKey(st, source[1])].pixels[p]

Meant(source, p) == IF Textured(source) THEN intended[Thing(source[1])][p] ELSE source[2]

\* What a pixmap does not refresh again may be of an older write of its surface.
Older(m, st, x, source) ==
    /\ x \in CoreSurfaces /\ Textured(source) /\ source[1] \in pixmap[x].refreshed
    /\ Viewed(st, source[1]) # "none" /\ ~Natively(m, st, source[1])
    /\ st.levels[source[1]].argb # m.hosts[st.levels[source[1]].host].frame

Untrue(m, st, x, source) ==
    \/ Textured(source) /\ Thing(source[1]) \in outdated
    \/ Older(m, st, x, source)

Drawable(x, source) ==
    /\ x \in Drawn
    /\ Textured(source) => Exists(source[1]) /\ Thing(source[1]) # ThingOf(x)

Refresh(x, source) ==
    IF x \in CoreSurfaces /\ Textured(source)
    THEN [pixmap EXCEPT ![x].refreshed = @ \cup {source[1]}] ELSE pixmap

\* The renderer draws.
Draw(x, p, source) ==
    LET r     == Ready(x, source)
        k     == Key(x)
        frame == Frame(Ensured(x).m, x)
        c     == Sample(r.m, r.st, source, p)
        n     == r.m.natives[k]
        drawn == [n EXCEPT !.image = [IF n.valid THEN n.image ELSE frame EXCEPT ![p] = c],
                           !.valid = TRUE, !.dirty = Dirty(n) \cup {p}]
        m     == [r.m EXCEPT !.hosts[k] = mark_gpu_write(@), !.natives[k] = drawn]
    IN  /\ Drawable(x, source) /\ ~Busy(r.m, r.st, source)
        /\ texels' = TexelsAfter(r.m, r.st, source)
        /\ intended' = [intended EXCEPT ![ThingOf(x)][p] = Meant(source, p)]
        /\ outdated' = outdated \cup
             (IF Missed(r.m, x) \/ Untrue(r.m, r.st, x, source) THEN {ThingOf(x)} ELSE {})
        /\ pixmap' = Refresh(x, source)
        /\ IF x = "window"
           THEN /\ window' = [window EXCEPT ![p] = c]
                /\ store' = r.st /\ hosts' = r.m.hosts /\ natives' = r.m.natives
           ELSE /\ store' = GenerationUpdated(m, r.st, x)
                /\ hosts' = m.hosts /\ natives' = m.natives
                /\ UNCHANGED window
        /\ UNCHANGED drawing

\* materialize_surface_textures, on a copy of the levels.
Imported(st) == {st.levels[t].host : t \in {u \in Textures : st.levels[u].argb = Absent}} \ {None}
Unreadable(m, st) == {k \in Imported(st) : GpuNewer(m.hosts[k]) /\ ~m.natives[k].valid}
Materialized(m, ks) == FoldSet(LAMBDA k, done : map_cpu(done, k), m, ks)

SoftwareSample(m, st, source, p) ==
    IF ~Textured(source) THEN source[2]
    ELSE IF st.levels[source[1]].argb = Absent THEN m.hosts[st.levels[source[1]].host].frame[p]
    ELSE st.levels[source[1]].argb[p]

\* FallbackGlesRenderer::draw, when the renderer refuses: synchronize clears the
\* reason it refused for, so a draw to a surface counts as done by the renderer
\* and what the software drew is dropped; only a window gets its pixels.
DrawRefused(x, p, source) ==
    LET r      == Ready(x, source)
        k      == Key(x)
        synced == IF x = "window" THEN r.m ELSE [r.m EXCEPT !.natives[k].dirty = {}]
        bad    == Unreadable(synced, r.st)
        read   == Materialized(synced, Imported(r.st))
        m      == [read EXCEPT !.hosts[k] = mark_gpu_write(@), !.natives[k] = Invalid(@)]
        wrong  == \/ Untrue(r.m, r.st, x, source)
                  \/ /\ Textured(source) /\ Natively(r.m, r.st, source[1])
                     /\ r.st.levels[source[1]].argb # Absent
    IN  /\ Drawable(x, source)
        /\ \/ /\ bad = {} /\ x = "window"
              /\ window' = [window EXCEPT ![p] = SoftwareSample(read, r.st, source, p)]
              /\ store' = r.st /\ Left(read)
              /\ intended' = [intended EXCEPT ![x][p] = Meant(source, p)]
              /\ outdated' = outdated \cup (IF wrong THEN {x} ELSE {})
           \/ /\ bad = {} /\ x # "window"
              /\ store' = GenerationUpdated(m, r.st, x) /\ Left(m)
              /\ intended' = [intended EXCEPT ![ThingOf(x)][p] = Meant(source, p)]
              /\ outdated' = outdated \cup {ThingOf(x)}
              /\ UNCHANGED window
           \/ /\ bad # {}
              /\ \E some \in SUBSET (Imported(r.st) \ bad) :
                    store' = r.st /\ Left(Materialized(synced, some))
              /\ outdated' = outdated \cup
                   (IF x # "window" /\ Dirty(r.m.natives[k]) # {} THEN {ThingOf(x)} ELSE {})
              /\ UNCHANGED <<window, intended>>
        /\ UNCHANGED <<texels, drawing>>

-----------------------------------------------------------------------------
(* glClear, of the pixels S.                                                *)

\* prepare_host_surface, with the damage taken as the whole frame.
Prepared(n, h) ==
    IF (n.valid /\ (h.cpu <= n.cpu \/ (h.gpu # 0 /\ h.cpu = h.gpu))) \/ GpuNewer(h) THEN n
    ELSE [image |-> h.frame, valid |-> TRUE, dirty |-> {}, cpu |-> h.cpu]

Painted(f, S, c) == [p \in Pix |-> IF p \in S THEN c ELSE f[p]]

\* The command encoder fills the image.
Fill(x, S, c) ==
    LET e == Ensured(x)
        k == Key(x)
        n == Prepared(e.m.natives[k], e.m.hosts[k])
        m == [e.m EXCEPT !.hosts[k] = mark_gpu_write(@),
                         !.natives[k] = [n EXCEPT !.image = Painted(@, S, c), !.dirty = @ \cup S]]
    IN  /\ x \in Drawn /\ x # "window" /\ n.valid
        /\ store' = GenerationUpdated(m, e.st, x) /\ hosts' = m.hosts /\ natives' = m.natives
        /\ intended' = [intended EXCEPT ![ThingOf(x)] = Painted(@, S, c)]
        /\ outdated' = IF S = Pix THEN outdated \ {ThingOf(x)}
                       ELSE IF Fresh(x) /\ e.m.natives[k].valid THEN outdated \cup {ThingOf(x)}
                       ELSE outdated
        /\ UNCHANGED <<texels, pixmap, drawing, window>>

Committed(m, x) == Synchronized(Frame(m, x), m.natives[Key(x)])

\* By the CPU: synchronize, commit_render_target, invalidate.
ClearByCpu(x, S, c) ==
    LET e == Ensured(x)
        k == Key(x)
        f == Painted(Committed(e.m, x), S, c)
        m == [e.m EXCEPT !.hosts[k] = replace_cpu(@, f), !.natives[k] = Invalid(@)]
    IN  /\ x \in Drawn
        /\ IF x = "window"
           THEN window' = Painted(window, S, c) /\ UNCHANGED <<store, hosts, natives, pixmap>>
           ELSE /\ store' = IF ThingOf(x) \in CoreSurfaces THEN e.st
                            ELSE Revised(e.st, x, [e.st.levels[x] EXCEPT
                                     !.argb = f, !.generation = m.hosts[k].cpu])
                /\ hosts' = m.hosts /\ natives' = m.natives
                /\ pixmap' = [s \in CoreSurfaces |->
                       IF s = x THEN [pixmap[s] EXCEPT !.pixels = f, !.stale = FALSE]
                       ELSE [pixmap[s] EXCEPT !.stale =
                                 @ \/ m.hosts[OfSurface(s)].frame # hosts[OfSurface(s)].frame]]
                /\ UNCHANGED window
        /\ intended' = [intended EXCEPT ![ThingOf(x)] = Painted(@, S, c)]
        /\ outdated' = IF S = Pix THEN outdated \ {ThingOf(x)}
                       ELSE IF \/ x \in CoreSurfaces /\ pixmap[x].stale
                               \/ x # "window" /\ Fresh(x) /\ e.m.natives[k].valid
                            THEN outdated \cup {ThingOf(x)} ELSE outdated
        /\ UNCHANGED <<texels, drawing>>

-----------------------------------------------------------------------------
TexturesInit ==
    LET blank == Flat(0)
    IN  /\ store = [levels |-> [t \in Textures |-> Level(Absent, "none", None, 0, 0)], revision |-> 1]
        /\ texels = [k \in Keys \cup {<<"name", t>> : t \in Textures} |->
                        [revision |-> 0, pixels |-> blank]]
        /\ hosts = [k \in Keys \cup {None} |-> [frame |-> blank, cpu |-> 1, gpu |-> 0, next |-> 1]]
        /\ natives = [k \in Keys \cup {None} |->
                        [image |-> blank, valid |-> FALSE, dirty |-> {}, cpu |-> 0]]
        /\ pixmap = [s \in CoreSurfaces |-> [pixels |-> blank, refreshed |-> {}, stale |-> FALSE]]
        /\ drawing = "window" /\ window = blank
        /\ intended = [x \in Textures \cup CoreSurfaces \cup {"window"} |-> blank]
        /\ outdated = {}

Rectangles == {a .. b : a, b \in Pix} \ {{}}

TexturesNext ==
    \/ \E t \in Textures :
         \/ \E c \in Colors : TexImage2D(t, c) \/ \E p \in Pix : TexSubImage2D(t, p, c)
         \/ \E s \in CoreSurfaces : TexImageCoreSurface(t, s)
         \/ FinishTexture(t)
    \/ \E s \in CoreSurfaces, p \in Pix, c \in Colors : Store(s, p, c)
    \/ \E x \in CoreSurfaces \cup {"window"} : MakeCurrent(x)
    \/ \E x \in Textures \cup CoreSurfaces \cup {"window"} :
         \/ \E p \in Pix, source \in TextureSources : Draw(x, p, source) \/ DrawRefused(x, p, source)
         \/ \E S \in Rectangles, c \in Colors : Fill(x, S, c) \/ ClearByCpu(x, S, c)

-----------------------------------------------------------------------------
(* Properties.                                                              *)

Content(t) ==
    LET l == store.levels[t]
    IN  IF l.host = None THEN l.argb ELSE Newest(Everything, l.host)

\* Wherever the newest pixels of a surface, a texture or the window are, they
\* are what the calls of the guest make them, but for the named losses.
ThingsHoldDraws ==
    /\ \A s \in CoreSurfaces \ outdated : Newest(Everything, OfSurface(s)) = intended[s]
    /\ \A t \in Textures \ outdated : Exists(t) /\ Thing(t) = t => Content(t) = intended[t]
    /\ "window" \notin outdated => window = intended["window"]

\* Cached texels of a level's revision are its pixels.
CachedTexelsExact ==
    \A t \in Textures :
        LET l == store.levels[t]
            k == CacheKey(store, t)
        IN  l.argb # Absent /\ texels[k].revision = l.revision => texels[k].pixels = l.argb
=============================================================================
