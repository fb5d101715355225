---------------------------- MODULE GlesObjects ----------------------------
(***************************************************************************)
(* The objects of the emulated OpenGL ES and EGL of a process: contexts,   *)
(* drawing surfaces, textures, framebuffers and renderbuffers, the names   *)
(* the guest knows them by, what each thread has current and each context  *)
(* has bound, and which native render targets the renderer keeps for them. *)
(* Handles and names are natural numbers; zero is none.                    *)
(***************************************************************************)
EXTENDS Integers, FiniteSets
LOCAL INSTANCE Functions
LOCAL INSTANCE FiniteSetsExt

CONSTANTS
    Processors,   \* threads of the guest, by the processor they run on
    EaglObjects,  \* EAGLContext objects
    MaxContexts,  \* bound: context and surface handles handed out
    MaxNames      \* bound: names of textures, framebuffers and renderbuffers

VARIABLES
    contexts,     \* [handle -> what the context has bound and attached]
    eagl,         \* [object -> handle]: eagl_contexts_
    drawables,    \* [handle -> is backed by a CoreSurface]: surfaces_
    threads,      \* [Processors -> what is current]
    textures,     \* [name -> level zero of the texture]
    next,         \* next handle or name of each sort
    generated,    \* texture names the guest was given, or has bound
    targets,      \* {<<owner, name>>}: native targets of textures
    owner,        \* renderer_owner_
    leaked,       \* targets whose level went away without releasing them
    hidden        \* renderbuffer textures the guest reached by a name of its own

GlesObjectsAssumption == {MaxContexts, MaxNames} \subseteq Nat

NoCurrent  == [context |-> 0, draw |-> 0, read |-> 0]
NoContext  == [texture |-> 0, framebuffer |-> 0, renderbuffer |-> 0,
               framebuffers |-> <<>>, renderbuffers |-> <<>>]
Detached   == [texture |-> 0, renderbuffer |-> 0]
Empty      == [kind |-> "empty", owner |-> 0]
Pixels     == [kind |-> "pixels", owner |-> 0]
OfSurface  == [kind |-> "surface", owner |-> 0]
Target(o)  == [kind |-> "target", owner |-> o]

With(f, k, v) == [x \in DOMAIN f \cup {k} |-> IF x = k THEN v ELSE f[x]]
Without(f, k) == Restrict(f, DOMAIN f \ {k})

Current(p) == threads[p].context
HasContext(p) == Current(p) \in DOMAIN contexts
Context(p) == contexts[Current(p)]

\* The operations of a context change nothing of EGL.
Unmoved == UNCHANGED <<eagl, drawables, threads, owner>>

-----------------------------------------------------------------------------
(* EGL and EAGL.                                                            *)

eglCreateContext ==
    /\ next.context <= MaxContexts
    /\ contexts' = With(contexts, next.context, NoContext)
    /\ next' = [next EXCEPT !.context = @ + 1]
    /\ UNCHANGED <<eagl, drawables, threads, textures, generated, targets, owner, leaked, hidden>>

eglDestroyContext(h) ==
    /\ h \in DOMAIN contexts
    /\ contexts' = Without(contexts, h)
    /\ threads' = [p \in Processors |-> IF Current(p) = h THEN NoCurrent ELSE threads[p]]
    /\ UNCHANGED <<eagl, drawables, textures, next, generated, targets, owner, leaked, hidden>>

create_surface(backed) ==
    /\ next.surface <= MaxContexts
    /\ drawables' = With(drawables, next.surface, backed)
    /\ next' = [next EXCEPT !.surface = @ + 1]
    /\ UNCHANGED <<contexts, eagl, threads, textures, generated, targets, owner, leaked, hidden>>

eglDestroySurface(s) ==
    /\ s \in DOMAIN drawables
    /\ drawables' = Without(drawables, s)
    /\ threads' = [p \in Processors |->
           [threads[p] EXCEPT !.draw = IF @ = s THEN 0 ELSE @, !.read = IF @ = s THEN 0 ELSE @]]
    /\ UNCHANGED <<contexts, eagl, textures, next, generated, targets, owner, leaked, hidden>>

\* A previous drawing surface that cannot be committed leaves all as it was.
eglMakeCurrent(p, h, draw, read) ==
    /\ h \in {0} \cup DOMAIN contexts
    /\ {draw, read} \subseteq {0} \cup DOMAIN drawables
    /\ threads' = [threads EXCEPT ![p] = [context |-> h, draw |-> draw, read |-> read]]
    /\ UNCHANGED <<contexts, eagl, drawables, textures, next, generated, targets, owner, leaked,
                   hidden>>

\* The guest's own code ran first: a context it made current through EGL stays.
setCurrentContext(p, object) ==
    LET isEagl == \E o \in DOMAIN eagl : eagl[o] = Current(p)
        known  == object \in DOMAIN eagl
    IN  /\ Current(p) = 0 \/ isEagl
        /\ known \/ next.context <= MaxContexts
        /\ IF known THEN UNCHANGED <<contexts, eagl, next>>
           ELSE /\ contexts' = With(contexts, next.context, NoContext)
                /\ eagl' = With(eagl, object, next.context)
                /\ next' = [next EXCEPT !.context = @ + 1]
        /\ threads' = [threads EXCEPT ![p].context = eagl'[object]]
        /\ UNCHANGED <<drawables, textures, generated, targets, owner, leaked, hidden>>

setNoContext(p) ==
    /\ threads' = [threads EXCEPT ![p].context = 0]
    /\ UNCHANGED <<contexts, eagl, drawables, textures, next, generated, targets, owner, leaked,
                   hidden>>

-----------------------------------------------------------------------------
(* Names.                                                                   *)

\* The targets this process keeps for a texture, which its replacement releases.
OwnTarget(name) ==
    IF name \in DOMAIN textures /\ textures[name] = Target(owner) THEN {<<owner, name>>} ELSE {}

IsHidden(name) ==
    name # 0 /\ \E h \in DOMAIN contexts : \E r \in DOMAIN contexts[h].renderbuffers :
        contexts[h].renderbuffers[r].texture = name

GenTexture(p) ==
    /\ HasContext(p) /\ next.texture <= MaxNames
    /\ generated' = generated \cup {next.texture}
    /\ next' = [next EXCEPT !.texture = @ + 1]
    /\ Unmoved /\ UNCHANGED <<contexts, textures, targets, leaked, hidden>>

\* ensure_texture: a name the guest chose itself is not generated later.
Ensured(counter, name) == Max({counter, name + 1})

BindTexture(p, name) ==
    /\ HasContext(p)
    /\ contexts' = [contexts EXCEPT ![Current(p)].texture = name]
    /\ textures' = IF name = 0 \/ name \in DOMAIN textures THEN textures
                   ELSE With(textures, name, Empty)
    /\ generated' = generated \cup ({name} \ {0})
    /\ next' = [next EXCEPT !.texture = IF name = 0 THEN @ ELSE Ensured(@, name)]
    /\ hidden' = IF IsHidden(name) THEN hidden \cup {name} ELSE hidden
    /\ Unmoved /\ UNCHANGED <<targets, leaked>>

\* Framebuffers keep the deleted texture.
\* Every context forgets the texture, in its units and in its framebuffers.
Unbound(name) ==
    [h \in DOMAIN contexts |->
        [contexts[h] EXCEPT
            !.texture = IF @ = name THEN 0 ELSE @,
            !.framebuffers = [f \in DOMAIN @ |->
                IF @[f].texture = name THEN [@[f] EXCEPT !.texture = 0] ELSE @[f]]]]

DeleteTexture(p, name) ==
    /\ HasContext(p) /\ name # 0
    /\ contexts' = Unbound(name)
    /\ textures' = Without(textures, name)
    /\ generated' = generated \ {name}
    /\ targets' = targets \ OwnTarget(name)
    /\ hidden' = IF IsHidden(name) THEN hidden \cup {name} ELSE hidden
    /\ Unmoved /\ UNCHANGED <<next, leaked>>

GenFramebuffer(p) ==
    /\ HasContext(p) /\ next.framebuffer <= MaxNames
    /\ contexts' = [contexts EXCEPT ![Current(p)].framebuffers =
           IF next.framebuffer \in DOMAIN @ THEN @ ELSE With(@, next.framebuffer, Detached)]
    /\ next' = [next EXCEPT !.framebuffer = @ + 1]
    /\ Unmoved /\ UNCHANGED <<textures, generated, targets, leaked, hidden>>

BindFramebuffer(p, name) ==
    /\ HasContext(p)
    /\ contexts' = [contexts EXCEPT ![Current(p)].framebuffer = name,
                                    ![Current(p)].framebuffers =
           IF name = 0 \/ name \in DOMAIN @ THEN @ ELSE With(@, name, Detached)]
    /\ Unmoved /\ UNCHANGED <<textures, next, generated, targets, leaked, hidden>>

DeleteFramebuffer(p, name) ==
    /\ HasContext(p) /\ name \in DOMAIN Context(p).framebuffers
    /\ contexts' = [contexts EXCEPT ![Current(p)].framebuffers = Without(@, name),
                                    ![Current(p)].framebuffer = IF @ = name THEN 0 ELSE @]
    /\ Unmoved /\ UNCHANGED <<textures, next, generated, targets, leaked, hidden>>

GenRenderbuffer(p) ==
    /\ HasContext(p) /\ next.renderbuffer <= MaxNames
    /\ contexts' = [contexts EXCEPT ![Current(p)].renderbuffers =
           With(@, next.renderbuffer, [texture |-> 0])]
    /\ next' = [next EXCEPT !.renderbuffer = @ + 1]
    /\ Unmoved /\ UNCHANGED <<textures, generated, targets, leaked, hidden>>

BindRenderbuffer(p, name) ==
    /\ HasContext(p) /\ name \in {0} \cup DOMAIN Context(p).renderbuffers
    /\ contexts' = [contexts EXCEPT ![Current(p)].renderbuffer = name]
    /\ Unmoved /\ UNCHANGED <<textures, next, generated, targets, leaked, hidden>>

\* Framebuffers keep the deleted renderbuffer.
DetachedFrom(framebuffers, name) ==
    [f \in DOMAIN framebuffers |->
        IF framebuffers[f].renderbuffer = name THEN Detached ELSE framebuffers[f]]

\* The texture behind the renderbuffer goes, but not its native target.
DeleteRenderbuffer(p, name) ==
    /\ HasContext(p) /\ name \in DOMAIN Context(p).renderbuffers
    /\ LET texture == Context(p).renderbuffers[name].texture
       IN  /\ contexts' = [contexts EXCEPT
                  ![Current(p)].framebuffers = DetachedFrom(@, name),
                  ![Current(p)].renderbuffer = IF @ = name THEN 0 ELSE @,
                  ![Current(p)].renderbuffers = Without(@, name)]
           /\ textures' = Without(textures, texture)
           /\ generated' = generated \ {texture}
           /\ leaked' = leaked \cup OwnTarget(texture)
    /\ Unmoved /\ UNCHANGED <<next, targets, hidden>>

-----------------------------------------------------------------------------
(* Storage and attachments.                                                 *)

\* glTexImage2D and glCompressedTexImage2D replace the bound texture's level.
TexImage2D(p) ==
    /\ HasContext(p) /\ Context(p).texture \in DOMAIN textures
    /\ textures' = [textures EXCEPT ![Context(p).texture] = Pixels]
    /\ targets' = targets \ OwnTarget(Context(p).texture)
    /\ Unmoved /\ UNCHANGED <<contexts, next, generated, leaked, hidden>>

\* A CoreSurface becomes the level: the native target of the old one stays.
import_surface_texture(p, texture) ==
    /\ HasContext(p) /\ texture \in DOMAIN textures
    /\ \/ texture = Context(p).texture
       \/ /\ Context(p).framebuffer \in DOMAIN Context(p).framebuffers
          /\ texture = Context(p).framebuffers[Context(p).framebuffer].texture
    /\ leaked' = leaked \cup OwnTarget(texture)
    /\ textures' = [textures EXCEPT ![texture] = OfSurface]
    /\ Unmoved /\ UNCHANGED <<contexts, next, generated, targets, hidden>>

\* ensure_renderbuffer_storage: a texture of its own holds a renderbuffer's
\* pixels, and every framebuffer that attaches the renderbuffer follows it.
CanStore(p, name) ==
    LET texture == Context(p).renderbuffers[name].texture
    IN  IF texture = 0 THEN next.texture <= MaxNames ELSE texture \in DOMAIN textures

StorageTexture(p, name) ==
    LET texture == Context(p).renderbuffers[name].texture
    IN  IF texture = 0 THEN next.texture ELSE texture

WithStorage(p, name) ==
    LET texture == StorageTexture(p, name)
    IN  [Context(p) EXCEPT
            !.renderbuffers[name].texture = texture,
            !.framebuffers = [f \in DOMAIN @ |->
                IF @[f].renderbuffer = name THEN [@[f] EXCEPT !.texture = texture] ELSE @[f]]]

Stores(p, name) ==
    LET texture == StorageTexture(p, name)
    IN  /\ textures' = With(textures, texture, Pixels)
        /\ generated' = generated \cup {texture}
        /\ next' = [next EXCEPT !.texture = Ensured(@, texture)]
        /\ leaked' = leaked \cup OwnTarget(texture)
        /\ Unmoved /\ UNCHANGED <<targets, hidden>>

RenderbufferStorage(p) ==
    /\ HasContext(p) /\ Context(p).renderbuffer # 0 /\ CanStore(p, Context(p).renderbuffer)
    /\ contexts' = [contexts EXCEPT ![Current(p)] = WithStorage(p, Context(p).renderbuffer)]
    /\ Stores(p, Context(p).renderbuffer)

FramebufferTexture2D(p, texture) ==
    /\ HasContext(p) /\ Context(p).framebuffer # 0
    /\ texture \in {0} \cup DOMAIN textures
    /\ contexts' = [contexts EXCEPT ![Current(p)].framebuffers =
           With(@, Context(p).framebuffer, [texture |-> texture, renderbuffer |-> 0])]
    /\ hidden' = IF IsHidden(texture) THEN hidden \cup {texture} ELSE hidden
    /\ Unmoved /\ UNCHANGED <<textures, next, generated, targets, leaked>>

FramebufferRenderbuffer(p, name) ==
    /\ HasContext(p) /\ Context(p).framebuffer \in DOMAIN Context(p).framebuffers
    /\ \/ /\ name = 0
          /\ contexts' = [contexts EXCEPT
                 ![Current(p)].framebuffers[Context(p).framebuffer] = Detached]
          /\ Unmoved /\ UNCHANGED <<textures, next, generated, targets, leaked, hidden>>
       \/ /\ name \in DOMAIN Context(p).renderbuffers /\ CanStore(p, name)
          /\ contexts' = [contexts EXCEPT
                 ![Current(p)] = [WithStorage(p, name) EXCEPT
                     !.framebuffers[Context(p).framebuffer] =
                         [texture |-> StorageTexture(p, name), renderbuffer |-> name]]]
          /\ Stores(p, name)

-----------------------------------------------------------------------------
(* Drawing, presenting and the life of the process.                         *)

\* ensure_texture_render_target and the renderer's own target for its key.
RendersTo(texture) ==
    IF textures[texture].kind = "surface" THEN UNCHANGED <<textures, targets, leaked>>
    ELSE /\ textures' = [textures EXCEPT ![texture] = Target(owner)]
         /\ targets' = targets \cup {<<owner, texture>>}
         /\ leaked' = leaked \ {<<owner, texture>>}

Renders(p, framebuffer) ==
    /\ framebuffer \in DOMAIN Context(p).framebuffers
    /\ LET texture == Context(p).framebuffers[framebuffer].texture
       IN  /\ texture \in DOMAIN textures /\ textures[texture].kind # "empty"
           /\ RendersTo(texture)
    /\ Unmoved /\ UNCHANGED <<contexts, next, generated, hidden>>

Draw(p) == HasContext(p) /\ Renders(p, Context(p).framebuffer)

\* presentRenderbuffer: takes a framebuffer that attaches the bound renderbuffer.
presentRenderbuffer(p) ==
    /\ HasContext(p) /\ Context(p).renderbuffer # 0
    /\ LET attaching == {f \in DOMAIN Context(p).framebuffers :
                            Context(p).framebuffers[f].renderbuffer = Context(p).renderbuffer}
       IN  Renders(p, IF attaching = {} THEN Context(p).framebuffer ELSE Min(attaching))

\* reset, for a new image of the process: the renderer drops what it owned.
reset ==
    /\ contexts' = <<>> /\ eagl' = <<>> /\ drawables' = <<>>
    /\ threads' = [p \in Processors |-> NoCurrent]
    /\ textures' = <<>> /\ generated' = {} /\ leaked' = {} /\ hidden' = {}
    /\ next' = [s \in DOMAIN next |-> 1]
    /\ targets' = {t \in targets : t[1] # owner}
    /\ owner' = owner + 1

\* The child of fork goes on with the parent's objects and an owner of its own.
inherit_state ==
    /\ owner' = owner + 1
    /\ UNCHANGED <<contexts, eagl, drawables, threads, textures, next, generated, targets, leaked,
                   hidden>>

-----------------------------------------------------------------------------
ObjectsInit ==
    /\ contexts = <<>> /\ eagl = <<>> /\ drawables = <<>>
    /\ threads = [p \in Processors |-> NoCurrent]
    /\ textures = <<>> /\ generated = {} /\ targets = {} /\ leaked = {} /\ hidden = {}
    /\ next = [context |-> 1, surface |-> 1, texture |-> 1, framebuffer |-> 1, renderbuffer |-> 1]
    /\ owner = 1

EglStep ==
    \/ eglCreateContext
    \/ \E h \in 1 .. MaxContexts : eglDestroyContext(h) \/ eglDestroySurface(h)
    \/ \E backed \in BOOLEAN : create_surface(backed)
    \/ \E p \in Processors, h, d \in 0 .. MaxContexts : \E r \in {0, d} : eglMakeCurrent(p, h, d, r)
    \/ \E p \in Processors, o \in EaglObjects : setCurrentContext(p, o)
    \/ \E p \in Processors : setNoContext(p)

NameStep(p) ==
    \/ GenTexture(p) \/ GenFramebuffer(p) \/ GenRenderbuffer(p)
    \/ \E n \in 0 .. MaxNames :
         \/ BindTexture(p, n) \/ DeleteTexture(p, n)
         \/ BindFramebuffer(p, n) \/ DeleteFramebuffer(p, n)
         \/ BindRenderbuffer(p, n) \/ DeleteRenderbuffer(p, n)

StorageStep(p) ==
    \/ TexImage2D(p) \/ RenderbufferStorage(p) \/ Draw(p) \/ presentRenderbuffer(p)
    \/ \E n \in 0 .. MaxNames :
         import_surface_texture(p, n) \/ FramebufferTexture2D(p, n) \/ FramebufferRenderbuffer(p, n)

ObjectsNext ==
    \/ EglStep
    \/ \E p \in Processors : NameStep(p) \/ StorageStep(p)
    \/ owner < 2 /\ (reset \/ inherit_state)

-----------------------------------------------------------------------------
\* What a thread has current exists; only a context made for an EAGL object can
\* be made current again after EGL destroyed it.
CurrentsLive == \A p \in Processors :
    /\ Current(p) \in {0} \cup DOMAIN contexts \cup {eagl[o] : o \in DOMAIN eagl}
    /\ {threads[p].draw, threads[p].read} \subseteq {0} \cup DOMAIN drawables

\* A framebuffer's attachment exists, and is the renderbuffer's own texture.
AttachmentsLive == \A h \in DOMAIN contexts : LET c == contexts[h] IN
    /\ c.renderbuffer \in {0} \cup DOMAIN c.renderbuffers
    /\ c.texture \in {0} \cup DOMAIN textures \cup hidden
    /\ \A f \in DOMAIN c.framebuffers : LET a == c.framebuffers[f] IN
         /\ a.texture \in {0} \cup DOMAIN textures \cup hidden
         /\ a.renderbuffer # 0 /\ a.texture \notin hidden \cup {0} =>
              c.renderbuffers[a.renderbuffer].texture = a.texture

\* Two renderbuffers never share a texture, whatever their contexts.
RenderbuffersApart ==
    \A h1, h2 \in DOMAIN contexts :
        \A r1 \in DOMAIN contexts[h1].renderbuffers, r2 \in DOMAIN contexts[h2].renderbuffers :
            contexts[h1].renderbuffers[r1].texture = contexts[h2].renderbuffers[r2].texture
            /\ contexts[h1].renderbuffers[r1].texture # 0 => h1 = h2 /\ r1 = r2

\* glGenTextures returns no name that is in use, the guest's own included.
GeneratedNamesFresh == \A n \in generated \cup DOMAIN textures : n < next.texture

\* A native target this process keeps belongs to the level it was made for.
TargetsBelong == \A t \in targets :
    t[1] = owner => t \in leaked \/ (t[2] \in DOMAIN textures /\ textures[t[2]] = Target(owner))
=============================================================================
