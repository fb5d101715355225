----------------------------- MODULE Compositor -----------------------------
(***************************************************************************)
(* IOMobileFramebuffer (mobile_framebuffer_hle.cpp): the guest describes   *)
(* hardware layers and ends a swap; the emulator composes them again only  *)
(* where something changed since the last one, into the next surface of a  *)
(* ring, and gives that surface to the display.                            *)
(*                                                                         *)
(* Surfaces and the screen are rows of pixels.  The content of a source    *)
(* is what SurfaceImages says the renderer samples; here it has a          *)
(* generation and the history of its damage.                               *)
(***************************************************************************)
EXTENDS Integers, FiniteSets, Sequences, Lists

CONSTANTS
    ScreenWidth, SourceWidth,
    Inks,           \* pixel values: opaque ones, and translucent ones
    Translucent,    \* the inks that let what is below shine through
    LayerOrders,    \* layer indexes, drawn in ascending order
    Sources,        \* surface identifiers
    RingSize,       \* composition_ring_size
    MaxHistory,     \* maximum_damage_history
    MaxSequence     \* bound of the publications

CompositorAssumption ==
    /\ ScreenWidth \in Nat \ {0} /\ SourceWidth \in Nat \ {0}
    /\ LayerOrders \subseteq Nat /\ Translucent \subseteq Inks
    /\ RingSize \in Nat \ {0, 1} /\ MaxHistory \in Nat \ {0} /\ MaxSequence \in Nat

VARIABLES
    layers,             \* layers_: by order, the surface and its rectangles
    submitted,          \* submitted_layers_
    background, submittedBackground,
    ring,               \* the scanout surface made first (0) and composition_surfaces_
    scanout,            \* scanout_surface_
    ringIndex,          \* composition_surface_index_
    scanoutValid,       \* scanout_contents_valid_
    source,             \* by identifier, the published surface
    sequence,           \* the publication watermark
    suppressed,         \* suppressed_application_fullscreen_surface_publications
    display,            \* what DisplayState was given: a surface, or pixels
    swapped             \* history: the whole composition at the last SwapEnd

Screen == 1 .. ScreenWidth
Texels == 1 .. SourceWidth
Black == "black"
Rects(width) == {[x |-> a, width |-> w] : a \in 0 .. width - 1, w \in 1 .. width}
SourceRects == {r \in Rects(SourceWidth) : r.x + r.width <= SourceWidth}
ScreenRects == {r \in Rects(ScreenWidth) : r.x + r.width <= ScreenWidth}
Covered(r) == r.x + 1 .. r.x + r.width
NoSurface == [key |-> 0]
Erased(f, S) == [k \in DOMAIN f \ S |-> f[k]]

\* Published by a process that runs: the key is the publication sequence.
Published(key, pixels) ==
    [key |-> key, pixels |-> pixels, generation |-> 3,
     history |-> <<[generation |-> 3, texels |-> Texels]>>, discarded |-> 0]

CompositorInit ==
    /\ layers = << >> /\ submitted = << >>
    /\ background = Black /\ submittedBackground = Black
    /\ ring = [k \in 0 .. RingSize |-> [x \in Screen |-> Black]]
    /\ scanout = 0 /\ ringIndex = 0 /\ scanoutValid = FALSE
    /\ source = [s \in Sources |-> NoSurface] /\ sequence = 0 /\ suppressed = {}
    /\ display = [from |-> "pixels", pixels |-> [x \in Screen |-> Black]]
    /\ swapped = [x \in Screen |-> Black]

-----------------------------------------------------------------------------
(***************************************************************************)
(* Sources.                                                                *)
(***************************************************************************)
Exists(s) == source[s].key # 0

PublishSource(s, v) ==
    /\ ~Exists(s) /\ sequence < MaxSequence
    /\ sequence' = sequence + 1
    /\ source' = [source EXCEPT ![s] = Published(sequence + 1, [x \in Texels |-> v])]
    /\ UNCHANGED <<layers, submitted, background, submittedBackground, ring, scanout, ringIndex,
                   scanoutValid, suppressed, display, swapped>>

\* A write of either processor, with record_damage_locked.
DrawSource(s, r, v) ==
    LET S == Covered(r)
        longer == Append(source[s].history, [generation |-> source[s].generation + 1, texels |-> S])
        full == Len(longer) > MaxHistory
    IN  /\ Exists(s)
        /\ source' = [source EXCEPT
              ![s].pixels = [x \in Texels |-> IF x \in S THEN v ELSE @[x]],
              ![s].generation = @ + 1,
              ![s].discarded = IF full THEN Head(longer).generation ELSE @,
              ![s].history = IF full THEN Tail(longer) ELSE longer]
        /\ UNCHANGED <<layers, submitted, background, submittedBackground, ring, scanout, ringIndex,
                       scanoutValid, sequence, suppressed, display, swapped>>

damage_since(h, generation) ==
    IF generation >= h.generation THEN {}
    ELSE IF generation < h.discarded THEN Texels
    ELSE UNION {h.history[i].texels : i \in {j \in DOMAIN h.history : h.history[j].generation > generation}}

DestroySource(s) ==
    /\ Exists(s)
    /\ source' = [source EXCEPT ![s] = NoSurface]
    /\ UNCHANGED <<layers, submitted, background, submittedBackground, ring, scanout, ringIndex,
                   scanoutValid, sequence, suppressed, display, swapped>>

\* A scene change hides the surfaces an application has published, or shows
\* them again.
Suppress(keys) ==
    /\ suppressed' = keys
    /\ UNCHANGED <<layers, submitted, background, submittedBackground, ring, scanout, ringIndex,
                   scanoutValid, source, sequence, display, swapped>>

-----------------------------------------------------------------------------
(***************************************************************************)
(* The swap.                                                               *)
(***************************************************************************)
SetLayer(l, s, from, to) ==
    /\ Exists(s)
    /\ layers' = [k \in DOMAIN layers \cup {l} |->
                    IF k = l THEN [surface |-> s, from |-> from, to |-> to] ELSE layers[k]]
    /\ UNCHANGED <<submitted, background, submittedBackground, ring, scanout, ringIndex,
                   scanoutValid, source, sequence, suppressed, display, swapped>>

RemoveLayer(l) ==
    /\ l \in DOMAIN layers /\ layers' = Erased(layers, {l})
    /\ UNCHANGED <<submitted, background, submittedBackground, ring, scanout, ringIndex,
                   scanoutValid, source, sequence, suppressed, display, swapped>>

SetBackgroundColor(v) ==
    /\ background' = v
    /\ UNCHANGED <<layers, submitted, submittedBackground, ring, scanout, ringIndex,
                   scanoutValid, source, sequence, suppressed, display, swapped>>

\* The texel of a layer that a pixel of the screen shows (nearest).
Texel(state, x) ==
    state.from.x + 1 + ((2 * (x - state.to.x - 1) + 1) * state.from.width) \div (2 * state.to.width)
Over(top, below) == IF top \in Translucent THEN <<top, below>> ELSE top

\* The layers that are composed: not suppressed.
Shown == {l \in DOMAIN layers : source[layers[l].surface].key \notin suppressed}
Ascending(S) == SetToSortSeq(S, LAMBDA a, b : a < b)

\* A pixel drawn from nothing, by the layers of S that have a surface.
Composed(S, x) ==
    LET visible == {l \in S : x \in Covered(layers[l].to) /\ Exists(layers[l].surface)}
        draw(l, below) == Over(source[layers[l].surface].pixels[Texel(layers[l], x)], below)
    IN  FoldLeft(LAMBDA below, l : draw(l, below), background, Ascending(visible))

\* propagate_source_damage.
Propagated(texels, state) ==
    UNION {LET left == t - 1 - state.from.x IN
           state.to.x + 1 + (left * state.to.width) \div state.from.width
             .. state.to.x + ((left + 1) * state.to.width + state.from.width - 1) \div state.from.width
           : t \in texels \cap Covered(state.from)}

Damage ==
    IF ~scanoutValid \/ submittedBackground # background THEN Screen
    ELSE UNION {LET old == submitted[l] IN
                IF l \notin Shown THEN Covered(old.state.to)
                ELSE IF layers[l] # old.state \/ source[layers[l].surface].key # old.key
                THEN Covered(old.state.to) \cup Covered(layers[l].to)
                ELSE Propagated(damage_since(source[layers[l].surface], old.generation), layers[l])
                : l \in DOMAIN submitted}
         \cup UNION {Covered(layers[l].to) : l \in Shown \ DOMAIN submitted}

\* acquire_composition_surface: the next of the ring that is not shown.
Acquired == LET next == 1 + ringIndex
            IN  IF next # scanout THEN next ELSE 1 + (next % RingSize)

\* Every layer's surface is found: the renderer composes the damage.
ComposedByHost ==
    /\ \A l \in Shown : Exists(layers[l].surface)
    /\ LET next == IF Damage = {} THEN scanout ELSE Acquired
       IN  /\ ring' = [ring EXCEPT ![next] =
                  [x \in Screen |-> IF x \in Damage THEN Composed(Shown, x) ELSE ring[scanout][x]]]
           /\ scanout' = next
           /\ ringIndex' = IF Damage = {} THEN ringIndex ELSE next % RingSize
    /\ submitted' = [l \in Shown |-> [state |-> layers[l], key |-> source[layers[l].surface].key,
                                      generation |-> source[layers[l].surface].generation]]
    /\ submittedBackground' = background /\ scanoutValid' = TRUE
    /\ display' = [from |-> "surface", index |-> scanout']

\* A surface is missing, or the renderer fails part of the way: everything is
\* composed in software.
ComposedInSoftware ==
    /\ \/ UNCHANGED <<ring, ringIndex>>
       \/ /\ \A l \in Shown : Exists(layers[l].surface) /\ Damage # {}
          /\ ringIndex' = Acquired % RingSize
          /\ ring' = [ring EXCEPT ![Acquired] = [x \in Screen |-> background]]
    /\ scanoutValid' = FALSE /\ submitted' = << >>
    /\ display' = [from |-> "pixels", pixels |-> [x \in Screen |-> Composed(Shown, x)]]
    /\ UNCHANGED <<scanout, submittedBackground>>

SwapEnd ==
    /\ ComposedByHost \/ ComposedInSoftware
    /\ swapped' = [x \in Screen |-> Composed(Shown, x)]
    /\ UNCHANGED <<layers, background, source, sequence, suppressed>>

\* exec of the process that owns the framebuffer.
ResetFramebuffer ==
    /\ layers' = << >> /\ submitted' = << >>
    /\ background' = Black /\ submittedBackground' = Black
    /\ ringIndex' = 0 /\ scanoutValid' = FALSE
    /\ UNCHANGED <<ring, scanout, source, sequence, suppressed, display, swapped>>

\* A display of other dimensions, and ensure_scanout_surface.
set_display ==
    /\ submitted' = << >> /\ submittedBackground' = background /\ scanoutValid' = FALSE
    /\ ring' = [k \in 0 .. RingSize |-> [x \in Screen |-> background]]
    /\ scanout' = 0 /\ ringIndex' = 0
    /\ display' = [from |-> "pixels", pixels |-> [x \in Screen |-> Black]]
    /\ swapped' = [x \in Screen |-> Black]
    /\ UNCHANGED <<layers, background, source, sequence, suppressed>>

CompositorNext ==
    \/ \E s \in Sources, v \in Inks : PublishSource(s, v)
    \/ \E s \in Sources, r \in SourceRects, v \in Inks : DrawSource(s, r, v)
    \/ \E s \in Sources : DestroySource(s)
    \/ \E l \in LayerOrders, s \in Sources, f \in SourceRects, t \in ScreenRects : SetLayer(l, s, f, t)
    \/ \E l \in LayerOrders : RemoveLayer(l)
    \/ \E v \in Inks : SetBackgroundColor(v)
    \/ \E K \in SUBSET (1 .. sequence) : Suppress(K)
    \/ SwapEnd \/ ResetFramebuffer \/ set_display

-----------------------------------------------------------------------------
\* What the display shows, whenever it reads the surface it was given, is the
\* whole composition of the last swap: composing the damage alone has missed
\* nothing, and no later composition has drawn into the surface.
DisplayShowsLastSwap ==
    (IF display.from = "pixels" THEN display.pixels ELSE ring[display.index]) = swapped
=============================================================================
