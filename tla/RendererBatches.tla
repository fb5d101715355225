-------------------------- MODULE RendererBatches --------------------------
(***************************************************************************)
(* The batches of the Vulkan renderer.  A draw writes pixels, textures and *)
(* vertices into the memory of the current command slot and records        *)
(* commands that read them later, when the GPU executes the submitted      *)
(* batch; a slot's memory is used again for a later batch.  Textures are   *)
(* cached by key and revision under a budget, and the images of retired    *)
(* targets are pooled.  A target here is a row of columns, a draw paints   *)
(* one column, and a colour is the sequence of the revisions that were     *)
(* blended into it.                                                        *)
(***************************************************************************)
EXTENDS Integers, Sequences, FiniteSets
LOCAL INSTANCE Lists
LOCAL INSTANCE Functions
LOCAL INSTANCE FiniteSetsExt

CONSTANTS
    Targets,       \* keys of the native render targets
    Owned,         \* the targets of the process that owns the textures
    Textures,      \* texture names
    DrawnUnits,    \* the choices of a draw's texture units
    CommandSlots,  \* size of the ring of command slots
    MaxBatchDraws, \* draws of one batch
    CacheBudget,   \* columns the texture cache may hold
    PoolBudget,    \* retired images kept
    MaxColors      \* bound: colours made by uploads and CPU writes

VARIABLES
    renderer,  \* what VulkanGlesRenderer keeps, with its GPU
    pixels,    \* [Targets -> columns]: the CPU's copy of each target
    levels,    \* [Textures -> level]: revision, width and colour of a texture
    colors,    \* number of colours made
    ideal,     \* [Targets -> columns]: the asked draws executed at once
    lost,      \* the targets whose recorded draws a failure discarded
    wanted     \* the columns the display was last asked to show

RendererBatchesAssumption ==
    /\ Owned \subseteq Targets /\ CommandSlots \in Nat \ {0} /\ MaxBatchDraws \in Nat \ {0}
    /\ "white" \notin Textures /\ {CacheBudget, PoolBudget, MaxColors} \subseteq Nat

White     == <<0>>
Clear     == <<-1>>
Undefined == <<-2>>
Names     == Textures \cup {"white"}   \* the white pixel of a unit without texture
ImageIds  == 1 .. Cardinality(Targets) + PoolBudget + 1
NoTarget  == [image |-> 0, width |-> 0, valid |-> FALSE, dirty |-> {}]
NoLevel   == [revision |-> 0, width |-> 0, color |-> Undefined]

Blank(w, color) == [c \in 1 .. w |-> color]
ByName(k)       == <<"texture", k>>
\* A draw records its image by identity: images outlive their keys in the pool.
ByImage(i)      == <<"image", i>>

-----------------------------------------------------------------------------
(* The GPU.                                                                 *)

Source(gpu, s) == IF s[1] = "texture" THEN gpu.texels[s[2]] ELSE gpu.contents[s[2]][1]

Blended(gpu, sources) == FoldLeft(LAMBDA color, s : color \o Source(gpu, s), <<>>, sources)

\* One command, with the memory of the slot it was recorded in.
Executed(gpu, memory, c) ==
    CASE c.op = "target"  ->
           [gpu EXCEPT !.contents[c.image] = SubSeq(memory.staging, c.offset + 1, c.offset + c.width)]
      [] c.op = "texture" -> [gpu EXCEPT !.texels[c.key] = memory.staging[c.offset + 1]]
      [] c.op = "draw"    ->
           LET drawn == memory.draws[c.index]
           IN  [gpu EXCEPT !.contents[c.image][drawn.column] = Blended(gpu, drawn.sources)]
      [] c.op = "present" -> [gpu EXCEPT !.shown = gpu.contents[c.image]]
      [] OTHER            -> gpu

ExecutedAll(gpu, memory, commands) ==
    FoldLeft(LAMBDA g, c : Executed(g, memory, c), gpu, commands)

\* The first n submitted batches complete.
Completed(r, n) ==
    [r EXCEPT !.gpu = FoldLeft(LAMBDA g, b : ExecutedAll(g, r.memory[b.slot], b.commands), @,
                               SubSeq(r.queued, 1, n)),
              !.queued = SubSeq(@, n + 1, Len(@))]

\* The fence of the slot is not waited for.
wait_for_slot(r, slot) ==
    Completed(r, Max({0} \cup {i \in DOMAIN r.queued : r.queued[i].slot = slot}))

wait_for_all_slots(r) == Completed(r, Len(r.queued))

begin_commands(r) == IF r.recording = <<>> THEN wait_for_slot(r, r.current) ELSE r

submit_commands(r) ==
    IF r.recording = <<>> THEN r
    ELSE [r EXCEPT !.queued = Append(@, [slot |-> r.current, commands |-> r.recording]),
                   !.recording = <<>>, !.used = 0, !.uploaded = {},
                   !.current = 1 + (@ % CommandSlots)]

Forgotten(textures, keys) ==
    [k \in DOMAIN textures |-> IF k \in keys THEN [textures[k] EXCEPT !.revision = 0] ELSE textures[k]]

\* Textures of the discarded batch still count as uploaded.
discard_commands(r) ==
    [wait_for_all_slots(r) EXCEPT !.textures = Forgotten(@, r.uploaded), !.recording = <<>>,
                                  !.used = 0, !.uploaded = {}]

Idle(r) == wait_for_all_slots(submit_commands(r))

-----------------------------------------------------------------------------
(* Targets and their pool.                                                  *)

trim_target_pool(r) ==
    IF Len(r.pool) <= PoolBudget THEN r
    ELSE [r EXCEPT !.pool = Tail(@), !.gpu.contents[r.pool[1].image] = <<>>]

pool_target(r, t) ==
    trim_target_pool([r EXCEPT !.pool = Append(@, [image |-> r.native[t].image,
                                                   width |-> r.native[t].width]),
                               !.native[t] = NoTarget])

Has(r, t) == r.native[t].image # 0

\* The image holds newer columns than the CPU's pixels of the same dimensions.
GpuNewer(t) ==
    /\ renderer.native[t].valid /\ renderer.native[t].dirty # {}
    /\ renderer.native[t].width = Len(pixels[t])

Released(r, ts) ==
    FoldSet(LAMBDA t, idle : IF Has(idle, t) THEN pool_target(idle, t) ELSE idle, Idle(r), ts)

\* take_pooled_target takes the latest of the same dimensions.
Obtained(r, t, w) ==
    LET fits  == {i \in DOMAIN r.pool : r.pool[i].width = w}
        i     == Max(fits)
        held  == {r.native[x].image : x \in Targets} \cup {r.pool[j].image : j \in DOMAIN r.pool}
        new   == Min(ImageIds \ held)
        As(x) == [image |-> x, width |-> w, valid |-> FALSE, dirty |-> {}]
    IN  IF fits # {}
        THEN [r EXCEPT !.native[t] = As(r.pool[i].image),
                       !.pool = SubSeq(@, 1, i - 1) \o SubSeq(@, i + 1, Len(@))]
        ELSE [r EXCEPT !.native[t] = As(new), !.gpu.contents[new] = Blank(w, Undefined)]

ensure_target(r, t, w) ==
    IF Has(r, t) /\ r.native[t].width = w THEN r
    ELSE Obtained(IF Has(r, t) THEN pool_target(Idle(r), t) ELSE r, t, w)

-----------------------------------------------------------------------------
(* The texture cache: lru holds its keys, the least recently used first.    *)

Cached(r, k) == k \in DOMAIN r.textures
OverBudget(r) == FoldLeft(LAMBDA n, k : n + r.textures[k].width, 0, r.lru) > CacheBudget

Dropped(r, keys) ==
    [r EXCEPT !.textures = Restrict(@, DOMAIN @ \ keys),
              !.lru = SelectSeq(@, LAMBDA k : k \notin keys),
              !.gpu.texels = [k \in Names |-> IF k \in keys THEN Undefined ELSE @[k]]]

\* The oldest textures go until the cache fits, but never one the draw needs.
Evicted(r, needed) ==
    LET idle     == Idle(r)
        old      == SelectSeq(idle.lru, LAMBDA k : k \notin needed)
        First(n) == {old[i] : i \in 1 .. n}
        fits     == {n \in 0 .. Len(old) : ~OverBudget(Dropped(idle, First(n)))}
    IN  IF ~OverBudget(r) THEN r
        ELSE Dropped(idle, First(IF fits = {} THEN Len(old) ELSE Min(fits)))

Level(k) == IF k = "white" THEN [revision |-> 1, width |-> 1, color |-> White] ELSE levels[k]

\* A name without a level is drawn with the white pixel.
Key(name) == IF Level(name).revision = 0 THEN "white" ELSE name

\* One texture unit chooses its cache entry: s is the selection so far.
Selected(s, unit) ==
    LET k        == Key(unit[2])
        l        == Level(k)
        resized  == Cached(s.r, k) /\ s.r.textures[k].width # l.width
        ready    == IF resized THEN Idle(s.r) ELSE s.r
        present  == Cached(ready, k) /\ ~resized
        entry    == IF present THEN ready.textures[k] ELSE [width |-> l.width, revision |-> 0]
        kept     == [ready EXCEPT
                        !.textures = [x \in DOMAIN @ \cup {k} |-> IF x = k THEN entry ELSE @[x]],
                        !.lru = Append(SelectSeq(@, LAMBDA x : x # k), k),
                        !.gpu.texels[k] = IF present THEN @ ELSE Undefined]
        changed  == entry.revision # l.revision
    IN  IF unit[1] = "surface"
        THEN [s EXCEPT !.sources = Append(@, ByImage(s.r.native[unit[2]].image))]
        ELSE [r       |-> IF changed /\ k \in kept.uploaded THEN submit_commands(kept) ELSE kept,
              changed |-> IF changed /\ k \notin s.keys THEN Append(s.changed, k) ELSE s.changed,
              keys    |-> s.keys \cup {k},
              sources |-> Append(s.sources, ByName(k))]

Selection(r, units) ==
    FoldLeft(Selected, [r |-> Evicted(r, {}), changed |-> <<>>, keys |-> {}, sources |-> <<>>], units)

-----------------------------------------------------------------------------
(* One draw.                                                                *)

DrawCount(r) == Len(SelectSeq(r.recording, LAMBDA c : c.op = "draw"))

Uploads(r, t, changed) ==
    (IF r.native[t].valid THEN <<>>
     ELSE <<[op |-> "target", image |-> r.native[t].image, data |-> pixels[t]]>>)
    \o [i \in DOMAIN changed |->
          [op |-> "texture", key |-> changed[i],
           data |-> Blank(Level(changed[i]).width, Level(changed[i]).color)]]

Size(uploads) == FoldLeft(LAMBDA n, u : n + Len(u.data), 0, uploads)

\* The arena of the current slot is enlarged for a draw that needs more.
Enlarged(r, size) ==
    [r EXCEPT !.memory[r.current].staging =
        IF size > Len(@) THEN Blank(size, Undefined) ELSE @]

\* The slot the draw is recorded in, with room for its vertices and uploads.
WithCapacity(r, needed) ==
    LET open    == IF DrawCount(r) = MaxBatchDraws THEN submit_commands(r) ELSE r
        free    == wait_for_slot(open, open.current)
        arena   == Len(free.memory[free.current].staging)
        next    == submit_commands(free)
        turned  == wait_for_slot(next, next.current)
    IN  IF arena > 0 /\ free.used + needed > arena
        THEN Enlarged(turned, needed)
        ELSE Enlarged(free, free.used + needed)

Uploaded(r, u) ==
    [r EXCEPT
        !.memory[r.current].staging =
            [i \in DOMAIN @ |-> IF i \in r.used + 1 .. r.used + Len(u.data) THEN u.data[i - r.used]
                                ELSE @[i]],
        !.used = @ + Len(u.data),
        !.recording = Append(@, IF u.op = "target"
                                THEN [op |-> "target", image |-> u.image, offset |-> r.used,
                                      width |-> Len(u.data)]
                                ELSE [op |-> "texture", key |-> u.key, offset |-> r.used])]

Recorded(r, t, column, selection) ==
    LET changed == {selection.changed[i] : i \in DOMAIN selection.changed}
        index   == DrawCount(r) + 1
    IN  [r EXCEPT
            !.memory[r.current].draws =
                [@ EXCEPT ![index] = [column |-> column, sources |-> selection.sources]],
            !.recording = Append(@, [op |-> "draw", image |-> r.native[t].image, index |-> index]),
            !.native[t].valid = TRUE, !.native[t].dirty = @ \cup {column},
            !.textures = [k \in DOMAIN @ |->
                IF k \in changed THEN [@[k] EXCEPT !.revision = Level(k).revision] ELSE @[k]],
            !.uploaded = @ \cup changed]

\* The renderer with the draw's slot chosen, and with the draw recorded in it.
Prepared(t, selection, kept) ==
    LET uploads == Uploads(kept, t, selection.changed)
    IN  [selection |-> selection, uploads |-> uploads, r |-> WithCapacity(kept, Size(uploads))]
Kept(t, selection) == Prepared(t, selection, Evicted(selection.r, selection.keys))
ReadyToDraw(t, units) ==
    Kept(t, Selection(ensure_target(renderer, t, Len(pixels[t])), units))

WithDraw(d, t, column) ==
    Recorded(FoldLeft(Uploaded, d.r, d.uploads), t, column, d.selection)

UnitColor(unit) == IF unit[1] = "surface" THEN ideal[unit[2]][1] ELSE Level(Key(unit[2])).color

\* A surface is sampled natively while the GPU holds the newer pixels of it.
Drawable(t, column, units) ==
    /\ column \in DOMAIN pixels[t]
    /\ \A i \in DOMAIN units : units[i][1] = "surface" =>
           LET s == units[i][2]
           IN  s # t /\ s \notin lost /\ GpuNewer(s)

Draw(t, column, units) ==
    /\ Drawable(t, column, units)
    /\ renderer' = WithDraw(ReadyToDraw(t, units), t, column)
    /\ ideal' = [ideal EXCEPT ![t][column] =
                    FoldLeft(LAMBDA color, u : color \o UnitColor(u), <<>>, units)]
    /\ UNCHANGED <<pixels, levels, colors, lost, wanted>>

-----------------------------------------------------------------------------
(* Failures: what is recorded is discarded, and only the failing call's own *)
(* target is marked invalid.                                                *)

RecordedTargets(r) ==
    {t \in Targets : \E i \in DOMAIN r.recording :
        /\ r.recording[i].op \in {"target", "draw"} /\ r.recording[i].image = r.native[t].image}

DiscardedFor(r, t) ==
    [discard_commands(r) EXCEPT !.native[t].valid = FALSE, !.native[t].dirty = {}]

\* A Vulkan call fails before anything, or everything, of the draw is recorded.
DrawFails(t, column, units) ==
    /\ Drawable(t, column, units)
    /\ \E d \in {ReadyToDraw(t, units)} : \E r \in {d.r, WithDraw(d, t, column)} :
         /\ renderer' = DiscardedFor(r, t)
         /\ lost' = lost \cup RecordedTargets(r)
                    \cup (IF d.r.native[t].dirty # {} THEN {t} ELSE {})
    /\ UNCHANGED <<pixels, levels, colors, ideal, wanted>>

flush(t) ==
    /\ Has(renderer, t)
    /\ renderer' = submit_commands(renderer)
    /\ UNCHANGED <<pixels, levels, colors, ideal, lost, wanted>>

finish(t) ==
    /\ Has(renderer, t)
    /\ renderer' = Idle(renderer)
    /\ UNCHANGED <<pixels, levels, colors, ideal, lost, wanted>>

\* flush invalidates its target; finish leaves it valid.
SubmitFails(t) ==
    /\ Has(renderer, t) /\ renderer.recording # <<>>
    /\ \/ /\ renderer' = DiscardedFor(renderer, t)
          /\ lost' = lost \cup RecordedTargets(renderer)
                     \cup (IF renderer.native[t].dirty # {} THEN {t} ELSE {})
       \/ /\ renderer' = discard_commands(renderer)
          /\ lost' = lost \cup RecordedTargets(renderer)
    /\ UNCHANGED <<pixels, levels, colors, ideal, wanted>>

-----------------------------------------------------------------------------
(* Reading back, writing by the CPU, presenting and releasing.              *)

synchronize(t) ==
    /\ GpuNewer(t)
    /\ LET begun == begin_commands(renderer)
           asked == [begun EXCEPT !.recording = Append(@, [op |-> "download"])]
           done  == Idle(asked)
           own   == renderer.native[t]
       IN  /\ renderer' = [done EXCEPT !.native[t].dirty = {}]
           /\ pixels' = [pixels EXCEPT ![t] = [c \in DOMAIN @ |->
                  IF c \in own.dirty THEN done.gpu.contents[own.image][c] ELSE @[c]]]
    /\ UNCHANGED <<levels, colors, ideal, lost, wanted>>

SynchronizeFails(t) ==
    /\ GpuNewer(t)
    /\ renderer' = [DiscardedFor(renderer, t) EXCEPT !.textures = Forgotten(@, DOMAIN @)]
    /\ lost' = lost \cup RecordedTargets(renderer) \cup {t}
    /\ UNCHANGED <<pixels, levels, colors, ideal, wanted>>

\* The software rasterizer draws into pixels it read back before.
CpuDraw(t, column) ==
    /\ colors < MaxColors /\ column \in DOMAIN pixels[t]
    /\ ~GpuNewer(t)
    /\ renderer' = IF Has(renderer, t)
                   THEN [Idle(renderer) EXCEPT !.native[t].valid = FALSE,
                                               !.native[t].dirty = {}] ELSE renderer
    /\ colors' = colors + 1
    /\ pixels' = [pixels EXCEPT ![t][column] = <<colors'>>]
    /\ ideal' = [ideal EXCEPT ![t][column] = <<colors'>>]
    /\ UNCHANGED <<levels, lost, wanted>>

\* The guest gives a texture a new level, or new storage to a target.
UploadTexture(k, w) ==
    /\ colors < MaxColors
    /\ colors' = colors + 1
    /\ levels' = [levels EXCEPT ![k] = [revision |-> colors', width |-> w, color |-> <<colors'>>]]
    /\ UNCHANGED <<renderer, pixels, ideal, lost, wanted>>

Respecify(t, w) ==
    /\ w # Len(pixels[t]) /\ (Has(renderer, t) => w # renderer.native[t].width)
    /\ pixels' = [pixels EXCEPT ![t] = Blank(w, Clear)]
    /\ ideal' = [ideal EXCEPT ![t] = Blank(w, Clear)]
    /\ lost' = lost \ {t}
    /\ UNCHANGED <<renderer, levels, colors, wanted>>

present_target(t) ==
    /\ renderer.native[t].valid /\ renderer.native[t].width = Len(ideal[t]) /\ t \notin lost
    /\ LET ready == submit_commands(renderer)
           begun == begin_commands(wait_for_slot(ready, ready.current))
           shown == [begun EXCEPT !.recording =
                        Append(@, [op |-> "present", image |-> renderer.native[t].image])]
       IN  \/ renderer' = submit_commands(shown) /\ wanted' = ideal[t]
           \/ renderer' = begun /\ UNCHANGED wanted   \* no image could be acquired
    /\ UNCHANGED <<pixels, levels, colors, ideal, lost>>

release(ts) ==
    /\ \E t \in ts : Has(renderer, t)
    /\ renderer' = Released(renderer, ts)
    /\ ideal' = [t \in Targets |-> IF t \in ts THEN pixels[t] ELSE ideal[t]]
    /\ lost' = lost \ ts
    /\ UNCHANGED <<pixels, levels, colors, wanted>>

release_owner ==
    /\ renderer' = Dropped(Released(renderer, Owned), DOMAIN renderer.textures \ {"white"})
    /\ ideal' = [t \in Targets |-> IF t \in Owned THEN pixels[t] ELSE ideal[t]]
    /\ lost' = lost \ Owned
    /\ UNCHANGED <<pixels, levels, colors, wanted>>

\* The GPU completes the oldest submitted batch.
GpuExecutes ==
    /\ renderer.queued # <<>>
    /\ renderer' = Completed(renderer, 1)
    /\ UNCHANGED <<pixels, levels, colors, ideal, lost, wanted>>

-----------------------------------------------------------------------------
BatchesInit ==
    /\ renderer = [gpu       |-> [contents |-> [i \in ImageIds |-> <<>>],
                                  texels |-> [k \in Names |-> Undefined], shown |-> <<>>],
                   memory    |-> [s \in 1 .. CommandSlots |->
                                     [staging |-> <<>>,
                                      draws |-> [i \in 1 .. MaxBatchDraws |->
                                                    [column |-> 0, sources |-> <<>>]]]],
                   current   |-> 1, used |-> 0, uploaded |-> {},
                   recording |-> <<>>, queued |-> <<>>,
                   native    |-> [t \in Targets |-> NoTarget], pool |-> <<>>,
                   textures  |-> <<>>, lru |-> <<>>]
    /\ pixels = [t \in Targets |-> Blank(1, Clear)]
    /\ ideal = pixels
    /\ levels = [k \in Textures |-> NoLevel]
    /\ colors = 0 /\ lost = {} /\ wanted = <<>>

BatchesNext ==
    \/ \E t \in Targets : \E column \in 1 .. 2, units \in DrawnUnits :
          Draw(t, column, units) \/ DrawFails(t, column, units)
    \/ \E t \in Targets : flush(t) \/ finish(t) \/ SubmitFails(t)
    \/ \E t \in Targets : synchronize(t) \/ SynchronizeFails(t) \/ present_target(t)
    \/ \E t \in Targets, c \in 1 .. 2 : CpuDraw(t, c) \/ Respecify(t, c)
    \/ \E k \in Textures, w \in 1 .. 2 : UploadTexture(k, w)
    \/ \E ts \in SUBSET Targets : release(ts)
    \/ release_owner
    \/ GpuExecutes

-----------------------------------------------------------------------------
\* The GPU once everything submitted and recorded has been executed.
Drained == Idle(renderer).gpu

\* The newest columns of a target: the image's where it is dirty, else the CPU's.
Newest(t) ==
    LET own == renderer.native[t]
    IN  [c \in DOMAIN pixels[t] |->
            IF c \in own.dirty /\ own.width = Len(pixels[t]) THEN Drained.contents[own.image][c]
            ELSE pixels[t][c]]

\* Batching, caching and pooling are invisible: a target holds what the draws
\* asked for, executed at once, would have left in it.
TargetsHoldDraws == \A t \in Targets \ lost : Newest(t) = ideal[t]

\* A valid image holds the CPU's pixels where no draw has changed them.
CleanImagesMatch ==
    \A t \in Targets \ lost : LET own == renderer.native[t] IN
        own.valid /\ own.width = Len(pixels[t]) => Drained.contents[own.image] = ideal[t]

\* A cached texture that counts as uploaded holds the colour of that revision.
CachedTexturesExact ==
    \A k \in DOMAIN renderer.textures \ {"white"} :
        renderer.textures[k].revision = levels[k].revision /\ levels[k].revision # 0
            => Drained.texels[k] = levels[k].color

\* The display shows the target as it was when it was last presented.
DisplayShowsPresented == Drained.shown = wanted
=============================================================================
