--------------------------- MODULE AddressSpaces ---------------------------
(***************************************************************************)
(* Guest address spaces (src/src/foundation/address_space.cpp), their      *)
(* physical pages and the file page caches                                 *)
(* (src/src/foundation/memory/file_page_cache.cpp), as functions on one    *)
(* memory value: a kernel handler chains several AddressSpace calls, and   *)
(* its action applies them one after the other.                            *)
(*                                                                         *)
(* A range of bytes is a set of consecutive page numbers and the bytes of  *)
(* a page are one value. Reference counts are not state: a backing is      *)
(* `unique()` when one reference to it exists in the whole memory.         *)
(***************************************************************************)
EXTENDS Integers, Sequences, FiniteSets, SequencesExt

CONSTANTS
    Spaces,            \* slots for address spaces
    Pages,             \* the page numbers of an address space, 0 .. n
    Backings,          \* bound of the physical pages in use at once
    Files,             \* regular files of the guest
    FilePages,         \* how many pages a file has
    Zero, Text,        \* bytes of a fresh page, bytes a file starts with
    Values,            \* bytes of a page
    MaxCachedPages     \* FilePageCacheLimits::maximum_pages

ASSUME MemoryAssumption ==
    /\ Pages = 0 .. Cardinality(Pages) - 1 /\ Pages # {}
    /\ IsFiniteSet(Spaces) /\ Backings \subseteq Nat \ {0}
    /\ {Zero, Text} \subseteq Values /\ MaxCachedPages \in Nat
    /\ FilePages \in Nat

None == 0
Perms == SUBSET {"read", "write", "execute"}
Ranges == {l .. h : l \in Pages, h \in Pages} \ {{}}
Lo(R) == CHOOSE p \in R : \A q \in R : p <= q
Hi(R) == CHOOSE p \in R : \A q \in R : p >= q
InOrder(R) == SelectSeq([i \in 1 .. Cardinality(Pages) |-> i - 1], LAMBDA p : p \in R)

\* AddressSpace::Page, without a backing until it is resident.
BlankPage == [bk |-> None, gen |-> 0, cached |-> FALSE, shared |-> FALSE,
              capable |-> FALSE, wb |-> FALSE, cow |-> FALSE]

\* GuestPageBacking: its bytes, its common write generation and, for a page
\* of a file, where flush_file writes it.
Blank == [val |-> Zero, tracked |-> FALSE, sgen |-> 0, file |-> <<>>]

NoSpace == [alive |-> FALSE, vm |-> <<>>, fast |-> <<>>, map |-> None, pieces |-> {},
            stable |-> {}, tables |-> FALSE, jitOn |-> FALSE, jitWriteOn |-> TRUE,
            parallel |-> TRUE, jitR |-> <<>>, jitW |-> <<>>, direct |-> {}, excl |-> {},
            tracked |-> {}, wgen |-> 0, leases |-> {}, seen |-> 0, purgable |-> <<>>]

Empty(set) == [x \in set |-> None]
FreshSpace(id) ==
    [NoSpace EXCEPT !.alive = TRUE, !.map = id, !.jitR = Empty(Pages), !.jitW = Empty(Pages)]

MapIds == 1 .. Cardinality(Spaces)
BlankMap == [p \in Pages |-> BlankPage]

-----------------------------------------------------------------------------
(***************************************************************************)
(* References.                                                             *)
(***************************************************************************)
Live(m) == {s \in Spaces : m.sp[s].alive}
LiveMaps(m) == {m.sp[s].map : s \in Live(m)}
PageMap(m, s) == m.maps[m.sp[s].map]
PageRefs(m, b)  == {<<i, p>> \in LiveMaps(m) \X Pages : m.maps[i][p].bk = b}
EntryRefs(m, b) == {<<e, i>> \in (DOMAIN m.entries) \X (1 .. Cardinality(Pages)) :
                        i \in DOMAIN m.entries[e].pages /\ m.entries[e].pages[i] = b}
CacheRefs(m, b) == {<<c, i>> \in {"private", "shared"} \X (1 .. MaxCachedPages + 1) :
                        i \in DOMAIN m.cache[c].lru /\ m.cache[c].lru[i].bk = b}
Refs(m, b) ==
    Cardinality(PageRefs(m, b)) + Cardinality(EntryRefs(m, b)) + Cardinality(CacheRefs(m, b))
Unique(m, b) == Refs(m, b) <= 1

\* The smallest unused physical page; an unused one holds nothing.
Used(m) ==
    {m.maps[i][p].bk : i \in LiveMaps(m), p \in Pages}
    \cup UNION {ToSet(m.entries[e].pages) : e \in DOMAIN m.entries}
    \cup {m.cache[c].lru[i].bk : <<c, i>> \in {x \in {"private", "shared"} \X (1 .. MaxCachedPages + 1) :
                                                  x[2] \in DOMAIN m.cache[x[1]].lru}}
    \cup m.fresh
Next_(m) == LET used == Used(m) IN CHOOSE b \in Backings \ used : \A c \in Backings \ used : b <= c

\* make_shared<GuestPageBacking>: `fresh` holds the reference of the caller.
Made(m, val, file) ==
    [m EXCEPT !.bk[Next_(m)] = [Blank EXCEPT !.val = val, !.file = file],
              !.fresh = @ \cup {Next_(m)}]

\* What the shared_ptrs leave behind when a call is over.
Collected(m) ==
    LET kept(used, maps) ==
            [m EXCEPT !.fresh = {},
                      !.bk   = [b \in Backings |-> IF b \in used THEN @[b] ELSE Blank],
                      !.maps = [i \in MapIds |-> IF i \in maps THEN @[i] ELSE BlankMap]]
    IN kept(Used([m EXCEPT !.fresh = {}]), LiveMaps(m))

ensure_unique_page_map(m, s) ==
    LET id == CHOOSE i \in MapIds : i \notin LiveMaps(m)
    IN IF \A t \in Live(m) \ {s} : m.sp[t].map # m.sp[s].map THEN m
       ELSE [m EXCEPT !.maps[id] = PageMap(m, s), !.sp[s].map = id]

WithPage(m, s, p, page) == [m EXCEPT !.maps[m.sp[s].map][p] = page]

-----------------------------------------------------------------------------
(***************************************************************************)
(* Permissions and the direct tables of the JIT.                           *)
(***************************************************************************)
Mapped(m, s, R) == \A p \in R : p \in DOMAIN m.sp[s].fast
range_accessible(m, s, R, access) == \A p \in R : p \in DOMAIN m.sp[s].fast /\ access \subseteq m.sp[s].fast[p]
overlaps(m, s, R) == \E p \in R : p \in DOMAIN m.sp[s].vm

Without(f, R) == [p \in DOMAIN f \ R |-> f[p]]
MapOr(f, R, perms) == [p \in DOMAIN f \cup R |->
    IF p \notin R THEN f[p] ELSE IF p \in DOMAIN f THEN f[p] \cup perms ELSE perms]

\* VmMap::region_at_or_after: regions are coalesced, so the one that holds p
\* is the largest range of equal permissions around it.
RegionOf(m, s, p) == {q \in DOMAIN m.sp[s].vm :
    \A r \in Pages : (p <= r /\ r <= q) \/ (q <= r /\ r <= p) =>
        r \in DOMAIN m.sp[s].vm /\ m.sp[s].vm[r] = m.sp[s].vm[p]}

tracks_write(m, s, p) == p \in m.sp[s].tracked

MayWriteDirectly(m, s, p) ==
    LET page == PageMap(m, s)[p] IN
    /\ m.sp[s].jitWriteOn /\ range_accessible(m, s, {p}, {"read", "write"})
    /\ ~tracks_write(m, s, p) /\ page.bk # None
    /\ ~m.bk[page.bk].tracked /\ ~page.cached /\ ~page.shared /\ ~page.cow
    /\ p \notin m.sp[s].excl

\* refresh_jit_page_locked of every page of a set.
Refreshed(m, s, R) ==
    LET page(p)  == PageMap(m, s)[p]
        on       == m.sp[s].jitOn
        writable == {p \in R : on /\ MayWriteDirectly(m, s, p)}
        readable == {p \in R : on /\ range_accessible(m, s, {p}, {"read"})}
        entry(set, old, p) == IF p \notin R THEN old[p] ELSE IF p \in set THEN page(p).bk ELSE None
    IN IF ~m.sp[s].tables THEN m
       ELSE [m EXCEPT !.sp[s].jitR = [p \in Pages |-> entry(readable, @, p)],
                      !.sp[s].jitW = [p \in Pages |-> entry(writable, @, p)],
                      !.sp[s].direct = (@ \ {p \in R : m.sp[s].jitW[p] # None}) \cup writable]
refresh_jit_page(m, s, p) == Refreshed(m, s, {p})

clear_jit_page_table(m, s) ==
    [m EXCEPT !.sp[s].jitR = Empty(Pages), !.sp[s].jitW = Empty(Pages), !.sp[s].direct = {}]

Resident(m, s) == {p \in Pages : PageMap(m, s)[p].bk # None}

jit_page_tables(m, s) ==
    IF ~m.sp[s].jitOn \/ m.sp[s].tables THEN m
    ELSE Refreshed([m EXCEPT !.sp[s].tables = TRUE, !.sp[s].direct = {}], s, Resident(m, s))

set_parallel_access(m, s, enabled) ==
    LET n == [m EXCEPT !.sp[s].parallel = enabled, !.sp[s].jitOn = ~enabled]
    IN IF ~n.sp[s].tables THEN n
       ELSE IF enabled THEN clear_jit_page_table(n, s) ELSE Refreshed(n, s, Resident(n, s))

disable_jit_page_table(m, s) ==
    clear_jit_page_table([m EXCEPT !.sp[s].jitOn = FALSE, !.sp[s].jitWriteOn = FALSE], s)

disable_jit_write_page_table(m, s) ==
    [m EXCEPT !.sp[s].jitWriteOn = FALSE, !.sp[s].jitW = Empty(Pages), !.sp[s].direct = {}]

track_exclusive_access(m, s, p) ==
    refresh_jit_page([m EXCEPT !.sp[s].excl = @ \cup {p}], s, p)

invalidate_shared_write_jit_pages(m, s) ==
    LET gone == {p \in m.sp[s].direct : PageMap(m, s)[p].bk # None /\ m.bk[PageMap(m, s)[p].bk].tracked}
    IN [m EXCEPT !.sp[s].jitW = [p \in Pages |-> IF p \in gone THEN None ELSE @[p]],
                 !.sp[s].direct = @ \ gone]

synchronize_shared_write_tracking(m, s) ==
    IF m.sp[s].seen = m.epoch THEN m
    ELSE [invalidate_shared_write_jit_pages(m, s) EXCEPT !.sp[s].seen = m.epoch]

\* Within one call no other space moves the epoch: only aliases need the scan.
finish_shared_write_tracking(m, s, aliases) ==
    [(IF aliases THEN invalidate_shared_write_jit_pages(m, s) ELSE m) EXCEPT !.sp[s].seen = m.epoch]

\* GuestPageBacking::enable_shared_write_tracking of a set of backings.
enable_tracking(m, set) ==
    LET new == {b \in set : ~m.bk[b].tracked}
    IN [m EXCEPT !.bk = [b \in Backings |-> IF b \in new THEN [@[b] EXCEPT !.tracked = TRUE] ELSE @[b]],
                 !.epoch = @ + Cardinality(new)]

-----------------------------------------------------------------------------
(***************************************************************************)
(* Pages of files. A piece is one FileMapping; a cache is the list of the  *)
(* cached pages, the least recently used first, and the generation under   *)
(* which the identity of each file was computed last.                      *)
(***************************************************************************)
open_mapping(m, c, f) ==
    IF m.cache[c].ids[f] = m.file[f].gen THEN m
    ELSE [m EXCEPT !.cache[c].ids[f] = m.file[f].gen,
                   !.cache[c].lru = IF m.cache[c].ids[f] = 0 THEN @
                                    ELSE SelectSeq(@, LAMBDA e : e.file # f)]

Cached(m, c, f, gen, off) ==
    {i \in DOMAIN m.cache[c].lru : LET e == m.cache[c].lru[i] IN e.file = f /\ e.gen = gen /\ e.off = off}

\* load_page and materialize: a hit is touched, a miss reads the file as it
\* is now and may evict the oldest page of the cache.
load_page(m, c, f, gen, off) ==
    LET hits == Cached(m, c, f, gen, off)
        n    == Made(m, m.file[f].val[off], <<f, off>>)
        lru  == Append(m.cache[c].lru, [file |-> f, gen |-> gen, off |-> off, bk |-> Next_(m)])
    IN IF hits # {}
       THEN LET i == CHOOSE i \in hits : TRUE
            IN [mem |-> [m EXCEPT !.cache[c].lru = Append(RemoveAt(@, i), @[i])],
                bk |-> m.cache[c].lru[i].bk]
       ELSE [mem |-> [n EXCEPT !.cache[c].lru =
                        IF MaxCachedPages # 0 /\ Len(lru) > MaxCachedPages THEN Tail(lru) ELSE lru],
             bk |-> Next_(m)]

PiecesAt(m, s, p) == {x \in m.sp[s].pieces : x.lo <= p /\ p <= x.hi}

\* The page a fault installs: cached, and copied before its first write.
FaultPage(m, s, p) ==
    LET x == CHOOSE x \in PiecesAt(m, s, p) : TRUE
        l == load_page(m, "private", x.file, x.gen, x.off + (p - x.lo))
    IN IF PageMap(m, s)[p].bk # None THEN m
       ELSE WithPage(l.mem, s, p, [PageMap(m, s)[p] EXCEPT !.bk = l.bk, !.cached = TRUE, !.cow = TRUE])

\* ensure_page_locked, behind ensure_unique_page_map.
ensure_page(m, s, p) ==
    LET n == ensure_unique_page_map(m, s)
    IN IF PageMap(n, s)[p].bk = None /\ PiecesAt(n, s, p) # {} THEN FaultPage(n, s, p) ELSE n

range_needs_file_fault(m, s, R) ==
    \E p \in R : PageMap(m, s)[p].bk = None /\ PiecesAt(m, s, p) # {}

\* fault_file_pages: the cluster around a missing page is the rest of its piece.
fault_file_pages(m, s, R) ==
    LET n == ensure_unique_page_map(m, s)
        cluster == UNION {x.lo .. x.hi : x \in
                         UNION {PiecesAt(n, s, p) : p \in {q \in R : PageMap(n, s)[q].bk = None}}}
    IN FoldLeft(LAMBDA k, p : refresh_jit_page(FaultPage(k, s, p), s, p), n, InOrder(cluster))

unmap_file_mappings(m, s, R) ==
    LET cut(x) == {[x EXCEPT !.hi = Lo(R) - 1], [x EXCEPT !.lo = Hi(R) + 1, !.off = x.off + (Hi(R) + 1 - x.lo)]}
    IN [m EXCEPT !.sp[s].pieces =
          {y \in UNION {IF x.hi < Lo(R) \/ Hi(R) < x.lo THEN {x} ELSE cut(x) : x \in @} : y.lo <= y.hi}]

\* GuestPageBacking::flush_file: pwrite changes the file and its generation.
Flushed(m, b) ==
    IF m.bk[b].file = <<>> THEN m
    ELSE [m EXCEPT !.file[m.bk[b].file[1]].val[m.bk[b].file[2]] = m.bk[b].val,
                   !.file[m.bk[b].file[1]].gen = @ + 1]

flush_shared_file_pages(m, s, R) ==
    FoldLeft(LAMBDA n, p : Flushed(n, PageMap(m, s)[p].bk), m,
             InOrder({p \in R : PageMap(m, s)[p].wb /\ PageMap(m, s)[p].bk # None}))

-----------------------------------------------------------------------------
(***************************************************************************)
(* The operations of an address space.                                     *)
(***************************************************************************)
invalidate_mapping_leases(m, s, R) ==
    [m EXCEPT !.sp[s].leases = {l \in @ : l.range \cap R = {}}]

map_(m, s, R, perms) ==
    Refreshed([invalidate_mapping_leases(m, s, R) EXCEPT
                    !.sp[s].vm = MapOr(@, R, perms), !.sp[s].fast = MapOr(@, R, perms)], s, R)

unmap_range(m, s, R) ==
    LET flushed == unmap_file_mappings(flush_shared_file_pages(m, s, R), s, R)
        own == ensure_unique_page_map([flushed EXCEPT !.sp[s].vm = Without(@, R), !.sp[s].stable = @ \ R], s)
    IN Refreshed([own EXCEPT !.maps[own.sp[s].map] = [p \in Pages |-> IF p \in R THEN BlankPage ELSE @[p]],
                             !.sp[s].excl = @ \ R, !.sp[s].fast = Without(@, R)], s, R)

\* Mutant: unmapping keeps the leases of the range.
UnmapKeepsLeases(m, s, R) == unmap_range(m, s, R)

unmap(m, s, R) == unmap_range(invalidate_mapping_leases(m, s, R), s, R)

clear(m, s) ==
    LET n == flush_shared_file_pages(m, s, Pages)
        alone == \A t \in Live(n) \ {s} : n.sp[t].map # n.sp[s].map
        id == CHOOSE i \in MapIds : i \notin LiveMaps(n) \ (IF alone THEN {n.sp[s].map} ELSE {})
    IN clear_jit_page_table(
        [n EXCEPT !.maps[id] = BlankMap, !.sp[s].map = id, !.sp[s].vm = <<>>, !.sp[s].fast = <<>>,
                  !.sp[s].stable = {}, !.sp[s].pieces = {}, !.sp[s].excl = {}, !.sp[s].tracked = {},
                  !.sp[s].leases = {}], s)

CanProtect(m, s, R) == R \subseteq DOMAIN m.sp[s].vm
protect(m, s, R, perms) ==
    LET set == [m EXCEPT !.sp[s].vm  = [p \in DOMAIN @ |-> IF p \in R THEN perms ELSE @[p]],
                         !.sp[s].fast = [p \in DOMAIN @ |-> IF p \in R THEN perms ELSE @[p]]]
        own == ensure_unique_page_map(set, s)
        wb  == [own EXCEPT !.maps[own.sp[s].map] =
                    [p \in Pages |-> IF p \in R /\ @[p].capable THEN [@[p] EXCEPT !.wb = TRUE] ELSE @[p]]]
    IN Refreshed(IF "write" \in perms THEN wb ELSE set, s, R)

mark_translation_profile_stable(m, s, R) ==
    IF \A p \in R : p \in DOMAIN m.sp[s].vm /\ "execute" \in m.sp[s].vm[p]
    THEN [m EXCEPT !.sp[s].stable = @ \cup R] ELSE m

\* writable_backing_locked: detach from the file cache or from a fork.
writable_backing(m, s, p) ==
    LET page == PageMap(m, s)[p]
        copies == page.bk # None /\ (page.cached \/ (page.cow /\ ~page.shared /\ ~Unique(m, page.bk)))
        n == IF page.bk = None THEN Made(m, Zero, <<>>)
             ELSE IF copies THEN Made(m, m.bk[page.bk].val, <<>>) ELSE m
    IN WithPage(n, s, p, [page EXCEPT !.bk = IF page.bk = None \/ copies THEN Next_(m) ELSE @,
                                      !.cached = FALSE, !.cow = FALSE])

\* Mutant: reservations on the page survive a store through another view.
ReservationsSurvive(m, b) == [m EXCEPT !.bk[b].sgen = IF m.bk[b].tracked THEN @ + 1 ELSE @]

\* mark_shared_backing_written_locked: the reservations on the page are lost.
mark_shared_backing_written(m, b) ==
    [m EXCEPT !.bk[b].sgen = IF m.bk[b].tracked THEN @ + 1 ELSE @,
              !.reserved = [s \in Spaces |-> IF @[s].key = b THEN [@[s] EXCEPT !.intact = FALSE] ELSE @[s]]]

mark_written(m, s, R) ==
    IF \A p \in R : ~tracks_write(m, s, p) THEN m
    ELSE [m EXCEPT !.sp[s].wgen = @ + 1,
                   !.maps[m.sp[s].map] = [p \in Pages |-> IF p \in R /\ @[p].bk # None
                                            THEN [@[p] EXCEPT !.gen = m.sp[s].wgen + 1] ELSE @[p]]]

\* One page of write_integer, compare_exchange_integer, exchange_integer and copy_in.
StoredIn(m, s, p, b, v) ==
    mark_shared_backing_written([refresh_jit_page(m, s, p) EXCEPT !.bk[b].val = v], b)
StoredInPage(m, s, p, v) == StoredIn(m, s, p, PageMap(m, s)[p].bk, v)
Stored(m, s, p, v) == StoredInPage(writable_backing(ensure_page(m, s, p), s, p), s, p, v)

write_integer(m, s, R, v) ==
    mark_written(FoldLeft(LAMBDA n, p : Stored(n, s, p, v), m, InOrder(R)), s, R)
copy_in(m, s, R, vals) ==
    mark_written(FoldLeft(LAMBDA n, p : Stored(n, s, p, vals[p - Lo(R) + 1]), m, InOrder(R)), s, R)

\* The bytes the checked path reads, the pages of a file faulted in first.
Contents(m, s, p) ==
    LET b == PageMap(m, s)[p].bk IN IF b = None THEN Zero ELSE m.bk[b].val
read_(m, s, R) == IF range_needs_file_fault(m, s, R) THEN fault_file_pages(m, s, R) ELSE m

map_file(m, s, R, perms, f) ==
    LET n == open_mapping(m, "private", f)
    IN [invalidate_mapping_leases(n, s, R) EXCEPT
            !.sp[s].pieces = @ \cup {[lo |-> Lo(R), hi |-> Hi(R), file |-> f, off |-> 0, gen |-> m.file[f].gen]},
            !.sp[s].vm = MapOr(@, R, perms), !.sp[s].fast = MapOr(@, R, perms)]

\* Mutant: pages become shared memory without leaving the fork they are part of.
SharedInPlace(m, s, p) ==
    LET resident(n) == IF PageMap(n, s)[p].bk = None THEN writable_backing(n, s, p) ELSE n
        shared(n)   == WithPage(n, s, p, [PageMap(n, s)[p] EXCEPT !.shared = TRUE])
    IN refresh_jit_page(shared(resident(ensure_page(m, s, p))), s, p)

\* One page of share_pages: detached, then marked as shared memory.
SharedPage(m, s, p) ==
    LET shared(n)  == WithPage(n, s, p, [PageMap(n, s)[p] EXCEPT !.shared = TRUE])
        watched(n) == IF tracks_write(n, s, p) THEN enable_tracking(n, {PageMap(n, s)[p].bk}) ELSE n
    IN refresh_jit_page(watched(shared(writable_backing(ensure_page(m, s, p), s, p))), s, p)

share_pages(m, s, R) ==
    LET finished(n, watched) ==
            IF watched = {} THEN n
            ELSE finish_shared_write_tracking(n, s, \E p \in watched : ~Unique(n, PageMap(n, s)[p].bk))
    IN finished(FoldLeft(LAMBDA k, p : SharedPage(k, s, p), m, InOrder(R)),
                {p \in R : tracks_write(m, s, p)})
PagesOf(m, s, R) == [i \in 1 .. Cardinality(R) |-> PageMap(m, s)[Lo(R) + i - 1].bk]

CanMapBackings(m, s, R) == ~overlaps(m, s, R)
map_page_backings(m, s, R, perms, bks, mode, token) ==
    LET own == ensure_unique_page_map(invalidate_mapping_leases(m, s, R), s)
        bkAt(p) == bks[p - Lo(R) + 1]
        capable(p) == mode = "sharedFile" /\ m.bk[bkAt(p)].file # <<>>
        page(p) == [BlankPage EXCEPT !.bk = bkAt(p), !.shared = mode # "copy", !.cow = mode = "copy",
                        !.capable = capable(p), !.wb = capable(p) /\ "write" \in perms]
        in  == [own EXCEPT !.maps[own.sp[s].map] = [p \in Pages |-> IF p \in R THEN page(p) ELSE @[p]],
                           !.sp[s].vm = MapOr(@, R, perms), !.sp[s].fast = MapOr(@, R, perms)]
        watched == {bkAt(p) : p \in {q \in R : mode # "copy" /\ tracks_write(in, s, q)}}
        seen == IF watched = {} THEN in ELSE finish_shared_write_tracking(enable_tracking(in, watched), s, TRUE)
        held == Refreshed(seen, s, R)
    IN IF token = None THEN held
       ELSE [held EXCEPT !.sp[s].leases = @ \cup {[token |-> token, range |-> R, pages |-> bks]}]

unmap_mapping_lease(m, s, l) ==
    unmap_range(invalidate_mapping_leases([m EXCEPT !.sp[s].leases = @ \ {l}], s, l.range), s, l.range)

track_write_generation(m, s, R) ==
    LET n == [m EXCEPT !.sp[s].tracked = @ \cup R]
        shared == {PageMap(n, s)[p].bk : p \in {q \in R : PageMap(n, s)[q].shared}} \ {None}
    IN Refreshed(IF shared = {} THEN n ELSE finish_shared_write_tracking(enable_tracking(n, shared), s, TRUE), s, R)

\* Mutant: a fork leaves the parent's direct entries alone.
CloneUnrefreshed(m, s, t) ==
    [m EXCEPT !.maps[m.sp[s].map] =
                [p \in Pages |-> IF @[p].bk # None /\ ~@[p].shared THEN [@[p] EXCEPT !.cow = TRUE] ELSE @[p]],
              !.sp[t] = [m.sp[s] EXCEPT !.tables = FALSE, !.jitR = Empty(Pages), !.jitW = Empty(Pages),
                            !.direct = {}, !.jitWriteOn = TRUE, !.seen = m.epoch, !.purgable = <<>>,
                            !.jitOn = m.sp[s].jitOn /\ ~m.sp[s].parallel]]

clone(m, s, t) ==
    LET marked == [m EXCEPT !.maps[m.sp[s].map] =
                        [p \in Pages |-> IF @[p].bk # None /\ ~@[p].shared THEN [@[p] EXCEPT !.cow = TRUE] ELSE @[p]]]
        n == Refreshed(marked, s, {p \in Resident(m, s) : ~PageMap(m, s)[p].shared})
    IN [n EXCEPT !.sp[t] = [n.sp[s] EXCEPT !.tables = FALSE, !.jitR = Empty(Pages), !.jitW = Empty(Pages),
                                !.direct = {}, !.jitWriteOn = TRUE, !.seen = n.epoch, !.purgable = <<>>,
                                !.jitOn = n.sp[s].jitOn /\ ~n.sp[s].parallel]]

\* ~AddressSpace
destroy(m, s) == [flush_shared_file_pages(m, s, Pages) EXCEPT !.sp[s] = NoSpace]

-----------------------------------------------------------------------------
(***************************************************************************)
(* What the JIT asks before it folds or stores translated code.            *)
(***************************************************************************)
OnlyExecutable(m, s, p) == range_accessible(m, s, {p}, {"execute"}) /\ "write" \notin m.sp[s].fast[p]
is_read_only_executable(m, s, p) ==
    LET page == PageMap(m, s)[p] IN
    /\ OnlyExecutable(m, s, p)
    /\ IF page.bk = None THEN PiecesAt(m, s, p) # {}
       ELSE (page.cached \/ m.bk[page.bk].file # <<>>) /\ ~page.shared /\ ~m.bk[page.bk].tracked

\* The file and generation whose bytes the identity names, if there is one.
executable_backing_identity(m, s, p) ==
    LET page == PageMap(m, s)[p] IN
    IF OnlyExecutable(m, s, p) /\ (page.bk # None => page.cached /\ ~page.shared /\ ~m.bk[page.bk].tracked)
    THEN {<<x.file, x.gen, x.off + (p - x.lo)>> : x \in PiecesAt(m, s, p)} ELSE {}

range_write_generation(m, s, R) ==
    LET gens == {PageMap(m, s)[p].gen : p \in R} IN CHOOSE g \in gens : \A h \in gens : g >= h
write_generation_changes(m, s, R, after) == {p \in R : PageMap(m, s)[p].gen > after}
SharedGeneration(m, s, p) == LET b == PageMap(m, s)[p].bk IN IF b = None THEN 0 ELSE m.bk[b].sgen
exclusive_reservation_key(m, s, p) == PageMap(m, s)[p].bk
=============================================================================
