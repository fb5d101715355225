---------------------------- MODULE GuestMemory ----------------------------
(***************************************************************************)
(* The calls of guest programs that reach their memory: loads and stores   *)
(* of translated code, the Mach VM routines (src/src/kernel/mach/vm), mmap *)
(* and its family (src/src/kernel/bsd/descriptor_memory.cpp), the shared   *)
(* region (src/src/kernel/bsd/vm/shared_region.cpp), fork, exec and exit.  *)
(*                                                                         *)
(* A call is one step: the guest loop runs one slice of a space at a time  *)
(* when the JIT tables are in use, and otherwise each AddressSpace call    *)
(* holds the space's lock. `mix` is chosen once and says which calls the   *)
(* programs of a behaviour make.                                           *)
(***************************************************************************)
EXTENDS AddressSpaces

CONSTANTS
    Entries,           \* bound of the Mach memory entries
    Volatile,          \* the files that back POSIX shared memory objects
    SharedRegion,      \* the pages of the ARM shared region
    PermSets,          \* the protections a program asks for
    Stored_,           \* the bytes a program stores
    FilesChange,       \* whether a mapped file may be rewritten
    Absent, Lazy, Own, \* names of FlatMemory
    Mixes,             \* the call mixes
    MaxCalls,          \* the bound of the calls of a behaviour; each member of ...
    Longer             \* ... this set of sets of mixes allows its mixes one more

ASSUME GuestMemoryAssumption ==
    /\ Entries \subseteq Nat /\ PermSets \subseteq Perms /\ Volatile \subseteq Files
    /\ SharedRegion \subseteq Pages /\ FilesChange \in BOOLEAN
    /\ MaxCalls \in Nat /\ IsFiniteSet(Longer)

VARIABLES
    mem,               \* all the memory there is
    changed,           \* history: the bytes a space reserved have changed since
    mix, calls

vars == <<mem, changed, mix, calls>>

NoReservation == [page |-> -1, key |-> -1, val |-> Zero, intact |-> FALSE]

\* The machine starts with one process; with one processor its JIT uses the
\* direct tables.
Init ==
    /\ mix \in Mixes /\ calls = 0
    /\ LET first == CHOOSE s \in Spaces : TRUE
           blank == [sp |-> [s \in Spaces |-> IF s = first THEN FreshSpace(1) ELSE NoSpace],
                     maps |-> [i \in MapIds |-> BlankMap], bk |-> [b \in Backings |-> Blank],
                     fresh |-> {}, entries |-> <<>>, epoch |-> 0,
                     cache |-> [c \in {"private", "shared"} |-> [ids |-> Empty(Files), lru |-> <<>>]],
                     file |-> [f \in Files |-> [val |-> [i \in 0 .. FilePages - 1 |-> Text], gen |-> 1]],
                     reserved |-> [s \in Spaces |-> NoReservation]]
       IN \E parallel \in IF mix = "fork" THEN BOOLEAN ELSE {FALSE} :
            mem = jit_page_tables(set_parallel_access(blank, first, parallel), first)
    /\ changed = [s \in Spaces |-> FALSE]

\* The end of a call: dropped references are collected, and a reservation of
\* a page that is gone can never match again. `taken` are the spaces whose
\* reservation the call took.
CommitTaking(m, taken) ==
    LET kept(n, used) ==
            [n EXCEPT !.reserved =
                [s \in Spaces |-> IF ~n.sp[s].alive THEN NoReservation
                                  ELSE [@[s] EXCEPT !.intact =
                                          @ /\ (n.reserved[s].key \in Backings => n.reserved[s].key \in used)]]]
        differs(n, s) == Contents(n, s, n.reserved[s].page) # Contents(mem, s, n.reserved[s].page)
        stale(n, s) == /\ s \notin taken /\ n.sp[s].alive /\ n.reserved[s].page \in DOMAIN n.sp[s].fast
                       /\ changed[s] \/ differs(n, s)
    IN /\ mem' = kept(Collected(m), Used([m EXCEPT !.fresh = {}]))
       /\ changed' = [s \in Spaces |-> stale(mem', s)]
Commit(m) == CommitTaking(m, {})

Runs(s) == mem.sp[s].alive

-----------------------------------------------------------------------------
(***************************************************************************)
(* Translated code. A direct entry bypasses every check; without one the   *)
(* callback goes through the address space, or faults and changes nothing. *)
(***************************************************************************)
Store(s, R, v) ==
    /\ Runs(s)
    /\ \/ /\ \E p \in R : R = {p} /\ mem.sp[s].jitW[p] # None
          /\ Commit([mem EXCEPT !.bk[mem.sp[s].jitW[Lo(R)]].val = v])
       \/ /\ \A p \in R : R = {p} => mem.sp[s].jitW[p] = None
          /\ range_accessible(mem, s, R, {"write"})
          /\ Commit(write_integer(mem, s, R, v))

\* A load that the read table does not answer faults the pages of a file in.
Load(s, R) ==
    /\ Runs(s) /\ range_accessible(mem, s, R, {"read"})
    /\ range_needs_file_fault(mem, s, R)
    /\ Commit(fault_file_pages(mem, s, R))

\* SWP, and an exclusive store without a reservation in between.
Swap(s, p, v) ==
    /\ Runs(s) /\ range_accessible(mem, s, {p}, {"read", "write"})
    /\ Commit(write_integer(mem, s, {p}, v))

LoadExclusive(s, p) ==
    /\ Runs(s) /\ range_accessible(mem, s, {p}, {"read"})
    /\ LET taken(t, n) == [n EXCEPT !.reserved[s] =
                                [page |-> p, key |-> exclusive_reservation_key(t, s, p),
                                 val |-> Contents(n, s, p), intact |-> TRUE]]
           tracked(t) == taken(t, read_(t, s, {p}))
       IN CommitTaking(tracked(track_exclusive_access(mem, s, p)), {s})

StoreExclusive(s, p, v) ==
    LET r == mem.reserved[s]
        held == /\ r.page = p /\ r.intact /\ r.key = exclusive_reservation_key(mem, s, p)
                /\ range_accessible(mem, s, {p}, {"read", "write"})
                /\ Contents(read_(mem, s, {p}), s, p) = r.val
    IN /\ Runs(s) /\ r.page >= 0
       /\ Commit([(IF held THEN write_integer(mem, s, {p}, v) ELSE mem) EXCEPT !.reserved[s] = NoReservation])

\* The safe point before a slice.
SafePoint(s) ==
    /\ Runs(s) /\ mem.sp[s].seen # mem.epoch
    /\ Commit(synchronize_shared_write_tracking(mem, s))

\* A new process gets its tables when its first virtual CPU is made.
MakeTables(s) == Runs(s) /\ mem.sp[s].jitOn /\ ~mem.sp[s].tables /\ Commit(jit_page_tables(mem, s))

\* A debugger's watchpoint, an exact monitor.
Watch(s) == Runs(s) /\ mem.sp[s].jitOn /\ Commit(disable_jit_page_table(mem, s))
ExactMonitor(s) == Runs(s) /\ mem.sp[s].jitWriteOn /\ Commit(disable_jit_write_page_table(mem, s))

-----------------------------------------------------------------------------
(***************************************************************************)
(* Kernel copies and Mach VM routines.                                     *)
(***************************************************************************)
\* A system call's results, which are copied in whatever the protection is.
CopyResults(s, R, v) ==
    Runs(s) /\ Mapped(mem, s, R) /\ Commit(copy_in(mem, s, R, [i \in 1 .. Cardinality(R) |-> v]))

\* The caller's address, or with VM_FLAGS_ANYWHERE the first free one.
vm_allocate(s, R) ==
    Runs(s) /\ ~overlaps(mem, s, R) /\ Commit(map_(mem, s, R, {"read", "write"}))

vm_deallocate(s, R) == Runs(s) /\ overlaps(mem, s, R) /\ Commit(unmap(mem, s, R))

vm_protect(s, R, perms) == Runs(s) /\ CanProtect(mem, s, R) /\ Commit(protect(mem, s, R, perms))

Shift(R, d) == {p + d : p \in R}
BytesOf(m, s, R) == [i \in 1 .. Cardinality(R) |-> Contents(m, s, Lo(R) + i - 1)]

\* read_bytes fills a buffer before copy_in overwrites the destination.
vm_copy(s, R, d) ==
    /\ Runs(s) /\ range_accessible(mem, s, R, {"read"})
    /\ LET written(n) == IF Shift(R, d) \subseteq Pages /\ range_accessible(n, s, Shift(R, d), {"write"})
                         THEN copy_in(n, s, Shift(R, d), BytesOf(n, s, R)) ELSE n
       IN Commit(written(read_(mem, s, R)))

\* The copy goes to a free region, or the call fails with the source faulted in.
vm_read(s, R, T) ==
    /\ Runs(s) /\ range_accessible(mem, s, R, {"read"}) /\ ~overlaps(mem, s, T)
    /\ Cardinality(T) = Cardinality(R)
    /\ LET copied(n) == copy_in(map_(n, s, T, {"read", "write"}), s, T, BytesOf(n, s, R))
       IN Commit(copied(read_(mem, s, R)))

\* The state of a page is kept by address and outlives the mapping.
vm_purgable_control(s, p, state) ==
    /\ Runs(s) /\ Mapped(mem, s, {p})
    /\ Commit([mem EXCEPT !.sp[s].purgable = [q \in DOMAIN @ \cup {p} |-> IF q = p THEN state ELSE @[q]]])

\* mach_make_memory_entry_64: new pages, a part of another entry, or the
\* pages of the caller.
WithEntry(m, e, entry) ==
    [m EXCEPT !.entries = [x \in DOMAIN @ \cup {e} |-> IF x = e THEN entry ELSE @[x]]]
Entry(pages, first, size, prot) == [pages |-> pages, first |-> first, size |-> size, prot |-> prot]
FreeEntries == LET free == Entries \ DOMAIN mem.entries IN {e \in free : \A f \in free : e <= f}

make_entry_named(s, e, prot) ==
    /\ Runs(s) /\ e \in FreeEntries
    /\ Commit(WithEntry(Made(mem, Zero, <<>>), e, Entry(<<Next_(mem)>>, 1, 1, prot)))
\* A part shares the object, all its pages included.
make_entry_part(s, e, parent, i, prot) ==
    /\ Runs(s) /\ e \in FreeEntries /\ parent \in DOMAIN mem.entries
    /\ i \in 1 .. mem.entries[parent].size /\ prot \subseteq mem.entries[parent].prot
    /\ LET x == mem.entries[parent]
       IN Commit(WithEntry(mem, e, Entry(x.pages, x.first + i - 1, 1, prot)))
make_entry_range(s, e, R, prot) ==
    /\ Runs(s) /\ e \in FreeEntries /\ Mapped(mem, s, R)
    /\ LET named(n) == WithEntry(n, e, Entry(PagesOf(n, s, R), 1, Cardinality(R), prot))
       IN Commit(named(share_pages(mem, s, R)))
\* The last send right to the entry goes.
entry_released(e) ==
    e \in DOMAIN mem.entries /\ Commit([mem EXCEPT !.entries = Without(@, {e})])

EntryPages(e, n) == LET x == mem.entries[e] IN SubSeq(x.pages, x.first, x.first + n - 1)
vm_map(s, R, perms, e, copy) ==
    /\ Runs(s) /\ CanMapBackings(mem, s, R) /\ e \in DOMAIN mem.entries
    /\ Cardinality(R) <= mem.entries[e].size /\ perms \subseteq mem.entries[e].prot
    /\ Commit(map_page_backings(mem, s, R, perms, EntryPages(e, Cardinality(R)),
                                IF copy THEN "copy" ELSE "shared", None))

\* Copies of the pages of another mapping, behind pages of their own.
CopiedPages(m, bks) ==
    FoldLeft(LAMBDA a, b : [mem |-> Made(a.mem, m.bk[b].val, <<>>), bks |-> Append(a.bks, Next_(a.mem))],
             [mem |-> m, bks |-> <<>>], bks)

\* The source is shared before the target is looked at, and stays shared
\* when there is no space.
mach_vm_remap(s, R, t, S, copy, overwrite) ==
    /\ Runs(s) /\ Runs(t) /\ Cardinality(R) = Cardinality(S)
    /\ Lo(S) \in DOMAIN mem.sp[t].vm /\ S \subseteq RegionOf(mem, t, Lo(S))
    /\ LET taken(n, bks)  == IF copy THEN CopiedPages(n, bks)
                             ELSE [mem |-> [n EXCEPT !.fresh = @ \cup ToSet(bks)], bks |-> bks]
           room(n)        == IF overlaps(n, s, R) THEN unmap(n, s, R) ELSE n
           mapped(source) == map_page_backings(room(source.mem), s, R, mem.sp[t].vm[Lo(S)], source.bks,
                                               IF copy THEN "copy" ELSE "shared", None)
           remapped(n)    == IF overlaps(n, s, R) /\ ~overwrite THEN n
                             ELSE mapped(taken(n, PagesOf(n, t, S)))
       IN Commit(remapped(share_pages(mem, t, S)))

-----------------------------------------------------------------------------
(***************************************************************************)
(* mmap, the shared region and processes.                                  *)
(***************************************************************************)
\* An address in use needs MAP_FIXED, which makes room first, whatever
\* happens afterwards.
RoomMade(s, R) == IF overlaps(mem, s, R) THEN unmap(mem, s, R) ELSE mem

mmap_anonymous(s, R, perms) ==
    Runs(s) /\ Commit(map_(RoomMade(s, R), s, R, perms))

mmap_private(s, R, perms, f) ==
    /\ Runs(s)
    /\ Commit(IF Cardinality(R) > FilePages THEN RoomMade(s, R)
              ELSE map_file(RoomMade(s, R), s, R, perms, f))

\* load_pages of the cache all processes share.
LoadPages(m, f, n) ==
    FoldLeft(LAMBDA a, i : LET l == load_page(a.mem, "shared", f, m.file[f].gen, i)
                           IN [mem |-> [l.mem EXCEPT !.fresh = @ \cup {l.bk}], bks |-> Append(a.bks, l.bk)],
             [mem |-> open_mapping(m, "shared", f), bks |-> <<>>], [i \in 1 .. n |-> i - 1])

mmap_shared(s, R, perms, f, readOnly) ==
    /\ Runs(s)
    /\ LET room  == RoomMade(s, R)
           pages == LoadPages(room, f, Cardinality(R))
       IN Commit(IF ("write" \in perms /\ readOnly) \/ Cardinality(R) > FilePages THEN room
                 ELSE map_page_backings(pages.mem, s, R, perms, pages.bks,
                                        IF f \in Volatile THEN "shared" ELSE "sharedFile", None))

\* Another program writes the file.
Rewrite(f, v) ==
    FilesChange /\ Commit([mem EXCEPT !.file[f] = [val |-> [i \in DOMAIN @.val |-> v], gen |-> @.gen + 1]])

\* mappings_fit asks whether the whole range of a mapping is mapped.
MappingsFit(s, maps, slide) ==
    \A i \in DOMAIN maps : LET R == Shift(maps[i].range, slide) IN
        R \subseteq SharedRegion /\ ~Mapped(mem, s, R)
Slides(s, maps, maySlide) ==
    {d \in (IF maySlide THEN Pages ELSE {0}) : MappingsFit(s, maps, d)}

\* The mappings one by one; the first failure unmaps the ones before it.
RegionMapped(s, maps, slide) ==
    LET step(a, x) ==
            LET R == Shift(x.range, slide) IN
            IF a.failed THEN a
            ELSE IF x.zero
            THEN [a EXCEPT !.mem = map_(@, s, R, x.perms), !.done = Append(@, R)]
            ELSE IF Cardinality(R) > FilePages \/ overlaps(a.mem, s, R)
            THEN [a EXCEPT !.failed = TRUE]
            ELSE LET n == map_file(a.mem, s, R, x.perms, x.file)
                 IN [a EXCEPT !.mem = IF slide = 0 THEN mark_translation_profile_stable(n, s, R) ELSE n,
                              !.done = Append(@, R)]
        all == FoldLeft(step, [mem |-> mem, done |-> <<>>, failed |-> FALSE], maps)
    IN IF all.failed THEN FoldRight(LAMBDA R, n : unmap(n, s, R), all.done, all.mem) ELSE all.mem

shared_region_map(s, maps, maySlide) ==
    /\ Runs(s) /\ Slides(s, maps, maySlide) # {}
    /\ Commit(RegionMapped(s, maps, Lo(Slides(s, maps, maySlide))))

shared_region_make_private(s, keep) ==
    LET gone == (SharedRegion \cap DOMAIN mem.sp[s].vm) \ keep
    IN Runs(s) /\ gone # {} /\ Commit(FoldLeft(LAMBDA n, p : unmap(n, s, {p}), mem, InOrder(gone)))

fork(s, t) == Runs(s) /\ ~mem.sp[t].alive /\ Commit(clone(mem, s, t))
\* posix_spawn starts from a new space, with the parent's processors.
spawn(s, t) ==
    /\ Runs(s) /\ ~mem.sp[t].alive
    /\ LET id == CHOOSE i \in MapIds : i \notin LiveMaps(mem)
       IN Commit(set_parallel_access([mem EXCEPT !.maps[id] = BlankMap,
                                                 !.sp[t] = [FreshSpace(id) EXCEPT !.seen = mem.epoch]],
                                     t, mem.sp[s].parallel))
exec(s) == Runs(s) /\ mem.sp[s].fast # <<>> /\ Commit(clear(mem, s))
exit(s) == Runs(s) /\ Commit(destroy(mem, s))

-----------------------------------------------------------------------------
(***************************************************************************)
(* The users of write generations and leases: a shared surface is mapped   *)
(* into a client and watched for changes (src/src/graphics/core_surface_   *)
(* hle.cpp).                                                               *)
(***************************************************************************)
watch_writes(s, R) ==
    Runs(s) /\ Mapped(mem, s, R) /\ ~(R \subseteq mem.sp[s].tracked) /\ Commit(track_write_generation(mem, s, R))

lease_map(s, R, e, token) ==
    /\ Runs(s) /\ CanMapBackings(mem, s, R) /\ e \in DOMAIN mem.entries /\ Cardinality(R) = Len(mem.entries[e].pages)
    /\ \A l \in mem.sp[s].leases : l.token # token
    /\ Commit(map_page_backings(mem, s, R, {"read", "write"}, mem.entries[e].pages, "shared", token))
lease_release(s, token) ==
    \E l \in mem.sp[s].leases : Runs(s) /\ l.token = token /\ Commit(unmap_mapping_lease(mem, s, l))

-----------------------------------------------------------------------------
(***************************************************************************)
(* The mixes.                                                              *)
(***************************************************************************)
Tokens == {1}
On(names) ==
    /\ mix \in names /\ UNCHANGED mix
    /\ calls < MaxCalls + Cardinality({M \in Longer : mix \in M}) /\ calls' = calls + 1

\* A prefix of what a mapping of the shared cache asks for.
RegionMaps ==
    LET one == {[range |-> R, perms |-> {"read", "execute"}, zero |-> z, file |-> f] :
                    R \in {S \in Ranges : S \subseteq SharedRegion}, z \in BOOLEAN, f \in Files}
    IN {<<x, y>> : x \in one, y \in {z \in one : Cardinality(z.range) = 1}}

Single == {{p} : p \in Pages}
Owned  == {"read", "write"}

Processors(s) ==
    \/ \E R \in {S \in Ranges : Cardinality(S) <= 2}, v \in Stored_ : On({"fork"}) /\ Store(s, R, v)
    \/ \E R \in Single, v \in Stored_ : On({"share", "track", "files"}) /\ Store(s, R, v)
    \/ \E R \in Ranges : On({"files", "region"}) /\ Load(s, R)
    \/ \E R \in Single, v \in Stored_ \cup {Zero} : On({"excl"}) /\ Store(s, R, v)
    \/ \E p \in Pages, v \in Stored_ :
          \/ On({"excl"}) /\ Swap(s, p, v)
          \/ On({"excl"}) /\ p = 0 /\ LoadExclusive(s, p)
          \/ On({"excl"}) /\ StoreExclusive(s, p, v)
    \/ On({"track"}) /\ SafePoint(s)
    \/ On({"fork", "share", "excl"}) /\ MakeTables(s)
    \/ On({"fork"}) /\ Watch(s)
    \/ On({"fork", "excl"}) /\ ExactMonitor(s)

Routines(s) ==
    \/ \E R \in Single, v \in Stored_ : On({"fork", "files", "track"}) /\ CopyResults(s, R, v)
    \/ \E R \in Ranges :
          \/ On({"fork", "share", "track", "region"}) /\ vm_allocate(s, R)
          \/ On({"excl"}) /\ R \in Single /\ vm_allocate(s, R)
          \/ On({"fork", "share", "track", "region"}) /\ vm_deallocate(s, R)
          \/ \E perms \in PermSets : On({"files"}) /\ vm_protect(s, R, perms)
          \/ \E d \in {-1, 1} : On({"region"}) /\ vm_copy(s, R, d)
          \/ \E T \in Ranges : On({"region"}) /\ vm_read(s, R, T)
    \/ \E p \in Pages, state \in {"volatile", "empty"} : On({"region"}) /\ vm_purgable_control(s, p, state)
    \/ \E e \in Entries :
          \/ On({"share", "track", "excl"}) /\ make_entry_named(s, e, Owned)
          \/ \E parent \in Entries, i \in 1 .. Cardinality(Pages) :
                 On({"share"}) /\ make_entry_part(s, e, parent, i, Owned)
          \/ \E R \in Ranges : On({"share", "track"}) /\ make_entry_range(s, e, R, Owned)
    \/ \E R \in Ranges, e \in Entries, copy \in BOOLEAN :
          On({"share"}) /\ vm_map(s, R, Owned, e, copy)
    \/ \E R \in Single, e \in Entries, copy \in BOOLEAN : On({"excl"}) /\ vm_map(s, R, Owned, e, copy)
    \/ \E R \in Ranges, t \in Spaces, S \in Ranges, copy \in BOOLEAN, overwrite \in BOOLEAN :
          On({"share"}) /\ mach_vm_remap(s, R, t, S, copy, overwrite)

Programs(s) ==
    \/ \E R \in Ranges, perms \in PermSets :
          \/ On({"region"}) /\ mmap_anonymous(s, R, perms)
          \/ \E f \in Files :
                \/ On({"files"}) /\ mmap_private(s, R, perms, f)
                \/ \E readOnly \in {"write" \in perms, FALSE} :
                       On({"files"}) /\ mmap_shared(s, R, perms, f, readOnly)
    \/ \E maps \in RegionMaps, maySlide \in BOOLEAN : On({"region"}) /\ shared_region_map(s, maps, maySlide)
    \/ \E keep \in SUBSET SharedRegion : On({"region"}) /\ shared_region_make_private(s, keep)
    \/ \E t \in Spaces : On({"fork", "share", "track", "excl"}) /\ fork(s, t)
    \/ \E t \in Spaces : On({"fork"}) /\ spawn(s, t)
    \/ On({"fork", "files", "track"}) /\ exec(s)
    \/ On({"fork", "share", "track"}) /\ exit(s)
    \/ \E R \in Single : On({"track"}) /\ watch_writes(s, R)
    \/ \E R \in Ranges, e \in Entries, k \in Tokens : On({"track"}) /\ lease_map(s, R, e, k)
    \/ \E k \in Tokens : On({"track"}) /\ lease_release(s, k)

Next ==
    \/ \E s \in Spaces : Processors(s) \/ Routines(s) \/ Programs(s)
    \/ \E e \in Entries : On({"share", "track"}) /\ entry_released(e)
    \/ \E f \in Files, v \in Values : On({"files"}) /\ Rewrite(f, v)

Spec == Init /\ [][Next]_vars

-----------------------------------------------------------------------------
(***************************************************************************)
(* Properties.                                                             *)
(***************************************************************************)
\* A load or store of translated code that goes straight to host memory
\* reaches the page the checked path would reach, with its permission; a
\* direct store reaches no page that a fork, a mapping of the same memory, a
\* write tracker or a reservation has to see (refresh_jit_page_locked).
ReadEntrySound(s, p) ==
    mem.sp[s].jitR[p] # None =>
        /\ mem.sp[s].jitR[p] = PageMap(mem, s)[p].bk
        /\ p \in DOMAIN mem.sp[s].vm /\ "read" \in mem.sp[s].vm[p]
WriteEntrySound(s, p) ==
    mem.sp[s].jitW[p] # None =>
        /\ mem.sp[s].jitW[p] = PageMap(mem, s)[p].bk
        /\ p \in DOMAIN mem.sp[s].vm /\ {"read", "write"} \subseteq mem.sp[s].vm[p]
        /\ Unique(mem, mem.sp[s].jitW[p]) /\ ~mem.bk[mem.sp[s].jitW[p]].tracked
        /\ \A t \in Live(mem) \ {s} : mem.sp[t].map # mem.sp[s].map
        /\ p \notin mem.sp[s].tracked \cup mem.sp[s].excl /\ p \in mem.sp[s].direct
JitEntriesSound ==
    \A s \in Live(mem) :
        /\ mem.sp[s].fast = mem.sp[s].vm
        /\ \A p \in Pages : ReadEntrySound(s, p) /\ WriteEntrySound(s, p)

\* A lease that was not invalidated still covers the mapping it was given
\* for, so releasing it unmaps nothing that was mapped there afterwards
\* (mapping_leases_, unmap_mapping_lease).
LeasesExact ==
    \A s \in Live(mem) : \A l \in mem.sp[s].leases :
        /\ l.range \subseteq DOMAIN mem.sp[s].vm
        /\ \A p \in l.range : PageMap(mem, s)[p].bk = l.pages[p - Lo(l.range) + 1]

\* Where the JIT may store translated code under the identity of a file, the
\* page shows the bytes of that file, unless the file itself was changed
\* after it was mapped (executable_backing_identity).
IdentityDescribesBytes ==
    \A s \in Live(mem), p \in Pages : \A x \in executable_backing_identity(mem, s, p) :
        (mem.file[x[1]].gen = x[2] /\ PageMap(mem, s)[p].bk # None) =>
            Contents(mem, s, p) = mem.file[x[1]].val[x[3]]

\* Every byte a store changes on a page somebody watches is counted: by the
\* generation of the page, or by the common one of a shared page, whichever
\* process stores (track_write_generation, mark_shared_write). A copy-on-write
\* view of an object is not counted while it still shows the object.
StoreStep ==
    \E s \in Spaces, R \in Ranges, v \in Stored_ :
        Store(s, R, v) \/ CopyResults(s, R, v) \/ \E d \in {-1, 1} : vm_copy(s, R, d)
Counted(s, p) ==
    \/ Contents(mem', s, p) = Contents(mem, s, p)
    \/ p \in write_generation_changes(mem', s, {p}, range_write_generation(mem, s, {p}))
    \/ PageMap(mem', s)[p].shared /\ SharedGeneration(mem', s, p) > SharedGeneration(mem, s, p)
ChangesCounted ==
    \/ \A s \in Live(mem) \cap Live(mem') : \A p \in mem.sp[s].tracked \cap DOMAIN mem.sp[s].vm :
          PageMap(mem, s)[p].cow \/ PiecesAt(mem, s, p) # {} \/ Counted(s, p)
    \/ ~StoreStep
TrackedWritesCounted == [][ChangesCounted]_vars

\* No store of translated code, of this process or of one that shares the object,
\* changes an instruction the JIT may have folded into other code: such a page is
\* neither written to nor shared with anybody who writes (is_read_only_executable).
FoldedCodeKept ==
    \/ \A s \in Live(mem) \cap Live(mem'), p \in Pages :
          is_read_only_executable(mem, s, p) =>
              PageMap(mem, s)[p].bk = None \/ Contents(mem', s, p) = Contents(mem, s, p)
    \/ ~\E s \in Spaces, R \in Ranges, v \in Stored_ : Store(s, R, v)
FoldedCodeStays == [][FoldedCodeKept]_vars

\* A store-exclusive stores nothing when the bytes it reserved have changed
\* since, even if they changed back: by another processor, a process that
\* shares or has inherited the page, or the kernel (track_exclusive_access,
\* invalidate_reservation_identity).
UsesUpStale(s) ==
    changed[s] /\ mem'.sp[s].alive /\ mem'.reserved[s].page < 0
ExclusiveStoresAtomic ==
    [][\A s \in Spaces : UsesUpStale(s) =>
            Contents(mem', s, mem.reserved[s].page) = Contents(mem, s, mem.reserved[s].page)]_vars

\* Copy on write, lazy files and shared page maps are an implementation of
\* memory that is copied at once (clone, writable_backing_locked).
IsObject(b) ==
    \/ EntryRefs(mem, b) # {} \/ \E r \in CacheRefs(mem, b) : r[1] = "shared"
    \/ \E r \in PageRefs(mem, b) : mem.maps[r[1]][r[2]].shared
ViewAt(s, p) ==
    IF ~Runs(s) \/ p \notin DOMAIN mem.sp[s].vm THEN Absent
    ELSE IF PageMap(mem, s)[p].bk = None /\ PiecesAt(mem, s, p) # {} THEN Lazy
    ELSE Contents(mem, s, p)
ShareAt(s, p) ==
    LET page == PageMap(mem, s)[p] IN
    IF ~Runs(s) \/ page.bk = None THEN Own
    ELSE IF page.shared THEN <<"shared", page.bk>>
    ELSE IF page.cow /\ IsObject(page.bk) THEN <<"copy", page.bk>> ELSE Own
Flat == INSTANCE FlatMemory WITH
    view  <- [s \in Spaces |-> [p \in Pages |-> ViewAt(s, p)]],
    share <- [s \in Spaces |-> [p \in Pages |-> ShareAt(s, p)]]
ImplementsFlatMemory == Flat!FlatSpec

\* What is remembered about a mapping beside the page maps stays true of it: a lease
\* and the identity the JIT stores code under.
MappingsDescribed == LeasesExact /\ IdentityDescribesBytes

\* No store goes unseen: neither by those who watch the page, nor by the JIT, nor by
\* an exclusive access.
StoresSeen == TrackedWritesCounted /\ FoldedCodeStays /\ ExclusiveStoresAtomic
=============================================================================
