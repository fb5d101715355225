--------------------------- MODULE BsdKernelProofs ---------------------------
(***************************************************************************)
(* What the BSD kernel keeps for every number of processes, descriptors,   *)
(* files and sockets: locks never conflict and belong to somebody          *)
(* (LocksExact), metadata and exits leave nothing behind                   *)
(* (NothingOutlivesOwner), and descriptors in flight stay with the byte    *)
(* they were sent with (RightsBoundToBytes).                               *)
(*                                                                         *)
(* The inductive invariant has one part a concern, and the parts lean on   *)
(* each other in few places: a lock is granted to a thread that waits, so  *)
(* the parts about processes say who may wait; a flock dies with the last  *)
(* reference to its description, so the part about descriptions says that  *)
(* every reference, in a table, in a message or in a continuation, is to   *)
(* a description that is open.                                             *)
(***************************************************************************)
EXTENDS BsdKernel, Erasure, FiniteSetTheorems

\* A function that is defined on S, whatever its values.
Table(f, S) == f = [x \in S |-> f[x]]

\* A value with the fields of a descriptor table's entry.
IsEntry(e) ==
    e \in [kind : {e.kind}, obj : {e.obj}, path : {e.path}, offset : {e.offset},
           writable : {e.writable}, nonblock : {e.nonblock}, cloexec : {e.cloexec},
           listening : {e.listening}, queue : {e.queue}]

-----------------------------------------------------------------------------
Users    == {Root, Mobile}
Statuses == Signals \cup {"none", "0", "127", "alarm"}

ProcessSet == [exists : BOOLEAN, exited : BOOLEAN, group : Pids,
               uid : Users, euid : Users, alarmed : BOOLEAN]
RecordSet  == [parent : Nat \ {0}, exited : BOOLEAN, status : Statuses,
               group : Pids, uid : Users, euid : Users]
CountSet   == [exec : Nat, exit : Nat, status : Statuses]
ThreadSet  == [Slots -> {"none", "running", "waiting"}]

Tables ==
    /\ Table(process, Pids) /\ Table(record, Pids) /\ Table(generations, Pids)
    /\ Table(threads, Pids) /\ Table(pending, Pids) /\ Table(itimer, Pids)

Typed(p) ==
    /\ process[p] \in ProcessSet
    /\ record[p] \in RecordSet \/ record[p] = NoRecord
    /\ generations[p] \in CountSet
    /\ threads[p] \in ThreadSet /\ Table(pending[p], Slots)

\* The facade and the shared record agree about who has exited; only a
\* process that exists can exit, only one that exited was ended by its alarm,
\* and the exit is counted once.
Recorded(p) ==
    /\ Live(p) => HasRecord(p)
    /\ HasRecord(p) => process[p].exists /\ record[p].exited = process[p].exited
    /\ process[p].exited => process[p].exists
    /\ process[p].alarmed => process[p].exited
    /\ generations[p].exit = (IF process[p].exited THEN 1 ELSE 0)

\* A process that does not live has no descriptor, no timer and, unless its
\* alarm ended it, no thread; a thread that does not wait has no continuation.
Emptied(p) ==
    /\ ~Live(p) => fds[p] = NoDescriptors /\ itimer[p] = NoTimer
    /\ ~Live(p) /\ ~process[p].alarmed => \A s \in Slots : threads[p][s] = "none"
    /\ ~process[p].exited =>
          \A s \in Slots : threads[p][s] # "waiting" => pending[p][s] = Idle

Agrees(p) == Typed(p) /\ Recorded(p) /\ Emptied(p)

ProcessesAgree == Tables /\ \A p \in Pids : Agrees(p)

-----------------------------------------------------------------------------
GoodRecord(r) == r \in [offset : Nat, byte : Nat, entries : Seq(SeqSet(r.entries))]

GoodStream(t) ==
    /\ t \in [len : Nat, offset : Nat, taken : Nat, anc : Seq(SeqSet(t.anc))]
    /\ \A r \in SeqSet(t.anc) : GoodRecord(r)

StreamTypes ==
    /\ Table(stream, Pairs) /\ \A k \in Pairs : Table(stream[k], Sides)
    /\ \A k \in Pairs, x \in Sides : GoodStream(stream[k][x])
    /\ shut \in [Pairs -> [Sides -> [read : BOOLEAN, write : BOOLEAN]]]

\* RightsBoundToBytes, of one stream.
Bound(t) ==
    /\ t.offset = t.taken
    /\ \A i \in DOMAIN t.anc :
          /\ t.anc[i].offset = t.anc[i].byte
          /\ t.anc[i].byte \in t.taken .. Total(t) - 1
          /\ i > 1 => t.anc[i - 1].byte < t.anc[i].byte

\* What a socket's entry refers to: a side of a pair, or a listener.
Endpoint == Pairs \X Sides

Placed(e) ==
    /\ e.kind = "pair" => e.obj \in Endpoint
    /\ e.kind = "unix" /\ e.listening => e.obj \in Listeners

\* Every entry of a table or of a message is one, and a file's refers to an
\* open description and keeps a name of the directory.
Referring(e) ==
    /\ Placed(e)
    /\ e.kind = "file" => /\ e.obj \in Descriptions /\ descr[e.obj] \in Inodes
                          /\ e.path \in Names

\* A thread that waits for a lock refers to an open description, or to the
\* file and to a range a guest can ask for; one that waits for a socket or a
\* queue to a descriptor number.
Wanting(c) ==
    /\ c.op \in {"accept", "receive", "kevent"} => c.fd \in Fds
    /\ c.op = "receive" => c.how \in {"read", "message"}
    /\ c.op = "flock" => /\ c.obj \in Descriptions /\ descr[c.obj] \in Inodes
                         /\ c.kind \in LockKinds
    /\ c.op = "setlkw" => c.obj \in Inodes /\ c.request \in LockRanges

DescriptionsOpen ==
    /\ Table(fds, Pids) /\ \A p \in Pids : Table(fds[p], Fds)
    /\ descr \in [Descriptions -> Inodes \cup {0}]
    /\ queue \in [Listeners -> Seq(Endpoint)]
    /\ \A e \in LiveEntries : IsEntry(e) /\ Referring(e)
    /\ \A p \in Pids, s \in Slots : Wanting(pending[p][s])

-----------------------------------------------------------------------------
\* The owners of the flocks of one file.
FlockOwners(lock) == lock.shared \cup ({lock.exclusive} \ {NoOwner})

Flock == [exclusive : Descriptions \cup {NoOwner}, shared : SUBSET Descriptions]

FlocksHeld ==
    /\ flocks \in [Inodes -> Flock]
    /\ \A i \in Inodes :
          /\ flocks[i].exclusive # NoOwner => flocks[i].shared = {}
          /\ \A d \in FlockOwners(flocks[i]) : descr[d] = i /\ d \in Held

RecordLock == [kind : LockKinds, start : Nat, end : Nat, pid : Pids]

\* The locks of one file: two that overlap are of two processes and shared.
Disjoint(locks) ==
    \A l, m \in locks : l # m /\ ranges_overlap(l, m) =>
        l.pid # m.pid /\ ~locks_conflict(l.kind, m.kind)

RecordsHeld ==
    /\ records \in [Inodes -> SUBSET RecordLock]
    /\ \A i \in Inodes :
          /\ \A l \in records[i] : /\ l.start < l.end
                                   /\ Live(l.pid) \/ process[l.pid].alarmed
          /\ Disjoint(records[i])

-----------------------------------------------------------------------------
\* A symbolic link leads to a name; what the tables know of an inode goes
\* with its last name, and a resource fork with its name, which is never a
\* directory's: rmdir does not look for one.
NamesKept ==
    /\ names \in [Names -> Inodes \cup {0}]
    /\ Table(inodes, Inodes)
    /\ \A i \in Inodes :
          /\ inodes[i] \in [kind : {"free", "file", "dir", "symlink"}, size : {inodes[i].size},
                            target : {inodes[i].target}, owner : {inodes[i].owner}]
          /\ inodes[i].kind = "symlink" => inodes[i].target \in Names
    /\ sidecars \in SUBSET Names /\ \A n \in sidecars : KindOf(n) # "dir"
    /\ Table(override, Inodes) /\ Table(named, Inodes)
    /\ \A i \in Inodes : Table(named[i], Attributes)
    /\ MetadataHasName

-----------------------------------------------------------------------------
(***************************************************************************)
(* Descriptor tables.  An entry is a copy of one in S when it is no file's *)
(* or refers to the description of a file's entry in S; the operators on   *)
(* tables make copies of what they are given.                              *)
(***************************************************************************)
CopyOf(e, S) ==
    /\ IsEntry(e) /\ Placed(e)
    /\ e.kind = "file" => /\ e.path \in Names
                          /\ \E f \in S : f.kind = "file" /\ f.obj = e.obj

Copies(table, S) == Table(table, Fds) /\ \A n \in Fds : CopyOf(table[n], S)

\* No file's entry leaves its number.
Retains(old, new) ==
    \A n \in Fds : old[n].kind = "file" => new[n].kind = "file" /\ new[n].obj = old[n].obj

LEMMA NewEntry ==
    ASSUME NEW kind, NEW obj
    PROVE  /\ IsEntry(Entry(kind, obj)) /\ Entry(kind, obj).kind = kind
           /\ Entry(kind, obj).obj = obj /\ Entry(kind, obj).queue = NoQueue
BY DEF Entry, IsEntry

LEMMA ClosedEntry ==
    ASSUME NEW S
    PROVE  Closed.kind = "closed" /\ CopyOf(Closed, S) /\ Closed.queue = NoQueue
BY NewEntry DEF Closed, CopyOf, Placed

\* What the calls change of an entry, other than its kind and what it refers to.
LEMMA EntryChanged ==
    ASSUME NEW S, NEW e, CopyOf(e, S), NEW v, NEW w
    PROVE  /\ CopyOf([e EXCEPT !.offset = v], S)
           /\ CopyOf([e EXCEPT !.queue = v], S)
           /\ CopyOf([e EXCEPT !.nonblock = v, !.cloexec = w], S)
           /\ CopyOf([e EXCEPT !.cloexec = v, !.queue = w], S)
           /\ CopyOf([e EXCEPT !.cloexec = v], S)
           /\ v \in Names => CopyOf([e EXCEPT !.path = v], S)
           /\ [e EXCEPT !.offset = v].kind = e.kind /\ [e EXCEPT !.offset = v].obj = e.obj
           /\ [e EXCEPT !.queue = v].kind = e.kind /\ [e EXCEPT !.queue = v].obj = e.obj
           /\ [e EXCEPT !.nonblock = v, !.cloexec = w].kind = e.kind
           /\ [e EXCEPT !.nonblock = v, !.cloexec = w].obj = e.obj
           /\ [e EXCEPT !.path = v].kind = e.kind /\ [e EXCEPT !.path = v].obj = e.obj
BY DEF CopyOf, IsEntry, Placed

\* listen and connect change what a socket's entry says; it is no file's.
LEMMA SocketEntryChanged ==
    ASSUME NEW S, NEW e, IsEntry(e), Placed(e), e.kind = "unix", NEW v
    PROVE  /\ v \in Listeners => CopyOf([e EXCEPT !.listening = TRUE, !.obj = v], S)
           /\ v \in Endpoint => CopyOf([e EXCEPT !.kind = "pair", !.obj = v], S)
           /\ CopyOf([e EXCEPT !.path = v], S)
BY DEF CopyOf, IsEntry, Placed

LEMMA LowestIsFree ==
    ASSUME NEW table, ~Full(table)
    PROVE  Lowest(table) \in Fds /\ table[Lowest(table)] = Closed
<1> DEFINE free == {n \in Fds : table[n] = Closed}
<1>1. free # {} /\ free \in SUBSET Nat BY DescriptorAssumption DEF Full
<1>2. \E m \in free : \A n \in free : m <= n
  <2> HIDE DEF free
  <2> QED BY <1>1, LeastNatural
<1>3. Min(free) \in free BY <1>2 DEF Min
<1> QED BY <1>3 DEF Lowest

LEMMA InstalledCopies ==
    ASSUME NEW S, NEW table, Copies(table, S), ~Full(table), NEW e, CopyOf(e, S)
    PROVE  Copies(Installed(table, e), S) /\ Retains(table, Installed(table, e))
<1>1. Lowest(table) \in Fds /\ table[Lowest(table)].kind # "file"
  BY LowestIsFree, ClosedEntry
<1> QED BY <1>1 DEF Installed, Copies, Table, Retains

LEMMA PurgedKeeps ==
    ASSUME NEW S, NEW e, CopyOf(e, S), NEW numbers
    PROVE  /\ CopyOf(Purged(e, numbers), S)
           /\ Purged(e, numbers).kind = e.kind /\ Purged(e, numbers).obj = e.obj
<1> DEFINE left == {r \in e.queue : ~(r.filter \in {"read", "write"} /\ r.ident \in numbers)}
<1>1. Purged(e, numbers) = IF e.queue = NoQueue THEN e ELSE [e EXCEPT !.queue = left]
  BY DEF Purged
<1> HIDE DEF left
<1> DEFINE new == [e EXCEPT !.queue = left]
<1>2. CopyOf(new, S) /\ new.kind = e.kind /\ new.obj = e.obj BY DEF CopyOf, IsEntry, Placed
<1> HIDE DEF new
<1> QED BY <1>1, <1>2 DEF new

LEMMA DetachedCopies ==
    ASSUME NEW S, NEW table, Copies(table, S), NEW numbers
    PROVE  Copies(Detached(table, numbers), S) /\ Retains(table, Detached(table, numbers))
BY PurgedKeeps DEF Detached, Copies, Table, Retains

LEMMA ReleasedCopies ==
    ASSUME NEW S, NEW table, Copies(table, S), NEW n
    PROVE  Copies(Released_(table, n), S)
<1> DEFINE less == [table EXCEPT ![n] = Closed]
<1>1. Copies(less, S) BY ClosedEntry DEF Copies, Table
<1> HIDE DEF less
<1>2. Copies(Detached(less, {n}), S) BY <1>1, DetachedCopies
<1> QED BY <1>2 DEF Released_, less

LEMMA DuplicateCopies ==
    ASSUME NEW S, NEW e, CopyOf(e, S)
    PROVE  CopyOf(Duplicate(e), S) /\ CopyOf(Transfer(e), S)
BY EntryChanged DEF Duplicate, Transfer

LEMMA Dup2Copies ==
    ASSUME NEW S, NEW table, Copies(table, S), NEW n \in Fds, NEW m \in Fds
    PROVE  Copies(Dup2Table(table, n, m), S)
<1>1. Copies(Released_(table, m), S) BY ReleasedCopies
<1>2. CopyOf(Duplicate(table[n]), S) BY DuplicateCopies DEF Copies
<1> QED BY <1>1, <1>2 DEF Dup2Table, Copies, Table

LEMMA AfterExecCopies ==
    ASSUME NEW S, NEW table, Copies(table, S)
    PROVE  Copies(AfterExec(table), S)
<1> DEFINE kept == [n \in Fds |-> IF n \in CloseOnExec(table) THEN Closed ELSE table[n]]
<1>1. Copies(kept, S) BY ClosedEntry DEF Copies, Table
<1> HIDE DEF kept
<1>2. Copies(Detached(kept, CloseOnExec(table)), S) BY <1>1, DetachedCopies
<1> QED BY <1>2 DEF AfterExec, kept

LEMMA NoDescriptorsCopies == ASSUME NEW S PROVE Copies(NoDescriptors, S)
BY ClosedEntry DEF NoDescriptors, Copies, Table

LEMMA ImportedCopies ==
    ASSUME NEW S, NEW table, Copies(table, S), NEW T, NEW entries \in Seq(T),
           \A i \in DOMAIN entries : CopyOf(entries[i], S)
    PROVE  Copies(Imported(table, entries), S)
<1> DEFINE lower(n) == {m \in Fds : table[m] = Closed /\ m <= n}
           rank(n) == Cardinality(lower(n))
<1>1. ASSUME NEW n \in Fds, table[n] = Closed, rank(n) <= Len(entries)
      PROVE  CopyOf(entries[rank(n)], S)
  <2>1. IsFiniteSet(lower(n))
    BY DescriptorAssumption, FS_Subset
  <2>2. n \in lower(n) BY <1>1, DescriptorAssumption
  <2>3. rank(n) \in Nat /\ rank(n) # 0
    <3> HIDE DEF lower
    <3> QED BY <2>1, <2>2, FS_CardinalityType, FS_EmptySet
  <2>4. rank(n) \in DOMAIN entries
    <3> HIDE DEF rank
    <3> QED BY <1>1, <2>3
  <2> QED BY <2>4
<1>2. Imported(table, entries) =
         [n \in Fds |-> IF table[n] = Closed /\ rank(n) <= Len(entries)
                        THEN entries[rank(n)] ELSE table[n]]
  BY DEF Imported
<1> HIDE DEF rank
<1> QED BY <1>1, <1>2 DEF Copies, Table

-----------------------------------------------------------------------------
(***************************************************************************)
(* Processes.  A quiet step is none of fork, exec, exit, wait, kill and    *)
(* timers: threads block and wake, and a process that does not live keeps  *)
(* its empty table.                                                        *)
(***************************************************************************)
Quiet ==
    /\ UNCHANGED <<process, record, generations, itimer>>
    /\ \/ NoBlock
       \/ \E p \in Pids, s \in Slots : CanCall(p, s) /\ \E c : Block(p, s, c)
       \/ \E p \in Pids, s \in Slots : threads[p][s] = "waiting" /\ Woken(p, s)
    /\ \A q \in Pids : ~Live(q) => fds'[q] = fds[q]

LEMMA PidsTyped == Pids \in SUBSET Nat /\ Cardinality(Pids) \in Nat /\ \A p \in Pids : p # 0
<1>1. Cardinality(Pids) \in Nat BY ProcessAssumption, FS_CardinalityType
<1>2. \A p \in Pids : p \in 1 .. Cardinality(Pids) BY ProcessAssumption
<1> QED BY <1>1, <1>2

LEMMA LeastIn ==
    ASSUME NEW S \in SUBSET Nat, S # {}
    PROVE  Min(S) \in S
<1>1. \E m \in S : \A n \in S : m <= n BY LeastNatural
<1> QED BY <1>1 DEF Min

\* What a quiet step does to threads and continuations.
Moved(p, s, to) ==
    \E c : /\ \A q \in Pids, t \in Slots :
                 threads'[q][t] = IF q = p /\ t = s THEN to ELSE threads[q][t]
           /\ \A q \in Pids, t \in Slots :
                 pending'[q][t] = IF q = p /\ t = s THEN c ELSE pending[q][t]
           /\ to = "running" => c = Idle

ThreadTables ==
    /\ Table(threads, Pids) /\ \A p \in Pids : threads[p] \in ThreadSet
    /\ Table(pending, Pids) /\ \A p \in Pids : Table(pending[p], Slots)

LEMMA BlockMoves ==
    ASSUME ThreadTables, NEW p \in Pids, NEW s \in Slots, NEW c, Block(p, s, c)
    PROVE  ThreadTables' /\ Moved(p, s, "waiting")
<1>1. /\ Table(threads', Pids) /\ \A q \in Pids : threads'[q] \in ThreadSet
      /\ \A q \in Pids, t \in Slots :
            threads'[q][t] = IF q = p /\ t = s THEN "waiting" ELSE threads[q][t]
  BY DEF ThreadTables, Block, Table, ThreadSet
<1>2. /\ Table(pending', Pids) /\ \A q \in Pids : Table(pending'[q], Slots)
      /\ \A q \in Pids, t \in Slots :
            pending'[q][t] = IF q = p /\ t = s THEN c ELSE pending[q][t]
  BY DEF ThreadTables, Block, Table
<1> QED BY <1>1, <1>2 DEF ThreadTables, Moved

LEMMA WokenMoves ==
    ASSUME ThreadTables, NEW p \in Pids, NEW s \in Slots, Woken(p, s)
    PROVE  ThreadTables' /\ Moved(p, s, "running")
<1>1. /\ Table(threads', Pids) /\ \A q \in Pids : threads'[q] \in ThreadSet
      /\ \A q \in Pids, t \in Slots :
            threads'[q][t] = IF q = p /\ t = s THEN "running" ELSE threads[q][t]
  BY DEF ThreadTables, Woken, Table, ThreadSet
<1>2. /\ Table(pending', Pids) /\ \A q \in Pids : Table(pending'[q], Slots)
      /\ \A q \in Pids, t \in Slots :
            pending'[q][t] = IF q = p /\ t = s THEN Idle ELSE pending[q][t]
  BY DEF ThreadTables, Woken, Table
<1> QED BY <1>1, <1>2 DEF ThreadTables, Moved

LEMMA QuietKeeps ==
    ASSUME ProcessesAgree, Quiet
    PROVE  ProcessesAgree'
<1>1. ThreadTables BY DEF ProcessesAgree, Tables, Agrees, Typed, ThreadTables
<1>2. /\ ThreadTables'
      /\ \/ UNCHANGED <<threads, pending>>
         \/ \E p \in Pids, s \in Slots : CanCall(p, s) /\ Moved(p, s, "waiting")
         \/ \E p \in Pids, s \in Slots : threads[p][s] = "waiting" /\ Moved(p, s, "running")
  <2>1. CASE NoBlock BY <1>1, <2>1 DEF NoBlock, ThreadTables
  <2>2. CASE \E p \in Pids, s \in Slots : CanCall(p, s) /\ \E c : Block(p, s, c)
    BY <1>1, <2>2, BlockMoves
  <2>3. CASE \E p \in Pids, s \in Slots : threads[p][s] = "waiting" /\ Woken(p, s)
    BY <1>1, <2>3, WokenMoves
  <2> QED BY <2>1, <2>2, <2>3 DEF Quiet
<1>3. UNCHANGED <<process, record, generations, itimer>> BY DEF Quiet
<1>4. Tables' BY <1>2, <1>3 DEF ThreadTables, ProcessesAgree, Tables, Table
<1>5. \A p \in Pids : Live(p)' = Live(p) /\ Recorded(p)' /\ Typed(p)'
  BY <1>2, <1>3 DEF ProcessesAgree, Agrees, Typed, Recorded, Live, HasRecord, ThreadTables
<1>6. ASSUME NEW p \in Pids PROVE Emptied(p)'
  <2>0. /\ Live(p)' = Live(p) /\ process'[p] = process[p] /\ itimer'[p] = itimer[p]
        /\ ~Live(p) => fds'[p] = fds[p]
        /\ Emptied(p) /\ Recorded(p)
    BY <1>3, <1>5 DEF Quiet, ProcessesAgree, Agrees
  <2>1. ASSUME ~Live(p), ~process[p].alarmed, NEW s \in Slots PROVE threads'[p][s] = "none"
    BY <1>2, <2>0, <2>1 DEF Emptied, Moved, CanCall
  <2>2. ASSUME ~process[p].exited, NEW s \in Slots, threads'[p][s] # "waiting"
        PROVE  pending'[p][s] = Idle
    <3>1. threads[p][s] # "waiting" => pending[p][s] = Idle BY <2>0, <2>2 DEF Emptied
    <3> QED BY <1>2, <2>2, <3>1 DEF Moved
  <2> QED BY <2>0, <2>1, <2>2 DEF Emptied
<1> QED BY <1>4, <1>5, <1>6 DEF ProcessesAgree, Agrees

\* Calls that leave the processes alone.
LEMMA CallsQuiet ==
    ASSUME ProcessesAgree, Table(fds, Pids), NEW p \in Pids, NEW s \in Slots,
           \/ DescriptorStep(p, s) \/ LockStep(p, s) \/ OpenStep(p, s)
           \/ NameStep(p, s) \/ DataStep(p, s) \/ SocketStep(p, s) \/ EventStep(p, s)
    PROVE  Quiet
<1> DEFINE Own == \A q \in Pids : ~Live(q) => fds'[q] = fds[q]
           Same == UNCHANGED <<process, record, generations, itimer>>
           Halts == NoBlock \/ (CanCall(p, s) /\ \E c : Block(p, s, c))
<1> SUFFICES Own /\ Same /\ Halts BY DEF Quiet
<1>0. /\ UNCHANGED fds => Own
      /\ \A x : CanCall(p, s) /\ fds' = [fds EXCEPT ![p] = x] => Own
  BY DEF CanCall, Table
<1>a. SameThreads => NoBlock BY DEF SameThreads, NoBlock
<1> HIDE DEF Own
<1>1. CASE DescriptorStep(p, s)
  <2>1. Own BY <1>0, <1>1 DEF DescriptorStep, close, dup2, dup, fcntl_flags
  <2>2. Same /\ SameThreads
    BY <1>1 DEF DescriptorStep, close, dup2, SameProcess
  <2> QED BY <1>a, <2>1, <2>2
<1>2. CASE LockStep(p, s)
  <2>1. CanCall(p, s) /\ UNCHANGED fds
    BY <1>2 DEF LockStep, fcntl_setlk, fcntl_unlck, flock, flock_un
  <2>2. Same BY <1>2 DEF LockStep, SameProcess
  <2>3. Halts BY <2>1, <1>2 DEF LockStep, fcntl_setlk, fcntl_unlck, flock, flock_un
  <2> QED BY <1>0, <2>1, <2>2, <2>3
<1>3. CASE OpenStep(p, s)
  <2>1. Own BY <1>0, <1>3 DEF OpenStep, open
  <2>2. Same /\ SameThreads BY <1>3 DEF OpenStep, SameProcess
  <2> QED BY <1>a, <2>1, <2>2
<1>4. CASE NameStep(p, s)
  <2>1. Own
    BY <1>0, <1>4 DEF NameStep, link, unlink, rmdir, mkdir, symlink, rename, change_metadata,
       chown, change_metadata_fd, setattrlist, setxattr, removexattr, fsetxattr, fremovexattr,
       SetAttribute, RemoveAttribute
  <2>2. Same /\ SameThreads BY <1>4 DEF NameStep, SameProcess
  <2> QED BY <1>a, <2>1, <2>2
<1>5. CASE DataStep(p, s)
  <2>1. Own
    BY <1>0, <1>5 DEF DataStep, read_file, getdirentries, write_file, pwrite, ftruncate, lseek,
       aio_submit, aio_return, mkdir, chdir, fchdir, mount, unmount
  <2>2. Same /\ SameThreads BY <1>5 DEF DataStep, SameProcess
  <2> QED BY <1>a, <2>1, <2>2
<1>6. CASE SocketStep(p, s)
  <2>1. Own
    BY <1>0, <1>6 DEF SocketStep, socketpair, pipe, send, receive, RecvEffect, shutdown, socket,
       bind, connect, listen, unlink_socket, accept, AcceptEffect
  <2>2. Same BY <1>6 DEF SocketStep, SameProcess
  <2>3. Halts BY <1>6, <1>a DEF SocketStep, receive, accept
  <2> QED BY <2>1, <2>2, <2>3
<1>7. CASE EventStep(p, s)
  <2>1. Own
    BY <1>0, <1>7 DEF EventStep, kqueue, kevent_change, kevent, Collect, select
  <2>2. Same BY <1>7 DEF EventStep, SameProcess
  <2>3. Halts BY <1>7, <1>a DEF EventStep, kevent_change, kevent, select
  <2> QED BY <2>1, <2>2, <2>3
<1> QED BY <1>1, <1>2, <1>3, <1>4, <1>5, <1>6, <1>7
LEMMA DeliveryQuiet ==
    ASSUME ProcessesAgree, Table(fds, Pids), NEW p \in Pids, NEW s \in Slots,
           Wanting(pending[p][s]), deliver_pending_io(p, s)
    PROVE  Quiet
<1> DEFINE c == pending[p][s]
<1>1. threads[p][s] = "waiting" /\ Woken(p, s) /\ SameProcess
  BY DEF deliver_pending_io, complete_lock, complete_socket, complete_event
<1>2. ASSUME ~Live(p) PROVE fds' = fds
  <2>1. fds[p] = NoDescriptors BY <1>2 DEF ProcessesAgree, Agrees, Emptied
  <2>2. \A n \in Fds : fds[p][n].kind = "closed" /\ fds[p][n].queue = NoQueue
    BY <2>1, ClosedEntry DEF NoDescriptors
  <2>3. CASE complete_socket(p, s, 1)
    <3>1. c.op = "accept" \/ c.op = "receive" BY <2>3 DEF complete_socket
    <3>2. c.fd \in Fds BY <3>1 DEF Wanting
    <3>3. ~Is(p, c.fd, "unix") /\ ~Is(p, c.fd, "pair") BY <2>2, <3>2 DEF Is
    <3> QED BY <2>3, <3>3 DEF complete_socket, AcceptEffect, Listening
  <2>4. CASE complete_event(p, s)
    <3>1. c.op = "kevent" => ~IsQueue(p, c.fd) BY <2>2 DEF Wanting, IsQueue
    <3> QED BY <2>4, <3>1 DEF complete_event
  <2> QED BY <2>3, <2>4 DEF deliver_pending_io
<1>3. ASSUME NEW q \in Pids, q # p PROVE fds'[q] = fds[q]
  BY <1>3 DEF deliver_pending_io, complete_socket, complete_event, AcceptEffect, RecvEffect,
     Collect, Table
<1> QED BY <1>1, <1>2, <1>3 DEF Quiet, SameProcess

-----------------------------------------------------------------------------
(***************************************************************************)
(* Birth, exec, death and wait.                                            *)
(***************************************************************************)
\* The step leaves p alone.
Untouched(p) ==
    /\ process'[p] = process[p] /\ record'[p] = record[p] /\ generations'[p] = generations[p]
    /\ threads'[p] = threads[p] /\ pending'[p] = pending[p]
    /\ ~Live(p) => itimer'[p] = itimer[p] /\ fds'[p] = fds[p]

LEMMA UntouchedAgrees ==
    ASSUME NEW p, Agrees(p), Untouched(p)
    PROVE  Agrees(p)'
BY DEF Untouched, Agrees, Typed, Recorded, Emptied, Live, HasRecord

LEMMA NoRecordHasNoParent == NoRecord.parent = 0
BY DEF NoRecord

LEMMA RecordsHaveParents ==
    ASSUME NEW p, Agrees(p), HasRecord(p)
    PROVE  /\ record[p] \in RecordSet /\ process[p] \in ProcessSet
           /\ process[p].exists /\ record[p].exited = process[p].exited
BY NoRecordHasNoParent DEF Agrees, Typed, Recorded, HasRecord

LEMMA DescendantIsNew ==
    ASSUME ProcessesAgree, Unused # {}
    PROVE  /\ Descendant \in Pids /\ ~process[Descendant].exists
           /\ ~process[Descendant].exited /\ ~process[Descendant].alarmed
           /\ generations[Descendant] \in CountSet /\ generations[Descendant].exit = 0
           /\ fds[Descendant] = NoDescriptors /\ itimer[Descendant] = NoTimer
           /\ Table(pending[Descendant], Slots)
           /\ \A s \in Slots : /\ threads[Descendant][s] = "none"
                               /\ pending[Descendant][s] = Idle
<1>1. Descendant \in Unused BY PidsTyped, LeastIn DEF Descendant, Unused
<1> DEFINE c == Descendant
<1>2. c \in Pids /\ ~process[c].exists /\ Agrees(c) BY <1>1 DEF Unused, ProcessesAgree
<1> HIDE DEF c
<1>3. /\ ~process[c].exited /\ ~process[c].alarmed
      /\ generations[c] \in CountSet /\ generations[c].exit = 0
      /\ fds[c] = NoDescriptors /\ itimer[c] = NoTimer /\ Table(pending[c], Slots)
      /\ \A s \in Slots : threads[c][s] = "none"
  BY <1>2 DEF Agrees, Typed, Recorded, Emptied, Live, ProcessSet
<1>4. \A s \in Slots : pending[c][s] = Idle BY <1>2, <1>3 DEF Agrees, Emptied
<1> QED BY <1>2, <1>3, <1>4 DEF c

LEMMA OneAgrees ==
    ASSUME ProcessesAgree, Tables', NEW c \in Pids, Agrees(c)',
           \A q \in Pids : q # c => Untouched(q)
    PROVE  ProcessesAgree'
BY UntouchedAgrees DEF ProcessesAgree

\* What a child is born with.
Born(c) ==
    /\ process[c] \in ProcessSet /\ process[c].exists /\ ~process[c].alarmed
    /\ record[c] \in RecordSet /\ record[c].exited = process[c].exited
    /\ generations[c] \in CountSet
    /\ generations[c].exit = (IF process[c].exited THEN 1 ELSE 0)
    /\ threads[c] \in ThreadSet /\ \A s \in Slots : threads[c][s] # "waiting"
    /\ Table(pending[c], Slots) /\ \A s \in Slots : pending[c][s] = Idle
    /\ process[c].exited => /\ fds[c] = NoDescriptors /\ itimer[c] = NoTimer
                            /\ \A s \in Slots : threads[c][s] = "none"

LEMMA BornAgrees ==
    ASSUME NEW c, Born(c)'
    PROVE  Agrees(c)'
<1>1. record'[c].parent # 0 BY DEF Born, RecordSet
<1>2. Recorded(c)' BY <1>1 DEF Born, Recorded, Live, HasRecord
<1>3. Typed(c)' BY DEF Born, Typed
<1>4. Emptied(c)' BY DEF Born, Emptied, Live
<1> QED BY <1>2, <1>3, <1>4 DEF Agrees

LEMMA ForkAgrees ==
    ASSUME ProcessesAgree, Table(fds, Pids), NEW p \in Pids, NEW s \in Slots, fork(p, s)
    PROVE  ProcessesAgree'
<1>0. Live(p) /\ Unused # {} /\ Descendant \in Pids
  BY DescendantIsNew DEF fork, CanCall
<1> PICK c \in Pids : c = Descendant BY <1>0
<1> DEFINE x == [process[p] EXCEPT !.exited = FALSE, !.alarmed = FALSE]
           r == [parent |-> p, exited |-> FALSE, status |-> "none",
                 group |-> process[p].group, uid |-> process[p].uid, euid |-> process[p].euid]
           t == [u \in Slots |-> IF u = Min(Slots) THEN "running" ELSE "none"]
<1>1. Live(p) /\ Unused # {} BY <1>0
<1>2. process[p] \in ProcessSet /\ p \in Nat \ {0}
  BY PidsTyped DEF ProcessesAgree, Agrees, Typed
<1>3. x \in ProcessSet /\ x.exists /\ ~x.alarmed /\ x.exited = FALSE
  BY <1>1, <1>2 DEF Live, ProcessSet
<1>4. r \in RecordSet /\ r.exited = FALSE BY <1>2 DEF RecordSet, ProcessSet, Statuses
<1>5. t \in ThreadSet /\ \A u \in Slots : t[u] # "waiting" BY DEF ThreadSet
<1>6. /\ process' = [process EXCEPT ![c] = x] /\ record' = [record EXCEPT ![c] = r]
      /\ threads' = [threads EXCEPT ![c] = t] /\ UNCHANGED <<generations, itimer, pending>>
      /\ fds' = [fds EXCEPT ![c] = fds[p]]
  BY DEF fork, CreateEffect
<1>7. /\ c \in Pids /\ generations[c] \in CountSet /\ generations[c].exit = 0
      /\ Table(pending[c], Slots) /\ \A u \in Slots : pending[c][u] = Idle
  BY <1>1, DescendantIsNew
<1> HIDE DEF x, r, t
<1>8. /\ process'[c] = x /\ record'[c] = r /\ threads'[c] = t /\ Tables'
      /\ \A q \in Pids : q # c => Untouched(q)
  BY <1>6, <1>7 DEF ProcessesAgree, Tables, Table, Untouched
<1>9. Born(c)' BY <1>3, <1>4, <1>5, <1>6, <1>7, <1>8 DEF Born
<1> QED BY <1>7, <1>8, <1>9, BornAgrees, OneAgrees

LEMMA SpawnAgrees ==
    ASSUME ProcessesAgree, Table(fds, Pids), NEW p \in Pids, NEW s \in Slots,
           NEW loads \in BOOLEAN, spawn(p, s, loads)
    PROVE  ProcessesAgree'
<1>0. Live(p) /\ Unused # {} /\ Descendant \in Pids
  BY DescendantIsNew DEF spawn, CanCall
<1> PICK c \in Pids : c = Descendant BY <1>0
<1> DEFINE x == [process[p] EXCEPT !.exited = ~loads, !.alarmed = FALSE]
           r == [parent |-> p, exited |-> ~loads,
                 status |-> IF loads THEN "none" ELSE "127",
                 group |-> x.group, uid |-> x.uid, euid |-> x.euid]
           t == [u \in Slots |-> IF loads /\ u = Min(Slots) THEN "running" ELSE "none"]
<1>1. Live(p) /\ Unused # {} BY <1>0
<1>2. process[p] \in ProcessSet /\ p \in Nat \ {0}
  BY PidsTyped DEF ProcessesAgree, Agrees, Typed
<1>3. x \in ProcessSet /\ x.exists /\ ~x.alarmed /\ x.exited = ~loads
  BY <1>1, <1>2 DEF Live, ProcessSet
<1>4. r \in RecordSet /\ r.exited = ~loads
  <2> HIDE DEF x
  <2> QED BY <1>2, <1>3 DEF RecordSet, ProcessSet, Statuses
<1>5. t \in ThreadSet /\ \A u \in Slots : t[u] # "waiting" /\ (~loads => t[u] = "none")
  BY DEF ThreadSet
<1>6. /\ c \in Pids /\ generations[c] \in CountSet /\ generations[c].exit = 0
      /\ Table(pending[c], Slots) /\ \A u \in Slots : pending[c][u] = Idle
      /\ itimer[c] = NoTimer
  BY <1>1, DescendantIsNew
<1>7. /\ process' = [process EXCEPT ![c] = x] /\ record' = [record EXCEPT ![c] = r]
      /\ threads' = [threads EXCEPT ![c] = t] /\ UNCHANGED <<itimer, pending>>
      /\ fds' = [fds EXCEPT ![c] = IF loads THEN AfterExec(fds[p]) ELSE NoDescriptors]
      /\ generations' =
            IF loads THEN [generations EXCEPT ![c].exec = @ + 1]
                     ELSE [generations EXCEPT ![c].exit = @ + 1, ![c].status = "127"]
  <2>1. SpawnChild(p, loads) BY DEF spawn
  <2>2. process' = [process EXCEPT ![c] = x] BY <2>1 DEF SpawnChild
  <2>3. record' = [record EXCEPT ![c] = r] BY <2>1 DEF SpawnChild
  <2>4. generations' =
            IF loads THEN [generations EXCEPT ![c].exec = @ + 1]
                     ELSE [generations EXCEPT ![c].exit = @ + 1, ![c].status = "127"]
    BY <2>1 DEF SpawnChild
  <2>5. /\ threads' = [threads EXCEPT ![c] = t] /\ UNCHANGED <<itimer, pending>>
        /\ fds' = [fds EXCEPT ![c] = IF loads THEN AfterExec(fds[p]) ELSE NoDescriptors]
    BY <2>1 DEF SpawnChild
  <2> QED BY <2>2, <2>3, <2>4, <2>5
<1> HIDE DEF x, r, t
<1>8. /\ generations'[c] \in CountSet /\ generations'[c].exit = (IF loads THEN 0 ELSE 1)
      /\ Table(generations', Pids) /\ \A q \in Pids : q # c => generations'[q] = generations[q]
  <2>1. Table(generations, Pids) BY DEF ProcessesAgree, Tables
  <2>2. CASE loads
    <3>1. generations' = [generations EXCEPT ![c].exec = @ + 1] BY <1>7, <2>2
    <3> QED BY <1>6, <2>1, <2>2, <3>1 DEF CountSet, Table
  <2>3. CASE ~loads
    <3>1. generations' = [generations EXCEPT ![c].exit = @ + 1, ![c].status = "127"]
      BY <1>7, <2>3
    <3> QED BY <1>6, <2>1, <2>3, <3>1 DEF CountSet, Statuses, Table
  <2> QED BY <2>2, <2>3
<1>9. /\ process'[c] = x /\ record'[c] = r /\ threads'[c] = t /\ Tables'
      /\ \A q \in Pids : q # c => Untouched(q)
      /\ ~loads => fds'[c] = NoDescriptors
  BY <1>6, <1>7, <1>8 DEF ProcessesAgree, Tables, Table, Untouched
<1>10. Born(c)' BY <1>3, <1>4, <1>5, <1>6, <1>7, <1>8, <1>9 DEF Born
<1> QED BY <1>6, <1>9, <1>10, BornAgrees, OneAgrees

LEMMA ExecAgrees ==
    ASSUME ProcessesAgree, Table(fds, Pids), NEW p \in Pids, NEW s \in Slots, exec(p, s)
    PROVE  ProcessesAgree'
<1> DEFINE r == [parent |-> record[p].parent, exited |-> FALSE, status |-> "none",
                 group |-> process[p].group, uid |-> process[p].uid, euid |-> process[p].euid]
           t == [u \in Slots |-> IF u = s THEN "running" ELSE "none"]
           w == [u \in Slots |-> Idle]
<1>1. Live(p) /\ HasRecord(p) /\ Agrees(p)
  BY DEF exec, CanCall, ProcessesAgree, Agrees, Recorded
<1>2. record[p] \in RecordSet /\ process[p] \in ProcessSet BY <1>1, RecordsHaveParents
<1>3. r \in RecordSet /\ r.exited = FALSE BY <1>2 DEF RecordSet, ProcessSet, Statuses
<1>4. t \in ThreadSet /\ \A u \in Slots : t[u] # "waiting" BY DEF ThreadSet
<1>5. Table(w, Slots) /\ \A u \in Slots : w[u] = Idle BY DEF Table
<1>6. /\ UNCHANGED <<process, itimer>> /\ record' = [record EXCEPT ![p] = r]
      /\ threads' = [threads EXCEPT ![p] = t] /\ pending' = [pending EXCEPT ![p] = w]
      /\ generations' = [generations EXCEPT ![p].exec = @ + 1]
      /\ fds' = [fds EXCEPT ![p] = AfterExec(@)]
  BY DEF exec, ExecEffect
<1> HIDE DEF r, t, w
<1>7. /\ generations[p] \in CountSet /\ generations[p].exit = 0 /\ ~process[p].alarmed
      /\ process[p].exists /\ process[p].exited = FALSE
  BY <1>1, <1>2 DEF Agrees, Typed, Recorded, Live, ProcessSet
<1>8. generations'[p] \in CountSet /\ generations'[p].exit = 0
  BY <1>6, <1>7 DEF ProcessesAgree, Tables, Table, CountSet
<1>9. /\ record'[p] = r /\ threads'[p] = t /\ pending'[p] = w /\ Tables'
      /\ \A q \in Pids : q # p => Untouched(q)
  BY <1>6 DEF ProcessesAgree, Tables, Table, Untouched
<1>10. Born(p)' BY <1>1, <1>2, <1>3, <1>4, <1>5, <1>6, <1>7, <1>8, <1>9 DEF Born, Live
<1> QED BY <1>9, <1>10, BornAgrees, OneAgrees

\* A process that has died: no thread is left unless its alarm ended it.
Dead(p) ==
    /\ process[p] \in ProcessSet /\ process[p].exists /\ process[p].exited
    /\ record[p] \in RecordSet /\ record[p].exited = TRUE
    /\ generations[p] \in CountSet /\ generations[p].exit = 1
    /\ threads[p] \in ThreadSet /\ Table(pending[p], Slots)
    /\ fds[p] = NoDescriptors /\ itimer[p] = NoTimer
    /\ ~process[p].alarmed => \A s \in Slots : threads[p][s] = "none"

LEMMA DeadAgrees ==
    ASSUME NEW p, Dead(p)'
    PROVE  Agrees(p)'
<1>1. record'[p].parent # 0 /\ process'[p].exited = TRUE BY DEF Dead, RecordSet, ProcessSet
<1>2. Recorded(p)' BY <1>1 DEF Dead, Recorded, Live, HasRecord
<1>3. Typed(p)' BY DEF Dead, Typed
<1>4. Emptied(p)' BY DEF Dead, Emptied, Live
<1> QED BY <1>2, <1>3, <1>4 DEF Agrees

\* The processes that die of a call had not exited before.
Dying(victims) == \A q \in victims : q \in Pids /\ HasRecord(q) /\ ~record[q].exited

LEMMA DyingFacts ==
    ASSUME ProcessesAgree, NEW victims, Dying(victims), NEW q \in victims
    PROVE  /\ q \in Pids /\ HasRecord(q) /\ Agrees(q)
           /\ record[q] \in RecordSet /\ process[q] \in ProcessSet
           /\ process[q].exists /\ process[q].exited = FALSE
           /\ generations[q] \in CountSet /\ generations[q].exit = 0
           /\ threads[q] \in ThreadSet /\ Table(pending[q], Slots)
<1>1. q \in Pids /\ HasRecord(q) /\ Agrees(q) /\ ~record[q].exited
  BY DEF Dying, ProcessesAgree
<1>2. /\ record[q] \in RecordSet /\ process[q] \in ProcessSet /\ process[q].exists
      /\ record[q].exited = process[q].exited
  BY <1>1, RecordsHaveParents
<1>3. process[q].exited = FALSE BY <1>1, <1>2 DEF ProcessSet
<1> QED BY <1>1, <1>2, <1>3 DEF Agrees, Typed, Recorded

LEMMA ExitCounted ==
    ASSUME NEW g \in CountSet, g.exit = 0, NEW status \in Statuses
    PROVE  /\ [g EXCEPT !.exit = @ + 1, !.status = status] \in CountSet
           /\ [g EXCEPT !.exit = @ + 1, !.status = status].exit = 1
<1> DEFINE h == [g EXCEPT !.exit = @ + 1]
           e == [h EXCEPT !.status = status]
<1>1. h \in CountSet /\ h.exit = 1 BY DEF CountSet
<1>2. e \in CountSet /\ e.exit = 1
  <2> HIDE DEF h
  <2> QED BY <1>1 DEF CountSet
<1>3. e = [g EXCEPT !.exit = @ + 1, !.status = status] OBVIOUS
<1> QED BY <1>2, <1>3

LEMMA DeathAgrees ==
    ASSUME ProcessesAgree, NEW victims, Dying(victims), NEW status \in Statuses,
           NEW alarmed \in BOOLEAN,
           process' = [q \in Pids |-> IF q \in victims
               THEN [process[q] EXCEPT !.exited = TRUE, !.alarmed = alarmed] ELSE process[q]],
           record' = [q \in Pids |-> IF q \in victims
               THEN [record[q] EXCEPT !.exited = TRUE, !.status = status] ELSE record[q]],
           generations' = [q \in Pids |-> IF q \in victims
               THEN [generations[q] EXCEPT !.exit = @ + 1, !.status = status]
               ELSE generations[q]],
           Table(itimer', Pids), Table(threads', Pids), pending' = pending,
           fds' = [q \in Pids |-> IF q \in victims THEN NoDescriptors ELSE fds[q]],
           \A q \in Pids : IF q \in victims
               THEN /\ itimer'[q] = NoTimer
                    /\ threads'[q] = IF alarmed THEN threads[q] ELSE [s \in Slots |-> "none"]
               ELSE /\ threads'[q] = threads[q]
                    /\ ~Live(q) => itimer'[q] = itimer[q]
    PROVE  ProcessesAgree'
<1>1. Tables' BY DEF ProcessesAgree, Tables, Table
<1>2. ASSUME NEW q \in Pids, q \notin victims PROVE Untouched(q)
  BY <1>2 DEF Untouched
<1>3. ASSUME NEW q \in victims PROVE Agrees(q)'
  <2>1. /\ q \in Pids /\ record[q] \in RecordSet /\ process[q] \in ProcessSet
        /\ process[q].exists /\ generations[q] \in CountSet /\ generations[q].exit = 0
        /\ threads[q] \in ThreadSet /\ Table(pending[q], Slots)
    BY DyingFacts
  <2>2. /\ process'[q] = [process[q] EXCEPT !.exited = TRUE, !.alarmed = alarmed]
        /\ record'[q] = [record[q] EXCEPT !.exited = TRUE, !.status = status]
        /\ generations'[q] = [generations[q] EXCEPT !.exit = @ + 1, !.status = status]
        /\ fds'[q] = NoDescriptors /\ itimer'[q] = NoTimer /\ pending'[q] = pending[q]
        /\ threads'[q] = IF alarmed THEN threads[q] ELSE [s \in Slots |-> "none"]
    BY <2>1
  <2>3. process'[q] \in ProcessSet /\ process'[q].exists /\ process'[q].exited
        /\ process'[q].alarmed = alarmed
    BY <2>1, <2>2 DEF ProcessSet
  <2>4. record'[q] \in RecordSet /\ record'[q].exited = TRUE
    BY <2>1, <2>2 DEF RecordSet
  <2>5. generations'[q] \in CountSet /\ generations'[q].exit = 1
    BY <2>1, <2>2, ExitCounted
  <2>6. threads'[q] \in ThreadSet /\ (~alarmed => \A s \in Slots : threads'[q][s] = "none")
    <3>1. CASE alarmed BY <2>1, <2>2, <3>1
    <3>2. CASE ~alarmed
      <4>1. threads'[q] = [s \in Slots |-> "none"] BY <2>2, <3>2
      <4> QED BY <3>2, <4>1 DEF ThreadSet
    <3> QED BY <3>1, <3>2
  <2>7. Dead(q)' BY <2>1, <2>2, <2>3, <2>4, <2>5, <2>6 DEF Dead
  <2> QED BY <2>7, DeadAgrees
<1> QED BY <1>1, <1>2, <1>3, UntouchedAgrees DEF ProcessesAgree

LEMMA DieAgrees ==
    ASSUME ProcessesAgree, NEW victims, Dying(victims), NEW status \in Statuses,
           Die(victims, status, TRUE)
    PROVE  ProcessesAgree'
<1>1. /\ process' = [q \in Pids |-> IF q \in victims
             THEN [process[q] EXCEPT !.exited = TRUE, !.alarmed = FALSE] ELSE process[q]]
      /\ generations' = [q \in Pids |-> IF q \in victims
             THEN [generations[q] EXCEPT !.exit = @ + 1, !.status = status]
             ELSE generations[q]]
      /\ itimer' = [q \in Pids |-> IF q \in victims THEN NoTimer ELSE itimer[q]]
      /\ threads' = [q \in Pids |-> IF q \in victims THEN [s \in Slots |-> "none"] ELSE threads[q]]
      /\ fds' = [q \in Pids |-> IF q \in victims THEN NoDescriptors ELSE fds[q]]
      /\ pending' = pending
  BY DEF Die, ExitEffect, Retired
<1>2. record' = [q \in Pids |-> IF q \in victims /\ HasRecord(q)
          THEN [record[q] EXCEPT !.exited = TRUE, !.status = status] ELSE record[q]]
  BY DEF Die, ExitEffect
<1>3. record' = [q \in Pids |-> IF q \in victims
          THEN [record[q] EXCEPT !.exited = TRUE, !.status = status] ELSE record[q]]
  <2>1. \A q \in victims : HasRecord(q) BY DEF Dying
  <2> QED BY <1>2, <2>1
<1>4. Table(itimer', Pids) /\ Table(threads', Pids)
      /\ \A q \in Pids : IF q \in victims
             THEN /\ itimer'[q] = NoTimer
                  /\ threads'[q] = IF FALSE THEN threads[q] ELSE [s \in Slots |-> "none"]
             ELSE /\ threads'[q] = threads[q]
                  /\ ~Live(q) => itimer'[q] = itimer[q]
  BY <1>1 DEF Table
<1> DEFINE alarmed == FALSE
<1> QED BY <1>1, <1>3, <1>4, DeathAgrees

LEMMA VictimsDie ==
    ASSUME NEW p, NEW whom, NEW signal
    PROVE  Dying(Victims(p, whom, signal))
BY DEF Dying, Victims, KillTargets

\* exit_process of a live caller.
LEMMA CallerDies ==
    ASSUME ProcessesAgree, NEW p \in Pids, Live(p)
    PROVE  Dying({p})
BY DEF ProcessesAgree, Agrees, Recorded, Dying, Live

LEMMA AlarmAgrees ==
    ASSUME ProcessesAgree, Table(fds, Pids), advance_time
    PROVE  ProcessesAgree'
<1> DEFINE now == clock + 1
           out == Alarmed(now)
<1>1. /\ process' = [p \in Pids |-> IF p \in out
             THEN [process[p] EXCEPT !.exited = TRUE, !.alarmed = TRUE] ELSE process[p]]
      /\ record' = [p \in Pids |-> IF p \in out
             THEN [record[p] EXCEPT !.exited = TRUE, !.status = "alarm"] ELSE record[p]]
      /\ generations' = [p \in Pids |-> IF p \in out
             THEN [generations[p] EXCEPT !.exit = @ + 1, !.status = "alarm"]
             ELSE generations[p]]
      /\ itimer' = [p \in Pids |->
             IF p \in out THEN NoTimer
             ELSE IF Live(p) /\ Due(p, now) THEN Rearmed(itimer[p], now) ELSE itimer[p]]
      /\ fds' = [p \in Pids |-> IF p \in out THEN NoDescriptors ELSE fds[p]]
      /\ threads' = threads /\ pending' = pending
  BY DEF advance_time
<1>2. \A q \in out : q \in Pids /\ Live(q) BY DEF Alarmed
<1> HIDE DEF now, out
<1>3. Dying(out) BY <1>2, CallerDies DEF Dying
<1>4. Table(itimer', Pids) /\ Table(threads', Pids)
      /\ \A q \in Pids : IF q \in out
             THEN /\ itimer'[q] = NoTimer
                  /\ threads'[q] = IF TRUE THEN threads[q] ELSE [s \in Slots |-> "none"]
             ELSE /\ threads'[q] = threads[q]
                  /\ ~Live(q) => itimer'[q] = itimer[q]
  BY <1>1 DEF Table, ProcessesAgree, Tables
<1>5. "alarm" \in Statuses BY DEF Statuses
<1> QED BY <1>1, <1>3, <1>4, <1>5, DeathAgrees

\* A step of threads and waits: a record may go with a zombie, and a thread
\* may run where a process lives.
Reaped(p) ==
    /\ process'[p] = process[p] /\ generations'[p] = generations[p]
    /\ record'[p] = record[p] \/ (record'[p] = NoRecord /\ process[p].exited)
    /\ threads'[p] \in ThreadSet /\ Table(pending'[p], Slots)
    /\ ~Live(p) => /\ itimer'[p] = itimer[p] /\ fds'[p] = fds[p]
                   /\ \A s \in Slots : threads[p][s] = "none" => threads'[p][s] = "none"
    /\ \A s \in Slots : ~process[p].exited /\ threads'[p][s] # "waiting" =>
          \/ pending'[p][s] = Idle
          \/ threads[p][s] # "waiting" /\ pending'[p][s] = pending[p][s]

LEMMA ReapedAgrees ==
    ASSUME NEW p, Agrees(p), Reaped(p)
    PROVE  Agrees(p)'
<1>1. Typed(p)' BY DEF Reaped, Agrees, Typed
<1>2. Recorded(p)'
  <2>1. CASE record'[p] = record[p]
    BY <2>1 DEF Reaped, Agrees, Recorded, Live, HasRecord
  <2>2. CASE record'[p] = NoRecord /\ process[p].exited
    BY <2>2, NoRecordHasNoParent DEF Reaped, Agrees, Recorded, Live, HasRecord
  <2> QED BY <2>1, <2>2 DEF Reaped
<1>3. Emptied(p)' BY DEF Reaped, Agrees, Emptied, Live
<1> QED BY <1>1, <1>2, <1>3 DEF Agrees

LEMMA ReapedByAll ==
    ASSUME ProcessesAgree, Tables', \A p \in Pids : Reaped(p)
    PROVE  ProcessesAgree'
BY ReapedAgrees DEF ProcessesAgree

\* wait4 finds a zombie of the caller.
LEMMA ChildHasExited ==
    ASSUME ProcessesAgree, NEW p, NEW target, ExitedChildren(p, target) # {}
    PROVE  /\ Min(ExitedChildren(p, target)) \in Pids
           /\ process[Min(ExitedChildren(p, target))].exited
<1> DEFINE S == ExitedChildren(p, target)
<1>1. S \in SUBSET Pids /\ \A c \in S : HasRecord(c) /\ record[c].exited
  BY DEF ExitedChildren, Targets, Children
<1> HIDE DEF S
<1>2. Min(S) \in S BY <1>1, PidsTyped, LeastIn DEF S
<1> QED BY <1>1, <1>2 DEF ProcessesAgree, Agrees, Recorded, S

LEMMA NohangAgrees ==
    ASSUME ProcessesAgree, NEW p \in Pids, NEW s \in Slots, NEW target, NEW fault,
           wait4_nohang(p, s, target, fault),
           UNCHANGED <<process, generations, itimer, fds>>
    PROVE  ProcessesAgree'
<1> DEFINE c == Min(ExitedChildren(p, target))
<1>1. \/ record' = record
      \/ /\ ExitedChildren(p, target) # {}
         /\ record' = [record EXCEPT ![c] = NoRecord]
  BY DEF wait4_nohang
<1>2. UNCHANGED <<pending, threads>> BY DEF wait4_nohang, NoBlock
<1>3. ExitedChildren(p, target) # {} => c \in Pids /\ process[c].exited
  BY ChildHasExited
<1> HIDE DEF c
<1>4. Tables' BY <1>1, <1>2 DEF ProcessesAgree, Tables, Table
<1>5. ASSUME NEW q \in Pids PROVE Reaped(q)
  <2>1. record'[q] = record[q] \/ (record'[q] = NoRecord /\ process[q].exited)
    BY <1>1, <1>3 DEF ProcessesAgree, Tables, Table
  <2> QED BY <1>2, <2>1 DEF Reaped, ProcessesAgree, Agrees, Typed
<1> QED BY <1>4, <1>5, ReapedByAll

LEMMA WaitAgrees ==
    ASSUME ProcessesAgree, NEW p \in Pids, NEW s \in Slots, reap_waits(p, s)
    PROVE  ProcessesAgree'
<1> DEFINE c == Min(ExitedChildren(p, pending[p][s].target))
<1>1. \/ record' = record
      \/ /\ ExitedChildren(p, pending[p][s].target) # {}
         /\ record' = [record EXCEPT ![c] = NoRecord]
  BY DEF reap_waits, complete_wait
<1>2. /\ pending' = [pending EXCEPT ![p][s] = Idle]
      /\ threads' = [threads EXCEPT ![p][s] = IF threads[p][s] = "waiting" THEN "running" ELSE threads[p][s]]
      /\ UNCHANGED <<process, generations, itimer, fds>>
  BY DEF reap_waits, complete_wait
<1>3. ExitedChildren(p, pending[p][s].target) # {} => c \in Pids /\ process[c].exited
  BY ChildHasExited
<1> HIDE DEF c
<1>4. /\ Table(pending', Pids) /\ Table(threads', Pids) /\ Table(record', Pids)
      /\ \A q \in Pids : threads'[q] \in ThreadSet /\ Table(pending'[q], Slots)
      /\ \A q \in Pids, t \in Slots :
            pending'[q][t] = IF q = p /\ t = s THEN Idle ELSE pending[q][t]
      /\ \A q \in Pids, t \in Slots :
            threads'[q][t] = IF q = p /\ t = s /\ threads[q][t] = "waiting" THEN "running"
                             ELSE threads[q][t]
  <2>1. /\ Table(pending, Pids) /\ \A q \in Pids : Table(pending[q], Slots)
        /\ Table(threads, Pids) /\ \A q \in Pids : threads[q] \in ThreadSet
        /\ Table(record, Pids)
    BY DEF ProcessesAgree, Agrees, Tables, Typed
  <2>2. /\ Table(pending', Pids) /\ \A q \in Pids : Table(pending'[q], Slots)
        /\ \A q \in Pids, t \in Slots :
              pending'[q][t] = IF q = p /\ t = s THEN Idle ELSE pending[q][t]
    BY <1>2, <2>1 DEF Table
  <2>3. /\ Table(threads', Pids) /\ \A q \in Pids : threads'[q] \in ThreadSet
        /\ \A q \in Pids, t \in Slots :
            threads'[q][t] = IF q = p /\ t = s /\ threads[q][t] = "waiting" THEN "running"
                             ELSE threads[q][t]
    BY <1>2, <2>1 DEF Table, ThreadSet
  <2>4. Table(record', Pids) BY <1>1, <2>1 DEF Table
  <2> QED BY <2>2, <2>3, <2>4
<1>5. Tables' BY <1>2, <1>4 DEF ProcessesAgree, Tables, Table
<1>6. ASSUME NEW q \in Pids PROVE Reaped(q)
  <2>1. record'[q] = record[q] \/ (record'[q] = NoRecord /\ process[q].exited)
    BY <1>1, <1>3 DEF ProcessesAgree, Tables, Table
  <2> QED BY <1>2, <1>4, <2>1 DEF Reaped
<1> QED BY <1>5, <1>6, ReapedByAll

LEMMA StartAgrees ==
    ASSUME ProcessesAgree, NEW p \in Pids, NEW s \in Slots, NEW t \in Slots,
           UNCHANGED <<process, record, generations, itimer, fds, pending>>,
           start_thread(p, s, t)
    PROVE  ProcessesAgree'
<1>1. /\ Table(pending, Pids) /\ \A q \in Pids : Table(pending[q], Slots)
      /\ Table(threads, Pids) /\ \A q \in Pids : threads[q] \in ThreadSet
  BY DEF ProcessesAgree, Agrees, Tables, Typed
<1>2. /\ Table(threads', Pids) /\ \A q \in Pids : threads'[q] \in ThreadSet
      /\ \A q \in Pids, u \in Slots :
            threads'[q][u] = IF q = p /\ u = t THEN "running" ELSE threads[q][u]
      /\ Live(p) /\ threads[p][t] = "none"
  BY <1>1 DEF start_thread, CanCall, Table, ThreadSet
<1>3. Tables' BY <1>2 DEF ProcessesAgree, Tables
<1>4. ASSUME NEW q \in Pids PROVE Reaped(q)
  <2>1. CASE q = p
    <3>1. \A u \in Slots : threads'[p][u] # "waiting" =>
             pending'[p][u] = Idle \/ (threads[p][u] # "waiting" /\ pending'[p][u] = pending[p][u])
      BY <1>2
    <3> QED BY <1>1, <1>2, <2>1, <3>1 DEF Reaped
  <2>2. CASE q # p BY <1>1, <1>2, <2>2 DEF Reaped
  <2> QED BY <2>1, <2>2
<1> QED BY <1>3, <1>4, ReapedByAll

\* reap_exited, and retire_runtime with the continuations.
LEMMA GoneAgrees ==
    ASSUME ProcessesAgree, NEW p \in Pids, process[p].exited,
           UNCHANGED <<process, record, generations, itimer, fds>>,
           threads' = [threads EXCEPT ![p] = [u \in Slots |-> "none"]],
           pending' \in {pending, [pending EXCEPT ![p] = [u \in Slots |-> Idle]]}
    PROVE  ProcessesAgree'
<1>1. /\ Table(pending, Pids) /\ \A q \in Pids : Table(pending[q], Slots)
      /\ Table(threads, Pids) /\ \A q \in Pids : threads[q] \in ThreadSet
  BY DEF ProcessesAgree, Agrees, Tables, Typed
<1>2. /\ Table(threads', Pids) /\ \A q \in Pids : threads'[q] \in ThreadSet
      /\ \A q \in Pids, u \in Slots :
            threads'[q][u] = IF q = p THEN "none" ELSE threads[q][u]
  BY <1>1 DEF Table, ThreadSet
<1>3. /\ Table(pending', Pids) /\ \A q \in Pids : Table(pending'[q], Slots)
      /\ \A q \in Pids : q # p => pending'[q] = pending[q]
  BY <1>1 DEF Table
<1>4. Tables' BY <1>2, <1>3 DEF ProcessesAgree, Tables
<1>5. ASSUME NEW q \in Pids PROVE Reaped(q)
  <2>1. CASE q = p BY <1>2, <1>3, <2>1 DEF Reaped
  <2>2. CASE q # p BY <1>2, <1>3, <2>2 DEF Reaped
  <2> QED BY <2>1, <2>2
<1> QED BY <1>4, <1>5, ReapedByAll

\* setuid and setsid change who a live process is, and nothing else of it.
LEMMA IdentityAgrees ==
    ASSUME ProcessesAgree, NEW p \in Pids, NEW s \in Slots,
           UNCHANGED <<generations, itimer, threads, pending, fds>>,
           \/ \E u \in Users, e \in BOOLEAN : setuid(p, s, u, e)
           \/ setsid(p, s) /\ UNCHANGED record
    PROVE  ProcessesAgree'
<1>1. Agrees(p) /\ Live(p) /\ HasRecord(p) BY DEF ProcessesAgree, Agrees, Recorded, setuid, setsid, CanCall
<1>2. process[p] \in ProcessSet /\ record[p] \in RecordSet BY <1>1, RecordsHaveParents
<1> DEFINE Carried ==
        /\ Table(process', Pids) /\ Table(record', Pids)
        /\ \A q \in Pids : q # p => process'[q] = process[q] /\ record'[q] = record[q]
        /\ process'[p] \in ProcessSet /\ record'[p] \in RecordSet
        /\ process'[p].exists = process[p].exists /\ process'[p].exited = process[p].exited
        /\ process'[p].alarmed = process[p].alarmed /\ record'[p].exited = record[p].exited
<1>3. Table(process, Pids) /\ Table(record, Pids) BY DEF ProcessesAgree, Tables
<1>4. Carried
  <2>1. CASE setsid(p, s) /\ UNCHANGED record
    <3>1. process' = [process EXCEPT ![p].group = p] /\ record' = record
      BY <2>1 DEF setsid
    <3> QED BY <1>2, <1>3, <3>1 DEF Table, ProcessSet
  <2>2. CASE \E u \in Users, e \in BOOLEAN : setuid(p, s, u, e)
    <3> PICK u \in Users, e \in BOOLEAN : setuid(p, s, u, e) BY <2>2
    <3> DEFINE v == IF ~e /\ process[p].euid = Root THEN u ELSE process[p].uid
               w == IF ~e /\ record[p].euid = Root THEN u ELSE record[p].uid
    <3>1. v \in Users /\ w \in Users BY <1>2 DEF ProcessSet, RecordSet
    <3>2. /\ process' = [process EXCEPT ![p].euid = u, ![p].uid = v]
          /\ record' = [record EXCEPT ![p].euid = u, ![p].uid = w]
      BY <1>1 DEF setuid
    <3> HIDE DEF v, w
    <3>3. /\ Table(process', Pids) /\ \A q \in Pids : q # p => process'[q] = process[q]
          /\ process'[p] \in ProcessSet
          /\ process'[p].exists = process[p].exists /\ process'[p].exited = process[p].exited
          /\ process'[p].alarmed = process[p].alarmed
      BY <1>2, <1>3, <3>1, <3>2 DEF Table, ProcessSet
    <3>4. /\ Table(record', Pids) /\ \A q \in Pids : q # p => record'[q] = record[q]
          /\ record'[p] \in RecordSet /\ record'[p].exited = record[p].exited
      BY <1>2, <1>3, <3>1, <3>2 DEF Table, RecordSet
    <3> QED BY <3>3, <3>4
  <2> QED BY <2>1, <2>2
<1>5. Tables' BY <1>4 DEF ProcessesAgree, Tables
<1>6. \A q \in Pids : q # p => Untouched(q) BY <1>4 DEF Untouched
<1>7. Agrees(p)'
  <2>1. record'[p].parent # 0 BY <1>4 DEF RecordSet
  <2>2. Typed(p)' BY <1>1, <1>4 DEF Agrees, Typed
  <2>3. Recorded(p)' BY <1>1, <1>4, <2>1 DEF Agrees, Recorded, Live, HasRecord
  <2>4. Emptied(p)' BY <1>1, <1>4 DEF Agrees, Emptied, Live
  <2> QED BY <2>2, <2>3, <2>4 DEF Agrees
<1> QED BY <1>5, <1>6, <1>7, OneAgrees

LEMMA ProcessStepAgrees ==
    ASSUME ProcessesAgree, Table(fds, Pids), NEW p \in Pids, NEW s \in Slots, ProcessStep(p, s)
    PROVE  ProcessesAgree'
<1>1. CASE fork(p, s) BY <1>1, ForkAgrees
<1>2. CASE exit_process(p, s, "0")
  <2>1. Dying({p}) BY <1>2, CallerDies DEF exit_process, CanCall
  <2>2. "0" \in Statuses BY DEF Statuses
  <2> QED BY <1>2, <2>1, <2>2, DieAgrees DEF exit_process
<1>3. CASE /\ \E t \in Slots : start_thread(p, s, t)
           /\ UNCHANGED pending /\ SameProcess /\ SameKernel
  BY <1>3, StartAgrees DEF SameProcess, SameKernel
<1>4. CASE exec(p, s) BY <1>4, ExecAgrees
<1>5. CASE \E loads \in BOOLEAN : spawn(p, s, loads) BY <1>5, SpawnAgrees
<1>6. CASE \E q \in Pids, by \in {"pid", "group", "all"}, g \in Signals :
               kill(p, s, [by |-> by, pid |-> q], g)
  <2> PICK q \in Pids, by \in {"pid", "group", "all"}, g \in Signals :
               kill(p, s, [by |-> by, pid |-> q], g)
    BY <1>6
  <2>1. Dying(Victims(p, [by |-> by, pid |-> q], g)) BY VictimsDie
  <2>2. g \in Statuses BY DEF Statuses
  <2> QED BY <2>1, <2>2, DieAgrees DEF kill
<1>7. CASE /\ \E q \in Pids \cup {0} :
                 wait4(p, s, q) \/ \E fault \in BOOLEAN : wait4_nohang(p, s, q, fault)
           /\ UNCHANGED <<process, generations, disposition, itimer, clock>> /\ SameKernel
  <2>1. CASE \E q \in Pids \cup {0} : wait4(p, s, q)
    <3>1. Quiet BY <1>7, <2>1 DEF Quiet, wait4, SameKernel
    <3> QED BY <3>1, QuietKeeps
  <2>2. CASE \E q \in Pids \cup {0}, fault \in BOOLEAN : wait4_nohang(p, s, q, fault)
    BY <1>7, <2>2, NohangAgrees DEF SameKernel
  <2> QED BY <1>7, <2>1, <2>2
<1>8. CASE /\ \/ \E u \in {Root, Mobile}, e \in BOOLEAN : setuid(p, s, u, e)
              \/ setsid(p, s) /\ UNCHANGED record
           /\ UNCHANGED <<generations, disposition, itimer, clock>> /\ SameThreads /\ SameKernel
  <2>1. UNCHANGED <<generations, itimer, threads, pending, fds>>
    BY <1>8 DEF SameThreads, SameKernel
  <2> QED BY <1>8, <2>1, IdentityAgrees DEF Users
<1>9. CASE UNCHANGED <<process, record, generations, itimer, clock>> /\ SameThreads /\ SameKernel
  <2>1. Quiet BY <1>9 DEF Quiet, SameThreads, NoBlock, SameKernel
  <2> QED BY <2>1, QuietKeeps
<1>10. CASE /\ \E interval, value \in 0 .. 1 : setitimer(p, s, interval, value)
            /\ UNCHANGED <<process, record, generations, disposition, clock>> /\ SameThreads
            /\ SameKernel
  <2>1. Tables' BY <1>10 DEF setitimer, SameThreads, ProcessesAgree, Tables, Table
  <2>2. ASSUME NEW q \in Pids PROVE Untouched(q)
    BY <1>10 DEF setitimer, CanCall, SameThreads, SameKernel, Untouched, ProcessesAgree, Tables,
       Table
  <2> QED BY <2>1, <2>2, UntouchedAgrees DEF ProcessesAgree
<1> QED BY <1>1, <1>2, <1>3, <1>4, <1>5, <1>6, <1>7, <1>8, <1>9, <1>10 DEF ProcessStep

Waiting == \A p \in Pids, s \in Slots : Wanting(pending[p][s])

LEMMA ProcessesStep ==
    ASSUME ProcessesAgree, Table(fds, Pids), Waiting, Next
    PROVE  ProcessesAgree'
<1>1. ASSUME NEW p \in Pids, NEW s \in Slots,
             \/ DescriptorStep(p, s) \/ LockStep(p, s) \/ OpenStep(p, s)
             \/ NameStep(p, s) \/ DataStep(p, s) \/ SocketStep(p, s) \/ EventStep(p, s)
      PROVE  ProcessesAgree'
  BY <1>1, CallsQuiet, QuietKeeps
<1>2. ASSUME NEW p \in Pids, NEW s \in Slots, deliver_pending_io(p, s) PROVE ProcessesAgree'
  BY <1>2, DeliveryQuiet, QuietKeeps DEF Waiting
<1>3. ASSUME NEW p \in Pids, retire_runtime(p) PROVE ProcessesAgree'
  BY <1>3, GoneAgrees DEF retire_runtime, SameProcess
<1>4. ASSUME NEW p \in Pids, NEW s \in Slots, reap_exited(p, s) PROVE ProcessesAgree'
  <2>1. threads' = [threads EXCEPT ![p] = [u \in Slots |-> "none"]] /\ process[p].exited
        /\ UNCHANGED <<process, record, generations, itimer, fds, pending>>
    BY <1>4 DEF reap_exited, reap_chosen, SameProcess
  <2> QED BY <2>1, GoneAgrees
<1>5. LoopStep => ProcessesAgree'
  BY <1>2, <1>3, <1>4, AlarmAgrees, WaitAgrees DEF LoopStep
<1> QED BY <1>1, <1>5, ProcessStepAgrees DEF Next

LEMMA ProcessesBegin == Init => ProcessesAgree
<1> SUFFICES ASSUME Init PROVE ProcessesAgree OBVIOUS
<1>1. /\ process = [p \in Pids |->
             [exists |-> p = 1, exited |-> FALSE, group |-> 1,
              uid |-> Root, euid |-> Root, alarmed |-> FALSE]]
      /\ record = [p \in Pids |->
             IF p = 1 THEN [parent |-> p + Cardinality(Pids), exited |-> FALSE,
                            status |-> "none", group |-> 1, uid |-> Root, euid |-> Root]
                      ELSE NoRecord]
      /\ generations = [p \in Pids |->
             [exec |-> IF p = 1 THEN 1 ELSE 0, exit |-> 0, status |-> "none"]]
      /\ itimer = [p \in Pids |-> NoTimer]
      /\ threads = [p \in Pids |-> [s \in Slots |->
             IF p = 1 /\ s = Min(Slots) THEN "running" ELSE "none"]]
      /\ pending = [p \in Pids |-> [s \in Slots |-> Idle]]
      /\ fds = [p \in Pids |-> NoDescriptors]
  BY DEF Init, ProcessesInit, DescriptorsInit
<1>2. 1 \in Pids /\ Cardinality(Pids) \in Nat BY PidsTyped, ProcessAssumption
<1>3. Tables BY <1>1 DEF Tables, Table
<1>4. ASSUME NEW p \in Pids PROVE Agrees(p)
  <2>1. /\ process[p] \in ProcessSet /\ process[p].exited = FALSE /\ ~process[p].alarmed
        /\ process[p].exists <=> p = 1
    BY <1>1, <1>2 DEF ProcessSet, Users
  <2>2. /\ p = 1 => record[p] \in RecordSet /\ record[p].exited = FALSE /\ HasRecord(p)
        /\ p # 1 => record[p] = NoRecord /\ ~HasRecord(p)
    BY <1>1, <1>2, NoRecordHasNoParent DEF RecordSet, Users, Statuses, HasRecord
  <2>3. generations[p] \in CountSet /\ generations[p].exit = 0
    BY <1>1 DEF CountSet, Statuses
  <2>4. /\ threads[p] \in ThreadSet /\ Table(pending[p], Slots)
        /\ \A s \in Slots : /\ threads[p][s] # "waiting" /\ pending[p][s] = Idle
                            /\ p # 1 => threads[p][s] = "none"
    BY <1>1 DEF ThreadSet, Table
  <2>5. fds[p] = NoDescriptors /\ itimer[p] = NoTimer BY <1>1
  <2>6. Typed(p) BY <2>1, <2>2, <2>3, <2>4 DEF Typed
  <2>7. Recorded(p) BY <2>1, <2>2, <2>3 DEF Recorded, Live
  <2>8. Emptied(p) BY <2>1, <2>4, <2>5 DEF Emptied, Live
  <2> QED BY <2>6, <2>7, <2>8 DEF Agrees
<1> QED BY <1>3, <1>4 DEF ProcessesAgree

-----------------------------------------------------------------------------
(***************************************************************************)
(* References.  A step copies what it knows, and then either drops the     *)
(* descriptions nobody refers to any more, with their flocks, or drops no  *)
(* reference at all.                                                       *)
(***************************************************************************)
TablesMove == Table(fds', Pids) /\ \A p \in Pids : Copies(fds'[p], LiveEntries)
FlightMoves == \A e \in InFlight' : CopyOf(e, LiveEntries)
QueueMoves == queue' \in [Listeners -> Seq(Endpoint)]

EntriesMove == TablesMove /\ FlightMoves /\ QueueMoves

PendingMoves ==
    \A p \in Pids, s \in Slots :
        pending'[p][s] = pending[p][s] \/ Wanting(pending'[p][s])

NothingDropped ==
    /\ \A p \in Pids : Retains(fds[p], fds'[p])
    /\ InFlight \subseteq InFlight'
    /\ \A p \in Pids, s \in Slots :
          pending[p][s].op = "flock" => pending'[p][s] = pending[p][s]

FlocksGood(table) ==
    /\ table \in [Inodes -> Flock]
    /\ \A i \in Inodes :
          /\ table[i].exclusive # NoOwner => table[i].shared = {}
          /\ \A d \in FlockOwners(table[i]) : descr[d] = i /\ d \in Held

LEMMA LiveEntry ==
    /\ \A p \in Pids, n \in Fds : fds[p][n] \in LiveEntries
    /\ \A e \in LiveEntries : e.kind = "file" => e.obj \in Held
    /\ \A e \in InFlight : e \in LiveEntries
    /\ \A p \in Pids, s \in Slots : pending[p][s].op = "flock" => pending[p][s].obj \in Held
BY DEF LiveEntries, Entries, Held, DescribedBy, WaitingDescriptions

LEMMA HeldBy ==
    ASSUME NEW d \in Held
    PROVE  \/ \E p \in Pids, n \in Fds : fds[p][n].kind = "file" /\ fds[p][n].obj = d
           \/ \E e \in InFlight : e.kind = "file" /\ e.obj = d
           \/ \E p \in Pids, s \in Slots : pending[p][s].op = "flock" /\ pending[p][s].obj = d
BY DEF Held, DescribedBy, LiveEntries, Entries, WaitingDescriptions

LEMMA OwnCopies ==
    ASSUME DescriptionsOpen
    PROVE  /\ \A p \in Pids : Copies(fds[p], LiveEntries)
           /\ \A e \in LiveEntries : CopyOf(e, LiveEntries)
BY LiveEntry DEF DescriptionsOpen, Copies, CopyOf, Referring

\* What the entries and continuations of the new state refer to.
LEMMA NewReferences ==
    ASSUME DescriptionsOpen, EntriesMove, PendingMoves
    PROVE  /\ \A e \in LiveEntries' : IsEntry(e) /\ Placed(e)
           /\ \A e \in LiveEntries' : e.kind = "file" =>
                 /\ e.obj \in Descriptions /\ descr[e.obj] \in Inodes /\ e.path \in Names
                 /\ e.obj \in Held'
           /\ \A p \in Pids, s \in Slots : Wanting(pending'[p][s])
<1>0. /\ \A p \in Pids, n \in Fds : CopyOf(fds'[p][n], LiveEntries)
      /\ \A e \in InFlight' : CopyOf(e, LiveEntries)
  BY DEF EntriesMove, TablesMove, FlightMoves, Copies
<1>1. ASSUME NEW e \in LiveEntries' PROVE CopyOf(e, LiveEntries)
  <2>1. (\E p \in Pids, n \in Fds : e = fds'[p][n]) \/ e \in InFlight'
    BY <1>1 DEF LiveEntries, Entries
  <2> QED BY <1>0, <2>1
<1>2. ASSUME NEW e \in LiveEntries', e.kind = "file" PROVE e.obj \in Held'
  BY <1>2 DEF Held, DescribedBy
<1>3. ASSUME NEW e \in LiveEntries', e.kind = "file"
      PROVE  e.obj \in Descriptions /\ descr[e.obj] \in Inodes /\ e.path \in Names
  BY <1>1, <1>3 DEF CopyOf, DescriptionsOpen, Referring
<1>4. \A p \in Pids, s \in Slots : Wanting(pending'[p][s])
  BY DEF PendingMoves, DescriptionsOpen
<1> QED BY <1>1, <1>2, <1>3, <1>4 DEF CopyOf

LEMMA SettledStep ==
    ASSUME DescriptionsOpen, EntriesMove, PendingMoves, NEW table, FlocksGood(table),
           descr' = Settled(descr, Held'), flocks' = FlocksSettled(table, Held')
    PROVE  DescriptionsOpen' /\ FlocksHeld'
<1>1. \A d \in Descriptions : descr'[d] = IF d \in Held' THEN descr[d] ELSE 0
  BY DEF Settled
<1>2. descr' \in [Descriptions -> Inodes \cup {0}]
  BY DEF Settled, DescriptionsOpen
<1>3. ASSUME NEW e \in LiveEntries' PROVE IsEntry(e) /\ Referring(e)'
  <2>1. CASE e.kind = "file"
    BY <1>1, <2>1, NewReferences DEF Referring
  <2>2. CASE e.kind # "file"
    BY <2>2, NewReferences DEF Referring
  <2> QED BY <2>1, <2>2
<1>4. ASSUME NEW p \in Pids, NEW s \in Slots PROVE Wanting(pending[p][s])'
  <2>1. Wanting(pending'[p][s]) BY NewReferences
  <2>2. pending'[p][s].op = "flock" => pending'[p][s].obj \in Held'
    BY DEF Held, WaitingDescriptions
  <2> QED BY <1>1, <2>1, <2>2 DEF Wanting
<1>5. DescriptionsOpen'
  <2>1. Table(fds', Pids) /\ \A p \in Pids : Table(fds'[p], Fds)
    BY DEF EntriesMove, TablesMove, FlightMoves, Copies
  <2> QED BY <1>2, <1>3, <1>4, <2>1 DEF DescriptionsOpen, IsEntry, EntriesMove, QueueMoves
<1>6. FlocksHeld'
  <2> DEFINE H == Held'
  <2>1. flocks' = [i \in Inodes |->
              [exclusive |-> IF table[i].exclusive \in H THEN table[i].exclusive ELSE NoOwner,
               shared    |-> table[i].shared \cap H]]
    BY DEF FlocksSettled
  <2>2. table \in [Inodes -> Flock] BY DEF FlocksGood
  <2> HIDE DEF H
  <2>3. flocks' \in [Inodes -> Flock] BY <2>1, <2>2 DEF Flock
  <2>4. ASSUME NEW i \in Inodes
        PROVE  /\ flocks'[i].exclusive # NoOwner => flocks'[i].shared = {}
               /\ \A d \in FlockOwners(flocks'[i]) : d \in FlockOwners(table[i]) /\ d \in H
               /\ FlockOwners(flocks'[i]) \subseteq Descriptions
    <3>1. /\ flocks'[i].exclusive \in {NoOwner, table[i].exclusive}
          /\ flocks'[i].exclusive # NoOwner => flocks'[i].exclusive \in H
          /\ flocks'[i].shared = table[i].shared \cap H
          /\ flocks'[i] \in Flock
      BY <2>1, <2>3
    <3> QED BY <3>1 DEF FlocksGood, FlockOwners, Flock
  <2>5. \A i \in Inodes : \A d \in FlockOwners(flocks'[i]) : descr'[d] = i /\ d \in Held'
    BY <1>1, <2>4 DEF FlocksGood, H
  <2> QED BY <2>3, <2>4, <2>5 DEF FlocksHeld, FlockOwners
<1> QED BY <1>5, <1>6

LEMMA HeldStays ==
    ASSUME NothingDropped
    PROVE  Held \subseteq Held'
<1> SUFFICES ASSUME NEW d \in Held PROVE d \in Held' OBVIOUS
<1>1. CASE \E p \in Pids, n \in Fds : fds[p][n].kind = "file" /\ fds[p][n].obj = d
  <2> PICK p \in Pids, n \in Fds : fds[p][n].kind = "file" /\ fds[p][n].obj = d BY <1>1
  <2>1. fds'[p][n].kind = "file" /\ fds'[p][n].obj = d BY DEF NothingDropped, Retains
  <2>2. fds'[p][n] \in LiveEntries' BY DEF LiveEntries, Entries
  <2> QED BY <2>1, <2>2 DEF Held, DescribedBy
<1>2. CASE \E e \in InFlight : e.kind = "file" /\ e.obj = d
  <2> PICK e \in InFlight : e.kind = "file" /\ e.obj = d BY <1>2
  <2>1. e \in LiveEntries' BY DEF NothingDropped, LiveEntries
  <2> QED BY <2>1 DEF Held, DescribedBy
<1>3. CASE \E p \in Pids, s \in Slots : pending[p][s].op = "flock" /\ pending[p][s].obj = d
  <2> PICK p \in Pids, s \in Slots : pending[p][s].op = "flock" /\ pending[p][s].obj = d
    BY <1>3
  <2>1. pending'[p][s].op = "flock" /\ pending'[p][s].obj = d BY DEF NothingDropped
  <2> QED BY <2>1 DEF Held, WaitingDescriptions
<1> QED BY <1>1, <1>2, <1>3, HeldBy

LEMMA SteadyStep ==
    ASSUME DescriptionsOpen, EntriesMove, PendingMoves, NothingDropped, FlocksGood(flocks'),
           descr' = descr
    PROVE  DescriptionsOpen' /\ FlocksHeld'
<1>1. ASSUME NEW e \in LiveEntries' PROVE IsEntry(e) /\ Referring(e)'
  BY NewReferences DEF Referring
<1>2. ASSUME NEW p \in Pids, NEW s \in Slots PROVE Wanting(pending[p][s])'
  BY NewReferences DEF Wanting
<1>3. Table(fds', Pids) /\ \A p \in Pids : Table(fds'[p], Fds)
  BY DEF EntriesMove, TablesMove, FlightMoves, Copies
<1>4. DescriptionsOpen' BY <1>1, <1>2, <1>3 DEF DescriptionsOpen, IsEntry, EntriesMove, QueueMoves
<1>5. FlocksHeld' BY HeldStays DEF FlocksGood, FlocksHeld, FlockOwners
<1> QED BY <1>4, <1>5

LEMMA FlocksAreGood ==
    ASSUME FlocksHeld
    PROVE  FlocksGood(flocks)
BY DEF FlocksHeld, FlocksGood

-----------------------------------------------------------------------------
(***************************************************************************)
(* Streams: what a read leaves of the records of a stream, and what it     *)
(* hands over.                                                             *)
(***************************************************************************)
LEMMA ElementsOf ==
    ASSUME NEW T, NEW q \in Seq(T)
    PROVE  /\ q \in Seq(SeqSet(q)) /\ SeqSet(q) \subseteq T
           /\ Len(q) \in Nat /\ DOMAIN q = 1 .. Len(q)
<1>1. Len(q) \in Nat /\ DOMAIN q = 1 .. Len(q) /\ \A i \in 1 .. Len(q) : q[i] \in T
  OBVIOUS
<1>2. SeqSet(q) \subseteq T BY <1>1 DEF SeqSet
<1>3. \A i \in 1 .. Len(q) : q[i] \in SeqSet(q) BY <1>1 DEF SeqSet
<1>4. q \in Seq(SeqSet(q))
  <2> DEFINE S == SeqSet(q)
  <2>1. q = [i \in 1 .. Len(q) |-> q[i]] OBVIOUS
  <2>2. \A i \in 1 .. Len(q) : q[i] \in S BY <1>3
  <2> HIDE DEF S
  <2>3. q \in [1 .. Len(q) -> S] BY <2>1, <2>2
  <2>4. q \in Seq(S) BY <1>1, <2>3
  <2> QED BY <2>4 DEF S
<1> QED BY <1>1, <1>2, <1>4

LEMMA FromIsEnd ==
    ASSUME NEW T, NEW q \in Seq(T), NEW i \in 1 .. Len(q) + 1
    PROVE  /\ From(q, i) \in Seq(T) /\ Len(From(q, i)) = Len(q) + 1 - i
           /\ \A j \in 1 .. Len(q) + 1 - i : From(q, i)[j] = q[i + j - 1]
           /\ SeqSet(From(q, i)) \subseteq SeqSet(q)
<1>0. Len(q) \in Nat /\ DOMAIN q = 1 .. Len(q) OBVIOUS
<1> DEFINE e == From(q, i)
<1>1. e \in Seq(T) /\ Len(e) = Len(q) + 1 - i
  BY <1>0 DEF From
<1>2. \A j \in 1 .. Len(q) + 1 - i : e[j] = q[i + j - 1]
  BY <1>0 DEF From
<1> HIDE DEF e
<1>3. ASSUME NEW x \in SeqSet(e) PROVE x \in SeqSet(q)
  <2> PICK j \in DOMAIN e : x = e[j] BY DEF SeqSet
  <2>1. j \in 1 .. Len(q) + 1 - i BY <1>1
  <2>2. x = q[i + j - 1] /\ i + j - 1 \in DOMAIN q BY <1>0, <1>2, <2>1
  <2> QED BY <2>2 DEF SeqSet
<1> QED BY <1>1, <1>2, <1>3 DEF e

\* The records below a bound, counted from the front, end where one is not.
LEMMA LeadingIs ==
    ASSUME NEW T, NEW q \in Seq(T), NEW bound
    PROVE  /\ Leading(q, bound) \in 0 .. Len(q)
           /\ \A j \in 1 .. Leading(q, bound) : q[j].offset < bound
           /\ Leading(q, bound) < Len(q) => ~(q[Leading(q, bound) + 1].offset < bound)
<1> DEFINE N == Len(q)
           S == {i \in DOMAIN q : \A j \in 1 .. i : q[j].offset < bound}
           Out == (1 .. N + 1) \ S
<1>0. N \in Nat /\ DOMAIN q = 1 .. N OBVIOUS
<1>1. N + 1 \in Out /\ Out \in SUBSET Nat BY <1>0
<1>2. PICK m \in Out : \A n \in Out : m <= n
  <2> HIDE DEF Out
  <2> QED BY <1>1, LeastNatural
<1>3. m \in 1 .. N + 1 /\ m \notin S BY <1>0
<1>4. \A i \in 1 .. m - 1 : i \in S
  <2> SUFFICES ASSUME NEW i \in 1 .. m - 1, i \notin S PROVE FALSE OBVIOUS
  <2>1. i \in Out /\ i < m BY <1>0, <1>3
  <2> QED BY <1>0, <1>2, <1>3, <2>1
<1>5. ASSUME NEW i \in S PROVE i \in 1 .. m - 1
  <2> SUFFICES ASSUME ~(i < m) PROVE FALSE BY <1>0, <1>3
  <2>1. m \in 1 .. i /\ i \in 1 .. N /\ \A j \in 1 .. i : q[j].offset < bound
    BY <1>0, <1>3
  <2>2. \A j \in 1 .. m : q[j].offset < bound BY <2>1
  <2>3. m \in 1 .. N BY <2>1
  <2> QED BY <1>0, <1>3, <2>2, <2>3
<1>6. S = 1 .. m - 1 BY <1>4, <1>5
<1>7. Cardinality(S) = m - 1
  <2>1. 1 \in Int /\ m - 1 \in Int BY <1>0, <1>3
  <2>2. Cardinality(1 .. m - 1) = IF 1 > m - 1 THEN 0 ELSE m - 1 - 1 + 1
    BY <2>1, FS_Interval
  <2>3. Cardinality(1 .. m - 1) = m - 1 BY <1>0, <1>3, <2>2
  <2> HIDE DEF S
  <2> QED BY <1>6, <2>3
<1>8. Leading(q, bound) = m - 1 BY <1>7 DEF Leading
<1>9. \A j \in 1 .. m - 1 : q[j].offset < bound
  <2> SUFFICES ASSUME NEW j \in 1 .. m - 1 PROVE q[j].offset < bound OBVIOUS
  <2>1. j \in S BY <1>4
  <2> QED BY <1>0, <1>3, <2>1
<1>10. m <= N => ~(q[m].offset < bound)
  <2> SUFFICES ASSUME m <= N, q[m].offset < bound PROVE FALSE OBVIOUS
  <2>1. \A j \in 1 .. m : j = m \/ j \in 1 .. m - 1 BY <1>0, <1>3
  <2>2. \A j \in 1 .. m : q[j].offset < bound BY <1>9, <2>1
  <2>3. m \in DOMAIN q BY <1>0, <1>3
  <2> QED BY <1>3, <2>2, <2>3
<1> HIDE DEF S, Out
<1> QED BY <1>0, <1>3, <1>8, <1>9, <1>10

LEMMA FlattenedIn ==
    ASSUME NEW T, NEW seqs \in Seq(Seq(T))
    PROVE  FlattenSeq(seqs) \in Seq(T)
<1> DEFINE N == Len(seqs)
<1>1. N \in Nat /\ DOMAIN seqs = 1 .. N /\ \A i \in 1 .. N : seqs[i] \in Seq(T)
  OBVIOUS
<1>2. CASE N = 0
  <2>1. FlattenSeq(seqs) = seqs BY <1>2 DEF FlattenSeq
  <2>2. seqs = << >> BY <1>2
  <2>3. << >> \in Seq(T) OBVIOUS
  <2> QED BY <2>1, <2>2, <2>3
<1>3. CASE N # 0
  <2> DEFINE Next1(f, n) == IF n = 1 THEN seqs[n] ELSE f[n - 1] \o seqs[n]
             Builds(f, n) == /\ f = [k \in 1 .. n |-> f[k]]
                             /\ \A k \in 1 .. n : f[k] = Next1(f, k)
             Has(n) == \E f : Builds(f, n)
  <2>1. \A n \in Nat : Has(n)
    <3> DEFINE Bad == {n \in Nat : ~Has(n)}
    <3> SUFFICES ASSUME Bad # {} PROVE FALSE OBVIOUS
    <3>1. PICK m \in Bad : \A n \in Bad : m <= n
      <4> HIDE DEF Has
      <4> QED BY LeastNatural
    <3>2. CASE m = 0
      <4>1. Builds([k \in 1 .. 0 |-> << >>], 0) OBVIOUS
      <4> QED BY <3>1, <3>2, <4>1
    <3>3. CASE m # 0
      <4>1. m - 1 \in Nat /\ m \in Nat BY <3>3
      <4>2. m - 1 \notin Bad
        <5> HIDE DEF Bad
        <5> QED BY <3>1, <4>1
      <4>3. PICK g : Builds(g, m - 1) BY <4>1, <4>2
      <4> DEFINE h == [k \in 1 .. m |-> IF k = m THEN Next1(g, m) ELSE g[k]]
      <4>4. h = [k \in 1 .. m |-> h[k]] OBVIOUS
      <4>5. ASSUME NEW k \in 1 .. m PROVE h[k] = Next1(h, k)
        <5>1. k # 1 => h[k - 1] = g[k - 1] BY <4>1
        <5>2. CASE k = m BY <4>1, <5>1, <5>2
        <5>3. CASE k # m
          <6>1. k \in 1 .. m - 1 BY <4>1, <5>3
          <6>2. g[k] = Next1(g, k) BY <4>3, <6>1
          <6>3. h[k] = g[k] BY <4>1, <5>3
          <6> HIDE DEF h
          <6> QED BY <5>1, <6>2, <6>3
        <5> QED BY <5>2, <5>3
      <4>6. Builds(h, m)
        <5> HIDE DEF h
        <5> QED BY <4>4, <4>5
      <4> QED BY <3>1, <4>6
    <3> QED BY <3>2, <3>3
  <2> DEFINE flatten[i \in 1 .. N] == IF i = 1 THEN seqs[i] ELSE flatten[i - 1] \o seqs[i]
  <2>2. flatten = [i \in 1 .. N |-> IF i = 1 THEN seqs[i] ELSE flatten[i - 1] \o seqs[i]]
    <3>1. PICK f : Builds(f, N) BY <1>1, <2>1
    <3>2. f = [i \in 1 .. N |-> IF i = 1 THEN seqs[i] ELSE f[i - 1] \o seqs[i]]
      BY <3>1
    <3> QED BY <3>2
  <2>3. FlattenSeq(seqs) = flatten[N] BY <1>3 DEF FlattenSeq
  <2> HIDE DEF flatten
  <2>4. \A n \in 1 .. N : flatten[n] \in Seq(T)
    <3> DEFINE Bad == {n \in 1 .. N : flatten[n] \notin Seq(T)}
    <3> SUFFICES ASSUME Bad # {} PROVE FALSE OBVIOUS
    <3>1. Bad \in SUBSET Nat BY <1>1
    <3>2. PICK m \in Bad : \A n \in Bad : m <= n
      <4> HIDE DEF Bad
      <4> QED BY <3>1, LeastNatural
    <3>3. m \in 1 .. N /\ flatten[m] \notin Seq(T) OBVIOUS
    <3>4. m # 1 BY <1>1, <2>2, <3>3
    <3>5. m - 1 \in 1 .. N /\ m - 1 \notin Bad
      <4>1. m - 1 \in 1 .. N /\ ~(m <= m - 1) BY <1>1, <3>3, <3>4
      <4> HIDE DEF Bad
      <4> QED BY <3>2, <4>1
    <3>6. flatten[m - 1] \in Seq(T) BY <3>5
    <3>7. flatten[m] = flatten[m - 1] \o seqs[m] BY <2>2, <3>3, <3>4
    <3>8. seqs[m] \in Seq(T) BY <1>1, <3>3
    <3> QED BY <3>3, <3>6, <3>7, <3>8
  <2>5. N \in 1 .. N BY <1>1, <1>3
  <2> QED BY <2>3, <2>4, <2>5
<1> QED BY <1>2, <1>3

LEMMA CarryingLess ==
    ASSUME NEW t, NEW u, SeqSet(u.anc) \subseteq SeqSet(t.anc)
    PROVE  Carrying(u) \subseteq Carrying(t)
BY DEF Carrying

LEMMA GoodStreamFacts ==
    ASSUME NEW t, GoodStream(t)
    PROVE  /\ t.len \in Nat /\ t.offset \in Nat /\ t.taken \in Nat
           /\ t.anc \in Seq(SeqSet(t.anc)) /\ Len(t.anc) \in Nat
           /\ DOMAIN t.anc = 1 .. Len(t.anc)
           /\ \A i \in 1 .. Len(t.anc) : t.anc[i] \in SeqSet(t.anc) /\ GoodRecord(t.anc[i])
           /\ \A i \in 1 .. Len(t.anc) : t.anc[i].offset \in Nat /\ t.anc[i].byte \in Nat
<1>1. /\ t.len \in Nat /\ t.offset \in Nat /\ t.taken \in Nat
      /\ t.anc \in Seq(SeqSet(t.anc)) /\ \A r \in SeqSet(t.anc) : GoodRecord(r)
  BY DEF GoodStream
<1>2. Len(t.anc) \in Nat /\ DOMAIN t.anc = 1 .. Len(t.anc) BY <1>1, ElementsOf
<1>3. \A i \in 1 .. Len(t.anc) : t.anc[i] \in SeqSet(t.anc) BY <1>2 DEF SeqSet
<1>4. \A r : GoodRecord(r) => r.offset \in Nat /\ r.byte \in Nat BY DEF GoodRecord
<1> QED BY <1>1, <1>2, <1>3, <1>4

\* A stream whose records are some of those it had.
LEMMA GoodStreamMade ==
    ASSUME NEW t, GoodStream(t), NEW u, NEW T,
           u \in [len : Nat, offset : Nat, taken : Nat, anc : Seq(T)],
           SeqSet(u.anc) \subseteq SeqSet(t.anc)
    PROVE  GoodStream(u)
<1>1. u.anc \in Seq(SeqSet(u.anc)) BY ElementsOf
<1>2. u \in [len : Nat, offset : Nat, taken : Nat, anc : Seq(SeqSet(u.anc))] BY <1>1
<1> QED BY <1>2 DEF GoodStream

LEMMA TakenIs ==
    ASSUME NEW t, GoodStream(t), NEW count \in Nat
    PROVE  Taken(count, t) \in 0 .. t.len
BY GoodStreamFacts DEF Taken

LEMMA ByteReadKeeps ==
    ASSUME NEW t, GoodStream(t), NEW count \in Nat
    PROVE  /\ GoodStream(ByteRead(t, count))
           /\ SeqSet(ByteRead(t, count).anc) \subseteq SeqSet(t.anc)
           /\ Bound(t) => Bound(ByteRead(t, count))
<1> DEFINE k == Taken(count, t)
           b == t.offset + k
           l == Leading(t.anc, b)
           e == From(t.anc, l + 1)
           u == ByteRead(t, count)
           T == SeqSet(t.anc)
<1>0. /\ t.len \in Nat /\ t.offset \in Nat /\ t.taken \in Nat /\ t.anc \in Seq(T)
      /\ Len(t.anc) \in Nat /\ DOMAIN t.anc = 1 .. Len(t.anc)
      /\ \A i \in 1 .. Len(t.anc) : t.anc[i].offset \in Nat /\ t.anc[i].byte \in Nat
      /\ t \in [len : Nat, offset : Nat, taken : Nat, anc : Seq(T)]
  BY GoodStreamFacts DEF GoodStream
<1>1. k \in Nat /\ k <= t.len BY <1>0, TakenIs
<1>2. u = [t EXCEPT !.len = t.len - k, !.offset = t.offset + k, !.taken = t.taken + k, !.anc = e]
  BY DEF ByteRead
<1>3. /\ l \in 0 .. Len(t.anc)
      /\ \A j \in 1 .. l : t.anc[j].offset < b
      /\ l < Len(t.anc) => ~(t.anc[l + 1].offset < b)
  BY <1>0, LeadingIs
<1>4. /\ e \in Seq(T) /\ Len(e) = Len(t.anc) - l
      /\ \A j \in 1 .. Len(t.anc) - l : e[j] = t.anc[l + j]
      /\ SeqSet(e) \subseteq T
  <2>1. l + 1 \in 1 .. Len(t.anc) + 1 BY <1>0, <1>3
  <2>2. /\ e \in Seq(T) /\ Len(e) = Len(t.anc) + 1 - (l + 1)
        /\ \A j \in 1 .. Len(t.anc) + 1 - (l + 1) : e[j] = t.anc[(l + 1) + j - 1]
        /\ SeqSet(e) \subseteq T
    BY <1>0, <2>1, FromIsEnd
  <2>3. l \in Nat /\ Len(t.anc) + 1 - (l + 1) = Len(t.anc) - l BY <1>0, <1>3
  <2>4. \A j \in 1 .. Len(t.anc) - l : (l + 1) + j - 1 = l + j BY <1>0, <2>3
  <2> HIDE DEF e, l
  <2> QED BY <2>2, <2>3, <2>4
<1> HIDE DEF k, l, e, u
<1>5. /\ u.len = t.len - k /\ u.offset = t.offset + k /\ u.taken = t.taken + k /\ u.anc = e
      /\ u \in [len : Nat, offset : Nat, taken : Nat, anc : Seq(T)]
  <2>1. t.len - k \in Nat /\ t.offset + k \in Nat /\ t.taken + k \in Nat BY <1>0, <1>1
  <2>2. e \in Seq(T) BY <1>4
  <2> HIDE DEF T
  <2> QED BY <1>0, <1>2, <2>1, <2>2
<1>6. GoodStream(u) /\ SeqSet(u.anc) \subseteq T BY <1>4, <1>5, GoodStreamMade
<1>7. ASSUME Bound(t) PROVE Bound(u)
  <2>1. DOMAIN u.anc = 1 .. Len(t.anc) - l BY <1>4, <1>5
  <2>2. /\ t.offset = t.taken
        /\ \A i \in 1 .. Len(t.anc) :
              /\ t.anc[i].offset = t.anc[i].byte
              /\ t.anc[i].byte >= t.taken /\ t.anc[i].byte <= t.taken + t.len - 1
              /\ i > 1 => t.anc[i - 1].byte < t.anc[i].byte
    BY <1>0, <1>7 DEF Bound, Total
  <2>3. Total(u) = t.taken + t.len BY <1>0, <1>1, <1>5 DEF Total
  <2>4. \A i \in 1 .. Len(t.anc) : i > l => t.anc[i].byte >= b
    <3> DEFINE Bad == {i \in 1 .. Len(t.anc) : i > l /\ ~(t.anc[i].byte >= b)}
    <3> SUFFICES ASSUME Bad # {} PROVE FALSE OBVIOUS
    <3>1. Bad \in SUBSET Nat BY <1>0
    <3>2. PICK m \in Bad : \A n \in Bad : m <= n
      <4> HIDE DEF Bad
      <4> QED BY <3>1, LeastNatural
    <3>3. m \in 1 .. Len(t.anc) /\ m > l /\ ~(t.anc[m].byte >= b) OBVIOUS
    <3>4. m # l + 1 BY <1>0, <1>1, <1>3, <2>2, <3>3
    <3>5. m - 1 \in 1 .. Len(t.anc) /\ m - 1 > l /\ ~(m <= m - 1) BY <1>0, <1>3, <3>3, <3>4
    <3>6. m - 1 \notin Bad
      <4> HIDE DEF Bad
      <4> QED BY <3>2, <3>5
    <3>7. t.anc[m - 1].byte >= b BY <3>5, <3>6
    <3>8. t.anc[m - 1].byte < t.anc[m].byte BY <1>0, <2>2, <3>3, <3>5
    <3>9. b \in Nat BY <1>0, <1>1
    <3> QED BY <1>0, <3>3, <3>5, <3>7, <3>8, <3>9
  <2>5. ASSUME NEW i \in 1 .. Len(t.anc) - l
        PROVE  /\ u.anc[i].offset = u.anc[i].byte
               /\ u.anc[i].byte \in u.taken .. Total(u) - 1
               /\ i > 1 => u.anc[i - 1].byte < u.anc[i].byte
    <3>1. l + i \in 1 .. Len(t.anc) /\ l + i > l BY <1>0, <1>3
    <3>2. u.anc[i] = t.anc[l + i] BY <1>4, <1>5
    <3>3. i > 1 => u.anc[i - 1] = t.anc[l + i - 1]
      <4> SUFFICES ASSUME i > 1 PROVE u.anc[i - 1] = t.anc[l + i - 1] OBVIOUS
      <4>1. i - 1 \in 1 .. Len(t.anc) - l /\ l + (i - 1) = l + i - 1 BY <1>0, <1>3
      <4> QED BY <1>4, <1>5, <4>1
    <3>4. t.anc[l + i].byte >= u.taken BY <1>5, <2>2, <2>4, <3>1
    <3>5. t.anc[l + i].byte \in Nat /\ u.taken \in Nat BY <1>0, <1>1, <1>5, <3>1
    <3>6. t.anc[l + i].byte \in u.taken .. Total(u) - 1
      BY <1>0, <2>2, <2>3, <3>1, <3>4, <3>5
    <3>7. i > 1 => t.anc[l + i - 1].byte < t.anc[l + i].byte
      BY <1>0, <1>3, <2>2, <3>1
    <3> QED BY <2>2, <3>1, <3>2, <3>3, <3>6, <3>7
  <2>6. u.offset = u.taken BY <1>5, <2>2
  <2> QED BY <2>1, <2>5, <2>6 DEF Bound
<1> QED BY <1>6, <1>7 DEF u

LEMMA FaultedReadKeeps ==
    ASSUME NEW t, GoodStream(t), NEW count \in Nat
    PROVE  /\ GoodStream(FaultedRead(t, count))
           /\ SeqSet(FaultedRead(t, count).anc) \subseteq SeqSet(t.anc)
<1> DEFINE k == Taken(count, t)
           T == SeqSet(t.anc)
           u == FaultedRead(t, count)
<1>0. /\ t.len \in Nat /\ t.taken \in Nat
      /\ t \in [len : Nat, offset : Nat, taken : Nat, anc : Seq(T)]
  BY GoodStreamFacts DEF GoodStream
<1>1. k \in Nat /\ k <= t.len
  <2>1. k \in 0 .. t.len BY TakenIs
  <2> HIDE DEF k, u, T
  <2> QED BY <1>0, <2>1
<1>2. u = [t EXCEPT !.len = t.len - k, !.taken = t.taken + k] BY DEF FaultedRead
<1> HIDE DEF k, u
<1>3. u \in [len : Nat, offset : Nat, taken : Nat, anc : Seq(T)] /\ u.anc = t.anc
  <2>1. t.len - k \in Nat /\ t.taken + k \in Nat BY <1>0, <1>1
  <2> HIDE DEF T
  <2> QED BY <1>0, <1>2, <2>1
<1>4. GoodStream(u) BY <1>3, GoodStreamMade
<1> QED BY <1>3, <1>4 DEF u

\* shutdown for reading.
LEMMA DrainedKeeps ==
    ASSUME NEW t, GoodStream(t)
    PROVE  /\ GoodStream([t EXCEPT !.len = 0, !.taken = Total(t)])
           /\ SeqSet([t EXCEPT !.len = 0, !.taken = Total(t)].anc) \subseteq SeqSet(t.anc)
<1> DEFINE T == SeqSet(t.anc)
           u == [t EXCEPT !.len = 0, !.taken = Total(t)]
<1>0. /\ t.len \in Nat /\ t.taken \in Nat
      /\ t \in [len : Nat, offset : Nat, taken : Nat, anc : Seq(T)]
  BY GoodStreamFacts DEF GoodStream
<1>1. Total(t) \in Nat BY <1>0 DEF Total
<1>3. u \in [len : Nat, offset : Nat, taken : Nat, anc : Seq(T)] /\ u.anc = t.anc
  <2> HIDE DEF T
  <2> QED BY <1>0, <1>1
<1> HIDE DEF u
<1>4. GoodStream(u) BY <1>3, GoodStreamMade
<1> QED BY <1>3, <1>4 DEF u

\* What is sent is bound to the next byte; a message takes at least one.
LEMMA SentKeeps ==
    ASSUME NEW t, GoodStream(t), NEW count \in Nat \ {0}, NEW S, NEW entries \in Seq(S)
    PROVE  /\ GoodStream(Sent(t, count, entries))
           /\ Carrying(t) \subseteq Carrying(Sent(t, count, entries))
           /\ Carrying(Sent(t, count, entries)) \subseteq Carrying(t) \cup SeqSet(entries)
           /\ Bound(t) => Bound(Sent(t, count, entries))
<1> DEFINE T == SeqSet(t.anc)
           u == Sent(t, count, entries)
           n == Len(t.anc)
           r == [offset |-> t.offset + t.len, byte |-> Total(t), entries |-> entries]
           a == IF entries = <<>> THEN t.anc ELSE Append(t.anc, r)
           R == T \cup {r}
<1>0. /\ t.len \in Nat /\ t.offset \in Nat /\ t.taken \in Nat /\ t.anc \in Seq(T)
      /\ n \in Nat /\ DOMAIN t.anc = 1 .. n
      /\ \A i \in 1 .. n : t.anc[i].offset \in Nat /\ t.anc[i].byte \in Nat
      /\ t \in [len : Nat, offset : Nat, taken : Nat, anc : Seq(T)]
      /\ \A x \in T : GoodRecord(x)
  BY GoodStreamFacts DEF GoodStream
<1>1. Total(t) = t.taken + t.len /\ Total(t) \in Nat BY <1>0 DEF Total
<1>2. GoodRecord(r) /\ r.offset = t.offset + t.len /\ r.byte = Total(t) /\ r.entries = entries
  <2>1. entries \in Seq(SeqSet(entries)) BY ElementsOf
  <2>2. t.offset + t.len \in Nat BY <1>0
  <2>3. r.offset = t.offset + t.len /\ r.byte = Total(t) /\ r.entries = entries OBVIOUS
  <2>4. r \in [offset : Nat, byte : Nat, entries : Seq(SeqSet(entries))] BY <1>1, <2>1, <2>2
  <2> HIDE DEF r
  <2> QED BY <2>3, <2>4 DEF GoodRecord
<1>3. u = [t EXCEPT !.len = t.len + count, !.anc = a] BY DEF Sent
<1> HIDE DEF r
<1>4. a \in Seq(R) /\ SeqSet(a) \subseteq R /\ T \subseteq SeqSet(a)
      /\ (entries = <<>> => a = t.anc)
      /\ (entries # <<>> => /\ DOMAIN a = 1 .. n + 1 /\ a[n + 1] = r
                            /\ \A i \in 1 .. n : a[i] = t.anc[i])
  <2>1. CASE entries = <<>>
    <3>1. a = t.anc BY <2>1
    <3>2. t.anc \in Seq(R)
      <4>1. t.anc \in Seq(T) /\ T \subseteq R BY <1>0
      <4> HIDE DEF T, R
      <4> QED BY <4>1
    <3> QED BY <2>1, <3>1, <3>2
  <2>2. CASE entries # <<>>
    <3>1. a = Append(t.anc, r) BY <2>2
    <3>2. t.anc \in Seq(R) /\ r \in R
      <4>1. t.anc \in Seq(T) /\ T \subseteq R /\ r \in R BY <1>0
      <4> HIDE DEF T, R
      <4> QED BY <4>1
    <3>3. a \in Seq(R) /\ Len(a) = n + 1 /\ a[n + 1] = r /\ \A i \in 1 .. n : a[i] = t.anc[i]
      <4> HIDE DEF T, R, a
      <4> QED BY <1>0, <3>1, <3>2
    <3>4. DOMAIN a = 1 .. n + 1 /\ SeqSet(a) \subseteq R
      <4> HIDE DEF R, a
      <4> QED BY <3>3, ElementsOf
    <3>5. T \subseteq SeqSet(a)
      <4> SUFFICES ASSUME NEW x \in T PROVE x \in SeqSet(a) OBVIOUS
      <4>1. PICK i \in 1 .. n : x = t.anc[i] BY <1>0 DEF SeqSet
      <4>2. i \in DOMAIN a /\ a[i] = x BY <1>0, <3>3, <3>4, <4>1
      <4> HIDE DEF a
      <4> QED BY <4>2 DEF SeqSet
    <3> HIDE DEF a
    <3> QED BY <2>2, <3>3, <3>4, <3>5
  <2> QED BY <2>1, <2>2
<1> HIDE DEF a, u, R
<1>5. /\ u.len = t.len + count /\ u.offset = t.offset /\ u.taken = t.taken /\ u.anc = a
      /\ u \in [len : Nat, offset : Nat, taken : Nat, anc : Seq(R)]
  <2>1. t.len + count \in Nat BY <1>0
  <2> HIDE DEF T
  <2> QED BY <1>0, <1>3, <1>4, <2>1
<1>6. GoodStream(u)
  <2>1. a \in Seq(SeqSet(a)) BY <1>4, ElementsOf
  <2>2. u \in [len : Nat, offset : Nat, taken : Nat, anc : Seq(SeqSet(u.anc))]
    BY <1>5, <2>1
  <2>3. \A x \in SeqSet(u.anc) : GoodRecord(x) BY <1>0, <1>2, <1>4, <1>5 DEF R
  <2> QED BY <2>2, <2>3 DEF GoodStream
<1>7. Carrying(t) \subseteq Carrying(u) BY <1>4, <1>5 DEF Carrying
<1>8. Carrying(u) \subseteq Carrying(t) \cup SeqSet(entries)
  BY <1>2, <1>4, <1>5 DEF Carrying, R
<1>9. ASSUME Bound(t) PROVE Bound(u)
  <2>1. /\ t.offset = t.taken
        /\ \A i \in 1 .. n :
              /\ t.anc[i].offset = t.anc[i].byte
              /\ t.anc[i].byte >= t.taken /\ t.anc[i].byte <= t.taken + t.len - 1
              /\ i > 1 => t.anc[i - 1].byte < t.anc[i].byte
    <3>1. t.offset = t.taken BY <1>9 DEF Bound
    <3>2. ASSUME NEW i \in 1 .. n
          PROVE  /\ t.anc[i].offset = t.anc[i].byte
                 /\ t.anc[i].byte >= t.taken /\ t.anc[i].byte <= t.taken + t.len - 1
                 /\ i > 1 => t.anc[i - 1].byte < t.anc[i].byte
      <4> DEFINE x == t.anc[i].byte
                 top == Total(t)
      <4>1. i \in DOMAIN t.anc BY <1>0
      <4>2. /\ t.anc[i].offset = x /\ x \in t.taken .. top - 1
            /\ i > 1 => t.anc[i - 1].byte < x
        BY <1>9, <4>1 DEF Bound
      <4>3. top = t.taken + t.len /\ t.taken \in Nat /\ t.len \in Nat BY <1>0, <1>1
      <4> HIDE DEF x, top
      <4>4. x >= t.taken /\ x <= t.taken + t.len - 1 BY <4>2, <4>3
      <4> QED BY <4>2, <4>4 DEF x
    <3> QED BY <3>1, <3>2
  <2>2. Total(u) = t.taken + t.len + count BY <1>0, <1>5 DEF Total
  <2>3. CASE entries = <<>>
    <3>1. u.anc = t.anc BY <1>4, <1>5, <2>3
    <3> QED BY <1>0, <1>5, <2>1, <2>2, <3>1 DEF Bound
  <2>4. CASE entries # <<>>
    <3>1. DOMAIN u.anc = 1 .. n + 1 /\ u.anc[n + 1] = r /\ \A i \in 1 .. n : u.anc[i] = t.anc[i]
      BY <1>4, <1>5, <2>4
    <3>2. ASSUME NEW i \in 1 .. n + 1
          PROVE  /\ u.anc[i].offset = u.anc[i].byte
                 /\ u.anc[i].byte \in u.taken .. Total(u) - 1
                 /\ i > 1 => u.anc[i - 1].byte < u.anc[i].byte
      <4>1. CASE i = n + 1
        <5>1. u.anc[i].offset = u.anc[i].byte /\ u.anc[i].byte = t.taken + t.len
          BY <1>0, <1>1, <1>2, <2>1, <3>1, <4>1
        <5>2. i > 1 => u.anc[i - 1].byte < u.anc[i].byte
          <6> SUFFICES ASSUME i > 1 PROVE u.anc[i - 1].byte < u.anc[i].byte OBVIOUS
          <6>1. i - 1 = n /\ n \in 1 .. n BY <1>0, <4>1
          <6>2. u.anc[i - 1] = t.anc[n] BY <3>1, <6>1
          <6> QED BY <1>0, <2>1, <5>1, <6>1, <6>2
        <5> QED BY <1>0, <1>5, <2>2, <5>1, <5>2
      <4>2. CASE i # n + 1
        <5>1. i \in 1 .. n /\ (i > 1 => i - 1 \in 1 .. n) BY <1>0, <4>2
        <5>2. u.anc[i] = t.anc[i] /\ (i > 1 => u.anc[i - 1] = t.anc[i - 1]) BY <3>1, <5>1
        <5>3. t.anc[i].byte \in u.taken .. Total(u) - 1
          <6> DEFINE x == t.anc[i].byte
          <6>1. x \in Nat /\ x >= t.taken /\ x <= t.taken + t.len - 1 BY <1>0, <2>1, <5>1
          <6>2. t.taken \in Nat /\ t.len \in Nat /\ u.taken = t.taken BY <1>0, <1>5
          <6> HIDE DEF x
          <6>3. x \in u.taken .. Total(u) - 1 BY <2>2, <6>1, <6>2
          <6> QED BY <6>3 DEF x
        <5> QED BY <2>1, <5>1, <5>2, <5>3
      <4> QED BY <4>1, <4>2
    <3>3. u.offset = u.taken BY <1>5, <2>1
    <3> QED BY <3>1, <3>2, <3>3 DEF Bound
  <2> QED BY <2>3, <2>4
<1> QED BY <1>6, <1>7, <1>8, <1>9 DEF u

\* What a recvmsg hands over was in flight.
LEMMA RightsReadIn ==
    ASSUME NEW t, GoodStream(t), NEW count \in Nat
    PROVE  RightsRead(t, count) \in Seq(Carrying(t))
<1> DEFINE stale == Leading(t.anc, t.offset)
           upto  == Leading(t.anc, t.offset + Taken(count, t))
           parts == [i \in 1 .. upto - stale |-> t.anc[stale + i].entries]
           C == Carrying(t)
<1>1. /\ t.anc \in Seq(SeqSet(t.anc)) /\ Len(t.anc) \in Nat /\ DOMAIN t.anc = 1 .. Len(t.anc)
      /\ \A i \in 1 .. Len(t.anc) : t.anc[i] \in SeqSet(t.anc) /\ GoodRecord(t.anc[i])
  BY GoodStreamFacts
<1>2. stale \in 0 .. Len(t.anc) /\ upto \in 0 .. Len(t.anc) BY <1>1, LeadingIs
<1>3. ASSUME NEW r \in SeqSet(t.anc), GoodRecord(r) PROVE r.entries \in Seq(C)
  <2>1. r.entries \in Seq(SeqSet(r.entries)) BY <1>3 DEF GoodRecord
  <2>2. SeqSet(r.entries) \subseteq C BY DEF Carrying
  <2> HIDE DEF C
  <2> QED BY <2>1, <2>2
<1> HIDE DEF stale, upto, C
<1>4. parts \in Seq(Seq(C))
  <2>1. CASE upto - stale \in Nat
    <3>1. \A i \in 1 .. upto - stale : stale + i \in 1 .. Len(t.anc) BY <1>1, <1>2
    <3>2. \A i \in 1 .. upto - stale : t.anc[stale + i].entries \in Seq(C)
      BY <1>1, <1>3, <3>1
    <3>3. parts \in [1 .. upto - stale -> Seq(C)] BY <3>2
    <3> HIDE DEF parts
    <3> QED BY <2>1, <3>3
  <2>2. CASE upto - stale \notin Nat
    <3>1. 1 .. upto - stale = 1 .. 0 BY <1>1, <1>2, <2>2
    <3>2. parts = << >> BY <3>1
    <3> HIDE DEF parts
    <3> QED BY <3>2
  <2> QED BY <2>1, <2>2
<1>5. FlattenSeq(parts) \in Seq(C)
  <2> HIDE DEF parts
  <2> QED BY <1>4, FlattenedIn
<1> QED BY <1>5 DEF RightsRead, parts, stale, upto, C

-----------------------------------------------------------------------------
(***************************************************************************)
(* How the entries, the messages and the continuations of a step follow    *)
(* from what it assigns.                                                   *)
(***************************************************************************)
LEMMA TablesStay ==
    ASSUME DescriptionsOpen, fds' = fds
    PROVE  TablesMove /\ \A q \in Pids : Retains(fds[q], fds'[q])
BY OwnCopies DEF TablesMove, DescriptionsOpen, Retains

LEMMA OneTableMoves ==
    ASSUME DescriptionsOpen, NEW p \in Pids, NEW T, fds' = [fds EXCEPT ![p] = T],
           Copies(T, LiveEntries)
    PROVE  /\ TablesMove
           /\ Retains(fds[p], T) => \A q \in Pids : Retains(fds[q], fds'[q])
<1>1. Table(fds, Pids) /\ \A q \in Pids : Copies(fds[q], LiveEntries)
  BY OwnCopies DEF DescriptionsOpen
<1>2. /\ Table(fds', Pids) /\ fds'[p] = T
      /\ \A q \in Pids : q # p => fds'[q] = fds[q]
  BY <1>1 DEF Table
<1>3. TablesMove BY <1>1, <1>2 DEF TablesMove
<1>4. ASSUME Retains(fds[p], T), NEW q \in Pids PROVE Retains(fds[q], fds'[q])
  BY <1>2, <1>4 DEF Retains
<1> QED BY <1>3, <1>4

LEMMA OneEntryMoves ==
    ASSUME DescriptionsOpen, NEW p \in Pids, NEW n \in Fds, NEW e,
           fds' = [fds EXCEPT ![p][n] = e], CopyOf(e, LiveEntries)
    PROVE  /\ TablesMove
           /\ (fds[p][n].kind = "file" => e.kind = "file" /\ e.obj = fds[p][n].obj) =>
                 \A q \in Pids : Retains(fds[q], fds'[q])
<1> DEFINE T == [fds[p] EXCEPT ![n] = e]
<1>1. fds' = [fds EXCEPT ![p] = T] OBVIOUS
<1>2. Copies(fds[p], LiveEntries) BY OwnCopies
<1>3. Table(T, Fds) /\ \A m \in Fds : T[m] = IF m = n THEN e ELSE fds[p][m]
  BY <1>2 DEF Copies, Table
<1> HIDE DEF T
<1>4. Copies(T, LiveEntries) BY <1>2, <1>3 DEF Copies
<1>5. (fds[p][n].kind = "file" => e.kind = "file" /\ e.obj = fds[p][n].obj) =>
         Retains(fds[p], T)
  BY <1>3 DEF Retains
<1> QED BY <1>1, <1>4, <1>5, OneTableMoves

LEMMA FlightIs ==
    /\ \A e : e \in InFlight <=> \E k \in Pairs, x \in Sides : e \in Carrying(stream[k][x])
    /\ \A e : e \in InFlight' <=> \E k \in Pairs, x \in Sides : e \in Carrying(stream'[k][x])
BY DEF InFlight

LEMMA FlightStays ==
    ASSUME DescriptionsOpen, stream' = stream
    PROVE  FlightMoves /\ InFlight \subseteq InFlight'
<1>1. InFlight' = InFlight BY DEF InFlight
<1> QED BY <1>1, OwnCopies, LiveEntry DEF FlightMoves

LEMMA QueuesMove ==
    ASSUME DescriptionsOpen, ListenersSettled \/ queue' = queue
    PROVE  QueueMoves
<1>1. queue \in [Listeners -> Seq(Endpoint)] BY DEF DescriptionsOpen
<1>2. << >> \in Seq(Endpoint) OBVIOUS
<1> QED BY <1>1, <1>2 DEF ListenersSettled, QueueMoves

LEMMA ThreadTablesAgree ==
    ASSUME ProcessesAgree
    PROVE  /\ ThreadTables
           /\ \A p \in Pids, s \in Slots : CanCall(p, s) => pending[p][s] = Idle
BY DEF ProcessesAgree, Tables, Agrees, Typed, ThreadTables, Emptied, CanCall, Live

LEMMA PendingStays ==
    ASSUME pending' = pending
    PROVE  /\ PendingMoves
           /\ \A q \in Pids, t \in Slots :
                 pending[q][t].op = "flock" => pending'[q][t] = pending[q][t]
BY DEF PendingMoves

LEMMA BlockedMoves ==
    ASSUME ProcessesAgree, NEW p \in Pids, NEW s \in Slots, CanCall(p, s), NEW c, Block(p, s, c)
    PROVE  /\ Wanting(c) => PendingMoves
           /\ \A q \in Pids, t \in Slots :
                 pending[q][t].op = "flock" => pending'[q][t] = pending[q][t]
<1>1. \A q \in Pids, t \in Slots :
         pending'[q][t] = IF q = p /\ t = s THEN c ELSE pending[q][t]
  BY ThreadTablesAgree DEF ThreadTables, Block, Table
<1>2. pending[p][s].op = "none" BY ThreadTablesAgree DEF Idle
<1> QED BY <1>1, <1>2 DEF PendingMoves

LEMMA WokenPending ==
    ASSUME ProcessesAgree, NEW p \in Pids, NEW s \in Slots, pending' = [pending EXCEPT ![p][s] = Idle]
    PROVE  /\ PendingMoves
           /\ \A q \in Pids, t \in Slots :
                 pending'[q][t] = IF q = p /\ t = s THEN Idle ELSE pending[q][t]
<1>1. \A q \in Pids, t \in Slots :
         pending'[q][t] = IF q = p /\ t = s THEN Idle ELSE pending[q][t]
  BY ThreadTablesAgree DEF ThreadTables, Table
<1>2. Wanting(Idle) BY DEF Wanting, Idle
<1> QED BY <1>1, <1>2 DEF PendingMoves

LEMMA IdlePending ==
    ASSUME ProcessesAgree, NEW p \in Pids,
           pending' = [pending EXCEPT ![p] = [s \in Slots |-> Idle]]
    PROVE  PendingMoves
<1>1. \A q \in Pids, t \in Slots :
         pending'[q][t] = IF q = p THEN Idle ELSE pending[q][t]
  BY ThreadTablesAgree DEF ThreadTables, Table
<1>2. Wanting(Idle) BY DEF Wanting, Idle
<1> QED BY <1>1, <1>2 DEF PendingMoves

-----------------------------------------------------------------------------
(***************************************************************************)
(* Steps of the streams.                                                   *)
(***************************************************************************)
LEMMA OneStream ==
    ASSUME StreamTypes, NEW k \in Pairs, NEW x \in Sides, NEW u,
           stream' = [stream EXCEPT ![k][x] = u]
    PROVE  /\ Table(stream', Pairs) /\ \A j \in Pairs : Table(stream'[j], Sides)
           /\ \A j \in Pairs, y \in Sides :
                 stream'[j][y] = IF j = k /\ y = x THEN u ELSE stream[j][y]
BY DEF StreamTypes, Table

LEMMA StreamTaken ==
    ASSUME StreamTypes, DescriptionsOpen, NEW k \in Pairs, NEW x \in Sides, NEW u,
           stream' = [stream EXCEPT ![k][x] = u], GoodStream(u),
           SeqSet(u.anc) \subseteq SeqSet(stream[k][x].anc)
    PROVE  /\ \A j \in Pairs, y \in Sides : GoodStream(stream'[j][y])
           /\ Table(stream', Pairs) /\ \A j \in Pairs : Table(stream'[j], Sides)
           /\ FlightMoves
<1>1. Carrying(u) \subseteq Carrying(stream[k][x]) BY CarryingLess
<1>2. InFlight' \subseteq InFlight BY <1>1, OneStream, FlightIs
<1>3. FlightMoves BY <1>2, OwnCopies, LiveEntry DEF FlightMoves
<1>4. \A j \in Pairs, y \in Sides : GoodStream(stream'[j][y]) BY OneStream DEF StreamTypes
<1> QED BY <1>3, <1>4, OneStream

LEMMA StreamBound ==
    ASSUME StreamTypes, NEW k \in Pairs, NEW x \in Sides, NEW u,
           stream' = [stream EXCEPT ![k][x] = u], shut' = shut, RightsBoundToBytes,
           Bound(stream[k][x]) => Bound(u)
    PROVE  RightsBoundToBytes'
<1>1. \A j \in Pairs, y \in Sides : ~shut[j][y].read => Bound(stream[j][y])
  BY DEF RightsBoundToBytes, Bound
<1>2. \A j \in Pairs, y \in Sides :
         stream'[j][y] = IF j = k /\ y = x THEN u ELSE stream[j][y]
  BY DEF StreamTypes, Table
<1>3. \A j \in Pairs, y \in Sides : ~shut'[j][y].read => Bound(stream'[j][y])
  BY <1>1, <1>2
<1> QED BY <1>3 DEF RightsBoundToBytes, Bound

LEMMA PairSides ==
    ASSUME DescriptionsOpen, NEW p \in Pids, NEW n \in Fds, Is(p, n, "pair")
    PROVE  Pair(p, n) \in Pairs /\ Side(p, n) \in Sides /\ 1 - Side(p, n) \in Sides
<1>1. fds[p][n].obj \in Endpoint BY LiveEntry DEF DescriptionsOpen, Referring, Placed, Is
<1> QED BY <1>1 DEF Endpoint, Pair, Side, Sides

LEMMA RecvMoves ==
    ASSUME StreamTypes, DescriptionsOpen, NEW p \in Pids, NEW n \in Fds, Is(p, n, "pair"),
           NEW count \in Nat, NEW how, RecvEffect(p, n, count, how)
    PROVE  /\ shut' = shut => StreamTypes'
           /\ FlightMoves /\ TablesMove
           /\ how # "fault" /\ shut' = shut /\ RightsBoundToBytes => RightsBoundToBytes'
<1> DEFINE k == Pair(p, n)
           x == Side(p, n)
           t == stream[k][x]
           u == IF how = "fault" THEN FaultedRead(t, count) ELSE ByteRead(t, count)
           T == Imported(fds[p], RightsRead(t, count))
<1>1. k \in Pairs /\ x \in Sides BY PairSides
<1>2. GoodStream(t) BY <1>1 DEF StreamTypes
<1>3. GoodStream(u) /\ SeqSet(u.anc) \subseteq SeqSet(t.anc)
      /\ (how # "fault" /\ Bound(t) => Bound(u))
  BY <1>2, ByteReadKeeps, FaultedReadKeeps
<1>4. stream' = [stream EXCEPT ![k][x] = u] BY DEF RecvEffect
<1>5. fds' = [fds EXCEPT ![p] = T] \/ fds' = fds BY DEF RecvEffect
<1>6. Copies(T, LiveEntries)
  <2>1. RightsRead(t, count) \in Seq(Carrying(t)) BY <1>2, RightsReadIn
  <2>2. \A e \in Carrying(t) : CopyOf(e, LiveEntries)
    BY <1>1, FlightIs, OwnCopies, LiveEntry
  <2>3. Copies(fds[p], LiveEntries) BY OwnCopies
  <2> DEFINE r == RightsRead(t, count)
             C == Carrying(t)
  <2>4. r \in Seq(C) /\ \A e \in C : CopyOf(e, LiveEntries) BY <2>1, <2>2
  <2> HIDE DEF r, C, t
  <2>5. \A i \in DOMAIN r : CopyOf(r[i], LiveEntries) BY <2>4
  <2>6. Copies(Imported(fds[p], r), LiveEntries) BY <2>3, <2>4, <2>5, ImportedCopies
  <2> QED BY <2>6 DEF r
<1> HIDE DEF k, x, t, u, T
<1>7. TablesMove BY <1>5, <1>6, OneTableMoves, TablesStay
<1>8. /\ FlightMoves /\ \A j \in Pairs, y \in Sides : GoodStream(stream'[j][y])
      /\ Table(stream', Pairs) /\ \A j \in Pairs : Table(stream'[j], Sides)
  BY <1>1, <1>3, <1>4, StreamTaken DEF t
<1>9. shut' = shut => StreamTypes' BY <1>8 DEF StreamTypes
<1>10. how # "fault" /\ shut' = shut /\ RightsBoundToBytes => RightsBoundToBytes'
  BY <1>1, <1>3, <1>4, StreamBound DEF t
<1> QED BY <1>7, <1>8, <1>9, <1>10

LEMMA SendMoves ==
    ASSUME StreamTypes, DescriptionsOpen, NEW p \in Pids, NEW s \in Slots, NEW n \in Fds,
           NEW passed \in Seq(Open(p)), send(p, s, n, 1, passed)
    PROVE  /\ StreamTypes' /\ FlightMoves /\ InFlight \subseteq InFlight'
           /\ RightsBoundToBytes => RightsBoundToBytes'
<1> DEFINE k == Pair(p, n)
           x == 1 - Side(p, n)
           t == stream[k][x]
           e == [i \in DOMAIN passed |-> Transfer(fds[p][passed[i]])]
           u == Sent(t, 1, e)
           C == {Transfer(fds[p][m]) : m \in Open(p)}
<1>0. Is(p, n, "pair") /\ shut' = shut /\ stream' = [stream EXCEPT ![k][x] = u] BY DEF send
<1>1. k \in Pairs /\ x \in Sides BY <1>0, PairSides
<1>2. GoodStream(t) BY <1>1 DEF StreamTypes
<1>3. e \in Seq(C) /\ \A c \in SeqSet(e) : CopyOf(c, LiveEntries)
  <2>1. \A m \in Open(p) : CopyOf(Transfer(fds[p][m]), LiveEntries)
    BY OwnCopies, DuplicateCopies DEF Copies, Open
  <2>2. DOMAIN passed = 1 .. Len(passed) /\ Len(passed) \in Nat
        /\ \A i \in 1 .. Len(passed) : passed[i] \in Open(p)
    OBVIOUS
  <2>3. \A i \in 1 .. Len(passed) : Transfer(fds[p][passed[i]]) \in C BY <2>2
  <2>4. e \in [1 .. Len(passed) -> C] BY <2>2, <2>3
  <2> HIDE DEF e
  <2>5. e \in Seq(C)
    <3> HIDE DEF C
    <3> QED BY <2>2, <2>4
  <2>6. SeqSet(e) \subseteq C
    <3> HIDE DEF C
    <3> QED BY <2>5, ElementsOf
  <2> QED BY <2>1, <2>5, <2>6
<1>4. 1 \in Nat \ {0} OBVIOUS
<1>5. /\ GoodStream(u) /\ Carrying(t) \subseteq Carrying(u)
      /\ Carrying(u) \subseteq Carrying(t) \cup SeqSet(e)
      /\ Bound(t) => Bound(u)
  <2> HIDE DEF e, C, t
  <2> QED BY <1>2, <1>3, <1>4, SentKeeps
<1> HIDE DEF k, x, e, u, C
<1>6. /\ Table(stream', Pairs) /\ \A j \in Pairs : Table(stream'[j], Sides)
      /\ \A j \in Pairs, y \in Sides :
            stream'[j][y] = IF j = k /\ y = x THEN u ELSE stream[j][y]
  BY <1>0, <1>1 DEF StreamTypes, Table
<1>7. StreamTypes'
  <2>1. \A j \in Pairs, y \in Sides : GoodStream(stream'[j][y])
    BY <1>5, <1>6 DEF StreamTypes
  <2> QED BY <1>0, <1>6, <2>1 DEF StreamTypes
<1>8. InFlight \subseteq InFlight' BY <1>5, <1>6, FlightIs
<1>9. FlightMoves
  <2>1. InFlight' \subseteq InFlight \cup SeqSet(e)
    <3> SUFFICES ASSUME NEW c \in InFlight' PROVE c \in InFlight \cup SeqSet(e) OBVIOUS
    <3> PICK j \in Pairs, y \in Sides : c \in Carrying(stream'[j][y]) BY FlightIs
    <3>1. c \in Carrying(stream[j][y]) \/ c \in SeqSet(e)
      BY <1>5, <1>6
    <3> QED BY <3>1, FlightIs
  <2> QED BY <1>3, <2>1, OwnCopies, LiveEntry DEF FlightMoves
<1>10. RightsBoundToBytes => RightsBoundToBytes'
  BY <1>0, <1>1, <1>5, StreamBound
<1> QED BY <1>7, <1>8, <1>9, <1>10

LEMMA ShutdownMoves ==
    ASSUME StreamTypes, DescriptionsOpen, NEW p \in Pids, NEW s \in Slots, NEW n \in Fds,
           NEW how \in {"read", "write", "both"}, shutdown(p, s, n, how)
    PROVE  StreamTypes' /\ FlightMoves /\ (RightsBoundToBytes => RightsBoundToBytes')
<1> DEFINE k == Pair(p, n)
           x == Side(p, n)
           t == stream[k][x]
           u == [t EXCEPT !.len = 0, !.taken = Total(t)]
           h == [read |-> shut[k][x].read \/ how \in {"read", "both"},
                 write |-> shut[k][x].write \/ how \in {"write", "both"}]
<1>1. k \in Pairs /\ x \in Sides BY PairSides DEF shutdown
<1>2. GoodStream(t) BY <1>1 DEF StreamTypes
<1>3. GoodStream(u) /\ SeqSet(u.anc) \subseteq SeqSet(t.anc) BY <1>2, DrainedKeeps
<1>4. /\ shut' = [shut EXCEPT ![k][x] = h]
      /\ IF how \in {"read", "both"} THEN stream' = [stream EXCEPT ![k][x] = u]
         ELSE stream' = stream
  BY DEF shutdown
<1>5. h \in [read : BOOLEAN, write : BOOLEAN] /\ h.read = (shut[k][x].read \/ how \in {"read", "both"})
  OBVIOUS
<1> HIDE DEF k, x, t, u, h
<1>6. /\ FlightMoves /\ \A j \in Pairs, y \in Sides : GoodStream(stream'[j][y])
      /\ Table(stream', Pairs) /\ \A j \in Pairs : Table(stream'[j], Sides)
  <2>1. CASE how \in {"read", "both"} BY <1>1, <1>3, <1>4, <2>1, StreamTaken DEF t
  <2>2. CASE how \notin {"read", "both"}
    BY <1>4, <2>2, FlightStays DEF StreamTypes
  <2> QED BY <2>1, <2>2
<1>7. /\ shut' \in [Pairs -> [Sides -> [read : BOOLEAN, write : BOOLEAN]]]
      /\ \A j \in Pairs, y \in Sides : shut'[j][y] = IF j = k /\ y = x THEN h ELSE shut[j][y]
  BY <1>1, <1>4, <1>5 DEF StreamTypes
<1>8. StreamTypes' BY <1>6, <1>7 DEF StreamTypes
<1>9. ASSUME RightsBoundToBytes PROVE RightsBoundToBytes'
  <2>1. \A j \in Pairs, y \in Sides : ~shut[j][y].read => Bound(stream[j][y])
    BY <1>9 DEF RightsBoundToBytes, Bound
  <2>2. \A j \in Pairs, y \in Sides : ~shut'[j][y].read =>
           stream'[j][y] = stream[j][y] /\ ~shut[j][y].read
    <3>1. CASE how \in {"read", "both"}
      <4>1. \A j \in Pairs, y \in Sides :
               stream'[j][y] = IF j = k /\ y = x THEN u ELSE stream[j][y]
        BY <1>1, <1>4, <3>1 DEF StreamTypes, Table
      <4> QED BY <1>5, <1>7, <3>1, <4>1
    <3>2. CASE how \notin {"read", "both"}
      <4>1. stream' = stream BY <1>4, <3>2
      <4> QED BY <1>5, <1>7, <4>1 DEF k, x
    <3> QED BY <3>1, <3>2
  <2>3. \A j \in Pairs, y \in Sides : ~shut'[j][y].read => Bound(stream'[j][y])
    BY <2>1, <2>2
  <2> QED BY <2>3 DEF RightsBoundToBytes, Bound
<1> QED BY <1>6, <1>8, <1>9

-----------------------------------------------------------------------------
(***************************************************************************)
(* The steps of the kernel keep every reference live.                      *)
(***************************************************************************)
ReferencesKept == DescriptionsOpen /\ FlocksHeld /\ StreamTypes

RightsKept ==
    StreamTypes' /\ (CopyoutFaults = FALSE /\ RightsBoundToBytes => RightsBoundToBytes')

\* A step that drops what nobody refers to any more.
LEMMA Settles ==
    ASSUME ReferencesKept, TablesMove, FlightMoves, QueueMoves, PendingMoves, FilesSettled,
           RightsKept
    PROVE  ReferencesKept'
<1>1. FlocksGood(flocks) BY FlocksAreGood DEF ReferencesKept
<1>2. DescriptionsOpen' /\ FlocksHeld'
  BY <1>1, SettledStep DEF ReferencesKept, EntriesMove, FilesSettled, DescriptionsSettled
<1> QED BY <1>2 DEF ReferencesKept, RightsKept

\* A step that drops no reference.
LEMMA StaysReferred ==
    ASSUME ReferencesKept, TablesMove, FlightMoves, QueueMoves, PendingMoves,
           \A q \in Pids : Retains(fds[q], fds'[q]), InFlight \subseteq InFlight',
           \A q \in Pids, t \in Slots : pending[q][t].op = "flock" => pending'[q][t] = pending[q][t],
           FlocksGood(flocks'), descr' = descr, RightsKept
    PROVE  ReferencesKept'
<1>1. NothingDropped BY DEF NothingDropped
<1>2. DescriptionsOpen' /\ FlocksHeld' BY <1>1, SteadyStep DEF ReferencesKept, EntriesMove
<1> QED BY <1>2 DEF ReferencesKept, RightsKept

LEMMA StreamsStay ==
    ASSUME StreamTypes, UNCHANGED <<stream, shut>>
    PROVE  RightsKept
BY DEF RightsKept, StreamTypes, RightsBoundToBytes

\* Steps that leave sockets, descriptions and flocks alone.
LEMMA KeepsFiles ==
    ASSUME ReferencesKept, TablesMove, \A q \in Pids : Retains(fds[q], fds'[q]),
           PendingMoves,
           \A q \in Pids, t \in Slots : pending[q][t].op = "flock" => pending'[q][t] = pending[q][t],
           UNCHANGED <<stream, shut, queue, descr, flocks>>
    PROVE  ReferencesKept' /\ RightsKept
<1>1. RightsKept BY StreamsStay DEF ReferencesKept
<1>2. FlightMoves /\ InFlight \subseteq InFlight' BY FlightStays DEF ReferencesKept
<1>3. QueueMoves BY QueuesMove DEF ReferencesKept
<1>4. FlocksGood(flocks') BY FlocksAreGood DEF ReferencesKept
<1> QED BY <1>1, <1>2, <1>3, <1>4, StaysReferred

LEMMA DescriptorStepKeeps ==
    ASSUME ProcessesAgree, ReferencesKept, NEW p \in Pids, NEW s \in Slots, DescriptorStep(p, s)
    PROVE  ReferencesKept' /\ RightsKept
<1> DEFINE L == LiveEntries
<1>0. DescriptionsOpen /\ Copies(fds[p], L) BY OwnCopies DEF ReferencesKept
<1>a. PendingMoves BY PendingStays DEF DescriptorStep, close, dup2, SameThreads
<1>1. ASSUME NEW n \in Fds, close(p, s, n) PROVE ReferencesKept' /\ RightsKept
  <2>1. Copies(Released_(fds[p], n), L) BY <1>0, ReleasedCopies
  <2>2. TablesMove BY <1>0, <1>1, <2>1, OneTableMoves DEF close
  <2>3. FlightMoves /\ RightsKept
    BY <1>0, <1>1, FlightStays, StreamsStay DEF close, ReferencesKept
  <2>4. QueueMoves /\ FilesSettled BY <1>0, <1>1, QueuesMove DEF close
  <2> QED BY <1>a, <2>2, <2>3, <2>4, Settles
<1>2. ASSUME NEW n \in Fds, NEW m \in Fds, dup2(p, s, n, m) PROVE ReferencesKept' /\ RightsKept
  <2>1. Copies(Dup2Table(fds[p], n, m), L) BY <1>0, Dup2Copies
  <2>2. TablesMove BY <1>0, <1>2, <2>1, OneTableMoves DEF dup2
  <2>3. FlightMoves /\ RightsKept
    BY <1>0, <1>2, FlightStays, StreamsStay DEF dup2, ReferencesKept
  <2>4. QueueMoves /\ FilesSettled BY <1>0, <1>2, QueuesMove DEF dup2
  <2> QED BY <1>a, <2>2, <2>3, <2>4, Settles
<1>3. ASSUME SameThreads, SameFiles, SameSockets, NEW n \in Fds,
             \/ dup(p, s, n)
             \/ \E nonblock, cloexec : fcntl_flags(p, s, n, nonblock, cloexec)
      PROVE  ReferencesKept' /\ RightsKept
  <2>1. TablesMove /\ \A q \in Pids : Retains(fds[q], fds'[q])
    <3>1. CASE dup(p, s, n)
      <4>1. CASE Full(fds[p]) BY <1>0, <3>1, <4>1, TablesStay DEF dup
      <4>2. CASE ~Full(fds[p])
        <5> DEFINE T == Installed(fds[p], Duplicate(fds[p][n]))
        <5>1. CopyOf(Duplicate(fds[p][n]), L) BY <1>0, DuplicateCopies DEF Copies
        <5>2. Copies(T, L) /\ Retains(fds[p], T) BY <1>0, <4>2, <5>1, InstalledCopies
        <5>3. fds' = [fds EXCEPT ![p] = T] BY <3>1, <4>2 DEF dup
        <5> HIDE DEF T
        <5> QED BY <1>0, <5>2, <5>3, OneTableMoves
      <4> QED BY <4>1, <4>2
    <3>2. CASE \E nonblock, cloexec : fcntl_flags(p, s, n, nonblock, cloexec)
      <4> PICK nonblock, cloexec : fcntl_flags(p, s, n, nonblock, cloexec) BY <3>2
      <4> DEFINE x == fds[p][n]
                 e == [x EXCEPT !.nonblock = nonblock, !.cloexec = cloexec]
      <4>1. fds' = [fds EXCEPT ![p][n] = e] BY DEF fcntl_flags
      <4>2. CopyOf(x, L) BY <1>0 DEF Copies
      <4>3. CopyOf(e, L) /\ e.kind = x.kind /\ e.obj = x.obj
        <5> HIDE DEF x, L
        <5> QED BY <4>2 DEF CopyOf, IsEntry, Placed
      <4> HIDE DEF e
      <4> QED BY <1>0, <4>1, <4>3, OneEntryMoves
    <3> QED BY <1>3, <3>1, <3>2
  <2>2. /\ UNCHANGED <<stream, shut, queue, descr, flocks>>
        /\ \A q \in Pids, t \in Slots :
              pending[q][t].op = "flock" => pending'[q][t] = pending[q][t]
    BY <1>3 DEF SameThreads, SameFiles, SameSockets, fileVars, socketVars
  <2> QED BY <1>a, <2>1, <2>2, KeepsFiles
<1> QED BY <1>1, <1>2, <1>3 DEF DescriptorStep

LEMMA AcquiredGood ==
    ASSUME FlocksHeld, DescriptionsOpen, NEW d \in Descriptions, d \in Held,
           descr[d] \in Inodes, NEW kind \in LockKinds, CanAcquire(flocks[descr[d]], d, kind)
    PROVE  FlocksGood([flocks EXCEPT ![descr[d]] = Acquired(@, d, kind)])
<1> DEFINE i == descr[d]
           a == Acquired(flocks[i], d, kind)
           table == [flocks EXCEPT ![i] = a]
<1>1. flocks[i] \in Flock /\ d # NoOwner /\ i \in Inodes
  BY FileAssumption DEF FlocksHeld
<1>2. /\ flocks[i].exclusive \in {NoOwner, d}
      /\ kind = "exclusive" => flocks[i].shared \subseteq {d}
  BY DEF CanAcquire
<1>3. /\ a \in Flock /\ (a.exclusive # NoOwner => a.shared = {})
      /\ \A x \in FlockOwners(a) : x = d \/ x \in FlockOwners(flocks[i])
  BY <1>1, <1>2 DEF Acquired, Flock, FlockOwners, LockKinds
<1>4. /\ table \in [Inodes -> Flock]
      /\ \A j \in Inodes : table[j] = IF j = i THEN a ELSE flocks[j]
  <2> HIDE DEF a, i
  <2> QED BY <1>1, <1>3 DEF FlocksHeld
<1>5. \A j \in Inodes : \A x \in FlockOwners(table[j]) : descr[x] = j /\ x \in Held
  <2> HIDE DEF a, table
  <2> QED BY <1>3, <1>4 DEF FlocksHeld
<1>6. \A j \in Inodes : table[j].exclusive # NoOwner => table[j].shared = {}
  <2> HIDE DEF a, table
  <2> QED BY <1>3, <1>4 DEF FlocksHeld
<1>7. table = [flocks EXCEPT ![descr[d]] = Acquired(@, d, kind)] OBVIOUS
<1> HIDE DEF table
<1>8. FlocksGood(table) BY <1>4, <1>5, <1>6 DEF FlocksGood
<1> QED BY <1>7, <1>8

LEMMA ReleasedGood ==
    ASSUME FlocksHeld, NEW i, NEW d
    PROVE  FlocksGood([flocks EXCEPT ![i] = Released(@, d)])
<1> DEFINE a == Released(flocks[i], d)
           table == [flocks EXCEPT ![i] = a]
<1>1. i \in Inodes => /\ a \in Flock /\ (a.exclusive # NoOwner => a.shared = {})
                      /\ \A x \in FlockOwners(a) : x \in FlockOwners(flocks[i])
  <2> SUFFICES ASSUME i \in Inodes
               PROVE  /\ a \in Flock /\ (a.exclusive # NoOwner => a.shared = {})
                      /\ \A x \in FlockOwners(a) : x \in FlockOwners(flocks[i])
    OBVIOUS
  <2>1. flocks[i] \in Flock /\ (flocks[i].exclusive # NoOwner => flocks[i].shared = {})
    BY DEF FlocksHeld
  <2> QED BY <2>1 DEF Released, Flock, FlockOwners
<1>2. /\ table \in [Inodes -> Flock]
      /\ \A j \in Inodes : table[j] = IF j = i THEN a ELSE flocks[j]
  <2> HIDE DEF a
  <2> QED BY <1>1 DEF FlocksHeld
<1>3. \A j \in Inodes : \A x \in FlockOwners(table[j]) : descr[x] = j /\ x \in Held
  <2> HIDE DEF a, table
  <2> QED BY <1>1, <1>2 DEF FlocksHeld
<1>4. \A j \in Inodes : table[j].exclusive # NoOwner => table[j].shared = {}
  <2> HIDE DEF a, table
  <2> QED BY <1>1, <1>2 DEF FlocksHeld
<1>5. table = [flocks EXCEPT ![i] = Released(@, d)] OBVIOUS
<1> HIDE DEF table
<1>6. FlocksGood(table) BY <1>2, <1>3, <1>4 DEF FlocksGood
<1> QED BY <1>5, <1>6

LEMMA FileEntry ==
    ASSUME DescriptionsOpen, NEW p \in Pids, NEW n \in Fds, Is(p, n, "file")
    PROVE  /\ fds[p][n].obj \in Descriptions /\ fds[p][n].obj \in Held
           /\ OpenInode(p, n) \in Inodes /\ fds[p][n].path \in Names
BY LiveEntry DEF DescriptionsOpen, Referring, Is, OpenInode

LEMMA LockStepKeeps ==
    ASSUME ProcessesAgree, ReferencesKept, NEW p \in Pids, NEW s \in Slots, LockStep(p, s)
    PROVE  ReferencesKept' /\ RightsKept
<1>0. DescriptionsOpen /\ FlocksHeld /\ StreamTypes BY DEF ReferencesKept
<1>1. /\ UNCHANGED <<stream, shut, queue, descr>> /\ fds' = fds
  BY DEF LockStep, SameSockets, socketVars
<1>2. /\ TablesMove /\ \A q \in Pids : Retains(fds[q], fds'[q])
      /\ FlightMoves /\ InFlight \subseteq InFlight' /\ QueueMoves /\ RightsKept
  BY <1>0, <1>1, TablesStay, FlightStays, QueuesMove, StreamsStay
<1> DEFINE Halts ==
        /\ PendingMoves
        /\ \A q \in Pids, t \in Slots : pending[q][t].op = "flock" => pending'[q][t] = pending[q][t]
<1>3. ASSUME NEW n \in Fds, NEW r \in LockRanges, fcntl_setlk(p, s, n, r, TRUE), flocks' = flocks
      PROVE  Halts /\ FlocksGood(flocks')
  <2>1. OpenInode(p, n) \in Inodes BY <1>0, <1>3, FileEntry DEF fcntl_setlk
  <2> DEFINE c == [op |-> "setlkw", obj |-> OpenInode(p, n), request |-> r]
  <2>2. Wanting(c) BY <2>1 DEF Wanting
  <2>3. CanCall(p, s) /\ (NoBlock \/ Block(p, s, c)) BY <1>3 DEF fcntl_setlk
  <2>4. Halts
    <3> HIDE DEF c
    <3>1. CASE NoBlock BY <3>1, PendingStays DEF NoBlock
    <3>2. CASE Block(p, s, c) BY <2>2, <2>3, <3>2, BlockedMoves
    <3> QED BY <2>3, <3>1, <3>2
  <2> QED BY <1>0, <1>3, <2>4, FlocksAreGood
<1>4. ASSUME NEW n \in Fds, NEW r, fcntl_unlck(p, s, n, r), flocks' = flocks
      PROVE  Halts /\ FlocksGood(flocks')
  BY <1>0, <1>4, PendingStays, FlocksAreGood DEF fcntl_unlck, NoBlock
<1>5. ASSUME NEW n \in Fds, NEW kind \in LockKinds, NEW wait, flock(p, s, n, kind, wait)
      PROVE  Halts /\ FlocksGood(flocks')
  <2> DEFINE d == fds[p][n].obj
             c == [op |-> "flock", obj |-> d, kind |-> kind]
  <2>1. d \in Descriptions /\ d \in Held /\ descr[d] \in Inodes
    BY <1>0, <1>5, FileEntry DEF flock, OpenInode
  <2>2. Wanting(c)
    <3> HIDE DEF d
    <3> QED BY <2>1 DEF Wanting
  <2>3. /\ CanCall(p, s)
        /\ \/ /\ CanAcquire(flocks[descr[d]], d, kind) /\ NoBlock
              /\ flocks' = [flocks EXCEPT ![descr[d]] = Acquired(@, d, kind)]
           \/ Block(p, s, c) /\ flocks' = flocks
    BY <1>5 DEF flock, OpenInode
  <2> HIDE DEF c, d
  <2>4. CASE /\ CanAcquire(flocks[descr[d]], d, kind) /\ NoBlock
             /\ flocks' = [flocks EXCEPT ![descr[d]] = Acquired(@, d, kind)]
    <3>1. FlocksGood([flocks EXCEPT ![descr[d]] = Acquired(@, d, kind)])
      BY <1>0, <2>1, <2>4, AcquiredGood
    <3> QED BY <2>4, <3>1, PendingStays DEF NoBlock
  <2>5. CASE Block(p, s, c) /\ flocks' = flocks
    BY <1>0, <2>2, <2>3, <2>5, BlockedMoves, FlocksAreGood
  <2> QED BY <2>3, <2>4, <2>5
<1>6. ASSUME NEW n \in Fds, flock_un(p, s, n) PROVE Halts /\ FlocksGood(flocks')
  <2>1. flocks' = [flocks EXCEPT ![OpenInode(p, n)] = Released(@, fds[p][n].obj)] /\ NoBlock
    BY <1>6 DEF flock_un
  <2>2. FlocksGood([flocks EXCEPT ![OpenInode(p, n)] = Released(@, fds[p][n].obj)])
    BY <1>0, ReleasedGood
  <2> QED BY <2>1, <2>2, PendingStays DEF NoBlock
<1>7. Halts /\ FlocksGood(flocks') BY <1>3, <1>4, <1>5, <1>6 DEF LockStep
<1> QED BY <1>1, <1>2, <1>7, StaysReferred

-----------------------------------------------------------------------------
\* Symbolic links lead to names, however often they are followed.
LinksLead ==
    /\ names \in [Names -> Inodes \cup {0}]
    /\ \A i \in Inodes : inodes[i].kind = "symlink" => inodes[i].target \in Names

LEMMA LinkLeads ==
    ASSUME LinksLead, NEW n \in Names, IsLink(n)
    PROVE  inodes[names[n]].target \in Names
<1>1. names[n] # 0 /\ inodes[names[n]].kind = "symlink"
  BY DEF IsLink, KindOf, Exists
<1>2. names[n] \in Inodes BY <1>1 DEF LinksLead
<1> QED BY <1>1, <1>2 DEF LinksLead

LEMMA ResolvesToName ==
    ASSUME LinksLead, NEW n \in Names
    PROVE  Resolve(n) \in Names /\ (~IsLink(n) => Resolve(n) = n)
<1> DEFINE N == Cardinality(Names)
           Next1(f, k) == IF k = 0 THEN n
                          ELSE IF IsLink(f[k - 1]) THEN inodes[names[f[k - 1]]].target
                          ELSE f[k - 1]
           Builds(f, m) == /\ f = [k \in 0 .. m |-> f[k]]
                           /\ \A k \in 0 .. m : f[k] = Next1(f, k)
           Has(m) == \E f : Builds(f, m)
<1>1. N \in Nat BY FileAssumption, FS_CardinalityType
<1>2. \A m \in Nat : Has(m)
  <2> DEFINE Bad == {m \in Nat : ~Has(m)}
  <2> SUFFICES ASSUME Bad # {} PROVE FALSE OBVIOUS
  <2>1. PICK m \in Bad : \A l \in Bad : m <= l
    <3> HIDE DEF Has
    <3> QED BY LeastNatural
  <2>2. CASE m = 0
    <3> DEFINE h == [k \in 0 .. 0 |-> n]
    <3>1. h = [k \in 0 .. 0 |-> h[k]] /\ \A k \in 0 .. 0 : h[k] = Next1(h, k) OBVIOUS
    <3>2. Builds(h, 0)
      <4> HIDE DEF h, Next1
      <4> QED BY <3>1
    <3> HIDE DEF Builds
    <3> QED BY <2>1, <2>2, <3>2
  <2>3. CASE m # 0
    <3>1. m - 1 \in Nat /\ m \in Nat BY <2>3
    <3>2. m - 1 \notin Bad
      <4> HIDE DEF Bad
      <4> QED BY <2>1, <3>1
    <3>3. PICK g : Builds(g, m - 1) BY <3>1, <3>2
    <3> DEFINE h == [k \in 0 .. m |-> IF k = m THEN Next1(g, m) ELSE g[k]]
    <3>4. h = [k \in 0 .. m |-> h[k]] OBVIOUS
    <3>5. ASSUME NEW k \in 0 .. m PROVE h[k] = Next1(h, k)
      <4>1. k # 0 => h[k - 1] = g[k - 1] BY <3>1
      <4>2. Next1(h, k) = Next1(g, k)
        <5> HIDE DEF h
        <5> QED BY <4>1
      <4>3. CASE k = m
        <5>1. h[k] = Next1(g, k) BY <3>1, <4>3
        <5> HIDE DEF h, Next1
        <5> QED BY <4>2, <5>1
      <4>4. CASE k # m
        <5>1. k \in 0 .. m - 1 BY <3>1, <4>4
        <5>2. g[k] = Next1(g, k) BY <3>3, <5>1
        <5>3. h[k] = g[k] BY <3>1, <4>4
        <5> HIDE DEF h, Next1
        <5> QED BY <4>2, <5>2, <5>3
      <4> QED BY <4>3, <4>4
    <3>6. Builds(h, m)
      <4> HIDE DEF h, Next1
      <4> QED BY <3>4, <3>5
    <3> HIDE DEF Builds
    <3> QED BY <2>1, <3>6
  <2> QED BY <2>2, <2>3
<1> DEFINE step[k \in 0 .. N] ==
        IF k = 0 THEN n
        ELSE IF IsLink(step[k - 1]) THEN inodes[names[step[k - 1]]].target
        ELSE step[k - 1]
<1>3. step = [k \in 0 .. N |-> IF k = 0 THEN n
                               ELSE IF IsLink(step[k - 1]) THEN inodes[names[step[k - 1]]].target
                               ELSE step[k - 1]]
  <2>1. PICK f : Builds(f, N) BY <1>1, <1>2
  <2>2. f = [k \in 0 .. N |-> IF k = 0 THEN n
                              ELSE IF IsLink(f[k - 1]) THEN inodes[names[f[k - 1]]].target
                              ELSE f[k - 1]]
    BY <2>1
  <2> QED BY <2>2
<1>4. Resolve(n) = step[N] BY DEF Resolve
<1> HIDE DEF step
<1>5. \A k \in 0 .. N : step[k] \in Names
  <2> DEFINE Bad == {k \in 0 .. N : step[k] \notin Names}
  <2> SUFFICES ASSUME Bad # {} PROVE FALSE OBVIOUS
  <2>1. Bad \in SUBSET Nat BY <1>1
  <2>2. PICK m \in Bad : \A l \in Bad : m <= l
    <3> HIDE DEF Bad
    <3> QED BY <2>1, LeastNatural
  <2>3. m \in 0 .. N /\ step[m] \notin Names OBVIOUS
  <2>4. m # 0 BY <1>3, <2>3
  <2>5. m - 1 \in 0 .. N /\ m - 1 \notin Bad
    <3>1. m - 1 \in 0 .. N /\ ~(m <= m - 1) BY <1>1, <2>3, <2>4
    <3> HIDE DEF Bad
    <3> QED BY <2>2, <3>1
  <2>6. step[m - 1] \in Names BY <2>5
  <2>7. step[m] = IF IsLink(step[m - 1]) THEN inodes[names[step[m - 1]]].target ELSE step[m - 1]
    BY <1>3, <2>3, <2>4
  <2>8. IsLink(step[m - 1]) => inodes[names[step[m - 1]]].target \in Names
    BY <2>6, LinkLeads
  <2> QED BY <2>3, <2>6, <2>7, <2>8
<1>6. ASSUME ~IsLink(n) PROVE \A k \in 0 .. N : step[k] = n
  <2> DEFINE Bad == {k \in 0 .. N : step[k] # n}
  <2> SUFFICES ASSUME Bad # {} PROVE FALSE OBVIOUS
  <2>1. Bad \in SUBSET Nat BY <1>1
  <2>2. PICK m \in Bad : \A l \in Bad : m <= l
    <3> HIDE DEF Bad
    <3> QED BY <2>1, LeastNatural
  <2>3. m \in 0 .. N /\ step[m] # n OBVIOUS
  <2>4. m # 0 BY <1>3, <2>3
  <2>5. m - 1 \in 0 .. N /\ m - 1 \notin Bad
    <3>1. m - 1 \in 0 .. N /\ ~(m <= m - 1) BY <1>1, <2>3, <2>4
    <3> HIDE DEF Bad
    <3> QED BY <2>2, <3>1
  <2>6. step[m] = IF IsLink(step[m - 1]) THEN inodes[names[step[m - 1]]].target ELSE step[m - 1]
    BY <1>3, <2>3, <2>4
  <2> QED BY <1>6, <2>3, <2>5, <2>6
<1>7. N \in 0 .. N BY <1>1
<1> QED BY <1>4, <1>5, <1>6, <1>7

\* open makes the one reference that is no copy: to a description nobody uses.
LEMMA OpenKeeps ==
    ASSUME ProcessesAgree, ReferencesKept, LinksLead, NEW p \in Pids, NEW s \in Slots,
           NEW n \in Names, NEW flags, NEW fresh, open(p, s, n, flags, fresh),
           SameThreads, SameSockets
    PROVE  ReferencesKept' /\ RightsKept
<1> DEFINE at == Resolve(n)
           i  == IF Exists(at) THEN names[at] ELSE fresh
           d  == CHOOSE x \in FreeDescriptions : TRUE
           e  == [Entry("file", d) EXCEPT !.path = at, !.writable = flags.write]
           T  == Installed(fds[p], e)
<1>0. DescriptionsOpen /\ FlocksHeld /\ StreamTypes /\ at \in Names
  BY ResolvesToName DEF ReferencesKept
<1>1. i \in Inodes
  <2>1. CASE Exists(at) BY <1>0, <2>1 DEF Exists, LinksLead
  <2>2. CASE ~Exists(at)
    <3>1. fresh \in FreeInodes BY <2>2 DEF open
    <3> QED BY <2>2, <3>1 DEF FreeInodes
  <2> QED BY <2>1, <2>2
<1>2. \/ UNCHANGED <<fds, descr>>
      \/ /\ ~Full(fds[p]) /\ FreeDescriptions # {}
         /\ descr' = [descr EXCEPT ![d] = i] /\ fds' = [fds EXCEPT ![p] = T]
  BY DEF open
<1>3. UNCHANGED <<stream, shut, queue, flocks, pending>>
  BY DEF open, SameThreads, SameSockets, socketVars
<1>4. /\ IsEntry(e) /\ e.kind = "file" /\ e.obj = d /\ e.path = at
  <2> HIDE DEF at, d
  <2> QED BY DEF Entry, IsEntry
<1> HIDE DEF at, i, d, e
<1>5. CASE UNCHANGED <<fds, descr>>
  BY <1>0, <1>3, <1>5, TablesStay, PendingStays, KeepsFiles
<1>6. CASE /\ ~Full(fds[p]) /\ FreeDescriptions # {}
           /\ descr' = [descr EXCEPT ![d] = i] /\ fds' = [fds EXCEPT ![p] = T]
  <2>1. d \in Descriptions /\ descr[d] = 0 BY <1>6 DEF FreeDescriptions, d
  <2>2. 0 \notin Inodes BY FileAssumption
  <2>3. /\ descr' \in [Descriptions -> Inodes \cup {0}] /\ descr'[d] = i
        /\ \A x \in Descriptions : descr[x] \in Inodes => descr'[x] = descr[x]
    BY <1>0, <1>1, <1>6, <2>1, <2>2 DEF DescriptionsOpen
  <2>4. Lowest(fds[p]) \in Fds /\ fds[p][Lowest(fds[p])] = Closed BY <1>6, LowestIsFree
  <2>5. T = [fds[p] EXCEPT ![Lowest(fds[p])] = e] BY DEF Installed
  <2> HIDE DEF T
  <2>6. Table(fds, Pids) /\ Table(fds[p], Fds) BY <1>0 DEF DescriptionsOpen
  <2>7. /\ Table(fds', Pids) /\ \A q \in Pids : fds'[q] = IF q = p THEN T ELSE fds[q]
        /\ Table(T, Fds)
        /\ \A m \in Fds : T[m] = IF m = Lowest(fds[p]) THEN e ELSE fds[p][m]
    BY <1>6, <2>4, <2>5, <2>6 DEF Table
  <2>8. InFlight' = InFlight BY <1>3 DEF InFlight
  <2>9. \A x \in LiveEntries' : x = e \/ x \in LiveEntries
    <3>1. \A x \in LiveEntries' : (\E q \in Pids, m \in Fds : x = fds'[q][m]) \/ x \in InFlight'
      BY DEF LiveEntries, Entries
    <3>2. \A q \in Pids, m \in Fds : fds'[q][m] = e \/ fds'[q][m] = fds[q][m] BY <2>7
    <3> QED BY <2>8, <3>1, <3>2, LiveEntry
  <2>10. \A x \in LiveEntries' : IsEntry(x) /\ Referring(x)'
    <3> DEFINE Refers(x) ==
            /\ IsEntry(x) /\ Placed(x)
            /\ x.kind = "file" => /\ x.obj \in Descriptions /\ descr'[x.obj] \in Inodes
                                  /\ x.path \in Names
    <3>1. Refers(e) BY <1>0, <1>1, <1>4, <2>1, <2>3 DEF Placed
    <3>2. \A x \in LiveEntries : Refers(x)
      BY <1>0, <2>3 DEF DescriptionsOpen, Referring
    <3>3. \A x \in LiveEntries' : Refers(x)
      <4> HIDE DEF Refers
      <4> QED BY <2>9, <3>1, <3>2
    <3> QED BY <3>3 DEF Referring
  <2>11. \A q \in Pids, t \in Slots : Wanting(pending[q][t])'
    <3> SUFFICES ASSUME NEW q \in Pids, NEW t \in Slots PROVE Wanting(pending[q][t])'
      OBVIOUS
    <3>1. Wanting(pending[q][t]) /\ pending'[q][t] = pending[q][t]
      BY <1>0, <1>3 DEF DescriptionsOpen
    <3> QED BY <2>3, <3>1 DEF Wanting
  <2>12. DescriptionsOpen'
    <3>1. Table(fds', Pids) /\ \A q \in Pids : Table(fds'[q], Fds)
      BY <1>0, <2>7 DEF DescriptionsOpen
    <3>2. queue' \in [Listeners -> Seq(Endpoint)] BY <1>0, <1>3 DEF DescriptionsOpen
    <3> QED BY <2>3, <2>10, <2>11, <3>1, <3>2 DEF DescriptionsOpen, IsEntry
  <2>13. \A q \in Pids : Retains(fds[q], fds'[q])
    BY <2>4, <2>7, ClosedEntry DEF Retains
  <2>14. Held \subseteq Held'
    <3>1. NothingDropped BY <1>3, <2>8, <2>13 DEF NothingDropped
    <3> QED BY <3>1, HeldStays
  <2>15. FlocksHeld'
    <3>1. \A j \in Inodes : \A x \in FlockOwners(flocks[j]) : x \in Descriptions
      BY <1>0 DEF FlocksHeld, Flock, FlockOwners
    <3>2. \A j \in Inodes : \A x \in FlockOwners(flocks[j]) : descr'[x] = j /\ x \in Held'
      BY <1>0, <2>3, <2>14, <3>1 DEF FlocksHeld
    <3> QED BY <1>0, <1>3, <3>2 DEF FlocksHeld, FlockOwners
  <2>16. RightsKept BY <1>0, <1>3, StreamsStay
  <2> QED BY <2>12, <2>15, <2>16 DEF ReferencesKept, RightsKept
<1> QED BY <1>2, <1>5, <1>6

LEMMA OpenStepKeeps ==
    ASSUME ProcessesAgree, ReferencesKept, LinksLead, NEW p \in Pids, NEW s \in Slots,
           OpenStep(p, s)
    PROVE  ReferencesKept' /\ RightsKept
<1>1. SharedName \in Names BY FileAssumption DEF SharedName
<1> QED BY <1>1, OpenKeeps DEF OpenStep

LEMMA NameStepKeeps ==
    ASSUME ProcessesAgree, ReferencesKept, NEW p \in Pids, NEW s \in Slots, NameStep(p, s)
    PROVE  ReferencesKept' /\ RightsKept
<1>0. DescriptionsOpen /\ Copies(fds[p], LiveEntries) BY OwnCopies DEF ReferencesKept
<1>1. UNCHANGED <<stream, shut, queue, descr, flocks, pending>>
  BY DEF NameStep, SameThreads, SameSockets, socketVars
<1>2. fds' = fds \/ \E a, b \in Names : rename(p, s, a, b)
  BY DEF NameStep
<1>3. TablesMove /\ \A q \in Pids : Retains(fds[q], fds'[q])
  <2>1. CASE fds' = fds BY <1>0, <2>1, TablesStay
  <2>2. ASSUME NEW a \in Names, NEW b \in Names, rename(p, s, a, b)
        PROVE  TablesMove /\ \A q \in Pids : Retains(fds[q], fds'[q])
    <3> DEFINE Moved1(x) == IF x.path = a THEN [x EXCEPT !.path = b] ELSE x
               T == [n \in Fds |-> Moved1(fds[p][n])]
    <3>1. fds' = [fds EXCEPT ![p] = T] BY <2>2 DEF rename
    <3>2. ASSUME NEW x, CopyOf(x, LiveEntries)
          PROVE  CopyOf(Moved1(x), LiveEntries) /\ Moved1(x).kind = x.kind /\ Moved1(x).obj = x.obj
      <4> DEFINE L == LiveEntries
      <4>1. CopyOf(x, L) BY <3>2
      <4> HIDE DEF L
      <4>2. CopyOf(Moved1(x), L) /\ Moved1(x).kind = x.kind /\ Moved1(x).obj = x.obj
        BY <4>1 DEF CopyOf, IsEntry, Placed
      <4> QED BY <4>2 DEF L
    <3> HIDE DEF Moved1
    <3>3. Copies(T, LiveEntries) /\ Retains(fds[p], T)
      BY <1>0, <3>2 DEF Copies, Table, Retains
    <3> HIDE DEF T
    <3> QED BY <1>0, <3>1, <3>3, OneTableMoves
  <2> QED BY <1>2, <2>1, <2>2
<1> QED BY <1>1, <1>3, PendingStays, KeepsFiles

LEMMA DataStepKeeps ==
    ASSUME ProcessesAgree, ReferencesKept, NEW p \in Pids, NEW s \in Slots, DataStep(p, s)
    PROVE  ReferencesKept' /\ RightsKept
<1>0. DescriptionsOpen /\ Copies(fds[p], LiveEntries) BY OwnCopies DEF ReferencesKept
<1>1. UNCHANGED <<stream, shut, queue, descr, flocks, pending>>
  BY DEF DataStep, SameThreads, SameSockets, socketVars
<1>2. fds' = fds \/ \E n \in Fds : \E v : fds' = [fds EXCEPT ![p][n] = [@ EXCEPT !.offset = v]]
  BY DEF DataStep, read_file, getdirentries, write_file, pwrite, ftruncate, lseek
<1>3. TablesMove /\ \A q \in Pids : Retains(fds[q], fds'[q])
  <2>1. CASE fds' = fds BY <1>0, <2>1, TablesStay
  <2>2. ASSUME NEW n \in Fds, NEW v, fds' = [fds EXCEPT ![p][n] = [@ EXCEPT !.offset = v]]
        PROVE  TablesMove /\ \A q \in Pids : Retains(fds[q], fds'[q])
    <3> DEFINE L == LiveEntries
               x == fds[p][n]
               e == [x EXCEPT !.offset = v]
    <3>1. CopyOf(x, L) BY <1>0 DEF Copies
    <3>2. CopyOf(e, L) /\ e.kind = x.kind /\ e.obj = x.obj
      <4> HIDE DEF x, L
      <4> QED BY <3>1 DEF CopyOf, IsEntry, Placed
    <3>3. fds' = [fds EXCEPT ![p][n] = e] BY <2>2
    <3> HIDE DEF e
    <3> QED BY <1>0, <3>2, <3>3, OneEntryMoves
  <2> QED BY <1>2, <2>1, <2>2
<1> QED BY <1>1, <1>3, PendingStays, KeepsFiles

LEMMA InstalledAnywhere ==
    ASSUME NEW S, NEW table, Copies(table, S), NEW e, CopyOf(e, S)
    PROVE  Copies(Installed(table, e), S)
BY DEF Installed, Copies, Table

LEMMA PairEntry ==
    ASSUME NEW S, NEW k \in Pairs, NEW x \in Sides
    PROVE  CopyOf(Entry("pair", <<k, x>>), S)
<1>1. <<k, x>> \in Endpoint BY DEF Endpoint
<1> DEFINE e == Entry("pair", <<k, x>>)
<1>2. IsEntry(e) /\ e.kind = "pair" /\ e.obj = <<k, x>> BY NewEntry
<1> HIDE DEF e
<1>3. CopyOf(e, S) BY <1>1, <1>2 DEF CopyOf, Placed
<1> QED BY <1>3 DEF e

LEMMA AcceptMoves ==
    ASSUME DescriptionsOpen, NEW p \in Pids, NEW n \in Fds, NEW fault,
           AcceptEffect(p, n, fault), AcceptReady(p, n)
    PROVE  TablesMove /\ QueueMoves
<1>1. CASE ~Listening(p, n) \/ Full(fds[p])
  BY <1>1, TablesStay, QueuesMove DEF AcceptEffect
<1>2. CASE Listening(p, n) /\ ~Full(fds[p])
  <2> DEFINE l == fds[p][n].obj
             e == Entry("pair", Head(queue[l]))
             T == Installed(fds[p], e)
  <2>1. l \in Listeners /\ queue[l] # << >> /\ queue \in [Listeners -> Seq(Endpoint)]
    BY <1>2, LiveEntry DEF DescriptionsOpen, Referring, Placed, Listening, Is, AcceptReady
  <2>2. /\ queue' = [queue EXCEPT ![l] = Tail(queue[l])]
        /\ fds' = fds \/ fds' = [fds EXCEPT ![p] = T]
    BY <1>2 DEF AcceptEffect
  <2> HIDE DEF l
  <2>3. queue[l] \in Seq(Endpoint) BY <2>1
  <2>4. Head(queue[l]) \in Endpoint /\ Tail(queue[l]) \in Seq(Endpoint)
    <3> DEFINE q == queue[l]
    <3> HIDE DEF q
    <3>1. q \in Seq(Endpoint) /\ q # << >> BY <2>1, <2>3 DEF q
    <3>2. Head(q) \in Endpoint /\ Tail(q) \in Seq(Endpoint) BY <3>1
    <3> QED BY <3>2 DEF q
  <2>5. QueueMoves BY <2>1, <2>2, <2>4 DEF QueueMoves
  <2>6. CopyOf(e, LiveEntries)
    <3>1. IsEntry(e) /\ e.kind = "pair" /\ e.obj = Head(queue[l]) BY NewEntry
    <3> HIDE DEF e
    <3> QED BY <2>4, <3>1 DEF CopyOf, Placed
  <2>7. Copies(T, LiveEntries)
    <3> HIDE DEF e
    <3> QED BY <2>6, OwnCopies, InstalledAnywhere
  <2> HIDE DEF T
  <2>8. TablesMove BY <2>2, <2>7, TablesStay, OneTableMoves
  <2> QED BY <2>5, <2>8
<1> QED BY <1>1, <1>2

LEMMA SocketsMove ==
    ASSUME StreamTypes, DescriptionsOpen, NEW p \in Pids, NEW s \in Slots,
           \/ socketpair(p, s) \/ pipe(p, s) \/ socket(p, s)
           \/ \E n \in Fds, a \in SocketNames : bind(p, s, n, a) \/ connect(p, s, n, a)
           \/ \E n \in Fds, l \in Listeners : listen(p, s, n, l)
           \/ \E a \in SocketNames : unlink_socket(p, s, a)
    PROVE  TablesMove /\ FlightMoves /\ QueueMoves /\ RightsKept
<1> DEFINE L == LiveEntries
<1>0. Copies(fds[p], L) /\ queue \in [Listeners -> Seq(Endpoint)]
  BY OwnCopies DEF DescriptionsOpen
<1>1. FlightMoves /\ RightsKept
  BY FlightStays, StreamsStay DEF socketpair, pipe, socket, bind, connect, listen, unlink_socket,
     socketVars
<1>2. CASE socketpair(p, s) \/ pipe(p, s)
  <2> DEFINE e == Entry("pair", <<nextPair, 0>>)
             r == [e EXCEPT !.writable = FALSE]
             w == Entry("pair", <<nextPair, 1>>)
  <2>1. nextPair \in Pairs BY <1>2 DEF socketpair, pipe, NewPair
  <2>2. CopyOf(e, L) /\ CopyOf(w, L) BY <2>1, PairEntry DEF Sides
  <2>3. CopyOf(r, L)
    <3> HIDE DEF e, L
    <3> QED BY <2>2 DEF CopyOf, IsEntry, Placed
  <2>4. \/ fds' = [fds EXCEPT ![p] = Installed(Installed(@, e), w)]
        \/ fds' = [fds EXCEPT ![p] = Installed(Installed(@, r), w)]
    BY <1>2 DEF socketpair, pipe
  <2> HIDE DEF e, r, w
  <2>5. /\ Copies(Installed(Installed(fds[p], e), w), L)
        /\ Copies(Installed(Installed(fds[p], r), w), L)
    BY <1>0, <2>2, <2>3, InstalledAnywhere
  <2>6. TablesMove BY <2>4, <2>5, OneTableMoves
  <2> QED BY <1>1, <1>2, <2>6, QueuesMove DEF socketpair, pipe
<1>3. CASE socket(p, s)
  <2> DEFINE e == Entry("unix", 0)
  <2>1. CopyOf(e, L)
    <3>1. IsEntry(e) /\ e.kind = "unix" /\ ~e.listening BY NewEntry DEF Entry
    <3> HIDE DEF e
    <3> QED BY <3>1 DEF CopyOf, Placed
  <2>2. fds' = [fds EXCEPT ![p] = Installed(@, e)] BY <1>3 DEF socket
  <2> HIDE DEF e
  <2>3. TablesMove BY <1>0, <2>1, <2>2, InstalledAnywhere, OneTableMoves
  <2> QED BY <1>1, <1>3, <2>3, QueuesMove DEF socket, socketVars
<1>4. ASSUME NEW n \in Fds, NEW a \in SocketNames, bind(p, s, n, a)
      PROVE  TablesMove /\ QueueMoves
  <2> DEFINE x == fds[p][n]
             e == [x EXCEPT !.path = a]
  <2>1. CopyOf(x, L) /\ x.kind = "unix" BY <1>0, <1>4 DEF Copies, bind, Is
  <2>2. CopyOf(e, L) /\ e.kind = x.kind
    <3> HIDE DEF x, L
    <3> QED BY <2>1 DEF CopyOf, IsEntry, Placed
  <2>3. fds' = [fds EXCEPT ![p][n] = e] BY <1>4 DEF bind
  <2> HIDE DEF e
  <2> QED BY <1>4, <2>2, <2>3, OneEntryMoves, QueuesMove DEF bind
<1>5. ASSUME NEW n \in Fds, NEW a \in SocketNames, connect(p, s, n, a)
      PROVE  TablesMove /\ QueueMoves
  <2> DEFINE x == fds[p][n]
             v == <<nextPair, 0>>
             w == <<nextPair, 1>>
             e == [x EXCEPT !.kind = "pair", !.obj = v]
             l == registry[a]
  <2>1. CopyOf(x, L) /\ nextPair \in Pairs BY <1>0, <1>5 DEF Copies, connect, NewPair
  <2>2. v \in Endpoint /\ w \in Endpoint BY <2>1 DEF Endpoint, Sides
  <2>3. CopyOf(e, L)
    <3> HIDE DEF x, L, v
    <3> QED BY <2>1, <2>2 DEF CopyOf, IsEntry, Placed
  <2>4. fds' = [fds EXCEPT ![p][n] = e] /\ queue' = [queue EXCEPT ![l] = Append(@, w)]
    BY <1>5 DEF connect
  <2> HIDE DEF e, w, l
  <2>5. QueueMoves
    <3>1. CASE l \in Listeners
      <4>1. Append(queue[l], w) \in Seq(Endpoint)
        <5> DEFINE q == queue[l]
        <5>1. q \in Seq(Endpoint) BY <1>0, <3>1
        <5> HIDE DEF q
        <5>2. Append(q, w) \in Seq(Endpoint) BY <2>2, <5>1
        <5> QED BY <5>2 DEF q
      <4> QED BY <1>0, <2>4, <4>1 DEF QueueMoves
    <3>2. CASE l \notin Listeners
      <4>1. queue' = queue BY <1>0, <2>4, <3>2
      <4> QED BY <4>1, QueuesMove
    <3> QED BY <3>1, <3>2
  <2> QED BY <2>3, <2>4, <2>5, OneEntryMoves
<1>6. ASSUME NEW n \in Fds, NEW l \in Listeners, listen(p, s, n, l)
      PROVE  TablesMove /\ QueueMoves
  <2> DEFINE x == fds[p][n]
             e == [x EXCEPT !.listening = TRUE, !.obj = l]
  <2>1. CopyOf(x, L) /\ x.kind = "unix" BY <1>0, <1>6 DEF Copies, listen, Is
  <2>2. CopyOf(e, L)
    <3> HIDE DEF x, L
    <3> QED BY <2>1 DEF CopyOf, IsEntry, Placed
  <2>3. fds' = fds \/ fds' = [fds EXCEPT ![p][n] = e] BY <1>6 DEF listen
  <2> HIDE DEF e
  <2>4. TablesMove BY <2>2, <2>3, OneEntryMoves, TablesStay
  <2> QED BY <1>6, <2>4, QueuesMove DEF listen
<1>7. ASSUME NEW a \in SocketNames, unlink_socket(p, s, a) PROVE TablesMove /\ QueueMoves
  BY <1>7, TablesStay, QueuesMove DEF unlink_socket
<1> QED BY <1>1, <1>2, <1>3, <1>4, <1>5, <1>6, <1>7

\* What a step does to the continuation of its caller.
Halting(p, s) == NoBlock \/ \E c : Wanting(c) /\ Block(p, s, c)

LEMMA HaltingMoves ==
    ASSUME ProcessesAgree, NEW p \in Pids, NEW s \in Slots, CanCall(p, s), Halting(p, s)
    PROVE  /\ PendingMoves
           /\ \A q \in Pids, t \in Slots :
                 pending[q][t].op = "flock" => pending'[q][t] = pending[q][t]
<1>1. CASE NoBlock BY <1>1, PendingStays DEF NoBlock
<1>2. CASE \E c : Wanting(c) /\ Block(p, s, c) BY <1>2, BlockedMoves
<1> QED BY <1>1, <1>2 DEF Halting

LEMMA SocketStepKeeps ==
    ASSUME ProcessesAgree, ReferencesKept, NEW p \in Pids, NEW s \in Slots, SocketStep(p, s)
    PROVE  ReferencesKept' /\ RightsKept
<1>0. DescriptionsOpen /\ StreamTypes BY DEF ReferencesKept
<1> DEFINE Moves == TablesMove /\ FlightMoves /\ QueueMoves /\ RightsKept
<1>1. ASSUME NEW n \in Fds, NEW passed \in Seq(Open(p)), send(p, s, n, 1, passed)
      PROVE  Moves
  <2>1. fds' = fds /\ queue' = queue BY <1>1 DEF send
  <2>2. StreamTypes' /\ FlightMoves /\ (RightsBoundToBytes => RightsBoundToBytes')
    BY <1>0, <1>1, SendMoves
  <2> QED BY <1>0, <2>1, <2>2, TablesStay, QueuesMove DEF RightsKept
<1>2. ASSUME NEW n \in Fds, NEW count \in Nat, NEW how \in Receipts, receive(p, s, n, count, how)
      PROVE  Moves /\ Halting(p, s)
  <2>1. queue' = queue /\ shut' = shut /\ Is(p, n, "pair") BY <1>2 DEF receive
  <2>2. CASE RecvEffect(p, n, count, how) /\ NoBlock
    <3>1. StreamTypes' /\ FlightMoves /\ TablesMove
          /\ (how # "fault" /\ RightsBoundToBytes => RightsBoundToBytes')
      BY <1>0, <2>1, <2>2, RecvMoves
    <3>2. CopyoutFaults = FALSE => how # "fault" BY DEF Receipts
    <3> QED BY <1>0, <2>1, <2>2, <3>1, <3>2, QueuesMove DEF RightsKept, Halting
  <2>3. CASE ~(RecvEffect(p, n, count, how) /\ NoBlock)
    <3> DEFINE c == [op |-> "receive", fd |-> n, how |-> how]
    <3>1. how \in {"read", "message"} /\ Block(p, s, c) /\ UNCHANGED <<stream, fds>>
      BY <1>2, <2>3 DEF receive
    <3>2. Wanting(c) BY <3>1 DEF Wanting
    <3> HIDE DEF c
    <3>3. Halting(p, s) BY <3>1, <3>2 DEF Halting
    <3> QED BY <1>0, <2>1, <3>1, <3>3, TablesStay, FlightStays, QueuesMove, StreamsStay
  <2> QED BY <2>2, <2>3
<1>3. ASSUME NEW n \in Fds, NEW how \in {"read", "write", "both"}, shutdown(p, s, n, how)
      PROVE  Moves
  <2>1. fds' = fds /\ queue' = queue BY <1>3 DEF shutdown
  <2>2. StreamTypes' /\ FlightMoves /\ (RightsBoundToBytes => RightsBoundToBytes')
    BY <1>0, <1>3, ShutdownMoves
  <2> QED BY <1>0, <2>1, <2>2, TablesStay, QueuesMove DEF RightsKept
<1>4. ASSUME NEW n \in Fds, NEW fault, accept(p, s, n, fault) PROVE Moves /\ Halting(p, s)
  <2>1. UNCHANGED <<stream, shut>> BY <1>4 DEF accept
  <2>2. FlightMoves /\ RightsKept BY <1>0, <2>1, FlightStays, StreamsStay
  <2>3. CASE AcceptReady(p, n) /\ AcceptEffect(p, n, fault) /\ NoBlock
    BY <1>0, <2>2, <2>3, AcceptMoves DEF Halting
  <2>4. CASE ~(AcceptReady(p, n) /\ AcceptEffect(p, n, fault) /\ NoBlock)
    <3> DEFINE c == [op |-> "accept", fd |-> n]
    <3>1. Block(p, s, c) /\ UNCHANGED <<fds, queue>> BY <1>4, <2>4 DEF accept
    <3>2. Wanting(c) BY DEF Wanting
    <3> HIDE DEF c
    <3>3. Halting(p, s) BY <3>1, <3>2 DEF Halting
    <3> QED BY <1>0, <2>2, <3>1, <3>3, TablesStay, QueuesMove
  <2> QED BY <2>3, <2>4
<1> DEFINE Makes ==
        \/ socketpair(p, s) \/ pipe(p, s) \/ socket(p, s)
        \/ \E n \in Fds, a \in SocketNames : bind(p, s, n, a) \/ connect(p, s, n, a)
        \/ \E n \in Fds, l \in Listeners : listen(p, s, n, l)
        \/ \E a \in SocketNames : unlink_socket(p, s, a)
<1>5. Makes => Moves BY <1>0, SocketsMove
<1>6. FilesSettled BY DEF SocketStep
<1>7. \/ Makes /\ SameThreads
      \/ SameThreads /\ \E n \in Fds : send(p, s, n, 1, <<>>)
      \/ SameThreads /\ \E n \in Fds, m \in Passable(p) : send(p, s, n, 1, <<m>>)
      \/ \E n \in Fds, count \in Nat, how \in Receipts : receive(p, s, n, count, how)
      \/ SameThreads /\ \E n \in Fds, how \in {"read", "write", "both"} : shutdown(p, s, n, how)
      \/ \E n \in Fds : \E fault : accept(p, s, n, fault)
  <2>1. 1 .. 2 \in SUBSET Nat /\ 1 \in Nat /\ "read" \in Receipts BY DEF Receipts
  <2> HIDE DEF Moves
  <2> QED BY <2>1 DEF SocketStep
<1>8. SameThreads => Halting(p, s) BY DEF SameThreads, NoBlock, Halting
<1>9. Moves /\ Halting(p, s)
  <2>1. <<>> \in Seq(Open(p)) OBVIOUS
  <2>2. \A m \in Passable(p) : <<m>> \in Seq(Open(p))
    <3> SUFFICES ASSUME NEW m \in Passable(p) PROVE <<m>> \in Seq(Open(p)) OBVIOUS
    <3> DEFINE O == Open(p)
    <3>1. m \in O BY DEF Passable
    <3> HIDE DEF O
    <3>2. <<m>> \in Seq(O) BY <3>1
    <3> QED BY <3>2 DEF O
  <2> HIDE DEF Moves, Makes
  <2> QED BY <1>1, <1>2, <1>3, <1>4, <1>5, <1>7, <1>8, <2>1, <2>2
<1>10. CanCall(p, s)
  BY <1>7 DEF socketpair, pipe, socket, bind, connect, listen, unlink_socket, send, receive,
     shutdown, accept
<1>11. PendingMoves BY <1>9, <1>10, HaltingMoves
<1> QED BY <1>6, <1>9, <1>11, Settles

\* A change of the registrations of a kqueue.
LEMMA QueueEdited ==
    ASSUME DescriptionsOpen, NEW p \in Pids, NEW n \in Fds, NEW v
    PROVE  fds' = [fds EXCEPT ![p][n].queue = v] =>
              TablesMove /\ \A q \in Pids : Retains(fds[q], fds'[q])
<1> DEFINE L == LiveEntries
           x == fds[p][n]
           e == [x EXCEPT !.queue = v]
<1>1. CopyOf(x, L) BY OwnCopies DEF Copies
<1>2. CopyOf(e, L) /\ e.kind = x.kind /\ e.obj = x.obj
  <2> HIDE DEF x, L
  <2> QED BY <1>1 DEF CopyOf, IsEntry, Placed
<1>3. fds' = [fds EXCEPT ![p][n].queue = v] => fds' = [fds EXCEPT ![p][n] = e] OBVIOUS
<1> HIDE DEF e
<1>4. ASSUME fds' = [fds EXCEPT ![p][n] = e]
      PROVE  TablesMove /\ \A q \in Pids : Retains(fds[q], fds'[q])
  <2>1. CopyOf(e, LiveEntries) /\ (fds[p][n].kind = "file" => e.kind = "file" /\ e.obj = fds[p][n].obj)
    BY <1>2
  <2> HIDE DEF L, x
  <2> QED BY <1>4, <2>1, OneEntryMoves
<1> QED BY <1>3, <1>4

LEMMA CollectMoves ==
    ASSUME DescriptionsOpen, NEW p \in Pids, NEW n \in Fds, NEW count, Collect(p, n, count)
    PROVE  TablesMove /\ \A q \in Pids : Retains(fds[q], fds'[q])
<1> PICK c \in Collections(p, n, count) :
        fds' = [fds EXCEPT ![p][n].queue = Reported(p, n, c)]
  BY DEF Collect
<1> QED BY QueueEdited

LEMMA EventStepKeeps ==
    ASSUME ProcessesAgree, ReferencesKept, NEW p \in Pids, NEW s \in Slots, EventStep(p, s)
    PROVE  ReferencesKept' /\ RightsKept
<1>0. DescriptionsOpen /\ StreamTypes BY DEF ReferencesKept
<1>1. UNCHANGED <<stream, shut, queue, descr, flocks>>
  BY DEF EventStep, SameFiles, SameSockets, fileVars, socketVars
<1> DEFINE Moves == TablesMove /\ \A q \in Pids : Retains(fds[q], fds'[q])
<1>2. ASSUME kqueue(p, s), SameThreads PROVE Moves /\ Halting(p, s)
  <2> DEFINE b == Entry("kqueue", 0)
             e == [b EXCEPT !.queue = {}]
             T == Installed(fds[p], e)
  <2>1. CopyOf(e, LiveEntries)
    <3>1. IsEntry(b) /\ b.kind = "kqueue" BY NewEntry
    <3> HIDE DEF b
    <3> QED BY <3>1 DEF CopyOf, IsEntry, Placed
  <2>2. ~Full(fds[p]) /\ fds' = [fds EXCEPT ![p] = T]
    BY <1>2 DEF kqueue, Full, FreeFds, Open
  <2>3. Copies(T, LiveEntries) /\ Retains(fds[p], T)
    <3> HIDE DEF e
    <3> QED BY <2>1, <2>2, OwnCopies, <1>0, InstalledCopies
  <2> HIDE DEF T
  <2>4. Moves BY <1>0, <2>2, <2>3, OneTableMoves
  <2> QED BY <1>2, <2>4 DEF Halting, NoBlock, SameThreads
<1>3. ASSUME NEW n \in Fds, NEW c \in Changes, kevent_change(p, s, n, c)
      PROVE  Moves /\ Halting(p, s)
  <2>1. fds' = [fds EXCEPT ![p][n].queue = Changed(fds[p][n].queue, c)] /\ NoBlock
    BY <1>3 DEF kevent_change
  <2>2. Moves BY <1>0, <2>1, QueueEdited
  <2> QED BY <2>1, <2>2 DEF Halting
<1>4. ASSUME NEW n \in Fds, NEW t, kevent(p, s, n, 1, t) PROVE Moves /\ Halting(p, s)
  <2>1. CASE Collect(p, n, 1) /\ NoBlock
    BY <1>0, <2>1, CollectMoves DEF Halting
  <2>2. CASE ~(Collect(p, n, 1) /\ NoBlock)
    <3> DEFINE c == [op |-> "kevent", fd |-> n, count |-> 1, deadline |-> DeadlineAfter(t)]
    <3>1. Block(p, s, c) /\ fds' = fds BY <1>4, <2>2 DEF kevent
    <3>2. Wanting(c) BY DEF Wanting
    <3> HIDE DEF c
    <3> QED BY <1>0, <3>1, <3>2, TablesStay DEF Halting
  <2> QED BY <2>1, <2>2
<1>5. ASSUME NEW n \in Fds, NEW t, select(p, s, {n}, {}, t), fds' = fds
      PROVE  Moves /\ Halting(p, s)
  <2> DEFINE c == [op |-> "select", reads |-> {n}, writes |-> {}, deadline |-> DeadlineAfter(t)]
  <2>1. Block(p, s, c) BY <1>5 DEF select
  <2>2. Wanting(c) BY DEF Wanting
  <2> HIDE DEF c
  <2> QED BY <1>0, <1>5, <2>1, <2>2, TablesStay DEF Halting
<1>6. CanCall(p, s) /\ Moves /\ Halting(p, s)
  <2>1. \/ kqueue(p, s) /\ SameThreads
        \/ \E n \in Fds, c \in Changes : kevent_change(p, s, n, c)
        \/ \E n \in Fds : \E t : kevent(p, s, n, 1, t)
        \/ \E n \in Fds : \E t : select(p, s, {n}, {}, t) /\ fds' = fds
    BY DEF EventStep
  <2>2. CanCall(p, s) BY <2>1 DEF kqueue, kevent_change, kevent, select
  <2> HIDE DEF Moves
  <2> QED BY <1>2, <1>3, <1>4, <1>5, <2>1, <2>2
<1> QED BY <1>1, <1>6, HaltingMoves, KeepsFiles

\* The child of a fork or a spawn had no descriptors, so its table forgets none.
LEMMA BornMoves ==
    ASSUME ProcessesAgree, ReferencesKept, Unused # {}, NEW T, Copies(T, LiveEntries),
           fds' = [fds EXCEPT ![Descendant] = T],
           UNCHANGED <<stream, shut, queue, descr, flocks, pending>>
    PROVE  ReferencesKept' /\ RightsKept
<1> DEFINE c == Descendant
<1>0. DescriptionsOpen BY DEF ReferencesKept
<1>1. c \in Pids /\ fds[c] = NoDescriptors /\ fds' = [fds EXCEPT ![c] = T] BY DescendantIsNew
<1> HIDE DEF c
<1>2. Retains(fds[c], T) BY <1>1, ClosedEntry DEF Retains, NoDescriptors
<1>3. TablesMove /\ \A q \in Pids : Retains(fds[q], fds'[q])
  BY <1>0, <1>1, <1>2, OneTableMoves
<1> QED BY <1>3, PendingStays, KeepsFiles

LEMMA DieMoves ==
    ASSUME ReferencesKept, NEW victims, NEW status, NEW removed, Die(victims, status, removed)
    PROVE  ReferencesKept' /\ RightsKept
<1>0. DescriptionsOpen /\ StreamTypes BY DEF ReferencesKept
<1>1. /\ fds' = [q \in Pids |-> IF q \in victims THEN NoDescriptors ELSE fds[q]]
      /\ UNCHANGED <<stream, shut, pending>> /\ ListenersSettled /\ FilesSettled
  BY DEF Die
<1>2. TablesMove
  BY <1>0, <1>1, OwnCopies, NoDescriptorsCopies DEF TablesMove, Table
<1>3. FlightMoves /\ QueueMoves /\ RightsKept /\ PendingMoves
  BY <1>0, <1>1, FlightStays, QueuesMove, StreamsStay, PendingStays
<1> QED BY <1>1, <1>2, <1>3, Settles

LEMMA ProcessStepKeeps ==
    ASSUME ProcessesAgree, ReferencesKept, NEW p \in Pids, NEW s \in Slots, ProcessStep(p, s)
    PROVE  ReferencesKept' /\ RightsKept
<1>0. DescriptionsOpen /\ StreamTypes /\ Copies(fds[p], LiveEntries)
  BY OwnCopies DEF ReferencesKept
<1>1. CASE fork(p, s)
  <2>1. /\ Unused # {} /\ fds' = [fds EXCEPT ![Descendant] = fds[p]]
        /\ UNCHANGED <<stream, shut, queue, descr, flocks, pending>>
    BY <1>1 DEF fork, SameSockets, socketVars
  <2> QED BY <1>0, <2>1, BornMoves
<1>2. CASE exit_process(p, s, "0") BY <1>2, DieMoves DEF exit_process
<1>3. CASE \E q \in Pids, by \in {"pid", "group", "all"}, g \in Signals :
               kill(p, s, [by |-> by, pid |-> q], g)
  BY <1>3, DieMoves DEF kill
<1>4. CASE exec(p, s)
  <2>1. Copies(AfterExec(fds[p]), LiveEntries) BY <1>0, AfterExecCopies
  <2>2. fds' = [fds EXCEPT ![p] = AfterExec(fds[p])] BY <1>4 DEF exec
  <2>3. TablesMove BY <1>0, <2>1, <2>2, OneTableMoves
  <2>4. /\ UNCHANGED <<stream, shut>> /\ ListenersSettled /\ FilesSettled
        /\ pending' = [pending EXCEPT ![p] = [t \in Slots |-> Idle]]
    BY <1>4 DEF exec, ExecEffect
  <2>5. FlightMoves /\ QueueMoves /\ RightsKept /\ PendingMoves
    BY <1>0, <2>4, FlightStays, QueuesMove, StreamsStay, IdlePending
  <2> QED BY <2>3, <2>4, <2>5, Settles
<1>5. ASSUME NEW loads \in BOOLEAN, spawn(p, s, loads) PROVE ReferencesKept' /\ RightsKept
  <2> DEFINE T == IF loads THEN AfterExec(fds[p]) ELSE NoDescriptors
  <2>1. Copies(T, LiveEntries) BY <1>0, AfterExecCopies, NoDescriptorsCopies
  <2>2. /\ Unused # {} /\ fds' = [fds EXCEPT ![Descendant] = T]
        /\ UNCHANGED <<stream, shut, queue, descr, flocks, pending>>
    BY <1>5 DEF spawn, SpawnChild, SameSockets, socketVars
  <2> HIDE DEF T
  <2> QED BY <2>1, <2>2, BornMoves
<1> DEFINE Others ==
        SameKernel /\ (pending' = pending \/ \E q : CanCall(p, s) /\ Block(p, s, [op |-> "wait", target |-> q]))
<1>6. CASE Others
  <2>1. UNCHANGED <<stream, shut, queue, descr, flocks, fds>>
    BY <1>6 DEF SameKernel, SameFiles, SameSockets, fileVars, socketVars
  <2>2. TablesMove /\ \A q \in Pids : Retains(fds[q], fds'[q]) BY <1>0, <2>1, TablesStay
  <2>3. /\ PendingMoves
        /\ \A q \in Pids, t \in Slots :
              pending[q][t].op = "flock" => pending'[q][t] = pending[q][t]
    <3>1. CASE pending' = pending BY <3>1, PendingStays
    <3>2. ASSUME NEW q, CanCall(p, s), Block(p, s, [op |-> "wait", target |-> q])
          PROVE  /\ PendingMoves
                 /\ \A r \in Pids, t \in Slots :
                       pending[r][t].op = "flock" => pending'[r][t] = pending[r][t]
      <4> DEFINE c == [op |-> "wait", target |-> q]
      <4>1. Wanting(c) BY DEF Wanting
      <4> HIDE DEF c
      <4> QED BY <3>2, <4>1, BlockedMoves DEF c
    <3> QED BY <1>6, <3>1, <3>2
  <2> QED BY <2>1, <2>2, <2>3, KeepsFiles
<1>7. \/ fork(p, s) \/ exit_process(p, s, "0") \/ exec(p, s)
      \/ \E loads \in BOOLEAN : spawn(p, s, loads)
      \/ \E q \in Pids, by \in {"pid", "group", "all"}, g \in Signals :
               kill(p, s, [by |-> by, pid |-> q], g)
      \/ Others
  BY DEF ProcessStep, SameThreads, wait4, wait4_nohang, NoBlock
<1> QED BY <1>1, <1>2, <1>3, <1>4, <1>5, <1>6, <1>7

LEMMA GrantedGood ==
    ASSUME FlocksHeld, DescriptionsOpen, NEW p \in Pids, NEW s \in Slots, LockReady(p, s)
    PROVE  FlocksGood(Granted(p, s))
<1> DEFINE c == pending[p][s]
           d == c.obj
<1>1. CASE c.op = "flock"
  <2>1. d \in Descriptions /\ descr[d] \in Inodes /\ c.kind \in LockKinds /\ d \in Held
    BY <1>1, LiveEntry DEF DescriptionsOpen, Wanting
  <2>2. CanAcquire(flocks[descr[d]], d, c.kind) BY <1>1 DEF LockReady
  <2>3. FlocksGood([flocks EXCEPT ![descr[d]] = Acquired(@, d, c.kind)])
    <3> DEFINE kind == c.kind
    <3> HIDE DEF d, kind
    <3> QED BY <2>1, <2>2, AcquiredGood DEF kind
  <2> QED BY <1>1, <2>3 DEF Granted
<1>2. CASE c.op # "flock" BY <1>2, FlocksAreGood DEF Granted
<1> QED BY <1>1, <1>2

LEMMA DeliveryKeeps ==
    ASSUME ProcessesAgree, ReferencesKept, NEW p \in Pids, NEW s \in Slots,
           deliver_pending_io(p, s)
    PROVE  ReferencesKept' /\ RightsKept
<1> DEFINE c == pending[p][s]
<1>0. DescriptionsOpen /\ FlocksHeld /\ StreamTypes /\ Wanting(c)
  BY DEF ReferencesKept, DescriptionsOpen
<1>1. PendingMoves
  BY WokenPending
  DEF deliver_pending_io, complete_lock, complete_socket, complete_event, Woken
<1>2. CASE /\ complete_lock(p, s) /\ fds' = fds /\ SameSockets
           /\ DescriptionsSettled /\ flocks' = FlocksSettled(Granted(p, s), Held')
  <2>1. FlocksGood(Granted(p, s)) BY <1>0, <1>2, GrantedGood DEF complete_lock
  <2>2. UNCHANGED <<stream, shut, queue>> BY <1>2 DEF SameSockets, socketVars
  <2>3. EntriesMove /\ RightsKept
    BY <1>0, <1>2, <2>2, TablesStay, FlightStays, QueuesMove, StreamsStay DEF EntriesMove
  <2>4. DescriptionsOpen' /\ FlocksHeld'
    BY <1>0, <1>1, <1>2, <2>1, <2>3, SettledStep DEF DescriptionsSettled
  <2> QED BY <2>3, <2>4 DEF ReferencesKept, RightsKept
<1>3. CASE complete_socket(p, s, 1) /\ FilesSettled
  <2>1. shut' = shut /\ SocketReady(p, s) BY <1>3 DEF complete_socket
  <2>2. CASE c.op = "accept"
    <3>1. AcceptEffect(p, c.fd, FALSE) /\ AcceptReady(p, c.fd) /\ stream' = stream
      BY <1>3, <2>2 DEF complete_socket, SocketReady
    <3>2. c.fd \in Fds BY <1>0, <2>2 DEF Wanting
    <3>3. TablesMove /\ QueueMoves BY <1>0, <3>1, <3>2, AcceptMoves
    <3>4. FlightMoves /\ RightsKept BY <1>0, <2>1, <3>1, FlightStays, StreamsStay
    <3> QED BY <1>1, <1>3, <3>3, <3>4, Settles
  <2>3. CASE c.op = "receive"
    <3>1. c.fd \in Fds /\ c.how \in {"read", "message"} BY <1>0, <2>3 DEF Wanting
    <3>2. queue' = queue
          /\ IF Is(p, c.fd, "pair") THEN RecvEffect(p, c.fd, 1, c.how)
             ELSE UNCHANGED <<stream, fds>>
      BY <1>3, <2>3 DEF complete_socket
    <3>3. TablesMove /\ FlightMoves /\ RightsKept
      <4>1. CASE Is(p, c.fd, "pair")
        <5>1. RecvEffect(p, c.fd, 1, c.how) /\ 1 \in Nat /\ c.how # "fault" BY <3>1, <3>2, <4>1
        <5> DEFINE n == c.fd
                   how == c.how
        <5>2. n \in Fds /\ Is(p, n, "pair") /\ RecvEffect(p, n, 1, how) /\ how # "fault"
          BY <3>1, <4>1, <5>1
        <5> HIDE DEF n, how
        <5>3. /\ StreamTypes' /\ FlightMoves /\ TablesMove
              /\ (RightsBoundToBytes => RightsBoundToBytes')
          BY <1>0, <2>1, <5>1, <5>2, RecvMoves
        <5> QED BY <5>3 DEF RightsKept
      <4>2. CASE ~Is(p, c.fd, "pair")
        BY <1>0, <2>1, <3>2, <4>2, TablesStay, FlightStays, StreamsStay
      <4> QED BY <4>1, <4>2
    <3>4. QueueMoves BY <1>0, <3>2, QueuesMove
    <3> QED BY <1>1, <1>3, <3>3, <3>4, Settles
  <2> QED BY <2>1, <2>2, <2>3 DEF SocketReady
<1>4. CASE complete_event(p, s) /\ SameSockets /\ FilesSettled
  <2>1. TablesMove
    <3>1. CASE fds' = fds BY <1>0, <3>1, TablesStay
    <3>2. CASE fds' # fds
      <4>1. c.op = "kevent" /\ Collect(p, c.fd, c.count) BY <1>4, <3>2 DEF complete_event
      <4>2. c.fd \in Fds BY <1>0, <4>1 DEF Wanting
      <4> QED BY <1>0, <4>1, <4>2, CollectMoves
    <3> QED BY <3>1, <3>2
  <2>2. UNCHANGED <<stream, shut, queue>> BY <1>4 DEF SameSockets, socketVars
  <2>3. FlightMoves /\ QueueMoves /\ RightsKept
    BY <1>0, <2>2, FlightStays, QueuesMove, StreamsStay
  <2> QED BY <1>1, <1>4, <2>1, <2>3, Settles
<1> QED BY <1>2, <1>3, <1>4 DEF deliver_pending_io

LEMMA LoopStepKeeps ==
    ASSUME ProcessesAgree, ReferencesKept, LoopStep
    PROVE  ReferencesKept' /\ RightsKept
<1>0. DescriptionsOpen /\ StreamTypes BY DEF ReferencesKept
<1>1. ASSUME advance_time PROVE ReferencesKept' /\ RightsKept
  <2> DEFINE out == Alarmed(clock + 1)
  <2>1. /\ fds' = [q \in Pids |-> IF q \in out THEN NoDescriptors ELSE fds[q]]
        /\ UNCHANGED <<stream, shut, pending>> /\ ListenersSettled /\ FilesSettled
    BY <1>1 DEF advance_time
  <2> HIDE DEF out
  <2>2. TablesMove
    BY <1>0, <2>1, OwnCopies, NoDescriptorsCopies DEF TablesMove, Table
  <2>3. FlightMoves /\ QueueMoves /\ RightsKept /\ PendingMoves
    BY <1>0, <2>1, FlightStays, QueuesMove, StreamsStay, PendingStays
  <2> QED BY <2>1, <2>2, <2>3, Settles
<1>2. ASSUME NEW p \in Pids, retire_runtime(p) PROVE ReferencesKept' /\ RightsKept
  <2>1. /\ pending' = [pending EXCEPT ![p] = [s \in Slots |-> Idle]]
        /\ UNCHANGED <<fds, stream, shut, queue>> /\ FilesSettled
    BY <1>2 DEF retire_runtime
  <2>2. TablesMove /\ FlightMoves /\ QueueMoves /\ RightsKept /\ PendingMoves
    BY <1>0, <2>1, TablesStay, FlightStays, QueuesMove, StreamsStay, IdlePending
  <2> QED BY <2>1, <2>2, Settles
<1>3. ASSUME NEW p \in Pids, NEW s \in Slots, reap_waits(p, s) PROVE ReferencesKept' /\ RightsKept
  <2>1. /\ pending' = [pending EXCEPT ![p][s] = Idle] /\ pending[p][s].op = "wait"
        /\ UNCHANGED <<stream, shut, queue, descr, flocks, fds>>
    BY <1>3 DEF reap_waits, complete_wait, SameFiles, SameSockets, fileVars, socketVars
  <2>2. TablesMove /\ \A q \in Pids : Retains(fds[q], fds'[q]) BY <1>0, <2>1, TablesStay
  <2>3. /\ PendingMoves
        /\ \A q \in Pids, t \in Slots :
              pending[q][t].op = "flock" => pending'[q][t] = pending[q][t]
    <3>1. pending' = [pending EXCEPT ![p][s] = Idle] BY <2>1
    <3>2. /\ PendingMoves
          /\ \A q \in Pids, t \in Slots :
                pending'[q][t] = IF q = p /\ t = s THEN Idle ELSE pending[q][t]
      BY <3>1, WokenPending
    <3> QED BY <2>1, <3>2
  <2> QED BY <2>1, <2>2, <2>3, KeepsFiles
<1>4. ASSUME NEW p \in Pids, NEW s \in Slots, reap_exited(p, s) PROVE ReferencesKept' /\ RightsKept
  <2>1. UNCHANGED <<stream, shut, queue, descr, flocks, fds, pending>>
    BY <1>4 DEF reap_exited, SameFiles, SameSockets, fileVars, socketVars
  <2>2. TablesMove /\ \A q \in Pids : Retains(fds[q], fds'[q]) BY <1>0, <2>1, TablesStay
  <2> QED BY <2>1, <2>2, PendingStays, KeepsFiles
<1> QED BY <1>1, <1>2, <1>3, <1>4, DeliveryKeeps DEF LoopStep

LEMMA ReferencesStep ==
    ASSUME ProcessesAgree, ReferencesKept, LinksLead, Next
    PROVE  ReferencesKept' /\ RightsKept
BY ProcessStepKeeps, DescriptorStepKeeps, LockStepKeeps, OpenStepKeeps, NameStepKeeps,
   DataStepKeeps, SocketStepKeeps, EventStepKeeps, LoopStepKeeps DEF Next

LEMMA ReferencesBegin == Init => ReferencesKept /\ RightsBoundToBytes
<1> SUFFICES ASSUME Init PROVE ReferencesKept /\ RightsBoundToBytes OBVIOUS
<1>1. /\ fds = [p \in Pids |-> NoDescriptors]
      /\ pending = [p \in Pids |-> [s \in Slots |-> Idle]]
      /\ descr = [d \in Descriptions |-> 0] /\ flocks = [i \in Inodes |-> NoFlock]
      /\ stream = [k \in Pairs |-> [x \in Sides |-> Empty]]
      /\ shut = [k \in Pairs |-> [x \in Sides |-> [read |-> FALSE, write |-> FALSE]]]
      /\ queue = [l \in Listeners |-> <<>>]
  BY DEF Init, ProcessesInit, DescriptorsInit, FilesInit, SocketsInit
<1>2. Empty.len = 0 /\ Empty.offset = 0 /\ Empty.taken = 0 /\ Empty.anc = << >>
  BY DEF Empty
<1>3. SeqSet(Empty.anc) = {} /\ DOMAIN Empty.anc = {} BY <1>2 DEF SeqSet
<1>4. GoodStream(Empty)
  <2>1. Empty.anc \in Seq(SeqSet(Empty.anc)) BY <1>2
  <2>2. Empty \in [len : Nat, offset : Nat, taken : Nat, anc : Seq(SeqSet(Empty.anc))]
    <3> DEFINE Q == Seq(SeqSet(Empty.anc))
    <3>1. << >> \in Q OBVIOUS
    <3> HIDE DEF Q
    <3>2. Empty \in [len : Nat, offset : Nat, taken : Nat, anc : Q] BY <3>1 DEF Empty
    <3> QED BY <3>2 DEF Q
  <2> QED BY <1>3, <2>2 DEF GoodStream
<1>5. StreamTypes
  BY <1>1, <1>4 DEF StreamTypes, Table
<1>6. RightsBoundToBytes
  <2>1. \A k \in Pairs, x \in Sides : stream[k][x] = Empty BY <1>1
  <2> QED BY <1>2, <1>3, <2>1 DEF RightsBoundToBytes
<1>7. InFlight = {}
  <2>1. Carrying(Empty) = {} BY <1>3 DEF Carrying
  <2>2. \A k \in Pairs, x \in Sides : Carrying(stream[k][x]) = {} BY <1>1, <2>1
  <2> QED BY <2>2 DEF InFlight
<1>8. \A e \in LiveEntries : e = Closed
  <2>1. \A p \in Pids, n \in Fds : fds[p][n] = Closed BY <1>1 DEF NoDescriptors
  <2> QED BY <1>7, <2>1 DEF LiveEntries, Entries
<1>9. IsEntry(Closed) /\ Referring(Closed)
  <2>1. IsEntry(Closed) /\ Closed.kind = "closed" BY NewEntry DEF Closed
  <2> QED BY <2>1 DEF Referring, Placed
<1>10. DescriptionsOpen
  <2>1. Table(fds, Pids) /\ \A p \in Pids : Table(fds[p], Fds)
    BY <1>1 DEF Table, NoDescriptors
  <2>2. descr \in [Descriptions -> Inodes \cup {0}] BY <1>1
  <2>3. queue \in [Listeners -> Seq(Endpoint)]
    <3>1. << >> \in Seq(Endpoint) OBVIOUS
    <3> QED BY <1>1, <3>1
  <2>4. \A p \in Pids, s \in Slots : Wanting(pending[p][s]) BY <1>1 DEF Wanting, Idle
  <2> QED BY <1>8, <1>9, <2>1, <2>2, <2>3, <2>4 DEF DescriptionsOpen
<1>11. FlocksHeld
  <2>1. NoFlock \in Flock /\ NoFlock.exclusive = NoOwner /\ FlockOwners(NoFlock) = {}
    BY DEF NoFlock, Flock, FlockOwners
  <2> QED BY <1>1, <2>1 DEF FlocksHeld
<1> QED BY <1>5, <1>6, <1>10, <1>11 DEF ReferencesKept

-----------------------------------------------------------------------------
(***************************************************************************)
(* Record locks: what is carved out of them and what is added keeps two    *)
(* overlapping locks of two processes, and shared.                         *)
(***************************************************************************)
GoodLocks(locks) ==
    /\ locks \in SUBSET RecordLock /\ \A l \in locks : l.start < l.end
    /\ Disjoint(locks)

IsRange(r) == r.start \in Nat /\ r.end \in Nat /\ r.start <= r.end

LEMMA RangesAre ==
    /\ \A r \in LockRanges : IsRange(r) /\ r.start < r.end /\ r.kind \in LockKinds
    /\ IsRange(EveryByte)
<1>1. ASSUME NEW r \in LockRanges PROVE IsRange(r) /\ r.start < r.end /\ r.kind \in LockKinds
  <2>1. /\ r \in [kind : LockKinds, start : LockOffsets, end : LockOffsets \cup {Unbounded}]
        /\ r.start < r.end
    BY DEF LockRanges
  <2>2. r.start \in Nat /\ r.end \in Nat /\ r.kind \in LockKinds BY <2>1, LockAssumption
  <2> QED BY <2>1, <2>2 DEF IsRange
<1>2. EveryByte.start = 0 /\ EveryByte.end = Unbounded BY DEF EveryByte
<1>3. IsRange(EveryByte) BY <1>2, LockAssumption DEF IsRange
<1> QED BY <1>1, <1>3

LEMMA RemainderIs ==
    ASSUME NEW l \in RecordLock, l.start < l.end, NEW r, IsRange(r), ranges_overlap(l, r),
           NEW m \in Remainder(l, r)
    PROVE  /\ m \in RecordLock /\ m.pid = l.pid /\ m.kind = l.kind /\ m.start < m.end
           /\ l.start <= m.start /\ m.end <= l.end
           /\ \/ m = [l EXCEPT !.end = r.start] /\ m.end = r.start
              \/ m = [l EXCEPT !.start = r.end] /\ m.start = r.end
<1> DEFINE a == r.start
           b == r.end
<1>0. /\ l.start \in Nat /\ l.end \in Nat /\ a \in Nat /\ b \in Nat /\ a <= b
      /\ a < l.end /\ l.start < b
  BY DEF RecordLock, IsRange, ranges_overlap
<1>1. \/ l.start < a /\ m = [l EXCEPT !.end = a]
      \/ b < l.end /\ m = [l EXCEPT !.start = b]
  BY DEF Remainder
<1> HIDE DEF a, b
<1>2. CASE l.start < a /\ m = [l EXCEPT !.end = a]
  <2>1. m \in RecordLock /\ m.pid = l.pid /\ m.kind = l.kind /\ m.start = l.start /\ m.end = a
    BY <1>0, <1>2 DEF RecordLock
  <2> QED BY <1>0, <1>2, <2>1 DEF a
<1>3. CASE b < l.end /\ m = [l EXCEPT !.start = b]
  <2>1. m \in RecordLock /\ m.pid = l.pid /\ m.kind = l.kind /\ m.end = l.end /\ m.start = b
    BY <1>0, <1>3 DEF RecordLock
  <2> QED BY <1>0, <1>3, <2>1 DEF b
<1> QED BY <1>1, <1>2, <1>3

\* A lock of the carved table is (a part of) one of the old table.
PartOf(l, m, p, r) ==
    /\ l \in RecordLock /\ l.start < l.end
    /\ l.pid = m.pid /\ l.kind = m.kind /\ m.start <= l.start /\ l.end <= m.end
    /\ \/ l = m /\ ~(m.pid = p /\ ranges_overlap(m, r))
       \/ /\ m.pid = p /\ ranges_overlap(m, r)
          /\ \/ l = [m EXCEPT !.end = r.start] /\ l.end = r.start
             \/ l = [m EXCEPT !.start = r.end] /\ l.start = r.end

LEMMA CarvedParts ==
    ASSUME NEW locks, GoodLocks(locks), NEW p, NEW r, IsRange(r), NEW l \in Carved(locks, p, r)
    PROVE  \E m \in locks : PartOf(l, m, p, r)
<1>1. CASE l \in locks \ Replaced(locks, p, r)
  <2>1. /\ l \in RecordLock /\ l.start < l.end /\ l.start \in Nat /\ l.end \in Nat
        /\ ~(l.pid = p /\ ranges_overlap(l, r)) /\ l \in locks
    BY <1>1 DEF Replaced, GoodLocks, RecordLock
  <2>2. PartOf(l, l, p, r) BY <2>1 DEF PartOf
  <2> QED BY <2>1, <2>2
<1>2. CASE \E m \in Replaced(locks, p, r) : l \in Remainder(m, r)
  <2> PICK m \in Replaced(locks, p, r) : l \in Remainder(m, r) BY <1>2
  <2>1. m \in RecordLock /\ m.start < m.end /\ m.pid = p /\ ranges_overlap(m, r) /\ m \in locks
    BY DEF Replaced, GoodLocks
  <2>2. PartOf(l, m, p, r) BY <2>1, RemainderIs DEF PartOf
  <2> QED BY <2>1, <2>2
<1> QED BY <1>1, <1>2 DEF Carved

LEMMA PartsApart ==
    ASSUME NEW locks, GoodLocks(locks), NEW p, NEW r, IsRange(r),
           NEW l1, NEW m1 \in locks, PartOf(l1, m1, p, r),
           NEW l2, NEW m2 \in locks, PartOf(l2, m2, p, r),
           l1 # l2, ranges_overlap(l1, l2)
    PROVE  l1.pid # l2.pid /\ ~locks_conflict(l1.kind, l2.kind)
<1>1. /\ l1.start \in Nat /\ l1.end \in Nat /\ l2.start \in Nat /\ l2.end \in Nat
      /\ m1.start \in Nat /\ m1.end \in Nat /\ m2.start \in Nat /\ m2.end \in Nat
  BY DEF PartOf, GoodLocks, RecordLock
<1>2. l1.start < l2.end /\ l2.start < l1.end BY <1>1 DEF ranges_overlap
<1>3. CASE m1 # m2
  <2>1. m1.start <= l1.start /\ l1.end <= m1.end /\ m2.start <= l2.start /\ l2.end <= m2.end
        /\ l1.pid = m1.pid /\ l2.pid = m2.pid /\ l1.kind = m1.kind /\ l2.kind = m2.kind
    BY DEF PartOf
  <2>2. ranges_overlap(m1, m2) BY <1>1, <1>2, <2>1 DEF ranges_overlap
  <2>3. m1.pid # m2.pid /\ ~locks_conflict(m1.kind, m2.kind)
    BY <1>3, <2>2 DEF GoodLocks, Disjoint
  <2> QED BY <2>1, <2>3
<1>4. CASE m1 = m2
  <2> DEFINE left == [m1 EXCEPT !.end = r.start]
             right == [m1 EXCEPT !.start = r.end]
  <2>1. /\ (l1 = left /\ l1.end = r.start) \/ (l1 = right /\ l1.start = r.end)
        /\ (l2 = left /\ l2.end = r.start) \/ (l2 = right /\ l2.start = r.end)
    BY <1>4 DEF PartOf
  <2> HIDE DEF left, right
  <2>2. \/ l1.end = r.start /\ l2.start = r.end
        \/ l2.end = r.start /\ l1.start = r.end
    BY <2>1
  <2>3. r.start \in Nat /\ r.end \in Nat /\ r.start <= r.end BY DEF IsRange
  <2> DEFINE a == r.start
             b == r.end
             s1 == l1.start
             e1 == l1.end
             s2 == l2.start
             e2 == l2.end
  <2>4. /\ (e1 = a /\ s2 = b) \/ (e2 = a /\ s1 = b)
        /\ a \in Nat /\ b \in Nat /\ a <= b /\ s1 < e2 /\ s2 < e1
    BY <1>2, <2>2, <2>3
  <2>5. s1 \in Nat /\ e1 \in Nat /\ s2 \in Nat /\ e2 \in Nat BY <1>1
  <2> HIDE DEF a, b, s1, e1, s2, e2
  <2>6. FALSE BY <2>4, <2>5
  <2> QED BY <2>6
<1> QED BY <1>3, <1>4

LEMMA CarvedGood ==
    ASSUME NEW locks, GoodLocks(locks), NEW p, NEW r, IsRange(r)
    PROVE  /\ GoodLocks(Carved(locks, p, r))
           /\ \A l \in Carved(locks, p, r) :
                 /\ \E m \in locks : l.pid = m.pid
                 /\ l.pid = p => ~ranges_overlap(l, r)
                 /\ l.pid # p => l \in locks
<1> DEFINE C == Carved(locks, p, r)
<1>1. \A l \in C : \E m \in locks : PartOf(l, m, p, r) BY CarvedParts
<1> HIDE DEF C
<1>2. \A l \in C : l \in RecordLock /\ l.start < l.end BY <1>1 DEF PartOf
<1>3. Disjoint(C)
  <2> SUFFICES ASSUME NEW l1 \in C, NEW l2 \in C, l1 # l2, ranges_overlap(l1, l2)
               PROVE  l1.pid # l2.pid /\ ~locks_conflict(l1.kind, l2.kind)
    BY DEF Disjoint
  <2> PICK m1 \in locks : PartOf(l1, m1, p, r) BY <1>1
  <2> PICK m2 \in locks : PartOf(l2, m2, p, r) BY <1>1
  <2> QED BY PartsApart
<1>4. GoodLocks(C) BY <1>2, <1>3 DEF GoodLocks
<1>5. ASSUME NEW l \in C
      PROVE  /\ \E m \in locks : l.pid = m.pid
             /\ l.pid = p => ~ranges_overlap(l, r)
             /\ l.pid # p => l \in locks
  <2> PICK m \in locks : PartOf(l, m, p, r) BY <1>1
  <2>1. l.pid = m.pid BY DEF PartOf
  <2>2. ASSUME l.pid # p PROVE l \in locks BY <2>1, <2>2 DEF PartOf
  <2>3. ASSUME l.pid = p PROVE ~ranges_overlap(l, r)
    <3>1. \/ ~ranges_overlap(l, r)
          \/ l.end = r.start \/ l.start = r.end
      BY <2>1, <2>3 DEF PartOf
    <3>2. l.start \in Nat /\ l.end \in Nat /\ r.start \in Nat /\ r.end \in Nat
      BY <1>2 DEF RecordLock, IsRange
    <3> QED BY <3>1, <3>2 DEF ranges_overlap
  <2> QED BY <2>1, <2>2, <2>3
<1> QED BY <1>4, <1>5 DEF C

LEMMA LockSetGood ==
    ASSUME NEW locks, GoodLocks(locks), NEW p \in Pids, NEW r \in LockRanges,
           CanSetRecordLock(locks, p, r)
    PROVE  /\ GoodLocks(RecordLockSet(locks, p, r))
           /\ \A l \in RecordLockSet(locks, p, r) : l.pid = p \/ \E m \in locks : l.pid = m.pid
<1> DEFINE C == Carved(locks, p, r)
           x == [kind |-> r.kind, start |-> r.start, end |-> r.end, pid |-> p]
<1>1. IsRange(r) /\ r.start < r.end /\ r.kind \in LockKinds BY RangesAre
<1>2. /\ GoodLocks(C)
      /\ \A l \in C : /\ \E m \in locks : l.pid = m.pid
                      /\ l.pid = p => ~ranges_overlap(l, r)
                      /\ l.pid # p => l \in locks
  BY <1>1, CarvedGood
<1>3. /\ x \in RecordLock /\ x.start = r.start /\ x.end = r.end /\ x.pid = p /\ x.kind = r.kind
  BY <1>1 DEF RecordLock, IsRange
<1>4. RecordLockSet(locks, p, r) = C \cup {x} BY DEF RecordLockSet
<1> HIDE DEF C, x
<1>5. ASSUME NEW l \in C, ranges_overlap(l, x) \/ ranges_overlap(x, l)
      PROVE  l.pid # x.pid /\ ~locks_conflict(l.kind, x.kind) /\ ~locks_conflict(x.kind, l.kind)
  <2>1. ranges_overlap(l, r) BY <1>3, <1>5 DEF ranges_overlap
  <2>2. l.pid # p /\ l \in locks BY <1>2, <2>1
  <2>3. ~Conflicts(l, p, r) BY <2>2 DEF CanSetRecordLock, RecordConflict
  <2>4. ~locks_conflict(l.kind, r.kind) BY <2>1, <2>2, <2>3 DEF Conflicts
  <2> QED BY <1>3, <2>2, <2>4 DEF locks_conflict
<1>6. Disjoint(C \cup {x}) BY <1>2, <1>5 DEF GoodLocks, Disjoint
<1>7. GoodLocks(C \cup {x})
  BY <1>1, <1>2, <1>3, <1>6 DEF GoodLocks
<1> QED BY <1>2, <1>3, <1>4, <1>7

\* Who may own a record lock: a live process, or one that its alarm ended and
\* whose threads may still be granted what they wait for.
Owning(q) == Live(q) \/ process[q].alarmed

OwnersStay == \A q \in Pids : Owning(q) => Owning(q)'

LEMMA RecordsAre ==
    ASSUME RecordsHeld
    PROVE  /\ Table(records, Inodes)
           /\ \A i \in Inodes : /\ GoodLocks(records[i])
                                /\ \A l \in records[i] : l.pid \in Pids /\ Owning(l.pid)
BY DEF RecordsHeld, Table, GoodLocks, Owning, RecordLock

LEMMA RecordsMade ==
    ASSUME Table(records', Inodes),
           \A i \in Inodes : /\ GoodLocks(records'[i])
                             /\ \A l \in records'[i] : Owning(l.pid)'
    PROVE  RecordsHeld'
<1>1. records' \in [Inodes -> SUBSET RecordLock] BY DEF Table, GoodLocks
<1> QED BY <1>1 DEF RecordsHeld, GoodLocks, Owning

LEMMA RecordsStay ==
    ASSUME RecordsHeld, OwnersStay, records' = records
    PROVE  RecordsHeld'
BY RecordsAre, RecordsMade DEF OwnersStay

LEMMA OneFileRecords ==
    ASSUME RecordsHeld, OwnersStay, NEW i, NEW t, records' = [records EXCEPT ![i] = t],
           i \in Inodes => GoodLocks(t) /\ \A l \in t : Owning(l.pid)
    PROVE  RecordsHeld'
<1>1. /\ Table(records', Inodes)
      /\ \A j \in Inodes : records'[j] = IF j = i THEN t ELSE records[j]
  BY RecordsAre DEF Table
<1>2. ASSUME NEW j \in Inodes
      PROVE  GoodLocks(records'[j]) /\ \A l \in records'[j] : Owning(l.pid)'
  <2>1. GoodLocks(records'[j]) /\ \A l \in records'[j] : Owning(l.pid)
    BY <1>1, RecordsAre
  <2>2. \A l \in records'[j] : l.pid \in Pids BY <2>1 DEF GoodLocks, RecordLock
  <2> QED BY <2>1, <2>2 DEF OwnersStay
<1> QED BY <1>1, <1>2, RecordsMade

LEMMA UnlockedRecords ==
    ASSUME RecordsHeld, OwnersStay, NEW i, NEW p, NEW r, IsRange(r),
           records' = [records EXCEPT ![i] = unlock_record_lock(@, p, r)]
    PROVE  RecordsHeld'
<1> DEFINE t == unlock_record_lock(records[i], p, r)
<1>1. i \in Inodes => GoodLocks(t) /\ \A l \in t : Owning(l.pid)
  <2> SUFFICES ASSUME i \in Inodes PROVE GoodLocks(t) /\ \A l \in t : Owning(l.pid) OBVIOUS
  <2>1. GoodLocks(records[i]) /\ \A l \in records[i] : Owning(l.pid) BY RecordsAre
  <2>2. GoodLocks(t) /\ \A l \in t : \E m \in records[i] : l.pid = m.pid
    BY <2>1, CarvedGood DEF unlock_record_lock
  <2> QED BY <2>1, <2>2
<1>2. records' = [records EXCEPT ![i] = t] OBVIOUS
<1> HIDE DEF t
<1> QED BY <1>1, <1>2, OneFileRecords

LEMMA LockedRecords ==
    ASSUME RecordsHeld, OwnersStay, NEW i \in Inodes, NEW p \in Pids, NEW r \in LockRanges,
           Owning(p), CanSetRecordLock(records[i], p, r),
           records' = [records EXCEPT ![i] = RecordLockSet(@, p, r)]
    PROVE  RecordsHeld'
<1> DEFINE t == RecordLockSet(records[i], p, r)
<1>1. GoodLocks(records[i]) /\ \A l \in records[i] : Owning(l.pid) BY RecordsAre
<1>2. GoodLocks(t) /\ \A l \in t : l.pid = p \/ \E m \in records[i] : l.pid = m.pid
  BY <1>1, LockSetGood
<1>3. records' = [records EXCEPT ![i] = t] OBVIOUS
<1> HIDE DEF t
<1>4. \A l \in t : Owning(l.pid) BY <1>1, <1>2
<1> QED BY <1>2, <1>3, <1>4, OneFileRecords

LEMMA ReleasedRecords ==
    ASSUME RecordsHeld, NEW victims, \A q \in Pids \ victims : Owning(q) => Owning(q)',
           records' = [i \in Inodes |-> release_process_record_locks(records[i], victims)]
    PROVE  RecordsHeld'
<1>1. Table(records', Inodes) BY DEF Table
<1>2. ASSUME NEW i \in Inodes
      PROVE  GoodLocks(records'[i]) /\ \A l \in records'[i] : Owning(l.pid)'
  <2>1. /\ GoodLocks(records[i])
        /\ \A l \in records[i] : l.pid \in Pids /\ Owning(l.pid)
    BY RecordsAre
  <2>2. /\ records'[i] \subseteq records[i]
        /\ \A l \in records'[i] : l.pid \notin victims
    BY DEF release_process_record_locks
  <2>3. GoodLocks(records'[i]) BY <2>1, <2>2 DEF GoodLocks, Disjoint
  <2> QED BY <2>1, <2>2, <2>3
<1> QED BY <1>1, <1>2, RecordsMade

LEMMA ClosedRecords ==
    ASSUME RecordsHeld, OwnersStay, NEW p, NEW n, records' = RecordsWithout(p, n)
    PROVE  RecordsHeld'
BY RangesAre, UnlockedRecords, RecordsStay DEF RecordsWithout

LEMMA ExecedRecords ==
    ASSUME RecordsHeld, OwnersStay, NEW p, records' = ExecRecords(p)
    PROVE  RecordsHeld'
<1> DEFINE closing == {OpenInode(p, n) : n \in {m \in CloseOnExec(fds[p]) : Is(p, m, "file")}}
<1>1. records' = [i \in Inodes |-> IF i \in closing
                     THEN unlock_record_lock(records[i], p, EveryByte) ELSE records[i]]
  BY DEF ExecRecords
<1> HIDE DEF closing
<1>2. Table(records', Inodes) BY <1>1 DEF Table
<1>3. ASSUME NEW i \in Inodes
      PROVE  GoodLocks(records'[i]) /\ \A l \in records'[i] : Owning(l.pid)'
  <2> DEFINE old == records[i]
             new == unlock_record_lock(old, p, EveryByte)
  <2>1. GoodLocks(old) /\ \A l \in old : l.pid \in Pids /\ Owning(l.pid) BY RecordsAre
  <2>2. GoodLocks(new) /\ \A l \in new : \E m \in old : l.pid = m.pid
    <3> HIDE DEF old
    <3> QED BY <2>1, RangesAre, CarvedGood DEF unlock_record_lock
  <2>3. records'[i] = old \/ records'[i] = new BY <1>1
  <2> HIDE DEF old, new
  <2> QED BY <2>1, <2>2, <2>3 DEF OwnersStay
<1> QED BY <1>2, <1>3, RecordsMade

LEMMA SameOwners ==
    ASSUME process' = process
    PROVE  OwnersStay
BY DEF OwnersStay, Owning, Live

LEMMA BornOwners ==
    ASSUME ProcessesAgree, Unused # {}, NEW v, process' = [process EXCEPT ![Descendant] = v]
    PROVE  OwnersStay
<1> DEFINE c == Descendant
<1>1. c \in Pids /\ ~Owning(c) BY DescendantIsNew DEF Owning, Live
<1>2. process' = [process EXCEPT ![c] = v] OBVIOUS
<1> HIDE DEF c
<1>3. \A q \in Pids : q # c => process'[q] = process[q]
  BY <1>1, <1>2 DEF ProcessesAgree, Tables, Table
<1> QED BY <1>1, <1>3 DEF OwnersStay, Owning, Live

LEMMA DiedRecords ==
    ASSUME RecordsHeld, NEW victims, NEW status, NEW removed, Die(victims, status, removed)
    PROVE  RecordsHeld'
<1>1. \A q \in Pids \ victims : process'[q] = process[q] BY DEF Die, ExitEffect
<1>2. \A q \in Pids \ victims : Owning(q) => Owning(q)' BY <1>1 DEF Owning, Live
<1>3. records' = [i \in Inodes |-> release_process_record_locks(records[i], victims)]
  BY DEF Die
<1> QED BY <1>2, <1>3, ReleasedRecords

LEMMA IdentityOwners ==
    ASSUME ProcessesAgree, NEW p \in Pids, NEW s \in Slots,
           (\E u, e : setuid(p, s, u, e)) \/ setsid(p, s)
    PROVE  OwnersStay
<1>1. ASSUME NEW q \in Pids
      PROVE  /\ process'[q].exists = process[q].exists
             /\ process'[q].exited = process[q].exited
             /\ process'[q].alarmed = process[q].alarmed
  <2>1. process[q] \in ProcessSet /\ Table(process, Pids)
    BY DEF ProcessesAgree, Agrees, Typed, Tables
  <2>2. CASE q = p
    <3>1. CASE setsid(p, s) BY <2>1, <2>2, <3>1 DEF setsid, Table, ProcessSet
    <3>2. CASE \E u, e : setuid(p, s, u, e)
      <4> PICK u, e : setuid(p, s, u, e) BY <3>2
      <4> DEFINE v == IF ~e /\ process[p].euid = Root THEN u ELSE process[p].uid
      <4>1. process' = [process EXCEPT ![p].euid = u, ![p].uid = v] BY DEF setuid
      <4> HIDE DEF v
      <4> QED BY <2>1, <2>2, <4>1 DEF Table, ProcessSet
    <3> QED BY <3>1, <3>2
  <2>3. CASE q # p
    BY <2>1, <2>3 DEF setuid, setsid, Table
  <2> QED BY <2>2, <2>3
<1> QED BY <1>1 DEF OwnersStay, Owning, Live

LEMMA ProcessStepRecords ==
    ASSUME ProcessesAgree, RecordsHeld, NEW p \in Pids, NEW s \in Slots, ProcessStep(p, s)
    PROVE  RecordsHeld'
<1>1. CASE fork(p, s)
  <2>1. /\ Unused # {} /\ records' = records
        /\ process' = [process EXCEPT ![Descendant] =
              [process[p] EXCEPT !.exited = FALSE, !.alarmed = FALSE]]
    BY <1>1 DEF fork, CreateEffect
  <2> QED BY <2>1, BornOwners, RecordsStay
<1>2. ASSUME NEW loads \in BOOLEAN, spawn(p, s, loads) PROVE RecordsHeld'
  <2>1. /\ Unused # {} /\ records' = records
        /\ process' = [process EXCEPT ![Descendant] =
              [process[p] EXCEPT !.exited = ~loads, !.alarmed = FALSE]]
    BY <1>2 DEF spawn, SpawnChild
  <2> QED BY <2>1, BornOwners, RecordsStay
<1>3. CASE \/ exit_process(p, s, "0")
           \/ \E q \in Pids, by \in {"pid", "group", "all"}, g \in Signals :
                  kill(p, s, [by |-> by, pid |-> q], g)
  BY <1>3, DiedRecords DEF exit_process, kill
<1>4. CASE exec(p, s)
  <2>1. records' = ExecRecords(p) /\ process' = process BY <1>4 DEF exec
  <2> QED BY <2>1, SameOwners, ExecedRecords
<1>5. CASE /\ (\E u, e : setuid(p, s, u, e)) \/ setsid(p, s)
           /\ records' = records
  BY <1>5, IdentityOwners, RecordsStay
<1>6. CASE process' = process /\ records' = records BY <1>6, SameOwners, RecordsStay
<1>7. \/ fork(p, s) \/ exit_process(p, s, "0") \/ exec(p, s)
      \/ \E loads \in BOOLEAN : spawn(p, s, loads)
      \/ \E q \in Pids, by \in {"pid", "group", "all"}, g \in Signals :
               kill(p, s, [by |-> by, pid |-> q], g)
      \/ ((\E u, e : setuid(p, s, u, e)) \/ setsid(p, s)) /\ records' = records
      \/ process' = process /\ records' = records
  BY DEF ProcessStep, SameKernel, SameFiles, fileVars, SameProcess
<1> QED BY <1>1, <1>2, <1>3, <1>4, <1>5, <1>6, <1>7

LEMMA WaitersOwn ==
    ASSUME ProcessesAgree, NEW p \in Pids, NEW s \in Slots, threads[p][s] = "waiting"
    PROVE  Owning(p)
BY DEF ProcessesAgree, Agrees, Emptied, Owning

LEMMA RecordsStep ==
    ASSUME ProcessesAgree, DescriptionsOpen, RecordsHeld, Next
    PROVE  RecordsHeld'
<1>1. ASSUME NEW p \in Pids, NEW s \in Slots, DescriptorStep(p, s) PROVE RecordsHeld'
  <2>1. process' = process
        /\ \/ records' = records \/ \E n \in Fds : records' = RecordsWithout(p, n)
    BY <1>1 DEF DescriptorStep, close, dup2, SameProcess, SameFiles, fileVars
  <2> QED BY <2>1, SameOwners, RecordsStay, ClosedRecords
<1>2. ASSUME NEW p \in Pids, NEW s \in Slots, LockStep(p, s) PROVE RecordsHeld'
  <2>1. process' = process BY <1>2 DEF LockStep, SameProcess
  <2>2. OwnersStay BY <2>1, SameOwners
  <2>3. ASSUME NEW n \in Fds, NEW r \in LockRanges, fcntl_setlk(p, s, n, r, TRUE)
        PROVE  RecordsHeld'
    <3> DEFINE i == OpenInode(p, n)
    <3>1. i \in Inodes BY <2>3, FileEntry DEF fcntl_setlk
    <3>2. Owning(p) BY <2>3 DEF fcntl_setlk, CanCall, Owning
    <3>3. \/ /\ CanSetRecordLock(records[i], p, r)
             /\ records' = [records EXCEPT ![i] = RecordLockSet(@, p, r)]
          \/ records' = records
      BY <2>3 DEF fcntl_setlk
    <3> HIDE DEF i
    <3> QED BY <2>2, <3>1, <3>2, <3>3, LockedRecords, RecordsStay
  <2>4. ASSUME NEW n \in Fds, NEW r \in LockRanges, fcntl_unlck(p, s, n, r)
        PROVE  RecordsHeld'
    <3>1. records' = [records EXCEPT ![OpenInode(p, n)] = unlock_record_lock(@, p, r)]
      BY <2>4 DEF fcntl_unlck
    <3>2. IsRange(r) BY RangesAre
    <3> QED BY <2>2, <3>1, <3>2, UnlockedRecords
  <2>5. CASE records' = records BY <2>2, <2>5, RecordsStay
  <2> QED BY <1>2, <2>3, <2>4, <2>5 DEF LockStep
<1>3. ASSUME NEW p \in Pids, NEW s \in Slots,
             \/ OpenStep(p, s) \/ NameStep(p, s) \/ DataStep(p, s)
             \/ SocketStep(p, s) \/ EventStep(p, s)
      PROVE  RecordsHeld'
  <2>1. process' = process /\ records' = records
    BY <1>3 DEF OpenStep, open, NameStep, DataStep, SocketStep, EventStep, SameProcess, SameFiles,
       fileVars
  <2> QED BY <2>1, SameOwners, RecordsStay
<1>4. ASSUME advance_time PROVE RecordsHeld'
  <2> DEFINE out == Alarmed(clock + 1)
  <2>1. /\ records' = [i \in Inodes |-> release_process_record_locks(records[i], out)]
        /\ \A q \in Pids \ out : process'[q] = process[q]
    BY <1>4 DEF advance_time
  <2> HIDE DEF out
  <2>2. \A q \in Pids \ out : Owning(q) => Owning(q)' BY <2>1 DEF Owning, Live
  <2> QED BY <2>1, <2>2, ReleasedRecords
<1>5. ASSUME NEW p \in Pids, NEW s \in Slots, deliver_pending_io(p, s) PROVE RecordsHeld'
  <2> DEFINE c == pending[p][s]
  <2>1. process' = process /\ threads[p][s] = "waiting"
    BY <1>5 DEF deliver_pending_io, SameProcess
  <2>2. OwnersStay /\ Owning(p) BY <2>1, SameOwners, WaitersOwn
  <2>3. CASE complete_lock(p, s) /\ c.op = "setlkw"
    <3>1. c.obj \in Inodes /\ c.request \in LockRanges BY <2>3 DEF DescriptionsOpen, Wanting
    <3>2. CanSetRecordLock(records[c.obj], p, c.request)
      BY <2>3 DEF complete_lock, LockReady
    <3>3. records' = [records EXCEPT ![c.obj] = RecordLockSet(@, p, c.request)]
      BY <2>3 DEF complete_lock
    <3> DEFINE i == c.obj
               r == c.request
    <3>4. /\ i \in Inodes /\ r \in LockRanges /\ CanSetRecordLock(records[i], p, r)
          /\ records' = [records EXCEPT ![i] = RecordLockSet(@, p, r)]
      BY <3>1, <3>2, <3>3
    <3> HIDE DEF c, i, r
    <3> QED BY <2>2, <3>4, LockedRecords
  <2>4. CASE records' = records BY <2>2, <2>4, RecordsStay
  <2>5. complete_lock(p, s) /\ c.op # "setlkw" => records' = records BY DEF complete_lock
  <2>6. complete_lock(p, s) \/ records' = records
    BY <1>5 DEF deliver_pending_io
  <2> QED BY <2>3, <2>4, <2>5, <2>6
<1>6. ASSUME NEW p \in Pids, NEW s \in Slots, reap_waits(p, s) \/ reap_exited(p, s)
      PROVE  RecordsHeld'
  <2>1. process' = process /\ records' = records
    BY <1>6 DEF reap_waits, reap_exited, SameProcess, SameFiles, fileVars
  <2> QED BY <2>1, SameOwners, RecordsStay
<1>7. ASSUME NEW p \in Pids, retire_runtime(p) PROVE RecordsHeld'
  <2>1. process' = process /\ records' = records
    BY <1>7 DEF retire_runtime, SameProcess
  <2> QED BY <2>1, SameOwners, RecordsStay
<1> QED BY <1>1, <1>2, <1>3, <1>4, <1>5, <1>6, <1>7, ProcessStepRecords DEF Next, LoopStep

LEMMA RecordsBegin == Init => RecordsHeld
<1> SUFFICES ASSUME Init PROVE RecordsHeld OBVIOUS
<1>1. records = [i \in Inodes |-> {}] BY DEF Init, FilesInit
<1> QED BY <1>1 DEF RecordsHeld, Disjoint

\* What overlapping locks may be, byte by byte.
LEMMA BytesFollow ==
    ASSUME NEW locks, GoodLocks(locks)
    PROVE  ByteMapFunctional(locks, Pids) /\ ByteMapCompatible(locks, Pids)
<1>1. ASSUME NEW l \in locks, NEW m \in locks, NEW b \in Bytes, l # m,
             l.start <= b, b < l.end, m.start <= b, b < m.end
      PROVE  l.pid # m.pid /\ ~locks_conflict(l.kind, m.kind)
  <2>1. /\ l.start \in Nat /\ l.end \in Nat /\ m.start \in Nat /\ m.end \in Nat /\ b \in Nat
    BY LockAssumption DEF GoodLocks, RecordLock, Bytes
  <2>2. ranges_overlap(l, m) BY <1>1, <2>1 DEF ranges_overlap
  <2> QED BY <1>1, <2>2 DEF GoodLocks, Disjoint
<1> DEFINE on(p, b) == {m \in locks : m.pid = p /\ m.start <= b /\ b < m.end}
<1>2. ASSUME NEW p \in Pids, NEW b \in Bytes PROVE Cardinality(HeldOn(locks, p, b)) <= 1
  <2>1. HeldOn(locks, p, b) = {l.kind : l \in on(p, b)} BY DEF HeldOn
  <2>2. \A l \in on(p, b), m \in on(p, b) : l = m BY <1>1
  <2>3. CASE on(p, b) = {}
    <3>1. HeldOn(locks, p, b) = {} BY <2>1, <2>3
    <3> QED BY <3>1, FS_EmptySet
  <2>4. CASE on(p, b) # {}
    <3> PICK l \in on(p, b) : TRUE BY <2>4
    <3>1. HeldOn(locks, p, b) = {l.kind}
      <4> HIDE DEF on
      <4> QED BY <2>1, <2>2
    <3> DEFINE k == l.kind
    <3> HIDE DEF k
    <3>2. Cardinality({k}) = 1 BY FS_Singleton
    <3> QED BY <3>1, <3>2 DEF k
  <2> QED BY <2>3, <2>4
<1>3. ASSUME NEW b \in Bytes, NEW p \in Pids, NEW q \in Pids, p # q,
             NEW k \in HeldOn(locks, p, b), NEW m \in HeldOn(locks, q, b)
      PROVE  ~locks_conflict(k, m)
  <2> PICK x \in on(p, b) : k = x.kind BY DEF HeldOn
  <2> PICK y \in on(q, b) : m = y.kind BY DEF HeldOn
  <2> QED BY <1>1, <1>3
<1> QED BY <1>2, <1>3 DEF ByteMapFunctional, ByteMapCompatible

LEMMA LocksFollow ==
    ASSUME FlocksHeld, RecordsHeld
    PROVE  LocksExact
<1>1. \A i \in Inodes : ByteMapFunctional(records[i], Pids) /\ ByteMapCompatible(records[i], Pids)
  BY RecordsAre, BytesFollow
<1>2. \A i \in Inodes : \A p \in RecordOwners(i) : Live(p) \/ process[p].alarmed
  BY DEF RecordsHeld, RecordOwners
<1> QED BY <1>1, <1>2 DEF LocksExact, FlocksHeld, FlockOwners

-----------------------------------------------------------------------------
(***************************************************************************)
(* Names: what a step does to the directory and to what the tables know of *)
(* its inodes.                                                             *)
(***************************************************************************)
InodeKinds == {"free", "file", "dir", "symlink"}

GoodInode(x) ==
    /\ x \in [kind : InodeKinds, size : {x.size}, target : {x.target}, owner : {x.owner}]
    /\ x.kind = "symlink" => x.target \in Names

Nothing == [a \in Attributes |-> "unset"]

LEMMA NamesAre ==
    ASSUME NamesKept
    PROVE  /\ LinksLead /\ Table(inodes, Inodes) /\ Table(override, Inodes) /\ Table(named, Inodes)
           /\ \A i \in Inodes : GoodInode(inodes[i]) /\ Table(named[i], Attributes)
           /\ \A i \in Inodes : Links(i) = {} => override[i] = {} /\ named[i] = Nothing
           /\ \A n \in sidecars : n \in Names /\ Exists(n) /\ KindOf(n) # "dir"
           /\ 0 \notin Inodes
BY FileAssumption DEF NamesKept, MetadataHasName, LinksLead, GoodInode, InodeKinds, Nothing

LEMMA NamesMade ==
    ASSUME names' \in [Names -> Inodes \cup {0}],
           Table(inodes', Inodes), Table(override', Inodes), Table(named', Inodes),
           \A i \in Inodes : GoodInode(inodes'[i]) /\ Table(named'[i], Attributes),
           \A i \in Inodes : (\A n \in Names : names'[n] # i) =>
                 override'[i] = {} /\ named'[i] = Nothing,
           \A n \in sidecars' : n \in Names /\ names'[n] # 0 /\ inodes'[names'[n]].kind # "dir"
    PROVE  NamesKept'
<1>1. MetadataHasName'
  <2>1. \A i \in Inodes : Links(i)' = {} => override'[i] = {} /\ named'[i] = Nothing
    BY DEF Links
  <2> QED BY <2>1 DEF MetadataHasName, Exists, Nothing
<1> QED BY <1>1 DEF NamesKept, KindOf, Exists, GoodInode, InodeKinds

\* What an inode is to the directory: its kind and, for a symbolic link, its target.
SameInode(x, y) == x.kind = y.kind /\ x.target = y.target

\* A step that leaves the directory alone and writes only about inodes that
\* have a name.
LEMMA TouchKeeps ==
    ASSUME NamesKept, names' = names,
           Table(inodes', Inodes), Table(override', Inodes), Table(named', Inodes),
           \A i \in Inodes : /\ GoodInode(inodes'[i]) /\ SameInode(inodes'[i], inodes[i])
                             /\ Table(named'[i], Attributes)
                             /\ \/ override'[i] = override[i] /\ named'[i] = named[i]
                                \/ Links(i) # {},
           \A n \in sidecars' : n \in sidecars \/ (n \in Names /\ Exists(n) /\ KindOf(n) # "dir")
    PROVE  NamesKept'
<1>1. \A n \in sidecars' : n \in Names /\ names[n] # 0 /\ inodes[names[n]].kind # "dir"
  BY NamesAre DEF KindOf, Exists
<1>2. \A n \in sidecars' : n \in Names /\ names'[n] # 0 /\ inodes'[names'[n]].kind # "dir"
  BY <1>1, NamesAre DEF SameInode, LinksLead
<1>3. \A i \in Inodes : (\A n \in Names : names'[n] # i) =>
         override'[i] = {} /\ named'[i] = Nothing
  BY NamesAre DEF Links
<1>4. names' \in [Names -> Inodes \cup {0}] BY NamesAre DEF LinksLead
<1> QED BY <1>2, <1>3, <1>4, NamesMade

LEMMA NewInode ==
    ASSUME NEW kind \in InodeKinds, NEW target, kind = "symlink" => target \in Names, NEW owner
    PROVE  GoodInode([kind |-> kind, size |-> 0, target |-> target, owner |-> owner])
BY DEF GoodInode

\* A new inode under a name that was free.
LEMMA CreatedKeeps ==
    ASSUME NamesKept, NEW p, NEW at \in Names, ~Exists(at), NEW fresh \in FreeInodes,
           NEW kind \in InodeKinds, NEW target, kind = "symlink" => target \in Names,
           Created(p, fresh, kind, target), names' = [names EXCEPT ![at] = fresh],
           UNCHANGED <<sidecars, named>>
    PROVE  NamesKept'
<1> DEFINE x == [kind |-> kind, size |-> 0, target |-> target, owner |-> process[p].euid]
           o == override[fresh] \cup {"mode", "owner", "times"}
<1>1. fresh \in Inodes /\ Links(fresh) = {} BY DEF FreeInodes
<1>2. GoodInode(x) BY NewInode
<1>3. inodes' = [inodes EXCEPT ![fresh] = x] /\ override' = [override EXCEPT ![fresh] = o]
  BY DEF Created
<1> HIDE DEF x, o
<1>4. /\ Table(inodes', Inodes)
      /\ \A i \in Inodes : inodes'[i] = IF i = fresh THEN x ELSE inodes[i]
  BY <1>1, <1>3, NamesAre DEF Table
<1>5. /\ Table(override', Inodes)
      /\ \A i \in Inodes : i # fresh => override'[i] = override[i]
  BY <1>1, <1>3, NamesAre DEF Table
<1>6. /\ names' \in [Names -> Inodes \cup {0}]
      /\ \A n \in Names : names'[n] = IF n = at THEN fresh ELSE names[n]
  BY <1>1, NamesAre DEF LinksLead
<1>7. ASSUME NEW i \in Inodes, \A n \in Names : names'[n] # i
      PROVE  override'[i] = {} /\ named'[i] = Nothing
  <2>1. i # fresh BY <1>6, <1>7
  <2>2. Links(i) = {}
    <3> SUFFICES ASSUME NEW n \in Names, names[n] = i PROVE FALSE BY DEF Links
    <3>1. n = at BY <1>6, <1>7
    <3> QED BY <3>1, NamesAre DEF Exists
  <2> QED BY <1>5, <2>1, <2>2, NamesAre
<1>8. ASSUME NEW n \in sidecars'
      PROVE  n \in Names /\ names'[n] # 0 /\ inodes'[names'[n]].kind # "dir"
  <2>1. n \in Names /\ names[n] # 0 /\ inodes[names[n]].kind # "dir"
    BY NamesAre DEF KindOf, Exists
  <2>2. n # at /\ names[n] # fresh /\ names[n] \in Inodes
    BY <1>1, <2>1, NamesAre DEF Exists, Links, LinksLead
  <2> QED BY <1>4, <1>6, <2>1, <2>2
<1>9. \A i \in Inodes : GoodInode(inodes'[i]) /\ Table(named'[i], Attributes)
  BY <1>2, <1>4, NamesAre
<1>10. Table(named', Inodes) BY NamesAre
<1> QED BY <1>4, <1>5, <1>6, <1>7, <1>8, <1>9, <1>10, NamesMade

InodesStay ==
    /\ Table(inodes', Inodes)
    /\ \A i \in Inodes : GoodInode(inodes'[i]) /\ SameInode(inodes'[i], inodes[i])

LEMMA OneInode ==
    ASSUME NamesKept, NEW j, NEW y, inodes' = [inodes EXCEPT ![j] = y],
           j \in Inodes => GoodInode(y) /\ SameInode(y, inodes[j])
    PROVE  InodesStay
<1>1. /\ Table(inodes', Inodes)
      /\ \A i \in Inodes : inodes'[i] = IF i = j THEN y ELSE inodes[i]
  BY NamesAre DEF Table
<1> QED BY <1>1, NamesAre DEF InodesStay, SameInode

LEMMA InodeEdited ==
    ASSUME NamesKept, NEW j, NEW v
    PROVE  /\ inodes' = [inodes EXCEPT ![j].owner = v] => InodesStay
           /\ inodes' = [inodes EXCEPT ![j].size = v] => InodesStay
           /\ inodes' = inodes => InodesStay
<1> DEFINE x == inodes[j]
           y == [x EXCEPT !.owner = v]
           z == [x EXCEPT !.size = v]
<1>1. j \in Inodes => GoodInode(x) BY NamesAre
<1>2. j \in Inodes => GoodInode(y) /\ SameInode(y, x)
  <2> HIDE DEF x
  <2> QED BY <1>1 DEF GoodInode, SameInode
<1>3. j \in Inodes => GoodInode(z) /\ SameInode(z, x)
  <2> HIDE DEF x
  <2> QED BY <1>1 DEF GoodInode, SameInode
<1>4. /\ inodes' = [inodes EXCEPT ![j].owner = v] => inodes' = [inodes EXCEPT ![j] = y]
      /\ inodes' = [inodes EXCEPT ![j].size = v] => inodes' = [inodes EXCEPT ![j] = z]
  OBVIOUS
<1> HIDE DEF y, z
<1>5. inodes' = [inodes EXCEPT ![j] = y] => InodesStay BY <1>2, OneInode
<1>6. inodes' = [inodes EXCEPT ![j] = z] => InodesStay BY <1>3, OneInode
<1>7. inodes' = inodes => InodesStay BY NamesAre DEF InodesStay, SameInode
<1> QED BY <1>4, <1>5, <1>6, <1>7

LEMMA ForgottenIs ==
    ASSUME NamesKept, NEW j, Forgotten(j)
    PROVE  /\ InodesStay /\ Table(override', Inodes) /\ Table(named', Inodes)
           /\ \A i \in Inodes : Table(named'[i], Attributes)
           /\ \A i \in Inodes : /\ override'[i] = IF i = j THEN {} ELSE override[i]
                                /\ named'[i] = IF i = j THEN Nothing ELSE named[i]
<1>1. /\ inodes' = [inodes EXCEPT ![j].owner = Root]
      /\ override' = [override EXCEPT ![j] = {}]
      /\ named' = [named EXCEPT ![j] = Nothing]
  BY DEF Forgotten, Nothing
<1>2. InodesStay BY <1>1, InodeEdited
<1>3. /\ Table(override', Inodes) /\ Table(named', Inodes)
      /\ \A i \in Inodes : /\ override'[i] = IF i = j THEN {} ELSE override[i]
                           /\ named'[i] = IF i = j THEN Nothing ELSE named[i]
  BY <1>1, NamesAre DEF Table
<1>4. Table(Nothing, Attributes) BY DEF Nothing, Table
<1> QED BY <1>2, <1>3, <1>4, NamesAre

\* unlink, rmdir and rename: names go, and what the tables know of an inode
\* that has lost its last name is forgotten.
LEMMA GoneKeeps ==
    ASSUME NamesKept, names' \in [Names -> Inodes \cup {0}], InodesStay,
           Table(override', Inodes), Table(named', Inodes),
           \A i \in Inodes : Table(named'[i], Attributes),
           \A i \in Inodes : \/ override'[i] = {} /\ named'[i] = Nothing
                             \/ /\ override'[i] = override[i] /\ named'[i] = named[i]
                                /\ Links(i) = {} \/ \E n \in Names : names'[n] = i,
           \A n \in sidecars' : /\ n \in Names /\ names'[n] # 0
                                /\ inodes[names'[n]].kind # "dir"
    PROVE  NamesKept'
<1>1. \A i \in Inodes : GoodInode(inodes'[i]) /\ inodes'[i].kind = inodes[i].kind
  BY DEF InodesStay, SameInode
<1>2. \A n \in sidecars' : n \in Names /\ names'[n] # 0 /\ inodes'[names'[n]].kind # "dir"
  BY <1>1
<1>3. ASSUME NEW i \in Inodes, \A n \in Names : names'[n] # i
      PROVE  override'[i] = {} /\ named'[i] = Nothing
  BY <1>3, NamesAre
<1> QED BY <1>1, <1>2, <1>3, NamesMade DEF InodesStay

LEMMA UnlinkKeeps ==
    ASSUME NamesKept, NEW p, NEW s, NEW n \in Names, unlink(p, s, n) \/ rmdir(p, s, n)
    PROVE  NamesKept'
<1> DEFINE j == names[n]
<1>1. j \in Inodes
  BY NamesAre DEF unlink, rmdir, Exists, KindOf, LinksLead
<1>2. /\ names' = [names EXCEPT ![n] = 0]
      /\ sidecars' = sidecars \ {n} \/ (sidecars' = sidecars /\ KindOf(n) = "dir")
  BY DEF unlink, rmdir
<1>3. /\ names' \in [Names -> Inodes \cup {0}]
      /\ \A m \in Names : names'[m] = IF m = n THEN 0 ELSE names[m]
  BY <1>2, NamesAre DEF LinksLead
<1>4. \A m \in sidecars' : m \in Names /\ names'[m] # 0 /\ inodes[names'[m]].kind # "dir"
  <2> SUFFICES ASSUME NEW m \in sidecars'
               PROVE  m \in Names /\ names'[m] # 0 /\ inodes[names'[m]].kind # "dir"
    OBVIOUS
  <2>1. m \in Names /\ names[m] # 0 /\ inodes[names[m]].kind # "dir" /\ KindOf(m) # "dir"
    BY <1>2, NamesAre DEF KindOf, Exists
  <2>2. m # n BY <1>2, <2>1
  <2> QED BY <1>3, <2>1, <2>2
<1>5. \A i \in Inodes : i # j => Links(i) = {} \/ \E m \in Names : names'[m] = i
  BY <1>3 DEF Links
<1>6. CASE Forgotten(j)
  <2>1. \A i \in Inodes : \/ override'[i] = {} /\ named'[i] = Nothing
                          \/ /\ override'[i] = override[i] /\ named'[i] = named[i]
                             /\ Links(i) = {} \/ \E m \in Names : names'[m] = i
    BY <1>5, <1>6, ForgottenIs
  <2> QED BY <1>3, <1>4, <1>6, <2>1, ForgottenIs, GoneKeeps
<1>7. CASE ~Forgotten(j)
  <2>1. UNCHANGED <<inodes, override, named>> /\ ~(Cardinality(Links(j)) <= 1)
    BY <1>7 DEF unlink, rmdir
  <2>2. \E m \in Names : names[m] = j /\ m # n
    <3> SUFFICES ASSUME \A m \in Names : names[m] = j => m = n PROVE FALSE OBVIOUS
    <3>1. Links(j) = {n} BY DEF Links
    <3>2. Cardinality({n}) = 1 BY FS_Singleton
    <3> QED BY <2>1, <3>1, <3>2
  <2>3. \A i \in Inodes : Links(i) = {} \/ \E m \in Names : names'[m] = i
    BY <1>3, <1>5, <2>2
  <2>4. InodesStay BY <2>1, InodeEdited
  <2>5. Table(override', Inodes) /\ Table(named', Inodes) BY <2>1, NamesAre
  <2>6. \A i \in Inodes : Table(named'[i], Attributes) BY <2>1, NamesAre
  <2> QED BY <1>3, <1>4, <2>1, <2>3, <2>4, <2>5, <2>6, GoneKeeps
<1> QED BY <1>6, <1>7

LEMMA LinkKeeps ==
    ASSUME NamesKept, NEW p, NEW s, NEW from \in Names, NEW to \in Names, link(p, s, from, to)
    PROVE  NamesKept'
<1> DEFINE at == Resolve(from)
<1>1. /\ at \in Names /\ names[at] # 0 /\ inodes[names[at]].kind # "dir" /\ names[to] = 0
      /\ names' = [names EXCEPT ![to] = names[at]]
      /\ sidecars' = sidecars \/ sidecars' = sidecars \cup {to}
      /\ UNCHANGED <<inodes, override, named>>
  BY NamesAre, ResolvesToName DEF link, Reaches, KindOf, Exists
<1> HIDE DEF at
<1>2. /\ names' \in [Names -> Inodes \cup {0}]
      /\ \A m \in Names : names'[m] = IF m = to THEN names[at] ELSE names[m]
  BY <1>1, NamesAre DEF LinksLead
<1>3. \A m \in sidecars' : m \in Names /\ names'[m] # 0 /\ inodes[names'[m]].kind # "dir"
  <2> SUFFICES ASSUME NEW m \in sidecars'
               PROVE  m \in Names /\ names'[m] # 0 /\ inodes[names'[m]].kind # "dir"
    OBVIOUS
  <2>1. CASE m = to BY <1>1, <1>2, <2>1
  <2>2. CASE m # to
    <3>1. m \in Names /\ names[m] # 0 /\ inodes[names[m]].kind # "dir"
      BY <1>1, <2>2, NamesAre DEF KindOf, Exists
    <3> QED BY <1>2, <2>2, <3>1
  <2> QED BY <2>1, <2>2
<1>4. \A i \in Inodes : Links(i) = {} \/ \E m \in Names : names'[m] = i
  BY <1>1, <1>2, NamesAre DEF Links
<1>5. InodesStay BY <1>1, InodeEdited
<1>6. Table(override', Inodes) /\ Table(named', Inodes) BY <1>1, NamesAre
<1>7. \A i \in Inodes : Table(named'[i], Attributes) BY <1>1, NamesAre
<1> QED BY <1>1, <1>2, <1>3, <1>4, <1>5, <1>6, <1>7, GoneKeeps

LEMMA RenameKeeps ==
    ASSUME NamesKept, NEW p, NEW s, NEW from \in Names, NEW to \in Names, rename(p, s, from, to)
    PROVE  NamesKept'
<1> DEFINE j == names[to]
<1>1. /\ from # to /\ names[from] # 0
      /\ names' = [names EXCEPT ![to] = names[from], ![from] = 0]
      /\ sidecars' = (sidecars \ {from, to}) \cup (IF from \in sidecars THEN {to} ELSE {})
      /\ IF Exists(to) THEN Forgotten(j) ELSE UNCHANGED <<inodes, override, named>>
  BY DEF rename, CanRename, Exists
<1>2. /\ names' \in [Names -> Inodes \cup {0}]
      /\ \A m \in Names : names'[m] = IF m = to THEN names[from]
                                      ELSE IF m = from THEN 0 ELSE names[m]
  BY <1>1, NamesAre DEF LinksLead
<1>3. \A m \in sidecars' : m \in Names /\ names'[m] # 0 /\ inodes[names'[m]].kind # "dir"
  <2> SUFFICES ASSUME NEW m \in sidecars'
               PROVE  m \in Names /\ names'[m] # 0 /\ inodes[names'[m]].kind # "dir"
    OBVIOUS
  <2>1. CASE m = to
    <3>1. from \in sidecars BY <1>1, <2>1
    <3>2. inodes[names[from]].kind # "dir" BY <1>1, <3>1, NamesAre DEF KindOf, Exists
    <3> QED BY <1>1, <1>2, <2>1, <3>2
  <2>2. CASE m # to
    <3>1. m \in sidecars /\ m # from BY <1>1, <2>2
    <3>2. m \in Names /\ names[m] # 0 /\ inodes[names[m]].kind # "dir"
      BY <3>1, NamesAre DEF KindOf, Exists
    <3> QED BY <1>2, <2>2, <3>1, <3>2
  <2> QED BY <2>1, <2>2
<1>4. \A i \in Inodes : (i = j /\ Exists(to)) \/ Links(i) = {} \/ \E m \in Names : names'[m] = i
  <2> SUFFICES ASSUME NEW i \in Inodes, NEW n \in Names, names[n] = i
               PROVE  (i = j /\ Exists(to)) \/ \E m \in Names : names'[m] = i
    BY DEF Links
  <2>1. CASE n = to BY <2>1, NamesAre DEF Exists
  <2>2. CASE n = from BY <1>2, <2>2
  <2>3. CASE n # to /\ n # from BY <1>2, <2>3
  <2> QED BY <2>1, <2>2, <2>3
<1>5. CASE Exists(to)
  <2>1. \A i \in Inodes : \/ override'[i] = {} /\ named'[i] = Nothing
                          \/ /\ override'[i] = override[i] /\ named'[i] = named[i]
                             /\ Links(i) = {} \/ \E m \in Names : names'[m] = i
    BY <1>1, <1>4, <1>5, ForgottenIs
  <2> QED BY <1>1, <1>2, <1>3, <1>5, <2>1, ForgottenIs, GoneKeeps
<1>6. CASE ~Exists(to)
  <2>1. UNCHANGED <<inodes, override, named>> BY <1>1, <1>6
  <2>2. InodesStay BY <2>1, InodeEdited
  <2>3. Table(override', Inodes) /\ Table(named', Inodes) BY <2>1, NamesAre
  <2>4. \A i \in Inodes : Table(named'[i], Attributes) BY <2>1, NamesAre
  <2> QED BY <1>2, <1>3, <1>4, <1>6, <2>1, <2>2, <2>3, <2>4, GoneKeeps
<1> QED BY <1>5, <1>6

\* What is written about an inode is written through a name of it.
LEMMA WrittenKeeps ==
    ASSUME NamesKept, NEW at \in Names, Exists(at), names' = names, InodesStay,
           Table(override', Inodes), Table(named', Inodes),
           \A i \in Inodes : Table(named'[i], Attributes),
           \A i \in Inodes : i # names[at] => override'[i] = override[i] /\ named'[i] = named[i],
           \A n \in sidecars' : n \in sidecars \/ (n \in Names /\ Exists(n) /\ KindOf(n) # "dir")
    PROVE  NamesKept'
<1>1. Links(names[at]) # {} BY DEF Links
<1> QED BY <1>1, TouchKeeps DEF InodesStay

LEMMA OverrideEdited ==
    ASSUME NamesKept, NEW j, NEW v, override' = [override EXCEPT ![j] = v] \/ override' = override
    PROVE  Table(override', Inodes) /\ \A i \in Inodes : i # j => override'[i] = override[i]
BY NamesAre DEF Table

LEMMA NamedEdited ==
    ASSUME NamesKept, NEW j, NEW a, NEW v, named' = [named EXCEPT ![j][a] = v] \/ named' = named
    PROVE  /\ Table(named', Inodes) /\ \A i \in Inodes : Table(named'[i], Attributes)
           /\ \A i \in Inodes : i # j => named'[i] = named[i]
<1> DEFINE y == [named[j] EXCEPT ![a] = v]
<1>1. named' = [named EXCEPT ![j] = y] \/ named' = named OBVIOUS
<1>2. j \in Inodes => Table(y, Attributes) BY NamesAre DEF Table
<1> HIDE DEF y
<1>3. Table(named', Inodes) /\ \A i \in Inodes : named'[i] = named[i] \/ (i = j /\ named'[i] = y)
  BY <1>1, NamesAre DEF Table
<1> QED BY <1>2, <1>3, NamesAre

LEMMA ReachedName ==
    ASSUME NamesKept, NEW n \in Names, Reaches(n)
    PROVE  /\ Resolve(n) \in Names /\ Exists(Resolve(n))
           /\ inodes[names[Resolve(n)]].kind = "file" => Exists(n) /\ KindOf(n) # "dir"
<1>1. Resolve(n) \in Names /\ (~IsLink(n) => Resolve(n) = n) BY NamesAre, ResolvesToName
<1>2. Exists(Resolve(n)) BY DEF Reaches
<1>3. CASE IsLink(n) BY <1>1, <1>2, <1>3 DEF IsLink, KindOf
<1>4. CASE ~IsLink(n) BY <1>1, <1>2, <1>4 DEF KindOf
<1> QED BY <1>1, <1>2, <1>3, <1>4

LEMMA MetadataKeeps ==
    ASSUME NamesKept, NEW p, NEW s, NEW n \in Names,
           \/ \E fields : change_metadata(p, s, n, fields)
           \/ \E user : chown(p, s, n, user)
           \/ \E fields, empty : setattrlist(p, s, n, fields, empty)
    PROVE  NamesKept'
<1> DEFINE at == Resolve(n)
           j == names[at]
<1>1. /\ Reaches(n) /\ names' = names /\ sidecars' = sidecars
      /\ \E v : override' = [override EXCEPT ![j] = v]
      /\ named' = named \/ \E v : named' = [named EXCEPT ![j]["finder"] = v]
      /\ inodes' = inodes \/ \E v : inodes' = [inodes EXCEPT ![j].owner = v]
  <2>1. CASE \E fields : change_metadata(p, s, n, fields) BY <2>1 DEF change_metadata
  <2>2. CASE \E user : chown(p, s, n, user) BY <2>2 DEF chown
  <2>3. CASE \E fields, empty : setattrlist(p, s, n, fields, empty)
    <3> PICK fields, empty : setattrlist(p, s, n, fields, empty) BY <2>3
    <3> DEFINE o == override[j] \cup fields \cup {"times"}
               v == IF empty THEN "removed" ELSE "set"
    <3>1. /\ Reaches(n) /\ UNCHANGED <<names, inodes, sidecars>>
          /\ override' = [override EXCEPT ![j] = o]
          /\ named' = named \/ named' = [named EXCEPT ![j]["finder"] = v]
      BY DEF setattrlist
    <3> HIDE DEF o, v
    <3> QED BY <3>1
  <2> QED BY <2>1, <2>2, <2>3
<1>2. at \in Names /\ Exists(at) BY <1>1, ReachedName
<1> HIDE DEF at
<1>3. InodesStay BY <1>1, InodeEdited
<1>4. Table(override', Inodes) /\ \A i \in Inodes : i # j => override'[i] = override[i]
  <2> PICK v : override' = [override EXCEPT ![j] = v] BY <1>1
  <2> HIDE DEF j
  <2> QED BY OverrideEdited
<1>5. /\ Table(named', Inodes) /\ \A i \in Inodes : Table(named'[i], Attributes)
      /\ \A i \in Inodes : i # j => named'[i] = named[i]
  <2> PICK v : named' = named \/ named' = [named EXCEPT ![j]["finder"] = v] BY <1>1
  <2> HIDE DEF j
  <2> QED BY NamedEdited
<1> QED BY <1>1, <1>2, <1>3, <1>4, <1>5, WrittenKeeps

LEMMA AttributeKeeps ==
    ASSUME NamesKept, NEW p, NEW s, NEW n \in Names, NEW a,
           (\E option : SetAttribute(p, s, n, a, option)) \/ RemoveAttribute(p, s, n, a)
    PROVE  NamesKept'
<1> DEFINE at == Resolve(n)
           j == names[at]
<1>1. /\ Reaches(n) /\ names' = names /\ inodes' = inodes
      /\ \E v : override' = [override EXCEPT ![j] = v]
      /\ \E v : named' = [named EXCEPT ![j][a] = v]
      /\ \/ sidecars' \subseteq sidecars
         \/ sidecars' = sidecars \cup {n} /\ inodes[j].kind = "file"
  <2>1. CASE \E option : SetAttribute(p, s, n, a, option) BY <2>1 DEF SetAttribute
  <2>2. CASE RemoveAttribute(p, s, n, a) BY <2>2 DEF RemoveAttribute
  <2> QED BY <2>1, <2>2
<1>2. /\ at \in Names /\ Exists(at)
      /\ inodes[j].kind = "file" => Exists(n) /\ KindOf(n) # "dir"
  BY <1>1, ReachedName
<1> HIDE DEF at
<1>3. InodesStay BY <1>1, InodeEdited
<1>4. Table(override', Inodes) /\ \A i \in Inodes : i # j => override'[i] = override[i]
  <2> PICK v : override' = [override EXCEPT ![j] = v] BY <1>1
  <2> HIDE DEF j
  <2> QED BY OverrideEdited
<1>5. /\ Table(named', Inodes) /\ \A i \in Inodes : Table(named'[i], Attributes)
      /\ \A i \in Inodes : i # j => named'[i] = named[i]
  <2> PICK v : named' = [named EXCEPT ![j][a] = v] BY <1>1
  <2> HIDE DEF j
  <2>1. named' = [named EXCEPT ![j][a] = v] \/ named' = named OBVIOUS
  <2> QED BY <2>1, NamedEdited
<1>6. \A m \in sidecars' : m \in sidecars \/ (m \in Names /\ Exists(m) /\ KindOf(m) # "dir")
  BY <1>1, <1>2
<1> QED BY <1>1, <1>2, <1>3, <1>4, <1>5, <1>6, WrittenKeeps

\* Steps of the data of files, and those that leave the file system alone.
LEMMA DataKeeps ==
    ASSUME NamesKept, UNCHANGED <<names, sidecars, override, named>>,
           inodes' = inodes \/ \E j, v : inodes' = [inodes EXCEPT ![j].size = v]
    PROVE  NamesKept'
<1>1. InodesStay BY InodeEdited
<1>2. \A i \in Inodes : Table(named'[i], Attributes) BY NamesAre
<1>3. Table(override', Inodes) /\ Table(named', Inodes) BY NamesAre
<1> QED BY <1>1, <1>2, <1>3, TouchKeeps DEF InodesStay

LEMMA MakeKeeps ==
    ASSUME NamesKept, NEW p, NEW s, NEW n \in Names, NEW fresh,
           mkdir(p, s, n, fresh) \/ \E target \in Names : symlink(p, s, target, n, fresh)
    PROVE  NamesKept'
<1>1. CASE mkdir(p, s, n, fresh)
  <2> DEFINE at == Resolve(n)
  <2>1. at \in Names BY NamesAre, ResolvesToName
  <2>2. /\ ~Exists(at) /\ fresh \in FreeInodes /\ names' = [names EXCEPT ![at] = fresh]
        /\ Created(p, fresh, "dir", NoName) /\ UNCHANGED <<sidecars, named>>
    BY <1>1 DEF mkdir
  <2>3. "dir" \in InodeKinds /\ ("dir" = "symlink" => NoName \in Names) BY DEF InodeKinds
  <2> HIDE DEF at
  <2> QED BY <2>1, <2>2, <2>3, CreatedKeeps
<1>2. ASSUME NEW target \in Names, symlink(p, s, target, n, fresh) PROVE NamesKept'
  <2>1. /\ ~Exists(n) /\ fresh \in FreeInodes /\ names' = [names EXCEPT ![n] = fresh]
        /\ Created(p, fresh, "symlink", target) /\ UNCHANGED <<sidecars, named>>
    BY <1>2 DEF symlink
  <2>2. "symlink" \in InodeKinds BY DEF InodeKinds
  <2> QED BY <2>1, <2>2, CreatedKeeps
<1> QED BY <1>1, <1>2

LEMMA OpenNames ==
    ASSUME NamesKept, NEW p, NEW s, NEW n \in Names, NEW flags, NEW fresh,
           open(p, s, n, flags, fresh)
    PROVE  NamesKept'
<1> DEFINE at == Resolve(n)
           i  == IF Exists(at) THEN names[at] ELSE fresh
<1>1. at \in Names BY NamesAre, ResolvesToName
<1>2. CASE Exists(at)
  <2>1. UNCHANGED <<names, override, sidecars, named>> BY <1>2 DEF open
  <2>2. inodes' = inodes \/ inodes' = [inodes EXCEPT ![i].size = 0] BY <1>2 DEF open
  <2> HIDE DEF i
  <2>3. inodes' = inodes \/ \E j, v : inodes' = [inodes EXCEPT ![j].size = v] BY <2>2
  <2> QED BY <2>1, <2>3, DataKeeps
<1>3. CASE ~Exists(at)
  <2>1. /\ fresh \in FreeInodes /\ names' = [names EXCEPT ![at] = fresh]
        /\ Created(p, fresh, "file", NoName) /\ UNCHANGED <<sidecars, named>>
    BY <1>3 DEF open
  <2>2. "file" \in InodeKinds /\ ("file" = "symlink" => NoName \in Names) BY DEF InodeKinds
  <2> HIDE DEF at, i
  <2> QED BY <1>1, <1>3, <2>1, <2>2, CreatedKeeps
<1> QED BY <1>2, <1>3

LEMMA NameStepNames ==
    ASSUME NamesKept, DescriptionsOpen, NEW p \in Pids, NEW s \in Slots, NameStep(p, s)
    PROVE  NamesKept'
<1>1. ASSUME NEW a \in Names, NEW b \in Names, link(p, s, a, b) PROVE NamesKept'
  BY <1>1, LinkKeeps
<1>2. ASSUME NEW a \in Names, unlink(p, s, a) \/ rmdir(p, s, a) PROVE NamesKept'
  BY <1>2, UnlinkKeeps
<1>3. ASSUME NEW a \in Names, NEW i, mkdir(p, s, a, i) PROVE NamesKept' BY <1>3, MakeKeeps
<1>4. ASSUME NEW a \in Names, NEW b \in Names, NEW i, symlink(p, s, a, b, i) PROVE NamesKept'
  BY <1>4, MakeKeeps
<1>5. ASSUME NEW a \in Names, NEW b \in Names, rename(p, s, a, b) PROVE NamesKept'
  BY <1>5, RenameKeeps
<1>6. ASSUME NEW a \in Names,
             \/ change_metadata(p, s, a, {"flags"}) \/ chown(p, s, a, Mobile)
             \/ \E e \in BOOLEAN : setattrlist(p, s, a, {"finder"}, e)
      PROVE  NamesKept'
  BY <1>6, MetadataKeeps
<1>7. ASSUME NEW a \in Names,
             \/ \E o \in SetOptions : setxattr(p, s, a, "fork", o)
             \/ removexattr(p, s, a, "fork")
      PROVE  NamesKept'
  <2> DEFINE at == Resolve(a)
  <2>1. at \in Names BY NamesAre, ResolvesToName
  <2>2. (\E o : SetAttribute(p, s, at, "fork", o)) \/ RemoveAttribute(p, s, at, "fork")
    BY <1>7 DEF setxattr, removexattr
  <2> HIDE DEF at
  <2> QED BY <2>1, <2>2, AttributeKeeps
<1>8. ASSUME NEW n \in Fds,
             \/ change_metadata_fd(p, s, n, {"flags"})
             \/ fsetxattr(p, s, n, "fork", "any") \/ fremovexattr(p, s, n, "fork")
      PROVE  NamesKept'
  <2> DEFINE at == fds[p][n].path
  <2>1. at \in Names
    BY <1>8, FileEntry DEF change_metadata_fd, fsetxattr, fremovexattr
  <2>2. \/ change_metadata(p, s, at, {"flags"})
        \/ SetAttribute(p, s, at, "fork", "any") \/ RemoveAttribute(p, s, at, "fork")
    BY <1>8 DEF change_metadata_fd, fsetxattr, fremovexattr
  <2> HIDE DEF at
  <2>3. CASE change_metadata(p, s, at, {"flags"}) BY <2>1, <2>3, MetadataKeeps
  <2>4. CASE SetAttribute(p, s, at, "fork", "any") \/ RemoveAttribute(p, s, at, "fork")
    BY <2>1, <2>4, AttributeKeeps
  <2> QED BY <2>2, <2>3, <2>4
<1> QED BY <1>1, <1>2, <1>3, <1>4, <1>5, <1>6, <1>7, <1>8 DEF NameStep

LEMMA DataStepNames ==
    ASSUME NamesKept, NEW p \in Pids, NEW s \in Slots, DataStep(p, s)
    PROVE  NamesKept'
<1>1. UNCHANGED <<sidecars, named>> BY DEF DataStep
<1>2. \/ \E n \in Names : \E i \in Inodes : mkdir(p, s, n, i)
      \/ /\ UNCHANGED <<names, override>>
         /\ inodes' = inodes \/ \E j, v : inodes' = [inodes EXCEPT ![j].size = v]
  <2>1. ASSUME NEW j, NEW end, inodes' = Grown(j, end)
        PROVE  \E i, v : inodes' = [inodes EXCEPT ![i].size = v]
    <3> DEFINE v == IF end > inodes[j].size THEN end ELSE inodes[j].size
    <3>1. inodes' = [inodes EXCEPT ![j].size = v] BY <2>1 DEF Grown
    <3> HIDE DEF v
    <3> QED BY <3>1
  <2>2. ASSUME NEW n \in Fds, NEW append, write_file(p, s, n, append)
        PROVE  \E j, v : inodes' = [inodes EXCEPT ![j].size = v]
    <3> DEFINE at == IF append THEN SizeOf(p, n) ELSE fds[p][n].offset
    <3>1. inodes' = Grown(OpenInode(p, n), at + 1) BY <2>2 DEF write_file
    <3> QED BY <2>1, <3>1
  <2>3. ASSUME NEW n \in Fds, pwrite(p, s, n, 0)
        PROVE  \E j, v : inodes' = [inodes EXCEPT ![j].size = v]
    BY <2>1, <2>3 DEF pwrite
  <2>4. ASSUME NEW n \in Fds, ftruncate(p, s, n, 0)
        PROVE  \E j, v : inodes' = [inodes EXCEPT ![j].size = v]
    <3> DEFINE i == OpenInode(p, n)
    <3>1. inodes' = [inodes EXCEPT ![i].size = 0] BY <2>4 DEF ftruncate
    <3> HIDE DEF i
    <3> QED BY <3>1
  <2>5. ASSUME NEW n \in Fds, NEW b, NEW writes, NEW fault, aio_submit(p, s, n, b, writes, fault)
        PROVE  inodes' = inodes \/ \E j, v : inodes' = [inodes EXCEPT ![j].size = v]
    <3>1. inodes' = inodes \/ inodes' = Grown(OpenInode(p, n), fds[p][n].offset + 1)
      BY <2>5 DEF aio_submit
    <3> QED BY <2>1, <3>1
  <2>6. ASSUME NEW n \in Fds,
               read_file(p, s, n) \/ getdirentries(p, s, n)
               \/ \E whence \in {"set", "current", "end"} : lseek(p, s, n, whence, 1)
        PROVE  inodes' = inodes
    BY <2>6 DEF read_file, getdirentries, lseek
  <2> QED BY <2>2, <2>3, <2>4, <2>5, <2>6 DEF DataStep
<1>3. ASSUME NEW n \in Names, NEW i \in Inodes, mkdir(p, s, n, i) PROVE NamesKept'
  BY <1>3, MakeKeeps
<1> QED BY <1>1, <1>2, <1>3, DataKeeps

LEMMA NamesStep ==
    ASSUME NamesKept, DescriptionsOpen, Next
    PROVE  NamesKept'
<1>1. ASSUME NEW p \in Pids, NEW s \in Slots, OpenStep(p, s) PROVE NamesKept'
  <2>1. SharedName \in Names BY FileAssumption DEF SharedName
  <2> QED BY <1>1, <2>1, OpenNames DEF OpenStep
<1>2. ASSUME UnusedNames PROVE NamesKept'
  BY <1>2, DataKeeps DEF UnusedNames
<1>3. ASSUME NEW p \in Pids, NEW s \in Slots,
             \/ DescriptorStep(p, s) \/ LockStep(p, s) \/ SocketStep(p, s) \/ EventStep(p, s)
      PROVE  UnusedNames
  BY <1>3 DEF DescriptorStep, LockStep, SocketStep, EventStep, close, dup2, SameFiles, fileVars,
     UnusedNames
<1>4. ASSUME NEW p \in Pids, NEW s \in Slots, ProcessStep(p, s) PROVE UnusedNames
  <2>1. CASE \/ exit_process(p, s, "0")
             \/ \E q \in Pids, by \in {"pid", "group", "all"}, g \in Signals :
                    kill(p, s, [by |-> by, pid |-> q], g)
    BY <2>1 DEF exit_process, kill, Die
  <2>2. CASE \E loads \in BOOLEAN : spawn(p, s, loads) BY <2>2 DEF spawn, UnusedNames
  <2>3. CASE fork(p, s) BY <2>3 DEF fork, UnusedNames
  <2>4. CASE exec(p, s) BY <2>4 DEF exec
  <2>5. CASE SameKernel BY <2>5 DEF SameKernel, SameFiles, fileVars, UnusedNames
  <2> QED BY <1>4, <2>1, <2>2, <2>3, <2>4, <2>5 DEF ProcessStep
<1>5. LoopStep => UnusedNames
  BY DEF LoopStep, advance_time, retire_runtime, deliver_pending_io, reap_waits, reap_exited,
     SameFiles, fileVars, UnusedNames
<1> QED BY <1>1, <1>2, <1>3, <1>4, <1>5, NameStepNames, DataStepNames DEF Next

LEMMA NamesBegin == Init => NamesKept
<1> SUFFICES ASSUME Init PROVE NamesKept OBVIOUS
<1>1. /\ names = [n \in Names |-> 0] /\ inodes = [i \in Inodes |-> NoInode]
      /\ sidecars = {} /\ override = [i \in Inodes |-> {}]
      /\ named = [i \in Inodes |-> Nothing]
  BY DEF Init, FilesInit, Nothing
<1>2. Table(Nothing, Attributes) BY DEF Nothing, Table
<1>3. /\ NoInode.kind = "free"
      /\ NoInode \in [kind : {"free", "file", "dir", "symlink"}, size : {NoInode.size},
                      target : {NoInode.target}, owner : {NoInode.owner}]
  BY DEF NoInode
<1>4. MetadataHasName BY <1>1 DEF MetadataHasName, Nothing
<1>5. /\ Table(inodes, Inodes) /\ Table(override, Inodes) /\ Table(named, Inodes)
      /\ \A i \in Inodes : inodes[i] = NoInode /\ named[i] = Nothing
  BY <1>1 DEF Table
<1>6. names \in [Names -> Inodes \cup {0}] BY <1>1
<1> HIDE DEF Nothing
<1> QED BY <1>1, <1>2, <1>3, <1>4, <1>5, <1>6 DEF NamesKept

-----------------------------------------------------------------------------
(***************************************************************************)
(* The inductive invariant and the theorems.                               *)
(***************************************************************************)
KernelInv == ProcessesAgree /\ ReferencesKept /\ RecordsHeld /\ NamesKept

LEMMA KernelBegin == Init => KernelInv
BY ProcessesBegin, ReferencesBegin, RecordsBegin, NamesBegin DEF KernelInv

LEMMA KernelStep ==
    ASSUME KernelInv, Next
    PROVE  KernelInv' /\ RightsKept
<1>1. ProcessesAgree /\ ReferencesKept /\ RecordsHeld /\ NamesKept BY DEF KernelInv
<1>2. DescriptionsOpen BY <1>1 DEF ReferencesKept
<1>3. Table(fds, Pids) /\ Waiting BY <1>2 DEF DescriptionsOpen, Waiting
<1>4. ProcessesAgree' BY <1>1, <1>3, ProcessesStep
<1>5. ReferencesKept' /\ RightsKept BY <1>1, NamesAre, ReferencesStep
<1>6. RecordsHeld' BY <1>1, <1>2, RecordsStep
<1>7. NamesKept' BY <1>1, <1>2, NamesStep
<1> QED BY <1>4, <1>5, <1>6, <1>7 DEF KernelInv

LEMMA KernelStutters ==
    ASSUME UNCHANGED vars
    PROVE  /\ KernelInv => KernelInv'
           /\ RightsBoundToBytes => RightsBoundToBytes'
<1>1. /\ UNCHANGED <<process, record, generations, threads, pending, itimer>>
      /\ UNCHANGED <<fds, descr, flocks, records>>
      /\ UNCHANGED <<names, inodes, sidecars, override, named>>
      /\ UNCHANGED <<stream, shut, queue>>
  BY DEF vars, processVars, fileVars, socketVars
<1>2. ProcessesAgree => ProcessesAgree'
  BY <1>1 DEF ProcessesAgree, Tables, Agrees, Typed, Recorded, Emptied, Live, HasRecord
<1>3. LiveEntries' = LiveEntries BY <1>1 DEF LiveEntries, Entries, InFlight, Carrying
<1>4. Held' = Held BY <1>1, <1>3 DEF Held, WaitingDescriptions
<1>5. DescriptionsOpen => DescriptionsOpen' BY <1>1, <1>3 DEF DescriptionsOpen, Referring, Wanting
<1>6. FlocksHeld => FlocksHeld' BY <1>1, <1>4 DEF FlocksHeld
<1>7. StreamTypes => StreamTypes' BY <1>1 DEF StreamTypes
<1>8. RecordsHeld => RecordsHeld' BY <1>1 DEF RecordsHeld, Live
<1>9. NamesKept => NamesKept'
  BY <1>1 DEF NamesKept, MetadataHasName, KindOf, Exists, Links
<1>10. RightsBoundToBytes => RightsBoundToBytes' BY <1>1 DEF RightsBoundToBytes
<1> QED BY <1>2, <1>5, <1>6, <1>7, <1>8, <1>9, <1>10 DEF KernelInv, ReferencesKept

\* Whatever the guest's processes call and in whatever order the loop resumes
\* their threads, the process tables agree on who lives and who has exited,
\* every reference is to an open description, the locks of a file exclude each
\* other and belong to somebody, and the tables about files follow the names.
THEOREM KernelAgrees == Spec => []KernelInv
<1>1. KernelInv /\ [Next]_vars => KernelInv' BY KernelStep, KernelStutters
<1> QED BY <1>1, KernelBegin, PTL DEF Spec

\* No sequence of open, dup, fork, close, exec, exit, kill, alarm and blocked
\* request leads to two locks that conflict, to two locks of one process on one
\* byte, or to a lock that nobody holds: fcntl's record locks and flock.
THEOREM LocksAreExact == Spec => []LocksExact
<1>1. KernelInv => LocksExact BY LocksFollow DEF KernelInv, ReferencesKept
<1> QED BY <1>1, KernelAgrees, PTL

\* The metadata tables keep nothing about an inode without a name, and an exit
\* leaves no descriptor, no timer and, unless the alarm ended the process, no
\* thread; the exit is recorded once, for the parent that waits.
THEOREM NothingStaysBehind == Spec => []NothingOutlivesOwner
<1>1. ASSUME KernelInv, NEW p \in Pids, process[p].exited
      PROVE  /\ Open(p) = {} /\ itimer[p] = NoTimer
             /\ HasRecord(p) => record[p].exited
             /\ generations[p].exit = 1
             /\ ~process[p].alarmed => \A s \in Slots : threads[p][s] = "none"
  <2>1. Recorded(p) /\ Emptied(p) BY <1>1 DEF KernelInv, ProcessesAgree, Agrees
  <2>2. ~Live(p) BY <1>1 DEF Live
  <2>3. fds[p] = NoDescriptors BY <2>1, <2>2 DEF Emptied
  <2>4. Open(p) = {} BY <2>3 DEF Open, NoDescriptors
  <2> QED BY <1>1, <2>1, <2>2, <2>4 DEF Recorded, Emptied
<1>2. KernelInv => MetadataHasName BY DEF KernelInv, NamesKept
<1>3. KernelInv => NothingOutlivesOwner
  BY <1>1, <1>2 DEF NothingOutlivesOwner, ExitLeavesNothing
<1> QED BY <1>3, KernelAgrees, PTL

\* When no recvmsg is given a buffer it cannot write, a message's descriptors
\* stay with the byte that carried them, through partial sends, partial reads,
\* reads that leave the descriptors and messages that are cut short.
THEOREM RightsStayWithBytes ==
    ASSUME CopyoutFaults = FALSE
    PROVE  Spec => []RightsBoundToBytes
<1>1. Init => RightsBoundToBytes BY ReferencesBegin
<1>2. KernelInv /\ RightsBoundToBytes /\ [Next]_vars => RightsBoundToBytes'
  <2>1. ASSUME KernelInv, RightsBoundToBytes, Next PROVE RightsBoundToBytes'
    BY <2>1, KernelStep DEF RightsKept
  <2> QED BY <2>1, KernelStutters
<1> QED BY <1>1, <1>2, KernelAgrees, PTL DEF Spec
=============================================================================
