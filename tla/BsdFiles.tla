------------------------------ MODULE BsdFiles ------------------------------
(*****************************************************************************)
(* The BSD file system (src/src/kernel/bsd/filesystem.cpp, filesystem/*,     *)
(* aio.cpp and the file parts of descriptor_memory.cpp) and its advisory     *)
(* locks (filesystem/locking.cpp).                                           *)
(*                                                                           *)
(* The host file system holds names, inodes and data; the emulator adds      *)
(* what the host cannot keep: HFS metadata and named attributes, keyed by    *)
(* the inode (permanent_id), and resource forks, kept in a sidecar file      *)
(* beside the NAME.  A descriptor keeps both the open description, which     *)
(* pins the inode, and the path it was opened with; some calls go through    *)
(* the one, some through the other.                                          *)
(*                                                                           *)
(* A call that fails without a side effect changes nothing and is not an     *)
(* action.                                                                   *)
(*                                                                           *)
(* AdvisoryFileLockRegistry keeps two tables for every file: the flock(2)    *)
(* owners, which are open file descriptions, and the fcntl(2) record         *)
(* locks, which belong to processes and cover byte ranges.  Every method     *)
(* runs under the registry's own mutex, so each one is an operator from      *)
(* the table to the table.  A range is [kind, start, end) with               *)
(* end = Unbounded for a lock whose length is zero (std::nullopt in the      *)
(* code): such a lock covers every later byte.                               *)
(*****************************************************************************)
EXTENDS BsdProcesses, SequencesExt

CONSTANTS
    LockOffsets,       \* the byte offsets a request may name
    Unbounded,         \* larger than every offset: the end of a lock that has none
    NoOwner            \* no open description holds the exclusive lock

ASSUME LockAssumption == /\ LockOffsets \subseteq Nat
                         /\ Unbounded \in Nat
                         /\ \A o \in LockOffsets : o < Unbounded

LockKinds == {"shared", "exclusive"}

\* The ranges a guest can ask for: a start and a length that is positive or
\* zero (a negative length is normalised by the handler to a positive one).
LockRanges ==
    {r \in [kind : LockKinds, start : LockOffsets, end : LockOffsets \cup {Unbounded}] :
        r.start < r.end}

EveryByte == [kind |-> "shared", start |-> 0, end |-> Unbounded]

ranges_overlap(lhs, rhs) == ~(lhs.end <= rhs.start) /\ ~(rhs.end <= lhs.start)

locks_conflict(lhs, rhs) == lhs = "exclusive" \/ rhs = "exclusive"

-----------------------------------------------------------------------------
(***************************************************************************)
(* flock(2): the lock of one file is [exclusive, shared], owned by open    *)
(* descriptions.                                                           *)
(***************************************************************************)
NoFlock == [exclusive |-> NoOwner, shared |-> {}]

\* try_acquire returns false without changing the lock when another
\* description holds a conflicting one; a description may convert its own.
CanAcquire(lock, owner, kind) ==
    /\ lock.exclusive \in {NoOwner, owner}
    /\ kind = "exclusive" => lock.shared \subseteq {owner}

Acquired(lock, owner, kind) ==
    IF kind = "shared"
    THEN [exclusive |-> NoOwner, shared |-> lock.shared \cup {owner}]
    ELSE [exclusive |-> owner, shared |-> lock.shared \ {owner}]

Released(lock, owner) ==
    [exclusive |-> IF lock.exclusive = owner THEN NoOwner ELSE lock.exclusive,
     shared    |-> lock.shared \ {owner}]

-----------------------------------------------------------------------------
(***************************************************************************)
(* fcntl(2): the record locks of one file.  The order of the code's vector *)
(* only decides which of several conflicting locks F_GETLK reports, and    *)
(* F_GETLK changes nothing; the locks are a set here.                      *)
(***************************************************************************)
Conflicts(lock, pid, request) ==
    /\ lock.pid # pid
    /\ ranges_overlap(lock, request)
    /\ locks_conflict(lock.kind, request.kind)

\* record_conflict: the locks one of which is reported.
RecordConflict(locks, pid, request) == {l \in locks : Conflicts(l, pid, request)}

\* What remains of the caller's lock outside the range that replaces it.
Remainder(lock, range) ==
    (IF lock.start < range.start THEN {[lock EXCEPT !.end = range.start]} ELSE {})
    \cup (IF range.end < lock.end THEN {[lock EXCEPT !.start = range.end]} ELSE {})

Replaced(locks, pid, range) == {l \in locks : l.pid = pid /\ ranges_overlap(l, range)}

Carved(locks, pid, range) ==
    (locks \ Replaced(locks, pid, range))
    \cup UNION {Remainder(l, range) : l \in Replaced(locks, pid, range)}

CanSetRecordLock(locks, pid, request) == RecordConflict(locks, pid, request) = {}

RecordLockSet(locks, pid, request) ==
    Carved(locks, pid, request)
    \cup {[kind |-> request.kind, start |-> request.start,
           end |-> request.end, pid |-> pid]}

unlock_record_lock(locks, pid, range) == Carved(locks, pid, range)

release_process_record_locks(locks, pids) == {l \in locks : l.pid \notin pids}

-----------------------------------------------------------------------------
(***************************************************************************)
(* The reference: what POSIX says a table of record locks means.  Every    *)
(* byte has, for every process, the kind of lock the process holds on it.  *)
(***************************************************************************)
Bytes == 0 .. Unbounded - 1

HeldOn(locks, pid, byte) ==
    {l.kind : l \in {m \in locks : m.pid = pid /\ m.start <= byte /\ byte < m.end}}

\* A process holds at most one lock on a byte.
ByteMapFunctional(locks, pids) ==
    \A p \in pids, b \in Bytes : Cardinality(HeldOn(locks, p, b)) <= 1

\* No two processes hold conflicting locks on a byte.
ByteMapCompatible(locks, pids) ==
    \A b \in Bytes, p, q \in pids :
        p # q => \A k \in HeldOn(locks, p, b), m \in HeldOn(locks, q, b) :
                     ~locks_conflict(k, m)

-----------------------------------------------------------------------------
CONSTANTS
    Names,             \* the path names, in one directory
    Inodes,            \* the host's inode numbers, from 1; a free one is reused
    Descriptions,      \* identities of open file descriptions
    Blocks,            \* the addresses of asynchronous I/O control blocks
    MaxSize            \* bound of a file's size

ASSUME FileAssumption ==
    /\ IsFiniteSet(Names) /\ Names # {} /\ Inodes \subseteq Nat \ {0} /\ MaxSize \in Nat
    /\ NoOwner \notin Descriptions

VARIABLES
    names,             \* the directory: name -> inode, 0 for no entry
    inodes,            \* kind, size, link target and reported owner of every inode
    sidecars,          \* the names that have a resource fork sidecar
    override,          \* hfs_metadata_overrides: the fields an inode overrides
    named,             \* hfs_named_attribute_overrides
    descr,             \* open descriptions: the inode each one pins, 0 for none
    flocks,            \* AdvisoryFileLockRegistry: flock owners by inode
    records,           \* AdvisoryFileLockRegistry: record locks by inode
    aio,               \* aio_completions_ of every process
    mounts,            \* the virtual mount table
    cwd                \* guest_working_directory_ of every process

fileVars == <<names, inodes, sidecars, override, named, descr, flocks, records,
              aio, mounts, cwd>>

Attributes == {"finder", "fork"}
NoInode    == [kind |-> "free", size |-> 0, target |-> NoName, owner |-> Root]

FilesInit ==
    /\ names = [n \in Names |-> 0]
    /\ inodes = [i \in Inodes |-> NoInode]
    /\ sidecars = {}
    /\ override = [i \in Inodes |-> {}]
    /\ named = [i \in Inodes |-> [a \in Attributes |-> "unset"]]
    /\ descr = [d \in Descriptions |-> 0]
    /\ flocks = [i \in Inodes |-> NoFlock]
    /\ records = [i \in Inodes |-> {}]
    /\ aio = [p \in Pids |-> [b \in Blocks |-> "none"]]
    /\ mounts = {}
    /\ cwd = [p \in Pids |-> NoName]

-----------------------------------------------------------------------------
(***************************************************************************)
(* Names.                                                                  *)
(***************************************************************************)
Exists(n)     == names[n] # 0
KindOf(n)     == IF Exists(n) THEN inodes[names[n]].kind ELSE "free"
IsLink(n)     == KindOf(n) = "symlink"
Links(i)      == {n \in Names : names[n] = i}
Pinned(i)     == \E d \in Descriptions : descr[d] = i
FreeInodes    == {i \in Inodes : Links(i) = {} /\ ~Pinned(i)}

\* resolve_guest_path with the final link followed; a cycle stays a link.
Resolve(n) ==
    LET step[k \in 0 .. Cardinality(Names)] ==
            IF k = 0 THEN n
            ELSE IF IsLink(step[k - 1]) THEN inodes[names[step[k - 1]]].target
            ELSE step[k - 1]
    IN  step[Cardinality(Names)]

\* query_hfs_metadata through a followed path succeeds.
Reaches(n) == Exists(Resolve(n)) /\ ~IsLink(Resolve(n))

\* The inode a new file takes, and what creation writes into the tables: the
\* mode, owner, group and times of the override, and nothing else of it.
Created(p, i, kind, target) ==
    /\ inodes' = [inodes EXCEPT ![i] =
           [kind |-> kind, size |-> 0, target |-> target, owner |-> process[p].euid]]
    /\ override' = [override EXCEPT ![i] = @ \cup {"mode", "owner", "times"}]

\* Mutant: the named attributes of the removed inode stay.
ForgottenInPart(i) ==
    /\ inodes' = [inodes EXCEPT ![i].owner = Root]
    /\ override' = [override EXCEPT ![i] = {}]
    /\ UNCHANGED named

\* The tables forget an inode; its owner is again the one the host reports.
Forgotten(i) ==
    /\ inodes' = [inodes EXCEPT ![i].owner = Root]
    /\ override' = [override EXCEPT ![i] = {}]
    /\ named' = [named EXCEPT ![i] = [a \in Attributes |-> "unset"]]

-----------------------------------------------------------------------------
(***************************************************************************)
(* Open descriptions and the locks that die with them.                     *)
(***************************************************************************)
\* The descriptions some table, continuation or message in flight refers to.
DescribedBy(entries) == {e.obj : e \in {x \in entries : x.kind = "file"}}
WaitingDescriptions ==
    UNION {{pending[p][s].obj : s \in {t \in Slots : pending[p][t].op = "flock"}} : p \in Pids}

\* ~RegularFileOpenDescription: the last reference goes, the flock goes.
Settled(now, held) == [d \in Descriptions |-> IF d \in held THEN now[d] ELSE 0]
\* Mutant: the destructor of a description forgets its flock.
FlocksSettledKeeps(now, held) == now
FlocksSettled(now, held) ==
    [i \in Inodes |->
        [exclusive |-> IF now[i].exclusive \in held THEN now[i].exclusive ELSE NoOwner,
         shared    |-> now[i].shared \cap held]]

FreeDescriptions == {d \in Descriptions : descr[d] = 0}

\* open: O_CREAT and O_TRUNC take effect before a descriptor is allocated, so
\* a full table (EMFILE) leaves the new or truncated file behind.
open(p, s, n, flags, fresh) ==
    /\ CanCall(p, s)
    /\ LET at == Resolve(n)
           i  == IF Exists(at) THEN names[at] ELSE fresh
           d  == CHOOSE x \in FreeDescriptions : TRUE
       IN  /\ ~IsLink(at)
           /\ Exists(at) => /\ ~(flags.create /\ flags.exclusive)
                            /\ KindOf(at) = "dir" => ~flags.write
           /\ ~Exists(at) => flags.create /\ fresh \in FreeInodes
           /\ IF Exists(at)
              THEN /\ inodes' = IF flags.truncate /\ flags.write /\ KindOf(at) = "file"
                                THEN [inodes EXCEPT ![i].size = 0] ELSE inodes
                   /\ UNCHANGED <<names, override>>
              ELSE Created(p, i, "file", NoName) /\ names' = [names EXCEPT ![at] = i]
           /\ IF Full(fds[p]) THEN UNCHANGED <<fds, descr>>
              ELSE /\ FreeDescriptions # {}
                   /\ descr' = [descr EXCEPT ![d] = i]
                   /\ fds' = [fds EXCEPT ![p] = Installed(@,
                         [Entry("file", d) EXCEPT !.path = at, !.writable = flags.write])]
    /\ UNCHANGED <<sidecars, named, flocks, records, aio, mounts, cwd>>

-----------------------------------------------------------------------------
(***************************************************************************)
(* Directory operations.                                                   *)
(***************************************************************************)
\* A resource fork is hard-linked along with the data.
link(p, s, from, to) ==
    /\ CanCall(p, s)
    /\ Reaches(from) /\ KindOf(Resolve(from)) # "dir" /\ ~Exists(to)
    /\ names' = [names EXCEPT ![to] = names[Resolve(from)]]
    /\ sidecars' = IF Resolve(from) \in sidecars THEN sidecars \cup {to} ELSE sidecars
    /\ UNCHANGED <<inodes, override, named>>

\* The metadata goes with the last name of the inode.
unlink(p, s, n) ==
    /\ CanCall(p, s)
    /\ Exists(n) /\ KindOf(n) # "dir"
    /\ names' = [names EXCEPT ![n] = 0]
    /\ sidecars' = sidecars \ {n}
    /\ IF Cardinality(Links(names[n])) <= 1 THEN Forgotten(names[n])
       ELSE UNCHANGED <<inodes, override, named>>

rmdir(p, s, n) ==
    /\ CanCall(p, s)
    /\ KindOf(n) = "dir"
    /\ names' = [names EXCEPT ![n] = 0]
    /\ Forgotten(names[n])
    /\ UNCHANGED sidecars

mkdir(p, s, n, fresh) ==
    /\ CanCall(p, s)
    /\ ~Exists(Resolve(n)) /\ fresh \in FreeInodes
    /\ names' = [names EXCEPT ![Resolve(n)] = fresh]
    /\ Created(p, fresh, "dir", NoName)
    /\ UNCHANGED <<sidecars, named>>

symlink(p, s, target, n, fresh) ==
    /\ CanCall(p, s)
    /\ ~Exists(n) /\ fresh \in FreeInodes
    /\ names' = [names EXCEPT ![n] = fresh]
    /\ Created(p, fresh, "symlink", target)
    /\ UNCHANGED <<sidecars, named>>

\* rename of two names of one inode does nothing.  The replaced inode loses
\* its metadata even when another name is left.  Only the caller's open
\* paths are moved.
CanRename(from, to) ==
    /\ Exists(from)
    /\ Exists(to) => /\ names[from] # names[to]
                     /\ (KindOf(from) = "dir") = (KindOf(to) = "dir")

rename(p, s, from, to) ==
    /\ CanCall(p, s) /\ from # to /\ CanRename(from, to)
    /\ names' = [names EXCEPT ![to] = names[from], ![from] = 0]
    /\ sidecars' = (sidecars \ {from, to}) \cup (IF from \in sidecars THEN {to} ELSE {})
    /\ IF Exists(to) THEN Forgotten(names[to]) ELSE UNCHANGED <<inodes, override, named>>
    /\ fds' = [fds EXCEPT ![p] =
           [n \in Fds |-> IF @[n].path = from THEN [@[n] EXCEPT !.path = to] ELSE @[n]]]

-----------------------------------------------------------------------------
(***************************************************************************)
(* Metadata.  chmod, chown, chflags, utimes, setattrlist by path, and the  *)
(* forms that take a descriptor: those too look the metadata up by the     *)
(* path the descriptor was opened with.                                    *)
(***************************************************************************)
Owner(p, n) == process[p].euid \in {Root, inodes[names[Resolve(n)]].owner}

change_metadata(p, s, n, fields) ==
    /\ CanCall(p, s) /\ Reaches(n) /\ Owner(p, n)
    /\ override' = [override EXCEPT ![names[Resolve(n)]] = @ \cup fields \cup {"times"}]
    /\ UNCHANGED <<names, inodes, sidecars, named>>

\* Only root gives a file away.
chown(p, s, n, user) ==
    /\ CanCall(p, s) /\ Reaches(n)
    /\ process[p].euid = Root \/ (Owner(p, n) /\ user = process[p].euid)
    /\ override' = [override EXCEPT ![names[Resolve(n)]] = @ \cup {"owner", "times"}]
    /\ inodes' = [inodes EXCEPT ![names[Resolve(n)]].owner = user]
    /\ UNCHANGED <<names, sidecars, named>>

change_metadata_fd(p, s, n, fields) ==
    /\ Is(p, n, "file") /\ change_metadata(p, s, fds[p][n].path, fields)

\* setattrlist may also replace the Finder information, as an attribute; all
\* zeros removes it.
setattrlist(p, s, n, fields, empty) ==
    /\ CanCall(p, s) /\ Reaches(n)
    /\ override' = [override EXCEPT ![names[Resolve(n)]] = @ \cup fields \cup {"times"}]
    /\ named' = IF "finder" \in fields
                THEN [named EXCEPT ![names[Resolve(n)]]["finder"] =
                          IF empty THEN "removed" ELSE "set"]
                ELSE named
    /\ UNCHANGED <<names, inodes, sidecars>>

\* query_hfs_named_attribute: the override of the inode, else what the host
\* keeps, which for the resource fork is the sidecar of the name.
HasAttribute(at, a) ==
    LET o == named[names[Resolve(at)]][a]
    IN  o = "set" \/ (o = "unset" /\ a = "fork" /\ at \in sidecars)

SetOptions == {"any", "create", "replace"}

SetAttribute(p, s, at, a, option) ==
    /\ CanCall(p, s) /\ Reaches(at)
    /\ LET i == names[Resolve(at)]
       IN  /\ option = "create"  => ~HasAttribute(at, a)
           /\ option = "replace" => HasAttribute(at, a)
           /\ a = "fork" => inodes[i].kind = "file"
           /\ sidecars' = IF a = "fork" THEN sidecars \cup {at} ELSE sidecars
           /\ named' = [named EXCEPT ![i][a] = "set"]
           /\ override' = [override EXCEPT ![i] = @ \cup {a, "times"}]
    /\ UNCHANGED <<names, inodes>>

RemoveAttribute(p, s, at, a) ==
    /\ CanCall(p, s) /\ Reaches(at)
    /\ LET i == names[Resolve(at)]
       IN  /\ HasAttribute(at, a)
           /\ sidecars' = IF a = "fork" THEN sidecars \ {at} ELSE sidecars
           /\ named' = [named EXCEPT ![i][a] = "removed"]
           /\ override' = [override EXCEPT ![i] = @ \cup {a, "times"}]
    /\ UNCHANGED <<names, inodes>>

\* By path the sidecar is that of the resolved name, by descriptor that of
\* the path the descriptor was opened with.
setxattr(p, s, n, a, option) == SetAttribute(p, s, Resolve(n), a, option)
removexattr(p, s, n, a)      == RemoveAttribute(p, s, Resolve(n), a)
fsetxattr(p, s, n, a, option) ==
    Is(p, n, "file") /\ SetAttribute(p, s, fds[p][n].path, a, option)
fremovexattr(p, s, n, a) ==
    Is(p, n, "file") /\ RemoveAttribute(p, s, fds[p][n].path, a)

chdir(p, s, n) ==
    /\ CanCall(p, s) /\ KindOf(Resolve(n)) = "dir"
    /\ cwd' = [cwd EXCEPT ![p] = Resolve(n)]

fchdir(p, s, n) == Is(p, n, "file") /\ chdir(p, s, fds[p][n].path)

\* The mount table is a list of paths, one entry a path; the root cannot go.
mount(p, s, n) ==
    /\ CanCall(p, s) /\ KindOf(Resolve(n)) = "dir"
    /\ mounts' = mounts \cup {n}

unmount(p, s, n) ==
    /\ CanCall(p, s) /\ n \in mounts
    /\ mounts' = mounts \ {n}

-----------------------------------------------------------------------------
(***************************************************************************)
(* Data.  Reads and writes go through the open description; the offset is  *)
(* the descriptor's own.                                                   *)
(***************************************************************************)
OpenInode(p, n) == descr[fds[p][n].obj]
SizeOf(p, n)    == inodes[OpenInode(p, n)].size
IsRegular(p, n) == Is(p, n, "file") /\ inodes[OpenInode(p, n)].kind = "file"

\* read and getdirentries move the offset past what they return.
read_file(p, s, n) ==
    /\ CanCall(p, s) /\ IsRegular(p, n) /\ fds[p][n].offset < SizeOf(p, n)
    /\ fds' = [fds EXCEPT ![p][n].offset = @ + 1]
    /\ UNCHANGED inodes

getdirentries(p, s, n) ==
    /\ CanCall(p, s) /\ Is(p, n, "file") /\ KindOf(Resolve(fds[p][n].path)) = "dir"
    /\ fds[p][n].offset < 2 + Cardinality({m \in Names : Exists(m)})
    /\ fds' = [fds EXCEPT ![p][n].offset = @ + 1]
    /\ UNCHANGED inodes

Grown(i, end) == [inodes EXCEPT ![i].size = IF end > @ THEN end ELSE @]

write_file(p, s, n, append) ==
    /\ CanCall(p, s) /\ IsRegular(p, n) /\ fds[p][n].writable
    /\ LET at == IF append THEN SizeOf(p, n) ELSE fds[p][n].offset
       IN  /\ at < MaxSize
           /\ inodes' = Grown(OpenInode(p, n), at + 1)
           /\ fds' = [fds EXCEPT ![p][n].offset = at + 1]

pwrite(p, s, n, at) ==
    /\ CanCall(p, s) /\ IsRegular(p, n) /\ fds[p][n].writable /\ at < MaxSize
    /\ inodes' = Grown(OpenInode(p, n), at + 1)
    /\ UNCHANGED fds

ftruncate(p, s, n, length) ==
    /\ CanCall(p, s) /\ IsRegular(p, n) /\ fds[p][n].writable
    /\ inodes' = [inodes EXCEPT ![OpenInode(p, n)].size = length]
    /\ UNCHANGED fds

lseek(p, s, n, whence, by) ==
    /\ CanCall(p, s) /\ Is(p, n, "file")
    /\ LET base == [set |-> 0, current |-> fds[p][n].offset, end |-> SizeOf(p, n)][whence]
       IN  /\ base + by \in 0 .. MaxSize
           /\ fds' = [fds EXCEPT ![p][n].offset = base + by]
    /\ UNCHANGED inodes

\* aio_read, aio_write and aio_fsync complete inside the call; the result
\* waits under the control block until aio_return takes it.  A fault while
\* the data moves is a result, not an error of the call.
aio_submit(p, s, n, block, writes, fault) ==
    /\ CanCall(p, s) /\ aio[p][block] = "none" /\ IsRegular(p, n)
    /\ writes => fds[p][n].writable
    /\ inodes' = IF writes /\ ~fault /\ fds[p][n].offset < MaxSize
                 THEN Grown(OpenInode(p, n), fds[p][n].offset + 1) ELSE inodes
    /\ aio' = [aio EXCEPT ![p][block] = IF fault THEN "error" ELSE "done"]

aio_return(p, s, block) ==
    /\ CanCall(p, s) /\ aio[p][block] # "none"
    /\ aio' = [aio EXCEPT ![p][block] = "none"]

-----------------------------------------------------------------------------
(***************************************************************************)
(* Locks.                                                                  *)
(***************************************************************************)
fcntl_setlk(p, s, n, request, wait) ==
    /\ CanCall(p, s) /\ Is(p, n, "file")
    /\ request.kind = "exclusive" => fds[p][n].writable
    /\ LET i == OpenInode(p, n)
       IN  \/ /\ CanSetRecordLock(records[i], p, request)
              /\ records' = [records EXCEPT ![i] = RecordLockSet(@, p, request)]
              /\ NoBlock
           \/ /\ ~CanSetRecordLock(records[i], p, request) /\ wait
              /\ Block(p, s, [op |-> "setlkw", obj |-> i, request |-> request])
              /\ UNCHANGED records

fcntl_unlck(p, s, n, range) ==
    /\ CanCall(p, s) /\ Is(p, n, "file")
    /\ records' = [records EXCEPT ![OpenInode(p, n)] = unlock_record_lock(@, p, range)]
    /\ NoBlock

flock(p, s, n, kind, wait) ==
    /\ CanCall(p, s) /\ Is(p, n, "file")
    /\ LET i == OpenInode(p, n)
           d == fds[p][n].obj
       IN  \/ /\ CanAcquire(flocks[i], d, kind)
              /\ flocks' = [flocks EXCEPT ![i] = Acquired(@, d, kind)]
              /\ NoBlock
           \/ /\ ~CanAcquire(flocks[i], d, kind) /\ wait
              /\ Block(p, s, [op |-> "flock", obj |-> d, kind |-> kind])
              /\ UNCHANGED flocks

flock_un(p, s, n) ==
    /\ CanCall(p, s) /\ Is(p, n, "file")
    /\ flocks' = [flocks EXCEPT ![OpenInode(p, n)] = Released(@, fds[p][n].obj)]
    /\ NoBlock

\* release_record_locks_for_descriptor: closing any descriptor of a file
\* drops every record lock the process holds on the file.
RecordsWithout(p, n) ==
    IF Is(p, n, "file")
    THEN [records EXCEPT ![OpenInode(p, n)] = unlock_record_lock(@, p, EveryByte)]
    ELSE records

\* The continuation of a blocked lock call can complete.
LockReady(p, s) ==
    LET c == pending[p][s]
    IN  \/ c.op = "setlkw" /\ CanSetRecordLock(records[c.obj], p, c.request)
        \/ c.op = "flock" /\ CanAcquire(flocks[descr[c.obj]], c.obj, c.kind)

\* The flock table once the lock is granted: the continuation that kept the
\* description goes, and with it a lock nobody else refers to.
Granted(p, s) ==
    LET c == pending[p][s]
    IN  IF c.op = "flock" THEN [flocks EXCEPT ![descr[c.obj]] = Acquired(@, c.obj, c.kind)]
        ELSE flocks

complete_lock(p, s) ==
    /\ LockReady(p, s)
    /\ LET c == pending[p][s]
       IN  records' = IF c.op = "setlkw"
                      THEN [records EXCEPT ![c.obj] = RecordLockSet(@, p, c.request)]
                      ELSE records
    /\ Woken(p, s)
=============================================================================
