----------------------------- MODULE BsdKernel -----------------------------
(***************************************************************************)
(* The BSD side of the emulated kernel: processes, descriptors, files,     *)
(* locks, sockets and events together, with the steps that reach across    *)
(* them: close, fork, exec, spawn, exit, kill, the passing of time and the *)
(* guest loop's pass over blocked threads (src/src/kernel/kernel.cpp       *)
(* deliver_pending_io, app/main.cpp).                                      *)
(*                                                                         *)
(* `mix` is chosen once and says which calls the guest programs of a       *)
(* behaviour make: the state space is the sum over the mixes, and every    *)
(* mix ends with the calls that reach across components.                   *)
(***************************************************************************)
EXTENDS BsdSockets

CONSTANTS
    Mixes,             \* the call mixes explored
    MaxCalls,          \* bound of the system calls a behaviour makes
    OneMore, TwoMore,  \* the mixes whose behaviours make one and two more
    CopyoutFaults      \* whether a recvmsg may be given an unmapped buffer

ASSUME KernelAssumption == CopyoutFaults \in BOOLEAN /\ MaxCalls \in Nat

CallBound(mixed) ==
    MaxCalls + (IF mixed \in OneMore THEN 1 ELSE IF mixed \in TwoMore THEN 2 ELSE 0)

VARIABLES
    mix,               \* the mix of this behaviour, chosen once
    calls              \* the system calls made so far

vars == <<mix, calls, processVars, fds, fileVars, socketVars>>

On(names_) == mix \in names_

Init ==
    /\ mix \in Mixes /\ calls = 0
    /\ ProcessesInit /\ DescriptorsInit /\ FilesInit /\ SocketsInit

-----------------------------------------------------------------------------
(***************************************************************************)
(* What the last reference to an open description takes along.             *)
(***************************************************************************)
Held == DescribedBy(LiveEntries) \cup WaitingDescriptions

DescriptionsSettled == descr' = Settled(descr, Held')
FilesSettled == DescriptionsSettled /\ flocks' = FlocksSettled(flocks, Held')

UnusedNames  == UNCHANGED <<names, inodes, sidecars, override, named>>
UnusedTables == UNCHANGED <<aio, mounts, cwd>>
SameProcess  == UNCHANGED <<process, record, generations, disposition, itimer, clock>>
SameThreads  == UNCHANGED <<threads, pending>>
SameSockets  == UNCHANGED socketVars
SameFiles    == UNCHANGED fileVars

\* release_file_descriptor and the record locks of the file behind it.
close(p, s, n) ==
    /\ CanCall(p, s) /\ n \in Open(p)
    /\ fds' = [fds EXCEPT ![p] = Released_(@, n)]
    /\ records' = RecordsWithout(p, n)
    /\ UNCHANGED <<nextPair, stream, shut, nodes>>
    /\ SameThreads /\ ListenersSettled /\ FilesSettled
    /\ SameProcess /\ UnusedNames /\ UnusedTables

dup2(p, s, n, m) ==
    /\ CanCall(p, s) /\ n \in Open(p) /\ n # m
    /\ fds' = [fds EXCEPT ![p] = Dup2Table(@, n, m)]
    /\ records' = RecordsWithout(p, m)
    /\ UNCHANGED <<nextPair, stream, shut, nodes>>
    /\ SameThreads /\ ListenersSettled /\ FilesSettled
    /\ SameProcess /\ UnusedNames /\ UnusedTables

-----------------------------------------------------------------------------
(***************************************************************************)
(* Processes.                                                              *)
(***************************************************************************)
\* exit_process of the victims; their continuations stay.
Die(victims, status, removed) ==
    /\ ExitEffect(victims, status, removed)
    /\ fds' = [p \in Pids |-> IF p \in victims THEN NoDescriptors ELSE fds[p]]
    /\ records' = [i \in Inodes |-> release_process_record_locks(records[i], victims)]
    /\ UNCHANGED <<pending, disposition, nextPair, stream, shut, nodes>>
    /\ ListenersSettled /\ FilesSettled
    /\ UnusedNames /\ UnusedTables

exit_process(p, s, status) ==
    /\ CanCall(p, s)
    /\ Die({p}, status, TRUE) /\ UNCHANGED clock

kill(p, s, whom, signal) ==
    /\ CanCall(p, s) /\ Victims(p, whom, signal) # {}
    /\ Die(Victims(p, whom, signal), signal, TRUE) /\ UNCHANGED clock

\* fork: the child takes the next pid and a copy of the table, queues and
\* registrations included; it owns no record lock.
Descendant == Min(Unused)

fork(p, s) ==
    /\ CanCall(p, s) /\ Unused # {}
    /\ CreateEffect(p, Descendant, TRUE)
    /\ fds' = [fds EXCEPT ![Descendant] = fds[p]]
    /\ cwd' = [cwd EXCEPT ![Descendant] = cwd[p]]
    /\ UNCHANGED <<generations, itimer, clock, pending>>
    /\ SameSockets
    /\ UNCHANGED <<names, inodes, sidecars, override, named, descr, flocks, records,
                   aio, mounts>>

\* posix_spawn: a child that has already loaded the new image.  When the
\* image cannot be loaded the child exits with 127 and stays a zombie,
\* though the parent is told ENOEXEC and no pid.
SpawnChild(p, loads) ==
    /\ LET c     == Descendant
           child == [process[p] EXCEPT !.exited = ~loads, !.alarmed = FALSE]
       IN  /\ process' = [process EXCEPT ![c] = child]
           /\ record' = [record EXCEPT ![c] =
                  [parent |-> p, exited |-> ~loads, status |-> IF loads THEN "none" ELSE "127",
                   group |-> child.group, uid |-> child.uid, euid |-> child.euid]]
           /\ generations' =
                  IF loads THEN [generations EXCEPT ![c].exec = @ + 1]
                           ELSE [generations EXCEPT ![c].exit = @ + 1, ![c].status = "127"]
           /\ fds' = [fds EXCEPT ![c] = IF loads THEN AfterExec(fds[p]) ELSE NoDescriptors]
           /\ threads' = [threads EXCEPT ![c] =
                  [t \in Slots |-> IF loads /\ t = Min(Slots) THEN "running" ELSE "none"]]
           /\ cwd' = [cwd EXCEPT ![c] = cwd[p]]
    /\ UNCHANGED <<disposition, itimer, clock, pending>>

spawn(p, s, loads) ==
    /\ CanCall(p, s) /\ Unused # {} /\ SpawnChild(p, loads)
    /\ SameSockets
    /\ UNCHANGED <<names, inodes, sidecars, override, named, descr, flocks, records,
                   aio, mounts>>

\* exec: the descriptors marked close-on-exec go as close lets them go; the
\* continuations of the other threads go with them.
ExecRecords(p) ==
    LET closing == {OpenInode(p, n) : n \in {m \in CloseOnExec(fds[p]) : Is(p, m, "file")}}
    IN  [i \in Inodes |-> IF i \in closing THEN unlock_record_lock(records[i], p, EveryByte)
                          ELSE records[i]]

exec(p, s) ==
    /\ CanCall(p, s) /\ generations[p].exec < MaxImages
    /\ ExecEffect(p, s)
    /\ fds' = [fds EXCEPT ![p] = AfterExec(@)]
    /\ aio' = [aio EXCEPT ![p] = [b \in Blocks |-> "none"]]
    /\ records' = ExecRecords(p)
    /\ UNCHANGED <<process, itimer, clock, nextPair, stream, shut, nodes, mounts, cwd>>
    /\ ListenersSettled /\ FilesSettled /\ UnusedNames

\* Time passes: every facade's timer is serviced, and the default action of
\* SIGALRM ends the process from outside any of its threads, which stay
\* with the scheduler.
Alarmed(now) ==
    {p \in Pids : Live(p) /\ Due(p, now) /\ Terminates(p, "alarm")}

advance_time ==
    /\ clock < MaxTime /\ clock' = clock + 1
    /\ LET now == clock + 1
           out == Alarmed(now)
       IN  /\ process' = [p \in Pids |-> IF p \in out
                  THEN [process[p] EXCEPT !.exited = TRUE, !.alarmed = TRUE] ELSE process[p]]
           /\ record' = [p \in Pids |-> IF p \in out
                  THEN [record[p] EXCEPT !.exited = TRUE, !.status = "alarm"] ELSE record[p]]
           /\ generations' = [p \in Pids |-> IF p \in out
                  THEN [generations[p] EXCEPT !.exit = @ + 1, !.status = "alarm"]
                  ELSE generations[p]]
           /\ itimer' = [p \in Pids |->
                  IF p \in out THEN NoTimer
                  ELSE IF Live(p) /\ Due(p, now) THEN Rearmed(itimer[p], now) ELSE itimer[p]]
           /\ fds' = [p \in Pids |-> IF p \in out THEN NoDescriptors ELSE fds[p]]
           /\ records' = [i \in Inodes |-> release_process_record_locks(records[i], out)]
    /\ UNCHANGED <<threads, pending, disposition, nextPair, stream, shut, nodes>>
    /\ ListenersSettled /\ FilesSettled
    /\ UnusedNames /\ UnusedTables

\* A runtime whose process has exited goes once nothing can run: the facade
\* with its continuations, and the scheduler's entries no longer reach it.
retire_runtime(p) ==
    /\ p # 1 /\ process[p].exists /\ process[p].exited
    /\ \A q \in Pids, s \in Slots : threads[q][s] # "running"
    /\ \E s \in Slots : pending[p][s] # Idle \/ threads[p][s] # "none"
    /\ pending' = [pending EXCEPT ![p] = [s \in Slots |-> Idle]]
    /\ threads' = [threads EXCEPT ![p] = [s \in Slots |-> "none"]]
    /\ UNCHANGED <<fds, stream, records>> /\ FilesSettled
    /\ SameProcess /\ UNCHANGED <<nextPair, shut, queue, registry, nodes>>
    /\ UnusedNames /\ UnusedTables

-----------------------------------------------------------------------------
(***************************************************************************)
(* deliver_pending_io: the loop offers a waiting thread its continuation.  *)
(***************************************************************************)
deliver_pending_io(p, s) ==
    /\ threads[p][s] = "waiting"
    /\ \/ /\ complete_lock(p, s) /\ UNCHANGED fds /\ SameSockets
          /\ DescriptionsSettled /\ flocks' = FlocksSettled(Granted(p, s), Held')
       \/ complete_socket(p, s, 1) /\ UNCHANGED <<records>> /\ FilesSettled
       \/ complete_event(p, s) /\ UNCHANGED records /\ SameSockets /\ FilesSettled
    /\ SameProcess /\ UnusedNames /\ UnusedTables

reap_waits(p, s) ==
    /\ complete_wait(p, s)
    /\ UNCHANGED <<process, generations, disposition, itimer, clock, fds>>
    /\ SameFiles /\ SameSockets

reap_exited(p, s) ==
    /\ reap_chosen(p, s)
    /\ UNCHANGED pending /\ SameProcess /\ UNCHANGED fds /\ SameFiles /\ SameSockets

-----------------------------------------------------------------------------
(***************************************************************************)
(* The mixes.                                                              *)
(***************************************************************************)
\* Threads and processes come and go beside most mixes.
SameKernel == SameFiles /\ SameSockets /\ UNCHANGED fds

ProcessStep(p, s) ==
    \/ On({"locks", "flocks", "waits", "signals", "users"}) /\ fork(p, s)
    \/ On({"locks", "flocks", "listen", "waits"}) /\ exit_process(p, s, "0")
    \/ /\ On({"locks", "flocks", "events", "rights"}) /\ p = 1
       /\ \E t \in Slots : start_thread(p, s, t)
       /\ UNCHANGED pending /\ SameProcess /\ SameKernel
    \/ On({"waits", "flocks"}) /\ exec(p, s)
    \/ On({"waits"}) /\ \E loads \in BOOLEAN : spawn(p, s, loads)
    \/ /\ On({"signals", "users"})
       /\ \E q \in Pids, by \in {"pid", "group", "all"}, g \in Signals :
              (mix = "users" => g = "kill") /\ kill(p, s, [by |-> by, pid |-> q], g)
    \/ /\ On({"waits"})
       /\ \E q \in Pids \cup {0} :
              wait4(p, s, q) \/ \E fault \in BOOLEAN : wait4_nohang(p, s, q, fault)
       /\ UNCHANGED <<process, generations, disposition, itimer, clock>> /\ SameKernel
    \/ /\ On({"users"})
       /\ \/ \E u \in {Root, Mobile}, e \in BOOLEAN : setuid(p, s, u, e)
          \/ setsid(p, s) /\ UNCHANGED record
       /\ UNCHANGED <<generations, disposition, itimer, clock>> /\ SameThreads /\ SameKernel
    \/ /\ On({"signals"})
       /\ \/ \E g \in Signals, a \in {"default", "ignore"} : sigaction(p, s, g, a)
          \/ \E how \in {"block", "unblock", "set"} : sigprocmask(p, s, how, {"alarm"})
       /\ UNCHANGED <<process, record, generations, itimer, clock>> /\ SameThreads
       /\ SameKernel
    \/ /\ On({"signals", "locks"})
       /\ \E interval, value \in 0 .. 1 :
             /\ mix = "locks" => interval = 0 /\ value = 1 /\ p # 1
             /\ setitimer(p, s, interval, value)
       /\ UNCHANGED <<process, record, generations, disposition, clock>> /\ SameThreads
       /\ SameKernel

DescriptorStep(p, s) ==
    \/ \E n \in Fds : ~On({"waits", "signals", "users"}) /\ close(p, s, n)
    \/ \E n, m \in Fds : On({"listen"}) /\ dup2(p, s, n, m)
    \/ /\ On({"flocks"})
       /\ \E n \in Fds : dup(p, s, n) \/ fcntl_flags(p, s, n, FALSE, TRUE)
       /\ SameProcess /\ SameThreads /\ SameFiles /\ SameSockets
    \/ /\ On({"listen"})
       /\ \E n \in Fds : fcntl_flags(p, s, n, TRUE, FALSE)
       /\ SameProcess /\ SameThreads /\ SameFiles /\ SameSockets

LockStep(p, s) ==
    /\ \/ /\ On({"locks"})
          /\ \E n \in Fds, r \in LockRanges : fcntl_setlk(p, s, n, r, TRUE)
          /\ UNCHANGED flocks
       \/ /\ On({"locks"})
          /\ \E n \in Fds, r \in LockRanges : r.kind = "shared" /\ fcntl_unlck(p, s, n, r)
          /\ UNCHANGED flocks
       \/ /\ On({"flocks"})
          /\ \E n \in Fds, k \in LockKinds, wait \in BOOLEAN : flock(p, s, n, k, wait)
          /\ UNCHANGED records
       \/ /\ On({"flocks"})
          /\ \E n \in Fds : flock_un(p, s, n)
          /\ UNCHANGED records
    /\ UNCHANGED <<fds, descr>> /\ SameProcess /\ SameSockets /\ UnusedNames /\ UnusedTables

OpenFlags ==
    {f \in [create : {TRUE}, exclusive : BOOLEAN, truncate : BOOLEAN, write : {TRUE}] :
        ~(f.exclusive /\ f.truncate)}
SharedName == CHOOSE n \in Names : TRUE
PlainOpen == [create |-> TRUE, exclusive |-> FALSE, truncate |-> FALSE, write |-> TRUE]

OpenStep(p, s) ==
    /\ \/ On({"locks", "flocks"}) /\ Cardinality(Open(p)) < 2 /\ open(p, s, SharedName, PlainOpen, Min(Inodes))
       \/ /\ On({"files", "data"})
          /\ \E n \in Names, f \in OpenFlags, i \in Inodes : open(p, s, n, f, i)
    /\ SameProcess /\ SameThreads /\ SameSockets

NameStep(p, s) ==
    /\ On({"files"})
    /\ \/ /\ \E a, b \in Names : link(p, s, a, b)
          /\ UNCHANGED fds
       \/ \E a \in Names : (unlink(p, s, a) \/ rmdir(p, s, a)) /\ UNCHANGED fds
       \/ \E a \in Names, i \in Inodes : mkdir(p, s, a, i) /\ UNCHANGED fds
       \/ \E a, b \in Names, i \in Inodes : symlink(p, s, a, b, i) /\ UNCHANGED fds
       \/ \E a, b \in Names : rename(p, s, a, b)
       \/ \E a \in Names : change_metadata(p, s, a, {"flags"}) /\ UNCHANGED fds
       \/ \E a \in Names : chown(p, s, a, Mobile) /\ UNCHANGED fds
       \/ \E n \in Fds : change_metadata_fd(p, s, n, {"flags"}) /\ UNCHANGED fds
       \/ \E a \in Names, e \in BOOLEAN :
              setattrlist(p, s, a, {"finder"}, e) /\ UNCHANGED fds
       \/ \E a \in Names, o \in SetOptions : setxattr(p, s, a, "fork", o) /\ UNCHANGED fds
       \/ \E a \in Names : removexattr(p, s, a, "fork") /\ UNCHANGED fds
       \/ \E n \in Fds : fsetxattr(p, s, n, "fork", "any") /\ UNCHANGED fds
       \/ \E n \in Fds : fremovexattr(p, s, n, "fork") /\ UNCHANGED fds
    /\ UNCHANGED <<descr, flocks, records, aio, mounts, cwd>>
    /\ SameProcess /\ SameThreads /\ SameSockets

DataStep(p, s) ==
    /\ On({"data"})
    /\ \/ /\ \E n \in Fds :
              \/ read_file(p, s, n) \/ getdirentries(p, s, n)
              \/ \E append \in BOOLEAN : write_file(p, s, n, append)
              \/ pwrite(p, s, n, 0) \/ ftruncate(p, s, n, 0)
              \/ \E whence \in {"set", "current", "end"} : lseek(p, s, n, whence, 1)
          /\ UNCHANGED <<names, override, aio, mounts, cwd>>
       \/ /\ \E n \in Fds, b \in Blocks, writes, fault \in BOOLEAN :
                 aio_submit(p, s, n, b, writes, fault)
          /\ UNCHANGED <<fds, names, override, mounts, cwd>>
       \/ /\ \E b \in Blocks : aio_return(p, s, b)
          /\ UNCHANGED <<fds, names, inodes, override, mounts, cwd>>
       \/ /\ \E n \in Names, i \in Inodes : mkdir(p, s, n, i)
          /\ UNCHANGED <<fds, aio, mounts, cwd>>
       \/ /\ \/ \E n \in Names : chdir(p, s, n)
             \/ \E n \in Fds : fchdir(p, s, n)
          /\ UNCHANGED <<fds, names, inodes, override, aio, mounts>>
       \/ /\ \E n \in Names : mount(p, s, n) \/ unmount(p, s, n)
          /\ UNCHANGED <<fds, names, inodes, override, aio, cwd>>
    /\ UNCHANGED <<sidecars, named, descr, flocks, records>>
    /\ SameProcess /\ SameThreads /\ SameSockets

\* The descriptors a guest passes here are files and pairs.
Passable(p) == {n \in Open(p) : fds[p][n].kind \in {"file", "pair"}}
Receipts    == {"read", "message", "truncated"} \cup (IF CopyoutFaults THEN {"fault"} ELSE {})

SocketStep(p, s) ==
    /\ \/ /\ On({"rights"}) /\ socketpair(p, s) /\ SameThreads
       \/ On({"events"}) /\ pipe(p, s) /\ SameThreads
       \/ /\ On({"rights", "events"}) /\ SameThreads
          /\ \E n \in Fds : send(p, s, n, 1, <<>>)
       \/ /\ On({"rights"}) /\ SameThreads
          /\ \E n \in Fds, m \in Passable(p) : send(p, s, n, 1, <<m>>)
       \/ /\ On({"rights"})
          /\ \E n \in Fds, how \in Receipts, count \in 1 .. 2 : receive(p, s, n, count, how)
       \/ /\ On({"events"})
          /\ \E n \in Fds : receive(p, s, n, 1, "read")
       \/ /\ On({"rights"}) /\ SameThreads
          /\ \E n \in Fds, how \in {"read", "write", "both"} : shutdown(p, s, n, how)
       \/ /\ On({"listen"}) /\ SameThreads
          /\ \/ socket(p, s)
             \/ \E n \in Fds, a \in SocketNames : bind(p, s, n, a) \/ connect(p, s, n, a)
             \/ \E n \in Fds, l \in Listeners : listen(p, s, n, l)
             \/ \E a \in SocketNames : unlink_socket(p, s, a)
       \/ On({"listen"}) /\ \E n \in Fds, fault \in BOOLEAN : accept(p, s, n, fault)
    /\ FilesSettled /\ UNCHANGED records /\ SameProcess /\ UnusedNames /\ UnusedTables

Changes ==
    [op : {"add", "delete"}, filter : {"read"}, ident : Fds, notes : {{}}]
    \cup [op : {"add", "delete"}, filter : {"process"}, ident : Pids,
          notes : {{"exit"}, {"exec", "exit"}}]

EventStep(p, s) ==
    /\ \/ On({"events", "waits"}) /\ kqueue(p, s) /\ SameThreads
       \/ /\ On({"events", "waits"})
          /\ \E n \in Fds, c \in Changes :
                /\ c.filter = IF mix = "events" THEN "read" ELSE "process"
                /\ c.ident # n /\ mix = "waits" => c.op = "add"
                /\ kevent_change(p, s, n, c)
       \/ /\ On({"events", "waits"})
          /\ \E n \in Fds, t \in {1, Forever} :
                (mix = "waits" => t = Forever) /\ kevent(p, s, n, 1, t)
       \/ /\ On({"events"})
          /\ \E n \in Fds, t \in {1, Forever} : select(p, s, {n}, {}, t)
          /\ UNCHANGED fds
    /\ SameProcess /\ SameFiles /\ SameSockets

LoopStep ==
    \/ On({"signals", "events", "locks"}) /\ advance_time
    \/ \E p \in Pids : retire_runtime(p)
    \/ \E p \in Pids, s \in Slots :
           deliver_pending_io(p, s) \/ reap_waits(p, s) \/ reap_exited(p, s)

\* The loop ends when the initial process exits.
Next ==
    /\ ~process[1].exited
    /\ \/ /\ calls < CallBound(mix) /\ calls' = calls + 1
          /\ \E p \in Pids, s \in Slots :
              \/ ProcessStep(p, s) \/ DescriptorStep(p, s) \/ LockStep(p, s)
              \/ OpenStep(p, s) \/ NameStep(p, s) \/ DataStep(p, s)
              \/ SocketStep(p, s) \/ EventStep(p, s)
       \/ LoopStep /\ UNCHANGED calls
    /\ UNCHANGED mix

\* The loop looks at every waiting thread and every pending wait on every
\* pass, and time passes with the guest's instructions or, when nothing runs,
\* by a jump to the next deadline.
Loop(A) == ~process[1].exited /\ A /\ UNCHANGED <<mix, calls>>
Fairness ==
    /\ \A p \in Pids, s \in Slots :
          /\ WF_vars(Loop(deliver_pending_io(p, s)))
          /\ WF_vars(Loop(reap_waits(p, s)))
    /\ WF_vars(Loop(On({"signals", "events", "locks"}) /\ advance_time))

Spec == Init /\ [][Next]_vars /\ Fairness

-----------------------------------------------------------------------------
(***************************************************************************)
(* Properties.                                                             *)
(***************************************************************************)
OpenFor(p)  == {OpenInode(p, n) : n \in {m \in Fds : Is(p, m, "file")}}
RecordOwners(i) == {l.pid : l \in records[i]}

\* Whatever sequence of open, dup, fork, close, exec, exit, kill and blocked
\* requests led here: a process holds at most one record lock on a byte, no
\* two processes hold conflicting ones, an exclusive flock excludes every
\* other, a flock belongs to an open description that is still referenced,
\* and a record lock to a process that has not exited.  (A process that the
\* alarm timer ended keeps its waiting threads, so a lock may be granted to
\* it later.)
LocksExact ==
    /\ \A i \in Inodes :
          /\ ByteMapFunctional(records[i], Pids) /\ ByteMapCompatible(records[i], Pids)
          /\ flocks[i].exclusive # NoOwner => flocks[i].shared = {}
          /\ \A d \in flocks[i].shared \cup ({flocks[i].exclusive} \ {NoOwner}) :
                descr[d] = i /\ d \in Held
    /\ \A i \in Inodes : \A p \in RecordOwners(i) : Live(p) \/ process[p].alarmed

\* The kernel binds a message's descriptors to the byte that carried them:
\* the position kept for the reader is where the reader is, every record
\* names the byte it was sent with, in order and none behind the reader.
\* (A side shut for reading has thrown its bytes away.)
RightsBoundToBytes ==
    \A k \in Pairs, x \in Sides :
        LET t == stream[k][x]
        IN  ~shut[k][x].read =>
              /\ t.offset = t.taken
              /\ \A i \in DOMAIN t.anc :
                    /\ t.anc[i].offset = t.anc[i].byte
                    /\ t.anc[i].byte \in t.taken .. Total(t) - 1
                    /\ i > 1 => t.anc[i - 1].byte < t.anc[i].byte

\* The emulator's metadata tables hold nothing for an inode without a name,
\* so a new file that is given the number of a removed one starts without
\* overrides or attributes of the old; a resource fork sits beside a name
\* that exists.
MetadataHasName ==
    /\ \A i \in Inodes : Links(i) = {} =>
          override[i] = {} /\ named[i] = [a \in Attributes |-> "unset"]
    /\ \A n \in sidecars : Exists(n)

\* An exit leaves nothing of the process behind: no descriptor, no timer, no
\* thread that may run guest code (unless the alarm timer ended it), and the
\* zombie says so until its parent has waited.
ExitLeavesNothing ==
    \A p \in Pids : process[p].exited =>
        /\ Open(p) = {} /\ itimer[p] = NoTimer
        /\ HasRecord(p) => record[p].exited
        /\ generations[p].exit = 1
        /\ ~process[p].alarmed => \A s \in Slots : threads[p][s] = "none"

\* Reasons, stated without the code's own readiness tests, for which a
\* blocked thread may not stay blocked: its deadline has passed; nobody has
\* the other end of the socket it reads; a child it waits for, or a process
\* its queue watches, has died since; everybody who could hold a lock it
\* wants is gone.
Overdue(p, s) ==
    LET c == pending[p][s]
    IN  /\ Live(p) /\ threads[p][s] = "waiting"
        /\ \/ c.op \in {"select", "kevent"} /\ c.deadline # NoDeadline /\ c.deadline <= clock
           \/ /\ c.op = "receive" /\ Is(p, c.fd, "pair")
              /\ <<Pair(p, c.fd), 1 - Side(p, c.fd)>> \notin LiveEndpoints
           \/ /\ c.op = "wait"
              /\ \E q \in Pids : /\ process[q].exited /\ record[q].parent = p
                                 /\ c.target \in {0, q}
           \/ /\ c.op = "kevent" /\ IsQueue(p, c.fd)
              /\ \E r \in fds[p][c.fd].queue :
                    /\ r.filter = "process" /\ "exit" \in r.notes
                    /\ r.exit = 0 /\ process[r.ident].exited
           \/ /\ c.op \in {"setlkw", "flock"}
              /\ \A q \in Pids \ {p} : ~Live(q) /\ ~process[q].alarmed
              /\ c.op = "flock" => OpenFor(p) = {}

\* No blocked call outlives the reason it blocked for: the guest loop gets
\* to every thread that is overdue.
OverdueWaitersWake ==
    \A p \in Pids, s \in Slots : []<>(~Overdue(p, s) \/ process[1].exited)

\* What the kernel records about a file goes with its last name, and what it records
\* about a process goes with the process.
NothingOutlivesOwner == MetadataHasName /\ ExitLeavesNothing
=============================================================================
