---------------------------- MODULE BsdProcesses ----------------------------
(*****************************************************************************)
(* Processes of the emulated BSD kernel: identity and credentials, exit      *)
(* and wait, signals, interval timers (src/src/kernel/bsd/process.cpp,       *)
(* process/*.cpp, signal/signal.cpp and the guest loop's wait pass in        *)
(* app/main.cpp), and their descriptor tables.                               *)
(*                                                                           *)
(* A process is described twice: `process` is the kernel facade's own        *)
(* ProcessContext, `record` the entry of the table every facade shares.      *)
(* The record outlives the facade as a zombie until the parent waits.        *)
(*                                                                           *)
(* The kernel is entered by one guest thread at a time, so every handler     *)
(* is one action.  A thread that blocks leaves a continuation in `pending`   *)
(* under its slot; the guest loop offers the continuation to the kernel      *)
(* again on every pass.                                                      *)
(*                                                                           *)
(* The descriptor table (kernel.cpp, bsd/descriptor_lifecycle.cpp,           *)
(* bsd/descriptor_memory.cpp) is one map per attribute in the code, all      *)
(* keyed by the descriptor number; here an entry is the tuple of what the    *)
(* maps say of the number.  What an entry refers to (`obj`) is shared by     *)
(* the copies that dup, fork and SCM_RIGHTS make; everything else is copied  *)
(* by value, the file offset included.                                       *)
(*****************************************************************************)
EXTENDS Naturals, FiniteSets, FiniteSetsExt, Sequences

CONSTANTS
    Pids,              \* the process ids, numbered from 1 (the initial process)
    Slots,             \* the thread slots of a process
    Signals,           \* the signals a guest sends; "alarm", "kill" are among them
    IgnoredByDefault,  \* default_signal_is_ignored and default_signal_stops
    MaxTime,           \* bound of the clock
    MaxImages          \* bound of the images a process loads (exec)

ASSUME ProcessAssumption ==
    /\ IsFiniteSet(Pids) /\ Pids = 1 .. Cardinality(Pids) /\ 1 \in Pids
    /\ {"alarm", "kill"} \subseteq Signals
    /\ IgnoredByDefault \subseteq Signals \ {"alarm", "kill"}
    /\ MaxTime \in Nat /\ MaxImages \in Nat

VARIABLES
    process,           \* process_ of every facade
    record,            \* shared_state_->processes
    generations,       \* process_kevent_states: exec and exit generations
    disposition,       \* signal_actions_ and signal_mask_
    itimer,            \* process_interval_timers
    clock,             \* the virtual clock
    threads,           \* what the scheduler knows of each thread slot
    pending            \* the continuation a blocked thread left behind

processVars == <<process, record, generations, disposition, itimer, clock,
                 threads, pending>>

NoRecord == [parent |-> 0]
Idle     == [op |-> "none"]
Root     == 0
Mobile   == 501

Never == 0                          \* a timer that is not armed has no deadline

Live(p)       == process[p].exists /\ ~process[p].exited
CanCall(p, s) == Live(p) /\ threads[p][s] = "running"
HasRecord(p)  == record[p].parent # 0
Children(p)   == {c \in Pids : HasRecord(c) /\ record[c].parent = p}

FreshDisposition == [action |-> [g \in Signals |-> "default"], mask |-> {}]
NoTimer          == [interval |-> 0, deadline |-> Never]

\* The facade and the shared record of the initial process; its parent is no
\* process of the table.
ProcessesInit ==
    /\ process = [p \in Pids |->
           [exists |-> p = 1, exited |-> FALSE, group |-> 1,
            uid |-> Root, euid |-> Root, alarmed |-> FALSE]]
    /\ record = [p \in Pids |->
           IF p = 1 THEN [parent |-> p + Cardinality(Pids), exited |-> FALSE,
                          status |-> "none", group |-> 1, uid |-> Root, euid |-> Root]
                    ELSE NoRecord]
    /\ generations = [p \in Pids |->
           [exec |-> IF p = 1 THEN 1 ELSE 0, exit |-> 0, status |-> "none"]]
    /\ disposition = [p \in Pids |-> FreshDisposition]
    /\ itimer = [p \in Pids |-> NoTimer]
    /\ clock = 0
    /\ threads = [p \in Pids |-> [s \in Slots |->
           IF p = 1 /\ s = Min(Slots) THEN "running" ELSE "none"]]
    /\ pending = [p \in Pids |-> [s \in Slots |-> Idle]]

-----------------------------------------------------------------------------
(***************************************************************************)
(* Blocking and waking.                                                    *)
(***************************************************************************)
\* The calling thread leaves a continuation and is halted with UserDefined5.
Block(p, s, continuation) ==
    /\ pending' = [pending EXCEPT ![p][s] = continuation]
    /\ threads' = [threads EXCEPT ![p][s] = "waiting"]

NoBlock == UNCHANGED <<pending, threads>>

\* The continuation completed: it is erased and the thread made runnable.
Woken(p, s) ==
    /\ pending' = [pending EXCEPT ![p][s] = Idle]
    /\ threads' = [threads EXCEPT ![p][s] = "running"]

-----------------------------------------------------------------------------
(***************************************************************************)
(* Exit.  ExitEffect is the part of exit_process this module's state       *)
(* takes; BsdKernel adds what it does to locks and descriptors.  The       *)
(* continuations stay: only the Mach ones are dropped (modelled with the   *)
(* Mach components).  `removed` says whether the caller also took the      *)
(* threads out of the scheduler.                                           *)
(***************************************************************************)

\* retire_process of the interval timers.
Retired(victims) == [p \in Pids |-> IF p \in victims THEN NoTimer ELSE itimer[p]]

ExitEffect(victims, status, removed) ==
    /\ process' = [p \in Pids |-> IF p \in victims
           THEN [process[p] EXCEPT !.exited = TRUE, !.alarmed = ~removed] ELSE process[p]]
    /\ record' = [p \in Pids |-> IF p \in victims /\ HasRecord(p)
           THEN [record[p] EXCEPT !.exited = TRUE, !.status = status] ELSE record[p]]
    /\ generations' = [p \in Pids |-> IF p \in victims
           THEN [generations[p] EXCEPT !.exit = @ + 1, !.status = status]
           ELSE generations[p]]
    /\ itimer' = Retired(victims)
    /\ threads' = [p \in Pids |-> IF p \in victims /\ removed
           THEN [s \in Slots |-> "none"] ELSE threads[p]]

\* A thread the loop still knows of an exited process is taken out when the
\* scheduler chooses it.
reap_chosen(p, s) ==
    /\ process[p].exists /\ process[p].exited /\ threads[p][s] = "running"
    /\ threads' = [threads EXCEPT ![p] = [t \in Slots |-> "none"]]

-----------------------------------------------------------------------------
(***************************************************************************)
(* wait4.                                                                  *)
(***************************************************************************)
Targets(p, target) == {c \in Children(p) : target \in {0, c}}

\* wait_child: the table is walked in pid order; the first exited child wins.
ExitedChildren(p, target) == {c \in Targets(p, target) : record[c].exited}

\* WNOHANG; a failed copy-out of the status leaves the zombie (fault).
wait4_nohang(p, s, target, fault) ==
    /\ CanCall(p, s)
    /\ IF ExitedChildren(p, target) # {} /\ ~fault
       THEN record' = [record EXCEPT ![Min(ExitedChildren(p, target))] = NoRecord]
       ELSE UNCHANGED record
    /\ NoBlock

\* Without WNOHANG the caller always blocks; the loop's next pass looks.
wait4(p, s, target) ==
    /\ CanCall(p, s)
    /\ Block(p, s, [op |-> "wait", target |-> target])
    /\ UNCHANGED record

\* One step of the loop's pass over pending waits: the waiting thread gets
\* the child, or ECHILD.  The parent may itself have exited meanwhile.
complete_wait(p, s) ==
    /\ process[p].exists
    /\ pending[p][s].op = "wait"
    /\ LET target == pending[p][s].target
       IN  \/ /\ ExitedChildren(p, target) # {}
              /\ record' = [record EXCEPT ![Min(ExitedChildren(p, target))] = NoRecord]
           \/ /\ Targets(p, target) = {}
              /\ UNCHANGED record
    /\ pending' = [pending EXCEPT ![p][s] = Idle]
    /\ threads' = [threads EXCEPT ![p][s] = IF @ = "waiting" THEN "running" ELSE @]

-----------------------------------------------------------------------------
(***************************************************************************)
(* Signals.                                                                *)
(***************************************************************************)
Unmaskable == {"kill"}

\* deliver_signal: whether the default action terminates the process.
Terminates(p, signal) ==
    \/ signal \in Unmaskable
    \/ /\ disposition[p].action[signal] = "default"
       /\ signal \notin disposition[p].mask
       /\ signal \notin IgnoredByDefault

\* The processes kill(2) addresses: one pid (positive), the caller's group
\* (zero), every process but the caller and init (minus one, "all"), or the
\* group named by a negative pid.  Groups come from the shared records.
KillTargets(p, whom) ==
    {q \in Pids :
        \/ whom.by = "pid" /\ q = whom.pid
        \/ /\ HasRecord(q) /\ ~record[q].exited
           /\ \/ whom.by = "group" /\ record[q].group = whom.pid
              \/ whom.by = "all" /\ q # 1 /\ q # p}

Permitted(p, q) == process[p].euid = Root \/ process[p].euid = record[q].uid

\* The targets that die of the signal; a target that has no record, is a
\* zombie or belongs to another user is passed over.
Victims(p, whom, signal) ==
    {q \in KillTargets(p, whom) :
        /\ HasRecord(q) /\ ~record[q].exited
        /\ Permitted(p, q)
        /\ Terminates(q, signal)}

sigaction(p, s, signal, action) ==
    /\ CanCall(p, s) /\ signal \notin Unmaskable
    /\ disposition' = [disposition EXCEPT ![p].action[signal] = action]

sigprocmask(p, s, how, set) ==
    /\ CanCall(p, s)
    /\ disposition' = [disposition EXCEPT ![p].mask =
           (CASE how = "block"   -> @ \cup set
              [] how = "unblock" -> @ \ set
              [] how = "set"     -> set) \ Unmaskable]

-----------------------------------------------------------------------------
(***************************************************************************)
(* Credentials and groups.  setuid changes the facade and the record; the  *)
(* record's real user follows only when the record was still privileged.   *)
(***************************************************************************)
setuid(p, s, user, effectiveOnly) ==
    /\ CanCall(p, s)
    /\ process[p].euid = Root \/ user = process[p].uid
    /\ process' = [process EXCEPT ![p].euid = user,
           ![p].uid = IF ~effectiveOnly /\ process[p].euid = Root THEN user ELSE @]
    /\ record' = IF HasRecord(p)
                 THEN [record EXCEPT ![p].euid = user,
                         ![p].uid = IF ~effectiveOnly /\ record[p].euid = Root
                                    THEN user ELSE @]
                 ELSE record

\* setsid changes the facade only: the shared record keeps the old group.
setsid(p, s) ==
    /\ CanCall(p, s)
    /\ process' = [process EXCEPT ![p].group = p]

-----------------------------------------------------------------------------
(***************************************************************************)
(* Interval timers: setitimer(ITIMER_REAL) and its expiry.                 *)
(***************************************************************************)
setitimer(p, s, interval, value) ==
    /\ CanCall(p, s)
    /\ itimer' = [itimer EXCEPT ![p] =
           [interval |-> interval,
            deadline |-> IF value = 0 THEN Never ELSE clock + value]]

Due(p, now) == itimer[p].deadline # Never /\ itimer[p].deadline <= now

\* service_due: one expiry however many periods went by; a repeating timer is
\* moved past the serviced time.
Rearmed(timer, now) ==
    IF timer.interval = 0 THEN [timer EXCEPT !.deadline = Never]
    ELSE [timer EXCEPT !.deadline =
              @ + ((now - @) \div timer.interval + 1) * timer.interval]

-----------------------------------------------------------------------------
(***************************************************************************)
(* Creation and exec.                                                      *)
(***************************************************************************)
\* inherit_process_state and create_child_runtime: the child takes the next
\* pid, a record of its own and, when it was forked, the parent's signal
\* actions and mask.
Unused == {q \in Pids : ~process[q].exists}

CreateEffect(p, child, forked) ==
    /\ process' = [process EXCEPT ![child] =
           [process[p] EXCEPT !.exited = FALSE, !.alarmed = FALSE]]
    /\ record' = [record EXCEPT ![child] =
           [parent |-> p, exited |-> FALSE, status |-> "none",
            group |-> process[p].group, uid |-> process[p].uid, euid |-> process[p].euid]]
    /\ disposition' = [disposition EXCEPT ![child] =
           IF forked THEN disposition[p] ELSE FreshDisposition]
    /\ threads' = [threads EXCEPT ![child] =
           [s \in Slots |-> IF s = Min(Slots) THEN "running" ELSE "none"]]

\* prepare_exec and set_process_image: one thread survives, every
\* continuation and signal handler of the old image goes.
ExecEffect(p, s) ==
    /\ record' = [record EXCEPT ![p] =
           [parent |-> @.parent,
            exited |-> FALSE, status |-> "none", group |-> process[p].group,
            uid |-> process[p].uid, euid |-> process[p].euid]]
    /\ generations' = [generations EXCEPT ![p].exec = @ + 1]
    /\ disposition' = [disposition EXCEPT ![p] = FreshDisposition]
    /\ threads' = [threads EXCEPT ![p] =
           [t \in Slots |-> IF t = s THEN "running" ELSE "none"]]
    /\ pending' = [pending EXCEPT ![p] = [t \in Slots |-> Idle]]

\* A guest thread of the process starts another one in a free slot.
start_thread(p, s, t) ==
    /\ CanCall(p, s) /\ threads[p][t] = "none"
    /\ threads' = [threads EXCEPT ![p][t] = "running"]

-----------------------------------------------------------------------------
CONSTANTS
    Fds,               \* the descriptor numbers, 3 and up (the limit is their number)
    NoName             \* no path name is bound

ASSUME DescriptorAssumption == Fds \subseteq Nat /\ IsFiniteSet(Fds)

VARIABLES
    fds                \* the descriptor table of every process

NoQueue == {[filter |-> "no queue"]}

Entry(kind, obj) ==
    [kind |-> kind, obj |-> obj, path |-> NoName, offset |-> 0, writable |-> TRUE,
     nonblock |-> FALSE, cloexec |-> FALSE, listening |-> FALSE, queue |-> NoQueue]

Closed == Entry("closed", 0)

NoDescriptors == [n \in Fds |-> Closed]

Open(p)     == {n \in Fds : fds[p][n] # Closed}
FreeFds(p)  == Fds \ Open(p)
Is(p, n, k) == fds[p][n].kind = k

DescriptorsInit == fds = [p \in Pids |-> NoDescriptors]

\* allocate_file_descriptor: the lowest free number.
Lowest(table) == Min({n \in Fds : table[n] = Closed})
Full(table)   == \A n \in Fds : table[n] # Closed
Installed(table, entry) == [table EXCEPT ![Lowest(table)] = entry]

\* detach_kevents_for_descriptor: the read and write registrations on the
\* numbers leave every queue of the process.
Purged(entry, numbers) ==
    IF entry.queue = NoQueue THEN entry
    ELSE [entry EXCEPT !.queue =
              {r \in @ : ~(r.filter \in {"read", "write"} /\ r.ident \in numbers)}]

Detached(table, numbers) == [m \in Fds |-> Purged(table[m], numbers)]

\* release_file_descriptor, on the table.
Released_(table, n) == Detached([table EXCEPT ![n] = Closed], {n})

\* release_close_on_exec_descriptors.
CloseOnExec(table) == {n \in Fds : table[n] # Closed /\ table[n].cloexec}
AfterExec(table) ==
    Detached([n \in Fds |-> IF n \in CloseOnExec(table) THEN Closed ELSE table[n]],
             CloseOnExec(table))

\* The copy dup and dup2 make: everything but FD_CLOEXEC and the queue of a
\* kqueue, whose registrations stay with the original number.
Duplicate(entry) == [entry EXCEPT !.cloexec = FALSE, !.queue = NoQueue]

\* export_descriptor and import_descriptor: a transfer carries the queue too.
Transfer(entry) == [entry EXCEPT !.cloexec = FALSE]

dup(p, s, n) ==
    /\ CanCall(p, s) /\ n \in Open(p)
    /\ IF Full(fds[p]) THEN UNCHANGED fds                          \* EMFILE
       ELSE fds' = [fds EXCEPT ![p] = Installed(@, Duplicate(@[n]))]

\* dup2 onto the same number does nothing; otherwise the destination is
\* released first.
Dup2Table(table, n, m) ==
    IF n = m THEN table
    ELSE [Released_(table, m) EXCEPT ![m] = Duplicate(table[n])]

fcntl_flags(p, s, n, nonblock, cloexec) ==
    /\ CanCall(p, s) /\ n \in Open(p)
    /\ fds' = [fds EXCEPT ![p][n] = [@ EXCEPT !.nonblock = nonblock, !.cloexec = cloexec]]
=============================================================================
