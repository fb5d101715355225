--------------------------- MODULE MachSemaphore ---------------------------
(***************************************************************************)
(* Mach semaphores: the traps and MIG routines that create, signal, wait   *)
(* on and destroy them, the main loop that completes the blocked waits,    *)
(* and what thread and task teardown do to them.                           *)
(*                                                                         *)
(* A wait lives in four places that different actors update: the waiters   *)
(* of the semaphore (signallers of any task), the results posted for a     *)
(* thread (semaphore_wakeups, semaphore_terminations), the continuation    *)
(* its own kernel keeps (pending_semaphore_waits_), and the run state of   *)
(* the thread.  A waiter is known by its task and slot; slots are reused.  *)
(*                                                                         *)
(* Name spaces are abstracted to the Send rights a task holds (MachRights  *)
(* models them); semaphore objects are numbered by allocate_mach_object    *)
(* and never reused.  A call that is refused changes nothing and is no     *)
(* step.  A deadline is the time left until it.                            *)
(***************************************************************************)
EXTENDS Integers, Sequences, SequencesExt, FiniteSets, Erasure

CONSTANTS
    Tasks,
    Slots,              \* processor slots of a task; 0 is the main thread
    Controls,           \* <<task, other>>: task holds other's control port
    Operations,         \* what guests do beyond signalling and waiting
    Mixes,              \* the client mixes to explore
    MaxSemaphores,      \* bound: semaphores created
    MaxCount            \* bound: preposts of a semaphore

ASSUME SemaphoreAssumption ==
    /\ IsFiniteSet(Slots) /\ Slots = 0 .. Cardinality(Slots) - 1
    /\ MaxSemaphores \in Nat /\ MaxCount \in Nat
    /\ \A t \in Tasks : <<t, t>> \in Controls
    /\ \A m \in Mixes :
          /\ m.tasks \subseteq Tasks           \* the tasks that exist,
          /\ m.slots \subseteq Slots           \* how many threads they create,
          /\ m.counts \subseteq 0 .. MaxCount  \* with which values semaphores,
          /\ m.intervals \subseteq Nat         \* and the timeouts of their waits

VARIABLES
    semaphores,         \* mach_semaphores: count, owner and waiters by object
    wakeups,            \* semaphore_wakeups
    terminations,       \* semaphore_terminations
    pending,            \* pending_semaphore_waits_ of every task, by thread
    threads,            \* what every slot is doing
    rights,             \* <<task, object>>: task names object with a Send right
    alive,              \* the tasks that have not exited
    created,            \* semaphore objects allocated so far
    source,             \* history: the object whose signal posted a thread's wakeup
    mix                 \* the mix of this behaviour, which never changes

vars == <<semaphores, wakeups, terminations, pending, threads, rights, alive,
          created, source, mix>>

Threads == Tasks \X Slots
ThreadsOf(task) == {task} \X Slots
Objects == 1 .. MaxSemaphores
NoObject == 0
OtherPort == MaxSemaphores + 1  \* any port that is no semaphore
Forever == -1
Deadlines == {Forever} \cup Nat

Holds(task, object) == object = OtherPort \/ <<task, object>> \in rights
Running(t) == threads[t] = "running"
Without(f, S) == [x \in DOMAIN f \ S |-> f[x]]

-----------------------------------------------------------------------------
(***************************************************************************)
(* Signals.  A handler composes them, so they map the semaphores, the      *)
(* posted wakeups and the history to new ones.                             *)
(***************************************************************************)
Wake(k, s, woken) ==
    [k EXCEPT !.wakeups = @ \cup woken,
              !.source = [t \in Threads |-> IF t \in woken THEN s ELSE @[t]]]

\* A prepost is left although somebody waits.
signal_semaphore(k, s, all, prepost) ==
    LET queue == k.semaphores[s].waiters IN
    IF all THEN
        [Wake(k, s, Range(queue)) EXCEPT
            !.semaphores[s].waiters = << >>, !.semaphores[s].count = 0]
    ELSE IF queue # << >> THEN
        [Wake(k, s, {Head(queue)}) EXCEPT !.semaphores[s].waiters = Tail(queue)]
    ELSE IF prepost THEN [k EXCEPT !.semaphores[s].count = @ + 1]
    ELSE k

Now == [semaphores |-> semaphores, wakeups |-> wakeups, source |-> source]

Apply(k) ==
    /\ semaphores' = k.semaphores
    /\ wakeups' = k.wakeups
    /\ source' = k.source

\* semaphore_signal_trap and semaphore_signal_all_trap.
semaphore_signal(t, s, all) ==
    /\ Running(t)
    /\ s \in DOMAIN semaphores
    /\ Holds(t[1], s)
    /\ all \/ semaphores[s].waiters # << >> \/ semaphores[s].count < MaxCount
    /\ Apply(signal_semaphore(Now, s, all, ~all))
    /\ UNCHANGED <<terminations, pending, threads, rights, alive, created>>

\* The thread is woken whatever semaphore it waits on.
signal_semaphore_thread_anywhere(t, s, target) ==
    /\ Running(t)
    /\ s \in DOMAIN semaphores
    /\ Holds(t[1], s)
    /\ \E r \in DOMAIN semaphores :
          /\ target \in Range(semaphores[r].waiters)
          /\ Apply([Wake(Now, s, {target}) EXCEPT
                       !.semaphores[r].waiters = Erased(@, {target})])
    /\ UNCHANGED <<terminations, pending, threads, rights, alive, created>>

\* semaphore_signal_thread_trap, for a thread or (null name) for the first
\* waiter.  KERN_NOT_WAITING changes nothing.
signal_semaphore_thread(t, s, target) ==
    /\ Running(t)
    /\ s \in DOMAIN semaphores
    /\ Holds(t[1], s)
    /\ target \in Range(semaphores[s].waiters)
    /\ threads[target] # "absent" \/ target = Head(semaphores[s].waiters)
    /\ LET queue == semaphores[s].waiters
           i == CHOOSE j \in DOMAIN queue :
                    queue[j] = target /\ \A h \in 1 .. j - 1 : queue[h] # target
       IN  Apply([Wake(Now, s, {target}) EXCEPT
                     !.semaphores[s].waiters = RemoveAt(queue, i)])
    /\ UNCHANGED <<terminations, pending, threads, rights, alive, created>>

-----------------------------------------------------------------------------
(***************************************************************************)
(* Waits: the traps and __semwait_signal, with an optional semaphore to    *)
(* signal once the wait is established and an optional timeout.            *)
(***************************************************************************)
\* The wait is queued first; then the paired signal may still be refused,
\* because its port is no semaphore, and the caller returns at once.
wait_on_semaphore(t, s, signal, interval) ==
    LET blocks == semaphores[s].count = 0
        queued == [Now EXCEPT !.semaphores[s].waiters = Append(@, t),
                              !.source[t] = NoObject]    \* a wait of its own
        taken  == [Now EXCEPT !.semaphores[s].count = @ - 1]
        after  == IF blocks THEN queued ELSE taken
        refused == signal \notin {NoObject} \cup DOMAIN semaphores
    IN  /\ Running(t)
        /\ s \in DOMAIN semaphores
        /\ Holds(t[1], s)
        /\ signal = NoObject \/ Holds(t[1], signal)
        /\ ~(blocks /\ interval = 0)    \* KERN_OPERATION_TIMED_OUT
        /\ signal \in DOMAIN semaphores =>
               after.semaphores[signal].count < MaxCount
        /\ Apply(IF signal = NoObject \/ refused THEN after
                 ELSE signal_semaphore(after, signal, FALSE, TRUE))
        /\ pending' = IF blocks
                      THEN [u \in DOMAIN pending \cup {t} |->
                               IF u = t THEN [semaphore |-> s, deadline |-> interval]
                                        ELSE pending[u]]
                      ELSE pending
        /\ threads' = IF blocks /\ ~refused THEN [threads EXCEPT ![t] = "waiting"]
                                            ELSE threads
        /\ UNCHANGED <<terminations, rights, alive, created>>

\* The main loop offers every waiting thread its event; a termination wins
\* over a wakeup and a wakeup over the deadline.
TimedOut(t) == t \notin wakeups \cup terminations /\ pending[t].deadline = 0

\* A wakeup is not looked for: only terminations and deadlines end a wait.
deliver_pending_io(t) ==
    /\ threads[t] = "waiting"
    /\ t \in DOMAIN pending
    /\ t \in wakeups \cup terminations \/ TimedOut(t)
    /\ terminations' = terminations \ {t}
    /\ wakeups' = IF t \in terminations THEN wakeups ELSE wakeups \ {t}
    /\ semaphores' = [s \in DOMAIN semaphores |->
           IF TimedOut(t) /\ s = pending[t].semaphore
           THEN [semaphores[s] EXCEPT !.waiters = Erased(@, {t})]
           ELSE semaphores[s]]
    /\ pending' = Without(pending, {t})
    /\ threads' = [threads EXCEPT ![t] = "running"]
    /\ source' = [source EXCEPT ![t] = NoObject]
    /\ UNCHANGED <<rights, alive, created>>

advance_time ==
    /\ \E t \in DOMAIN pending : pending[t].deadline > 0
    /\ pending' = [t \in DOMAIN pending |->
           [pending[t] EXCEPT !.deadline = IF @ > 0 THEN @ - 1 ELSE @]]
    /\ UNCHANGED <<semaphores, wakeups, terminations, threads, rights, alive,
                   created, source>>

-----------------------------------------------------------------------------
(***************************************************************************)
(* Creation and destruction of semaphores, and the rights to them.         *)
(***************************************************************************)
semaphore_create(t, owner, value) ==
    /\ Running(t)
    /\ <<t[1], owner>> \in Controls /\ owner \in alive
    /\ created < MaxSemaphores
    /\ created' = created + 1
    /\ semaphores' = [s \in DOMAIN semaphores \cup {created'} |->
           IF s = created' THEN [count |-> value, owner |-> owner, waiters |-> << >>]
                           ELSE semaphores[s]]
    /\ rights' = rights \cup {<<t[1], created'>>}
    /\ UNCHANGED <<wakeups, terminations, pending, threads, alive, source>>

\* The rights of every task to the objects become dead names.
Live(held, objects) == {r \in held : r[2] \notin objects}

\* The semaphore goes without its waiters being told.
\* The MOVE_SEND right is consumed even when the target does not own the
\* semaphore; it may be the caller's last reference or not.
semaphore_destroy(t, s, target, last) ==
    LET owned == semaphores[s].owner = target IN
    /\ Running(t)
    /\ s \in DOMAIN semaphores
    /\ <<t[1], s>> \in rights
    /\ <<t[1], target>> \in Controls /\ target \in alive
    /\ last \/ owned
    /\ terminations' = IF owned THEN terminations \cup Range(semaphores[s].waiters)
                                ELSE terminations
    /\ semaphores' = IF owned THEN Without(semaphores, {s}) ELSE semaphores
    /\ rights' = IF owned THEN Live(rights, {s}) ELSE rights \ {<<t[1], s>>}
    /\ UNCHANGED <<wakeups, pending, threads, alive, created, source>>

\* A Send right travels to another task in a message or by insert_right.
transfer_right(t, s, to) ==
    /\ Running(t)
    /\ to \in alive
    /\ <<t[1], s>> \in rights
    /\ <<to, s>> \notin rights
    /\ rights' = rights \cup {<<to, s>>}
    /\ UNCHANGED <<semaphores, wakeups, terminations, pending, threads, alive,
                   created, source>>

mach_port_deallocate(t, s) ==
    /\ Running(t)
    /\ <<t[1], s>> \in rights
    /\ rights' = rights \ {<<t[1], s>>}
    /\ UNCHANGED <<semaphores, wakeups, terminations, pending, threads, alive,
                   created, source>>

-----------------------------------------------------------------------------
(***************************************************************************)
(* Threads and tasks come and go.                                          *)
(***************************************************************************)
thread_create(t) ==
    LET free == {s \in mix.slots \ {0} : threads[<<t[1], s>>] = "absent"} IN
    /\ Running(t)
    /\ free # {}
    /\ threads' = [threads EXCEPT
           ![<<t[1], CHOOSE s \in free : \A o \in free : s <= o>>] = "running"]
    /\ UNCHANGED <<semaphores, wakeups, terminations, pending, rights, alive,
                   created, source>>

\* thread_terminate: the slot is freed; nothing is done about a semaphore the
\* thread is blocked on.
thread_terminate(t, target) ==
    /\ Running(t)
    /\ target[1] = t[1]
    /\ threads[target] # "absent"
    /\ threads[target] = "running" \/ "terminate_blocked" \in Operations
    /\ threads' = [threads EXCEPT ![target] = "absent"]
    /\ UNCHANGED <<semaphores, wakeups, terminations, pending, rights, alive,
                   created, source>>

\* exec: the other threads go and the task's continuations are dropped.
prepare_exec(t) ==
    /\ Running(t)
    /\ (\A u \in ThreadsOf(t[1]) : threads[u] # "waiting")
           \/ "exec_blocked" \in Operations
    /\ threads' = [u \in Threads |-> IF u[1] # t[1] THEN threads[u]
                                     ELSE IF u = t THEN "running" ELSE "absent"]
    /\ pending' = Without(pending, ThreadsOf(t[1]))
    /\ UNCHANGED <<semaphores, wakeups, terminations, rights, alive, created, source>>

Owned(task) == {s \in DOMAIN semaphores : semaphores[s].owner = task}

\* The waiters of the task on semaphores of other tasks stay queued.
exit_process_forgetful(task) ==
    /\ task \in alive
    /\ alive' = alive \ {task}
    /\ threads' = [t \in Threads |-> IF t[1] = task THEN "absent" ELSE threads[t]]
    /\ pending' = Without(pending, ThreadsOf(task))
    /\ terminations' = (terminations \cup
           UNION {Range(semaphores[s].waiters) : s \in Owned(task)}) \ ThreadsOf(task)
    /\ wakeups' = wakeups \ ThreadsOf(task)
    /\ semaphores' = Without(semaphores, Owned(task))
    /\ rights' = {r \in Live(rights, Owned(task)) : r[1] # task}
    /\ source' = [t \in Threads |-> IF t[1] = task THEN NoObject ELSE source[t]]
    /\ UNCHANGED created

\* exit_process, by the task itself or by a signal: its continuations and
\* rights go, its semaphores are terminated, and the identity of its threads
\* is removed from the results and the queues of the others.
exit_process(task) ==
    /\ task \in alive
    /\ alive' = alive \ {task}
    /\ threads' = [t \in Threads |-> IF t[1] = task THEN "absent" ELSE threads[t]]
    /\ pending' = Without(pending, ThreadsOf(task))
    /\ terminations' = (terminations \cup
           UNION {Range(semaphores[s].waiters) : s \in Owned(task)}) \ ThreadsOf(task)
    /\ wakeups' = wakeups \ ThreadsOf(task)
    /\ semaphores' = [s \in DOMAIN semaphores \ Owned(task) |->
           [semaphores[s] EXCEPT !.waiters = Erased(@, ThreadsOf(task))]]
    /\ rights' = {r \in Live(rights, Owned(task)) : r[1] # task}
    /\ source' = [t \in Threads |-> IF t[1] = task THEN NoObject ELSE source[t]]
    /\ UNCHANGED created

-----------------------------------------------------------------------------
Init ==
    /\ semaphores = << >>
    /\ wakeups = {} /\ terminations = {}
    /\ pending = << >>
    /\ mix \in Mixes
    /\ threads = [t \in Threads |->
                     IF t[1] \in mix.tasks /\ t[2] = 0 THEN "running" ELSE "absent"]
    /\ rights = {}
    /\ alive = mix.tasks
    /\ created = 0
    /\ source = [t \in Threads |-> NoObject]

\* The object a paired signal names.
Signals == {NoObject} \cup Objects \cup
           (IF "refused_signal" \in Operations THEN {OtherPort} ELSE {})

Wait(t) ==
    \E s \in Objects, signal \in Signals, interval \in {Forever} \cup mix.intervals :
        wait_on_semaphore(t, s, signal, interval)

Signal(t) ==
    \E s \in Objects :
        \/ \E all \in BOOLEAN : semaphore_signal(t, s, all)
        \/ \E target \in Threads : signal_semaphore_thread(t, s, target)

Own(t) ==
    \/ \E owner \in Tasks, value \in mix.counts : semaphore_create(t, owner, value)
    \/ \E s \in Objects :
        \/ \E target \in Tasks, last \in BOOLEAN : semaphore_destroy(t, s, target, last)
        \/ \E to \in Tasks : transfer_right(t, s, to)
        \/ mach_port_deallocate(t, s)

Lifecycle(t) ==
    \/ thread_create(t)
    \/ \E target \in Threads : thread_terminate(t, target)
    \/ prepare_exec(t)

Next ==
    /\ UNCHANGED mix
    /\ \/ \E t \in Threads :
           Wait(t) \/ Signal(t) \/ Own(t) \/ Lifecycle(t) \/ deliver_pending_io(t)
       \/ \E task \in Tasks : exit_process(task)
       \/ advance_time

\* The main loop offers every waiting thread its event in each iteration and
\* time passes; guests owe nothing.
Fairness ==
    /\ \A t \in Threads : WF_vars(deliver_pending_io(t) /\ UNCHANGED mix)
    /\ WF_vars(advance_time /\ UNCHANGED mix)

Spec == Init /\ [][Next]_vars /\ Fairness

-----------------------------------------------------------------------------
(***************************************************************************)
(* Properties.                                                             *)
(***************************************************************************)
\* Every variable has the shape of the C++ state it models.
TypeOK ==
    /\ DOMAIN semaphores \subseteq 1 .. created
    /\ \A s \in DOMAIN semaphores :
        semaphores[s] \in [count : 0 .. MaxCount, owner : alive, waiters : Seq(Threads)]
    /\ wakeups \subseteq Threads /\ terminations \subseteq Threads
    /\ DOMAIN pending \subseteq Threads
    /\ \A t \in DOMAIN pending :
        pending[t] \in [semaphore : 1 .. created, deadline : Deadlines]
    /\ threads \in [Threads -> {"absent", "running", "waiting"}]
    /\ rights \subseteq alive \X DOMAIN semaphores
    /\ created \in 0 .. MaxSemaphores
    /\ source \in [Threads -> 0 .. MaxSemaphores]

WaitsOn(t, s) == t \in DOMAIN pending /\ pending[t].semaphore = s
QueuedOn(t) == {s \in DOMAIN semaphores : t \in Range(semaphores[s].waiters)}

\* No blocked wait is forgotten: a thread that wait_on_semaphore blocked still
\* has its continuation and is queued on the semaphore it waits for, or its
\* wakeup or termination has been posted, whatever signals, destructions,
\* timeouts and exits came in between.
BlockedWaitsAreReachable ==
    \A t \in Threads : threads[t] = "waiting" =>
        /\ t \in DOMAIN pending
        /\ \/ QueuedOn(t) = {pending[t].semaphore}
           \/ QueuedOn(t) = {} /\ t \in wakeups \cup terminations

\* No signal is spent on somebody who does not wait: the waiters of a
\* semaphore are blocked on it, each once, and a posted wakeup or termination
\* belongs to a blocked thread that is queued nowhere, never both.
ResultsGoToWaiters ==
    /\ \A s \in DOMAIN semaphores :
        LET queue == semaphores[s].waiters IN
        /\ IsInjective(queue)
        /\ \A t \in Range(queue) : threads[t] = "waiting" /\ WaitsOn(t, s)
    /\ \A t \in wakeups \cup terminations :
        threads[t] = "waiting" /\ t \in DOMAIN pending /\ QueuedOn(t) = {}
    /\ wakeups \cap terminations = {}

\* A semaphore has preposts only while nobody waits on it: no thread sleeps
\* beside a count it could take.
NoWaitBesidePrepost ==
    \A s \in DOMAIN semaphores :
        semaphores[s].count > 0 => semaphores[s].waiters = << >>

\* A blocked wait returns success only for a signal of the very semaphore it
\* waits on, posted during this wait: no signal of another semaphore, or of an
\* earlier wait of the slot, ends it.
SuccessWasSignalled ==
    [][\A t \in Threads :
        /\ threads[t] = "waiting" /\ threads'[t] = "running"
        /\ t \in wakeups /\ t \notin wakeups'
        => source[t] = pending[t].semaphore]_vars

\* Every wait whose wakeup or termination has been posted, whose semaphore is
\* gone or that has a deadline ends: the main loop completes it, or its thread
\* goes.
WaitsEnd ==
    \A t \in Threads :
        /\ threads[t] = "waiting"
        /\ \/ t \in wakeups \cup terminations
           \/ t \in DOMAIN pending /\ pending[t].deadline # Forever
           \/ t \in DOMAIN pending /\ pending[t].semaphore \notin DOMAIN semaphores
        ~> threads[t] # "waiting"

\* The waits and the semaphores describe the same waiters.
WaitsExact == BlockedWaitsAreReachable /\ ResultsGoToWaiters /\ NoWaitBesidePrepost

\* A wait ends, and ends with success only for a signal of its own.
SignalsEndWaits == SuccessWasSignalled /\ WaitsEnd
=============================================================================
