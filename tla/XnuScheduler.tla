---------------------------- MODULE XnuScheduler ----------------------------
(***************************************************************************)
(* XnuScheduler (src/mach/xnu_scheduler.cpp) driven by the guest loop of   *)
(* app/main.cpp.  A round of the loop wakes threads whose events arrived,  *)
(* chooses a thread for every processor, executes the chosen slices one    *)
(* after the other (their system calls and device callbacks call back into *)
(* the scheduler), completes each slice and advances scheduler time.       *)
(*                                                                         *)
(* The scheduler is called by one host thread, so a call is one step.  Its *)
(* loops over many threads (remove_process, expire_depressions, fail-safe  *)
(* release, aging) are runs of steps during which nothing else is enabled. *)
(***************************************************************************)
EXTENDS XnuRunQueue

CONSTANTS
    ProcessOf,              \* the process of every thread identity
    InitialThread,          \* the first thread of the initial process
    QuantumTicks, SchedulerTickTicks,
    MaxKernelPriority,      \* maximum_kernel_priority (95)
    DefaultBasePriority,    \* default_base_priority (31)
    MaxUnsafeQuanta,        \* maximum_unsafe_quanta (800)
    FailsafeReleaseTicks,   \* failsafe_release_scheduler_ticks (128)
    UsageDecayTicks,        \* scheduling_usage_decay_ticks (32)
    TickLimit,              \* where saturating_add stops: the largest uint64
    SuspendLimit,           \* where suspend_count stops: the largest uint32
    \* The arguments callers pass.
    TaskPriorities,         \* process().thread_base_priority: 31 minus a nice value
    BasePriorities,         \* base priorities of policy calls, after clamp_priority
    TickCounts,             \* ticks a slice consumes
    Timeshares,             \* values of the timeshare flag of policy calls
    Bindings,               \* processors threads are bound to, PSet to unbind
    DepressDurations,       \* thread_switch depression times; 0 has no deadline
    RealtimeParameters      \* <<computation, constraint>> pairs that set_realtime accepts

ASSUME SchedulerAssumption ==
    /\ ProcessOf \in [Threads -> Nat]
    /\ InitialThread \in Threads
    /\ QuantumTicks \in Nat \ {0}
    /\ SchedulerTickTicks \in Nat \ {0}
    /\ MaxKernelPriority \in Nat
    /\ MaxKernelPriority + 2 = RealtimeQueuePriority
    /\ DefaultBasePriority \in 0 .. MaxKernelPriority
    /\ MaxUnsafeQuanta \in Nat
    /\ FailsafeReleaseTicks \in Nat
    /\ UsageDecayTicks \in Nat
    /\ TickLimit \in Nat
    /\ SuspendLimit \in Nat
    /\ TaskPriorities \subseteq 0 .. MaxKernelPriority
    /\ BasePriorities \subseteq Priorities
    /\ TickCounts \subseteq Nat
    /\ Timeshares \subseteq BOOLEAN
    /\ Bindings \subseteq QueueKeys
    /\ DepressDurations \subseteq Nat
    /\ RealtimeParameters \subseteq ((Nat \ {0}) \X Nat)
    /\ \A rp \in RealtimeParameters : rp[1] <= rp[2]

VARIABLES
    threads,                 \* threads_: the scheduling record of every thread
    rq,                      \* the run queues (module XnuRunQueue)
    depression_order,        \* index of timed depressions: <<deadline, thread>>
    failsafe_order,          \* index of fail-safe threads: <<release tick, thread>>
    waiting_count, active_timeshare_count,
    elapsed_ticks, elapsed_since_scheduler_tick, scheduler_tick,
    phase,                   \* where the guest loop is
    next_processor,          \* loop variable of the choosing loop
    batch,                   \* scheduled_batch: <<thread, processor>> not yet completed
    round_ticks,             \* scheduler_round_ticks
    todo,                    \* threads a loop has still to visit
    tick_steps,              \* scheduler ticks age_priorities is applying
    age_shift,               \* the shift age_priorities computed when it started
    exec_thread,             \* thread an exec registers again, or NoThread
    wait                     \* history: what each thread's last slice and wakes amount to

schedulerVars == <<threads, rq, depression_order, failsafe_order, waiting_count,
                   active_timeshare_count>>
clockVars == <<elapsed_ticks, elapsed_since_scheduler_tick, scheduler_tick>>
loopVars  == <<phase, next_processor, batch, round_ticks, todo, tick_steps, age_shift,
              exec_thread>>
vars == <<schedulerVars, clockVars, loopVars, wait>>

NoThread   == -1
NoDeadline == -1            \* absent depression_deadline
NoShift    == -1            \* absent priority_usage_shift

\* saturating_add
Plus(a, b) == IF a + b <= TickLimit THEN a + b ELSE TickLimit
Minus(a, b) == IF a <= b THEN 0 ELSE a - b
Clamp(x, low, high) == IF x < low THEN low ELSE IF x > high THEN high ELSE x

-----------------------------------------------------------------------------
(***************************************************************************)
(* Priorities.                                                             *)
(***************************************************************************)

\* The shift that brings 5/3 of the scheduler tick down to the default base
\* priority, fixed by the constructor.
PriorityUsageShift ==
    LET scaled == (SchedulerTickTicks \div 3) * 5 + ((SchedulerTickTicks % 3) * 5) \div 3
    IN  Cardinality({k \in 0 .. 29 : scaled \div (2 ^ k) > DefaultBasePriority})

\* Load lowers the shift, so that usage costs more priority; no contention,
\* no shift.
processor_set_priority_shift(active) ==
    LET load == IF ProcessorCount > 1 THEN active \div ProcessorCount ELSE active
        load_shift == Cardinality({k \in 1 .. 6 : 2 ^ k <= load})
    IN  IF active <= ProcessorCount THEN NoShift
        ELSE IF load_shift < PriorityUsageShift THEN PriorityUsageShift - load_shift ELSE 0

\* min(usage >> shift, maximum_priority), as the number of multiples of
\* 2^shift that the usage reaches.
Penalty(r) ==
    IF r.priority_usage_shift = NoShift THEN 0
    ELSE Cardinality({k \in 1 .. MaxPriority :
                        k * 2 ^ r.priority_usage_shift <= r.scheduling_usage})

PriorityOf(r) ==
    IF r.realtime THEN RealtimeQueuePriority
    ELSE IF r.timeshare THEN Clamp(r.base_priority - Penalty(r), 0, MaxKernelPriority)
    ELSE r.base_priority

\* recompute_priority: a depressed thread keeps its priority.
Recomputed(r) ==
    IF r.depressed THEN r ELSE [r EXCEPT !.scheduled_priority = PriorityOf(r)]

quantum_for(r) == IF r.realtime THEN r.realtime_computation ELSE QuantumTicks

TicketOf(r) == Ticket(r.scheduled_priority, r.bound_processor, r.realtime,
                      r.realtime_deadline)

Enqueued(q, t, r, front) == enqueue(q, t, TicketOf(r), front)

\* A queued thread whose scheduling changed goes to the back of the queue its
\* new record names.
Requeued(q, t, r) ==
    IF q.place[t].queued THEN Enqueued(remove_from_queue(q, t), t, r, FALSE) ELSE q

\* The queue change of recompute_priority: only when the priority changes.
RequeuedIfMoved(q, t, old, new) ==
    IF old.scheduled_priority = new.scheduled_priority THEN q ELSE Requeued(q, t, new)

-----------------------------------------------------------------------------
(***************************************************************************)
(* Thread records.                                                         *)
(***************************************************************************)
Registered == DOMAIN threads

One(b) == IF b THEN 1 ELSE 0

NewRecord(base, runnable) ==
    [state |-> IF runnable THEN "Runnable" ELSE "Waiting",
     base_priority |-> base, scheduled_priority |-> base,
     remaining_quantum |-> QuantumTicks, scheduling_usage |-> 0,
     bound_processor |-> PSet,
     realtime_computation |-> 0, realtime_constraint |-> 0, realtime_deadline |-> 0,
     computation_metered |-> 0, failsafe_release_tick |-> 0,
     remaining_timeslices |-> 0, timeslice_processor |-> PSet,
     timeshare |-> TRUE, realtime |-> FALSE, failsafe |-> FALSE, depressed |-> FALSE,
     priority_usage_shift |-> NoShift, depression_deadline |-> NoDeadline,
     suspend_count |-> 0, resume_runnable |-> FALSE, wake_pending |-> FALSE,
     saved_base_priority |-> 0, saved_timeshare |-> FALSE, saved_realtime |-> FALSE]

Update(t, r) == threads' = [threads EXCEPT ![t] = r]
Without(t)   == [u \in Registered \ {t} |-> threads[u]]

\* The state a record takes when it becomes runnable again.
Readied(r) == [r EXCEPT !.state = "Runnable", !.remaining_quantum = quantum_for(r),
                        !.computation_metered = 0]

unindex_depression_keeps(t) == depression_order

unindex_depression(t) ==
    IF threads[t].depression_deadline = NoDeadline THEN depression_order
    ELSE depression_order \ {<<threads[t].depression_deadline, t>>}

unindex_failsafe(t) ==
    IF ~threads[t].failsafe THEN failsafe_order
    ELSE failsafe_order \ {<<threads[t].failsafe_release_tick, t>>}

\* restore_depression on a record; the caller requeues it and unindexes it.
Restored(r) ==
    IF r.depressed
    THEN Recomputed([r EXCEPT !.depressed = FALSE, !.depression_deadline = NoDeadline])
    ELSE r

-----------------------------------------------------------------------------
(***************************************************************************)
(* Calls that system calls, message handlers and device callbacks make.    *)
(***************************************************************************)

\* A slice of the batch is executing, and no scheduler loop is in progress.
InSlice == phase = "run" /\ \E i \in 1 .. Len(batch) : batch[i][1] \in Registered

register_thread(t, base, runnable) ==
    /\ InSlice /\ t \notin Registered
    /\ LET r == NewRecord(base, runnable) IN
       /\ threads' = [u \in Registered \cup {t} |-> IF u = t THEN r ELSE threads[u]]
       /\ rq' = IF runnable THEN Enqueued(rq, t, r, FALSE) ELSE rq
       /\ active_timeshare_count' = active_timeshare_count + One(runnable)
       /\ waiting_count' = waiting_count + One(~runnable)
    /\ wait' = [wait EXCEPT ![t] = "none"]
    /\ UNCHANGED <<depression_order, failsafe_order, clockVars, loopVars>>

Remove_unguarded(t) ==
    /\ waiting_count' = waiting_count - 1
    /\ active_timeshare_count' = active_timeshare_count
    /\ rq' = remove_from_queue(rq, t)
    /\ depression_order' = unindex_depression(t)
    /\ failsafe_order' = unindex_failsafe(t)
    /\ threads' = Without(t)
    /\ wait' = [wait EXCEPT ![t] = "none"]

Remove_queued(t) ==
    /\ waiting_count' = waiting_count - One(threads[t].state = "Waiting")
    /\ active_timeshare_count' =
           active_timeshare_count - One(threads[t].state # "Waiting" /\ threads[t].timeshare)
    /\ rq' = rq
    /\ depression_order' = unindex_depression(t)
    /\ failsafe_order' = unindex_failsafe(t)
    /\ threads' = Without(t)
    /\ wait' = [wait EXCEPT ![t] = "none"]

\* remove_thread, as an effect: also the body of the remove_process loop.
Remove(t) ==
    LET r == threads[t] IN
    /\ waiting_count' = waiting_count - One(r.state = "Waiting")
    /\ active_timeshare_count' =
           active_timeshare_count - One(r.state # "Waiting" /\ r.timeshare)
    /\ rq' = remove_from_queue(rq, t)
    /\ depression_order' = unindex_depression(t)
    /\ failsafe_order' = unindex_failsafe(t)
    /\ threads' = Without(t)
    /\ wait' = [wait EXCEPT ![t] = "none"]

remove_thread(t) ==
    /\ InSlice /\ t \in Registered
    /\ Remove(t)
    /\ UNCHANGED <<clockVars, loopVars>>

\* A signal ends a process: its threads are removed one by one.
ThreadsOf(process) == {t \in Registered : ProcessOf[t] = process}

remove_process(process) ==
    /\ InSlice /\ ThreadsOf(process) # {}
    /\ phase' = "remove" /\ todo' = ThreadsOf(process)
    /\ UNCHANGED <<schedulerVars, clockVars, next_processor, batch, round_ticks,
                   tick_steps, age_shift, exec_thread, wait>>

remove_process_step(t) ==
    /\ phase = "remove" /\ t \in todo
    /\ Remove(t)
    /\ todo' = todo \ {t}
    /\ UNCHANGED <<clockVars, phase, next_processor, batch, round_ticks, tick_steps,
                   age_shift, exec_thread>>

\* The loop is over; after an exec the thread starts again in its new image.
remove_process_done(base) ==
    /\ phase = "remove" /\ todo = {}
    /\ phase' = "run" /\ exec_thread' = NoThread
    /\ IF exec_thread = NoThread
       THEN UNCHANGED <<schedulerVars, wait>>
       ELSE LET r == NewRecord(base, TRUE) IN
            /\ threads' = [u \in Registered \cup {exec_thread} |->
                              IF u = exec_thread THEN r ELSE threads[u]]
            /\ rq' = Enqueued(rq, exec_thread, r, FALSE)
            /\ active_timeshare_count' = active_timeshare_count + 1
            /\ wait' = [wait EXCEPT ![exec_thread] = "none"]
            /\ UNCHANGED <<depression_order, failsafe_order, waiting_count>>
    /\ UNCHANGED <<clockVars, next_processor, batch, round_ticks, todo, tick_steps, age_shift>>

MakeRunnable_unqueued(t) ==
    /\ threads[t].state = "Waiting" /\ threads[t].suspend_count = 0
    /\ Update(t, Readied(threads[t]))
    /\ waiting_count' = waiting_count - 1
    /\ active_timeshare_count' = active_timeshare_count + One(threads[t].timeshare)
    /\ UNCHANGED rq

MakeRunnable_suspended(t) ==
    IF threads[t].state = "Running" \/ rq.place[t].queued
    THEN UNCHANGED <<threads, rq, waiting_count, active_timeshare_count>>
    ELSE /\ Update(t, Readied(threads[t]))
         /\ rq' = Enqueued(rq, t, Readied(threads[t]), FALSE)
         /\ waiting_count' = waiting_count - 1
         /\ active_timeshare_count' = active_timeshare_count + One(threads[t].timeshare)

\* make_runnable, as an effect: shared by wake_thread and the guest loop.
MakeRunnable(t) ==
    LET r == threads[t]
        ready == [Readied(r) EXCEPT
                    !.realtime_deadline = IF r.realtime
                                          THEN Plus(elapsed_ticks, r.realtime_constraint)
                                          ELSE @]
    IN  IF r.suspend_count # 0
        THEN /\ Update(t, [r EXCEPT !.resume_runnable = TRUE])
             /\ UNCHANGED <<rq, waiting_count, active_timeshare_count>>
        ELSE IF r.state = "Running" \/ rq.place[t].queued
        THEN UNCHANGED <<threads, rq, waiting_count, active_timeshare_count>>
        ELSE /\ Update(t, ready)
             /\ rq' = Enqueued(rq, t, ready, FALSE)
             /\ waiting_count' = waiting_count - One(r.state = "Waiting")
             /\ active_timeshare_count' =
                    active_timeshare_count + One(r.state = "Waiting" /\ r.timeshare)

wake_thread_lost(t) ==
    /\ InSlice \/ phase = "wake"
    /\ t \in Registered
    /\ MakeRunnable(t)
    /\ wait' = [wait EXCEPT ![t] = "woken"]
    /\ UNCHANGED <<depression_order, failsafe_order, clockVars, loopVars>>

\* A device or IPC completion.
wake_thread(t) ==
    /\ InSlice \/ phase = "wake"
    /\ t \in Registered
    /\ IF threads[t].state = "Running"
       THEN /\ Update(t, [threads[t] EXCEPT !.wake_pending = TRUE])
            /\ UNCHANGED <<rq, waiting_count, active_timeshare_count>>
       ELSE MakeRunnable(t)
    /\ wait' = [wait EXCEPT ![t] = "woken"]
    /\ UNCHANGED <<depression_order, failsafe_order, clockVars, loopVars>>

\* A spawned child that must start suspended leaves the run queue.
block(t) ==
    /\ InSlice /\ t \in Registered
    /\ LET r == threads[t] IN
       /\ Update(t, [r EXCEPT !.state = "Waiting",
                              !.remaining_quantum = quantum_for(r),
                              !.computation_metered = 0,
                              !.resume_runnable = IF r.suspend_count # 0 THEN FALSE ELSE @])
       /\ rq' = remove_from_queue(rq, t)
       /\ waiting_count' = waiting_count + One(r.state # "Waiting")
       /\ active_timeshare_count' =
              active_timeshare_count - One(r.state # "Waiting" /\ r.timeshare)
    /\ wait' = [wait EXCEPT ![t] = "blocked"]
    /\ UNCHANGED <<depression_order, failsafe_order, clockVars, loopVars>>

suspend_thread(t) ==
    /\ InSlice /\ t \in Registered
    /\ threads[t].suspend_count < SuspendLimit
    /\ LET r == threads[t]
           suspended == [r EXCEPT !.suspend_count = @ + 1]
       IN  IF r.suspend_count # 0
           THEN /\ Update(t, suspended)
                /\ UNCHANGED <<rq, waiting_count, active_timeshare_count>>
           ELSE /\ Update(t, [suspended EXCEPT !.resume_runnable = r.state # "Waiting",
                                               !.state = "Waiting"])
                /\ rq' = IF r.state # "Waiting" THEN remove_from_queue(rq, t) ELSE rq
                /\ waiting_count' = waiting_count + One(r.state # "Waiting")
                /\ active_timeshare_count' =
                       active_timeshare_count - One(r.state # "Waiting" /\ r.timeshare)
    /\ UNCHANGED <<depression_order, failsafe_order, clockVars, loopVars, wait>>

resume_thread_uncounted(t) ==
    /\ InSlice /\ t \in Registered
    /\ threads[t].suspend_count > 0
    /\ LET r == [threads[t] EXCEPT !.suspend_count = @ - 1]
           ready == Readied([r EXCEPT !.resume_runnable = FALSE])
       IN  IF r.suspend_count # 0 \/ ~r.resume_runnable
           THEN Update(t, r) /\ UNCHANGED rq
           ELSE Update(t, ready) /\ rq' = Enqueued(rq, t, ready, FALSE)
    /\ UNCHANGED <<waiting_count, active_timeshare_count, depression_order, failsafe_order,
                   clockVars, loopVars, wait>>

resume_thread(t) ==
    /\ InSlice /\ t \in Registered
    /\ threads[t].suspend_count > 0
    /\ LET r == [threads[t] EXCEPT !.suspend_count = @ - 1]
           ready == Readied([r EXCEPT !.resume_runnable = FALSE])
       IN  IF r.suspend_count # 0 \/ ~r.resume_runnable
           THEN /\ Update(t, r)
                /\ UNCHANGED <<rq, waiting_count, active_timeshare_count>>
           ELSE /\ Update(t, ready)
                /\ rq' = Enqueued(rq, t, ready, FALSE)
                /\ waiting_count' = waiting_count - 1
                /\ active_timeshare_count' = active_timeshare_count + One(r.timeshare)
    /\ UNCHANGED <<depression_order, failsafe_order, clockVars, loopVars, wait>>

-----------------------------------------------------------------------------
(***************************************************************************)
(* Policy calls.                                                           *)
(***************************************************************************)

\* The common tail of the policy calls: recompute_priority.
Recompute(t, r) ==
    /\ Update(t, Recomputed(r))
    /\ rq' = RequeuedIfMoved(rq, t, r, Recomputed(r))

set_base_priority(t, base) ==
    /\ InSlice /\ t \in Registered /\ base # threads[t].base_priority
    /\ Recompute(t, [threads[t] EXCEPT !.base_priority = base])
    /\ UNCHANGED <<depression_order, failsafe_order, waiting_count,
                   active_timeshare_count, clockVars, loopVars, wait>>

set_timeshare(t, timeshare) ==
    /\ InSlice /\ t \in Registered
    /\ threads[t].realtime \/ threads[t].timeshare # timeshare
    /\ LET r == threads[t]
           moves == r.state # "Waiting" /\ r.timeshare # timeshare
       IN
       /\ Recompute(t, [r EXCEPT !.realtime = FALSE, !.timeshare = timeshare,
                                 !.remaining_quantum = QuantumTicks])
       /\ active_timeshare_count' =
              active_timeshare_count + One(moves /\ timeshare) - One(moves /\ ~timeshare)
    /\ UNCHANGED <<depression_order, failsafe_order, waiting_count, clockVars, loopVars, wait>>

\* thread_policy, the legacy call: a policy and a base priority at once.
legacy_thread_policy(t, timeshare, base) ==
    /\ InSlice /\ t \in Registered
    /\ LET r == threads[t]
           changes == r.realtime \/ r.timeshare # timeshare
           moves == r.state # "Waiting" /\ r.timeshare # timeshare
           first == IF changes
                    THEN Recomputed([r EXCEPT !.realtime = FALSE, !.timeshare = timeshare,
                                              !.remaining_quantum = QuantumTicks])
                    ELSE r
           second == IF base = r.base_priority THEN first
                     ELSE Recomputed([first EXCEPT !.base_priority = base])
       IN
       /\ Update(t, second)
       /\ rq' = RequeuedIfMoved(RequeuedIfMoved(rq, t, r, first), t, first, second)
       /\ active_timeshare_count' =
              active_timeshare_count + One(moves /\ timeshare) - One(moves /\ ~timeshare)
    /\ UNCHANGED <<depression_order, failsafe_order, waiting_count, clockVars, loopVars, wait>>

set_realtime(t, computation, constraint) ==
    /\ InSlice /\ t \in Registered
    /\ LET r == threads[t] IN
       /\ Recompute(t, [r EXCEPT !.timeshare = FALSE, !.realtime = TRUE,
                                 !.realtime_computation = computation,
                                 !.realtime_constraint = constraint,
                                 !.realtime_deadline = Plus(elapsed_ticks, constraint),
                                 !.remaining_quantum = computation])
       /\ active_timeshare_count' =
              active_timeshare_count - One(r.state # "Waiting" /\ r.timeshare)
    /\ UNCHANGED <<depression_order, failsafe_order, waiting_count, clockVars, loopVars, wait>>

bind_thread(t, proc) ==
    /\ InSlice /\ t \in Registered /\ threads[t].bound_processor # proc
    /\ LET r == [threads[t] EXCEPT !.bound_processor = proc] IN
       /\ Update(t, r)
       /\ rq' = Requeued(rq, t, r)
    /\ UNCHANGED <<depression_order, failsafe_order, waiting_count,
                   active_timeshare_count, clockVars, loopVars, wait>>

-----------------------------------------------------------------------------
(***************************************************************************)
(* The guest loop: wake, choose, complete.                                 *)
(***************************************************************************)

\* deliver_pending_event or a finished wait4 made a waiting thread's event true.
make_runnable(t) ==
    /\ phase = "wake" /\ t \in Registered /\ threads[t].state = "Waiting"
    /\ MakeRunnable(t)
    /\ wait' = [wait EXCEPT ![t] = "woken"]
    /\ UNCHANGED <<depression_order, failsafe_order, clockVars, loopVars>>

begin_choosing ==
    /\ phase = "wake"
    /\ phase' = "choose"
    /\ UNCHANGED <<schedulerVars, clockVars, next_processor, batch, round_ticks, todo, tick_steps, age_shift,
                   exec_thread, wait>>

\* How many quanta a timeshare thread keeps its processor, given the load.
timeshare_quanta(q) ==
    LET queued == q.count[PSet] IN
    IF queued >= ProcessorCount THEN 1
    ELSE IF queued <= 1 THEN ProcessorCount
    ELSE (ProcessorCount + queued \div 2) \div queued

\* Thread t leaves the run queue and runs on processor proc.
Dispatch(t, proc) ==
    LET q == remove_from_queue(rq, t)
        r == Restored(threads[t])
        renew == r.timeshare /\ (r.remaining_timeslices = 0 \/ r.timeslice_processor # proc)
    IN  /\ rq' = q
        /\ Update(t, [r EXCEPT
               !.state = "Running",
               !.remaining_timeslices = IF renew THEN timeshare_quanta(q) ELSE @,
               !.timeslice_processor = IF renew THEN proc ELSE @,
               !.priority_usage_shift = processor_set_priority_shift(active_timeshare_count)])
        /\ depression_order' = IF threads[t].depressed THEN unindex_depression(t)
                                                       ELSE depression_order
        /\ batch' = Append(batch, <<t, proc>>)
        /\ wait' = [wait EXCEPT ![t] = "none"]
        /\ UNCHANGED <<failsafe_order, waiting_count, active_timeshare_count, clockVars,
                       round_ticks, todo, tick_steps, age_shift, exec_thread>>

\* pop_highest on the selected run queue; a throw of peek_highest has no step.
choose_next(proc) ==
    /\ phase = "choose" /\ next_processor = proc /\ HasCandidate(rq, proc)
    /\ LET c == selected_run_queue(rq, proc) IN
       /\ ~PeekThrows(rq, c)
       /\ Dispatch(peek_highest(rq, c), proc)
    /\ next_processor' = next_processor + 1
    /\ UNCHANGED phase

\* A debugger request names the thread; it runs alone.
choose_preferred(t) ==
    /\ phase = "choose" /\ next_processor = 0
    /\ t \in Registered /\ rq.place[t].queued
    /\ threads[t].bound_processor \in {PSet, 0}
    /\ Dispatch(t, 0)
    /\ phase' = "run"
    /\ UNCHANGED next_processor

choose_nothing(proc) ==
    /\ phase = "choose" /\ next_processor = proc /\ ~HasCandidate(rq, proc)
    /\ next_processor' = next_processor + 1
    /\ UNCHANGED <<schedulerVars, clockVars, phase, batch, round_ticks, todo, tick_steps,
                   age_shift, exec_thread, wait>>

\* All processors tried, or the loop stopped early (tick budget, serialization).
end_choosing ==
    /\ phase = "choose" /\ next_processor > 0
    /\ phase' = "run" /\ next_processor' = 0
    /\ UNCHANGED <<schedulerVars, clockVars, batch, round_ticks, todo,
                   tick_steps, age_shift, exec_thread, wait>>

\* apply_failsafe on a record that used up its unsafe quanta.
Unsafe(r) ==
    /\ r.remaining_quantum = 0 /\ ~r.timeshare /\ ~r.failsafe
    /\ r.computation_metered > MaxUnsafeQuanta * QuantumTicks

apply_failsafe(r) ==
    Recomputed([r EXCEPT
        !.saved_base_priority = r.base_priority, !.saved_timeshare = r.timeshare,
        !.saved_realtime = r.realtime,
        !.realtime = FALSE, !.base_priority = IF r.realtime THEN 0 ELSE @,
        !.timeshare = TRUE, !.failsafe = TRUE,
        !.failsafe_release_tick = Plus(scheduler_tick, FailsafeReleaseTicks)])

\* The accounting part of complete_slice.
Charged(r, ticks) ==
    [r EXCEPT !.scheduling_usage = IF r.priority_usage_shift # NoShift /\ r.timeshare
                                   THEN Plus(@, ticks) ELSE @,
              !.remaining_quantum = Minus(@, ticks),
              !.computation_metered = IF r.timeshare THEN @ ELSE Plus(@, ticks)]

Accounted(r, ticks) ==
    IF Unsafe(Charged(r, ticks)) THEN apply_failsafe(Charged(r, ticks)) ELSE Charged(r, ticks)

\* The slice at the head of the batch ends; its thread, unless removed, is t.
Ends(t) == /\ phase = "run" /\ batch # << >>
           /\ t = Head(batch)[1] /\ t \in Registered

EndSlice(ticks) ==
    /\ batch' = Tail(batch)
    /\ round_ticks' = Larger(round_ticks, ticks)

\* What a completed slice leaves of its thread: a record and its queue end.
AfterSlice(r, completion) ==
    LET expired == r.remaining_quantum = 0
        rotated == Recomputed([r EXCEPT
                       !.wake_pending = FALSE,
                       !.computation_metered = IF completion = "Yield" THEN 0 ELSE @,
                       !.remaining_quantum = quantum_for(r), !.state = "Runnable"])
        keeps == completion # "Yield" /\ r.timeshare /\ r.remaining_timeslices > 1
        released == [r EXCEPT !.remaining_quantum = quantum_for(r),
                              !.remaining_timeslices = 0, !.timeslice_processor = PSet]
    IN  IF completion = "Block"
        THEN [record |-> [released EXCEPT !.wake_pending = FALSE,
                             !.state = IF r.wake_pending THEN "Runnable" ELSE "Waiting"],
              front |-> FALSE]
        ELSE IF completion = "Yield" \/ expired
        THEN IF keeps
             THEN [record |-> [rotated EXCEPT !.remaining_timeslices = @ - 1], front |-> TRUE]
             ELSE [record |-> [rotated EXCEPT !.remaining_timeslices = 0,
                                              !.timeslice_processor = PSet],
                   front |-> FALSE]
        ELSE [record |-> [r EXCEPT !.wake_pending = FALSE, !.state = "Runnable"],
              front |-> TRUE]

\* complete_slice for a thread that goes on living; depression is applied first
\* when the slice ended in a depressing thread_switch.  A slice whose thread is
\* no longer Running (suspended or replaced meanwhile) changes nothing.
CompleteRunning(t, r, ticks, completion) ==
    LET charged == Accounted(r, ticks)
        after == AfterSlice(charged, completion)
        waits == after.record.state = "Waiting"
    IN  /\ Update(t, after.record)
        /\ rq' = IF waits THEN rq ELSE Enqueued(rq, t, after.record, after.front)
        /\ waiting_count' = waiting_count + One(waits)
        /\ active_timeshare_count' =
               active_timeshare_count + One(charged.failsafe /\ ~r.failsafe /\ ~r.timeshare)
                                      - One(waits /\ charged.timeshare)
        /\ failsafe_order' = IF charged.failsafe /\ ~r.failsafe
                             THEN failsafe_order \cup {<<charged.failsafe_release_tick, t>>}
                             ELSE failsafe_order

complete_slice(t, ticks, completion) ==
    /\ Ends(t) /\ EndSlice(ticks)
    /\ IF threads[t].state = "Running"
       THEN CompleteRunning(t, threads[t], ticks, completion)
       ELSE UNCHANGED <<threads, rq, waiting_count, active_timeshare_count, failsafe_order>>
    /\ wait' = IF completion = "Block" /\ wait[t] = "none"
               THEN [wait EXCEPT ![t] = "blocked"] ELSE wait
    /\ UNCHANGED <<depression_order, clockVars, phase, next_processor, todo, tick_steps,
                   age_shift, exec_thread>>

\* depress on a record.
Depressed(r, duration) ==
    IF r.depressed THEN r
    ELSE [r EXCEPT !.depressed = TRUE, !.scheduled_priority = 0,
                   !.depression_deadline = IF duration # 0 THEN Plus(elapsed_ticks, duration)
                                                           ELSE NoDeadline]

\* thread_switch with depression: depress, then a yielding completion.
depress(t, ticks, duration) ==
    /\ Ends(t) /\ EndSlice(ticks)
    /\ LET r == Depressed(threads[t], duration) IN
       /\ depression_order' = IF ~threads[t].depressed /\ duration # 0
                              THEN depression_order \cup {<<r.depression_deadline, t>>}
                              ELSE depression_order
       /\ IF threads[t].state = "Running"
          THEN CompleteRunning(t, r, ticks, "Yield")
          ELSE /\ Update(t, r)
               /\ rq' = IF threads[t].depressed THEN rq ELSE Requeued(rq, t, r)
               /\ UNCHANGED <<waiting_count, active_timeshare_count, failsafe_order>>
    /\ UNCHANGED <<clockVars, phase, next_processor, todo, tick_steps, age_shift,
                   exec_thread, wait>>

\* A slice that ends its thread, its process, or its image (exec).  The last two
\* remove every other thread of the process.
terminate_slice(t, ticks, ending) ==
    /\ Ends(t) /\ EndSlice(ticks)
    /\ LET r == threads[t]
           charged == Accounted(r, ticks)
           erased == r.state = "Running"
       IN
       /\ IF erased
          THEN /\ threads' = Without(t)
               /\ active_timeshare_count' =
                      active_timeshare_count
                          + One(charged.failsafe /\ ~r.failsafe /\ ~r.timeshare)
                          - One(charged.timeshare)
               /\ depression_order' = unindex_depression(t)
               /\ failsafe_order' = unindex_failsafe(t)
               /\ wait' = [wait EXCEPT ![t] = "none"]
          ELSE UNCHANGED <<threads, active_timeshare_count, depression_order,
                           failsafe_order, wait>>
       /\ IF ending = "thread" THEN UNCHANGED <<phase, todo>>
          ELSE /\ phase' = "remove"
               /\ todo' = ThreadsOf(ProcessOf[t]) \ (IF erased THEN {t} ELSE {})
    /\ exec_thread' = IF ending = "exec" THEN t ELSE NoThread
    /\ UNCHANGED <<rq, waiting_count, clockVars, next_processor, tick_steps, age_shift>>

\* The thread was removed while its slice was in the batch.
skip_slice ==
    /\ phase = "run" /\ batch # << >> /\ Head(batch)[1] \notin Registered
    /\ batch' = Tail(batch)
    /\ UNCHANGED <<schedulerVars, clockVars, phase, next_processor, round_ticks, todo,
                   tick_steps, age_shift, exec_thread, wait>>

-----------------------------------------------------------------------------
(***************************************************************************)
(* Scheduler time.                                                         *)
(***************************************************************************)
advance_time ==
    /\ phase = "run" /\ batch = << >>
    /\ LET since == Plus(elapsed_since_scheduler_tick, round_ticks)
           steps == since \div SchedulerTickTicks
       IN
       /\ elapsed_ticks' = Plus(elapsed_ticks, round_ticks)
       /\ elapsed_since_scheduler_tick' = since % SchedulerTickTicks
       /\ scheduler_tick' = Plus(scheduler_tick, steps)
       /\ tick_steps' = steps
       /\ age_shift' = IF steps = 0 THEN NoShift
                       ELSE processor_set_priority_shift(active_timeshare_count)
    /\ phase' = "expire" /\ round_ticks' = 0
    /\ UNCHANGED <<schedulerVars, next_processor, batch, todo, exec_thread, wait>>

\* The earliest entry of an order index.
FirstOf(order) == CHOOSE e \in order : \A o \in order : Before(e, o)
Due(order, now) == order # {} /\ FirstOf(order)[1] <= now

expire_depressions ==
    /\ phase = "expire" /\ Due(depression_order, elapsed_ticks)
    /\ LET e == FirstOf(depression_order)
           t == e[2]
           live == /\ t \in Registered /\ threads[t].depressed
                   /\ threads[t].depression_deadline = e[1]
       IN
       /\ depression_order' = depression_order \ {e}
       /\ IF live
          THEN /\ Update(t, Restored(threads[t]))
               /\ rq' = RequeuedIfMoved(rq, t, threads[t], Restored(threads[t]))
          ELSE UNCHANGED <<threads, rq>>
    /\ UNCHANGED <<failsafe_order, waiting_count, active_timeshare_count, clockVars,
                   loopVars, wait>>

\* No scheduler tick elapsed, or priorities have to be aged.
expire_depressions_done ==
    /\ phase = "expire" /\ ~Due(depression_order, elapsed_ticks)
    /\ phase' = IF tick_steps = 0 THEN "wake" ELSE "release"
    /\ UNCHANGED <<schedulerVars, clockVars, next_processor, batch, round_ticks, todo,
                   tick_steps, age_shift, exec_thread, wait>>

release_failsafe ==
    /\ phase = "release" /\ Due(failsafe_order, scheduler_tick)
    /\ LET e == FirstOf(failsafe_order)
           t == e[2]
           live == /\ t \in Registered /\ threads[t].failsafe
                   /\ threads[t].failsafe_release_tick = e[1]
       IN
       /\ failsafe_order' = failsafe_order \ {e}
       /\ IF live
          THEN LET r == threads[t]
                   moves == r.state # "Waiting" /\ r.timeshare # r.saved_timeshare
                   back == [r EXCEPT !.base_priority = r.saved_base_priority,
                                     !.timeshare = r.saved_timeshare,
                                     !.realtime = r.saved_realtime,
                                     !.failsafe = FALSE, !.failsafe_release_tick = 0,
                                     !.computation_metered = 0]
                   new == [back EXCEPT !.remaining_quantum = quantum_for(back)]
               IN  /\ Recompute(t, new)
                   /\ active_timeshare_count' =
                          active_timeshare_count + One(moves /\ r.saved_timeshare)
                                                 - One(moves /\ ~r.saved_timeshare)
          ELSE UNCHANGED <<threads, rq, active_timeshare_count>>
    /\ UNCHANGED <<depression_order, waiting_count, clockVars, loopVars, wait>>

release_failsafe_done ==
    /\ phase = "release" /\ ~Due(failsafe_order, scheduler_tick)
    /\ phase' = "age" /\ todo' = Registered
    /\ UNCHANGED <<schedulerVars, clockVars, next_processor, batch, round_ticks,
                   tick_steps, age_shift, exec_thread, wait>>

\* sched_decay_shifts[1]: 1/2 + 1/8, once for every scheduler tick.
DecayedUsage(usage, steps) ==
    LET decayed[n \in Nat] ==
            IF n = 0 THEN usage ELSE decayed[n - 1] \div 2 + decayed[n - 1] \div 8
    IN  IF steps >= UsageDecayTicks THEN 0 ELSE decayed[steps]

\* The loop visits the hash map in no particular order.
age_priorities(t) ==
    /\ phase = "age" /\ t \in todo
    /\ Recompute(t, [threads[t] EXCEPT
                        !.priority_usage_shift = age_shift,
                        !.scheduling_usage = DecayedUsage(@, tick_steps)])
    /\ todo' = todo \ {t}
    /\ UNCHANGED <<depression_order, failsafe_order, waiting_count, active_timeshare_count,
                   clockVars, phase, next_processor, batch, round_ticks, tick_steps,
                   age_shift, exec_thread, wait>>

age_priorities_done ==
    /\ phase = "age" /\ todo = {}
    /\ phase' = "wake" /\ tick_steps' = 0 /\ age_shift' = NoShift
    /\ UNCHANGED <<schedulerVars, clockVars, next_processor, batch, round_ticks, todo,
                   exec_thread, wait>>

-----------------------------------------------------------------------------
Init ==
    /\ threads = [t \in {InitialThread} |-> NewRecord(DefaultBasePriority, TRUE)]
    /\ rq = Enqueued(EmptyRunQueues, InitialThread, NewRecord(DefaultBasePriority, TRUE), FALSE)
    /\ depression_order = {} /\ failsafe_order = {}
    /\ waiting_count = 0 /\ active_timeshare_count = 1
    /\ elapsed_ticks = 0 /\ elapsed_since_scheduler_tick = 0 /\ scheduler_tick = 0
    /\ phase = "wake" /\ next_processor = 0 /\ batch = << >> /\ round_ticks = 0
    /\ todo = {} /\ tick_steps = 0 /\ age_shift = NoShift /\ exec_thread = NoThread
    /\ wait = [t \in Threads |-> "none"]

Call(t) ==
    \/ \E base \in TaskPriorities, runnable \in BOOLEAN : register_thread(t, base, runnable)
    \/ remove_thread(t)
    \/ wake_thread(t)
    \/ block(t)
    \/ suspend_thread(t)
    \/ resume_thread(t)

Policy(t) ==
    \/ \E base \in BasePriorities : set_base_priority(t, base)
    \/ \E timeshare \in Timeshares : set_timeshare(t, timeshare)
    \/ \E timeshare \in Timeshares, base \in BasePriorities : legacy_thread_policy(t, timeshare, base)
    \/ \E rp \in RealtimeParameters : set_realtime(t, rp[1], rp[2])
    \/ \E proc \in Bindings : bind_thread(t, proc)

Choose ==
    \/ begin_choosing
    \/ \E proc \in Processors : choose_next(proc)
    \/ \E proc \in Processors : choose_nothing(proc)
    \/ \E t \in Threads : choose_preferred(t)
    \/ end_choosing

Completion(t) ==
    \E ticks \in TickCounts :
        \/ \E completion \in {"Continue", "Yield", "Block"} : complete_slice(t, ticks, completion)
        \/ \E duration \in DepressDurations : depress(t, ticks, duration)
        \/ \E ending \in {"thread", "process", "exec"} : terminate_slice(t, ticks, ending)

Time ==
    \/ advance_time
    \/ expire_depressions
    \/ expire_depressions_done
    \/ release_failsafe
    \/ release_failsafe_done
    \/ \E t \in Threads : age_priorities(t)
    \/ age_priorities_done

Removal ==
    \/ \E t \in Threads : remove_process(ProcessOf[t])
    \/ \E t \in Threads : remove_process_step(t)
    \/ \E base \in TaskPriorities : remove_process_done(base)

Next ==
    \/ \E t \in Threads : Call(t) \/ Policy(t) \/ make_runnable(t) \/ Completion(t)
    \/ Removal
    \/ skip_slice
    \/ Choose
    \/ Time

Spec == Init /\ [][Next]_vars

-----------------------------------------------------------------------------
(***************************************************************************)
(* Properties.                                                             *)
(***************************************************************************)
States == {"Runnable", "Running", "Waiting"}
OptionalTick == Nat \cup {-1}

ThreadRecords ==
    [state : States, base_priority : Priorities, scheduled_priority : Priorities,
     remaining_quantum : Nat, scheduling_usage : Nat,
     bound_processor : QueueKeys,
     realtime_computation : Nat, realtime_constraint : Nat, realtime_deadline : Nat,
     computation_metered : Nat, failsafe_release_tick : Nat,
     remaining_timeslices : Nat, timeslice_processor : QueueKeys,
     timeshare : BOOLEAN, realtime : BOOLEAN, failsafe : BOOLEAN, depressed : BOOLEAN,
     priority_usage_shift : OptionalTick, depression_deadline : OptionalTick,
     suspend_count : Nat, resume_runnable : BOOLEAN, wake_pending : BOOLEAN,
     saved_base_priority : Priorities, saved_timeshare : BOOLEAN, saved_realtime : BOOLEAN]

Phases == {"wake", "choose", "run", "remove", "expire", "release", "age"}

\* Every member of the scheduler and of the guest loop has its declared type; in
\* particular the size_t counters never wrap below zero.
TypeOK ==
    /\ Registered \subseteq Threads
    /\ threads \in [Registered -> ThreadRecords]
    /\ RunQueueType(rq)
    /\ depression_order \subseteq Nat \X Threads
    /\ failsafe_order \subseteq Nat \X Threads
    /\ waiting_count \in Nat /\ active_timeshare_count \in Nat
    /\ elapsed_ticks \in Nat /\ elapsed_since_scheduler_tick \in Nat /\ scheduler_tick \in Nat
    /\ phase \in Phases /\ next_processor \in 0 .. ProcessorCount
    /\ batch \in Seq(Threads \X Processors) /\ round_ticks \in Nat
    /\ todo \subseteq Threads /\ tick_steps \in Nat /\ age_shift \in OptionalTick
    /\ exec_thread \in Threads \cup {NoThread}
    /\ wait \in [Threads -> {"none", "woken", "blocked"}]

\* A thread is in a run queue exactly while it is Runnable, once, in the queue of
\* the processor it is bound to, at its scheduled priority; bitmap, high_queue,
\* the counts and the real-time index of enqueue, remove_from_queue and
\* pop_highest agree with the lists.
QueuesMatchThreads ==
    /\ RunQueueOK(rq)
    /\ \A t \in Threads : rq.place[t].queued <=>
           t \in Registered /\ threads[t].state = "Runnable"
    /\ \A t \in Registered : rq.place[t].queued =>
           /\ rq.place[t].priority = threads[t].scheduled_priority
           /\ rq.place[t].processor = threads[t].bound_processor

\* waiting_count_ and active_timeshare_count_, kept by increments in thirteen
\* places, equal what a walk over threads_ would count.
CountersExact ==
    /\ waiting_count = Cardinality({t \in Registered : threads[t].state = "Waiting"})
    /\ active_timeshare_count =
           Cardinality({t \in Registered : threads[t].state # "Waiting" /\ threads[t].timeshare})

\* depression_order_ and failsafe_order_ index exactly the threads with a timed
\* depression and the fail-safe threads, so no entry is ever stale and none is
\* missing: every depression ends and every fail-safe is released on time.
TimerIndexesExact ==
    /\ depression_order =
           {<<threads[t].depression_deadline, t>> :
               t \in {u \in Registered : threads[u].depression_deadline # NoDeadline}}
    /\ failsafe_order =
           {<<threads[t].failsafe_release_tick, t>> :
               t \in {u \in Registered : threads[u].failsafe}}
    /\ \A t \in Registered :
           threads[t].depression_deadline # NoDeadline => threads[t].depressed

\* A suspended thread is neither queued nor Running, whatever wakes, policy
\* changes and completions reach it.
SuspendedThreadsWait ==
    \A t \in Registered :
        /\ threads[t].suspend_count > 0 => threads[t].state = "Waiting"
        /\ threads[t].resume_runnable => threads[t].suspend_count > 0

\* A Running thread has a slice in the batch, so complete_slice will reach it,
\* and no thread is chosen twice in a round.
RunningThreadsHaveSlices ==
    /\ \A t \in Registered : threads[t].state = "Running" =>
           \E i \in 1 .. Len(batch) : batch[i][1] = t
    /\ \A i, j \in 1 .. Len(batch) : batch[i][1] = batch[j][1] => i = j

\* A wake is never lost: a thread woken since it was last chosen does not wait,
\* unless it is suspended and will become runnable when resumed.
NoLostWakeup ==
    \A t \in Registered :
        wait[t] = "woken" =>
            \/ threads[t].state # "Waiting"
            \/ threads[t].suspend_count > 0 /\ threads[t].resume_runnable

\* peek_highest never finds its caches inconsistent: none of the logic_errors of
\* choose_next and preemption_for can be thrown.
NeverThrows ==
    \A proc \in Processors :
        HasCandidate(rq, proc) => ~PeekThrows(rq, selected_run_queue(rq, proc))

\* Comment of RunQueue::realtime_order: "Realtime queues are ordered by deadline."
RealtimeQueuesOrderedByDeadline ==
    \A c \in QueueKeys : rq.realtime_order[c] # {} =>
        \A e \in rq.realtime_order[c] :
            threads[FirstRealtime(rq, c)].realtime_deadline <= threads[e[2]].realtime_deadline

\* A thread whose slice ended in a blocking system call stays off the run queue
\* until something wakes it; resuming it from suspension is not a wake.
BlockedThreadsStayBlocked ==
    \A t \in Registered :
        wait[t] = "blocked" => threads[t].state = "Waiting"

\* The threads choose_next(proc) may take.
Eligible(proc) == {t \in Registered : rq.place[t].queued
                                      /\ threads[t].bound_processor \in {PSet, proc}}

\* choose_next takes a thread of the highest priority among all those queued for
\* the processor, whichever of the two queues holds it.
ChoosesHighestPriority ==
    [][\A proc \in Processors : choose_next(proc) =>
          LET t == batch'[Len(batch')][1] IN
          /\ t \in Eligible(proc)
          /\ \A u \in Eligible(proc) :
                 threads[u].scheduled_priority <= threads[t].scheduled_priority]_vars

\* preemption_for: whether a queued candidate should take the processor.
preemption_for(t, proc) ==
    /\ HasCandidate(rq, proc) /\ threads[t].state = "Running"
    /\ LET candidate == threads[peek_highest(rq, selected_run_queue(rq, proc))]
           current == threads[t]
       IN
       \/ candidate.scheduled_priority > current.scheduled_priority
       \/ /\ current.remaining_quantum = 0
          /\ candidate.scheduled_priority = current.scheduled_priority
       \/ /\ candidate.scheduled_priority >= RealtimeQueuePriority
          /\ current.realtime /\ candidate.realtime
          /\ candidate.realtime_deadline < current.realtime_deadline

\* realtime_order puts u before t exactly when u has the earlier deadline: they share a
\* queue, and set_realtime has not changed the deadline of u since it was queued.
OrderedByDeadline(t, u) ==
    /\ threads[t].bound_processor \in {PSet, rq.place[u].processor}
    /\ rq.place[u].key = threads[u].realtime_deadline

\* A preemption is never in vain: when preemption_for asks a running thread to
\* stop, the processor's next choice is another thread, although complete_slice
\* puts the preempted one back at the head of its queue.  An earlier deadline
\* counts only where realtime_order follows it: preemption_for compares the deadlines
\* of the records, choose_next the keys of one queue, and prefers the processor's own.
PreemptionSwitches ==
    phase = "run" =>
        \A i \in 1 .. Len(batch) :
            LET t == batch[i][1]
                proc == batch[i][2]
                candidate == peek_highest(rq, selected_run_queue(rq, proc))
                after == AfterSlice(threads[t], "Continue")
                q == Enqueued(rq, t, after.record, after.front)
            IN  (/\ t \in Registered /\ preemption_for(t, proc)
                 /\ \/ threads[candidate].scheduled_priority > threads[t].scheduled_priority
                    \/ OrderedByDeadline(t, candidate))
                    => peek_highest(q, selected_run_queue(q, proc)) # t

\* Round robin among threads of one base priority: a runnable timeshare thread is
\* eventually chosen (or leaves the run queue some other way), although partial
\* slices and multi-quantum slices return to the head of the queue.
RunnableThreadsRun ==
    \A t \in Threads : (t \in Registered /\ threads[t].state = "Runnable")
                           ~> (t \notin Registered \/ threads[t].state # "Runnable")

\* A timed depression ends, even while other threads keep the processor busy.
TimedDepressionsEnd ==
    \A t \in Threads : (t \in Registered /\ threads[t].depression_deadline # NoDeadline)
                           ~> (t \notin Registered \/ threads[t].depression_deadline = NoDeadline)

\* The guest loop strands no thread: what is Running will be completed, and what was
\* woken will be chosen (choose_next, complete_slice, wake_thread, suspend_thread).
NoThreadStranded == RunningThreadsHaveSlices /\ NoLostWakeup

\* The scheduler's caches never go stale: neither the orders that begin_tick reads nor
\* the bitmap and indexes that peek_highest trusts.
CachesExact == TimerIndexesExact /\ NeverThrows

\* Waiting for the processor ends, and so does a depression (begin_tick, enqueue).
ThreadsGoOn == RunnableThreadsRun /\ TimedDepressionsEnd
=============================================================================
