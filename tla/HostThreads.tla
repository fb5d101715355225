---------------------------- MODULE HostThreads ----------------------------
(*****************************************************************************)
(* The host threads of the emulator and what they share: the guest loop of   *)
(* app/main.cpp, which executes batches of slices on the slice workers,      *)
(* submits compilations to HostResources and hands the remains of exited     *)
(* processes to the runtime reaper.  Nothing but the order of these calls    *)
(* keeps a thread from using a runtime that another one is destroying:       *)
(* slices and compilations hold plain pointers to it.                        *)
(*                                                                           *)
(* GuestSliceWorkerPool: the host threads that execute a batch of guest      *)
(* slices in parallel while the guest loop waits in run().  An action is     *)
(* what a thread does under the pool's mutex, up to the point where it       *)
(* releases it; a notification after the unlock is an action of its own.  A  *)
(* thread asleep in a condition variable resumes only when it is notified,   *)
(* and then tests its predicate again.  Batches of one slice run on the      *)
(* guest loop's own thread and share nothing with the workers.               *)
(*                                                                           *)
(* RuntimeReaper: the host thread that destroys what exited processes leave  *)
(* behind.  A resource is the execution pool of a runtime, a runtime whose   *)
(* pool has been released, or a runtime with its pool.                       *)
(*****************************************************************************)
EXTENDS HostResources

CONSTANT Workers

VARIABLES
    slices,         \* slices_, slice_count_: the batch, by the runtime of each slice
    next_slice,     \* next_slice_: how many slices have been taken
    remaining,      \* remaining_: how many have not been completed
    behind,         \* the workers whose observed_generation is not generation_
    worker,         \* where each worker is; while it executes, also in which slice
    runner,         \* where the guest loop is in run() or in the destructor
    pool_stopping,  \* stopping_
    executed        \* history: how often each slice of the last batch was executed

sliceVars == <<slices, next_slice, remaining, behind, worker, runner, pool_stopping, executed>>

At(place) == [at |-> place, slice |-> 0]
Executing(i) == [at |-> "execute", slice |-> i]

\* The pool starts with the threads `hired`.
SlicesInit(hired) ==
    /\ slices = <<>> /\ next_slice = 0 /\ remaining = 0 /\ executed = <<>>
    /\ behind = {} /\ pool_stopping = FALSE
    /\ worker = [w \in Workers |-> At(IF w \in hired THEN "check" ELSE "exited")]
    /\ runner = "out"

-----------------------------------------------------------------------------
(***************************************************************************)
(* The workers.                                                            *)
(***************************************************************************)
\* The inner loop: take a slice and release the mutex or, when none is left, go
\* back to the wait, where a worker that is up to date falls asleep.
LookForWork(w) ==
    IF next_slice < Len(slices)
    THEN /\ worker' = [worker EXCEPT ![w] = Executing(next_slice + 1)]
         /\ next_slice' = next_slice + 1
    ELSE /\ worker' = [worker EXCEPT ![w] = At(IF pool_stopping THEN "exited" ELSE "asleep")]
         /\ UNCHANGED next_slice

\* The predicate of the wait: a new generation, or the end.
WorkerChecks(w) ==
    /\ worker[w].at = "check"
    /\ \/ /\ ~pool_stopping /\ w \in behind
          /\ behind' = behind \ {w}
          /\ LookForWork(w)
       \/ /\ pool_stopping \/ w \notin behind
          /\ worker' = [worker EXCEPT ![w] = At(IF pool_stopping THEN "exited" ELSE "asleep")]
          /\ UNCHANGED <<behind, next_slice>>
    /\ UNCHANGED <<slices, remaining, runner, pool_stopping, executed>>

\* The slice is executed without the mutex; then the worker counts it, wakes the
\* guest loop after the last one and looks for more.
WorkerCompletes(w) ==
    /\ worker[w].at = "execute"
    /\ remaining' = remaining - 1
    /\ runner' = IF remaining = 1 /\ runner = "asleep" THEN "check" ELSE runner
    /\ executed' = [executed EXCEPT ![worker[w].slice] = @ + 1]
    /\ LookForWork(w)
    /\ UNCHANGED <<slices, behind, pool_stopping>>

Worker(w) == WorkerChecks(w) \/ WorkerCompletes(w)

-----------------------------------------------------------------------------
(***************************************************************************)
(* run(): publish the batch, notify, wait for its completion.              *)
(***************************************************************************)
Publish_seen(batch) ==
    /\ runner = "out"
    /\ slices' = batch /\ next_slice' = 0 /\ remaining' = Len(batch)
    /\ executed' = [i \in DOMAIN batch |-> 0]
    /\ runner' = "notify"
    /\ UNCHANGED <<worker, behind, pool_stopping>>

\* It throws when a slice of the last batch remains; SlicesRunOnce says that none does.
Publish(batch) ==
    /\ runner = "out"
    /\ slices' = batch /\ next_slice' = 0 /\ remaining' = Len(batch)
    /\ executed' = [i \in DOMAIN batch |-> 0]
    /\ behind' = Workers
    /\ runner' = "notify"
    /\ UNCHANGED <<worker, pool_stopping>>

\* work_available_.notify_all().
Roused == [w \in Workers |-> IF worker[w].at = "asleep" THEN At("check") ELSE worker[w]]

NotifyWorkers ==
    /\ runner \in {"notify", "stop"}
    /\ worker' = Roused
    /\ runner' = IF runner = "notify" THEN "check" ELSE "join"
    /\ UNCHANGED <<slices, next_slice, remaining, behind, pool_stopping, executed>>

AwaitBatch ==
    /\ runner = "check"
    /\ \/ remaining = 0 /\ runner' = "out" /\ slices' = <<>>
       \/ remaining # 0 /\ runner' = "asleep" /\ UNCHANGED slices
    /\ UNCHANGED <<next_slice, remaining, behind, worker, pool_stopping, executed>>

\* The destructor.
StopPool ==
    /\ runner = "out"
    /\ pool_stopping' = TRUE
    /\ runner' = "stop"
    /\ UNCHANGED <<slices, next_slice, remaining, behind, worker, executed>>

JoinWorkers ==
    /\ runner = "join"
    /\ \A w \in Workers : worker[w].at = "exited"
    /\ runner' = "gone"
    /\ UNCHANGED <<slices, next_slice, remaining, behind, worker, pool_stopping, executed>>

Running == NotifyWorkers \/ AwaitBatch \/ JoinWorkers

-----------------------------------------------------------------------------
VARIABLES
    pending,            \* pending_
    reaper,             \* where the reaper thread is
    reaped,             \* the resource it is destroying (active_), or NoResource
    finisher,           \* where the guest loop is in retire() or finish()
    reaper_stopping,    \* stopping_
    existing            \* the resources that have not been destroyed

reaperVars == <<pending, reaper, reaped, finisher, reaper_stopping, existing>>

Pool(r) == <<"pool", r>>
Runtime(r) == <<"runtime", r>>
Whole(r) == <<"whole", r>>
NoResource == <<>>

\* What goes when a resource is destroyed: ~Runtime resets cpus before memory.
Parts(resource) ==
    IF resource[1] = "whole" THEN {Pool(resource[2]), Runtime(resource[2])} ELSE {resource}

ReaperInit ==
    /\ pending = <<>> /\ reaped = NoResource /\ reaper_stopping = FALSE
    /\ reaper = "check" /\ finisher = "out"

-----------------------------------------------------------------------------
(***************************************************************************)
(* The reaper thread.                                                      *)
(***************************************************************************)
\* From the head of the loop to the next release of the mutex.
NextResource ==
    IF pending # <<>>
    THEN /\ reaped' = Head(pending) /\ pending' = Tail(pending)
         /\ existing' = existing \ Parts(Head(pending))
         /\ reaper' = "destroy"
    ELSE /\ reaped' = NoResource
         /\ reaper' = IF reaper_stopping THEN "exited" ELSE "asleep"
         /\ UNCHANGED <<pending, existing>>

\* idle_.notify_all().
FinisherRoused == IF finisher = "asleep" THEN "check" ELSE finisher

ReaperChecks ==
    /\ reaper = "check"
    /\ NextResource
    /\ finisher' = IF pending = <<>> /\ reaper_stopping THEN FinisherRoused ELSE finisher
    /\ UNCHANGED reaper_stopping

\* The destruction, without the mutex, is over.
ReaperCompletes ==
    /\ reaper = "destroy"
    /\ NextResource
    /\ finisher' = FinisherRoused
    /\ UNCHANGED reaper_stopping

Reaper == ReaperChecks \/ ReaperCompletes

-----------------------------------------------------------------------------
(***************************************************************************)
(* The guest loop's calls.                                                 *)
(***************************************************************************)
\* retire: the resource goes to the back; retiring after finish throws.
Retire(resource) ==
    /\ finisher = "out" /\ ~reaper_stopping
    /\ pending' = Append(pending, resource)
    /\ finisher' = "notify"
    /\ UNCHANGED <<reaper, reaped, reaper_stopping, existing>>

\* finish(): stop, notify, wait until idle, join.
Finish ==
    /\ finisher = "out"
    /\ reaper_stopping' = TRUE
    /\ finisher' = "stop"
    /\ UNCHANGED <<pending, reaper, reaped, existing>>

\* work_available_.notify_one(); the reaper is the only waiter.
NotifyReaper ==
    /\ finisher \in {"notify", "stop"}
    /\ reaper' = IF reaper = "asleep" THEN "check" ELSE reaper
    /\ finisher' = IF finisher = "notify" THEN "out" ELSE "check"
    /\ UNCHANGED <<pending, reaped, reaper_stopping, existing>>

AwaitIdle ==
    /\ finisher = "check"
    /\ finisher' = IF pending = <<>> /\ reaped = NoResource THEN "join" ELSE "asleep"
    /\ UNCHANGED <<pending, reaper, reaped, reaper_stopping, existing>>

JoinReaper ==
    /\ finisher = "join" /\ reaper = "exited"
    /\ finisher' = "gone"
    /\ UNCHANGED <<pending, reaper, reaped, reaper_stopping, existing>>

Finishing == NotifyReaper \/ AwaitIdle \/ JoinReaper

-----------------------------------------------------------------------------
CONSTANTS
    InitialRuntime,     \* initial_runtime, never reaped before the end
    MaxSlices,          \* bound: slices of a batch
    Costs,              \* estimated costs of compilations
    Mixes               \* sets of threads, and what the guest loop uses them for

ASSUME HostThreadsAssumption ==
    /\ InitialRuntime \in Runtimes
    /\ Costs \subseteq 1 .. Limit
    /\ \A mx \in Mixes : /\ mx.workers \subseteq Workers /\ mx.helpers \subseteq Helpers
                         /\ mx.deadlines \subseteq {"none", "far", "near"}
                         /\ mx.compiled \subseteq Runtimes
                         /\ mx.batches \in 1 .. MaxSlices

VARIABLES
    mix,            \* the member of Mixes of this behaviour: workers and helpers hired,
                    \* the deadlines announced, the runtimes compiled, the largest batch
    main,           \* where the guest loop is
    live,           \* runtimes: those the guest loop has
    exited,         \* those of them whose process has exited
    owned           \* those of them that still have execution resources

mainVars == <<main, live, exited, owned>>
vars == <<mix, sliceVars, reaperVars, resourceVars, mainVars>>

Init ==
    /\ mix \in Mixes
    /\ SlicesInit(mix.workers) /\ ReaperInit /\ ResourcesInit(mix.helpers)
    /\ main = "loop"
    /\ live = {InitialRuntime} /\ exited = {} /\ owned = {InitialRuntime}
    /\ existing = {Pool(InitialRuntime), Runtime(InitialRuntime)}

\* The guest loop is in no call.
Free == runner = "out" /\ finisher = "out" /\ client = "out"

-----------------------------------------------------------------------------
(***************************************************************************)
(* A round of the guest loop.                                              *)
(***************************************************************************)
\* A batch for the workers: two slices or more of running processes.
Batches == UNION {[1 .. n -> live \ exited] : n \in 2 .. mix.batches}

RunBatch ==
    /\ main = "loop" /\ Free
    /\ \E batch \in Batches : Publish(batch)
    /\ UNCHANGED <<reaperVars, resourceVars, mainVars>>

\* Completion of the slices: a process exits, or forks.
ExitProcess(r) ==
    /\ main = "loop" /\ Free
    /\ r \in live \ exited /\ r # InitialRuntime
    /\ exited' = exited \cup {r}
    /\ UNCHANGED <<sliceVars, reaperVars, resourceVars, main, live, owned>>

\* The identity of a runtime is free when nothing of the last one exists.
Fork(r) ==
    /\ main = "loop" /\ Free
    /\ r \notin live /\ {Pool(r), Runtime(r)} \cap existing = {}
    /\ live' = live \cup {r} /\ owned' = owned \cup {r}
    /\ existing' = existing \cup {Pool(r), Runtime(r)}
    /\ token' = [token EXCEPT ![r] = "absent"] /\ cancelled' = cancelled \ {r}
    /\ UNCHANGED <<sliceVars, pending, reaper, reaped, finisher, reaper_stopping, main, exited>>
    /\ UNCHANGED <<tasks, helper, work, reserved, active, deadline, window_over, client,
                   resources_stopping>>

\* precompile_finished: an unfinished compilation is cancelled, and the loop
\* comes back in a later round.
CancelPrecompile(r) ==
    /\ main = "loop" /\ Free
    /\ r \in exited
    /\ Cancel(r)
    /\ UNCHANGED <<sliceVars, reaperVars, mainVars>>

precompile_finished_cancelled(r) == token[r] # "unfinished" \/ r \in cancelled

precompile_finished(r) == token[r] # "unfinished"

\* The pool of an exited process goes to the reaper, after a grace interval ...
ReclaimExecution(r) ==
    /\ main = "loop" /\ Free
    /\ r \in exited \cap owned /\ precompile_finished(r)
    /\ Retire(Pool(r))
    /\ owned' = owned \ {r}
    /\ UNCHANGED <<sliceVars, resourceVars, main, live, exited>>

\* ... and the runtime after it.
ReapRuntime(r) ==
    /\ main = "loop" /\ Free
    /\ r \in exited \ owned /\ r # InitialRuntime /\ precompile_finished(r)
    /\ Retire(Runtime(r))
    /\ live' = live \ {r} /\ exited' = exited \ {r}
    /\ UNCHANGED <<sliceVars, resourceVars, main, owned>>

\* An idle round announces the next deadline and submits compilations.
IdleRound(d) ==
    /\ main = "loop" /\ Free
    /\ SetNextDeadline(d)
    /\ main' = "idle"
    /\ UNCHANGED <<sliceVars, reaperVars, live, exited, owned>>

Precompile(r, cost) ==
    /\ main = "idle" /\ Free
    /\ r \in (live \ exited) \cap mix.compiled
    /\ Submit(r, cost)
    /\ UNCHANGED <<sliceVars, reaperVars, mainVars>>

EndIdle ==
    /\ main = "idle" /\ Free
    /\ main' = "loop"
    /\ UNCHANGED <<sliceVars, reaperVars, resourceVars, live, exited, owned>>

-----------------------------------------------------------------------------
(***************************************************************************)
(* The end.  The loop stops and drains its threads in order; or a slice    *)
(* threw, and the destructors of its locals run.                           *)
(***************************************************************************)
Stop ==
    /\ main = "loop" /\ Free
    /\ main' \in {"wait_idle", "unwind"}
    /\ UNCHANGED <<sliceVars, reaperVars, resourceVars, live, exited, owned>>

DrainResources ==
    /\ main = "wait_idle" /\ WaitIdle
    /\ main' = IF client' = "out" THEN "retire" ELSE main
    /\ UNCHANGED <<sliceVars, reaperVars, live, exited, owned>>

\* What ~Runtime destroys: the pool too, unless it has been released.
Remains(r) == IF r \in owned THEN Whole(r) ELSE Runtime(r)

\* Every runtime that is left goes to the reaper with what it owns.
RetireRuntime(r) ==
    /\ main = "retire" /\ Free /\ r \in live
    /\ Retire(Remains(r))
    /\ live' = live \ {r} /\ exited' = exited \ {r} /\ owned' = owned \ {r}
    /\ UNCHANGED <<sliceVars, resourceVars, main>>

FinishReaper ==
    /\ main = "retire" /\ Free /\ live = {}
    /\ Finish
    /\ main' = "unwind"
    /\ UNCHANGED <<sliceVars, resourceVars, live, exited, owned>>

\* The destructors run in the reverse order of declaration: the controller, the
\* runtimes, the reaper unless it has finished, the workers.
DestroyResources ==
    /\ main = "unwind" /\ client = "out" /\ finisher \in {"out", "gone"}
    /\ StopResources
    /\ UNCHANGED <<sliceVars, reaperVars, mainVars>>

DestroyRuntimes ==
    /\ main = "unwind" /\ client = "gone" /\ finisher = "out"
    /\ existing' = existing \ UNION {Parts(Remains(r)) : r \in live}
    /\ live' = {} /\ exited' = {} /\ owned' = {}
    /\ reaper_stopping' = TRUE /\ finisher' = "stop"
    /\ UNCHANGED <<sliceVars, resourceVars, main, pending, reaper, reaped>>

DestroyWorkers ==
    /\ main = "unwind" /\ client = "gone" /\ finisher = "gone"
    /\ StopPool
    /\ UNCHANGED <<reaperVars, resourceVars, mainVars>>

\* The calls, step by step.
Calls ==
    \/ Running /\ UNCHANGED <<reaperVars, resourceVars, mainVars>>
    \/ Finishing /\ UNCHANGED <<sliceVars, resourceVars, mainVars>>
    \/ (WakeHelpers \/ NotifyHelpers \/ JoinHelpers) /\ UNCHANGED <<sliceVars, reaperVars, mainVars>>

Ending ==
    \/ DrainResources
    \/ \E r \in Runtimes : RetireRuntime(r)
    \/ FinishReaper
    \/ DestroyResources
    \/ DestroyRuntimes
    \/ DestroyWorkers

Round ==
    \/ RunBatch
    \/ \E r \in Runtimes : \/ ExitProcess(r)
                           \/ Fork(r)
                           \/ CancelPrecompile(r)
                           \/ ReclaimExecution(r)
                           \/ ReapRuntime(r)
                           \/ \E cost \in Costs : Precompile(r, cost)
    \/ \E d \in mix.deadlines : IdleRound(d)
    \/ EndIdle
    \/ Stop

Background ==
    \/ \E w \in Workers : Worker(w) /\ UNCHANGED <<reaperVars, resourceVars, mainVars>>
    \/ Reaper /\ UNCHANGED <<sliceVars, resourceVars, mainVars>>
    \/ \E h \in Helpers : Helper(h) /\ UNCHANGED <<sliceVars, reaperVars, mainVars>>
    \/ (WindowEnds \/ DeadlineNears) /\ UNCHANGED <<sliceVars, reaperVars, mainVars>>

Next == (Round \/ Calls \/ Ending \/ Background) /\ UNCHANGED mix

\* The host schedules every thread that can go on, and time passes.
Fairness ==
    /\ \A w \in Workers :
          WF_vars(Worker(w) /\ UNCHANGED <<mix, reaperVars, resourceVars, mainVars>>)
    /\ WF_vars(Reaper /\ UNCHANGED <<mix, sliceVars, resourceVars, mainVars>>)
    /\ \A h \in Helpers :
          WF_vars(Helper(h) /\ UNCHANGED <<mix, sliceVars, reaperVars, mainVars>>)
    /\ WF_vars(WindowEnds /\ UNCHANGED <<mix, sliceVars, reaperVars, mainVars>>)
    /\ WF_vars(Calls /\ UNCHANGED mix)
    /\ WF_vars(Ending /\ UNCHANGED mix)

Spec == Init /\ [][Next]_vars /\ Fairness

-----------------------------------------------------------------------------
(***************************************************************************)
(* Properties.                                                             *)
(***************************************************************************)
\* The state the threads and the guest loop share has its types.
TypeOK ==
    /\ worker \in [Workers -> [at : {"check", "asleep", "execute", "exited"},
                               slice : 0 .. MaxSlices]]
    /\ runner \in {"out", "notify", "check", "asleep", "stop", "join", "gone"}
    /\ slices \in Seq(Runtimes) /\ next_slice \in 0 .. MaxSlices /\ remaining \in 0 .. MaxSlices
    /\ behind \subseteq Workers
    /\ pending \in Seq({"pool", "runtime", "whole"} \X Runtimes)
    /\ reaper \in {"check", "asleep", "destroy", "exited"}
    /\ finisher \in {"out", "notify", "check", "asleep", "stop", "join", "gone"}
    /\ existing \subseteq {"pool", "runtime"} \X Runtimes
    /\ token \in [Runtimes -> {"absent", "unfinished", "finished"}]
    /\ work \in 0 .. Limit /\ reserved \in Nat /\ active \in Nat
    /\ client \in {"out", "notify", "wake", "check", "asleep", "stop", "join", "gone"}
    /\ exited \subseteq live /\ owned \subseteq live /\ live \subseteq Runtimes

\* GuestSliceWorkerPool::run: when it has returned, every slice of the batch has
\* been executed exactly once and no worker still uses the vector of slices the
\* caller owns, so that no batch overlaps the last one; while it runs, no slice is
\* with two workers or executed again.
SlicesRunOnce ==
    /\ \A i \in DOMAIN executed : executed[i] <= 1
    /\ \A w \in Workers : worker[w].at = "execute" =>
          /\ runner \in {"notify", "check", "asleep"}
          /\ worker[w].slice \in DOMAIN slices
          /\ executed[worker[w].slice] = 0
          /\ \A v \in Workers \ {w} :
                worker[v].at = "execute" => worker[v].slice # worker[w].slice
    /\ runner \notin {"notify", "check", "asleep"} =>
          remaining = 0 /\ \A i \in DOMAIN executed : executed[i] = 1

\* What a host thread works on has not been destroyed: a slice and a compilation
\* need the runtime and its execution pool, and the pool, which refers to the
\* runtime's address space, is destroyed before its runtime (the FIFO the comment
\* of app/main.cpp at the reclamation relies on).  When an exception unwinds the
\* guest loop the runtimes go before the reaper has finished, so that this last
\* part does not extend to the destructors.
NothingUsedAfterDestruction ==
    /\ \A w \in Workers : worker[w].at = "execute" =>
          {Pool(slices[worker[w].slice]), Runtime(slices[worker[w].slice])} \subseteq existing
    /\ \A h \in Helpers : helper[h].at = "compile" =>
          {Pool(helper[h].task.runtime), Runtime(helper[h].task.runtime)} \subseteq existing
    /\ main # "unwind" =>
          \A r \in Runtimes : Pool(r) \in existing \/ reaped = Pool(r) => Runtime(r) \in existing

\* Every call in which the guest loop waits for other threads returns: run(), the
\* reaper's finish(), the joins, and wait_idle() when no deadline holds back the
\* compilations.
CallsReturn ==
    /\ runner \notin {"out", "gone"} ~> runner \in {"out", "gone"}
    /\ finisher \notin {"out", "gone"} ~> finisher \in {"out", "gone"}
    /\ client = "join" ~> client = "gone"
    /\ (main = "wait_idle" /\ deadline = "none") ~> main # "wait_idle"

\* HostResourceController::wait_idle returns, whatever deadline was announced.
WaitIdleReturns == main = "wait_idle" ~> main # "wait_idle"

\* Every slice is executed once, and no thread works on what another one destroys.
WorkIsSafe == SlicesRunOnce /\ NothingUsedAfterDestruction
=============================================================================
