--------------------------- MODULE HostResources ---------------------------
(***************************************************************************)
(* HostResourceController (src/foundation/host_resource_controller.cpp):   *)
(* background threads that compile guest code while the guest is idle.     *)
(* The guest loop submits BackgroundCompile work only, at most one task    *)
(* per runtime at a time, and keeps its token in the runtime.              *)
(*                                                                         *)
(* Time is abstracted to what the code asks of it: whether the next        *)
(* deadline is inside the reserve (near), and whether the duty window is   *)
(* over.  Which of several eligible tasks has the earliest deadline is     *)
(* left open.  Atomicity is that of module HostThreads.                    *)
(***************************************************************************)
EXTENDS Naturals, Sequences, SequencesExt

CONSTANTS
    Runtimes,
    Helpers,        \* workers_
    Limit           \* interactive_compile_budget, in units of estimated cost

ASSUME HostResourcesAssumption == Limit \in Nat \ {0} /\ IsFiniteSet(Helpers)

VARIABLES
    tasks,              \* tasks_, in the order of their sequence numbers
    token,              \* precompile_task of each runtime: absent, unfinished or finished
    cancelled,          \* the runtimes whose token is cancelled
    helper,             \* where each background thread is, and its task
    work,               \* interactive_work_, at most Limit: more makes no difference
    reserved,           \* interactive_reserved_
    active,             \* active_tasks_
    deadline,           \* next_deadline_
    window_over,        \* the duty window has ended and nobody has started another
    client,             \* where the guest loop is in a call
    resources_stopping  \* stopping_

resourceVars == <<tasks, token, cancelled, helper, work, reserved, active, deadline,
                  window_over, client, resources_stopping>>

NoTask == [runtime |-> "none", cost |-> 0]
Idle(place) == [at |-> place, task |-> NoTask]
Busy(place, task) == [at |-> place, task |-> task]

\* The controller starts with the threads `hired`.
ResourcesInit(hired) ==
    /\ tasks = <<>> /\ token = [r \in Runtimes |-> "absent"] /\ cancelled = {}
    /\ helper = [h \in Helpers |-> Idle(IF h \in hired THEN "check" ELSE "exited")]
    /\ work = 0 /\ reserved = 0 /\ active = 0
    /\ deadline = "none" /\ window_over = FALSE
    /\ client = "out" /\ resources_stopping = FALSE

-----------------------------------------------------------------------------
(***************************************************************************)
(* The background threads.                                                 *)
(***************************************************************************)
Waiting(h) == helper[h].at \in {"asleep", "timed"}

\* work_available_.notify_all().
HelpersRoused == [h \in Helpers |-> IF Waiting(h) THEN Idle("check") ELSE helper[h]]

\* The budget, unless the controller is stopping.  `duty` is the work done in
\* the current window.
Affordable(task, duty) ==
    \/ resources_stopping
    \/ /\ deadline # "near"
       /\ duty < Limit
       /\ reserved + task.cost <= Limit - duty

IsCancelled(i) == tasks[i].runtime \in cancelled

\* A cancelled task goes first, the oldest one of them.
MayTake(i, duty) ==
    IF \E j \in DOMAIN tasks : IsCancelled(j)
    THEN IsCancelled(i) /\ \A j \in DOMAIN tasks : IsCancelled(j) => i <= j
    ELSE Affordable(tasks[i], duty)

\* Nothing to do: sleep, or return.
HelperRests(h) ==
    /\ helper[h].at = "check" /\ tasks = <<>>
    /\ helper' = [helper EXCEPT ![h] = Idle(IF resources_stopping THEN "exited" ELSE "asleep")]
    /\ UNCHANGED <<tasks, token, cancelled, work, reserved, active, deadline, window_over,
                   client, resources_stopping>>

\* Take a task, or wait for the next duty window.
HelperChooses(h) ==
    /\ helper[h].at = "check" /\ tasks # <<>>
    /\ LET duty == IF window_over THEN 0 ELSE work IN
       /\ work' = duty /\ window_over' = FALSE
       /\ \/ \E i \in DOMAIN tasks :
                /\ MayTake(i, duty)
                /\ tasks' = RemoveAt(tasks, i)
                /\ helper' = [helper EXCEPT ![h] = Busy("start", tasks[i])]
                /\ reserved' = reserved + tasks[i].cost
                /\ active' = active + 1
          \/ /\ \A i \in DOMAIN tasks : ~MayTake(i, duty)
             /\ helper' = [helper EXCEPT ![h] = Idle("timed")]
             /\ UNCHANGED <<tasks, reserved, active>>
    /\ UNCHANGED <<token, cancelled, deadline, client, resources_stopping>>

\* The token is looked at once more, without the mutex.
HelperStarts(h) ==
    /\ helper[h].at = "start"
    /\ helper' = [helper EXCEPT ![h].at =
                     IF helper[h].task.runtime \in cancelled THEN "finish" ELSE "compile"]
    /\ UNCHANGED <<tasks, token, cancelled, work, reserved, active, deadline, window_over,
                   client, resources_stopping>>

HelperCompiles(h) ==
    /\ helper[h].at = "compile"
    /\ helper' = [helper EXCEPT ![h].at = "finish"]
    /\ UNCHANGED <<tasks, token, cancelled, work, reserved, active, deadline, window_over,
                   client, resources_stopping>>

\* A compilation takes any time, whatever was estimated.
HelperFinishes(h) ==
    /\ helper[h].at = "finish"
    /\ LET task == helper[h].task IN
       /\ token' = [token EXCEPT ![task.runtime] = "finished"]
       /\ reserved' = reserved - task.cost
       /\ work' \in work .. Limit
       /\ active' = active - 1
       /\ client' = IF tasks = <<>> /\ active = 1 /\ client = "asleep" THEN "check" ELSE client
       /\ helper' = [helper EXCEPT ![h] = Idle("announce")]
    /\ UNCHANGED <<tasks, cancelled, deadline, window_over, resources_stopping>>

HelperAnnounces(h) ==
    /\ helper[h].at = "announce"
    /\ helper' = [HelpersRoused EXCEPT ![h] = Idle("check")]
    /\ UNCHANGED <<tasks, token, cancelled, work, reserved, active, deadline, window_over,
                   client, resources_stopping>>

Helper(h) ==
    \/ HelperRests(h)
    \/ HelperChooses(h)
    \/ HelperStarts(h)
    \/ HelperCompiles(h)
    \/ HelperFinishes(h)
    \/ HelperAnnounces(h)

-----------------------------------------------------------------------------
(***************************************************************************)
(* Time.  The end of the window ends the timed waits.                      *)
(***************************************************************************)
WindowEnds ==
    /\ ~window_over
    /\ window_over' = TRUE
    /\ helper' = [h \in Helpers |-> IF helper[h].at = "timed" THEN Idle("check") ELSE helper[h]]
    /\ UNCHANGED <<tasks, token, cancelled, work, reserved, active, deadline, client,
                   resources_stopping>>

DeadlineNears ==
    /\ deadline = "far" /\ deadline' = "near"
    /\ UNCHANGED <<tasks, token, cancelled, helper, work, reserved, active, window_over, client,
                   resources_stopping>>

-----------------------------------------------------------------------------
(***************************************************************************)
(* The guest loop's calls.                                                 *)
(***************************************************************************)
\* submit: rejected near a deadline, when the controller stops and when it has no
\* threads; the notified thread is any one that waits.
Submit(r, cost) ==
    /\ client = "out" /\ token[r] # "unfinished"
    /\ IF \/ resources_stopping \/ deadline = "near"
          \/ \A h \in Helpers : helper[h].at = "exited"
       THEN /\ token' = [token EXCEPT ![r] = "absent"]
            /\ UNCHANGED <<tasks, cancelled, helper>>
       ELSE /\ token' = [token EXCEPT ![r] = "unfinished"]
            /\ cancelled' = cancelled \ {r}
            /\ tasks' = Append(tasks, [runtime |-> r, cost |-> cost])
            /\ IF \E h \in Helpers : Waiting(h)
               THEN \E h \in Helpers : Waiting(h) /\ helper' = [helper EXCEPT ![h] = Idle("check")]
               ELSE UNCHANGED helper
    /\ UNCHANGED <<work, reserved, active, deadline, window_over, client, resources_stopping>>

SetNextDeadline(d) ==
    /\ client = "out"
    /\ deadline' = d
    /\ client' = "notify"
    /\ UNCHANGED <<tasks, token, cancelled, helper, work, reserved, active, window_over,
                   resources_stopping>>

\* token->cancel(), then wake().
Cancel(r) ==
    /\ client = "out" /\ token[r] = "unfinished"
    /\ cancelled' = cancelled \cup {r}
    /\ client' = "wake"
    /\ UNCHANGED <<tasks, token, helper, work, reserved, active, deadline, window_over,
                   resources_stopping>>

\* stop(), from the destructor: the queued tasks are cancelled.
StopResources ==
    /\ client = "out"
    /\ resources_stopping' = TRUE
    /\ cancelled' = cancelled \cup {tasks[i].runtime : i \in DOMAIN tasks}
    /\ client' = "stop"
    /\ UNCHANGED <<tasks, token, helper, work, reserved, active, deadline, window_over>>

\* wake() takes no mutex: the thread that holds it, has found nothing to do and
\* is about to wait for the end of the window misses the notification.
WakeHelpers ==
    /\ client = "wake"
    /\ \/ helper' = HelpersRoused
       \/ \E h \in Helpers :
             /\ helper[h].at = "timed"
             /\ helper' = [HelpersRoused EXCEPT ![h] = helper[h]]
    /\ client' = "out"
    /\ UNCHANGED <<tasks, token, cancelled, work, reserved, active, deadline, window_over,
                   resources_stopping>>

\* The other notifications follow an unlock.
NotifyHelpers ==
    /\ client \in {"notify", "stop"}
    /\ helper' = HelpersRoused
    /\ client' = IF client = "notify" THEN "out" ELSE "join"
    /\ UNCHANGED <<tasks, token, cancelled, work, reserved, active, deadline, window_over,
                   resources_stopping>>

WaitIdle ==
    /\ client \in {"out", "check"}
    /\ client' = IF tasks = <<>> /\ active = 0 THEN "out" ELSE "asleep"
    /\ UNCHANGED <<tasks, token, cancelled, helper, work, reserved, active, deadline,
                   window_over, resources_stopping>>

JoinHelpers ==
    /\ client = "join"
    /\ \A h \in Helpers : helper[h].at = "exited"
    /\ client' = "gone"
    /\ UNCHANGED <<tasks, token, cancelled, helper, work, reserved, active, deadline,
                   window_over, resources_stopping>>
=============================================================================
