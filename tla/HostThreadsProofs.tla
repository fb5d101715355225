-------------------------- MODULE HostThreadsProofs --------------------------
(***************************************************************************)
(* Theorems about HostThreads, for any number of workers, background       *)
(* threads and runtimes, any batches, costs and mixes.                     *)
(***************************************************************************)
EXTENDS HostThreads, FiniteSetTheorems, SequenceTheorems, TLAPS

-----------------------------------------------------------------------------
(***************************************************************************)
(* The inductive invariant, component by component.                        *)
(***************************************************************************)
\* The guest loop is in run(), and the vector of slices is its argument.
InRun == runner \in {"notify", "check", "asleep"}

Uncompleted == {i \in DOMAIN executed : executed[i] = 0}
Executes(w) == worker[w].at = "execute"

Places == [at : {"check", "asleep", "execute", "exited"}, slice : Nat]

\* The pool of slice workers: a slice is handed out in order, to one worker, and
\* counted when it is completed.
SlicesOK ==
    /\ worker \in [Workers -> Places]
    /\ slices \in Seq(Runtimes) /\ next_slice \in Nat
    /\ executed \in Seq({0, 1})
    /\ remaining = Cardinality(Uncompleted)
    /\ \A w \in Workers : Executes(w) =>
          worker[w].slice \in Uncompleted /\ worker[w].slice <= next_slice
    /\ \A v, w \in Workers : Executes(v) /\ Executes(w) /\ worker[v].slice = worker[w].slice => v = w
    /\ \A i \in DOMAIN executed \ Uncompleted : i <= next_slice
    /\ IF InRun THEN Len(slices) = Len(executed) ELSE slices = <<>> /\ remaining = 0

\* What the guest loop holds of the runtimes, and what nobody holds any more.
Held == {Runtime(r) : r \in live} \cup {Pool(r) : r \in owned}
Resources == {"pool", "runtime", "whole"} \X Runtimes

\* The runtimes: what the loop holds exists and is not with the reaper, what is with
\* the reaper exists and is there once, a pool in front of its runtime.
RuntimesOK ==
    /\ live \subseteq Runtimes /\ exited \subseteq live /\ owned \subseteq live
    /\ live \ exited \subseteq owned
    /\ pending \in Seq(Resources)
    /\ Held \subseteq existing
    /\ \A i \in DOMAIN pending : Parts(pending[i]) \subseteq existing \ Held
    /\ \A i, j \in DOMAIN pending : i # j => Parts(pending[i]) \cap Parts(pending[j]) = {}
    /\ \A r \in Runtimes : Pool(r) \in existing =>
          \/ r \in owned
          \/ \E i \in DOMAIN pending : pending[i] \in {Pool(r), Whole(r)}
    /\ \A j \in DOMAIN pending : \A r \in Runtimes :
          pending[j] = Runtime(r) /\ Pool(r) \in existing => \E i \in 1 .. j - 1 : pending[i] = Pool(r)
    /\ main # "unwind" => \A r \in Runtimes :
          Pool(r) \in existing \/ reaped = Pool(r) => Runtime(r) \in existing

Works(h) == helper[h].at \in {"start", "compile", "finish"}
Tasks == [runtime : Runtimes, cost : Nat]

\* A runtime a compilation needs: the token says so, and the loop keeps the pool.
Needed(r) == r \in owned /\ token[r] = "unfinished"

\* The controller: a runtime has one task, queued or with a background thread.
TasksOK ==
    /\ tasks \in Seq(Tasks)
    /\ helper \in [Helpers -> [at : {"check", "asleep", "timed", "start", "compile", "finish",
                                     "announce", "exited"},
                               task : Tasks \cup {NoTask}]]
    /\ token \in [Runtimes -> {"absent", "unfinished", "finished"}]
    /\ active = Cardinality({h \in Helpers : Works(h)})
    /\ \A i \in DOMAIN tasks : Needed(tasks[i].runtime)
    /\ \A h \in Helpers : Works(h) => helper[h].task \in Tasks /\ Needed(helper[h].task.runtime)
    /\ \A i, j \in DOMAIN tasks : tasks[i].runtime = tasks[j].runtime => i = j
    /\ \A g, h \in Helpers :
          Works(g) /\ Works(h) /\ helper[g].task.runtime = helper[h].task.runtime => g = h
    /\ \A i \in DOMAIN tasks, h \in Helpers : Works(h) => tasks[i].runtime # helper[h].task.runtime
    /\ (\A h \in Helpers : helper[h].at = "exited") => tasks = <<>>
    /\ client = "gone" => \A h \in Helpers : helper[h].at = "exited"

\* Where the guest loop is, and what it may rely on there.
LoopOK ==
    /\ InRun => main = "loop" /\ \A i \in DOMAIN slices : slices[i] \in live \ exited
    /\ main = "retire" => tasks = <<>> /\ active = 0

HInv == mix \in Mixes /\ SlicesOK /\ RuntimesOK /\ TasksOK /\ LoopOK

-----------------------------------------------------------------------------
(***************************************************************************)
(* The pool of slice workers.                                              *)
(***************************************************************************)
\* A worker that executes a slice finds the guest loop waiting for it.
LEMMA ExecutesInRun ==
    ASSUME SlicesOK, NEW w \in Workers, Executes(w)
    PROVE  InRun /\ remaining # 0 /\ worker[w].slice \in DOMAIN slices
<1>1. worker[w].slice \in Uncompleted BY DEF SlicesOK
<1>2. IsFiniteSet(Uncompleted) BY FS_Interval, FS_Subset DEF SlicesOK, Uncompleted
<1>3. remaining # 0 BY <1>1, <1>2, FS_EmptySet DEF SlicesOK
<1>4. InRun /\ Len(slices) = Len(executed) BY <1>3 DEF SlicesOK
<1>5. DOMAIN slices = 1 .. Len(slices) /\ DOMAIN executed = 1 .. Len(executed) BY DEF SlicesOK
<1> QED BY <1>1, <1>3, <1>4, <1>5 DEF Uncompleted

\* A batch is published when nothing of the last one is left.
LEMMA PublishSlices ==
    ASSUME SlicesOK, NEW n \in Nat, NEW batch \in [1 .. n -> Runtimes], Publish(batch)
    PROVE  SlicesOK'
<1>1. batch \in Seq(Runtimes) /\ Len(batch) = n /\ DOMAIN batch = 1 .. n BY SeqDef
<1>2. executed' = [i \in 1 .. n |-> 0] BY <1>1 DEF Publish
<1>3. executed' \in Seq({0, 1}) /\ Len(executed') = n BY <1>2, SeqDef
<1>4. Uncompleted' = 1 .. n BY <1>2 DEF Uncompleted
<1>5. Cardinality(1 .. n) = n BY FS_Interval
<1>6. ~InRun /\ InRun' BY DEF Publish, InRun
<1>7. \A w \in Workers : ~Executes(w) BY <1>6, ExecutesInRun
<1>8. /\ slices' = batch /\ next_slice' = 0 /\ remaining' = n /\ worker' = worker
  BY <1>1 DEF Publish
<1>9. \A w \in Workers : ~Executes(w)' BY <1>7, <1>8 DEF Executes
<1> QED BY <1>1, <1>2, <1>3, <1>4, <1>5, <1>6, <1>8, <1>9 DEF SlicesOK

\* The inner loop of a worker that executes no slice any more: it takes the next
\* slice, which nobody has had.
LEMMA LooksForWork ==
    ASSUME NEW w \in Workers, LookForWork(w),
           worker \in [Workers -> Places], slices \in Seq(Runtimes), next_slice \in Nat,
           UNCHANGED slices, executed' \in Seq({0, 1}),
           \A i \in DOMAIN executed' : executed'[i] # 0 => i <= next_slice,
           \A v \in Workers \ {w} : Executes(v) =>
               worker[v].slice \in Uncompleted' /\ worker[v].slice <= next_slice,
           \A u, v \in Workers \ {w} :
               Executes(u) /\ Executes(v) /\ worker[u].slice = worker[v].slice => u = v,
           next_slice < Len(slices) => Len(slices) = Len(executed')
    PROVE  /\ worker' \in [Workers -> Places] /\ next_slice' \in Nat
           /\ \A v \in Workers : Executes(v)' =>
                 worker'[v].slice \in Uncompleted' /\ worker'[v].slice <= next_slice'
           /\ \A u, v \in Workers :
                 Executes(u)' /\ Executes(v)' /\ worker'[u].slice = worker'[v].slice => u = v
           /\ \A i \in DOMAIN executed' \ Uncompleted' : i <= next_slice'
<1>1. CASE next_slice < Len(slices)
  <2> DEFINE i == next_slice + 1
  <2>1. worker' = [worker EXCEPT ![w] = Executing(i)] /\ next_slice' = i
    BY <1>1 DEF LookForWork
  <2>2. i \in 1 .. Len(executed') /\ i \in DOMAIN executed' BY <1>1
  <2>3. i \in Uncompleted' BY <2>2 DEF Uncompleted
  <2>4. Executing(i) \in Places /\ Executing(i).slice = i BY DEF Executing, Places
  <2>5. worker' \in [Workers -> Places] /\ worker'[w].slice = i
    BY <2>1, <2>4
  <2>6. \A v \in Workers \ {w} : worker'[v] = worker[v] BY <2>1
  <2>7. \A v \in Workers \ {w} : Executes(v)' => Executes(v) /\ worker'[v].slice < i
    BY <2>6 DEF Executes, Uncompleted
  <2> HIDE DEF i
  <2>8. next_slice' \in Nat /\ next_slice < i /\ i \in Nat BY <2>1 DEF i
  <2>9. \A v \in Workers : Executes(v)' =>
                 worker'[v].slice \in Uncompleted' /\ worker'[v].slice <= next_slice'
    BY <2>1, <2>3, <2>5, <2>6, <2>7, <2>8 DEF Places
  <2>10. \A u, v \in Workers :
                 Executes(u)' /\ Executes(v)' /\ worker'[u].slice = worker'[v].slice => u = v
    BY <2>5, <2>6, <2>7, <2>8
  <2>11. \A k \in DOMAIN executed' \ Uncompleted' : k <= next_slice'
    BY <2>1, <2>8 DEF Uncompleted
  <2> QED BY <2>5, <2>8, <2>9, <2>10, <2>11
<1>2. CASE ~(next_slice < Len(slices))
  <2> DEFINE place == At(IF pool_stopping THEN "exited" ELSE "asleep")
  <2>1. worker' = [worker EXCEPT ![w] = place] /\ next_slice' = next_slice
    BY <1>2 DEF LookForWork
  <2>2. place \in Places /\ place.at # "execute" BY DEF At, Places
  <2> HIDE DEF place
  <2>3. worker' \in [Workers -> Places] /\ ~Executes(w)' BY <2>1, <2>2 DEF Executes
  <2>4. \A v \in Workers \ {w} : worker'[v] = worker[v] BY <2>1
  <2>5. \A v \in Workers : Executes(v)' => v # w /\ Executes(v) BY <2>3, <2>4 DEF Executes
  <2>6. \A k \in DOMAIN executed' \ Uncompleted' : k <= next_slice' BY <2>1 DEF Uncompleted
  <2> QED BY <2>1, <2>3, <2>4, <2>5, <2>6
<1> QED BY <1>1, <1>2

LEMMA ChecksSlices ==
    ASSUME SlicesOK, NEW w \in Workers, WorkerChecks(w)
    PROVE  SlicesOK'
<1>1. UNCHANGED <<slices, remaining, runner, executed>> /\ ~Executes(w)
  BY DEF WorkerChecks, Executes
<1>2. UNCHANGED <<Uncompleted, InRun>> BY <1>1 DEF Uncompleted, InRun
<1>3. CASE LookForWork(w)
  <2>1. next_slice < Len(slices) => Len(slices) = Len(executed') BY <1>1 DEF SlicesOK
  <2>2. \A i \in DOMAIN executed' : executed'[i] # 0 => i <= next_slice
    BY <1>1 DEF SlicesOK, Uncompleted
  <2>3. /\ worker' \in [Workers -> Places] /\ next_slice' \in Nat
        /\ \A v \in Workers : Executes(v)' =>
              worker'[v].slice \in Uncompleted' /\ worker'[v].slice <= next_slice'
        /\ \A u, v \in Workers :
              Executes(u)' /\ Executes(v)' /\ worker'[u].slice = worker'[v].slice => u = v
        /\ \A i \in DOMAIN executed' \ Uncompleted' : i <= next_slice'
    BY <1>1, <1>2, <1>3, <2>1, <2>2, LooksForWork DEF SlicesOK
  <2> QED BY <1>1, <1>2, <2>3 DEF SlicesOK
<1>4. CASE ~LookForWork(w)
  <2> DEFINE place == At(IF pool_stopping THEN "exited" ELSE "asleep")
  <2>1. worker' = [worker EXCEPT ![w] = place] /\ next_slice' = next_slice
    BY <1>4 DEF WorkerChecks
  <2>2. place \in Places /\ place.at # "execute" BY DEF At, Places
  <2> HIDE DEF place
  <2>3. worker' \in [Workers -> Places] /\ ~Executes(w)' BY <2>1, <2>2 DEF Executes, SlicesOK
  <2>4. \A v \in Workers \ {w} : worker'[v] = worker[v] BY <2>1 DEF SlicesOK
  <2>5. \A v \in Workers : Executes(v)' => v # w /\ Executes(v) BY <2>3, <2>4 DEF Executes
  <2> QED BY <1>1, <1>2, <2>1, <2>3, <2>4, <2>5 DEF SlicesOK
<1> QED BY <1>3, <1>4

\* A completed slice is counted once.
LEMMA CompletesSlices ==
    ASSUME SlicesOK, NEW w \in Workers, WorkerCompletes(w)
    PROVE  SlicesOK' /\ (InRun' <=> InRun)
<1> DEFINE k == worker[w].slice
<1>1. InRun /\ remaining # 0 BY ExecutesInRun DEF WorkerCompletes, Executes
<1>2. InRun' BY <1>1 DEF WorkerCompletes, InRun
<1>3. /\ Executes(w) /\ LookForWork(w) /\ remaining' = remaining - 1
      /\ slices' = slices /\ executed' = [executed EXCEPT ![k] = @ + 1]
  BY DEF WorkerCompletes, Executes
<1>4. k \in Uncompleted /\ k <= next_slice /\ executed[k] = 0 /\ k \in DOMAIN executed
  BY <1>3 DEF SlicesOK, Uncompleted
<1> HIDE DEF k
<1>5. /\ executed' \in Seq({0, 1}) /\ Len(executed') = Len(executed)
      /\ DOMAIN executed' = DOMAIN executed
      /\ \A i \in DOMAIN executed : executed'[i] = IF i = k THEN 1 ELSE executed[i]
  <2>1. executed \in Seq({0, 1}) BY DEF SlicesOK
  <2>2. executed' = [executed EXCEPT ![k] = 1] BY <1>3, <1>4
  <2> QED BY <1>4, <2>1, <2>2, ExceptSeq
<1>6. Uncompleted' = Uncompleted \ {k} BY <1>5 DEF Uncompleted
<1>7. remaining' = Cardinality(Uncompleted')
  <2>1. IsFiniteSet(Uncompleted) BY FS_Interval, FS_Subset DEF SlicesOK, Uncompleted
  <2>2. Cardinality(Uncompleted \ {k}) = Cardinality(Uncompleted) - 1
    BY <1>4, <2>1, FS_RemoveElement
  <2> QED BY <1>3, <1>6, <2>2 DEF SlicesOK
<1>8. \A i \in DOMAIN executed' : executed'[i] # 0 => i <= next_slice
  BY <1>4, <1>5 DEF SlicesOK, Uncompleted
<1>9. \A v \in Workers \ {w} : Executes(v) =>
          worker[v].slice \in Uncompleted' /\ worker[v].slice <= next_slice
  BY <1>3, <1>6 DEF SlicesOK, k
<1>10. next_slice < Len(slices) => Len(slices) = Len(executed') BY <1>1, <1>5 DEF SlicesOK
<1>11. /\ worker' \in [Workers -> Places] /\ next_slice' \in Nat
       /\ \A v \in Workers : Executes(v)' =>
             worker'[v].slice \in Uncompleted' /\ worker'[v].slice <= next_slice'
       /\ \A u, v \in Workers :
             Executes(u)' /\ Executes(v)' /\ worker'[u].slice = worker'[v].slice => u = v
       /\ \A i \in DOMAIN executed' \ Uncompleted' : i <= next_slice'
  BY <1>3, <1>5, <1>8, <1>9, <1>10, LooksForWork DEF SlicesOK
<1> QED BY <1>1, <1>2, <1>3, <1>5, <1>7, <1>11 DEF SlicesOK

\* The steps of run() and of the destructor.
LEMMA RunningSlices ==
    ASSUME SlicesOK, Running
    PROVE  SlicesOK' /\ (InRun' => InRun /\ slices' = slices)
<1>1. CASE NotifyWorkers
  <2>1. /\ UNCHANGED <<slices, next_slice, remaining, executed>>
        /\ worker' = Roused /\ (InRun' <=> InRun)
    BY <1>1 DEF NotifyWorkers, InRun
  <2>2. worker' \in [Workers -> Places] BY <2>1 DEF Roused, At, Places, SlicesOK
  <2>3. \A w \in Workers : Executes(w)' => Executes(w) /\ worker'[w] = worker[w]
    BY <2>1 DEF Roused, At, Executes
  <2>4. UNCHANGED Uncompleted BY <2>1 DEF Uncompleted
  <2> QED BY <2>1, <2>2, <2>3, <2>4 DEF SlicesOK
<1>2. CASE AwaitBatch
  <2>1. /\ UNCHANGED <<next_slice, remaining, executed, worker>> /\ InRun
        /\ \/ remaining = 0 /\ ~InRun' /\ slices' = <<>>
           \/ InRun' /\ slices' = slices
    BY <1>2 DEF AwaitBatch, InRun
  <2>2. UNCHANGED Uncompleted BY <2>1 DEF Uncompleted
  <2>3. \A w \in Workers : Executes(w)' <=> Executes(w) BY <2>1 DEF Executes
  <2>4. slices' \in Seq(Runtimes) BY <2>1, EmptySeq DEF SlicesOK
  <2>5. IF InRun' THEN Len(slices') = Len(executed') ELSE slices' = <<>> /\ remaining' = 0
    BY <2>1 DEF SlicesOK
  <2>6. InRun' => slices' = slices BY <2>1
  <2> HIDE <2>1
  <2> QED BY <2>1, <2>2, <2>3, <2>4, <2>5, <2>6 DEF SlicesOK
<1>3. CASE JoinWorkers
  <2>1. /\ UNCHANGED <<slices, next_slice, remaining, executed, worker>> /\ ~InRun /\ ~InRun'
    BY <1>3 DEF JoinWorkers, InRun
  <2>2. UNCHANGED Uncompleted BY <2>1 DEF Uncompleted
  <2>3. \A w \in Workers : Executes(w)' <=> Executes(w) BY <2>1 DEF Executes
  <2> QED BY <2>1, <2>2, <2>3 DEF SlicesOK
<1> QED BY <1>1, <1>2, <1>3 DEF Running

-----------------------------------------------------------------------------
(***************************************************************************)
(* The runtimes and the reaper.                                            *)
(***************************************************************************)
\* The parts of a resource, by its kind.
LEMMA PartsOf ==
    ASSUME NEW x \in Resources
    PROVE  \E r \in Runtimes :
              \/ x = Pool(r) /\ Parts(x) = {Pool(r)}
              \/ x = Runtime(r) /\ Parts(x) = {Runtime(r)}
              \/ x = Whole(r) /\ Parts(x) = {Pool(r), Runtime(r)}
<1>1. PICK k \in {"pool", "runtime", "whole"}, r \in Runtimes : x = <<k, r>> BY DEF Resources
<1>2. CASE k = "pool" BY <1>1, <1>2 DEF Parts, Pool
<1>3. CASE k = "runtime" BY <1>1, <1>3 DEF Parts, Runtime
<1>4. CASE k = "whole"
  <2>1. x[1] = "whole" /\ x[2] = r BY <1>1, <1>4
  <2> QED BY <1>1, <1>4, <2>1 DEF Parts, Whole
<1> QED BY <1>1, <1>2, <1>3, <1>4

\* Resources of different kinds or of different runtimes are different.
LEMMA Distinct ==
    ASSUME NEW r, NEW s
    PROVE  /\ Pool(r) # Runtime(s) /\ Pool(r) # Whole(s) /\ Runtime(r) # Whole(s)
           /\ (Pool(r) = Pool(s) => r = s)
           /\ (Runtime(r) = Runtime(s) => r = s)
           /\ (Whole(r) = Whole(s) => r = s)
           /\ Parts(Pool(r)) = {Pool(r)} /\ Parts(Runtime(r)) = {Runtime(r)}
           /\ Parts(Whole(r)) = {Pool(r), Runtime(r)}
           /\ Pool(r) # NoResource /\ Runtime(r) # NoResource /\ Whole(r) # NoResource
  BY DEF Pool, Runtime, Whole, Parts, NoResource

\* A step that leaves the runtimes and the reaper alone.
LEMMA RuntimesUnchanged ==
    ASSUME RuntimesOK, UNCHANGED <<live, exited, owned, pending, existing, reaped>>,
           main' # "unwind" => main # "unwind"
    PROVE  RuntimesOK'
<1>1. UNCHANGED Held BY DEF Held
<1> QED BY <1>1 DEF RuntimesOK

\* The reaper destroys what is first: the loop holds none of it, and no pool loses its
\* runtime.
LEMMA ReapsRuntimes ==
    ASSUME RuntimesOK, NextResource, UNCHANGED <<live, exited, owned, main>>
    PROVE  RuntimesOK'
<1>1. UNCHANGED Held BY DEF Held
<1>2. CASE pending = <<>>
  <2>1. UNCHANGED <<pending, existing>> /\ reaped' = NoResource BY <1>2 DEF NextResource
  <2>2. main' # "unwind" => \A r \in Runtimes :
           Pool(r) \in existing' \/ reaped' = Pool(r) => Runtime(r) \in existing'
    BY <2>1, Distinct DEF RuntimesOK
  <2> QED BY <1>1, <2>1, <2>2 DEF RuntimesOK
<1>3. CASE pending # <<>>
  <2> DEFINE x == Head(pending)
  <2>1. /\ reaped' = x /\ pending' = Tail(pending) /\ existing' = existing \ Parts(x)
    BY <1>3 DEF NextResource
  <2>2. pending \in Seq(Resources) BY DEF RuntimesOK
  <2>3. /\ x = pending[1] /\ x \in Resources /\ 1 \in DOMAIN pending
        /\ pending' \in Seq(Resources) /\ DOMAIN pending = 1 .. Len(pending)
        /\ DOMAIN pending' = 1 .. Len(pending) - 1
        /\ \A i \in DOMAIN pending' : pending'[i] = pending[i + 1] /\ i + 1 \in DOMAIN pending
    BY <1>3, <2>1, <2>2
  <2> HIDE DEF x
  <2>4. Held' \subseteq existing' BY <1>1, <2>1, <2>3 DEF RuntimesOK
  <2>5. \A i \in DOMAIN pending' : Parts(pending'[i]) \subseteq existing' \ Held'
    <3> SUFFICES ASSUME NEW i \in DOMAIN pending'
                 PROVE  Parts(pending'[i]) \subseteq existing' \ Held' OBVIOUS
    <3>1. pending'[i] = pending[i + 1] /\ i + 1 \in DOMAIN pending /\ i + 1 # 1 BY <2>3
    <3>2. Parts(pending[i + 1]) \cap Parts(x) = {} BY <2>3, <3>1 DEF RuntimesOK
    <3> QED BY <1>1, <2>1, <3>1, <3>2 DEF RuntimesOK
  <2>6. \A i, j \in DOMAIN pending' : i # j => Parts(pending'[i]) \cap Parts(pending'[j]) = {}
    BY <2>3 DEF RuntimesOK
  <2>7. \A r \in Runtimes : Pool(r) \in existing' =>
           r \in owned' \/ \E i \in DOMAIN pending' : pending'[i] \in {Pool(r), Whole(r)}
    <3> SUFFICES ASSUME NEW r \in Runtimes, Pool(r) \in existing', r \notin owned'
                 PROVE  \E i \in DOMAIN pending' : pending'[i] \in {Pool(r), Whole(r)}
      OBVIOUS
    <3>1. Pool(r) \in existing /\ Pool(r) \notin Parts(x) /\ r \notin owned BY <2>1
    <3>2. PICK i \in DOMAIN pending : pending[i] \in {Pool(r), Whole(r)}
      BY <3>1 DEF RuntimesOK
    <3>3. i # 1 BY <2>3, <3>1, <3>2, Distinct
    <3>4. PICK k \in DOMAIN pending' : k + 1 = i
      <4>1. i - 1 \in DOMAIN pending' /\ (i - 1) + 1 = i BY <2>3, <3>3
      <4> QED BY <4>1
    <3> QED BY <2>3, <3>2, <3>4
  <2>8. \A j \in DOMAIN pending' : \A r \in Runtimes :
           pending'[j] = Runtime(r) /\ Pool(r) \in existing' =>
               \E i \in 1 .. j - 1 : pending'[i] = Pool(r)
    <3> SUFFICES ASSUME NEW j \in DOMAIN pending', NEW r \in Runtimes,
                        pending'[j] = Runtime(r), Pool(r) \in existing'
                 PROVE  \E i \in 1 .. j - 1 : pending'[i] = Pool(r)
      OBVIOUS
    <3>1. /\ pending[j + 1] = Runtime(r) /\ j + 1 \in DOMAIN pending
          /\ Pool(r) \in existing /\ Pool(r) \notin Parts(x)
      BY <2>1, <2>3
    <3>2. PICK i \in 1 .. (j + 1) - 1 : pending[i] = Pool(r) BY <3>1 DEF RuntimesOK
    <3>3. i # 1 BY <2>3, <3>1, <3>2, Distinct
    <3>4. PICK k \in 1 .. j - 1 : k + 1 = i
      <4>1. i - 1 \in 1 .. j - 1 /\ (i - 1) + 1 = i BY <2>3, <3>3
      <4> QED BY <4>1
    <3>5. k \in DOMAIN pending' BY <2>3
    <3> QED BY <2>3, <3>2, <3>4, <3>5
  <2>9. ASSUME main' # "unwind", NEW r \in Runtimes, Pool(r) \in existing' \/ reaped' = Pool(r)
        PROVE  Runtime(r) \in existing'
    <3>1. Parts(x) \subseteq existing BY <2>3 DEF RuntimesOK
    <3>2. PICK s \in Runtimes :
              \/ x = Pool(s) /\ Parts(x) = {Pool(s)}
              \/ x = Runtime(s) /\ Parts(x) = {Runtime(s)}
              \/ x = Whole(s) /\ Parts(x) = {Pool(s), Runtime(s)}
      BY <2>3, PartsOf
    <3>3. Pool(r) \in existing BY <2>1, <2>9, <3>1, <3>2, Distinct
    <3>4. Runtime(r) \in existing BY <2>9, <3>3 DEF RuntimesOK
    <3>5. SUFFICES ASSUME Runtime(r) \in Parts(x) PROVE FALSE BY <2>1, <3>4
    <3>6. s = r /\ x \in {Runtime(r), Whole(r)} BY <3>2, <3>5, Distinct
    <3>7. Pool(r) \in existing' BY <2>1, <2>9, <3>6, Distinct
    <3>8. x = Runtime(r) BY <2>1, <3>2, <3>6, <3>7
    <3>9. PICK i \in 1 .. 1 - 1 : pending[i] = Pool(r) BY <2>3, <3>3, <3>8 DEF RuntimesOK
    <3> QED BY <3>9
  <2> QED BY <2>3, <2>4, <2>5, <2>6, <2>7, <2>8, <2>9 DEF RuntimesOK
<1> QED BY <1>2, <1>3

\* What the loop hands over it holds no longer.
LEMMA RetiresRuntimes ==
    ASSUME RuntimesOK, NEW r \in live, NEW x \in Resources, Retire(x), UNCHANGED main,
           \/ x = Pool(r) /\ r \in exited \cap owned
              /\ live' = live /\ exited' = exited /\ owned' = owned \ {r}
           \/ x = Runtime(r) /\ r \notin owned
              /\ live' = live \ {r} /\ exited' = exited \ {r} /\ owned' = owned
           \/ x = Whole(r) /\ r \in owned
              /\ live' = live \ {r} /\ exited' = exited \ {r} /\ owned' = owned \ {r}
    PROVE  RuntimesOK'
<1>0. r \in Runtimes BY DEF RuntimesOK
<1>1. /\ live' \subseteq Runtimes /\ exited' \subseteq live' /\ owned' \subseteq live'
      /\ live' \ exited' \subseteq owned'
  BY DEF RuntimesOK
<1>2. Parts(x) \subseteq Held BY Distinct DEF Held
<1>3. Held' = Held \ Parts(x)
  <2>1. ASSUME NEW y \in Held' PROVE y \in Held \ Parts(x) BY <2>1, Distinct DEF Held
  <2>2. ASSUME NEW y \in Held \ Parts(x) PROVE y \in Held' BY <2>2, Distinct DEF Held
  <2> QED BY <2>1, <2>2
<1>4. /\ pending' = Append(pending, x) /\ UNCHANGED <<existing, reaped>>
  BY DEF Retire
<1> DEFINE n == Len(pending)
<1>5. /\ pending \in Seq(Resources) /\ pending' \in Seq(Resources) /\ n \in Nat
      /\ DOMAIN pending = 1 .. n /\ DOMAIN pending' = 1 .. n + 1
      /\ pending'[n + 1] = x /\ \A i \in 1 .. n : pending'[i] = pending[i]
  BY <1>4 DEF RuntimesOK
<1> HIDE DEF n
<1>6. Held \subseteq existing /\ \A i \in 1 .. n : Parts(pending[i]) \subseteq existing \ Held
  BY <1>5 DEF RuntimesOK
<1>7. \A i \in DOMAIN pending' : Parts(pending'[i]) \subseteq existing' \ Held'
  BY <1>2, <1>3, <1>4, <1>5, <1>6
<1>8. \A i, j \in DOMAIN pending' : i # j => Parts(pending'[i]) \cap Parts(pending'[j]) = {}
  <2> SUFFICES ASSUME NEW i \in DOMAIN pending', NEW j \in DOMAIN pending', i # j
               PROVE  Parts(pending'[i]) \cap Parts(pending'[j]) = {}
    OBVIOUS
  <2>1. CASE i \in 1 .. n /\ j \in 1 .. n BY <1>5, <2>1 DEF RuntimesOK
  <2>2. CASE i = n + 1 /\ j \in 1 .. n BY <1>2, <1>5, <1>6, <2>2
  <2>3. CASE i \in 1 .. n /\ j = n + 1 BY <1>2, <1>5, <1>6, <2>3
  <2> QED BY <1>5, <2>1, <2>2, <2>3
<1>9. \A s \in Runtimes : Pool(s) \in existing' =>
         s \in owned' \/ \E i \in DOMAIN pending' : pending'[i] \in {Pool(s), Whole(s)}
  <2> SUFFICES ASSUME NEW s \in Runtimes, Pool(s) \in existing', s \notin owned'
               PROVE  \E i \in DOMAIN pending' : pending'[i] \in {Pool(s), Whole(s)}
    OBVIOUS
  <2>1. CASE s \in owned
    <3>1. x \in {Pool(s), Whole(s)} BY <2>1
    <3> QED BY <1>5, <3>1
  <2>2. CASE s \notin owned
    <3>1. PICK i \in DOMAIN pending : pending[i] \in {Pool(s), Whole(s)}
      BY <1>4, <2>2 DEF RuntimesOK
    <3> QED BY <1>5, <3>1
  <2> QED BY <2>1, <2>2
<1>10. \A j \in DOMAIN pending' : \A s \in Runtimes :
          pending'[j] = Runtime(s) /\ Pool(s) \in existing' =>
              \E i \in 1 .. j - 1 : pending'[i] = Pool(s)
  <2> SUFFICES ASSUME NEW j \in DOMAIN pending', NEW s \in Runtimes,
                      pending'[j] = Runtime(s), Pool(s) \in existing'
               PROVE  \E i \in 1 .. j - 1 : pending'[i] = Pool(s)
    OBVIOUS
  <2>1. CASE j \in 1 .. n
    <3>1. PICK i \in 1 .. j - 1 : pending[i] = Pool(s) BY <1>4, <1>5, <2>1 DEF RuntimesOK
    <3>2. i \in 1 .. n BY <1>5, <2>1
    <3> QED BY <1>5, <3>1, <3>2
  <2>2. CASE j = n + 1
    <3>1. x = Runtime(s) /\ s = r /\ r \notin owned BY <1>5, <2>2, Distinct
    <3>2. PICK i \in DOMAIN pending : pending[i] \in {Pool(r), Whole(r)}
      BY <1>0, <1>4, <3>1 DEF RuntimesOK
    <3>3. pending[i] # Whole(r)
      <4>1. Runtime(r) \in Held BY DEF Held
      <4> QED BY <1>5, <1>6, <3>2, <4>1, Distinct
    <3>4. i \in 1 .. j - 1 BY <1>5, <2>2
    <3> QED BY <1>5, <3>1, <3>2, <3>3, <3>4
  <2> QED BY <1>5, <2>1, <2>2
<1>11. main' # "unwind" => \A s \in Runtimes :
          Pool(s) \in existing' \/ reaped' = Pool(s) => Runtime(s) \in existing'
  BY <1>4 DEF RuntimesOK
<1>12. Held' \subseteq existing' BY <1>3, <1>4, <1>6
<1> QED BY <1>1, <1>5, <1>7, <1>8, <1>9, <1>10, <1>11, <1>12 DEF RuntimesOK

\* A runtime that starts takes an identity of which nothing is left.
LEMMA ForksRuntimes ==
    ASSUME RuntimesOK, NEW r \in Runtimes, Fork(r)
    PROVE  RuntimesOK'
<1> DEFINE new == {Pool(r), Runtime(r)}
<1>1. /\ r \notin live /\ new \cap existing = {} /\ existing' = existing \cup new
      /\ live' = live \cup {r} /\ owned' = owned \cup {r}
      /\ UNCHANGED <<exited, pending, reaped, main>>
  BY DEF Fork
<1>2. Held' = Held \cup new BY <1>1 DEF Held
<1> HIDE DEF new
<1>3. \A i \in DOMAIN pending : Parts(pending[i]) \cap new = {} BY <1>1 DEF RuntimesOK
<1>4. \A i \in DOMAIN pending' : Parts(pending'[i]) \subseteq existing' \ Held'
  BY <1>1, <1>2, <1>3 DEF RuntimesOK
<1>5. \A s \in Runtimes : Pool(s) \in existing' /\ s # r => Pool(s) \in existing
  BY <1>1, Distinct DEF new
<1>6. Pool(r) \in new /\ Runtime(r) \in new BY DEF new
<1>7. \A s \in Runtimes : Pool(s) \in existing' =>
         s \in owned' \/ \E i \in DOMAIN pending' : pending'[i] \in {Pool(s), Whole(s)}
  BY <1>1, <1>5 DEF RuntimesOK
<1>8. \A j \in DOMAIN pending' : \A s \in Runtimes :
          pending'[j] = Runtime(s) /\ Pool(s) \in existing' =>
              \E i \in 1 .. j - 1 : pending'[i] = Pool(s)
  <2> SUFFICES ASSUME NEW j \in DOMAIN pending', NEW s \in Runtimes,
                      pending'[j] = Runtime(s), Pool(s) \in existing'
               PROVE  \E i \in 1 .. j - 1 : pending'[i] = Pool(s)
    OBVIOUS
  <2>1. s # r BY <1>1, <1>3, <1>6, Distinct
  <2> QED BY <1>1, <1>5, <2>1 DEF RuntimesOK
<1>9. main' # "unwind" => \A s \in Runtimes :
          Pool(s) \in existing' \/ reaped' = Pool(s) => Runtime(s) \in existing'
  BY <1>1, <1>5, <1>6 DEF RuntimesOK
<1>10. /\ live' \subseteq Runtimes /\ exited' \subseteq live' /\ owned' \subseteq live'
       /\ live' \ exited' \subseteq owned' /\ Held' \subseteq existing'
       /\ pending' \in Seq(Resources)
  BY <1>1, <1>2 DEF RuntimesOK
<1>11. \A i, j \in DOMAIN pending' : i # j => Parts(pending'[i]) \cap Parts(pending'[j]) = {}
  BY <1>1 DEF RuntimesOK
<1> QED BY <1>4, <1>7, <1>8, <1>9, <1>10, <1>11 DEF RuntimesOK

\* The destructor of the vector of runtimes destroys what the loop holds.
LEMMA DestroysRuntimes ==
    ASSUME RuntimesOK, DestroyRuntimes
    PROVE  RuntimesOK'
<1>1. /\ existing' = existing \ UNION {Parts(Remains(r)) : r \in live}
      /\ live' = {} /\ exited' = {} /\ owned' = {} /\ main' = "unwind"
      /\ UNCHANGED <<pending, reaped>>
  BY DEF DestroyRuntimes
<1>2. UNION {Parts(Remains(r)) : r \in live} = Held
  <2>1. \A r \in live : Parts(Remains(r)) \subseteq Held BY Distinct DEF Remains, Held
  <2>2. \A y \in Held : \E r \in live : y \in Parts(Remains(r))
    <3>1. owned \subseteq live BY DEF RuntimesOK
    <3> QED BY <3>1, Distinct DEF Remains, Held
  <2> QED BY <2>1, <2>2
<1>3. Held' = {} BY <1>1 DEF Held
<1>4. \A r \in Runtimes : Pool(r) \in existing' => Pool(r) \in existing /\ r \notin owned
  BY <1>1, <1>2 DEF Held
<1> QED BY <1>1, <1>2, <1>3, <1>4 DEF RuntimesOK

-----------------------------------------------------------------------------
(***************************************************************************)
(* The controller and its background threads.                              *)
(***************************************************************************)
HelperPlaces == {"check", "asleep", "timed", "start", "compile", "finish", "announce", "exited"}
Hands == [at : HelperPlaces, task : Tasks \cup {NoTask}]
WorkingHelpers == {h \in Helpers : Works(h)}
Exited(h) == helper[h].at = "exited"

\* The tasks that are left when one of them is taken.
LEMMA Taken ==
    ASSUME NEW S, NEW s \in Seq(S), NEW i \in 1 .. Len(s)
    PROVE  /\ RemoveAt(s, i) \in Seq(S)
           /\ DOMAIN RemoveAt(s, i) = 1 .. Len(s) - 1
           /\ \A k \in 1 .. Len(s) - 1 :
                 RemoveAt(s, i)[k] = s[IF k < i THEN k ELSE k + 1]
<1> DEFINE before == SubSeq(s, 1, i - 1)
           rest == SubSeq(s, i + 1, Len(s))
<1>1. Len(s) \in Nat /\ i \in Nat /\ 1 <= i /\ i <= Len(s) OBVIOUS
<1>2. /\ before \in Seq(S) /\ Len(before) = i - 1
      /\ \A k \in 1 .. i - 1 : before[k] = s[k]
  BY <1>1, SubSeqProperties
<1>3. /\ rest \in Seq(S) /\ Len(rest) = Len(s) - i
      /\ \A k \in 1 .. Len(s) - i : rest[k] = s[i + k]
  BY <1>1, SubSeqProperties
<1>4. RemoveAt(s, i) = before \o rest BY DEF RemoveAt
<1> HIDE DEF before, rest
<1>5. /\ RemoveAt(s, i) \in Seq(S) /\ Len(RemoveAt(s, i)) = Len(s) - 1
      /\ \A k \in 1 .. Len(s) - 1 :
            RemoveAt(s, i)[k] = IF k <= i - 1 THEN before[k] ELSE rest[k - (i - 1)]
  <2>1. /\ before \o rest \in Seq(S)
        /\ Len(before \o rest) = Len(before) + Len(rest)
        /\ \A k \in 1 .. Len(before) + Len(rest) : (before \o rest)[k] =
               IF k <= Len(before) THEN before[k] ELSE rest[k - Len(before)]
    BY <1>2, <1>3, ConcatProperties
  <2>2. Len(before) + Len(rest) = Len(s) - 1 BY <1>1, <1>2, <1>3
  <2> QED BY <1>2, <1>4, <2>1, <2>2
<1>6. ASSUME NEW k \in 1 .. Len(s) - 1
      PROVE  RemoveAt(s, i)[k] = s[IF k < i THEN k ELSE k + 1]
  <2>1. CASE k < i BY <1>1, <1>2, <1>5, <2>1
  <2>2. CASE ~(k < i)
    <3>1. k - (i - 1) \in 1 .. Len(s) - i /\ i + (k - (i - 1)) = k + 1 BY <1>1, <2>2
    <3> QED BY <1>1, <1>3, <1>5, <2>2, <3>1
  <2> QED BY <2>1, <2>2
<1> QED BY <1>5, <1>6

\* A step in which no background thread takes or finishes a task.
LEMMA HelpersMove ==
    ASSUME TasksOK, UNCHANGED <<tasks, token, active, owned>>,
           helper' \in [Helpers -> Hands],
           \A h \in Helpers : Works(h)' <=> Works(h),
           \A h \in Helpers : Works(h) => helper'[h].task = helper[h].task,
           tasks # <<>> => \A h \in Helpers : Exited(h)' => Exited(h),
           client' = "gone" => \A h \in Helpers : Exited(h)'
    PROVE  TasksOK'
<1>1. UNCHANGED WorkingHelpers BY DEF WorkingHelpers
<1>2. \A i \in DOMAIN tasks' : Needed(tasks[i].runtime)' BY DEF TasksOK, Needed
<1>3. \A h \in Helpers : Works(h)' =>
          helper'[h].task \in Tasks /\ Needed(helper[h].task.runtime)'
  BY DEF TasksOK, Needed
<1>4. (\A h \in Helpers : Exited(h)') => tasks' = <<>> BY DEF TasksOK, Exited
<1>5. \A g, h \in Helpers :
          Works(g)' /\ Works(h)' /\ helper'[g].task.runtime = helper'[h].task.runtime => g = h
  BY DEF TasksOK
<1>6. \A i \in DOMAIN tasks', h \in Helpers :
          Works(h)' => tasks'[i].runtime # helper'[h].task.runtime
  BY DEF TasksOK
<1> QED
  BY <1>1, <1>2, <1>3, <1>4, <1>5, <1>6
  DEF TasksOK, WorkingHelpers, Hands, HelperPlaces, Exited

\* A background thread that has not exited was seen by nobody who joined it.
LEMMA NotGone ==
    ASSUME TasksOK, NEW h \in Helpers, ~Exited(h)
    PROVE  client # "gone"
  BY DEF TasksOK, Exited

\* A thread moves from one place to another that no task goes with.
LEMMA HelperPlaced ==
    ASSUME TasksOK, NEW h \in Helpers, ~Works(h), ~Exited(h),
           NEW place \in HelperPlaces \ {"start", "compile", "finish"},
           helper' = [helper EXCEPT ![h] = Idle(place)],
           place = "exited" => tasks = <<>>,
           UNCHANGED <<tasks, token, active, owned, client>>
    PROVE  TasksOK'
<1>1. helper \in [Helpers -> Hands] BY DEF TasksOK, Hands, HelperPlaces
<1>2. /\ Idle(place) \in Hands /\ Idle(place).at = place
  BY DEF Idle, Hands, HelperPlaces
<1>3. /\ helper' \in [Helpers -> Hands] /\ helper'[h] = Idle(place)
      /\ \A g \in Helpers \ {h} : helper'[g] = helper[g]
  BY <1>1, <1>2
<1>4. /\ \A g \in Helpers : Works(g)' <=> Works(g)
      /\ \A g \in Helpers : Works(g) => helper'[g].task = helper[g].task
      /\ tasks # <<>> => \A g \in Helpers : Exited(g)' => Exited(g)
  BY <1>2, <1>3 DEF Works, Exited
<1>5. client' # "gone" BY NotGone
<1> QED BY <1>3, <1>4, <1>5, HelpersMove

\* A thread goes on with its task.
LEMMA HelperProceeds ==
    ASSUME TasksOK, NEW h \in Helpers, Works(h), NEW place \in {"compile", "finish"},
           helper' = [helper EXCEPT ![h].at = place],
           UNCHANGED <<tasks, token, active, owned, client>>
    PROVE  TasksOK'
<1>1. helper \in [Helpers -> Hands] BY DEF TasksOK, Hands, HelperPlaces
<1>2. /\ helper' \in [Helpers -> Hands] /\ helper'[h].at = place
      /\ helper'[h].task = helper[h].task
      /\ \A g \in Helpers \ {h} : helper'[g] = helper[g]
  BY <1>1 DEF Hands, HelperPlaces
<1>3. /\ \A g \in Helpers : Works(g)' <=> Works(g)
      /\ \A g \in Helpers : Works(g) => helper'[g].task = helper[g].task
      /\ tasks # <<>> => \A g \in Helpers : Exited(g)' => Exited(g)
  BY <1>2 DEF Works, Exited
<1>4. client' # "gone" BY NotGone DEF Works, Exited
<1> QED BY <1>2, <1>3, <1>4, HelpersMove

\* A notification wakes threads that wait.
LEMMA HelpersWoken ==
    ASSUME TasksOK, NEW W \in SUBSET Helpers, \A h \in W : Waiting(h),
           helper' = [h \in Helpers |-> IF h \in W THEN Idle("check") ELSE helper[h]],
           UNCHANGED <<tasks, token, active, owned>>, client' = "gone" => client = "gone"
    PROVE  TasksOK'
<1>1. helper \in [Helpers -> Hands] BY DEF TasksOK, Hands, HelperPlaces
<1>2. /\ Idle("check") \in Hands /\ Idle("check").at = "check"
  BY DEF Idle, Hands, HelperPlaces
<1>3. /\ helper' \in [Helpers -> Hands]
      /\ \A h \in Helpers : \/ h \in W /\ helper'[h].at = "check" /\ Waiting(h)
                            \/ helper'[h] = helper[h]
  BY <1>1, <1>2
<1>4. /\ \A g \in Helpers : Works(g)' <=> Works(g)
      /\ \A g \in Helpers : Works(g) => helper'[g].task = helper[g].task
      /\ \A g \in Helpers : Exited(g)' <=> Exited(g)
  BY <1>3 DEF Works, Exited, Waiting
<1>5. client' = "gone" => \A h \in Helpers : Exited(h)' BY <1>4 DEF TasksOK, Exited
<1> QED BY <1>3, <1>4, <1>5, HelpersMove

\* A thread takes a queued task.
LEMMA TakesTask ==
    ASSUME TasksOK, NEW h \in Helpers, helper[h].at = "check", NEW i \in DOMAIN tasks,
           tasks' = RemoveAt(tasks, i), helper' = [helper EXCEPT ![h] = Busy("start", tasks[i])],
           active' = active + 1, UNCHANGED <<token, owned, client>>
    PROVE  TasksOK'
<1>1. /\ helper \in [Helpers -> Hands] /\ tasks \in Seq(Tasks) /\ i \in 1 .. Len(tasks)
      /\ tasks[i] \in Tasks
  BY DEF TasksOK, Hands, HelperPlaces
<1> DEFINE job == tasks[i]
           at(k) == IF k < i THEN k ELSE k + 1
<1>2. /\ Busy("start", job) \in Hands /\ Busy("start", job).at = "start"
      /\ Busy("start", job).task = job
  BY <1>1 DEF Busy, Hands, HelperPlaces
<1>3. job = tasks[i] OBVIOUS
<1> HIDE DEF job
<1>4. /\ helper' \in [Helpers -> Hands] /\ helper'[h].at = "start" /\ helper'[h].task = job
      /\ \A g \in Helpers \ {h} : helper'[g] = helper[g]
  BY <1>1, <1>2 DEF job
<1>5. ~Works(h) /\ Works(h)' /\ \A g \in Helpers \ {h} : Works(g)' <=> Works(g)
  BY <1>4 DEF Works
<1>6. /\ tasks' \in Seq(Tasks) /\ DOMAIN tasks' = 1 .. Len(tasks) - 1
      /\ \A k \in DOMAIN tasks' : tasks'[k] = tasks[at(k)]
  BY <1>1, Taken
<1>7. /\ \A k \in DOMAIN tasks' : at(k) \in DOMAIN tasks /\ at(k) # i
      /\ \A k, l \in DOMAIN tasks' : at(k) = at(l) => k = l
  BY <1>1, <1>6
<1> HIDE DEF at
<1>8. active' = Cardinality(WorkingHelpers')
  <2>1. WorkingHelpers' = WorkingHelpers \cup {h} /\ h \notin WorkingHelpers
    BY <1>5 DEF WorkingHelpers
  <2>2. IsFiniteSet(WorkingHelpers) BY HostResourcesAssumption, FS_Subset DEF WorkingHelpers
  <2>3. Cardinality(WorkingHelpers') = Cardinality(WorkingHelpers) + 1
    BY <2>1, <2>2, FS_AddElement
  <2> QED BY <2>3 DEF TasksOK, WorkingHelpers
<1>9. UNCHANGED <<token, owned>> OBVIOUS
<1>10. \A k \in DOMAIN tasks' : Needed(tasks[k].runtime)'
  BY <1>6, <1>7 DEF TasksOK, Needed
<1>11. \A g \in Helpers : Works(g)' =>
          helper'[g].task \in Tasks /\ Needed(helper[g].task.runtime)'
  <2>1. job \in Tasks /\ job.runtime \in owned /\ token[job.runtime] = "unfinished"
    BY <1>1, <1>3 DEF TasksOK, Needed
  <2> QED BY <1>4, <1>5, <2>1 DEF TasksOK, Needed
<1>12. \A k, l \in DOMAIN tasks' : tasks'[k].runtime = tasks'[l].runtime => k = l
  BY <1>6, <1>7 DEF TasksOK
<1>13. \A f, g \in Helpers :
          Works(f)' /\ Works(g)' /\ helper'[f].task.runtime = helper'[g].task.runtime => f = g
  BY <1>3, <1>4, <1>5 DEF TasksOK
<1>14. \A k \in DOMAIN tasks', g \in Helpers :
          Works(g)' => tasks'[k].runtime # helper'[g].task.runtime
  <2> SUFFICES ASSUME NEW k \in DOMAIN tasks', NEW g \in Helpers, Works(g)'
               PROVE  tasks'[k].runtime # helper'[g].task.runtime OBVIOUS
  <2>1. tasks'[k] = tasks[at(k)] /\ at(k) \in DOMAIN tasks /\ at(k) # i BY <1>6, <1>7
  <2>2. CASE g = h BY <1>3, <1>4, <2>1, <2>2 DEF TasksOK
  <2>3. CASE g # h BY <1>4, <1>5, <2>1, <2>3 DEF TasksOK
  <2> QED BY <2>2, <2>3
<1>15. ~Exited(h)' BY <1>4 DEF Exited
<1>16. client' # "gone" BY NotGone DEF Exited
<1> QED
  BY <1>4, <1>6, <1>8, <1>10, <1>11, <1>12, <1>13, <1>14, <1>15, <1>16
  DEF TasksOK, WorkingHelpers, Hands, HelperPlaces, Exited

\* A thread finishes its task: the token says so, and nothing else had this runtime.
LEMMA FinishesTask ==
    ASSUME TasksOK, NEW h \in Helpers, helper[h].at = "finish",
           token' = [token EXCEPT ![helper[h].task.runtime] = "finished"],
           helper' = [helper EXCEPT ![h] = Idle("announce")],
           active' = active - 1, UNCHANGED <<tasks, owned>>, client' = "gone" => client = "gone"
    PROVE  TasksOK' /\ active # 0
<1> DEFINE r == helper[h].task.runtime
<1>1. helper \in [Helpers -> Hands] /\ Works(h)
  BY DEF TasksOK, Hands, HelperPlaces, Works
<1>2. helper[h].task \in Tasks /\ r \in Runtimes BY <1>1 DEF TasksOK, Tasks
<1>3. Idle("announce") \in Hands /\ Idle("announce").at = "announce"
  BY DEF Idle, Hands, HelperPlaces
<1>4. /\ helper' \in [Helpers -> Hands] /\ helper'[h].at = "announce"
      /\ \A g \in Helpers \ {h} : helper'[g] = helper[g]
  BY <1>1, <1>3
<1>5. ~Works(h)' /\ \A g \in Helpers \ {h} : Works(g)' <=> Works(g) BY <1>4 DEF Works
<1>6. /\ IsFiniteSet(WorkingHelpers) /\ h \in WorkingHelpers
      /\ WorkingHelpers' = WorkingHelpers \ {h}
  BY <1>1, <1>5, HostResourcesAssumption, FS_Subset DEF WorkingHelpers
<1>7. active' = Cardinality(WorkingHelpers') /\ active # 0
  <2>1. Cardinality(WorkingHelpers') = Cardinality(WorkingHelpers) - 1
    BY <1>6, FS_RemoveElement
  <2>2. Cardinality(WorkingHelpers) # 0 BY <1>6, FS_EmptySet
  <2> QED BY <2>1, <2>2 DEF TasksOK, WorkingHelpers
<1>8. /\ owned' = owned
      /\ \A s \in Runtimes \ {r} : token'[s] = token[s]
  BY <1>2 DEF TasksOK
<1>9. \A i \in DOMAIN tasks : tasks[i].runtime \in Runtimes \ {r}
  <2> SUFFICES ASSUME NEW i \in DOMAIN tasks PROVE tasks[i].runtime \in Runtimes \ {r} OBVIOUS
  <2>1. tasks \in Seq(Tasks) BY DEF TasksOK
  <2>2. tasks[i] \in Tasks BY <2>1, ElementOfSeq
  <2>3. tasks[i].runtime # r BY <1>1 DEF TasksOK
  <2> QED BY <2>2, <2>3 DEF Tasks
<1>10. \A g \in Helpers \ {h} : Works(g) => helper[g].task.runtime \in Runtimes \ {r}
  BY <1>1 DEF TasksOK, Tasks
<1>11. token' \in [Runtimes -> {"absent", "unfinished", "finished"}] BY <1>2 DEF TasksOK
<1> HIDE DEF r
<1>12. \A i \in DOMAIN tasks' : Needed(tasks[i].runtime)' BY <1>8, <1>9 DEF TasksOK, Needed
<1>13. \A g \in Helpers : Works(g)' =>
          helper'[g].task \in Tasks /\ Needed(helper[g].task.runtime)'
  BY <1>4, <1>5, <1>8, <1>10 DEF TasksOK, Needed
<1>14. \A f, g \in Helpers :
          Works(f)' /\ Works(g)' /\ helper'[f].task.runtime = helper'[g].task.runtime => f = g
  BY <1>4, <1>5 DEF TasksOK
<1>15. \A i \in DOMAIN tasks', g \in Helpers :
          Works(g)' => tasks'[i].runtime # helper'[g].task.runtime
  BY <1>4, <1>5 DEF TasksOK
<1>16. ~Exited(h)' BY <1>4 DEF Exited
<1>17. client' # "gone" BY NotGone DEF Exited
<1>18. /\ tasks' \in Seq(Tasks)
       /\ \A i, j \in DOMAIN tasks' : tasks'[i].runtime = tasks'[j].runtime => i = j
  BY DEF TasksOK
<1>19. TasksOK'
  BY <1>4, <1>7, <1>11, <1>12, <1>13, <1>14, <1>15, <1>16, <1>17, <1>18
  DEF TasksOK, WorkingHelpers, Hands, HelperPlaces, Exited
<1> QED BY <1>7, <1>19

\* A step of the guest loop in which the needed runtimes stay needed.
LEMMA LoopMoves ==
    ASSUME TasksOK, UNCHANGED <<tasks, helper, active>>, client' = "gone" => client = "gone",
           token' \in [Runtimes -> {"absent", "unfinished", "finished"}],
           \A i \in DOMAIN tasks : Needed(tasks[i].runtime) => Needed(tasks[i].runtime)',
           \A h \in Helpers : Works(h) /\ Needed(helper[h].task.runtime) =>
                                  Needed(helper[h].task.runtime)'
    PROVE  TasksOK'
<1>1. \A h \in Helpers : Works(h)' <=> Works(h) BY DEF Works
<1>2. UNCHANGED WorkingHelpers BY <1>1 DEF WorkingHelpers
<1>3. \A i \in DOMAIN tasks' : Needed(tasks[i].runtime)' BY DEF TasksOK, Needed
<1>4. \A h \in Helpers : Works(h)' =>
          helper'[h].task \in Tasks /\ Needed(helper[h].task.runtime)'
  BY <1>1 DEF TasksOK, Needed
<1> QED BY <1>1, <1>2, <1>3, <1>4 DEF TasksOK, WorkingHelpers

\* A task is submitted for a runtime that has none.
LEMMA SubmitsTask ==
    ASSUME TasksOK, NEW r \in Runtimes, NEW cost \in Nat, r \in owned, Submit(r, cost),
           UNCHANGED owned
    PROVE  TasksOK'
<1> DEFINE job == [runtime |-> r, cost |-> cost]
<1>1. /\ client = "out" /\ token[r] # "unfinished" /\ UNCHANGED <<active, client, owned>>
  BY DEF Submit
<1>2. \A i \in DOMAIN tasks : tasks[i].runtime # r BY <1>1 DEF TasksOK, Needed
<1>3. \A h \in Helpers : Works(h) => helper[h].task.runtime # r BY <1>1 DEF TasksOK, Needed
<1>4. ASSUME UNCHANGED <<tasks, helper>>, token' = [token EXCEPT ![r] = "absent"]
      PROVE  TasksOK'
  <2>1. /\ token' \in [Runtimes -> {"absent", "unfinished", "finished"}]
        /\ \A s \in Runtimes \ {r} : token'[s] = token[s]
    BY <1>4 DEF TasksOK
  <2>2. \A i \in DOMAIN tasks : Needed(tasks[i].runtime) => Needed(tasks[i].runtime)'
    BY <1>1, <1>2, <1>4 DEF Needed, TasksOK
  <2>3. \A h \in Helpers : Works(h) /\ Needed(helper[h].task.runtime) =>
                               Needed(helper[h].task.runtime)'
    BY <1>1, <1>3, <1>4 DEF Needed, TasksOK
  <2> QED BY <1>1, <1>4, <2>1, <2>2, <2>3, LoopMoves
<1>5. ASSUME token' = [token EXCEPT ![r] = "unfinished"], tasks' = Append(tasks, job),
             \E h \in Helpers : ~Exited(h),
             \/ \E h \in Helpers : Waiting(h) /\ helper' = [helper EXCEPT ![h] = Idle("check")]
             \/ UNCHANGED helper
      PROVE  TasksOK'
  <2>1. helper \in [Helpers -> Hands] BY DEF TasksOK, Hands, HelperPlaces
  <2>2. Idle("check") \in Hands /\ Idle("check").at = "check"
    BY DEF Idle, Hands, HelperPlaces
  <2>3. /\ helper' \in [Helpers -> Hands]
        /\ \A h \in Helpers : \/ helper'[h].at = "check" /\ Waiting(h)
                              \/ helper'[h] = helper[h]
    <3>1. CASE \E h \in Helpers : Waiting(h) /\ helper' = [helper EXCEPT ![h] = Idle("check")]
      BY <2>1, <2>2, <3>1
    <3>2. CASE UNCHANGED helper BY <2>1, <3>2
    <3> QED BY <1>5, <3>1, <3>2
  <2>4. /\ \A g \in Helpers : Works(g)' <=> Works(g)
        /\ \A g \in Helpers : Works(g) => helper'[g] = helper[g]
        /\ \A g \in Helpers : Exited(g)' <=> Exited(g)
    BY <2>3 DEF Works, Exited, Waiting
  <2>5. UNCHANGED WorkingHelpers BY <2>4 DEF WorkingHelpers
  <2>6. /\ job \in Tasks /\ job.runtime = r BY DEF Tasks
  <2> DEFINE n == Len(tasks)
  <2>7. job = job /\ tasks' = Append(tasks, job) BY <1>5
  <2> HIDE DEF job
  <2>8. /\ tasks \in Seq(Tasks) /\ tasks' \in Seq(Tasks) /\ n \in Nat
        /\ DOMAIN tasks = 1 .. n /\ DOMAIN tasks' = 1 .. n + 1
        /\ tasks'[n + 1] = job /\ \A i \in 1 .. n : tasks'[i] = tasks[i]
    BY <2>6, <2>7 DEF TasksOK
  <2> HIDE DEF n
  <2>9. /\ token' \in [Runtimes -> {"absent", "unfinished", "finished"}]
        /\ token'[r] = "unfinished"
        /\ \A s \in Runtimes \ {r} : token'[s] = token[s]
    BY <1>5 DEF TasksOK
  <2>10. \A i \in DOMAIN tasks : tasks[i].runtime \in Runtimes
    <3> SUFFICES ASSUME NEW i \in DOMAIN tasks PROVE tasks[i].runtime \in Runtimes OBVIOUS
    <3>1. tasks[i] \in Tasks BY <2>8
    <3> QED BY <3>1 DEF Tasks
  <2>11. \A i \in DOMAIN tasks' : Needed(tasks[i].runtime)'
    <3> SUFFICES ASSUME NEW i \in DOMAIN tasks'
                 PROVE  tasks'[i].runtime \in owned' /\ token'[tasks'[i].runtime] = "unfinished"
      BY DEF Needed
    <3>1. CASE i = n + 1 BY <1>1, <2>6, <2>8, <2>9, <3>1
    <3>2. CASE i # n + 1
      <4>1. tasks'[i] = tasks[i] /\ i \in DOMAIN tasks BY <2>8, <3>2
      <4> QED BY <1>1, <1>2, <2>9, <2>10, <4>1 DEF TasksOK, Needed
    <3> QED BY <3>1, <3>2
  <2>12. \A h \in Helpers : Works(h)' =>
            helper'[h].task \in Tasks /\ Needed(helper[h].task.runtime)'
    <3> SUFFICES ASSUME NEW h \in Helpers, Works(h)'
                 PROVE  /\ helper'[h].task \in Tasks
                        /\ helper'[h].task.runtime \in owned'
                        /\ token'[helper'[h].task.runtime] = "unfinished"
      BY DEF Needed
    <3>1. Works(h) /\ helper'[h] = helper[h] BY <2>4
    <3>2. /\ helper[h].task \in Tasks /\ helper[h].task.runtime \in owned
          /\ token[helper[h].task.runtime] = "unfinished"
      BY <3>1 DEF TasksOK, Needed
    <3>3. helper[h].task.runtime \in Runtimes BY <3>2 DEF Tasks
    <3> QED BY <1>1, <1>3, <2>9, <3>1, <3>2, <3>3
  <2>13. \A i, j \in DOMAIN tasks' : tasks'[i].runtime = tasks'[j].runtime => i = j
    <3> SUFFICES ASSUME NEW i \in DOMAIN tasks', NEW j \in DOMAIN tasks',
                        tasks'[i].runtime = tasks'[j].runtime
                 PROVE  i = j
      OBVIOUS
    <3>1. CASE i \in 1 .. n /\ j \in 1 .. n BY <2>8, <3>1 DEF TasksOK
    <3>2. CASE i = n + 1 /\ j \in 1 .. n BY <1>2, <2>6, <2>8, <3>2
    <3>3. CASE i \in 1 .. n /\ j = n + 1 BY <1>2, <2>6, <2>8, <3>3
    <3> QED BY <2>8, <3>1, <3>2, <3>3
  <2>14. \A g, h \in Helpers :
           Works(g)' /\ Works(h)' /\ helper'[g].task.runtime = helper'[h].task.runtime => g = h
    BY <2>4 DEF TasksOK
  <2>15. \A i \in DOMAIN tasks', h \in Helpers :
           Works(h)' => tasks'[i].runtime # helper'[h].task.runtime
    <3> SUFFICES ASSUME NEW i \in DOMAIN tasks', NEW h \in Helpers, Works(h)'
                 PROVE  tasks'[i].runtime # helper'[h].task.runtime OBVIOUS
    <3>1. Works(h) /\ helper'[h] = helper[h] BY <2>4
    <3>2. CASE i = n + 1 BY <1>3, <2>6, <2>8, <3>1, <3>2
    <3>3. CASE i # n + 1
      <4>1. tasks'[i] = tasks[i] /\ i \in DOMAIN tasks BY <2>8, <3>3
      <4> QED BY <3>1, <4>1 DEF TasksOK
    <3> QED BY <3>2, <3>3
  <2>16. ~ \A h \in Helpers : Exited(h)' BY <1>5, <2>4
  <2>17. client' # "gone" BY <1>1
  <2> QED
    BY <1>1, <2>3, <2>5, <2>8, <2>9, <2>11, <2>12, <2>13, <2>14, <2>15, <2>16, <2>17
    DEF TasksOK, WorkingHelpers, Hands, HelperPlaces, Exited
<1>6. CASE \/ resources_stopping \/ deadline = "near" \/ \A h \in Helpers : Exited(h)
  BY <1>4, <1>6 DEF Submit, Exited
<1>7. CASE ~(\/ resources_stopping \/ deadline = "near" \/ \A h \in Helpers : Exited(h))
  BY <1>5, <1>7 DEF Submit, Exited
<1> QED BY <1>6, <1>7

\* A step of a background thread; after wait_idle() none finds anything to do.
LEMMA HelperTasks ==
    ASSUME TasksOK, NEW h \in Helpers, Helper(h), UNCHANGED owned
    PROVE  /\ TasksOK'
           /\ tasks = <<>> /\ active = 0 => tasks' = <<>> /\ active' = 0
<1>1. CASE HelperRests(h)
  <2> DEFINE place == IF resources_stopping THEN "exited" ELSE "asleep"
  <2>1. /\ ~Works(h) /\ ~Exited(h) /\ tasks = <<>>
        /\ helper' = [helper EXCEPT ![h] = Idle(place)]
        /\ UNCHANGED <<tasks, token, active, client>>
    BY <1>1 DEF HelperRests, Works, Exited
  <2>2. place \in HelperPlaces \ {"start", "compile", "finish"} BY DEF HelperPlaces
  <2> HIDE DEF place
  <2> QED BY <2>1, <2>2, HelperPlaced
<1>2. CASE HelperChooses(h)
  <2>1. /\ helper[h].at = "check" /\ tasks # <<>> /\ UNCHANGED <<token, client>>
        /\ \/ \E i \in DOMAIN tasks :
                 /\ tasks' = RemoveAt(tasks, i)
                 /\ helper' = [helper EXCEPT ![h] = Busy("start", tasks[i])]
                 /\ active' = active + 1
           \/ helper' = [helper EXCEPT ![h] = Idle("timed")] /\ UNCHANGED <<tasks, active>>
    BY <1>2 DEF HelperChooses
  <2>2. CASE helper' = [helper EXCEPT ![h] = Idle("timed")] /\ UNCHANGED <<tasks, active>>
    <3>1. ~Works(h) /\ ~Exited(h) BY <2>1 DEF Works, Exited
    <3>2. "timed" \in HelperPlaces \ {"start", "compile", "finish"} BY DEF HelperPlaces
    <3> QED BY <2>1, <2>2, <3>1, <3>2, HelperPlaced
  <2> QED BY <2>1, <2>2, TakesTask
<1>3. CASE HelperStarts(h)
  <2> DEFINE place == IF helper[h].task.runtime \in cancelled THEN "finish" ELSE "compile"
  <2>1. Works(h) /\ helper' = [helper EXCEPT ![h].at = place]
        /\ UNCHANGED <<tasks, token, active, client>>
    BY <1>3 DEF HelperStarts, Works
  <2>2. place \in {"compile", "finish"} OBVIOUS
  <2> HIDE DEF place
  <2> QED BY <2>1, <2>2, HelperProceeds
<1>4. CASE HelperCompiles(h)
  <2>1. Works(h) /\ helper' = [helper EXCEPT ![h].at = "finish"]
        /\ UNCHANGED <<tasks, token, active, client>>
    BY <1>4 DEF HelperCompiles, Works
  <2> QED BY <2>1, HelperProceeds
<1>5. CASE HelperFinishes(h)
  <2>1. /\ helper[h].at = "finish"
        /\ token' = [token EXCEPT ![helper[h].task.runtime] = "finished"]
        /\ helper' = [helper EXCEPT ![h] = Idle("announce")]
        /\ active' = active - 1 /\ UNCHANGED tasks
        /\ client' = IF tasks = <<>> /\ active = 1 /\ client = "asleep" THEN "check" ELSE client
    BY <1>5 DEF HelperFinishes
  <2>2. client' = "gone" => client = "gone" BY <2>1
  <2> QED BY <2>1, <2>2, FinishesTask
<1>6. CASE HelperAnnounces(h)
  <2> DEFINE W == {g \in Helpers : Waiting(g)}
             roused == [g \in Helpers |-> IF g \in W \cup {h} THEN Idle("check") ELSE helper[g]]
  <2>1. /\ helper[h].at = "announce" /\ helper' = [HelpersRoused EXCEPT ![h] = Idle("check")]
        /\ UNCHANGED <<tasks, token, active, client>>
    BY <1>6 DEF HelperAnnounces
  <2>2. helper' = roused BY <2>1 DEF HelpersRoused
  <2>3. helper \in [Helpers -> Hands] BY DEF TasksOK, Hands, HelperPlaces
  <2>4. Idle("check") \in Hands /\ Idle("check").at = "check"
    BY DEF Idle, Hands, HelperPlaces
  <2>5. /\ helper' \in [Helpers -> Hands]
        /\ \A g \in Helpers : \/ (g = h \/ Waiting(g)) /\ helper'[g].at = "check"
                              \/ helper'[g] = helper[g]
    BY <2>2, <2>3, <2>4
  <2>6. /\ \A g \in Helpers : Works(g)' <=> Works(g)
        /\ \A g \in Helpers : Works(g) => helper'[g].task = helper[g].task
        /\ \A g \in Helpers : Exited(g)' => Exited(g)
    BY <2>1, <2>5 DEF Works, Exited, Waiting
  <2>7. client' # "gone" BY <2>1, NotGone DEF Exited
  <2> QED BY <2>1, <2>5, <2>6, <2>7, HelpersMove
<1> QED BY <1>1, <1>2, <1>3, <1>4, <1>5, <1>6 DEF Helper

\* The calls of the guest loop that only move threads, and the passing of time.
LEMMA NotifyTasks ==
    ASSUME TasksOK, UNCHANGED <<tasks, token, active, owned>>,
           \/ WakeHelpers \/ NotifyHelpers \/ JoinHelpers \/ WindowEnds \/ DeadlineNears
           \/ WaitIdle \/ StopResources
           \/ \E d : SetNextDeadline(d)
           \/ \E r : Cancel(r)
    PROVE  TasksOK'
<1> DEFINE W == {g \in Helpers : Waiting(g)}
           RousedOf(V) == [g \in Helpers |-> IF g \in V THEN Idle("check") ELSE helper[g]]
<1>1. HelpersRoused = RousedOf(W) BY DEF HelpersRoused
<1>2. ASSUME NEW V \in SUBSET W, helper' = RousedOf(V), client' = "gone" => client = "gone"
      PROVE  TasksOK'
  BY <1>2, HelpersWoken
<1>3. helper \in [Helpers -> Hands] BY DEF TasksOK, Hands, HelperPlaces
<1>4. helper = RousedOf({}) BY <1>3
<1>5. CASE WakeHelpers
  <2>1. client' = "out" BY <1>5 DEF WakeHelpers
  <2>2. CASE helper' = HelpersRoused BY <1>1, <1>2, <2>1, <2>2
  <2>3. ASSUME NEW h \in Helpers, helper' = [HelpersRoused EXCEPT ![h] = helper[h]]
        PROVE  TasksOK'
    <3>1. helper' = RousedOf(W \ {h}) BY <1>1, <2>3
    <3>2. W \ {h} \in SUBSET W OBVIOUS
    <3> HIDE DEF W
    <3> QED BY <1>2, <2>1, <3>1, <3>2
  <2> QED BY <1>5, <2>2, <2>3 DEF WakeHelpers
<1>6. CASE NotifyHelpers
  <2>1. helper' = HelpersRoused /\ client' # "gone" BY <1>6 DEF NotifyHelpers
  <2> QED BY <1>1, <1>2, <2>1
<1>7. CASE JoinHelpers
  <2>1. UNCHANGED helper /\ \A h \in Helpers : Exited(h)' BY <1>7 DEF JoinHelpers, Exited
  <2>2. \A h \in Helpers : Works(h)' <=> Works(h) BY <2>1 DEF Works
  <2>3. \A h \in Helpers : Exited(h)' => Exited(h) BY <2>1 DEF Exited
  <2> QED BY <1>3, <2>1, <2>2, <2>3, HelpersMove
<1>8. CASE WindowEnds
  <2> DEFINE V == {g \in Helpers : helper[g].at = "timed"}
  <2>1. helper' = RousedOf(V) /\ UNCHANGED client BY <1>8 DEF WindowEnds
  <2>2. V \in SUBSET W BY DEF Waiting
  <2> HIDE DEF V, W
  <2> QED BY <1>2, <2>1, <2>2
<1>9. CASE \/ DeadlineNears \/ WaitIdle \/ StopResources
           \/ \E d : SetNextDeadline(d)
           \/ \E r : Cancel(r)
  <2>1. UNCHANGED helper /\ (client' = "gone" => client = "gone")
    BY <1>9 DEF DeadlineNears, WaitIdle, StopResources, SetNextDeadline, Cancel
  <2>2. {} \in SUBSET W OBVIOUS
  <2>3. helper' = RousedOf({}) BY <1>4, <2>1
  <2> HIDE DEF W
  <2> QED BY <1>2, <2>1, <2>2, <2>3
<1> QED BY <1>5, <1>6, <1>7, <1>8, <1>9

-----------------------------------------------------------------------------
(***************************************************************************)
(* Every step keeps the invariant.                                         *)
(***************************************************************************)
LEMMA SlicesUnchanged ==
    ASSUME SlicesOK, UNCHANGED sliceVars
    PROVE  SlicesOK' /\ (InRun' <=> InRun) /\ slices' = slices
<1>1. UNCHANGED <<worker, slices, next_slice, remaining, executed, runner>> BY DEF sliceVars
<1>2. UNCHANGED <<Uncompleted, InRun>> /\ \A w \in Workers : Executes(w)' <=> Executes(w)
  BY <1>1 DEF Uncompleted, InRun, Executes
<1> QED BY <1>1, <1>2 DEF SlicesOK

LEMMA TasksUnchanged ==
    ASSUME TasksOK, UNCHANGED <<resourceVars, owned>>
    PROVE  TasksOK' /\ UNCHANGED <<tasks, active>>
<1>1. UNCHANGED <<tasks, helper, token, active, client>> BY DEF resourceVars
<1> QED BY <1>1, LoopMoves DEF TasksOK, Needed

\* The loop is free to do something else than wait for a batch.
LEMMA FreeLoop == ASSUME Free PROVE ~InRun BY DEF Free, InRun

LEMMA RoundStep ==
    ASSUME HInv, Round, UNCHANGED mix
    PROVE  HInv'
<1> USE DEF HInv
<1>1. CASE RunBatch
  <2>1. PICK batch \in Batches : Publish(batch) BY <1>1 DEF RunBatch
  <2>2. PICK n \in 2 .. mix.batches : batch \in [1 .. n -> live \ exited] BY <2>1 DEF Batches
  <2>3. mix.batches \in Int /\ n \in Nat
    <3>1. mix.batches \in 1 .. MaxSlices BY HostThreadsAssumption
    <3> QED BY <2>2, <3>1
  <2>4. batch \in [1 .. n -> Runtimes] BY <2>2 DEF RuntimesOK
  <2>5. SlicesOK' BY <2>1, <2>3, <2>4, PublishSlices
  <2>6. /\ UNCHANGED <<pending, reaped, existing, resourceVars, main, live, exited, owned>>
        /\ main = "loop"
    BY <1>1 DEF RunBatch, reaperVars, mainVars
  <2>7. slices' = batch BY <2>1 DEF Publish
  <2>8. \A i \in DOMAIN slices' : slices'[i] \in live' \ exited' BY <2>2, <2>6, <2>7
  <2>9. LoopOK' BY <2>6, <2>8 DEF LoopOK
  <2> QED BY <2>5, <2>6, <2>9, RuntimesUnchanged, TasksUnchanged
<1>2. ASSUME NEW r \in Runtimes, ExitProcess(r) PROVE HInv'
  <2>1. /\ UNCHANGED <<sliceVars, reaperVars, resourceVars, main, live, owned>> /\ Free
        /\ main = "loop" /\ r \in live /\ exited' = exited \cup {r}
    BY <1>2 DEF ExitProcess
  <2>2. UNCHANGED <<pending, reaped, existing, Held>> BY <2>1 DEF reaperVars, Held
  <2>3. RuntimesOK' BY <2>1, <2>2 DEF RuntimesOK
  <2>4. ~InRun' BY <2>1, FreeLoop, SlicesUnchanged
  <2>5. LoopOK' BY <2>1, <2>4 DEF LoopOK
  <2> QED BY <2>1, <2>3, <2>5, SlicesUnchanged, TasksUnchanged
<1>3. ASSUME NEW r \in Runtimes, Fork(r) PROVE HInv'
  <2>1. /\ UNCHANGED <<sliceVars, tasks, helper, active, client, main>> /\ Free
        /\ main = "loop" /\ r \notin live /\ token' = [token EXCEPT ![r] = "absent"]
        /\ owned' = owned \cup {r}
    BY <1>3 DEF Fork
  <2>2. RuntimesOK' BY <1>3, ForksRuntimes
  <2>3. r \notin owned BY <2>1 DEF RuntimesOK
  <2>4. /\ token' \in [Runtimes -> {"absent", "unfinished", "finished"}]
        /\ \A s \in Runtimes \ {r} : token'[s] = token[s]
    BY <2>1 DEF TasksOK
  <2>5. owned \subseteq Runtimes BY DEF RuntimesOK
  <2>6. \A i \in DOMAIN tasks : Needed(tasks[i].runtime) => Needed(tasks[i].runtime)'
    BY <2>1, <2>3, <2>4, <2>5 DEF Needed
  <2>7. \A h \in Helpers : Works(h) /\ Needed(helper[h].task.runtime) =>
                               Needed(helper[h].task.runtime)'
    BY <2>1, <2>3, <2>4, <2>5 DEF Needed
  <2>8. TasksOK' BY <2>1, <2>4, <2>6, <2>7, LoopMoves
  <2>9. LoopOK' BY <2>1, FreeLoop, SlicesUnchanged DEF LoopOK
  <2> QED BY <2>1, <2>2, <2>8, <2>9, SlicesUnchanged
<1>4. ASSUME NEW r \in Runtimes, CancelPrecompile(r) PROVE HInv'
  <2>1. /\ UNCHANGED <<sliceVars, reaperVars, mainVars, tasks, token, active>> /\ Free /\ Cancel(r)
        /\ main = "loop"
    BY <1>4 DEF CancelPrecompile, Cancel
  <2>2. UNCHANGED <<pending, reaped, existing, main, live, exited, owned>>
    BY <2>1 DEF reaperVars, mainVars
  <2>3. LoopOK' BY <2>1, <2>2, FreeLoop, SlicesUnchanged DEF LoopOK
  <2> QED BY <2>1, <2>2, <2>3, RuntimesUnchanged, SlicesUnchanged, NotifyTasks
<1>5. ASSUME NEW r \in Runtimes, NEW x \in Resources, Free, Retire(x),
             main = "loop", UNCHANGED <<sliceVars, resourceVars, main>>,
             token[r] # "unfinished", r \in exited,
             \/ x = Pool(r) /\ r \in owned
                /\ live' = live /\ exited' = exited /\ owned' = owned \ {r}
             \/ x = Runtime(r) /\ r \notin owned
                /\ live' = live \ {r} /\ exited' = exited \ {r} /\ owned' = owned
      PROVE  HInv'
  <2>1. r \in live BY <1>5 DEF RuntimesOK
  <2>2. RuntimesOK' BY <1>5, <2>1, RetiresRuntimes
  <2>3. UNCHANGED <<tasks, helper, token, active, client>> BY <1>5 DEF resourceVars
  <2>4. \A s : Needed(s) => s \in owned' BY <1>5 DEF Needed
  <2>5. TasksOK' BY <2>3, <2>4, LoopMoves DEF TasksOK, Needed
  <2>6. LoopOK' BY <1>5, FreeLoop, SlicesUnchanged DEF LoopOK
  <2> QED BY <1>5, <2>2, <2>5, <2>6, SlicesUnchanged
<1>6. ASSUME NEW r \in Runtimes, ReclaimExecution(r) PROVE HInv'
  <2>1. Pool(r) \in Resources BY DEF Pool, Resources
  <2> QED BY <1>5, <1>6, <2>1 DEF ReclaimExecution, precompile_finished
<1>7. ASSUME NEW r \in Runtimes, ReapRuntime(r) PROVE HInv'
  <2>1. Runtime(r) \in Resources BY DEF Runtime, Resources
  <2> QED BY <1>5, <1>7, <2>1 DEF ReapRuntime, precompile_finished
<1>8. ASSUME NEW r \in Runtimes, NEW cost \in Costs, Precompile(r, cost) PROVE HInv'
  <2>1. /\ UNCHANGED <<sliceVars, reaperVars, mainVars>> /\ Free /\ Submit(r, cost)
        /\ main = "idle" /\ r \in live \ exited
    BY <1>8 DEF Precompile
  <2>2. UNCHANGED <<pending, reaped, existing, main, live, exited, owned>>
    BY <2>1 DEF reaperVars, mainVars
  <2>3. r \in owned BY <2>1 DEF RuntimesOK
  <2>4. cost \in Nat
    <3>1. Costs \subseteq 1 .. Limit /\ Limit \in Nat
      BY HostThreadsAssumption, HostResourcesAssumption
    <3> QED BY <3>1
  <2>5. TasksOK' BY <2>1, <2>2, <2>3, <2>4, SubmitsTask
  <2>6. LoopOK' BY <2>1, <2>2, FreeLoop, SlicesUnchanged DEF LoopOK
  <2> QED BY <2>1, <2>2, <2>5, <2>6, RuntimesUnchanged, SlicesUnchanged
<1>9. ASSUME NEW d \in mix.deadlines, IdleRound(d) PROVE HInv'
  <2>1. /\ UNCHANGED <<sliceVars, reaperVars, live, exited, owned, tasks, token, active>>
        /\ Free /\ SetNextDeadline(d) /\ main = "loop" /\ main' = "idle"
    BY <1>9 DEF IdleRound, SetNextDeadline
  <2>2. UNCHANGED <<pending, reaped, existing>> BY <2>1 DEF reaperVars
  <2>3. RuntimesOK' BY <2>1, <2>2, RuntimesUnchanged
  <2>4. LoopOK' BY <2>1, FreeLoop, SlicesUnchanged DEF LoopOK
  <2> QED BY <2>1, <2>3, <2>4, SlicesUnchanged, NotifyTasks
<1>10. CASE EndIdle \/ Stop
  <2>1. /\ UNCHANGED <<sliceVars, reaperVars, resourceVars, live, exited, owned>>
        /\ Free /\ main # "unwind" /\ main' # "retire"
    BY <1>10 DEF EndIdle, Stop
  <2>2. UNCHANGED <<pending, reaped, existing>> BY <2>1 DEF reaperVars
  <2>3. RuntimesOK' BY <2>1, <2>2, RuntimesUnchanged
  <2>4. LoopOK' BY <2>1, FreeLoop, SlicesUnchanged DEF LoopOK
  <2> QED BY <2>1, <2>3, <2>4, SlicesUnchanged, TasksUnchanged
<1> QED BY <1>1, <1>2, <1>3, <1>4, <1>6, <1>7, <1>8, <1>9, <1>10 DEF Round

LEMMA CallsStep ==
    ASSUME HInv, Calls, UNCHANGED mix
    PROVE  HInv'
<1> USE DEF HInv
<1>1. CASE Running /\ UNCHANGED <<reaperVars, resourceVars, mainVars>>
  <2>1. UNCHANGED <<pending, reaped, existing, main, live, exited, owned>>
    BY <1>1 DEF reaperVars, mainVars
  <2>2. SlicesOK' /\ (InRun' => InRun /\ slices' = slices) BY <1>1, RunningSlices
  <2>3. TasksOK' /\ UNCHANGED <<tasks, active>> BY <1>1, <2>1, TasksUnchanged
  <2>4. LoopOK' BY <2>1, <2>2, <2>3 DEF LoopOK
  <2> QED BY <1>1, <2>1, <2>2, <2>3, <2>4, RuntimesUnchanged
<1>2. CASE Finishing /\ UNCHANGED <<sliceVars, resourceVars, mainVars>>
  <2>1. UNCHANGED <<pending, reaped, existing, main, live, exited, owned>>
    BY <1>2 DEF Finishing, NotifyReaper, AwaitIdle, JoinReaper, mainVars
  <2>2. TasksOK' /\ UNCHANGED <<tasks, active>> BY <1>2, <2>1, TasksUnchanged
  <2>3. LoopOK' BY <1>2, <2>1, <2>2, SlicesUnchanged DEF LoopOK
  <2> QED BY <1>2, <2>1, <2>2, <2>3, RuntimesUnchanged, SlicesUnchanged
<1>3. CASE (WakeHelpers \/ NotifyHelpers \/ JoinHelpers)
           /\ UNCHANGED <<sliceVars, reaperVars, mainVars>>
  <2>1. UNCHANGED <<pending, reaped, existing, main, live, exited, owned>>
    BY <1>3 DEF reaperVars, mainVars
  <2>2. UNCHANGED <<tasks, token, active>>
    BY <1>3 DEF WakeHelpers, NotifyHelpers, JoinHelpers
  <2>3. TasksOK' BY <1>3, <2>1, <2>2, NotifyTasks
  <2>4. LoopOK' BY <1>3, <2>1, <2>2, SlicesUnchanged DEF LoopOK
  <2> QED BY <1>3, <2>1, <2>3, <2>4, RuntimesUnchanged, SlicesUnchanged
<1> QED BY <1>1, <1>2, <1>3 DEF Calls

LEMMA EndingStep ==
    ASSUME HInv, Ending, UNCHANGED mix
    PROVE  HInv'
<1> USE DEF HInv
<1>1. CASE DrainResources
  <2>1. /\ UNCHANGED <<sliceVars, reaperVars, live, exited, owned, tasks, token, active>>
        /\ main = "wait_idle" /\ WaitIdle /\ main' \in {"wait_idle", "retire"}
        /\ main' = "retire" => tasks' = <<>> /\ active' = 0
    BY <1>1 DEF DrainResources, WaitIdle
  <2>2. UNCHANGED <<pending, reaped, existing>> BY <2>1 DEF reaperVars
  <2>3. RuntimesOK' BY <2>1, <2>2, RuntimesUnchanged
  <2>4. ~InRun' BY <2>1, SlicesUnchanged DEF LoopOK
  <2>5. LoopOK' BY <2>1, <2>4 DEF LoopOK
  <2> QED BY <2>1, <2>3, <2>5, SlicesUnchanged, NotifyTasks
<1>2. ASSUME NEW r \in Runtimes, RetireRuntime(r) PROVE HInv'
  <2> DEFINE x == Remains(r)
  <2>1. /\ main = "retire" /\ Free /\ r \in live /\ Retire(x)
        /\ live' = live \ {r} /\ exited' = exited \ {r} /\ owned' = owned \ {r}
        /\ UNCHANGED <<sliceVars, resourceVars, main>>
    BY <1>2 DEF RetireRuntime
  <2>2. \/ x = Runtime(r) /\ r \notin owned /\ owned' = owned
        \/ x = Whole(r) /\ r \in owned
    BY <2>1 DEF Remains
  <2>3. x \in Resources BY DEF Remains, Whole, Runtime, Resources
  <2> HIDE DEF x
  <2>4. RuntimesOK' BY <2>1, <2>2, <2>3, RetiresRuntimes
  <2>5. tasks = <<>> /\ active = 0 /\ \A h \in Helpers : ~Works(h)
    <3>1. tasks = <<>> /\ active = 0 BY <2>1 DEF LoopOK
    <3>2. IsFiniteSet(WorkingHelpers) BY HostResourcesAssumption, FS_Subset DEF WorkingHelpers
    <3>3. WorkingHelpers = {} BY <3>1, <3>2, FS_EmptySet DEF TasksOK, WorkingHelpers
    <3> QED BY <3>1, <3>3 DEF WorkingHelpers
  <2>6. UNCHANGED <<tasks, helper, token, active, client>> BY <2>1 DEF resourceVars
  <2>7. TasksOK' BY <2>5, <2>6, LoopMoves DEF TasksOK
  <2>8. LoopOK' BY <2>1, <2>5, <2>6, FreeLoop, SlicesUnchanged DEF LoopOK
  <2> QED BY <2>1, <2>4, <2>7, <2>8, SlicesUnchanged
<1>3. CASE FinishReaper
  <2>1. /\ Free /\ main' = "unwind"
        /\ UNCHANGED <<sliceVars, resourceVars, live, exited, owned, pending, reaped, existing>>
    BY <1>3 DEF FinishReaper, Finish
  <2>2. RuntimesOK' BY <2>1, RuntimesUnchanged
  <2>3. LoopOK' BY <2>1, FreeLoop, SlicesUnchanged DEF LoopOK
  <2> QED BY <2>1, <2>2, <2>3, SlicesUnchanged, TasksUnchanged
<1>4. CASE DestroyResources
  <2>1. /\ main = "unwind" /\ StopResources
        /\ UNCHANGED <<sliceVars, reaperVars, mainVars, tasks, token, active>>
    BY <1>4 DEF DestroyResources, StopResources
  <2>2. UNCHANGED <<pending, reaped, existing, main, live, exited, owned>>
    BY <2>1 DEF reaperVars, mainVars
  <2>3. LoopOK' BY <2>1, <2>2, SlicesUnchanged DEF LoopOK
  <2> QED BY <2>1, <2>2, <2>3, RuntimesUnchanged, SlicesUnchanged, NotifyTasks
<1>5. CASE DestroyRuntimes
  <2>1. /\ main = "unwind" /\ main' = "unwind" /\ client = "gone"
        /\ UNCHANGED <<sliceVars, resourceVars>>
    BY <1>5 DEF DestroyRuntimes
  <2>2. RuntimesOK' BY <1>5, DestroysRuntimes
  <2>3. tasks = <<>> /\ \A h \in Helpers : ~Works(h) BY <2>1 DEF TasksOK, Works
  <2>4. UNCHANGED <<tasks, helper, token, active, client>> BY <2>1 DEF resourceVars
  <2>5. TasksOK' BY <2>3, <2>4, LoopMoves DEF TasksOK
  <2>6. LoopOK' BY <2>1, SlicesUnchanged DEF LoopOK
  <2> QED BY <2>1, <2>2, <2>5, <2>6, SlicesUnchanged
<1>6. CASE DestroyWorkers
  <2>1. /\ main = "unwind" /\ StopPool /\ UNCHANGED <<reaperVars, resourceVars, mainVars>>
    BY <1>6 DEF DestroyWorkers
  <2>2. UNCHANGED <<pending, reaped, existing, main, live, exited, owned>>
    BY <2>1 DEF reaperVars, mainVars
  <2>3. /\ ~InRun /\ ~InRun'
        /\ UNCHANGED <<slices, next_slice, remaining, worker, executed>>
    BY <2>1 DEF StopPool, InRun
  <2>4. UNCHANGED Uncompleted /\ \A w \in Workers : Executes(w)' <=> Executes(w)
    BY <2>3 DEF Uncompleted, Executes
  <2>5. SlicesOK' BY <2>3, <2>4 DEF SlicesOK
  <2>6. LoopOK' BY <2>1, <2>2, <2>3 DEF LoopOK
  <2> QED BY <2>1, <2>2, <2>5, <2>6, RuntimesUnchanged, TasksUnchanged
<1> QED BY <1>1, <1>2, <1>3, <1>4, <1>5, <1>6 DEF Ending

LEMMA BackgroundStep ==
    ASSUME HInv, Background, UNCHANGED mix
    PROVE  HInv'
<1> USE DEF HInv
<1>1. ASSUME NEW w \in Workers, Worker(w), UNCHANGED <<reaperVars, resourceVars, mainVars>>
      PROVE  HInv'
  <2>1. UNCHANGED <<pending, reaped, existing, main, live, exited, owned>>
    BY <1>1 DEF reaperVars, mainVars
  <2>2. slices' = slices BY <1>1 DEF Worker, WorkerChecks, WorkerCompletes
  <2>3. SlicesOK' /\ (InRun' <=> InRun)
    <3>1. CASE WorkerChecks(w)
      <4>1. runner' = runner BY <3>1 DEF WorkerChecks
      <4> QED BY <3>1, <4>1, ChecksSlices DEF InRun
    <3>2. CASE WorkerCompletes(w) BY <3>2, CompletesSlices
    <3> QED BY <1>1, <3>1, <3>2 DEF Worker
  <2>4. TasksOK' /\ UNCHANGED <<tasks, active>> BY <1>1, <2>1, TasksUnchanged
  <2>5. LoopOK' BY <2>1, <2>2, <2>3, <2>4 DEF LoopOK
  <2> QED BY <2>1, <2>3, <2>4, <2>5, RuntimesUnchanged
<1>2. CASE Reaper /\ UNCHANGED <<sliceVars, resourceVars, mainVars>>
  <2>1. UNCHANGED <<main, live, exited, owned>> /\ NextResource
    BY <1>2 DEF mainVars, Reaper, ReaperChecks, ReaperCompletes
  <2>2. TasksOK' /\ UNCHANGED <<tasks, active>> BY <1>2, <2>1, TasksUnchanged
  <2>3. LoopOK' BY <1>2, <2>1, <2>2, SlicesUnchanged DEF LoopOK
  <2> QED BY <1>2, <2>1, <2>2, <2>3, ReapsRuntimes, SlicesUnchanged
<1>3. ASSUME NEW h \in Helpers, Helper(h), UNCHANGED <<sliceVars, reaperVars, mainVars>>
      PROVE  HInv'
  <2>1. UNCHANGED <<pending, reaped, existing, main, live, exited, owned>>
    BY <1>3 DEF reaperVars, mainVars
  <2>2. TasksOK' /\ (tasks = <<>> /\ active = 0 => tasks' = <<>> /\ active' = 0)
    BY <1>3, <2>1, HelperTasks
  <2>3. LoopOK' BY <1>3, <2>1, <2>2, SlicesUnchanged DEF LoopOK
  <2> QED BY <1>3, <2>1, <2>2, <2>3, RuntimesUnchanged, SlicesUnchanged
<1>4. CASE (WindowEnds \/ DeadlineNears) /\ UNCHANGED <<sliceVars, reaperVars, mainVars>>
  <2>1. UNCHANGED <<pending, reaped, existing, main, live, exited, owned>>
    BY <1>4 DEF reaperVars, mainVars
  <2>2. UNCHANGED <<tasks, token, active>> BY <1>4 DEF WindowEnds, DeadlineNears
  <2>3. TasksOK' BY <1>4, <2>1, <2>2, NotifyTasks
  <2>4. LoopOK' BY <1>4, <2>1, <2>2, SlicesUnchanged DEF LoopOK
  <2> QED BY <1>4, <2>1, <2>3, <2>4, RuntimesUnchanged, SlicesUnchanged
<1> QED BY <1>1, <1>2, <1>3, <1>4 DEF Background

LEMMA InitHolds == Init => HInv
<1> SUFFICES ASSUME Init PROVE HInv OBVIOUS
<1> USE DEF Init
<1>1. SlicesOK
  <2>1. /\ slices = <<>> /\ executed = <<>> /\ remaining = 0 /\ next_slice = 0 /\ runner = "out"
        /\ worker = [w \in Workers |-> At(IF w \in mix.workers THEN "check" ELSE "exited")]
    BY DEF SlicesInit
  <2>2. worker \in [Workers -> Places] /\ \A w \in Workers : ~Executes(w)
    BY <2>1 DEF At, Places, Executes
  <2>3. Uncompleted = {} /\ Cardinality({}) = 0 BY <2>1, FS_EmptySet DEF Uncompleted
  <2> QED BY <2>1, <2>2, <2>3, EmptySeq DEF SlicesOK, InRun
<1>2. RuntimesOK
  <2>1. /\ pending = <<>> /\ live = {InitialRuntime} /\ exited = {} /\ owned = {InitialRuntime}
        /\ existing = {Pool(InitialRuntime), Runtime(InitialRuntime)} /\ reaped = NoResource
    BY DEF ReaperInit
  <2>2. InitialRuntime \in Runtimes BY HostThreadsAssumption
  <2>3. Held = existing BY <2>1 DEF Held
  <2>4. \A r \in Runtimes : Pool(r) \in existing \/ reaped = Pool(r) => r = InitialRuntime
    BY <2>1, Distinct
  <2> QED BY <2>1, <2>2, <2>3, <2>4, EmptySeq DEF RuntimesOK
<1>3. TasksOK
  <2>1. /\ tasks = <<>> /\ token = [r \in Runtimes |-> "absent"] /\ active = 0 /\ client = "out"
        /\ helper = [h \in Helpers |-> Idle(IF h \in mix.helpers THEN "check" ELSE "exited")]
    BY DEF ResourcesInit
  <2>2. /\ helper \in [Helpers -> Hands] /\ \A h \in Helpers : ~Works(h)
    BY <2>1 DEF Idle, Hands, HelperPlaces, Works
  <2>3. WorkingHelpers = {} /\ Cardinality({}) = 0 BY <2>2, FS_EmptySet DEF WorkingHelpers
  <2>4. token \in [Runtimes -> {"absent", "unfinished", "finished"}] BY <2>1
  <2>5. /\ tasks \in Seq(Tasks) /\ DOMAIN tasks = {} /\ client # "gone" BY <2>1, EmptySeq
  <2>6. active = Cardinality({h \in Helpers : Works(h)}) BY <2>1, <2>3 DEF WorkingHelpers
  <2> HIDE DEF Init
  <2> QED BY <2>1, <2>2, <2>4, <2>5, <2>6 DEF TasksOK, Hands, HelperPlaces
<1>4. LoopOK BY DEF LoopOK, InRun, SlicesInit
<1> QED BY <1>1, <1>2, <1>3, <1>4 DEF HInv

LEMMA HInvStep == ASSUME HInv, [Next]_vars PROVE HInv'
<1>1. CASE Next BY <1>1, RoundStep, CallsStep, EndingStep, BackgroundStep DEF Next
<1>2. CASE UNCHANGED vars
  <2>1. /\ UNCHANGED <<mix, sliceVars, resourceVars, main, live, exited, owned>>
        /\ UNCHANGED <<pending, reaped, existing, tasks, active>>
    BY <1>2 DEF vars, reaperVars, mainVars, resourceVars
  <2> QED BY <2>1, SlicesUnchanged, RuntimesUnchanged, TasksUnchanged DEF HInv, LoopOK
<1> QED BY <1>1, <1>2

-----------------------------------------------------------------------------
(***************************************************************************)
(* The theorems.                                                           *)
(***************************************************************************)
\* The bookkeeping of the slice workers, of the reaper and of the controller agrees
\* with what the guest loop holds: every slice has one worker, every part of a runtime
\* one owner, and every unfinished compilation a runtime that is still there.
THEOREM ThreadsAgree == Spec => []HInv
<1> QED BY InitHolds, HInvStep, PTL DEF Spec

\* GuestSliceWorkerPool::run returns when every slice of the batch has been executed
\* once; no slice is with two workers, and a worker that slept through a batch never
\* touches the vector of another.
THEOREM SlicesOnce == Spec => []SlicesRunOnce
<1>1. HInv => SlicesRunOnce
  <2> SUFFICES ASSUME SlicesOK PROVE SlicesRunOnce BY DEF HInv
  <2>1. \A i \in DOMAIN executed : executed[i] <= 1
    <3>1. \A i \in DOMAIN executed : executed[i] \in {0, 1} BY DEF SlicesOK
    <3> QED BY <3>1
  <2>2. ASSUME NEW w \in Workers, worker[w].at = "execute"
        PROVE  /\ runner \in {"notify", "check", "asleep"}
               /\ worker[w].slice \in DOMAIN slices
               /\ executed[worker[w].slice] = 0
               /\ \A v \in Workers \ {w} :
                     worker[v].at = "execute" => worker[v].slice # worker[w].slice
    <3>1. Executes(w) BY <2>2 DEF Executes
    <3>2. InRun /\ worker[w].slice \in DOMAIN slices BY <3>1, ExecutesInRun
    <3>3. executed[worker[w].slice] = 0 BY <3>1 DEF SlicesOK, Uncompleted
    <3>4. \A v \in Workers \ {w} : Executes(v) => worker[v].slice # worker[w].slice
      BY <3>1 DEF SlicesOK
    <3> QED BY <3>2, <3>3, <3>4 DEF InRun, Executes
  <2>3. ASSUME runner \notin {"notify", "check", "asleep"}
        PROVE  remaining = 0 /\ \A i \in DOMAIN executed : executed[i] = 1
    <3>1. remaining = 0 BY <2>3 DEF SlicesOK, InRun
    <3>2. IsFiniteSet(Uncompleted) BY FS_Interval, FS_Subset DEF SlicesOK, Uncompleted
    <3>3. Uncompleted = {} BY <3>1, <3>2, FS_EmptySet DEF SlicesOK
    <3>4. \A i \in DOMAIN executed : executed[i] \in {0, 1} BY DEF SlicesOK
    <3> QED BY <3>1, <3>3, <3>4 DEF Uncompleted
  <2> QED BY <2>1, <2>2, <2>3 DEF SlicesRunOnce
<1> QED BY <1>1, ThreadsAgree, PTL

\* What a slice or a compilation uses has not been destroyed, although both hold plain
\* pointers: the loop waits for the batch, keeps what has an unfinished token, and hands
\* a pool to the reaper in front of its runtime.
THEOREM NothingDestroyedUsed == Spec => []NothingUsedAfterDestruction
<1>1. HInv => NothingUsedAfterDestruction
  <2> SUFFICES ASSUME HInv PROVE NothingUsedAfterDestruction OBVIOUS
  <2> USE DEF HInv
  <2>0. \A r \in owned : Pool(r) \in existing /\ Runtime(r) \in existing
    <3>1. owned \subseteq live /\ Held \subseteq existing BY DEF RuntimesOK
    <3> QED BY <3>1 DEF Held
  <2>1. ASSUME NEW w \in Workers, worker[w].at = "execute"
        PROVE  {Pool(slices[worker[w].slice]), Runtime(slices[worker[w].slice])} \subseteq existing
    <3>1. InRun /\ worker[w].slice \in DOMAIN slices BY <2>1, ExecutesInRun DEF Executes
    <3>2. slices[worker[w].slice] \in live \ exited BY <3>1 DEF LoopOK
    <3>3. slices[worker[w].slice] \in owned BY <3>2 DEF RuntimesOK
    <3> QED BY <2>0, <3>3
  <2>2. ASSUME NEW h \in Helpers, helper[h].at = "compile"
        PROVE  {Pool(helper[h].task.runtime), Runtime(helper[h].task.runtime)} \subseteq existing
    <3>1. helper[h].task.runtime \in owned BY <2>2 DEF TasksOK, Works, Needed
    <3> QED BY <2>0, <3>1
  <2> QED BY <2>1, <2>2 DEF NothingUsedAfterDestruction, RuntimesOK
<1> QED BY <1>1, ThreadsAgree, PTL

\* Every slice is executed once, and no thread works on what another one destroys.
THEOREM HostWorkSafe == Spec => []WorkIsSafe
BY SlicesOnce, NothingDestroyedUsed, PTL DEF WorkIsSafe
=============================================================================
