------------------------ MODULE MachSemaphoreProofs ------------------------
(***************************************************************************)
(* Theorems about MachSemaphore, for any number of tasks, threads and      *)
(* semaphores and any mix of clients.                                      *)
(***************************************************************************)
EXTENDS MachSemaphore, FiniteSetTheorems, SequenceTheorems, TLAPS

-----------------------------------------------------------------------------
(***************************************************************************)
(* Queues of threads.                                                      *)
(***************************************************************************)

Queue(q, members) == q \in Seq(Threads) /\ Range(q) = members

LEMMA EmptyQueue == Queue(<< >>, {}) /\ IsInjective(<< >>)
BY DEF Queue, Range, IsInjective

LEMMA AppendQueue ==
    ASSUME NEW q \in Seq(Threads), NEW t \in Threads
    PROVE  /\ Queue(Append(q, t), Range(q) \cup {t})
           /\ IsInjective(q) /\ t \notin Range(q) => IsInjective(Append(q, t))
BY AppendList DEF Queue

LEMMA TailQueue ==
    ASSUME NEW q \in Seq(Threads), q # << >>
    PROVE  /\ Tail(q) \in Seq(Threads) /\ Range(Tail(q)) \subseteq Range(q)
           /\ Head(q) \in Range(q)
           /\ IsInjective(q) => /\ IsInjective(Tail(q))
                                /\ Range(Tail(q)) = Range(q) \ {Head(q)}
<1> DEFINE a == Tail(q)
<1>1. /\ a \in Seq(Threads) /\ Len(q) \in Nat \ {0}
      /\ DOMAIN a = 1 .. Len(q) - 1 /\ DOMAIN q = 1 .. Len(q)
      /\ Head(q) = q[1] /\ \A i \in 1 .. Len(q) - 1 : a[i] = q[i + 1]
  OBVIOUS
<1>2. \A i \in DOMAIN a : i + 1 \in DOMAIN q /\ a[i] = q[i + 1] BY <1>1
<1>3. Head(q) \in Range(q) BY <1>1 DEF Range
<1> HIDE DEF a
<1>4. Range(a) \subseteq Range(q) BY <1>2 DEF Range
<1>5. ASSUME IsInjective(q) PROVE IsInjective(a) /\ Range(a) = Range(q) \ {Head(q)}
  <2>1. \A k, l \in DOMAIN q : q[k] = q[l] => k = l BY <1>5 DEF IsInjective
  <2>2. IsInjective(a)
    <3> SUFFICES ASSUME NEW i \in DOMAIN a, NEW j \in DOMAIN a, a[i] = a[j] PROVE i = j
      BY DEF IsInjective
    <3>1. i + 1 = j + 1 BY <1>2, <2>1
    <3> QED BY <1>1, <3>1
  <2>3. Head(q) \notin Range(a)
    <3> SUFFICES ASSUME NEW i \in DOMAIN a, a[i] = Head(q) PROVE FALSE BY DEF Range
    <3>1. i + 1 = 1 /\ i \in 1 .. Len(q) - 1 BY <1>1, <1>2, <2>1
    <3> QED BY <1>1, <3>1
  <2>4. ASSUME NEW i \in DOMAIN q, q[i] # Head(q) PROVE q[i] \in Range(a)
    <3>1. i # 1 /\ i \in 1 .. Len(q) BY <1>1, <2>4
    <3>2. i - 1 \in DOMAIN a /\ a[i - 1] = q[i] BY <1>1, <3>1
    <3> QED BY <3>2 DEF Range
  <2>5. Range(q) \ {Head(q)} \subseteq Range(a) BY <2>4 DEF Range
  <2> QED BY <1>4, <2>2, <2>3, <2>5
<1> QED BY <1>1, <1>3, <1>4, <1>5 DEF a

LEMMA RemoveAtQueue ==
    ASSUME NEW q \in Seq(Threads), NEW k \in DOMAIN q
    PROVE  /\ RemoveAt(q, k) \in Seq(Threads) /\ Range(RemoveAt(q, k)) \subseteq Range(q)
           /\ IsInjective(q) => /\ IsInjective(RemoveAt(q, k))
                                /\ Range(RemoveAt(q, k)) = Range(q) \ {q[k]}
<1> DEFINE a == RemoveAt(q, k)
<1>1. /\ a \in Seq(Threads) /\ Len(q) \in Nat /\ k \in 1 .. Len(q)
      /\ DOMAIN a = 1 .. Len(q) - 1 /\ DOMAIN q = 1 .. Len(q)
      /\ \A i \in 1 .. Len(q) - 1 : a[i] = IF i < k THEN q[i] ELSE q[i + 1]
  <2>1. k \in 1 .. Len(q) /\ DOMAIN q = 1 .. Len(q) /\ Len(q) \in Nat OBVIOUS
  <2> DEFINE front == SubSeq(q, 1, k - 1)
             back  == SubSeq(q, k + 1, Len(q))
  <2>2. front \in Seq(Threads) /\ Len(front) = k - 1 /\ \A i \in 1 .. k - 1 : front[i] = q[i]
    BY <2>1
  <2>3. back \in Seq(Threads) /\ Len(back) = Len(q) - k
        /\ \A i \in 1 .. Len(q) - k : back[i] = q[i + k]
    BY <2>1
  <2> HIDE DEF front, back
  <2>4. a = front \o back BY DEF RemoveAt, front, back
  <2> HIDE DEF a
  <2>5. a \in Seq(Threads) /\ Len(a) = Len(q) - 1
    <3>1. front \o back \in Seq(Threads) /\ Len(front \o back) = Len(front) + Len(back)
      BY <2>2, <2>3, ConcatProperties
    <3> QED BY <2>1, <2>2, <2>3, <2>4, <3>1
  <2>6. ASSUME NEW i \in 1 .. Len(q) - 1 PROVE a[i] = IF i < k THEN q[i] ELSE q[i + 1]
    <3>1. CASE i < k BY <2>1, <2>2, <2>3, <2>4, <3>1
    <3>2. CASE i >= k
      <4>1. i - (k - 1) \in 1 .. Len(q) - k BY <2>1, <3>2
      <4>2. a[i] = back[i - (k - 1)] BY <2>1, <2>2, <2>3, <2>4, <3>2, <4>1
      <4>3. i - (k - 1) + k = i + 1 BY <2>1
      <4> QED BY <2>1, <2>3, <3>2, <4>1, <4>2, <4>3
    <3> QED BY <2>1, <3>1, <3>2
  <2> QED BY <2>1, <2>5, <2>6
<1> HIDE DEF a
<1> DEFINE At(i) == IF i < k THEN i ELSE i + 1
<1>2. \A i \in DOMAIN a : At(i) \in DOMAIN q /\ At(i) # k /\ a[i] = q[At(i)] BY <1>1
<1>3. \A i, j \in DOMAIN a : At(i) = At(j) => i = j BY <1>1
<1>4. Range(a) \subseteq Range(q)
  <2> HIDE DEF At
  <2> QED BY <1>2 DEF Range
<1>5. ASSUME IsInjective(q) PROVE IsInjective(a) /\ Range(a) = Range(q) \ {q[k]}
  <2>1. \A m, l \in DOMAIN q : q[m] = q[l] => m = l BY <1>5 DEF IsInjective
  <2>2. IsInjective(a)
    <3> HIDE DEF At
    <3> QED BY <1>2, <1>3, <2>1 DEF IsInjective
  <2>3. q[k] \notin Range(a)
    <3> HIDE DEF At
    <3> QED BY <1>2, <2>1 DEF Range
  <2>4. ASSUME NEW i \in DOMAIN q, q[i] # q[k] PROVE q[i] \in Range(a)
    <3>1. i # k /\ i \in 1 .. Len(q) BY <1>1, <2>4
    <3>2. CASE i < k
      <4>1. i \in DOMAIN a /\ a[i] = q[i] BY <1>1, <3>1, <3>2
      <4> QED BY <4>1 DEF Range
    <3>3. CASE i > k
      <4>1. i - 1 \in DOMAIN a /\ a[i - 1] = q[i] BY <1>1, <3>1, <3>3
      <4> QED BY <4>1 DEF Range
    <3> QED BY <1>1, <3>1, <3>2, <3>3
  <2>5. Range(q) \ {q[k]} \subseteq Range(a) BY <2>4 DEF Range
  <2> QED BY <1>4, <2>2, <2>3, <2>5
<1> QED BY <1>1, <1>4, <1>5 DEF a

\* Erasing threads leaves the others, each as often as before.
LEMMA ErasedQueue ==
    ASSUME NEW q \in Seq(Threads), NEW gone
    PROVE  /\ Queue(Erased(q, gone), Range(q) \ gone)
           /\ IsInjective(q) => IsInjective(Erased(q, gone))
BY ErasedList DEF Queue

LEMMA ErasedNothing ==
    ASSUME NEW gone PROVE Erased(<< >>, gone) = << >>
<1>1. << >> \in Seq(Threads) /\ Range(<< >>) = {} BY DEF Range
<1>2. Queue(Erased(<< >>, gone), {}) BY <1>1, ErasedQueue
<1> DEFINE e == Erased(<< >>, gone)
<1>3. e \in Seq(Threads) /\ Range(e) = {} BY <1>2 DEF Queue
<1> HIDE DEF e
<1>4. Len(e) = 0
  <2>1. Len(e) \in Nat /\ DOMAIN e = 1 .. Len(e) BY <1>3
  <2>2. ASSUME Len(e) # 0 PROVE FALSE
    <3>1. 1 \in DOMAIN e BY <2>1, <2>2
    <3> QED BY <1>3, <3>1 DEF Range
  <2> QED BY <2>2
<1>5. e = << >> BY <1>3, <1>4, EmptySeq
<1> QED BY <1>5 DEF e

-----------------------------------------------------------------------------
(***************************************************************************)
(* Types, and the counts of the semaphores.                                *)
(***************************************************************************)
SemaphoreRecords(owners) ==
    {r \in [count : 0 .. MaxCount, owner : owners, waiters : Seq(Threads)] :
        r.count > 0 => r.waiters = << >>}

Sources == [Threads -> 0 .. MaxSemaphores]

\* What signals change, before Apply.
Kernels == [semaphores : [DOMAIN semaphores -> SemaphoreRecords(alive)],
            wakeups : SUBSET Threads, source : Sources]

\* TypeOK with what it rests on: a thread that is there belongs to a task that
\* is alive. NoWaitBesidePrepost is part of SemaphoreRecords.
TypeInv ==
    /\ mix \in Mixes
    /\ created \in 0 .. MaxSemaphores
    /\ DOMAIN semaphores \subseteq 1 .. created
    /\ semaphores \in [DOMAIN semaphores -> SemaphoreRecords(alive)]
    /\ wakeups \subseteq Threads /\ terminations \subseteq Threads
    /\ source \in Sources
    /\ DOMAIN pending \subseteq Threads
    /\ pending \in [DOMAIN pending -> [semaphore : 1 .. created, deadline : Deadlines]]
    /\ threads \in [Threads -> {"absent", "running", "waiting"}]
    /\ \A t \in Threads : threads[t] # "absent" => t[1] \in alive
    /\ rights \subseteq alive \X DOMAIN semaphores
    /\ alive \subseteq Tasks

LEMMA Numbers ==
    ASSUME TypeInv
    PROVE  /\ created \in Nat /\ created <= MaxSemaphores /\ MaxSemaphores \in Nat
           /\ DOMAIN semaphores \subseteq 1 .. created
           /\ DOMAIN semaphores \subseteq Objects
           /\ Objects \subseteq 0 .. MaxSemaphores
           /\ NoObject \in 0 .. MaxSemaphores /\ NoObject \notin DOMAIN semaphores
           /\ OtherPort \notin DOMAIN semaphores
BY SemaphoreAssumption DEF TypeInv, Objects, NoObject, OtherPort

LEMMA NowKernel == ASSUME TypeInv PROVE Now \in Kernels
BY DEF TypeInv, Now, Kernels

\* A change of one semaphore that posts the wakeups of some threads.
Changes(k, n, s, r, woken) ==
    /\ n.semaphores = [x \in DOMAIN k.semaphores |-> IF x = s THEN r ELSE k.semaphores[x]]
    /\ n.wakeups = k.wakeups \cup woken
    /\ n.source = [t \in Threads |-> IF t \in woken THEN s ELSE k.source[t]]

\* What a signal does to the semaphore, and whom it wakes.
Signalled(r, all, prepost) ==
    IF all THEN [r EXCEPT !.waiters = << >>, !.count = 0]
    ELSE IF r.waiters # << >> THEN [r EXCEPT !.waiters = Tail(@)]
    ELSE IF prepost THEN [r EXCEPT !.count = @ + 1]
    ELSE r

WokenBy(r, all) ==
    IF all THEN Range(r.waiters) ELSE IF r.waiters # << >> THEN {Head(r.waiters)} ELSE {}

LEMMA SignalChanges ==
    ASSUME NEW k \in Kernels, NEW s \in DOMAIN semaphores, NEW all, NEW prepost
    PROVE  Changes(k, signal_semaphore(k, s, all, prepost), s,
                   Signalled(k.semaphores[s], all, prepost), WokenBy(k.semaphores[s], all))
<1> DEFINE r == k.semaphores[s]
<1>1. /\ k \in [semaphores : [DOMAIN semaphores -> SemaphoreRecords(alive)],
                wakeups : SUBSET Threads, source : Sources]
      /\ s \in DOMAIN k.semaphores
      /\ r \in [count : 0 .. MaxCount, owner : alive, waiters : Seq(Threads)]
      /\ k.source = [t \in Threads |-> k.source[t]]
  BY DEF Kernels, SemaphoreRecords, Sources
<1>2. CASE all
  <2>1. signal_semaphore(k, s, all, prepost) =
            [Wake(k, s, Range(r.waiters)) EXCEPT
                !.semaphores[s].waiters = << >>, !.semaphores[s].count = 0]
    BY <1>2 DEF signal_semaphore
  <2>2. WokenBy(r, all) = Range(r.waiters)
        /\ Signalled(r, all, prepost) = [r EXCEPT !.waiters = << >>, !.count = 0]
    BY <1>2 DEF WokenBy, Signalled
  <2> QED BY <1>1, <2>1, <2>2 DEF Changes, Wake
<1>3. CASE ~all /\ r.waiters # << >>
  <2>1. signal_semaphore(k, s, all, prepost) =
            [Wake(k, s, {Head(r.waiters)}) EXCEPT !.semaphores[s].waiters = Tail(r.waiters)]
    BY <1>3 DEF signal_semaphore
  <2>2. WokenBy(r, all) = {Head(r.waiters)}
        /\ Signalled(r, all, prepost) = [r EXCEPT !.waiters = Tail(r.waiters)]
    BY <1>3 DEF WokenBy, Signalled
  <2> DEFINE n == [Wake(k, s, {Head(r.waiters)}) EXCEPT !.semaphores[s].waiters = Tail(r.waiters)]
  <2>3. n.semaphores = [x \in DOMAIN k.semaphores |->
                           IF x = s THEN [r EXCEPT !.waiters = Tail(r.waiters)] ELSE k.semaphores[x]]
    BY <1>1 DEF Wake
  <2>4. n.wakeups = k.wakeups \cup {Head(r.waiters)} BY <1>1 DEF Wake
  <2>5. n.source = [t \in Threads |-> IF t \in {Head(r.waiters)} THEN s ELSE k.source[t]]
    BY <1>1 DEF Wake
  <2> HIDE DEF n, r
  <2> QED BY <2>1, <2>2, <2>3, <2>4, <2>5 DEF Changes, n, r
<1>4. CASE ~all /\ r.waiters = << >>
  <2>1. WokenBy(r, all) = {} BY <1>4 DEF WokenBy
  <2>2. CASE prepost
    <3>1. signal_semaphore(k, s, all, prepost) = [k EXCEPT !.semaphores[s].count = @ + 1]
      BY <1>4, <2>2 DEF signal_semaphore
    <3>2. Signalled(r, all, prepost) = [r EXCEPT !.count = @ + 1] BY <1>4, <2>2 DEF Signalled
    <3> QED BY <1>1, <2>1, <3>1, <3>2 DEF Changes
  <2>3. CASE ~prepost
    <3>1. signal_semaphore(k, s, all, prepost) = k BY <1>4, <2>3 DEF signal_semaphore
    <3>2. Signalled(r, all, prepost) = r BY <1>4, <2>3 DEF Signalled
    <3> QED BY <1>1, <2>1, <3>1, <3>2 DEF Changes
  <2> QED BY <2>2, <2>3
<1> QED BY <1>2, <1>3, <1>4

LEMMA SignalledRecord ==
    ASSUME NEW owners, NEW r \in SemaphoreRecords(owners), NEW all \in BOOLEAN, NEW prepost \in BOOLEAN,
           prepost /\ ~all /\ r.waiters = << >> => r.count < MaxCount
    PROVE  /\ Signalled(r, all, prepost) \in SemaphoreRecords(owners)
           /\ WokenBy(r, all) \subseteq Range(r.waiters)
           /\ WokenBy(r, all) \subseteq Threads
<1>1. r.waiters \in Seq(Threads) /\ r.count \in 0 .. MaxCount
      /\ r \in [count : 0 .. MaxCount, owner : owners, waiters : Seq(Threads)]
      /\ (r.count > 0 => r.waiters = << >>)
  BY DEF SemaphoreRecords
<1>2. Range(r.waiters) \subseteq Threads BY <1>1 DEF Range
<1>3. r.waiters # << >> => Tail(r.waiters) \in Seq(Threads) /\ Head(r.waiters) \in Range(r.waiters)
  BY <1>1, TailQueue
<1>4. WokenBy(r, all) \subseteq Range(r.waiters) BY <1>3 DEF WokenBy
<1>5. Signalled(r, all, prepost) \in SemaphoreRecords(owners)
  <2>1. CASE all
    <3>1. Signalled(r, all, prepost) = [r EXCEPT !.waiters = << >>, !.count = 0]
      BY <2>1 DEF Signalled
    <3>2. << >> \in Seq(Threads) /\ 0 \in 0 .. MaxCount BY SemaphoreAssumption
    <3> QED BY <1>1, <3>1, <3>2 DEF SemaphoreRecords
  <2>2. CASE ~all /\ r.waiters # << >>
    BY <1>1, <1>3, <2>2, SemaphoreAssumption DEF Signalled, SemaphoreRecords
  <2>3. CASE ~all /\ r.waiters = << >>
    BY <1>1, <2>3, SemaphoreAssumption DEF Signalled, SemaphoreRecords
  <2> QED BY <2>1, <2>2, <2>3
<1> QED BY <1>2, <1>4, <1>5

\* A change leaves the kernel well-typed.
LEMMA ChangedKernel ==
    ASSUME NEW k \in Kernels, NEW n, NEW s \in DOMAIN semaphores, NEW r \in SemaphoreRecords(alive),
           NEW woken \in SUBSET Threads, Changes(k, n, s, r, woken), s \in 0 .. MaxSemaphores
    PROVE  /\ n.semaphores \in [DOMAIN semaphores -> SemaphoreRecords(alive)]
           /\ n.wakeups \subseteq Threads /\ n.source \in Sources
<1>1. k.semaphores \in [DOMAIN semaphores -> SemaphoreRecords(alive)]
      /\ k.wakeups \subseteq Threads /\ k.source \in Sources
  BY DEF Kernels
<1> QED BY <1>1 DEF Changes, Sources

Pendings == [semaphore : 1 .. created, deadline : Deadlines]
ThreadStates == {"absent", "running", "waiting"}

\* The steps that create and destroy nothing.
LEMMA KernelStepType ==
    ASSUME TypeInv, UNCHANGED <<mix, rights, alive, created>>,
           semaphores' \in [DOMAIN semaphores -> SemaphoreRecords(alive)],
           wakeups' \subseteq Threads, terminations' \subseteq Threads, source' \in Sources,
           DOMAIN pending' \subseteq Threads, pending' \in [DOMAIN pending' -> Pendings],
           threads' \in [Threads -> ThreadStates],
           \A t \in Threads : threads'[t] # "absent" => threads[t] # "absent" \/ t[1] \in alive
    PROVE  TypeInv'
<1>1. DOMAIN semaphores' = DOMAIN semaphores OBVIOUS
<1>2. SemaphoreRecords(alive)' = SemaphoreRecords(alive) BY DEF SemaphoreRecords
<1>3. semaphores' \in [DOMAIN semaphores' -> SemaphoreRecords(alive)'] BY <1>1, <1>2
<1>4. pending' \in [DOMAIN pending' -> [semaphore : 1 .. created', deadline : Deadlines]]
  BY DEF Pendings
<1>5. threads' \in [Threads -> {"absent", "running", "waiting"}] BY DEF ThreadStates
<1>6. \A t \in Threads : threads'[t] # "absent" => t[1] \in alive' BY DEF TypeInv
<1>7. rights' \subseteq alive' \X DOMAIN semaphores' BY <1>1 DEF TypeInv
<1>8. mix' \in Mixes /\ created' \in 0 .. MaxSemaphores /\ DOMAIN semaphores' \subseteq 1 .. created'
      /\ alive' \subseteq Tasks
  BY <1>1 DEF TypeInv
<1>9. source' \in Sources BY DEF Sources
<1> QED BY <1>3, <1>4, <1>5, <1>6, <1>7, <1>8, <1>9 DEF TypeInv, Sources

LEMMA SignalType ==
    ASSUME TypeInv, UNCHANGED mix, NEW t \in Threads, NEW s \in Objects, NEW all \in BOOLEAN,
           semaphore_signal(t, s, all)
    PROVE  TypeInv'
<1> DEFINE r == semaphores[s]
           n == signal_semaphore(Now, s, all, ~all)
<1>1. s \in DOMAIN semaphores /\ r \in SemaphoreRecords(alive) /\ s \in 0 .. MaxSemaphores
      /\ Now.semaphores[s] = r
  BY Numbers DEF semaphore_signal, TypeInv, Now
<1>2. Changes(Now, n, s, Signalled(r, all, ~all), WokenBy(r, all))
  BY <1>1, NowKernel, SignalChanges
<1>3. ~all /\ r.waiters = << >> => r.count < MaxCount BY DEF semaphore_signal
<1>4. Signalled(r, all, ~all) \in SemaphoreRecords(alive) /\ WokenBy(r, all) \in SUBSET Threads
  BY <1>1, <1>3, SignalledRecord
<1>5. /\ n.semaphores \in [DOMAIN semaphores -> SemaphoreRecords(alive)]
      /\ n.wakeups \subseteq Threads /\ n.source \in Sources
  BY <1>1, <1>2, <1>4, NowKernel, ChangedKernel
<1>6. semaphores' = n.semaphores /\ wakeups' = n.wakeups /\ source' = n.source
      /\ UNCHANGED <<terminations, pending, threads, rights, alive, created>>
  BY DEF semaphore_signal, Apply
<1> HIDE DEF n
<1> QED BY <1>5, <1>6, KernelStepType DEF TypeInv, Pendings, ThreadStates

LEMMA SignalThreadChange ==
    ASSUME TypeInv, NEW t \in Threads, NEW s \in Objects, NEW target \in Threads,
           signal_semaphore_thread(t, s, target)
    PROVE  \E i \in DOMAIN semaphores[s].waiters :
              /\ s \in DOMAIN semaphores /\ semaphores[s].waiters[i] = target
              /\ semaphores' = [x \in DOMAIN semaphores |->
                     IF x = s THEN [semaphores[s] EXCEPT !.waiters = RemoveAt(semaphores[s].waiters, i)]
                              ELSE semaphores[x]]
              /\ wakeups' = wakeups \cup {target}
              /\ source' = [u \in Threads |-> IF u = target THEN s ELSE source[u]]
<1> DEFINE queue == semaphores[s].waiters
           i == CHOOSE j \in DOMAIN queue :
                    queue[j] = target /\ \A h \in 1 .. j - 1 : queue[h] # target
<1>1. s \in DOMAIN semaphores /\ target \in Range(queue)
      /\ queue \in Seq(Threads)
      /\ semaphores[s] \in [count : 0 .. MaxCount, owner : alive, waiters : Seq(Threads)]
  BY DEF signal_semaphore_thread, TypeInv, SemaphoreRecords
<1>2. i \in DOMAIN queue /\ queue[i] = target
  <2> DEFINE At == {j \in DOMAIN queue : queue[j] = target}
  <2>1. At # {} /\ At \in SUBSET Nat BY <1>1 DEF Range
  <2>2. PICK m \in At : \A j \in At : m <= j
    <3> HIDE DEF At
    <3> QED BY <2>1, LeastNatural
  <2>3. \A h \in 1 .. m - 1 : queue[h] # target
    <3> SUFFICES ASSUME NEW h \in 1 .. m - 1, queue[h] = target PROVE FALSE OBVIOUS
    <3>1. m \in 1 .. Len(queue) /\ Len(queue) \in Nat BY <1>1
    <3>2. h \in At /\ h < m BY <1>1, <3>1
    <3> QED BY <2>2, <3>1, <3>2
  <2> QED BY <2>2, <2>3
<1> DEFINE n == [Wake(Now, s, {target}) EXCEPT !.semaphores[s].waiters = RemoveAt(queue, i)]
<1>3. Apply(n) BY DEF signal_semaphore_thread
<1>4. Now \in [semaphores : {semaphores}, wakeups : {wakeups}, source : {source}] BY DEF Now
<1>5. semaphores' = n.semaphores /\ wakeups' = n.wakeups /\ source' = n.source
  BY <1>3 DEF Apply
<1> HIDE DEF i, queue
<1>6. n.semaphores = [x \in DOMAIN semaphores |->
         IF x = s THEN [semaphores[s] EXCEPT !.waiters = RemoveAt(queue, i)] ELSE semaphores[x]]
  <2>1. semaphores = [x \in DOMAIN semaphores |-> semaphores[x]] BY DEF TypeInv
  <2> QED BY <1>1, <1>4, <2>1 DEF Wake
<1>7. n.wakeups = wakeups \cup {target} BY <1>4 DEF Wake
<1>8. n.source = [u \in Threads |-> IF u = target THEN s ELSE source[u]] BY <1>4 DEF Wake
<1> HIDE DEF n
<1> QED BY <1>1, <1>2, <1>5, <1>6, <1>7, <1>8 DEF queue

LEMMA SignalThreadType ==
    ASSUME TypeInv, UNCHANGED mix, NEW t \in Threads, NEW s \in Objects, NEW target \in Threads,
           signal_semaphore_thread(t, s, target)
    PROVE  TypeInv'
<1> DEFINE r == semaphores[s]
<1>1. PICK i \in DOMAIN r.waiters :
          /\ s \in DOMAIN semaphores /\ r.waiters[i] = target
          /\ semaphores' = [x \in DOMAIN semaphores |->
                 IF x = s THEN [r EXCEPT !.waiters = RemoveAt(r.waiters, i)] ELSE semaphores[x]]
          /\ wakeups' = wakeups \cup {target}
          /\ source' = [u \in Threads |-> IF u = target THEN s ELSE source[u]]
  BY SignalThreadChange
<1>2. r \in SemaphoreRecords(alive) /\ s \in 0 .. MaxSemaphores BY <1>1, Numbers DEF TypeInv
<1>3. r.waiters \in Seq(Threads) BY <1>2 DEF SemaphoreRecords
<1>4. RemoveAt(r.waiters, i) \in Seq(Threads) /\ r.waiters # << >> BY <1>3, RemoveAtQueue
<1>5. [r EXCEPT !.waiters = RemoveAt(r.waiters, i)] \in SemaphoreRecords(alive)
  BY <1>2, <1>4 DEF SemaphoreRecords
<1> HIDE DEF r
<1>6. semaphores' \in [DOMAIN semaphores -> SemaphoreRecords(alive)]
  BY <1>1, <1>5 DEF TypeInv
<1>7. wakeups' \subseteq Threads /\ source' \in Sources BY <1>1, <1>2 DEF TypeInv, Sources
<1>8. UNCHANGED <<terminations, pending, threads, rights, alive, created>>
  BY DEF signal_semaphore_thread
<1> QED BY <1>6, <1>7, <1>8, KernelStepType DEF TypeInv, Pendings, ThreadStates

\* The first half of a wait: the thread is queued, or takes a prepost.
Blocks(s) == semaphores[s].count = 0
Queueing(s, t) == [semaphores[s] EXCEPT !.waiters = Append(@, t)]
Taking(s) == [semaphores[s] EXCEPT !.count = @ - 1]

AfterWait(t, s) ==
    IF Blocks(s) THEN [Now EXCEPT !.semaphores[s].waiters = Append(@, t), !.source[t] = NoObject]
    ELSE [Now EXCEPT !.semaphores[s].count = @ - 1]

LEMMA AfterWaitKernel ==
    ASSUME TypeInv, NEW t \in Threads, NEW s \in DOMAIN semaphores
    PROVE  LET k == AfterWait(t, s) IN
           /\ k \in Kernels /\ k.wakeups = wakeups
           /\ Blocks(s) =>
                 /\ k.semaphores = [x \in DOMAIN semaphores |->
                                       IF x = s THEN Queueing(s, t) ELSE semaphores[x]]
                 /\ k.source = [source EXCEPT ![t] = NoObject]
           /\ ~Blocks(s) =>
                 /\ k.semaphores = [x \in DOMAIN semaphores |->
                                       IF x = s THEN Taking(s) ELSE semaphores[x]]
                 /\ k.source = source
<1> DEFINE k == AfterWait(t, s)
           r == semaphores[s]
<1>1. /\ r \in [count : 0 .. MaxCount, owner : alive, waiters : Seq(Threads)]
      /\ r.count > 0 => r.waiters = << >>
      /\ semaphores = [x \in DOMAIN semaphores |-> semaphores[x]]
      /\ semaphores \in [DOMAIN semaphores -> SemaphoreRecords(alive)]
      /\ source \in Sources /\ wakeups \subseteq Threads /\ NoObject \in 0 .. MaxSemaphores
      /\ MaxCount \in Nat
  BY Numbers, SemaphoreAssumption DEF TypeInv, SemaphoreRecords
<1>2. Now \in [semaphores : {semaphores}, wakeups : {wakeups}, source : {source}] BY DEF Now
<1>3. CASE Blocks(s)
  <2>1. k = [Now EXCEPT !.semaphores[s].waiters = Append(@, t), !.source[t] = NoObject]
    BY <1>3 DEF AfterWait
  <2> HIDE DEF k
  <2>2. k.wakeups = wakeups BY <1>2, <2>1
  <2>3. k.source = [source EXCEPT ![t] = NoObject] BY <1>2, <2>1
  <2>4. k.semaphores = [x \in DOMAIN semaphores |->
                           IF x = s THEN Queueing(s, t) ELSE semaphores[x]]
    BY <1>1, <1>2, <2>1 DEF Queueing
  <2>5. Queueing(s, t) \in SemaphoreRecords(alive)
    <3>1. Append(r.waiters, t) \in Seq(Threads) /\ r.count = 0 BY <1>1, <1>3 DEF Blocks
    <3>2. Queueing(s, t) = [r EXCEPT !.waiters = Append(r.waiters, t)] BY DEF Queueing
    <3> HIDE DEF r
    <3>3. [r EXCEPT !.waiters = Append(r.waiters, t)]
              \in [count : {0}, owner : alive, waiters : Seq(Threads)]
      BY <1>1, <3>1
    <3> QED BY <1>1, <3>2, <3>3 DEF SemaphoreRecords
  <2>6. k.semaphores \in [DOMAIN semaphores -> SemaphoreRecords(alive)] BY <1>1, <2>4, <2>5
  <2>7. k.source \in Sources BY <1>1, <2>3 DEF Sources
  <2>8. k \in [semaphores : {k.semaphores}, wakeups : {k.wakeups}, source : {k.source}]
    BY <1>2, <2>1
  <2>9. k \in Kernels BY <1>1, <2>2, <2>6, <2>7, <2>8 DEF Kernels
  <2> QED BY <1>3, <2>2, <2>3, <2>4, <2>9 DEF k
<1>4. CASE ~Blocks(s)
  <2>1. k = [Now EXCEPT !.semaphores[s].count = @ - 1] BY <1>4 DEF AfterWait
  <2> HIDE DEF k
  <2>2. k.wakeups = wakeups BY <1>2, <2>1
  <2>3. k.source = source BY <1>2, <2>1
  <2>4. k.semaphores = [x \in DOMAIN semaphores |-> IF x = s THEN Taking(s) ELSE semaphores[x]]
    BY <1>1, <1>2, <2>1 DEF Taking
  <2>5. Taking(s) \in SemaphoreRecords(alive)
    <3>1. r.count - 1 \in 0 .. MaxCount /\ r.waiters = << >> BY <1>1, <1>4 DEF Blocks
    <3> QED BY <1>1, <3>1 DEF Taking, SemaphoreRecords
  <2>6. k.semaphores \in [DOMAIN semaphores -> SemaphoreRecords(alive)] BY <1>1, <2>4, <2>5
  <2>8. k \in [semaphores : {k.semaphores}, wakeups : {k.wakeups}, source : {k.source}]
    BY <1>2, <2>1
  <2>9. k \in Kernels BY <1>1, <2>2, <2>3, <2>6, <2>8 DEF Kernels
  <2> QED BY <1>4, <2>2, <2>3, <2>4, <2>9 DEF k
<1> QED BY <1>3, <1>4

\* A whole wait: its first half, and the paired signal if there is one.
LEMMA WaitChange ==
    ASSUME TypeInv, NEW t \in Threads, NEW s \in Objects, NEW signal, NEW interval,
           wait_on_semaphore(t, s, signal, interval)
    PROVE  LET k == AfterWait(t, s)
               r == k.semaphores[signal]
           IN
           /\ s \in DOMAIN semaphores /\ k \in Kernels
           /\ \/ /\ signal \in DOMAIN semaphores
                 /\ r \in SemaphoreRecords(alive) /\ r.count < MaxCount
                 /\ Changes(k, [semaphores |-> semaphores', wakeups |-> wakeups', source |-> source'],
                            signal, Signalled(r, FALSE, TRUE), WokenBy(r, FALSE))
              \/ /\ signal \notin DOMAIN semaphores
                 /\ semaphores' = k.semaphores /\ wakeups' = k.wakeups /\ source' = k.source
<1> DEFINE k == AfterWait(t, s)
           n == signal_semaphore(k, signal, FALSE, TRUE)
<1>1. s \in DOMAIN semaphores BY DEF wait_on_semaphore
<1>2. k \in Kernels BY <1>1, AfterWaitKernel
<1>3. k = IF semaphores[s].count = 0
          THEN [Now EXCEPT !.semaphores[s].waiters = Append(@, t), !.source[t] = NoObject]
          ELSE [Now EXCEPT !.semaphores[s].count = @ - 1]
  BY DEF AfterWait, Blocks
<1>4. /\ signal \in DOMAIN semaphores => k.semaphores[signal].count < MaxCount
      /\ Apply(IF signal = NoObject \/ signal \notin {NoObject} \cup DOMAIN semaphores THEN k ELSE n)
  BY DEF wait_on_semaphore, AfterWait, Blocks
<1>5. NoObject \notin DOMAIN semaphores BY Numbers
<1> HIDE DEF k
<1>6. CASE signal \in DOMAIN semaphores
  <2>1. Apply(n) BY <1>4, <1>5, <1>6
  <2>2. Changes(k, n, signal, Signalled(k.semaphores[signal], FALSE, TRUE),
                WokenBy(k.semaphores[signal], FALSE))
    BY <1>2, <1>6, SignalChanges
  <2>3. semaphores' = n.semaphores /\ wakeups' = n.wakeups /\ source' = n.source
    BY <2>1 DEF Apply
  <2>4. k.semaphores[signal] \in SemaphoreRecords(alive) BY <1>2, <1>6 DEF Kernels
  <2> HIDE DEF n
  <2>5. Changes(k, [semaphores |-> semaphores', wakeups |-> wakeups', source |-> source'],
                signal, Signalled(k.semaphores[signal], FALSE, TRUE),
                WokenBy(k.semaphores[signal], FALSE))
    BY <2>2, <2>3 DEF Changes
  <2> QED BY <1>1, <1>2, <1>4, <1>6, <2>4, <2>5 DEF k
<1>7. CASE signal \notin DOMAIN semaphores
  <2>1. Apply(k) BY <1>4, <1>7
  <2> QED BY <1>1, <1>2, <1>7, <2>1 DEF Apply, k
<1> QED BY <1>6, <1>7

LEMMA WaitType ==
    ASSUME TypeInv, UNCHANGED mix, NEW t \in Threads, NEW s \in Objects, NEW signal,
           NEW interval \in {Forever} \cup mix.intervals,
           wait_on_semaphore(t, s, signal, interval)
    PROVE  TypeInv'
<1> DEFINE k == AfterWait(t, s)
           r == k.semaphores[signal]
           n == [semaphores |-> semaphores', wakeups |-> wakeups', source |-> source']
<1>1. s \in DOMAIN semaphores /\ k \in Kernels BY WaitChange
<1>2. /\ semaphores' \in [DOMAIN semaphores -> SemaphoreRecords(alive)]
      /\ wakeups' \subseteq Threads /\ source' \in Sources
  <2>1. CASE signal \in DOMAIN semaphores
    <3>1. /\ r \in SemaphoreRecords(alive) /\ r.count < MaxCount
          /\ Changes(k, n, signal, Signalled(r, FALSE, TRUE), WokenBy(r, FALSE))
      BY <2>1, WaitChange
    <3>2. Signalled(r, FALSE, TRUE) \in SemaphoreRecords(alive)
          /\ WokenBy(r, FALSE) \in SUBSET Threads
      BY <3>1, SignalledRecord
    <3>3. signal \in 0 .. MaxSemaphores BY <2>1, Numbers
    <3> HIDE DEF k, r
    <3>4. /\ n.semaphores \in [DOMAIN semaphores -> SemaphoreRecords(alive)]
          /\ n.wakeups \subseteq Threads /\ n.source \in Sources
      <4> HIDE DEF n
      <4> QED BY <1>1, <2>1, <3>1, <3>2, <3>3, ChangedKernel
    <3> QED BY <3>4
  <2>2. CASE signal \notin DOMAIN semaphores
    <3>1. semaphores' = k.semaphores /\ wakeups' = k.wakeups /\ source' = k.source
      BY <2>2, WaitChange
    <3> HIDE DEF k
    <3> QED BY <1>1, <3>1 DEF Kernels
  <2> QED BY <2>1, <2>2
<1>3. pending' = pending \/ pending' = [u \in DOMAIN pending \cup {t} |->
                                IF u = t THEN [semaphore |-> s, deadline |-> interval] ELSE pending[u]]
  BY DEF wait_on_semaphore
<1>4. [semaphore |-> s, deadline |-> interval] \in Pendings
  <2>1. s \in 1 .. created BY <1>1, Numbers
  <2>2. interval \in Deadlines BY SemaphoreAssumption DEF TypeInv, Deadlines
  <2> QED BY <2>1, <2>2 DEF Pendings
<1>5. DOMAIN pending \subseteq Threads /\ pending \in [DOMAIN pending -> Pendings]
  BY DEF TypeInv, Pendings
<1>6. DOMAIN pending' \subseteq Threads /\ pending' \in [DOMAIN pending' -> Pendings]
  <2>1. CASE pending' = pending BY <1>5, <2>1
  <2>2. CASE pending' = [u \in DOMAIN pending \cup {t} |->
                            IF u = t THEN [semaphore |-> s, deadline |-> interval] ELSE pending[u]]
    BY <1>4, <1>5, <2>2
  <2> QED BY <1>3, <2>1, <2>2
<1>7. threads' = threads \/ threads' = [threads EXCEPT ![t] = "waiting"]
  BY DEF wait_on_semaphore
<1>8. threads[t] = "running" /\ UNCHANGED <<terminations, rights, alive, created>>
  BY DEF wait_on_semaphore, Running
<1>9. threads' \in [Threads -> ThreadStates]
      /\ \A u \in Threads : threads'[u] # "absent" => threads[u] # "absent" \/ u[1] \in alive
  BY <1>7, <1>8 DEF TypeInv, ThreadStates
<1> QED BY <1>2, <1>6, <1>8, <1>9, KernelStepType DEF TypeInv

LEMMA ErasedRecord ==
    ASSUME NEW owners, NEW r \in SemaphoreRecords(owners), NEW gone
    PROVE  /\ [r EXCEPT !.waiters = Erased(@, gone)] \in SemaphoreRecords(owners)
           /\ [r EXCEPT !.waiters = Erased(@, gone)].waiters = Erased(r.waiters, gone)
           /\ [r EXCEPT !.waiters = Erased(@, gone)].owner = r.owner
<1> DEFINE e == [r EXCEPT !.waiters = Erased(@, gone)]
           q == Erased(r.waiters, gone)
<1>1. /\ r \in [count : 0 .. MaxCount, owner : owners, waiters : Seq(Threads)]
      /\ r.count > 0 => r.waiters = << >>
  BY DEF SemaphoreRecords
<1>2. q \in Seq(Threads) BY <1>1, ErasedQueue DEF Queue
<1>3. r.count > 0 => q = << >> BY <1>1, ErasedNothing
<1>4. e = [r EXCEPT !.waiters = q] OBVIOUS
<1> HIDE DEF q, e
<1>5. /\ e \in [count : 0 .. MaxCount, owner : owners, waiters : Seq(Threads)]
      /\ e.waiters = q /\ e.owner = r.owner /\ e.count = r.count
  BY <1>1, <1>2, <1>4
<1>6. e \in SemaphoreRecords(owners) BY <1>3, <1>5 DEF SemaphoreRecords
<1> QED BY <1>5, <1>6 DEF e, q

LEMMA DeliverType ==
    ASSUME TypeInv, UNCHANGED mix, NEW t \in Threads, deliver_pending_io(t)
    PROVE  TypeInv'
<1>1. semaphores' \in [DOMAIN semaphores -> SemaphoreRecords(alive)]
  <2>1. ASSUME NEW s \in DOMAIN semaphores PROVE semaphores'[s] \in SemaphoreRecords(alive)
    <3>1. semaphores[s] \in SemaphoreRecords(alive) BY DEF TypeInv
    <3>2. semaphores'[s] = semaphores[s]
              \/ semaphores'[s] = [semaphores[s] EXCEPT !.waiters = Erased(@, {t})]
      BY DEF deliver_pending_io
    <3> QED BY <3>1, <3>2, ErasedRecord
  <2>2. semaphores' = [s \in DOMAIN semaphores |-> semaphores'[s]] BY DEF deliver_pending_io
  <2> QED BY <2>1, <2>2
<1>2. wakeups' \subseteq Threads /\ terminations' \subseteq Threads
  BY DEF deliver_pending_io, TypeInv
<1>3. source' \in Sources
  BY Numbers DEF deliver_pending_io, TypeInv, Sources
<1>4. DOMAIN pending' \subseteq Threads /\ pending' \in [DOMAIN pending' -> Pendings]
  BY DEF deliver_pending_io, TypeInv, Without, Pendings
<1>5. threads' \in [Threads -> ThreadStates]
      /\ \A u \in Threads : threads'[u] # "absent" => threads[u] # "absent" \/ u[1] \in alive
  BY DEF deliver_pending_io, TypeInv, ThreadStates
<1>6. UNCHANGED <<rights, alive, created>> BY DEF deliver_pending_io
<1> QED BY <1>1, <1>2, <1>3, <1>4, <1>5, <1>6, KernelStepType

LEMMA AdvanceType == ASSUME TypeInv, UNCHANGED mix, advance_time PROVE TypeInv'
<1>1. pending' \in [DOMAIN pending -> Pendings]
  <2>1. ASSUME NEW t \in DOMAIN pending
        PROVE  [pending[t] EXCEPT !.deadline = IF @ > 0 THEN @ - 1 ELSE @] \in Pendings
    <3>1. pending[t] \in [semaphore : 1 .. created, deadline : Deadlines] BY DEF TypeInv
    <3>2. pending[t].deadline \in Deadlines BY <3>1
    <3>3. (IF pending[t].deadline > 0 THEN pending[t].deadline - 1 ELSE pending[t].deadline) \in Deadlines
      BY <3>2 DEF Deadlines, Forever
    <3> QED BY <3>1, <3>3 DEF Pendings
  <2> QED BY <2>1 DEF advance_time
<1>2. UNCHANGED <<semaphores, wakeups, terminations, threads, source, rights, alive, created>>
  BY DEF advance_time
<1>3. DOMAIN pending' = DOMAIN pending BY <1>1
<1> QED BY <1>1, <1>2, <1>3, KernelStepType DEF TypeInv, ThreadStates

LEMMA CreateType ==
    ASSUME TypeInv, UNCHANGED mix, NEW t \in Threads, NEW owner \in Tasks,
           NEW value \in mix.counts, semaphore_create(t, owner, value)
    PROVE  TypeInv'
<1> DEFINE new == [count |-> value, owner |-> owner, waiters |-> << >>]
<1>1. /\ created' = created + 1 /\ created < MaxSemaphores /\ owner \in alive
      /\ semaphores' = [s \in DOMAIN semaphores \cup {created'} |->
                           IF s = created' THEN new ELSE semaphores[s]]
      /\ rights' = rights \cup {<<t[1], created'>>}
      /\ UNCHANGED <<wakeups, terminations, pending, threads, alive, source>>
      /\ threads[t] = "running"
  BY DEF semaphore_create, Running
<1>2. created \in Nat /\ MaxSemaphores \in Nat /\ created' \in 0 .. MaxSemaphores
      /\ DOMAIN semaphores \subseteq 1 .. created
  BY <1>1, Numbers
<1>3. new \in SemaphoreRecords(alive)
  <2>1. value \in 0 .. MaxCount BY SemaphoreAssumption DEF TypeInv
  <2>2. << >> \in Seq(Threads) OBVIOUS
  <2> QED BY <1>1, <2>1, <2>2 DEF SemaphoreRecords
<1> HIDE DEF new
<1>4. /\ semaphores' \in [DOMAIN semaphores' -> SemaphoreRecords(alive)]
      /\ DOMAIN semaphores' \subseteq 1 .. created'
      /\ DOMAIN semaphores' = DOMAIN semaphores \cup {created'}
  BY <1>1, <1>2, <1>3 DEF TypeInv
<1>5. t[1] \in alive BY <1>1 DEF TypeInv
<1>6. rights' \subseteq alive' \X DOMAIN semaphores' BY <1>1, <1>4, <1>5 DEF TypeInv
<1>7. 1 .. created \subseteq 1 .. created' BY <1>1, <1>2
<1>8. pending' \in [DOMAIN pending' -> [semaphore : 1 .. created', deadline : Deadlines]]
  BY <1>1, <1>7 DEF TypeInv
<1>9. SemaphoreRecords(alive)' = SemaphoreRecords(alive) /\ Sources' = Sources
  BY <1>1 DEF SemaphoreRecords, Sources
<1> QED BY <1>1, <1>2, <1>4, <1>6, <1>8, <1>9 DEF TypeInv

LEMMA DestroyType ==
    ASSUME TypeInv, UNCHANGED mix, NEW t \in Threads, NEW s \in Objects, NEW target \in Tasks,
           NEW last, semaphore_destroy(t, s, target, last)
    PROVE  TypeInv'
<1>1. /\ s \in DOMAIN semaphores
      /\ terminations' = terminations
             \/ terminations' = terminations \cup Range(semaphores[s].waiters)
      /\ \/ semaphores' = semaphores /\ rights' = rights \ {<<t[1], s>>}
         \/ semaphores' = Without(semaphores, {s}) /\ rights' = Live(rights, {s})
      /\ UNCHANGED <<wakeups, pending, threads, alive, created, source>>
  BY DEF semaphore_destroy
<1>2. terminations' \subseteq Threads
  <2>1. semaphores[s].waiters \in Seq(Threads) BY <1>1 DEF TypeInv, SemaphoreRecords
  <2>2. Range(semaphores[s].waiters) \subseteq Threads BY <2>1 DEF Range
  <2> QED BY <1>1, <2>2 DEF TypeInv
<1>3. /\ DOMAIN semaphores' \subseteq 1 .. created
      /\ semaphores' \in [DOMAIN semaphores' -> SemaphoreRecords(alive)]
      /\ rights' \subseteq alive \X DOMAIN semaphores'
  <2>1. CASE semaphores' = semaphores /\ rights' = rights \ {<<t[1], s>>}
    BY <2>1 DEF TypeInv
  <2>2. CASE semaphores' = Without(semaphores, {s}) /\ rights' = Live(rights, {s})
    BY <2>2 DEF TypeInv, Without, Live
  <2> QED BY <1>1, <2>1, <2>2
<1>4. SemaphoreRecords(alive)' = SemaphoreRecords(alive) /\ Sources' = Sources
  BY <1>1 DEF SemaphoreRecords, Sources
<1> QED BY <1>1, <1>2, <1>3, <1>4 DEF TypeInv

LEMMA RightsType ==
    ASSUME TypeInv, UNCHANGED mix, NEW t \in Threads, NEW s \in Objects,
           (\E to \in Tasks : transfer_right(t, s, to)) \/ mach_port_deallocate(t, s)
    PROVE  TypeInv'
<1>1. /\ rights' \subseteq alive \X DOMAIN semaphores
      /\ UNCHANGED <<semaphores, wakeups, terminations, pending, threads, alive, created, source>>
  <2>1. ASSUME NEW to \in Tasks, transfer_right(t, s, to)
        PROVE  /\ rights' \subseteq alive \X DOMAIN semaphores
               /\ UNCHANGED <<semaphores, wakeups, terminations, pending, threads, alive, created, source>>
    <3>1. rights \subseteq alive \X DOMAIN semaphores /\ <<t[1], s>> \in rights /\ to \in alive
          /\ rights' = rights \cup {<<to, s>>}
      BY <2>1 DEF transfer_right, TypeInv
    <3>2. <<to, s>> \in alive \X DOMAIN semaphores BY <3>1
    <3>3. rights' \subseteq alive \X DOMAIN semaphores BY <3>1, <3>2
    <3> QED BY <2>1, <3>3 DEF transfer_right
  <2>2. CASE mach_port_deallocate(t, s) BY <2>2 DEF mach_port_deallocate, TypeInv
  <2> QED BY <2>1, <2>2
<1>2. SemaphoreRecords(alive)' = SemaphoreRecords(alive) /\ Sources' = Sources
  BY <1>1 DEF SemaphoreRecords, Sources
<1> QED BY <1>1, <1>2 DEF TypeInv

LEMMA ThreadCreateType ==
    ASSUME TypeInv, UNCHANGED mix, NEW t \in Threads, thread_create(t)
    PROVE  /\ TypeInv'
           /\ \E u \in Threads : threads[u] = "absent" /\ threads' = [threads EXCEPT ![u] = "running"]
<1> DEFINE free == {s \in mix.slots \ {0} : threads[<<t[1], s>>] = "absent"}
           slot == CHOOSE s \in free : \A o \in free : s <= o
           u    == <<t[1], slot>>
<1>1. /\ free # {} /\ threads[t] = "running"
      /\ threads' = [threads EXCEPT ![u] = "running"]
      /\ UNCHANGED <<semaphores, wakeups, terminations, pending, rights, alive, created, source>>
  BY DEF thread_create, Running
<1>2. slot \in free
  <2>1. Slots \subseteq Nat
    <3>1. Cardinality(Slots) \in Nat BY SemaphoreAssumption, FS_CardinalityType
    <3> QED BY <3>1, SemaphoreAssumption
  <2>2. free \in SUBSET Nat BY <2>1, SemaphoreAssumption DEF TypeInv
  <2>3. \E s \in free : \A o \in free : s <= o
    <3> HIDE DEF free
    <3> QED BY <1>1, <2>2, LeastNatural
  <2> HIDE DEF free
  <2> QED BY <2>3
<1> HIDE DEF slot
<1>3. slot \in Slots BY <1>2, SemaphoreAssumption DEF TypeInv
<1>4. u \in Threads /\ u[1] = t[1] /\ threads[u] = "absent" BY <1>2, <1>3 DEF Threads
<1>5. t[1] \in alive BY <1>1 DEF TypeInv
<1> HIDE DEF u, free
<1>6. threads' \in [Threads -> ThreadStates]
      /\ \A v \in Threads : threads'[v] # "absent" => threads[v] # "absent" \/ v[1] \in alive
  BY <1>1, <1>4, <1>5 DEF TypeInv, ThreadStates
<1>7. TypeInv' BY <1>1, <1>6, KernelStepType DEF TypeInv, Pendings
<1> QED BY <1>1, <1>4, <1>7

LEMMA TerminateType ==
    ASSUME TypeInv, UNCHANGED mix, NEW t \in Threads, NEW target \in Threads,
           thread_terminate(t, target)
    PROVE  TypeInv'
<1>1. /\ threads' = [threads EXCEPT ![target] = "absent"]
      /\ UNCHANGED <<semaphores, wakeups, terminations, pending, rights, alive, created, source>>
  BY DEF thread_terminate
<1>2. threads' \in [Threads -> ThreadStates]
      /\ \A v \in Threads : threads'[v] # "absent" => threads[v] # "absent" \/ v[1] \in alive
  BY <1>1 DEF TypeInv, ThreadStates
<1> QED BY <1>1, <1>2, KernelStepType DEF TypeInv, Pendings

LEMMA ExecType ==
    ASSUME TypeInv, UNCHANGED mix, NEW t \in Threads, prepare_exec(t)
    PROVE  TypeInv'
<1>1. /\ threads' = [u \in Threads |-> IF u[1] # t[1] THEN threads[u]
                                       ELSE IF u = t THEN "running" ELSE "absent"]
      /\ pending' = Without(pending, ThreadsOf(t[1]))
      /\ UNCHANGED <<semaphores, wakeups, terminations, rights, alive, created, source>>
      /\ threads[t] = "running"
  BY DEF prepare_exec, Running
<1>2. threads' \in [Threads -> ThreadStates]
      /\ \A v \in Threads : threads'[v] # "absent" => threads[v] # "absent" \/ v[1] \in alive
  BY <1>1 DEF TypeInv, ThreadStates
<1>3. DOMAIN pending' \subseteq Threads /\ pending' \in [DOMAIN pending' -> Pendings]
  BY <1>1 DEF TypeInv, Pendings, Without
<1> QED BY <1>1, <1>2, <1>3, KernelStepType DEF TypeInv, Pendings

LEMMA ExitType ==
    ASSUME TypeInv, UNCHANGED mix, NEW task \in Tasks, exit_process(task)
    PROVE  TypeInv'
<1> DEFINE left == DOMAIN semaphores \ Owned(task)
<1>1. /\ alive' = alive \ {task} /\ created' = created
      /\ threads' = [t \in Threads |-> IF t[1] = task THEN "absent" ELSE threads[t]]
      /\ pending' = Without(pending, ThreadsOf(task))
      /\ terminations' = (terminations \cup
             UNION {Range(semaphores[s].waiters) : s \in Owned(task)}) \ ThreadsOf(task)
      /\ wakeups' = wakeups \ ThreadsOf(task)
      /\ semaphores' = [s \in left |->
             [semaphores[s] EXCEPT !.waiters = Erased(@, ThreadsOf(task))]]
      /\ rights' = {r \in Live(rights, Owned(task)) : r[1] # task}
      /\ source' = [t \in Threads |-> IF t[1] = task THEN NoObject ELSE source[t]]
  BY DEF exit_process
<1>2. terminations' \subseteq Threads /\ wakeups' \subseteq Threads
  <2>1. ASSUME NEW s \in Owned(task) PROVE Range(semaphores[s].waiters) \subseteq Threads
    <3>1. semaphores[s].waiters \in Seq(Threads) BY DEF TypeInv, SemaphoreRecords, Owned
    <3> QED BY <3>1 DEF Range
  <2> QED BY <1>1, <2>1 DEF TypeInv
<1>3. semaphores' \in [left -> SemaphoreRecords(alive')]
  <2>1. ASSUME NEW s \in left PROVE semaphores'[s] \in SemaphoreRecords(alive')
    <3> DEFINE r == semaphores[s]
    <3>1. r \in SemaphoreRecords(alive) /\ r.owner # task BY DEF TypeInv, Owned
    <3>2. r \in SemaphoreRecords(alive') BY <1>1, <3>1 DEF SemaphoreRecords
    <3>3. semaphores'[s] = [r EXCEPT !.waiters = Erased(@, ThreadsOf(task))] BY <1>1
    <3> QED BY <3>2, <3>3, ErasedRecord
  <2> HIDE DEF left
  <2>2. semaphores' = [s \in left |-> semaphores'[s]] BY <1>1
  <2> QED BY <2>1, <2>2
<1>4. source' \in Sources BY <1>1, Numbers DEF TypeInv, Sources
<1>5. DOMAIN pending' \subseteq Threads
      /\ pending' \in [DOMAIN pending' -> [semaphore : 1 .. created', deadline : Deadlines]]
  BY <1>1 DEF TypeInv, Without
<1>6. threads' \in [Threads -> {"absent", "running", "waiting"}]
      /\ \A t \in Threads : threads'[t] # "absent" => t[1] \in alive'
  BY <1>1 DEF TypeInv
<1>7. rights' \subseteq alive' \X left BY <1>1 DEF TypeInv, Live
<1>8. DOMAIN semaphores' = left /\ left \subseteq 1 .. created' /\ alive' \subseteq Tasks
  BY <1>1 DEF TypeInv
<1>9. SemaphoreRecords(alive)' = SemaphoreRecords(alive') /\ Sources' = Sources
  BY DEF SemaphoreRecords, Sources
<1> HIDE DEF left
<1> QED BY <1>1, <1>2, <1>3, <1>4, <1>5, <1>6, <1>7, <1>8, <1>9 DEF TypeInv

LEMMA TypeInit == Init => TypeInv
<1> SUFFICES ASSUME Init PROVE TypeInv OBVIOUS
<1>1. DOMAIN << >> = {} OBVIOUS
<1>2. \A X : << >> \in [{} -> X] BY <1>1
<1>3. mix \in Mixes /\ alive = mix.tasks /\ alive \subseteq Tasks BY SemaphoreAssumption DEF Init
<1>4. MaxSemaphores \in Nat /\ created = 0 BY SemaphoreAssumption DEF Init
<1>5. semaphores = << >> /\ pending = << >> /\ rights = {} /\ wakeups = {} /\ terminations = {}
  BY DEF Init
<1>6. source \in Sources BY <1>4 DEF Init, Sources, NoObject
<1>7. threads \in [Threads -> {"absent", "running", "waiting"}]
      /\ \A t \in Threads : threads[t] # "absent" => t[1] \in alive
  BY DEF Init
<1> QED BY <1>1, <1>2, <1>3, <1>4, <1>5, <1>6, <1>7 DEF TypeInv

LEMMA TypeStep == TypeInv /\ [Next]_vars => TypeInv'
<1> SUFFICES ASSUME TypeInv, [Next]_vars PROVE TypeInv' OBVIOUS
<1>1. CASE UNCHANGED vars BY <1>1 DEF vars, TypeInv, SemaphoreRecords, Sources
<1>2. CASE Next
  <2>1. UNCHANGED mix BY <1>2 DEF Next
  <2>2. ASSUME NEW t \in Threads, Wait(t) PROVE TypeInv'
    BY <2>1, <2>2, WaitType DEF Wait
  <2>3. ASSUME NEW t \in Threads, Signal(t) PROVE TypeInv'
    BY <2>1, <2>3, SignalType, SignalThreadType DEF Signal
  <2>4. ASSUME NEW t \in Threads, Own(t) PROVE TypeInv'
    BY <2>1, <2>4, CreateType, DestroyType, RightsType DEF Own
  <2>5. ASSUME NEW t \in Threads, Lifecycle(t) PROVE TypeInv'
    BY <2>1, <2>5, ThreadCreateType, TerminateType, ExecType DEF Lifecycle
  <2>6. ASSUME NEW t \in Threads, deliver_pending_io(t) PROVE TypeInv'
    BY <2>1, <2>6, DeliverType
  <2>7. ASSUME NEW task \in Tasks, exit_process(task) PROVE TypeInv'
    BY <2>1, <2>7, ExitType
  <2>8. ASSUME advance_time PROVE TypeInv' BY <2>1, <2>8, AdvanceType
  <2> QED BY <1>2, <2>2, <2>3, <2>4, <2>5, <2>6, <2>7, <2>8 DEF Next
<1> QED BY <1>1, <1>2

LEMMA TypeInvariant == Spec => []TypeInv
BY TypeInit, TypeStep, PTL DEF Spec

\* Every variable keeps the shape of the C++ state it models, whatever guests,
\* the main loop and exits do.
THEOREM TypeCorrect == Spec => []TypeOK
<1>1. TypeInv => TypeOK
  <2> SUFFICES ASSUME TypeInv PROVE TypeOK OBVIOUS
  <2>1. \A s \in DOMAIN semaphores :
          semaphores[s] \in [count : 0 .. MaxCount, owner : alive, waiters : Seq(Threads)]
    BY DEF TypeInv, SemaphoreRecords
  <2>2. \A t \in DOMAIN pending :
          pending[t] \in [semaphore : 1 .. created, deadline : Deadlines]
    BY DEF TypeInv
  <2> QED BY <2>1, <2>2 DEF TypeInv, TypeOK, Sources
<1> QED BY <1>1, TypeInvariant, PTL

\* No thread ever sleeps beside a count it could take: every way to leave a
\* prepost, and every way to queue a waiter, looks at the other first.
THEOREM PrepostsUnattended == Spec => []NoWaitBesidePrepost
<1>1. TypeInv => NoWaitBesidePrepost
  BY DEF TypeInv, NoWaitBesidePrepost, SemaphoreRecords
<1> QED BY <1>1, TypeInvariant, PTL

-----------------------------------------------------------------------------
(***************************************************************************)
(* Waits and semaphores describe the same waiters, when no guest ends a    *)
(* blocked thread by force.                                                *)
(***************************************************************************)
\* What the theorems below ask of the guests: they terminate no blocked
\* thread, call exec in no task with a blocked thread, and pair a wait only
\* with the signal of a semaphore. The code leaves the queues stale otherwise.
GuestsEndNoWaits ==
    {"terminate_blocked", "exec_blocked", "refused_signal"} \cap Operations = {}

WaitersOf(sems, s) == Range(sems[s].waiters)
NoDuplicates(sems) == \A s \in DOMAIN sems : IsInjective(sems[s].waiters)

\* The inductive invariant: a queued thread is blocked on that semaphore and
\* has no result; a thread with a result is blocked; a blocked thread has a
\* continuation and is queued or has a result; a success has its own signal.
Consistent(sems, woken, ended, pend, run, from) ==
    /\ \A s \in DOMAIN sems : \A t \in WaitersOf(sems, s) :
          /\ run[t] = "waiting" /\ t \in DOMAIN pend /\ pend[t].semaphore = s
          /\ t \notin woken \cup ended
    /\ \A t \in woken \cup ended : run[t] = "waiting" /\ t \in DOMAIN pend
    /\ woken \cap ended = {}
    /\ \A t \in Threads : run[t] = "waiting" =>
          /\ t \in DOMAIN pend
          /\ \/ t \in woken \cup ended
             \/ /\ pend[t].semaphore \in DOMAIN sems
                /\ t \in WaitersOf(sems, pend[t].semaphore)
    /\ \A t \in woken : from[t] = pend[t].semaphore

WaitsInv ==
    /\ NoDuplicates(semaphores)
    /\ Consistent(semaphores, wakeups, terminations, pending, threads, source)

LEMMA WaitersAreThreads ==
    ASSUME TypeInv, NEW s \in DOMAIN semaphores
    PROVE  WaitersOf(semaphores, s) \subseteq Threads
<1>1. semaphores[s].waiters \in Seq(Threads) BY DEF TypeInv, SemaphoreRecords
<1> QED BY <1>1 DEF WaitersOf, Range

LEMMA SignalledWaiters ==
    ASSUME NEW owners, NEW r \in SemaphoreRecords(owners), IsInjective(r.waiters),
           NEW all \in BOOLEAN, NEW prepost \in BOOLEAN
    PROVE  LET n == Signalled(r, all, prepost) IN
           /\ IsInjective(n.waiters)
           /\ Range(n.waiters) = Range(r.waiters) \ WokenBy(r, all)
           /\ WokenBy(r, all) \subseteq Range(r.waiters)
<1> DEFINE n == Signalled(r, all, prepost)
<1>1. /\ r.waiters \in Seq(Threads)
      /\ r \in [count : 0 .. MaxCount, owner : owners, waiters : Seq(Threads)]
  BY DEF SemaphoreRecords
<1>2. CASE all
  <2>1. n = [r EXCEPT !.waiters = << >>, !.count = 0] /\ WokenBy(r, all) = Range(r.waiters)
    BY <1>2 DEF Signalled, WokenBy
  <2>2. n.waiters = << >> BY <1>1, <2>1
  <2> HIDE DEF n
  <2>3. IsInjective(n.waiters) /\ Range(n.waiters) = {} BY <2>2, EmptyQueue DEF Queue
  <2> QED BY <2>1, <2>3 DEF n
<1>3. CASE ~all /\ r.waiters # << >>
  <2>1. n = [r EXCEPT !.waiters = Tail(@)] /\ WokenBy(r, all) = {Head(r.waiters)}
    BY <1>3 DEF Signalled, WokenBy
  <2>2. n.waiters = Tail(r.waiters) BY <1>1, <2>1
  <2> HIDE DEF n
  <2>3. /\ IsInjective(Tail(r.waiters)) /\ Head(r.waiters) \in Range(r.waiters)
        /\ Range(Tail(r.waiters)) = Range(r.waiters) \ {Head(r.waiters)}
    BY <1>1, <1>3, TailQueue
  <2> QED BY <2>1, <2>2, <2>3 DEF n
<1>4. CASE ~all /\ r.waiters = << >>
  <2>1. n.waiters = r.waiters
    <3>1. n = r \/ n = [r EXCEPT !.count = @ + 1] BY <1>4 DEF Signalled
    <3> HIDE DEF n
    <3> QED BY <1>1, <3>1
  <2>2. WokenBy(r, all) = {} BY <1>4 DEF WokenBy
  <2> HIDE DEF n
  <2> QED BY <2>1, <2>2 DEF n
<1> QED BY <1>2, <1>3, <1>4

\* A change that takes from one queue exactly the threads it wakes.
LEMMA WakingKeeps ==
    ASSUME NEW k \in Kernels, NEW n, NEW s \in DOMAIN semaphores, NEW r, NEW woken,
           NEW ended, NEW pend, NEW run,
           Changes(k, n, s, r, woken),
           NoDuplicates(k.semaphores),
           Consistent(k.semaphores, k.wakeups, ended, pend, run, k.source),
           IsInjective(r.waiters), woken \subseteq Threads,
           woken \subseteq Range(k.semaphores[s].waiters),
           Range(r.waiters) = Range(k.semaphores[s].waiters) \ woken
    PROVE  /\ NoDuplicates(n.semaphores)
           /\ Consistent(n.semaphores, n.wakeups, ended, pend, run, n.source)
<1> DEFINE W(x) == WaitersOf(k.semaphores, x)
           V(x) == WaitersOf(n.semaphores, x)
<1>1. DOMAIN k.semaphores = DOMAIN semaphores /\ DOMAIN n.semaphores = DOMAIN semaphores
  BY DEF Kernels, Changes
<1>2. n.semaphores[s] = r /\ \A x \in DOMAIN semaphores \ {s} : n.semaphores[x] = k.semaphores[x]
  BY <1>1 DEF Changes
<1>3. NoDuplicates(n.semaphores) BY <1>1, <1>2 DEF NoDuplicates
<1>4. V(s) = W(s) \ woken /\ woken \subseteq W(s) /\ \A x \in DOMAIN semaphores \ {s} : V(x) = W(x)
  BY <1>2 DEF WaitersOf
<1>5. n.wakeups = k.wakeups \cup woken
      /\ \A t \in Threads : n.source[t] = IF t \in woken THEN s ELSE k.source[t]
  BY DEF Changes
<1>6. k.wakeups \subseteq Threads BY DEF Kernels
<1> HIDE DEF W, V
<1>7. /\ \A x \in DOMAIN semaphores : \A t \in W(x) :
            /\ run[t] = "waiting" /\ t \in DOMAIN pend /\ pend[t].semaphore = x
            /\ t \notin k.wakeups \cup ended
      /\ \A t \in k.wakeups \cup ended : run[t] = "waiting" /\ t \in DOMAIN pend
      /\ k.wakeups \cap ended = {}
      /\ \A t \in Threads : run[t] = "waiting" =>
            /\ t \in DOMAIN pend
            /\ \/ t \in k.wakeups \cup ended
               \/ pend[t].semaphore \in DOMAIN semaphores /\ t \in W(pend[t].semaphore)
      /\ \A t \in k.wakeups : k.source[t] = pend[t].semaphore
  BY <1>1 DEF Consistent, W
<1>8. \A x \in DOMAIN semaphores : \A t \in V(x) :
          /\ run[t] = "waiting" /\ t \in DOMAIN pend /\ pend[t].semaphore = x
          /\ t \notin n.wakeups \cup ended
  BY <1>4, <1>5, <1>7
<1>9. \A t \in n.wakeups \cup ended : run[t] = "waiting" /\ t \in DOMAIN pend
  BY <1>4, <1>5, <1>7
<1>10. n.wakeups \cap ended = {} BY <1>4, <1>5, <1>7
<1>11. \A t \in Threads : run[t] = "waiting" =>
            /\ t \in DOMAIN pend
            /\ \/ t \in n.wakeups \cup ended
               \/ pend[t].semaphore \in DOMAIN semaphores /\ t \in V(pend[t].semaphore)
  BY <1>4, <1>5, <1>7
<1>12. \A t \in n.wakeups : n.source[t] = pend[t].semaphore
  BY <1>4, <1>5, <1>6, <1>7
<1> QED BY <1>1, <1>3, <1>8, <1>9, <1>10, <1>11, <1>12 DEF Consistent, V

LEMMA SignalWaits ==
    ASSUME TypeInv, WaitsInv, NEW t \in Threads, NEW s \in Objects, NEW all \in BOOLEAN,
           semaphore_signal(t, s, all)
    PROVE  WaitsInv'
<1> DEFINE r == semaphores[s]
           n == signal_semaphore(Now, s, all, ~all)
<1>1. s \in DOMAIN semaphores /\ r \in SemaphoreRecords(alive) /\ Now \in Kernels
      /\ Now.semaphores[s] = r
  BY NowKernel DEF semaphore_signal, TypeInv, Now
<1>2. Changes(Now, n, s, Signalled(r, all, ~all), WokenBy(r, all)) BY <1>1, SignalChanges
<1>3. IsInjective(r.waiters) BY <1>1 DEF WaitsInv, NoDuplicates
<1>4. /\ IsInjective(Signalled(r, all, ~all).waiters)
      /\ Range(Signalled(r, all, ~all).waiters) = Range(r.waiters) \ WokenBy(r, all)
      /\ WokenBy(r, all) \subseteq Range(r.waiters)
  BY <1>1, <1>3, SignalledWaiters
<1>5. Range(r.waiters) \subseteq Threads BY <1>1, WaitersAreThreads DEF WaitersOf
<1>6. semaphores' = n.semaphores /\ wakeups' = n.wakeups /\ source' = n.source
      /\ UNCHANGED <<terminations, pending, threads>>
  BY DEF semaphore_signal, Apply
<1>7. /\ NoDuplicates(Now.semaphores)
      /\ Consistent(Now.semaphores, Now.wakeups, terminations, pending, threads, Now.source)
  BY DEF WaitsInv, Now
<1> HIDE DEF n, r
<1>8. NoDuplicates(n.semaphores)
      /\ Consistent(n.semaphores, n.wakeups, terminations, pending, threads, n.source)
  BY <1>1, <1>2, <1>4, <1>5, <1>7, WakingKeeps
<1> QED BY <1>6, <1>8 DEF WaitsInv

LEMMA SignalThreadWaits ==
    ASSUME TypeInv, WaitsInv, NEW t \in Threads, NEW s \in Objects, NEW target \in Threads,
           signal_semaphore_thread(t, s, target)
    PROVE  WaitsInv'
<1> DEFINE r == semaphores[s]
           n == [semaphores |-> semaphores', wakeups |-> wakeups', source |-> source']
<1>1. PICK i \in DOMAIN r.waiters :
          /\ s \in DOMAIN semaphores /\ r.waiters[i] = target
          /\ semaphores' = [x \in DOMAIN semaphores |->
                 IF x = s THEN [r EXCEPT !.waiters = RemoveAt(r.waiters, i)] ELSE semaphores[x]]
          /\ wakeups' = wakeups \cup {target}
          /\ source' = [u \in Threads |-> IF u = target THEN s ELSE source[u]]
  BY SignalThreadChange
<1> DEFINE m == [r EXCEPT !.waiters = RemoveAt(r.waiters, i)]
<1>2. /\ r \in [count : 0 .. MaxCount, owner : alive, waiters : Seq(Threads)]
      /\ IsInjective(r.waiters) /\ Now \in Kernels
  BY <1>1, NowKernel DEF TypeInv, SemaphoreRecords, WaitsInv, NoDuplicates
<1>3. m.waiters = RemoveAt(r.waiters, i) BY <1>2
<1>4. IsInjective(m.waiters) /\ Range(m.waiters) = Range(r.waiters) \ {target}
      /\ {target} \subseteq Range(r.waiters)
  <2> HIDE DEF m
  <2>1. IsInjective(RemoveAt(r.waiters, i))
        /\ Range(RemoveAt(r.waiters, i)) = Range(r.waiters) \ {r.waiters[i]}
    BY <1>2, RemoveAtQueue
  <2>2. {target} \subseteq Range(r.waiters) BY <1>1 DEF Range
  <2> QED BY <1>1, <1>3, <2>1, <2>2
<1>5. Now.semaphores = semaphores /\ Now.wakeups = wakeups /\ Now.source = source BY DEF Now
<1>6. n.semaphores = semaphores' /\ n.wakeups = wakeups' /\ n.source = source' OBVIOUS
<1> HIDE DEF m, n, r
<1>7. Changes(Now, n, s, m, {target}) BY <1>1, <1>5, <1>6 DEF Changes, m
<1>8. /\ NoDuplicates(Now.semaphores)
      /\ Consistent(Now.semaphores, Now.wakeups, terminations, pending, threads, Now.source)
  BY <1>5 DEF WaitsInv
<1>9. Range(Now.semaphores[s].waiters) = Range(r.waiters) BY <1>5 DEF r
<1>10. NoDuplicates(n.semaphores)
       /\ Consistent(n.semaphores, n.wakeups, terminations, pending, threads, n.source)
  BY <1>1, <1>2, <1>4, <1>7, <1>8, <1>9, WakingKeeps
<1>11. UNCHANGED <<terminations, pending, threads>> BY DEF signal_semaphore_thread
<1> QED BY <1>6, <1>10, <1>11 DEF WaitsInv

\* A thread that is not blocked is in no queue and has no result.
LEMMA FreeThread ==
    ASSUME WaitsInv, NEW t \in Threads, threads[t] # "waiting"
    PROVE  /\ \A s \in DOMAIN semaphores : t \notin WaitersOf(semaphores, s)
           /\ t \notin wakeups \cup terminations
BY DEF WaitsInv, Consistent

\* The first half of a wait, with the continuation it leaves.
LEMMA QueueingKeeps ==
    ASSUME TypeInv, WaitsInv, NEW t \in Threads, NEW s \in DOMAIN semaphores, NEW interval,
           threads[t] = "running", Blocks(s),
           pending' = [u \in DOMAIN pending \cup {t} |->
               IF u = t THEN [semaphore |-> s, deadline |-> interval] ELSE pending[u]],
           threads' = [threads EXCEPT ![t] = "waiting"]
    PROVE  LET k == AfterWait(t, s) IN
           /\ NoDuplicates(k.semaphores)
           /\ Consistent(k.semaphores, k.wakeups, terminations, pending', threads', k.source)
<1> DEFINE k == AfterWait(t, s)
           r == semaphores[s]
           q == Queueing(s, t)
           W(x) == WaitersOf(semaphores, x)
           V(x) == WaitersOf(k.semaphores, x)
<1>1. /\ k \in Kernels /\ k.wakeups = wakeups
      /\ k.semaphores = [x \in DOMAIN semaphores |-> IF x = s THEN q ELSE semaphores[x]]
      /\ k.source = [source EXCEPT ![t] = NoObject]
  BY AfterWaitKernel
<1>2. /\ r \in [count : 0 .. MaxCount, owner : alive, waiters : Seq(Threads)]
      /\ IsInjective(r.waiters) /\ source \in Sources /\ wakeups \subseteq Threads
  BY DEF TypeInv, SemaphoreRecords, WaitsInv, NoDuplicates
<1>3. q.waiters = Append(r.waiters, t) BY <1>2 DEF Queueing
<1> HIDE DEF k, q
<1>4. /\ \A x \in DOMAIN semaphores : t \notin W(x)
      /\ t \notin wakeups \cup terminations
  BY FreeThread
<1>5. IsInjective(q.waiters) /\ Range(q.waiters) = Range(r.waiters) \cup {t}
  <2>1. t \notin Range(r.waiters) BY <1>4 DEF WaitersOf
  <2> QED BY <1>2, <1>3, <2>1, AppendQueue DEF Queue
<1>6. NoDuplicates(k.semaphores) BY <1>1, <1>5 DEF NoDuplicates, WaitsInv
<1>7. /\ V(s) = W(s) \cup {t}
      /\ \A x \in DOMAIN semaphores \ {s} : V(x) = W(x)
      /\ DOMAIN k.semaphores = DOMAIN semaphores
  BY <1>1, <1>5 DEF WaitersOf
<1>8. /\ t \in DOMAIN pending' /\ pending'[t].semaphore = s
      /\ DOMAIN pending' = DOMAIN pending \cup {t}
      /\ \A u \in DOMAIN pending \ {t} : pending'[u] = pending[u]
      /\ threads'[t] = "waiting" /\ \A u \in Threads \ {t} : threads'[u] = threads[u]
  BY DEF TypeInv
<1>9. \A u \in Threads \ {t} : k.source[u] = source[u] BY <1>1, <1>2 DEF Sources
<1>10. \A x \in DOMAIN semaphores : W(x) \subseteq Threads BY WaitersAreThreads
<1>11. wakeups \cup terminations \subseteq Threads BY DEF TypeInv
<1> HIDE DEF W, V
<1>12. /\ \A x \in DOMAIN semaphores : \A u \in W(x) :
             /\ threads[u] = "waiting" /\ u \in DOMAIN pending /\ pending[u].semaphore = x
             /\ u \notin wakeups \cup terminations
       /\ \A u \in wakeups \cup terminations : threads[u] = "waiting" /\ u \in DOMAIN pending
       /\ wakeups \cap terminations = {}
       /\ \A u \in Threads : threads[u] = "waiting" =>
             /\ u \in DOMAIN pending
             /\ \/ u \in wakeups \cup terminations
                \/ pending[u].semaphore \in DOMAIN semaphores /\ u \in W(pending[u].semaphore)
       /\ \A u \in wakeups : source[u] = pending[u].semaphore
  BY DEF WaitsInv, Consistent, W
<1> HIDE DEF WaitsInv
<1>13. \A x \in DOMAIN semaphores : \A u \in V(x) :
           /\ threads'[u] = "waiting" /\ u \in DOMAIN pending' /\ pending'[u].semaphore = x
           /\ u \notin wakeups \cup terminations
  <2> SUFFICES ASSUME NEW x \in DOMAIN semaphores, NEW u \in V(x)
               PROVE  /\ threads'[u] = "waiting" /\ u \in DOMAIN pending' /\ pending'[u].semaphore = x
                      /\ u \notin wakeups \cup terminations
    OBVIOUS
  <2>1. CASE u = t
    <3>1. x = s BY <1>4, <1>7, <2>1
    <3> QED BY <1>4, <1>8, <2>1, <3>1
  <2>2. CASE u # t
    <3>1. u \in W(x) BY <1>7, <2>2
    <3> QED BY <1>8, <1>10, <1>12, <2>2, <3>1
  <2> QED BY <2>1, <2>2
<1>14. \A u \in wakeups \cup terminations : threads'[u] = "waiting" /\ u \in DOMAIN pending'
  BY <1>4, <1>8, <1>11, <1>12
<1>15. \A u \in Threads : threads'[u] = "waiting" =>
             /\ u \in DOMAIN pending'
             /\ \/ u \in wakeups \cup terminations
                \/ pending'[u].semaphore \in DOMAIN semaphores /\ u \in V(pending'[u].semaphore)
  BY <1>7, <1>8, <1>12
<1>16. \A u \in wakeups : k.source[u] = pending'[u].semaphore
  BY <1>4, <1>8, <1>9, <1>11, <1>12
<1>17. Consistent(k.semaphores, wakeups, terminations, pending', threads', k.source)
  BY <1>7, <1>12, <1>13, <1>14, <1>15, <1>16 DEF Consistent, V
<1> QED BY <1>1, <1>6, <1>17 DEF k

LEMMA TakingKeeps ==
    ASSUME TypeInv, WaitsInv, NEW t \in Threads, NEW s \in DOMAIN semaphores, ~Blocks(s)
    PROVE  LET k == AfterWait(t, s) IN
           /\ NoDuplicates(k.semaphores)
           /\ Consistent(k.semaphores, k.wakeups, terminations, pending, threads, k.source)
<1> DEFINE k == AfterWait(t, s)
<1>1. /\ k.wakeups = wakeups /\ k.source = source
      /\ k.semaphores = [x \in DOMAIN semaphores |-> IF x = s THEN Taking(s) ELSE semaphores[x]]
  BY AfterWaitKernel
<1>2. Taking(s).waiters = semaphores[s].waiters BY DEF Taking, TypeInv, SemaphoreRecords
<1> HIDE DEF k
<1>3. \A x \in DOMAIN semaphores : k.semaphores[x].waiters = semaphores[x].waiters
  BY <1>1, <1>2
<1>4. DOMAIN k.semaphores = DOMAIN semaphores BY <1>1
<1>5. NoDuplicates(k.semaphores) BY <1>3, <1>4 DEF NoDuplicates, WaitsInv
<1>6. \A x \in DOMAIN semaphores : WaitersOf(k.semaphores, x) = WaitersOf(semaphores, x)
  BY <1>3 DEF WaitersOf
<1>7. Consistent(k.semaphores, wakeups, terminations, pending, threads, source)
  BY <1>4, <1>6 DEF Consistent, WaitsInv
<1> QED BY <1>1, <1>5, <1>7 DEF k

\* The second half: the paired signal may wake the thread that just queued.
LEMMA WaitWaits ==
    ASSUME TypeInv, WaitsInv, NEW t \in Threads, NEW s \in Objects,
           NEW signal \in {NoObject} \cup Objects, NEW interval,
           wait_on_semaphore(t, s, signal, interval)
    PROVE  WaitsInv'
<1> DEFINE k == AfterWait(t, s)
           r == k.semaphores[signal]
           n == [semaphores |-> semaphores', wakeups |-> wakeups', source |-> source']
<1>1. s \in DOMAIN semaphores /\ k \in Kernels BY WaitChange
<1>2. signal = NoObject \/ signal \in DOMAIN semaphores
  <2>1. signal = NoObject \/ Holds(t[1], signal) BY DEF wait_on_semaphore
  <2>2. signal # OtherPort
    <3>1. MaxSemaphores \in Nat BY SemaphoreAssumption
    <3> QED BY <3>1 DEF NoObject, Objects, OtherPort
  <2>3. Holds(t[1], signal) => signal \in DOMAIN semaphores BY <2>2 DEF Holds, TypeInv
  <2> QED BY <2>1, <2>3
<1>3. /\ threads[t] = "running" /\ terminations' = terminations
      /\ Blocks(s) => /\ threads' = [threads EXCEPT ![t] = "waiting"]
                      /\ pending' = [u \in DOMAIN pending \cup {t} |->
                             IF u = t THEN [semaphore |-> s, deadline |-> interval] ELSE pending[u]]
      /\ ~Blocks(s) => UNCHANGED <<pending, threads>>
  BY <1>2 DEF wait_on_semaphore, Running, Blocks
<1>4. /\ NoDuplicates(k.semaphores)
      /\ Consistent(k.semaphores, k.wakeups, terminations, pending', threads', k.source)
  <2>1. CASE Blocks(s) BY <1>1, <1>3, <2>1, QueueingKeeps
  <2>2. CASE ~Blocks(s)
    <3>1. /\ NoDuplicates(k.semaphores)
          /\ Consistent(k.semaphores, k.wakeups, terminations, pending, threads, k.source)
      BY <1>1, <2>2, TakingKeeps
    <3> HIDE DEF k
    <3> QED BY <1>3, <2>2, <3>1
  <2> QED BY <2>1, <2>2
<1>5. NoDuplicates(semaphores')
      /\ Consistent(semaphores', wakeups', terminations, pending', threads', source')
  <2>1. CASE signal \in DOMAIN semaphores
    <3>1. /\ r \in SemaphoreRecords(alive)
          /\ Changes(k, n, signal, Signalled(r, FALSE, TRUE), WokenBy(r, FALSE))
      BY <2>1, WaitChange
    <3>2. IsInjective(r.waiters)
      <4>1. DOMAIN k.semaphores = DOMAIN semaphores
        <5> HIDE DEF k
        <5> QED BY <1>1 DEF Kernels
      <4> HIDE DEF k
      <4> QED BY <1>4, <2>1, <4>1 DEF NoDuplicates
    <3>3. n.semaphores = semaphores' /\ n.wakeups = wakeups' /\ n.source = source' OBVIOUS
    <3> DEFINE m == Signalled(r, FALSE, TRUE)
               woken == WokenBy(r, FALSE)
    <3> HIDE DEF k, n
    <3>4. /\ IsInjective(m.waiters) /\ Range(m.waiters) = Range(r.waiters) \ woken
          /\ woken \subseteq Range(r.waiters)
      <4> HIDE DEF r
      <4> QED BY <3>1, <3>2, SignalledWaiters
    <3>5. woken \subseteq Threads
      <4>1. r.waiters \in Seq(Threads) BY <3>1 DEF SemaphoreRecords
      <4>2. Range(r.waiters) \subseteq Threads BY <4>1 DEF Range
      <4> QED BY <3>4, <4>2
    <3> HIDE DEF m, woken
    <3>6. Changes(k, n, signal, m, woken) BY <3>1 DEF m, woken
    <3>7. NoDuplicates(n.semaphores)
          /\ Consistent(n.semaphores, n.wakeups, terminations, pending', threads', n.source)
      BY <1>1, <1>4, <2>1, <3>4, <3>5, <3>6, WakingKeeps
    <3> QED BY <3>3, <3>7
  <2>2. CASE signal \notin DOMAIN semaphores
    <3>1. semaphores' = k.semaphores /\ wakeups' = k.wakeups /\ source' = k.source
      BY <2>2, WaitChange
    <3> HIDE DEF k
    <3> QED BY <1>4, <3>1
  <2> QED BY <2>1, <2>2
<1> QED BY <1>3, <1>5 DEF WaitsInv

\* Ends a wait; a thread with a result is in no queue, one whose time is up is
\* taken out of the queue it is in.
LEMMA DeliverWaits ==
    ASSUME TypeInv, WaitsInv, NEW t \in Threads, deliver_pending_io(t)
    PROVE  WaitsInv'
<1>1. /\ threads[t] = "waiting" /\ t \in DOMAIN pending
      /\ t \in wakeups \cup terminations \/ TimedOut(t)
      /\ terminations' = terminations \ {t}
      /\ wakeups' = IF t \in terminations THEN wakeups ELSE wakeups \ {t}
      /\ pending' = Without(pending, {t})
      /\ threads' = [threads EXCEPT ![t] = "running"]
      /\ source' = [source EXCEPT ![t] = NoObject]
      /\ DOMAIN semaphores' = DOMAIN semaphores
      /\ \A x \in DOMAIN semaphores : semaphores'[x] =
            IF TimedOut(t) /\ x = pending[t].semaphore
            THEN [semaphores[x] EXCEPT !.waiters = Erased(@, {t})] ELSE semaphores[x]
  BY DEF deliver_pending_io
<1>2.  /\ \A x \in DOMAIN semaphores : \A u \in WaitersOf(semaphores, x) :
             /\ threads[u] = "waiting" /\ u \in DOMAIN pending /\ pending[u].semaphore = x
             /\ u \notin wakeups \cup terminations
       /\ \A u \in wakeups \cup terminations : threads[u] = "waiting" /\ u \in DOMAIN pending
       /\ wakeups \cap terminations = {}
       /\ \A u \in Threads : threads[u] = "waiting" =>
             /\ u \in DOMAIN pending
             /\ \/ u \in wakeups \cup terminations
                \/ pending[u].semaphore \in DOMAIN semaphores /\ u \in WaitersOf(semaphores, pending[u].semaphore)
       /\ \A u \in wakeups : source[u] = pending[u].semaphore
  BY DEF WaitsInv, Consistent
<1>3. ASSUME NEW x \in DOMAIN semaphores
      PROVE  /\ IsInjective(semaphores'[x].waiters)
             /\ WaitersOf(semaphores', x) = WaitersOf(semaphores, x) \ {t}
  <2> DEFINE r == semaphores[x]
  <2>1. IsInjective(r.waiters) /\ r \in SemaphoreRecords(alive) /\ r.waiters \in Seq(Threads)
    BY DEF WaitsInv, NoDuplicates, TypeInv, SemaphoreRecords
  <2>2. CASE TimedOut(t) /\ x = pending[t].semaphore
    <3>1. semaphores'[x].waiters = Erased(r.waiters, {t})
      <4>1. semaphores'[x] = [r EXCEPT !.waiters = Erased(@, {t})] BY <1>1, <2>2
      <4> QED BY <2>1, <4>1, ErasedRecord
    <3>2. IsInjective(Erased(r.waiters, {t})) /\ Range(Erased(r.waiters, {t})) = Range(r.waiters) \ {t}
      BY <2>1, ErasedQueue DEF Queue
    <3> QED BY <3>1, <3>2 DEF WaitersOf
  <2>3. CASE ~(TimedOut(t) /\ x = pending[t].semaphore)
    <3>1. semaphores'[x] = r BY <1>1, <2>3
    <3>2. t \notin WaitersOf(semaphores, x) BY <1>1, <1>2, <2>3
    <3> QED BY <2>1, <3>1, <3>2 DEF WaitersOf
  <2> QED BY <2>2, <2>3
<1>4. NoDuplicates(semaphores') BY <1>1, <1>3 DEF NoDuplicates
<1>5. /\ DOMAIN pending' = DOMAIN pending \ {t}
      /\ \A u \in DOMAIN pending \ {t} : pending'[u] = pending[u]
      /\ threads'[t] = "running" /\ \A u \in Threads \ {t} : threads'[u] = threads[u]
      /\ \A u \in Threads \ {t} : source'[u] = source[u]
      /\ wakeups' = wakeups \ {t}
  <2>1. /\ DOMAIN pending' = DOMAIN pending \ {t}
        /\ \A u \in DOMAIN pending \ {t} : pending'[u] = pending[u]
    BY <1>1 DEF Without
  <2>2. /\ threads'[t] = "running" /\ \A u \in Threads \ {t} : threads'[u] = threads[u]
        /\ \A u \in Threads \ {t} : source'[u] = source[u]
    BY <1>1 DEF TypeInv, Sources
  <2>3. wakeups' = wakeups \ {t} BY <1>1, <1>2
  <2> QED BY <2>1, <2>2, <2>3
<1>6. \A x \in DOMAIN semaphores : WaitersOf(semaphores, x) \subseteq Threads BY WaitersAreThreads
<1>7. wakeups \cup terminations \subseteq Threads BY DEF TypeInv
<1>13. DOMAIN semaphores' = DOMAIN semaphores /\ terminations' = terminations \ {t} BY <1>1
<1>8. \A x \in DOMAIN semaphores' : \A u \in WaitersOf(semaphores', x) :
           /\ threads'[u] = "waiting" /\ u \in DOMAIN pending' /\ pending'[u].semaphore = x
           /\ u \notin wakeups' \cup terminations'
  <2> SUFFICES ASSUME NEW x \in DOMAIN semaphores, NEW u \in WaitersOf(semaphores', x)
               PROVE  /\ threads'[u] = "waiting" /\ u \in DOMAIN pending' /\ pending'[u].semaphore = x
                      /\ u \notin wakeups' \cup terminations'
    BY <1>13
  <2>1. u \in WaitersOf(semaphores, x) /\ u # t /\ u \in Threads BY <1>3, <1>6
  <2>2. /\ threads[u] = "waiting" /\ u \in DOMAIN pending /\ pending[u].semaphore = x
        /\ u \notin wakeups \cup terminations
    BY <1>2, <2>1
  <2> QED BY <1>5, <1>13, <2>1, <2>2
<1>9. \A u \in wakeups' \cup terminations' : threads'[u] = "waiting" /\ u \in DOMAIN pending'
  BY <1>2, <1>5, <1>7, <1>13
<1>10. \A u \in Threads : threads'[u] = "waiting" =>
             /\ u \in DOMAIN pending'
             /\ \/ u \in wakeups' \cup terminations'
                \/ pending'[u].semaphore \in DOMAIN semaphores' /\ u \in WaitersOf(semaphores', pending'[u].semaphore)
  <2> SUFFICES ASSUME NEW u \in Threads, threads'[u] = "waiting"
               PROVE  /\ u \in DOMAIN pending'
                      /\ \/ u \in wakeups' \cup terminations'
                         \/ /\ pending'[u].semaphore \in DOMAIN semaphores'
                            /\ u \in WaitersOf(semaphores', pending'[u].semaphore)
    OBVIOUS
  <2>1. u # t /\ threads[u] = "waiting" BY <1>5
  <2>2. u \in DOMAIN pending'
    BY <1>2, <1>5, <2>1
  <2>3. pending'[u] = pending[u] BY <1>2, <1>5, <2>1
  <2> QED BY <1>2, <1>3, <1>5, <1>13, <2>1, <2>2, <2>3
<1>11. \A u \in wakeups' : source'[u] = pending'[u].semaphore BY <1>2, <1>5, <1>7
<1>12. wakeups' \cap terminations' = {} BY <1>1, <1>2, <1>5
<1> QED BY <1>4, <1>8, <1>9, <1>10, <1>11, <1>12 DEF WaitsInv, Consistent

\* A step that changes no queue and no result, and leaves every blocked thread
\* blocked with its continuation.
LEMMA QuietStep ==
    ASSUME TypeInv, WaitsInv, UNCHANGED <<semaphores, wakeups, terminations, source>>,
           \A u \in Threads : threads'[u] = "waiting" <=> threads[u] = "waiting",
           \A u \in DOMAIN pending : threads[u] = "waiting" =>
               u \in DOMAIN pending' /\ pending'[u].semaphore = pending[u].semaphore
    PROVE  WaitsInv'
<1>1. \A x \in DOMAIN semaphores : WaitersOf(semaphores, x) \subseteq Threads
  BY WaitersAreThreads
<1>2. wakeups \cup terminations \subseteq Threads BY DEF TypeInv
<1>3. Consistent(semaphores, wakeups, terminations, pending, threads, source)
  BY DEF WaitsInv
<1>4. Consistent(semaphores, wakeups, terminations, pending', threads', source)
  BY <1>1, <1>2, <1>3 DEF Consistent
<1> QED BY <1>4 DEF WaitsInv

LEMMA CreateWaits ==
    ASSUME TypeInv, WaitsInv, NEW t \in Threads, NEW owner \in Tasks, NEW value,
           semaphore_create(t, owner, value)
    PROVE  WaitsInv'
<1> DEFINE new == [count |-> value, owner |-> owner, waiters |-> << >>]
           c == created + 1
<1>1. /\ semaphores' = [s \in DOMAIN semaphores \cup {c} |->
                           IF s = c THEN new ELSE semaphores[s]]
      /\ UNCHANGED <<wakeups, terminations, pending, threads, source>>
  BY DEF semaphore_create
<1>2. c \notin DOMAIN semaphores BY Numbers
<1>3. new.waiters = << >> OBVIOUS
<1> HIDE DEF new, c
<1>4. IsInjective(new.waiters) /\ Range(new.waiters) = {} BY <1>3, EmptyQueue DEF Queue
<1>5. /\ DOMAIN semaphores' = DOMAIN semaphores \cup {c}
      /\ semaphores'[c] = new
      /\ \A x \in DOMAIN semaphores : semaphores'[x] = semaphores[x]
  BY <1>1, <1>2
<1>6. NoDuplicates(semaphores') BY <1>4, <1>5 DEF NoDuplicates, WaitsInv
<1>7. /\ WaitersOf(semaphores', c) = {}
      /\ \A x \in DOMAIN semaphores : WaitersOf(semaphores', x) = WaitersOf(semaphores, x)
  BY <1>4, <1>5 DEF WaitersOf
<1>8. Consistent(semaphores, wakeups, terminations, pending, threads, source)
  BY DEF WaitsInv
<1>9. Consistent(semaphores', wakeups, terminations, pending, threads, source)
  BY <1>5, <1>7, <1>8 DEF Consistent
<1> QED BY <1>1, <1>6, <1>9 DEF WaitsInv

\* The waiters of a destroyed semaphore get their termination.
LEMMA DestroyWaits ==
    ASSUME TypeInv, WaitsInv, NEW t \in Threads, NEW s \in Objects, NEW target, NEW last,
           semaphore_destroy(t, s, target, last)
    PROVE  WaitsInv'
<1>1. /\ s \in DOMAIN semaphores
      /\ UNCHANGED <<wakeups, pending, threads, source>>
      /\ \/ UNCHANGED <<semaphores, terminations>>
         \/ /\ semaphores' = Without(semaphores, {s})
            /\ terminations' = terminations \cup WaitersOf(semaphores, s)
  BY DEF semaphore_destroy, WaitersOf
<1>2. CASE UNCHANGED <<semaphores, terminations>>
  BY <1>1, <1>2 DEF WaitsInv
<1>3. CASE /\ semaphores' = Without(semaphores, {s})
           /\ terminations' = terminations \cup WaitersOf(semaphores, s)
  <2>1. /\ DOMAIN semaphores' = DOMAIN semaphores \ {s}
        /\ \A x \in DOMAIN semaphores \ {s} : semaphores'[x] = semaphores[x]
    BY <1>3 DEF Without
  <2>2. NoDuplicates(semaphores') BY <2>1 DEF NoDuplicates, WaitsInv
  <2>3. \A x \in DOMAIN semaphores \ {s} : WaitersOf(semaphores', x) = WaitersOf(semaphores, x)
    BY <2>1 DEF WaitersOf
  <2>4. Consistent(semaphores, wakeups, terminations, pending, threads, source)
    BY DEF WaitsInv
  <2>5. terminations' = terminations \cup WaitersOf(semaphores, s) BY <1>3
  <2>6. Consistent(semaphores', wakeups, terminations', pending, threads, source)
    BY <1>1, <2>1, <2>3, <2>4, <2>5 DEF Consistent
  <2> QED BY <1>1, <2>2, <2>6 DEF WaitsInv
<1> QED BY <1>1, <1>2, <1>3

LEMMA ThreadsOfTask ==
    ASSUME NEW task, NEW u \in Threads PROVE u \in ThreadsOf(task) <=> u[1] = task
BY DEF Threads, ThreadsOf

LEMMA ExecWaits ==
    ASSUME TypeInv, WaitsInv, GuestsEndNoWaits, NEW t \in Threads, prepare_exec(t)
    PROVE  WaitsInv'
<1>1. /\ \A u \in ThreadsOf(t[1]) : threads[u] # "waiting"
      /\ threads' = [u \in Threads |-> IF u[1] # t[1] THEN threads[u]
                                       ELSE IF u = t THEN "running" ELSE "absent"]
      /\ pending' = Without(pending, ThreadsOf(t[1]))
      /\ UNCHANGED <<semaphores, wakeups, terminations, source>>
  BY DEF prepare_exec, GuestsEndNoWaits
<1>2. \A u \in Threads : u \in ThreadsOf(t[1]) <=> u[1] = t[1] BY ThreadsOfTask
<1>3. \A u \in Threads : threads'[u] = "waiting" <=> threads[u] = "waiting"
  BY <1>1, <1>2
<1>4. \A u \in DOMAIN pending : threads[u] = "waiting" =>
          u \in DOMAIN pending' /\ pending'[u].semaphore = pending[u].semaphore
  BY <1>1 DEF Without
<1> QED BY <1>1, <1>3, <1>4, QuietStep

\* An exit ends the waits of its task and nobody else's: those on its
\* semaphores are terminated.
LEMMA ExitWaits ==
    ASSUME TypeInv, WaitsInv, NEW task \in Tasks, exit_process(task)
    PROVE  WaitsInv'
<1> DEFINE left == DOMAIN semaphores \ Owned(task)
           gone == ThreadsOf(task)
           ended == UNION {WaitersOf(semaphores, s) : s \in Owned(task)}
<1>1. /\ threads' = [t \in Threads |-> IF t[1] = task THEN "absent" ELSE threads[t]]
      /\ pending' = Without(pending, gone)
      /\ terminations' = (terminations \cup ended) \ gone
      /\ wakeups' = wakeups \ gone
      /\ semaphores' = [s \in left |-> [semaphores[s] EXCEPT !.waiters = Erased(@, gone)]]
      /\ source' = [t \in Threads |-> IF t[1] = task THEN NoObject ELSE source[t]]
  BY DEF exit_process, WaitersOf
<1>2. Owned(task) \subseteq DOMAIN semaphores BY DEF Owned
<1>3. \A u \in Threads : u \in gone <=> u[1] = task BY ThreadsOfTask
<1> HIDE DEF gone
<1>4. ASSUME NEW x \in left
      PROVE  /\ IsInjective(semaphores'[x].waiters)
             /\ WaitersOf(semaphores', x) = WaitersOf(semaphores, x) \ gone
  <2> DEFINE r == semaphores[x]
  <2>1. IsInjective(r.waiters) /\ r \in SemaphoreRecords(alive) /\ r.waiters \in Seq(Threads)
    BY DEF WaitsInv, NoDuplicates, TypeInv, SemaphoreRecords
  <2>2. semaphores'[x].waiters = Erased(r.waiters, gone)
    <3>1. semaphores'[x] = [r EXCEPT !.waiters = Erased(@, gone)] BY <1>1
    <3> QED BY <2>1, <3>1, ErasedRecord
  <2>3. IsInjective(Erased(r.waiters, gone)) /\ Range(Erased(r.waiters, gone)) = Range(r.waiters) \ gone
    BY <2>1, ErasedQueue DEF Queue
  <2> QED BY <2>2, <2>3 DEF WaitersOf
<1>5. DOMAIN semaphores' = left BY <1>1
<1>6. NoDuplicates(semaphores') BY <1>4, <1>5 DEF NoDuplicates
<1>7. \A u \in Threads \ gone : threads'[u] = threads[u] /\ source'[u] = source[u]
  BY <1>1, <1>3
<1>8. \A u \in Threads : threads'[u] = "waiting" => u \notin gone /\ threads[u] = "waiting"
  BY <1>1, <1>3
<1>9. /\ DOMAIN pending' = DOMAIN pending \ gone
      /\ \A u \in DOMAIN pending \ gone : pending'[u] = pending[u]
  BY <1>1 DEF Without
<1>10. \A x \in DOMAIN semaphores : WaitersOf(semaphores, x) \subseteq Threads
  BY WaitersAreThreads
<1>11. wakeups \subseteq Threads /\ terminations \subseteq Threads BY DEF TypeInv
<1>12. terminations' = (terminations \cup ended) \ gone /\ wakeups' = wakeups \ gone BY <1>1
<1>13. \A u : u \in ended <=> \E s \in Owned(task) : u \in WaitersOf(semaphores, s) OBVIOUS
<1> HIDE DEF ended
<1>14. /\ \A x \in DOMAIN semaphores : \A u \in WaitersOf(semaphores, x) :
             /\ threads[u] = "waiting" /\ u \in DOMAIN pending /\ pending[u].semaphore = x
             /\ u \notin wakeups \cup terminations
       /\ \A u \in wakeups \cup terminations : threads[u] = "waiting" /\ u \in DOMAIN pending
       /\ wakeups \cap terminations = {}
       /\ \A u \in Threads : threads[u] = "waiting" =>
             /\ u \in DOMAIN pending
             /\ \/ u \in wakeups \cup terminations
                \/ /\ pending[u].semaphore \in DOMAIN semaphores
                   /\ u \in WaitersOf(semaphores, pending[u].semaphore)
       /\ \A u \in wakeups : source[u] = pending[u].semaphore
  BY DEF WaitsInv, Consistent
<1>15. ASSUME NEW x \in left, NEW u \in WaitersOf(semaphores', x)
       PROVE  /\ threads'[u] = "waiting" /\ u \in DOMAIN pending' /\ pending'[u].semaphore = x
              /\ u \notin wakeups' \cup terminations'
  <2>1. u \in WaitersOf(semaphores, x) /\ u \notin gone /\ x \in DOMAIN semaphores /\ u \in Threads
    BY <1>4, <1>10
  <2>2. /\ threads[u] = "waiting" /\ u \in DOMAIN pending /\ pending[u].semaphore = x
        /\ u \notin wakeups \cup terminations
    BY <1>14, <2>1
  <2>3. u \notin ended
    <3> SUFFICES ASSUME NEW s \in Owned(task), u \in WaitersOf(semaphores, s) PROVE FALSE
      BY <1>13
    <3>1. pending[u].semaphore = s BY <1>2, <1>14
    <3> QED BY <2>2, <3>1
  <2> QED BY <1>7, <1>9, <1>12, <2>1, <2>2, <2>3
<1>16. ASSUME NEW u \in ended PROVE threads[u] = "waiting" /\ u \in DOMAIN pending /\ u \in Threads
                                    /\ u \notin wakeups
  BY <1>2, <1>10, <1>13, <1>14
<1>17. \A u \in wakeups' \cup terminations' : threads'[u] = "waiting" /\ u \in DOMAIN pending'
  BY <1>7, <1>9, <1>11, <1>12, <1>14, <1>16
<1>18. wakeups' \cap terminations' = {} BY <1>12, <1>14, <1>16
<1>19. ASSUME NEW u \in Threads, threads'[u] = "waiting"
       PROVE  /\ u \in DOMAIN pending'
              /\ \/ u \in wakeups' \cup terminations'
                 \/ /\ pending'[u].semaphore \in left
                    /\ u \in WaitersOf(semaphores', pending'[u].semaphore)
  <2>1. u \notin gone /\ threads[u] = "waiting" BY <1>8, <1>19
  <2>2. u \in DOMAIN pending /\ pending'[u] = pending[u] /\ u \in DOMAIN pending'
    BY <1>9, <1>14, <2>1
  <2>3. CASE u \in wakeups \cup terminations BY <1>12, <2>1, <2>2, <2>3
  <2>4. CASE /\ pending[u].semaphore \in DOMAIN semaphores
             /\ u \in WaitersOf(semaphores, pending[u].semaphore)
    <3>1. CASE pending[u].semaphore \in Owned(task)
      <4>1. u \in ended BY <1>13, <2>4, <3>1
      <4> QED BY <1>12, <2>1, <2>2, <4>1
    <3>2. CASE pending[u].semaphore \notin Owned(task)
      <4>1. pending[u].semaphore \in left BY <2>4, <3>2
      <4> QED BY <1>4, <2>1, <2>2, <2>4, <4>1
    <3> QED BY <3>1, <3>2
  <2> QED BY <1>14, <2>1, <2>3, <2>4
<1>20. \A u \in wakeups' : source'[u] = pending'[u].semaphore
  BY <1>7, <1>9, <1>11, <1>12, <1>14
<1> HIDE DEF left
<1>21. Consistent(semaphores', wakeups', terminations', pending', threads', source')
  BY <1>5, <1>15, <1>17, <1>18, <1>19, <1>20 DEF Consistent
<1> QED BY <1>6, <1>21 DEF WaitsInv

LEMMA WaitsInit == Init => WaitsInv
<1> SUFFICES ASSUME Init PROVE WaitsInv OBVIOUS
<1>1. DOMAIN semaphores = {} BY DEF Init
<1>2. \A t \in Threads : threads[t] # "waiting" BY DEF Init
<1>3. wakeups = {} /\ terminations = {} BY DEF Init
<1> QED BY <1>1, <1>2, <1>3 DEF WaitsInv, NoDuplicates, Consistent

LEMMA WaitsStep == GuestsEndNoWaits /\ TypeInv /\ WaitsInv /\ [Next]_vars => WaitsInv'
<1> SUFFICES ASSUME GuestsEndNoWaits, TypeInv, WaitsInv, [Next]_vars PROVE WaitsInv'
  OBVIOUS
<1>1. CASE UNCHANGED vars BY <1>1 DEF vars, WaitsInv
<1>2. CASE Next
  <2>1. ASSUME NEW t \in Threads, Wait(t) PROVE WaitsInv'
    <3>1. Signals = {NoObject} \cup Objects BY DEF Signals, GuestsEndNoWaits
    <3> QED BY <2>1, <3>1, WaitWaits DEF Wait
  <2>2. ASSUME NEW t \in Threads, Signal(t) PROVE WaitsInv'
    BY <2>2, SignalWaits, SignalThreadWaits DEF Signal
  <2>3. ASSUME NEW t \in Threads, Own(t) PROVE WaitsInv'
    <3>1. ASSUME NEW s \in Objects,
                 (\E to \in Tasks : transfer_right(t, s, to)) \/ mach_port_deallocate(t, s)
          PROVE  WaitsInv'
      <4>1. UNCHANGED <<semaphores, wakeups, terminations, pending, threads, source>>
        BY <3>1 DEF transfer_right, mach_port_deallocate
      <4> QED BY <4>1, QuietStep
    <3> QED BY <2>3, <3>1, CreateWaits, DestroyWaits DEF Own
  <2>4. ASSUME NEW t \in Threads, thread_create(t) PROVE WaitsInv'
    <3>1. UNCHANGED mix BY <1>2 DEF Next
    <3>2. PICK u \in Threads : threads[u] = "absent" /\ threads' = [threads EXCEPT ![u] = "running"]
      BY <2>4, <3>1, ThreadCreateType
    <3>3. UNCHANGED <<semaphores, wakeups, terminations, pending, source>>
      BY <2>4 DEF thread_create
    <3>4. \A v \in Threads : threads'[v] = "waiting" <=> threads[v] = "waiting"
      BY <3>2 DEF TypeInv
    <3> QED BY <3>3, <3>4, QuietStep
  <2>5. ASSUME NEW t \in Threads, NEW target \in Threads, thread_terminate(t, target)
        PROVE  WaitsInv'
    <3>1. /\ threads[target] = "running" /\ threads' = [threads EXCEPT ![target] = "absent"]
          /\ UNCHANGED <<semaphores, wakeups, terminations, pending, source>>
      BY <2>5 DEF thread_terminate, GuestsEndNoWaits
    <3>2. \A v \in Threads : threads'[v] = "waiting" <=> threads[v] = "waiting"
      BY <3>1 DEF TypeInv
    <3> QED BY <3>1, <3>2, QuietStep
  <2>6. ASSUME NEW t \in Threads, prepare_exec(t) PROVE WaitsInv' BY <2>6, ExecWaits
  <2>7. ASSUME NEW t \in Threads, deliver_pending_io(t) PROVE WaitsInv' BY <2>7, DeliverWaits
  <2>8. ASSUME NEW task \in Tasks, exit_process(task) PROVE WaitsInv' BY <2>8, ExitWaits
  <2>9. ASSUME advance_time PROVE WaitsInv'
    <3>1. /\ pending' = [t \in DOMAIN pending |->
                 [pending[t] EXCEPT !.deadline = IF @ > 0 THEN @ - 1 ELSE @]]
          /\ UNCHANGED <<semaphores, wakeups, terminations, threads, source>>
      BY <2>9 DEF advance_time
    <3>2. \A t \in DOMAIN pending : pending[t] \in [semaphore : 1 .. created, deadline : Deadlines]
      BY DEF TypeInv
    <3>3. \A t \in DOMAIN pending : t \in DOMAIN pending' /\ pending'[t].semaphore = pending[t].semaphore
      BY <3>1, <3>2
    <3> QED BY <3>1, <3>3, QuietStep
  <2> QED BY <1>2, <2>1, <2>2, <2>3, <2>4, <2>5, <2>6, <2>7, <2>8, <2>9 DEF Next, Lifecycle
<1> QED BY <1>1, <1>2

LEMMA WaitsInvariant == GuestsEndNoWaits /\ Spec => []WaitsInv
<1>1. CASE GuestsEndNoWaits
  <2>1. TypeInv /\ WaitsInv /\ [Next]_vars => WaitsInv' BY <1>1, WaitsStep
  <2> QED BY <2>1, WaitsInit, TypeInvariant, PTL DEF Spec
<1> QED BY <1>1

\* The waits and the semaphores describe the same waiters in every state: no
\* blocked thread is forgotten and no result goes to a thread that does not
\* wait, through any interleaving of signals, timeouts, destructions and exits
\* of any number of tasks, as long as no guest ends a blocked thread by force.
THEOREM WaitsAgree == GuestsEndNoWaits /\ Spec => []WaitsExact
<1>1. TypeInv /\ WaitsInv => WaitsExact
  <2> SUFFICES ASSUME TypeInv, WaitsInv PROVE WaitsExact OBVIOUS
  <2>1. /\ NoDuplicates(semaphores)
        /\ Consistent(semaphores, wakeups, terminations, pending, threads, source)
    BY DEF WaitsInv
  <2>2. \A t : QueuedOn(t) = {s \in DOMAIN semaphores : t \in WaitersOf(semaphores, s)}
    BY DEF QueuedOn, WaitersOf
  <2>3. BlockedWaitsAreReachable
    <3> SUFFICES ASSUME NEW t \in Threads, threads[t] = "waiting"
                 PROVE  /\ t \in DOMAIN pending
                        /\ \/ QueuedOn(t) = {pending[t].semaphore}
                           \/ QueuedOn(t) = {} /\ t \in wakeups \cup terminations
      BY DEF BlockedWaitsAreReachable
    <3>1. /\ t \in DOMAIN pending
          /\ \/ t \in wakeups \cup terminations
             \/ /\ pending[t].semaphore \in DOMAIN semaphores
                /\ t \in WaitersOf(semaphores, pending[t].semaphore)
      BY <2>1 DEF Consistent
    <3>2. \A s \in DOMAIN semaphores : t \in WaitersOf(semaphores, s) =>
              pending[t].semaphore = s /\ t \notin wakeups \cup terminations
      BY <2>1 DEF Consistent
    <3>3. CASE t \in wakeups \cup terminations BY <2>2, <3>1, <3>2, <3>3
    <3>4. CASE /\ pending[t].semaphore \in DOMAIN semaphores
               /\ t \in WaitersOf(semaphores, pending[t].semaphore)
      BY <2>2, <3>1, <3>2, <3>4
    <3> QED BY <3>1, <3>3, <3>4
  <2>4. ResultsGoToWaiters
    <3>1. \A s \in DOMAIN semaphores :
              /\ IsInjective(semaphores[s].waiters)
              /\ \A t \in Range(semaphores[s].waiters) : threads[t] = "waiting" /\ WaitsOn(t, s)
      BY <2>1 DEF NoDuplicates, Consistent, WaitsOn, WaitersOf
    <3>2. \A t \in wakeups \cup terminations :
              threads[t] = "waiting" /\ t \in DOMAIN pending /\ QueuedOn(t) = {}
      BY <2>1, <2>2 DEF Consistent
    <3> QED BY <2>1, <3>1, <3>2 DEF ResultsGoToWaiters, Consistent
  <2>5. NoWaitBesidePrepost BY DEF TypeInv, NoWaitBesidePrepost, SemaphoreRecords
  <2> QED BY <2>3, <2>4, <2>5 DEF WaitsExact
<1> QED BY <1>1, TypeInvariant, WaitsInvariant, PTL

\* A blocked wait returns success only for a signal of the very semaphore it
\* waits on, posted during this wait, under the same hypothesis.
THEOREM SuccessIsSignalled == GuestsEndNoWaits /\ Spec => SuccessWasSignalled
<1>1. WaitsInv => [\A t \in Threads :
          /\ threads[t] = "waiting" /\ threads'[t] = "running"
          /\ t \in wakeups /\ t \notin wakeups'
          => source[t] = pending[t].semaphore]_vars
  BY DEF WaitsInv, Consistent
<1> QED BY <1>1, WaitsInvariant, PTL DEF SuccessWasSignalled
=============================================================================
