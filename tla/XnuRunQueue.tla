----------------------------- MODULE XnuRunQueue -----------------------------
(***************************************************************************)
(* The run queues of XnuScheduler: one for the processor set and one for   *)
(* each processor, with the caches the code keeps beside the 128 lists     *)
(* (bitmap, high_queue, count, realtime_order) and the place every thread  *)
(* record remembers (queued, queued_priority, queued_processor,            *)
(* realtime_queue_key).  enqueue and remove_from_queue are functions from  *)
(* a run-queue state to a run-queue state; XnuScheduler applies them.      *)
(***************************************************************************)
EXTENDS Integers, Sequences, FiniteSets

CONSTANTS
    Threads,                \* thread identities; XnuThreadId is ordered, so numbers
    ProcessorCount,         \* number of guest processors
    RealtimeQueuePriority,  \* xnu792::scheduler::realtime_queue_priority (97)
    MaxPriority             \* xnu792::scheduler::maximum_priority (127)

ASSUME RunQueueAssumption ==
    /\ Threads \subseteq Nat
    /\ IsFiniteSet(Threads)
    /\ ProcessorCount \in Nat \ {0}
    /\ RealtimeQueuePriority \in Nat
    /\ MaxPriority \in Nat
    /\ RealtimeQueuePriority <= MaxPriority

Processors == 0 .. ProcessorCount - 1
Priorities == 0 .. MaxPriority

\* An absent processor.  It is also the key of the processor-set run queue,
\* because an unbound thread is queued there.
PSet == -1
QueueKeys == {PSet} \cup Processors

NoQueue == -1           \* high_queue of an empty run queue
NoKey   == -1           \* absent realtime_queue_key

NotQueued == [queued |-> FALSE, priority |-> 0, processor |-> PSet, key |-> NoKey]

EmptyRunQueues ==
    [queues         |-> [c \in QueueKeys |-> [p \in Priorities |-> << >>]],
     realtime_order |-> [c \in QueueKeys |-> {}],
     bitmap         |-> [c \in QueueKeys |-> {}],
     high_queue     |-> [c \in QueueKeys |-> NoQueue],
     count          |-> [c \in QueueKeys |-> 0],
     place          |-> [t \in Threads |-> NotQueued],
     runnable_count |-> 0]

Larger(a, b) == IF a >= b THEN a ELSE b

\* The highest set bit of the bitmap, or -1: the scan from the last word.
refresh_high_queue(bits) ==
    IF bits = {} THEN NoQueue ELSE CHOOSE p \in bits : \A o \in bits : o <= p

\* A std::list without the element at position i.
EraseAt(list, i) ==
    [j \in 1 .. Len(list) - 1 |-> IF j < i THEN list[j] ELSE list[j + 1]]

PushFront(list, t) ==
    [j \in 1 .. Len(list) + 1 |-> IF j = 1 THEN t ELSE list[j - 1]]

\* Where the iterator queue_position points: list nodes do not move.
PositionOf(list, t) == CHOOSE i \in 1 .. Len(list) : list[i] = t

\* How a thread enters a queue: what enqueue reads of its record.
Ticket(priority, processor, realtime, deadline) ==
    [priority  |-> priority,
     processor |-> processor,
     key       |-> IF realtime /\ priority >= RealtimeQueuePriority
                   THEN deadline ELSE NoKey]

\* Real-time threads are always appended; their order is realtime_order.
enqueue(rq, t, ticket, front) ==
    LET p == ticket.priority
        c == ticket.processor
        realtime == ticket.key # NoKey
    IN  IF rq.place[t].queued THEN rq
        ELSE [rq EXCEPT
               !.queues[c][p] = IF front /\ ~realtime THEN PushFront(@, t)
                                                      ELSE Append(@, t),
               !.realtime_order[c] = IF realtime THEN @ \cup {<<ticket.key, t>>}
                                                 ELSE @,
               !.bitmap[c] = @ \cup {p},
               !.high_queue[c] = Larger(@, p),
               !.count[c] = @ + 1,
               !.place[t] = [queued |-> TRUE, priority |-> p, processor |-> c,
                             key |-> ticket.key],
               !.runnable_count = @ + 1]

remove_from_queue(rq, t) ==
    LET place == rq.place[t]
        p == place.priority
        c == place.processor
        rest == EraseAt(rq.queues[c][p], PositionOf(rq.queues[c][p], t))
        bits == IF rest = << >> THEN rq.bitmap[c] \ {p} ELSE rq.bitmap[c]
    IN  IF ~place.queued THEN rq
        ELSE [rq EXCEPT
               !.queues[c][p] = rest,
               !.realtime_order[c] = @ \ {<<place.key, t>>},
               !.bitmap[c] = bits,
               !.high_queue[c] = IF rest = << >> /\ p = @
                                 THEN refresh_high_queue(bits) ELSE @,
               !.count[c] = @ - 1,
               !.place[t] = NotQueued,
               !.runnable_count = @ - 1]

\* A processor prefers its own queue at equal priority.
HasCandidate(rq, proc) == rq.count[proc] # 0 \/ rq.count[PSet] # 0

selected_run_queue_local(rq, proc) == IF rq.count[proc] # 0 THEN proc ELSE PSet

selected_run_queue(rq, proc) ==
    IF rq.count[proc] # 0 /\ rq.high_queue[proc] >= rq.high_queue[PSet]
    THEN proc ELSE PSet

\* std::set order of realtime_order: deadline, then thread identity.
Before(a, b) == a[1] < b[1] \/ (a[1] = b[1] /\ a[2] <= b[2])

FirstRealtime_latest(rq, c) ==
    (CHOOSE k \in rq.realtime_order[c] : \A o \in rq.realtime_order[c] : Before(o, k))[2]

FirstRealtime(rq, c) ==
    (CHOOSE k \in rq.realtime_order[c] : \A o \in rq.realtime_order[c] : Before(k, o))[2]

\* The conditions under which peek_highest throws std::logic_error: the caches
\* disagree with the lists.  A throw ends the emulator.
PeekThrows(rq, c) ==
    LET p == rq.high_queue[c] IN
    IF p >= RealtimeQueuePriority
    THEN \/ rq.realtime_order[c] = {}
         \/ ~rq.place[FirstRealtime(rq, c)].queued
         \/ rq.place[FirstRealtime(rq, c)].priority # p
    ELSE p < 0 \/ rq.queues[c][p] = << >>

peek_highest(rq, c) ==
    LET p == rq.high_queue[c] IN
    IF p >= RealtimeQueuePriority THEN FirstRealtime(rq, c)
                                  ELSE Head(rq.queues[c][p])

(***************************************************************************)
(* What the lists, the caches and the thread records must agree on.        *)
(***************************************************************************)
Queued(rq, c) == {t \in Threads : rq.place[t].queued /\ rq.place[t].processor = c}
AllQueued(rq) == {t \in Threads : rq.place[t].queued}

Places == [queued : BOOLEAN, priority : Priorities, processor : QueueKeys,
           key : {NoKey} \cup Nat]

RunQueueType(rq) ==
    /\ rq \in [queues : [QueueKeys -> [Priorities -> Seq(Threads)]],
               realtime_order : [QueueKeys -> SUBSET (Nat \X Threads)],
               bitmap : [QueueKeys -> SUBSET Priorities],
               high_queue : [QueueKeys -> Priorities \cup {NoQueue}],
               count : [QueueKeys -> Nat],
               place : [Threads -> Places],
               runnable_count : Nat]

\* A list holds exactly the threads whose record says they are queued there,
\* each of them once.
ListsMatchPlaces(rq) ==
    \A c \in QueueKeys, p \in Priorities :
        LET list == rq.queues[c][p] IN
        /\ \A i, j \in 1 .. Len(list) : list[i] = list[j] => i = j
        /\ \A i \in 1 .. Len(list) :
               /\ rq.place[list[i]].queued
               /\ rq.place[list[i]].processor = c
               /\ rq.place[list[i]].priority = p

PlacesMatchLists(rq) ==
    \A t \in Threads : rq.place[t].queued =>
        LET list == rq.queues[rq.place[t].processor][rq.place[t].priority]
        IN  \E i \in 1 .. Len(list) : list[i] = t

\* The bitmap has a bit for every non-empty list, and high_queue is its
\* highest bit.
BitmapExact(rq) ==
    \A c \in QueueKeys, p \in Priorities :
        p \in rq.bitmap[c] <=> rq.queues[c][p] # << >>

HighQueueExact(rq) ==
    \A c \in QueueKeys :
        /\ rq.high_queue[c] = NoQueue <=> rq.bitmap[c] = {}
        /\ rq.bitmap[c] # {} => rq.high_queue[c] \in rq.bitmap[c]
        /\ \A p \in rq.bitmap[c] : p <= rq.high_queue[c]

\* realtime_order indexes exactly the queued threads that hold a key.
RealtimeOrderExact(rq) ==
    \A c \in QueueKeys :
        rq.realtime_order[c] =
            {<<rq.place[t].key, t>> : t \in {u \in Queued(rq, c) : rq.place[u].key # NoKey}}

CountsExact(rq) ==
    /\ \A c \in QueueKeys : rq.count[c] = Cardinality(Queued(rq, c))
    /\ rq.runnable_count = Cardinality(AllQueued(rq))

RunQueueOK(rq) ==
    /\ RunQueueType(rq)
    /\ ListsMatchPlaces(rq)
    /\ PlacesMatchLists(rq)
    /\ BitmapExact(rq)
    /\ HighQueueExact(rq)
    /\ RealtimeOrderExact(rq)
    /\ CountsExact(rq)
=============================================================================
