------------------------- MODULE XnuSchedulerProofs -------------------------
(***************************************************************************)
(* Theorems about XnuScheduler, for any number of threads and processors   *)
(* and any values of the quanta, limits and policy parameters.             *)
(***************************************************************************)
EXTENDS XnuScheduler, FiniteSetTheorems, NaturalsInduction, WellFoundedInduction, TLAPS

-----------------------------------------------------------------------------
(***************************************************************************)
(* The run-queue operators keep the lists, the caches and the places of    *)
(* the threads in agreement (RunQueueOK).                                  *)
(***************************************************************************)

\* A non-empty bitmap has a highest bit: what refresh_high_queue finds.
LEMMA HighestBitExists ==
    ASSUME NEW bits \in SUBSET Priorities, bits # {}
    PROVE  \E p \in bits : \A o \in bits : o <= p
<1>1. MaxPriority \in Nat BY RunQueueAssumption
<1> DEFINE Gap == {MaxPriority - p : p \in bits}
<1>2. Gap \subseteq Nat /\ Gap # {} BY <1>1 DEF Priorities
<1> DEFINE Less == {ss \in Nat \X Nat : ss[1] < ss[2]}
<1>3. IsWellFoundedOn(Less, Nat) BY NatLessThanWellFounded DEF OpToRel
<1> HIDE DEF Less
<1>4. PICK g \in Gap : \A o \in Gap : ~(<<o, g>> \in Less) BY <1>2, <1>3, WFMin
<1>7. ASSUME NEW o \in Gap PROVE g <= o
  <2>1. o \in Nat /\ g \in Nat BY <1>2
  <2>2. o < g => <<o, g>> \in Less BY <2>1 DEF Less
  <2>3. ~(o < g) BY <1>4, <2>2
  <2> QED BY <2>1, <2>3
<1>5. PICK p \in bits : g = MaxPriority - p OBVIOUS
<1>6. \A o \in bits : o <= p BY <1>1, <1>5, <1>7 DEF Priorities
<1> QED BY <1>6

LEMMA RefreshHighQueue ==
    ASSUME NEW bits \in SUBSET Priorities
    PROVE  LET h == refresh_high_queue(bits) IN
           /\ h \in Priorities \cup {NoQueue}
           /\ h = NoQueue <=> bits = {}
           /\ bits # {} => h \in bits
           /\ \A p \in bits : p <= h
<1>1. CASE bits = {} BY <1>1 DEF refresh_high_queue, NoQueue
<1>2. CASE bits # {}
  <2>1. \E p \in bits : \A o \in bits : o <= p BY <1>2, HighestBitExists
  <2>2. refresh_high_queue(bits) \in bits /\ \A o \in bits : o <= refresh_high_queue(bits)
    BY <1>2, <2>1 DEF refresh_high_queue
  <2>3. NoQueue \notin bits BY RunQueueAssumption DEF NoQueue, Priorities
  <2> QED BY <1>2, <2>2, <2>3
<1> QED BY <1>1, <1>2

\* Erasing one position of a list without duplicates removes exactly one thread.
LEMMA EraseList ==
    ASSUME NEW S, NEW list \in Seq(S), NEW i \in 1 .. Len(list),
           \A j, k \in 1 .. Len(list) : list[j] = list[k] => j = k
    PROVE  LET rest == EraseAt(list, i) IN
           /\ rest \in Seq(S)
           /\ Len(rest) = Len(list) - 1
           /\ \A j, k \in 1 .. Len(rest) : rest[j] = rest[k] => j = k
           /\ \A j \in 1 .. Len(rest) : \E k \in 1 .. Len(list) : k # i /\ rest[j] = list[k]
           /\ \A k \in 1 .. Len(list) : k # i => \E j \in 1 .. Len(rest) : rest[j] = list[k]
<1> DEFINE rest == EraseAt(list, i)
<1>1. Len(list) \in Nat /\ Len(list) >= 1 OBVIOUS
<1>2. rest = [j \in 1 .. Len(list) - 1 |-> IF j < i THEN list[j] ELSE list[j + 1]]
  BY DEF EraseAt
<1>3. rest \in [1 .. Len(list) - 1 -> S] BY <1>1, <1>2
<1>4. rest \in Seq(S) /\ Len(rest) = Len(list) - 1 BY <1>1, <1>3
<1>5. \A j, k \in 1 .. Len(rest) : rest[j] = rest[k] => j = k BY <1>1, <1>2, <1>4
<1>6. \A j \in 1 .. Len(rest) : \E k \in 1 .. Len(list) : k # i /\ rest[j] = list[k]
  <2> SUFFICES ASSUME NEW j \in 1 .. Len(rest)
               PROVE  \E k \in 1 .. Len(list) : k # i /\ rest[j] = list[k]
    OBVIOUS
  <2>1. CASE j < i BY <1>1, <1>2, <1>4, <2>1
  <2>2. CASE ~(j < i)
    <3>1. j + 1 \in 1 .. Len(list) /\ j + 1 # i /\ rest[j] = list[j + 1]
      BY <1>1, <1>2, <1>4, <2>2
    <3> QED BY <3>1
  <2> QED BY <2>1, <2>2
<1>7. \A k \in 1 .. Len(list) : k # i => \E j \in 1 .. Len(rest) : rest[j] = list[k]
  <2> SUFFICES ASSUME NEW k \in 1 .. Len(list), k # i
               PROVE  \E j \in 1 .. Len(rest) : rest[j] = list[k]
    OBVIOUS
  <2>1. CASE k < i BY <1>1, <1>2, <1>4, <2>1
  <2>2. CASE ~(k < i)
    <3>1. k - 1 \in 1 .. Len(rest) /\ rest[k - 1] = list[k] BY <1>1, <1>2, <1>4, <2>2
    <3> QED BY <3>1
  <2> QED BY <2>1, <2>2
<1> QED BY <1>4, <1>5, <1>6, <1>7

LEMMA PushFrontList ==
    ASSUME NEW S, NEW list \in Seq(S), NEW t \in S
    PROVE  LET new == PushFront(list, t) IN
           /\ new \in Seq(S)
           /\ Len(new) = Len(list) + 1
           /\ new[1] = t
           /\ \A j \in 1 .. Len(list) : new[j + 1] = list[j]
<1>1. Len(list) \in Nat OBVIOUS
<1>2. PushFront(list, t) \in [1 .. Len(list) + 1 -> S] BY <1>1 DEF PushFront
<1>3. PushFront(list, t) \in Seq(S) /\ Len(PushFront(list, t)) = Len(list) + 1 BY <1>1, <1>2
<1> QED BY <1>1, <1>3 DEF PushFront

-----------------------------------------------------------------------------
\* remove_from_queue keeps the agreement and leaves the thread unqueued.
LEMMA RemoveKeepsAgreement ==
    ASSUME NEW q, RunQueueOK(q), NEW t \in Threads
    PROVE  LET n == remove_from_queue(q, t) IN
           /\ RunQueueOK(n)
           /\ n.place = [q.place EXCEPT ![t] = IF @.queued THEN NotQueued ELSE @]
<1> DEFINE n == remove_from_queue(q, t)
<1>1. CASE ~q.place[t].queued
  <2>1. n = q BY <1>1 DEF remove_from_queue
  <2>2. q.place \in [Threads -> Places] BY DEF RunQueueOK, RunQueueType
  <2>3. q.place = [q.place EXCEPT ![t] = IF @.queued THEN NotQueued ELSE @] BY <1>1, <2>2
  <2> QED BY <2>1, <2>3
<1>2. CASE q.place[t].queued
  <2> DEFINE c == q.place[t].processor
             p == q.place[t].priority
             list == q.queues[c][p]
             i == PositionOf(list, t)
             rest == EraseAt(list, i)
             bits == IF rest = << >> THEN q.bitmap[c] \ {p} ELSE q.bitmap[c]
             high == IF rest = << >> /\ p = q.high_queue[c]
                     THEN refresh_high_queue(bits) ELSE q.high_queue[c]
  <2>1. /\ q.place[t] \in Places /\ c \in QueueKeys /\ p \in Priorities
        /\ list \in Seq(Threads) /\ q.bitmap[c] \in SUBSET Priorities
        /\ q.high_queue[c] \in Priorities \cup {NoQueue}
    BY DEF RunQueueOK, RunQueueType, Places
  <2>e. /\ q.place[t].processor = c /\ q.place[t].priority = p /\ q.queues[c][p] = list
        /\ rest = EraseAt(list, i) OBVIOUS
  <2>t. /\ q.queues \in [QueueKeys -> [Priorities -> Seq(Threads)]]
        /\ q.realtime_order \in [QueueKeys -> SUBSET (Nat \X Threads)]
        /\ q.bitmap \in [QueueKeys -> SUBSET Priorities]
        /\ q.high_queue \in [QueueKeys -> Priorities \cup {NoQueue}]
        /\ q.count \in [QueueKeys -> Nat]
        /\ q.place \in [Threads -> Places]
        /\ q.runnable_count \in Nat
    BY DEF RunQueueOK, RunQueueType
  <2>2. i \in 1 .. Len(list) /\ list[i] = t
    <3>1. \E j \in 1 .. Len(list) : list[j] = t BY <1>2 DEF RunQueueOK, PlacesMatchLists
    <3> QED BY <3>1 DEF PositionOf
  <2>3. \A j, k \in 1 .. Len(list) : list[j] = list[k] => j = k
    <3> HIDE DEF c, p, list
    <3> QED BY <2>1, <2>e DEF RunQueueOK, ListsMatchPlaces
  <2>4. /\ rest \in Seq(Threads)
        /\ Len(rest) = Len(list) - 1
        /\ \A j, k \in 1 .. Len(rest) : rest[j] = rest[k] => j = k
        /\ \A j \in 1 .. Len(rest) : \E k \in 1 .. Len(list) : k # i /\ rest[j] = list[k]
        /\ \A k \in 1 .. Len(list) : k # i => \E j \in 1 .. Len(rest) : rest[j] = list[k]
    <3> HIDE DEF c, p, list, i
    <3> QED BY <2>1, <2>2, <2>3, EraseList
  <2>5. /\ n.queues = [q.queues EXCEPT ![c][p] = rest]
        /\ n.realtime_order = [q.realtime_order EXCEPT ![c] = @ \ {<<q.place[t].key, t>>}]
        /\ n.bitmap = [q.bitmap EXCEPT ![c] = bits]
        /\ n.high_queue = [q.high_queue EXCEPT ![c] = high]
        /\ n.count = [q.count EXCEPT ![c] = @ - 1]
        /\ n.place = [q.place EXCEPT ![t] = NotQueued]
        /\ n.runnable_count = q.runnable_count - 1
        /\ n = [queues |-> n.queues, realtime_order |-> n.realtime_order,
                bitmap |-> n.bitmap, high_queue |-> n.high_queue, count |-> n.count,
                place |-> n.place, runnable_count |-> n.runnable_count]
    BY <1>2 DEF RunQueueOK, RunQueueType, remove_from_queue
  <2> HIDE DEF n, c, p, list, i, rest
  <2>6. \A j \in 1 .. Len(rest) : rest[j] # t /\ \E k \in 1 .. Len(list) : rest[j] = list[k]
    <3> SUFFICES ASSUME NEW j \in 1 .. Len(rest)
                 PROVE  rest[j] # t /\ \E k \in 1 .. Len(list) : rest[j] = list[k]
      OBVIOUS
    <3>1. PICK k \in 1 .. Len(list) : k # i /\ rest[j] = list[k] BY <2>4
    <3>2. list[k] # list[i] BY <2>2, <2>3, <3>1
    <3> QED BY <2>2, <3>1, <3>2
  <2>7. \A u \in Threads : u # t => n.place[u] = q.place[u]
    BY <2>5 DEF RunQueueOK, RunQueueType
  <2>8. n.place[t] = NotQueued /\ ~NotQueued.queued /\ NotQueued \in Places
    <3>1. n.place[t] = NotQueued BY <2>5 DEF RunQueueOK, RunQueueType
    <3>2. NotQueued \in Places /\ ~NotQueued.queued
      BY RunQueueAssumption DEF NotQueued, Places, Priorities, QueueKeys, PSet, NoKey
    <3> QED BY <3>1, <3>2
  <2> HIDE DEF bits, high
  <2>q. /\ n.queues \in [QueueKeys -> [Priorities -> Seq(Threads)]]
        /\ n.queues[c][p] = rest
        /\ \A d \in QueueKeys, o \in Priorities :
               (d # c \/ o # p) => n.queues[d][o] = q.queues[d][o]
    BY <2>1, <2>4, <2>5, <2>t
  <2>9. ListsMatchPlaces(n)
    <3> SUFFICES ASSUME NEW d \in QueueKeys, NEW o \in Priorities
                 PROVE  LET l == n.queues[d][o] IN
                        /\ \A j, k \in 1 .. Len(l) : l[j] = l[k] => j = k
                        /\ \A j \in 1 .. Len(l) :
                               /\ n.place[l[j]].queued
                               /\ n.place[l[j]].processor = d
                               /\ n.place[l[j]].priority = o
      BY DEF ListsMatchPlaces
    <3>1. CASE d = c /\ o = p
      <4>1. \A k \in 1 .. Len(list) : /\ q.place[list[k]].queued
                                      /\ q.place[list[k]].processor = c
                                      /\ q.place[list[k]].priority = p
        BY <2>1, <2>e DEF RunQueueOK, ListsMatchPlaces
      <4>2. \A j \in 1 .. Len(rest) : rest[j] \in Threads BY <2>4
      <4>3. \A j \in 1 .. Len(rest) : n.place[rest[j]] = q.place[rest[j]] BY <2>6, <2>7, <4>2
      <4>4. \A j \in 1 .. Len(rest) : /\ n.place[rest[j]].queued
                                      /\ n.place[rest[j]].processor = c
                                      /\ n.place[rest[j]].priority = p
        <5> SUFFICES ASSUME NEW j \in 1 .. Len(rest)
                     PROVE  /\ n.place[rest[j]].queued
                            /\ n.place[rest[j]].processor = c
                            /\ n.place[rest[j]].priority = p
          OBVIOUS
        <5>1. PICK k \in 1 .. Len(list) : rest[j] = list[k] BY <2>6
        <5>2. n.place[rest[j]] = q.place[list[k]] BY <4>3, <5>1
        <5> QED BY <4>1, <5>1, <5>2
      <4>5. n.queues[d][o] = rest BY <2>q, <3>1
      <4>6. \A j, k \in 1 .. Len(rest) : rest[j] = rest[k] => j = k BY <2>4
      <4>7. /\ \A j, k \in 1 .. Len(rest) : rest[j] = rest[k] => j = k
            /\ \A j \in 1 .. Len(rest) : /\ n.place[rest[j]].queued
                                          /\ n.place[rest[j]].processor = d
                                          /\ n.place[rest[j]].priority = o
        BY <3>1, <4>4, <4>6, Zenon
      <4> QED BY <4>5, <4>7, Zenon
    <3>2. CASE ~(d = c /\ o = p)
      <4>1. n.queues[d][o] = q.queues[d][o] BY <3>2, <2>q
      <4>2. q.queues[d][o] \in Seq(Threads) BY DEF RunQueueOK, RunQueueType
      <4>3. \A j \in 1 .. Len(q.queues[d][o]) :
                /\ q.queues[d][o][j] \in Threads
                /\ q.queues[d][o][j] # t
        BY <3>2, <4>2, <2>e DEF RunQueueOK, ListsMatchPlaces
      <4> QED BY <2>7, <4>1, <4>3 DEF RunQueueOK, ListsMatchPlaces
    <3> QED BY <3>1, <3>2
  <2>10. PlacesMatchLists(n)
    <3> SUFFICES ASSUME NEW u \in Threads, n.place[u].queued
                 PROVE  LET l == n.queues[n.place[u].processor][n.place[u].priority]
                        IN  \E j \in 1 .. Len(l) : l[j] = u
      BY DEF PlacesMatchLists
    <3>1. u # t BY <2>8
    <3>2. n.place[u] = q.place[u] BY <2>7, <3>1
    <3> DEFINE d == q.place[u].processor
               o == q.place[u].priority
    <3>3. d \in QueueKeys /\ o \in Priorities BY DEF RunQueueOK, RunQueueType, Places
    <3>4. PICK k \in 1 .. Len(q.queues[d][o]) : q.queues[d][o][k] = u
      BY <3>2 DEF RunQueueOK, PlacesMatchLists
    <3>5. CASE d = c /\ o = p
      <4>1. k # i BY <2>2, <2>e, <3>1, <3>4, <3>5
      <4>2. \E j \in 1 .. Len(rest) : rest[j] = list[k] BY <2>4, <2>e, <3>4, <3>5, <4>1
      <4> QED BY <2>q, <2>e, <3>2, <3>4, <3>5, <4>2
    <3>6. CASE ~(d = c /\ o = p) BY <2>q, <3>2, <3>3, <3>4, <3>6
    <3> QED BY <3>5, <3>6
  <2>b. /\ n.bitmap \in [QueueKeys -> SUBSET Priorities]
        /\ n.bitmap[c] = bits
        /\ \A d \in QueueKeys : d # c => n.bitmap[d] = q.bitmap[d]
    BY <2>1, <2>5, <2>t DEF bits
  <2>11. BitmapExact(n)
    <3>1. list # << >> BY <2>1, <2>2
    <3>2. p \in q.bitmap[c] BY <2>1, <2>e, <3>1 DEF RunQueueOK, BitmapExact
    <3>3. \A d \in QueueKeys, o \in Priorities :
              o \in q.bitmap[d] <=> q.queues[d][o] # << >>
      BY DEF RunQueueOK, BitmapExact
    <3> SUFFICES ASSUME NEW d \in QueueKeys, NEW o \in Priorities
                 PROVE  o \in n.bitmap[d] <=> n.queues[d][o] # << >>
      BY DEF BitmapExact
    <3>4. CASE d = c /\ o = p BY <2>b, <2>q, <3>2, <3>4 DEF bits
    <3>5. CASE d = c /\ o # p BY <2>b, <2>q, <3>3, <3>5 DEF bits
    <3>6. CASE d # c BY <2>b, <2>q, <3>3, <3>6
    <3> QED BY <3>4, <3>5, <3>6
  <2>h. /\ n.high_queue[c] = high
        /\ \A d \in QueueKeys : d # c => n.high_queue[d] = q.high_queue[d]
    BY <2>1, <2>5 DEF RunQueueOK, RunQueueType
  <2>12. HighQueueExact(n) /\ high \in Priorities \cup {NoQueue}
    <3>1. /\ q.high_queue[c] = NoQueue <=> q.bitmap[c] = {}
          /\ q.bitmap[c] # {} => q.high_queue[c] \in q.bitmap[c]
          /\ \A o \in q.bitmap[c] : o <= q.high_queue[c]
      BY <2>1 DEF RunQueueOK, HighQueueExact
    <3>2. bits \in SUBSET Priorities BY <2>1 DEF bits
    <3>3. p \in q.bitmap[c]
      <4>1. list # << >> BY <2>1, <2>2
      <4> QED BY <2>1, <2>e, <4>1 DEF RunQueueOK, BitmapExact
    <3>4. /\ high \in Priorities \cup {NoQueue}
          /\ high = NoQueue <=> bits = {}
          /\ bits # {} => high \in bits
          /\ \A o \in bits : o <= high
      <4>1. CASE rest = << >> /\ p = q.high_queue[c] BY <3>2, <4>1, RefreshHighQueue DEF high
      <4>2. CASE rest = << >> /\ p # q.high_queue[c] BY <2>1, <3>1, <3>3, <4>2 DEF high, bits
      <4>3. CASE rest # << >> BY <2>1, <3>1, <4>3 DEF high, bits
      <4> QED BY <4>1, <4>2, <4>3
    <3> QED BY <2>b, <2>h, <3>4 DEF HighQueueExact, RunQueueOK
  <2>13. RealtimeOrderExact(n)
    <3> SUFFICES ASSUME NEW d \in QueueKeys
                 PROVE  n.realtime_order[d] =
                          {<<n.place[u].key, u>> :
                              u \in {v \in Queued(n, d) : n.place[v].key # NoKey}}
      BY DEF RealtimeOrderExact
    <3>1. q.realtime_order[d] = {<<q.place[u].key, u>> :
                                    u \in {v \in Queued(q, d) : q.place[v].key # NoKey}}
      BY DEF RunQueueOK, RealtimeOrderExact
    <3>2. Queued(n, d) = Queued(q, d) \ {t} BY <2>7, <2>8 DEF Queued
    <3>3. CASE d = c
      <4>1. n.realtime_order[d] = q.realtime_order[d] \ {<<q.place[t].key, t>>}
        BY <2>5, <3>3 DEF RunQueueOK, RunQueueType
      <4> QED BY <2>7, <3>1, <3>2, <4>1 DEF Queued
    <3>4. CASE d # c
      <4>1. n.realtime_order[d] = q.realtime_order[d]
        BY <2>5, <3>4 DEF RunQueueOK, RunQueueType
      <4>2. t \notin Queued(q, d) BY <2>e, <3>4 DEF Queued
      <4> QED BY <2>7, <3>1, <3>2, <4>1, <4>2 DEF Queued
    <3> QED BY <3>3, <3>4
  <2>14. CountsExact(n) /\ n.count \in [QueueKeys -> Nat] /\ n.runnable_count \in Nat
    <3>1. IsFiniteSet(AllQueued(q)) /\ \A d \in QueueKeys : IsFiniteSet(Queued(q, d))
      BY RunQueueAssumption, FS_Subset DEF AllQueued, Queued
    <3>2. /\ AllQueued(n) = AllQueued(q) \ {t} /\ t \in AllQueued(q)
          /\ Queued(n, c) = Queued(q, c) \ {t} /\ t \in Queued(q, c)
          /\ \A d \in QueueKeys : d # c => Queued(n, d) = Queued(q, d)
      BY <1>2, <2>e, <2>7, <2>8 DEF AllQueued, Queued
    <3>3. /\ Cardinality(AllQueued(n)) = Cardinality(AllQueued(q)) - 1
          /\ Cardinality(AllQueued(n)) \in Nat
      BY <3>1, <3>2, FS_RemoveElement, FS_CardinalityType
    <3>4. /\ Cardinality(Queued(n, c)) = Cardinality(Queued(q, c)) - 1
          /\ Cardinality(Queued(n, c)) \in Nat
      BY <2>1, <3>1, <3>2, FS_RemoveElement, FS_CardinalityType
    <3>5. /\ q.runnable_count = Cardinality(AllQueued(q))
          /\ \A d \in QueueKeys : q.count[d] = Cardinality(Queued(q, d))
          /\ q.count \in [QueueKeys -> Nat]
      BY DEF RunQueueOK, CountsExact, RunQueueType
    <3>6. /\ n.count[c] = Cardinality(Queued(n, c)) /\ n.count[c] \in Nat
      BY <2>1, <2>5, <3>4, <3>5
    <3>7. ASSUME NEW d \in QueueKeys, d # c
          PROVE  n.count[d] = Cardinality(Queued(n, d)) /\ n.count[d] \in Nat
      BY <2>5, <3>2, <3>5, <3>7
    <3>8. DOMAIN n.count = QueueKeys /\ n.count = [d \in QueueKeys |-> n.count[d]]
      BY <2>5, <3>5
    <3>9. n.runnable_count = Cardinality(AllQueued(n)) /\ n.runnable_count \in Nat
      BY <2>5, <3>3, <3>5
    <3> QED BY <3>6, <3>7, <3>8, <3>9 DEF CountsExact
  <2>15. RunQueueType(n)
    <3>1. n.realtime_order \in [QueueKeys -> SUBSET (Nat \X Threads)]
      BY <2>1, <2>5 DEF RunQueueOK, RunQueueType
    <3>2. n.high_queue \in [QueueKeys -> Priorities \cup {NoQueue}]
      BY <2>1, <2>5, <2>12 DEF RunQueueOK, RunQueueType
    <3>3. n.place \in [Threads -> Places] BY <2>5, <2>8 DEF RunQueueOK, RunQueueType
    <3> QED BY <2>5, <2>q, <2>b, <2>14, <3>1, <3>2, <3>3 DEF RunQueueType
  <2> QED
    <3>1. RunQueueOK(n) BY <2>9, <2>10, <2>11, <2>12, <2>13, <2>14, <2>15 DEF RunQueueOK
    <3> QED BY <1>2, <2>5, <3>1 DEF RunQueueOK, RunQueueType, n
<1> QED BY <1>1, <1>2

-----------------------------------------------------------------------------
\* What enqueue reads of a thread record.
Tickets == [priority : Priorities, processor : QueueKeys, key : {NoKey} \cup Nat]

\* Both ends of a list: the list enqueue leaves holds the old threads and t.
LEMMA InsertList ==
    ASSUME NEW S, NEW list \in Seq(S), NEW t \in S, NEW new,
           new = PushFront(list, t) \/ new = Append(list, t),
           \A j, k \in 1 .. Len(list) : list[j] = list[k] => j = k,
           \A j \in 1 .. Len(list) : list[j] # t
    PROVE  /\ new \in Seq(S) /\ new # << >>
           /\ \A j, k \in 1 .. Len(new) : new[j] = new[k] => j = k
           /\ \A j \in 1 .. Len(new) : new[j] = t \/ \E k \in 1 .. Len(list) : new[j] = list[k]
           /\ \E j \in 1 .. Len(new) : new[j] = t
           /\ \A k \in 1 .. Len(list) : \E j \in 1 .. Len(new) : new[j] = list[k]
<1>1. Len(list) \in Nat OBVIOUS
<1>2. CASE new = PushFront(list, t)
  <2>1. /\ new \in Seq(S) /\ Len(new) = Len(list) + 1 /\ new[1] = t
        /\ \A j \in 1 .. Len(list) : new[j + 1] = list[j]
    <3>1. LET f == PushFront(list, t) IN
          /\ f \in Seq(S) /\ Len(f) = Len(list) + 1 /\ f[1] = t
          /\ \A j \in 1 .. Len(list) : f[j + 1] = list[j]
      BY PushFrontList
    <3> QED BY <1>2, <3>1, Zenon
  <2>2. \A j \in 1 .. Len(new) : j = 1 \/ (j - 1 \in 1 .. Len(list) /\ new[j] = list[j - 1])
    <3> SUFFICES ASSUME NEW j \in 1 .. Len(new), j # 1
                 PROVE  j - 1 \in 1 .. Len(list) /\ new[j] = list[j - 1]
      OBVIOUS
    <3>1. j - 1 \in 1 .. Len(list) /\ (j - 1) + 1 = j BY <1>1, <2>1
    <3>2. new[(j - 1) + 1] = list[j - 1] BY <2>1, <3>1
    <3> QED BY <3>1, <3>2
  <2>3. new # << >> BY <1>1, <2>1
  <2>4. ASSUME NEW j \in 1 .. Len(new), NEW k \in 1 .. Len(new), new[j] = new[k]
        PROVE  j = k
    <3>1. CASE j = 1 /\ k = 1 BY <3>1
    <3>2. CASE j = 1 /\ k # 1 BY <2>1, <2>2, <2>4, <3>2
    <3>3. CASE j # 1 /\ k = 1 BY <2>1, <2>2, <2>4, <3>3
    <3>4. CASE j # 1 /\ k # 1
      <4>1. j - 1 \in 1 .. Len(list) /\ k - 1 \in 1 .. Len(list) /\ list[j - 1] = list[k - 1]
        BY <2>2, <2>4, <3>4
      <4>2. j - 1 = k - 1 BY <4>1
      <4> QED BY <1>1, <2>1, <4>2
    <3> QED BY <3>1, <3>2, <3>3, <3>4
  <2>5. \A j \in 1 .. Len(new) : new[j] = t \/ \E k \in 1 .. Len(list) : new[j] = list[k]
    BY <2>1, <2>2
  <2>6. 1 \in 1 .. Len(new) /\ \A k \in 1 .. Len(list) : k + 1 \in 1 .. Len(new)
    BY <1>1, <2>1
  <2> QED BY <2>1, <2>3, <2>4, <2>5, <2>6
<1>3. CASE new = Append(list, t)
  <2>1. /\ new \in Seq(S) /\ Len(new) = Len(list) + 1 /\ new[Len(list) + 1] = t
        /\ \A j \in 1 .. Len(list) : new[j] = list[j]
    BY <1>3
  <2>2. \A j \in 1 .. Len(new) : j = Len(list) + 1 \/ j \in 1 .. Len(list) BY <1>1, <2>1
  <2>3. new # << >> BY <1>1, <2>1
  <2>4. \A j, k \in 1 .. Len(new) : new[j] = new[k] => j = k BY <1>1, <2>1, <2>2
  <2>5. \A j \in 1 .. Len(new) : new[j] = t \/ \E k \in 1 .. Len(list) : new[j] = list[k]
    BY <2>1, <2>2
  <2>6. Len(list) + 1 \in 1 .. Len(new) /\ \A k \in 1 .. Len(list) : k \in 1 .. Len(new)
    BY <1>1, <2>1
  <2> QED BY <2>1, <2>3, <2>4, <2>5, <2>6
<1> QED BY <1>2, <1>3

\* enqueue keeps the agreement and gives the thread the place its ticket names.
LEMMA EnqueueKeepsAgreement ==
    ASSUME NEW q, RunQueueOK(q), NEW t \in Threads, NEW ticket \in Tickets, NEW front
    PROVE  LET n == enqueue(q, t, ticket, front) IN
           /\ RunQueueOK(n)
           /\ ~q.place[t].queued =>
                  n.place = [q.place EXCEPT ![t] = [queued |-> TRUE,
                                priority |-> ticket.priority,
                                processor |-> ticket.processor, key |-> ticket.key]]
           /\ q.place[t].queued => n = q
<1> DEFINE n == enqueue(q, t, ticket, front)
<1>1. CASE q.place[t].queued BY <1>1 DEF enqueue
<1>2. CASE ~q.place[t].queued
  <2> DEFINE c == ticket.processor
             p == ticket.priority
             key == ticket.key
             list == q.queues[c][p]
             first == front /\ ~(key # NoKey)
             new == IF first THEN PushFront(list, t) ELSE Append(list, t)
             order == IF key # NoKey THEN q.realtime_order[c] \cup {<<key, t>>}
                                     ELSE q.realtime_order[c]
             high == Larger(q.high_queue[c], p)
             spot == [queued |-> TRUE, priority |-> p, processor |-> c, key |-> key]
  <2>1. c \in QueueKeys /\ p \in Priorities /\ key \in {NoKey} \cup Nat BY DEF Tickets
  <2>t. /\ q.queues \in [QueueKeys -> [Priorities -> Seq(Threads)]]
        /\ q.realtime_order \in [QueueKeys -> SUBSET (Nat \X Threads)]
        /\ q.bitmap \in [QueueKeys -> SUBSET Priorities]
        /\ q.high_queue \in [QueueKeys -> Priorities \cup {NoQueue}]
        /\ q.count \in [QueueKeys -> Nat]
        /\ q.place \in [Threads -> Places]
        /\ q.runnable_count \in Nat
    BY DEF RunQueueOK, RunQueueType
  <2>5. /\ n.queues = [q.queues EXCEPT ![c][p] = new]
        /\ n.realtime_order = [q.realtime_order EXCEPT ![c] = order]
        /\ n.bitmap = [q.bitmap EXCEPT ![c] = @ \cup {p}]
        /\ n.high_queue = [q.high_queue EXCEPT ![c] = high]
        /\ n.count = [q.count EXCEPT ![c] = @ + 1]
        /\ n.place = [q.place EXCEPT ![t] = spot]
        /\ n.runnable_count = q.runnable_count + 1
        /\ n = [queues |-> n.queues, realtime_order |-> n.realtime_order,
                bitmap |-> n.bitmap, high_queue |-> n.high_queue, count |-> n.count,
                place |-> n.place, runnable_count |-> n.runnable_count]
    BY <1>2 DEF RunQueueOK, RunQueueType, enqueue
  <2>s. /\ spot \in Places /\ spot.processor = c /\ spot.priority = p /\ spot.key = key
    BY <2>1 DEF Places
  <2>u. spot.queued OBVIOUS
  <2>e. list = q.queues[c][p] /\ list \in Seq(Threads) BY <2>1, <2>t
  <2> HIDE DEF c, p, key, list, spot
  <2>2. \A j \in 1 .. Len(list) : list[j] \in Threads BY <2>e
  <2>3. \A j, k \in 1 .. Len(list) : list[j] = list[k] => j = k
    BY <2>1, <2>e DEF RunQueueOK, ListsMatchPlaces
  <2>a. \A j \in 1 .. Len(list) : /\ q.place[list[j]].queued
                                  /\ q.place[list[j]].processor = c
                                  /\ q.place[list[j]].priority = p
    BY <2>1, <2>e DEF RunQueueOK, ListsMatchPlaces
  <2>4. \A j \in 1 .. Len(list) : list[j] # t BY <1>2, <2>a
  <2> HIDE DEF first
  <2>6. /\ new \in Seq(Threads) /\ new # << >>
        /\ \A j, k \in 1 .. Len(new) : new[j] = new[k] => j = k
        /\ \A j \in 1 .. Len(new) : new[j] = t \/ \E k \in 1 .. Len(list) : new[j] = list[k]
        /\ \E j \in 1 .. Len(new) : new[j] = t
        /\ \A k \in 1 .. Len(list) : \E j \in 1 .. Len(new) : new[j] = list[k]
    <3>1. new = PushFront(list, t) \/ new = Append(list, t) OBVIOUS
    <3> HIDE DEF new
    <3>2. list \in Seq(Threads) BY <2>e
    <3> QED BY <2>3, <2>4, <3>1, <3>2, InsertList
  <2> HIDE DEF n, new, order, high
  <2>7. /\ n.place[t] = spot /\ \A u \in Threads : u # t => n.place[u] = q.place[u]
        /\ n.place \in [Threads -> Places]
    BY <2>5, <2>t, <2>s
  <2>q. /\ n.queues \in [QueueKeys -> [Priorities -> Seq(Threads)]]
        /\ n.queues[c][p] = new
        /\ \A d \in QueueKeys, o \in Priorities :
               (d # c \/ o # p) => n.queues[d][o] = q.queues[d][o]
    BY <2>1, <2>5, <2>6, <2>t
  <2>9. ListsMatchPlaces(n)
    <3> SUFFICES ASSUME NEW d \in QueueKeys, NEW o \in Priorities
                 PROVE  LET l == n.queues[d][o] IN
                        /\ \A j, k \in 1 .. Len(l) : l[j] = l[k] => j = k
                        /\ \A j \in 1 .. Len(l) :
                               /\ n.place[l[j]].queued
                               /\ n.place[l[j]].processor = d
                               /\ n.place[l[j]].priority = o
      BY DEF ListsMatchPlaces
    <3>1. CASE d = c /\ o = p
      <4>1. \A j \in 1 .. Len(new) : /\ n.place[new[j]].queued
                                     /\ n.place[new[j]].processor = c
                                     /\ n.place[new[j]].priority = p
        <5> SUFFICES ASSUME NEW j \in 1 .. Len(new)
                     PROVE  /\ n.place[new[j]].queued
                            /\ n.place[new[j]].processor = c
                            /\ n.place[new[j]].priority = p
          OBVIOUS
        <5>1. CASE new[j] = t BY <2>7, <2>s, <2>u, <5>1
        <5>2. CASE new[j] # t
          <6>1. PICK k \in 1 .. Len(list) : new[j] = list[k] BY <2>6, <5>2
          <6>2. n.place[new[j]] = q.place[list[k]] BY <2>2, <2>7, <5>2, <6>1
          <6> QED BY <2>a, <6>1, <6>2
        <5> QED BY <5>1, <5>2
      <4>2. n.queues[d][o] = new BY <2>q, <3>1
      <4>3. \A j, k \in 1 .. Len(new) : new[j] = new[k] => j = k BY <2>6
      <4>4. /\ \A j, k \in 1 .. Len(new) : new[j] = new[k] => j = k
            /\ \A j \in 1 .. Len(new) : /\ n.place[new[j]].queued
                                         /\ n.place[new[j]].processor = d
                                         /\ n.place[new[j]].priority = o
        BY <3>1, <4>1, <4>3, Zenon
      <4> QED BY <4>2, <4>4, Zenon
    <3>2. CASE ~(d = c /\ o = p)
      <4>1. n.queues[d][o] = q.queues[d][o] BY <3>2, <2>q
      <4>2. q.queues[d][o] \in Seq(Threads) BY <2>t
      <4>3. \A j \in 1 .. Len(q.queues[d][o]) :
                /\ q.queues[d][o][j] \in Threads
                /\ q.queues[d][o][j] # t
        BY <1>2, <4>2 DEF RunQueueOK, ListsMatchPlaces
      <4> QED BY <2>7, <4>1, <4>3 DEF RunQueueOK, ListsMatchPlaces
    <3> QED BY <3>1, <3>2
  <2>10. PlacesMatchLists(n)
    <3> SUFFICES ASSUME NEW u \in Threads, n.place[u].queued
                 PROVE  LET l == n.queues[n.place[u].processor][n.place[u].priority]
                        IN  \E j \in 1 .. Len(l) : l[j] = u
      BY DEF PlacesMatchLists
    <3>1. CASE u = t BY <2>7, <2>s, <2>q, <2>6, <3>1
    <3>2. CASE u # t
      <4>1. n.place[u] = q.place[u] BY <2>7, <3>2
      <4> DEFINE d == q.place[u].processor
                 o == q.place[u].priority
      <4>2. d \in QueueKeys /\ o \in Priorities BY <2>t DEF Places
      <4>3. PICK k \in 1 .. Len(q.queues[d][o]) : q.queues[d][o][k] = u
        BY <4>1 DEF RunQueueOK, PlacesMatchLists
      <4>4. CASE d = c /\ o = p BY <2>q, <2>e, <2>6, <4>1, <4>3, <4>4
      <4>5. CASE ~(d = c /\ o = p) BY <2>q, <4>1, <4>2, <4>3, <4>5
      <4> QED BY <4>4, <4>5
    <3> QED BY <3>1, <3>2
  <2>b. /\ n.bitmap \in [QueueKeys -> SUBSET Priorities]
        /\ n.bitmap[c] = q.bitmap[c] \cup {p}
        /\ \A d \in QueueKeys : d # c => n.bitmap[d] = q.bitmap[d]
    BY <2>1, <2>5, <2>t
  <2>11. BitmapExact(n)
    <3>1. \A d \in QueueKeys, o \in Priorities :
              o \in q.bitmap[d] <=> q.queues[d][o] # << >>
      BY DEF RunQueueOK, BitmapExact
    <3> SUFFICES ASSUME NEW d \in QueueKeys, NEW o \in Priorities
                 PROVE  o \in n.bitmap[d] <=> n.queues[d][o] # << >>
      BY DEF BitmapExact
    <3>2. CASE d = c /\ o = p BY <2>b, <2>q, <2>6, <3>2
    <3>3. CASE d = c /\ o # p
      <4>1. o \in n.bitmap[d] <=> o \in q.bitmap[d] BY <2>b, <3>3
      <4>2. n.queues[d][o] = q.queues[d][o] BY <2>q, <3>3
      <4> QED BY <3>1, <4>1, <4>2
    <3>4. CASE d # c BY <2>b, <2>q, <3>1, <3>4
    <3> QED BY <3>2, <3>3, <3>4
  <2>h. /\ n.high_queue[c] = high
        /\ \A d \in QueueKeys : d # c => n.high_queue[d] = q.high_queue[d]
        /\ n.high_queue = [d \in QueueKeys |-> n.high_queue[d]]
    BY <2>1, <2>5, <2>t
  <2>12. HighQueueExact(n) /\ n.high_queue \in [QueueKeys -> Priorities \cup {NoQueue}]
    <3>1. \A d \in QueueKeys :
            /\ q.high_queue[d] = NoQueue <=> q.bitmap[d] = {}
            /\ q.bitmap[d] # {} => q.high_queue[d] \in q.bitmap[d]
            /\ \A o \in q.bitmap[d] : o <= q.high_queue[d]
      BY DEF RunQueueOK, HighQueueExact
    <3>2. /\ high \in q.bitmap[c] \cup {p}
          /\ \A o \in q.bitmap[c] \cup {p} : o <= high
          /\ high \in Priorities /\ high # NoQueue
      <4>1. q.bitmap[c] \in SUBSET Priorities /\ q.high_queue[c] \in Priorities \cup {NoQueue}
        BY <2>1, <2>t
      <4>2. MaxPriority \in Nat BY RunQueueAssumption
      <4> QED BY <2>1, <3>1, <4>1, <4>2 DEF high, Larger, Priorities, NoQueue
    <3>3. \A d \in QueueKeys : n.high_queue[d] \in Priorities \cup {NoQueue}
      BY <2>h, <2>t, <3>2
    <3>4. n.high_queue \in [QueueKeys -> Priorities \cup {NoQueue}] BY <2>h, <3>3
    <3> QED BY <2>b, <2>h, <3>1, <3>2, <3>4 DEF HighQueueExact
  <2>13. RealtimeOrderExact(n) /\ n.realtime_order \in [QueueKeys -> SUBSET (Nat \X Threads)]
    <3>a. order \in SUBSET (Nat \X Threads) BY <2>1, <2>t DEF order
    <3>b. n.realtime_order \in [QueueKeys -> SUBSET (Nat \X Threads)]
      BY <2>1, <2>5, <2>t, <3>a
    <3> SUFFICES ASSUME NEW d \in QueueKeys
                 PROVE  n.realtime_order[d] =
                          {<<n.place[u].key, u>> :
                              u \in {v \in Queued(n, d) : n.place[v].key # NoKey}}
      BY <3>b DEF RealtimeOrderExact
    <3>1. q.realtime_order[d] = {<<q.place[u].key, u>> :
                                    u \in {v \in Queued(q, d) : q.place[v].key # NoKey}}
      BY DEF RunQueueOK, RealtimeOrderExact
    <3>2. t \notin Queued(q, d) BY <1>2 DEF Queued
    <3>3. CASE d = c
      <4>1. Queued(n, d) = Queued(q, d) \cup {t}
        BY <2>7, <2>s, <2>u, <3>3 DEF Queued
      <4>2. n.realtime_order[d] = order BY <2>5, <2>t, <3>3
      <4>3. CASE key = NoKey
        <5>1. {v \in Queued(n, d) : n.place[v].key # NoKey}
                = {v \in Queued(q, d) : q.place[v].key # NoKey}
          BY <2>7, <2>s, <3>2, <4>1, <4>3 DEF Queued
        <5> QED BY <2>7, <3>1, <3>2, <3>3, <4>2, <4>3, <5>1 DEF order, Queued
      <4>4. CASE key # NoKey
        <5>1. {v \in Queued(n, d) : n.place[v].key # NoKey}
                = {v \in Queued(q, d) : q.place[v].key # NoKey} \cup {t}
          BY <2>7, <2>s, <3>2, <4>1, <4>4 DEF Queued
        <5> QED BY <2>7, <2>s, <3>1, <3>2, <3>3, <4>2, <4>4, <5>1 DEF order, Queued
      <4> QED BY <4>3, <4>4
    <3>4. CASE d # c
      <4>1. Queued(n, d) = Queued(q, d) BY <1>2, <2>7, <2>s, <3>4 DEF Queued
      <4>2. n.realtime_order[d] = q.realtime_order[d] BY <2>5, <2>t, <3>4
      <4> QED BY <2>7, <3>1, <3>2, <4>1, <4>2 DEF Queued
    <3> QED BY <3>3, <3>4
  <2>14. CountsExact(n) /\ n.count \in [QueueKeys -> Nat] /\ n.runnable_count \in Nat
    <3>1. IsFiniteSet(AllQueued(q)) /\ \A d \in QueueKeys : IsFiniteSet(Queued(q, d))
      BY RunQueueAssumption, FS_Subset DEF AllQueued, Queued
    <3>2. /\ AllQueued(n) = AllQueued(q) \cup {t} /\ t \notin AllQueued(q)
          /\ Queued(n, c) = Queued(q, c) \cup {t} /\ t \notin Queued(q, c)
          /\ \A d \in QueueKeys : d # c => Queued(n, d) = Queued(q, d)
      BY <1>2, <2>7, <2>s, <2>u DEF AllQueued, Queued
    <3>3. /\ Cardinality(AllQueued(n)) = Cardinality(AllQueued(q)) + 1
          /\ Cardinality(AllQueued(n)) \in Nat
      BY <3>1, <3>2, FS_AddElement, FS_CardinalityType
    <3>4. /\ Cardinality(Queued(n, c)) = Cardinality(Queued(q, c)) + 1
          /\ Cardinality(Queued(n, c)) \in Nat
      BY <2>1, <3>1, <3>2, FS_AddElement, FS_CardinalityType
    <3>5. /\ q.runnable_count = Cardinality(AllQueued(q))
          /\ \A d \in QueueKeys : q.count[d] = Cardinality(Queued(q, d))
      BY DEF RunQueueOK, CountsExact
    <3>6. n.count[c] = Cardinality(Queued(n, c)) /\ n.count[c] \in Nat
      BY <2>1, <2>5, <2>t, <3>4, <3>5
    <3>7. ASSUME NEW d \in QueueKeys, d # c
          PROVE  n.count[d] = Cardinality(Queued(n, d)) /\ n.count[d] \in Nat
      BY <2>5, <2>t, <3>2, <3>5, <3>7
    <3>8. n.count = [d \in QueueKeys |-> n.count[d]] BY <2>5, <2>t
    <3>9. n.runnable_count = Cardinality(AllQueued(n)) /\ n.runnable_count \in Nat
      BY <2>5, <3>3, <3>5
    <3> QED BY <3>6, <3>7, <3>8, <3>9 DEF CountsExact
  <2>15. RunQueueType(n)
    BY <2>5, <2>7, <2>q, <2>b, <2>12, <2>13, <2>14 DEF RunQueueType
  <2> QED
    <3>1. RunQueueOK(n) BY <2>9, <2>10, <2>11, <2>12, <2>13, <2>14, <2>15 DEF RunQueueOK
    <3> QED BY <1>2, <2>5, <3>1 DEF n, spot, c, p, key
<1> QED BY <1>1, <1>2

\* The run queues the constructor leaves agree with the threads: none is queued.
LEMMA EmptyQueuesAgree == RunQueueOK(EmptyRunQueues) /\ EmptyRunQueues.place = [t \in Threads |-> NotQueued]
<1> DEFINE q == EmptyRunQueues
<1>1. NotQueued \in Places
  BY RunQueueAssumption DEF NotQueued, Places, Priorities, QueueKeys, PSet, NoKey
<1>2. ~NotQueued.queued BY DEF NotQueued
<1>3. RunQueueType(q) BY <1>1 DEF EmptyRunQueues, RunQueueType
<1>4. \A t \in Threads : q.place[t] = NotQueued BY DEF EmptyRunQueues
<1>5. AllQueued(q) = {} /\ \A c \in QueueKeys : Queued(q, c) = {}
  BY <1>2, <1>4 DEF AllQueued, Queued
<1>6. CountsExact(q) BY <1>5, FS_EmptySet DEF CountsExact, EmptyRunQueues
<1>7. ListsMatchPlaces(q) BY DEF ListsMatchPlaces, EmptyRunQueues
<1>8. PlacesMatchLists(q) BY <1>2, <1>4 DEF PlacesMatchLists
<1>9. BitmapExact(q) /\ HighQueueExact(q) BY DEF BitmapExact, HighQueueExact, EmptyRunQueues
<1>10. RealtimeOrderExact(q) BY <1>5 DEF RealtimeOrderExact, EmptyRunQueues
<1> QED BY <1>3, <1>6, <1>7, <1>8, <1>9, <1>10 DEF RunQueueOK, EmptyRunQueues

-----------------------------------------------------------------------------
(***************************************************************************)
(* Arithmetic of priorities and usage.                                     *)
(***************************************************************************)

\* A non-empty set of natural numbers has a least element.
LEMMA LeastNatural ==
    ASSUME NEW S \in SUBSET Nat, S # {}
    PROVE  \E m \in S : \A n \in S : m <= n
<1> DEFINE Less == {ss \in Nat \X Nat : ss[1] < ss[2]}
<1>1. IsWellFoundedOn(Less, Nat) BY NatLessThanWellFounded DEF OpToRel
<1> HIDE DEF Less
<1>2. PICK m \in S : \A n \in S : ~(<<n, m>> \in Less) BY <1>1, WFMin
<1>3. ASSUME NEW n \in S PROVE m <= n
  <2>1. n < m => <<n, m>> \in Less BY DEF Less
  <2> QED BY <1>2, <2>1
<1> QED BY <1>3

\* The recursive function of DecayedUsage exists and yields natural numbers.
LEMMA DecayDefined ==
    ASSUME NEW usage \in Nat
    PROVE  \E f \in [Nat -> Nat] :
               f = [n \in Nat |-> IF n = 0 THEN usage ELSE f[n - 1] \div 2 + f[n - 1] \div 8]
<1> DEFINE Decay(x) == x \div 2 + x \div 8
           IsPrefix(g, n) == /\ g \in [0 .. n -> Nat] /\ g[0] = usage
                             /\ \A k \in 1 .. n : g[k] = Decay(g[k - 1])
           Has(n) == \E g : IsPrefix(g, n)
<1>0. \A x \in Nat : Decay(x) \in Nat OBVIOUS
<1> HIDE DEF Decay
<1>1. \A n \in Nat : Has(n)
  <2> DEFINE Bad == {n \in Nat : ~Has(n)}
  <2> SUFFICES ASSUME Bad # {} PROVE FALSE OBVIOUS
  <2>1. PICK m \in Bad : \A n \in Bad : m <= n
    <3> HIDE DEF Has
    <3> QED BY LeastNatural
  <2>2. CASE m = 0
    <3>1. IsPrefix([k \in 0 .. 0 |-> usage], 0) OBVIOUS
    <3>2. Has(0) BY <3>1
    <3> QED BY <2>1, <2>2, <3>2
  <2>3. CASE m # 0
    <3>1. m - 1 \in Nat /\ m \in Nat BY <2>3
    <3>2. m - 1 \notin Bad
      <4> HIDE DEF Bad
      <4> QED BY <2>1, <3>1
    <3>3. PICK g : IsPrefix(g, m - 1) BY <3>1, <3>2
    <3> DEFINE h == [k \in 0 .. m |-> IF k = m THEN Decay(g[m - 1]) ELSE g[k]]
    <3>4. h \in [0 .. m -> Nat]
      <4>1. g[m - 1] \in Nat BY <3>1, <3>3
      <4>2. ASSUME NEW k \in 0 .. m, k # m PROVE g[k] \in Nat
        <5>1. k \in 0 .. m - 1 BY <3>1, <4>2
        <5> QED BY <3>3, <5>1
      <4> QED BY <1>0, <4>1, <4>2
    <3>5. h[0] = usage BY <2>3, <3>1, <3>3
    <3>6. \A k \in 1 .. m : h[k] = Decay(h[k - 1]) BY <3>1, <3>3
    <3>7. Has(m)
      <4>1. IsPrefix(h, m) BY <3>4, <3>5, <3>6
      <4> QED BY <4>1
    <3> QED BY <2>1, <3>7
  <2> QED BY <2>2, <2>3
<1> DEFINE Agree(m) == \A n, i \in Nat : \A g, h :
               n >= m /\ i >= m /\ IsPrefix(g, n) /\ IsPrefix(h, i) => g[m] = h[m]
<1>2. \A m \in Nat : Agree(m)
  <2> DEFINE Bad == {m \in Nat : ~Agree(m)}
  <2> SUFFICES ASSUME Bad # {} PROVE FALSE OBVIOUS
  <2>1. PICK m \in Bad : \A n \in Bad : m <= n
    <3> HIDE DEF Agree
    <3> QED BY LeastNatural
  <2>2. m \in Nat /\ ~Agree(m) OBVIOUS
  <2>3. PICK n \in Nat, i \in Nat : \E g, h :
            n >= m /\ i >= m /\ IsPrefix(g, n) /\ IsPrefix(h, i) /\ g[m] # h[m]
    <3> HIDE DEF IsPrefix
    <3> QED BY <2>2
  <2>4. PICK g, h : n >= m /\ i >= m /\ IsPrefix(g, n) /\ IsPrefix(h, i) /\ g[m] # h[m]
    BY <2>3
  <2>5. m # 0 BY <2>4
  <2>6. m - 1 \in Nat BY <2>2, <2>5
  <2>7. Agree(m - 1)
    <3> HIDE DEF Agree
    <3> QED BY <2>1, <2>2, <2>6
  <2>8. g[m - 1] = h[m - 1]
    <3>1. n >= m - 1 /\ i >= m - 1 BY <2>2, <2>4
    <3> HIDE DEF IsPrefix
    <3> QED BY <2>4, <2>7, <3>1
  <2>9. m \in 1 .. n /\ m \in 1 .. i BY <2>2, <2>4, <2>5
  <2>10. g[m] = Decay(g[m - 1]) /\ h[m] = Decay(h[m - 1]) BY <2>4, <2>9
  <2> QED BY <2>4, <2>8, <2>10
<1> DEFINE G(n) == CHOOSE g : IsPrefix(g, n)
           F == [n \in Nat |-> G(n)[n]]
<1>3. \A n \in Nat : IsPrefix(G(n), n)
  <2> HIDE DEF IsPrefix
  <2> QED BY <1>1
<1> HIDE DEF G
<1>4. F \in [Nat -> Nat] BY <1>3
<1>5. ASSUME NEW n \in Nat
      PROVE  F[n] = IF n = 0 THEN usage ELSE Decay(F[n - 1])
  <2>1. CASE n = 0 BY <1>3, <2>1
  <2>2. CASE n # 0
    <3>1. n - 1 \in Nat /\ n \in 1 .. n BY <2>2
    <3>2. G(n)[n] = Decay(G(n)[n - 1]) BY <1>3, <3>1
    <3>3. G(n)[n - 1] = G(n - 1)[n - 1]
      <4>1. IsPrefix(G(n), n) /\ IsPrefix(G(n - 1), n - 1) BY <1>3, <3>1
      <4>2. n >= n - 1 /\ n - 1 >= n - 1 BY <3>1
      <4>3. Agree(n - 1) BY <1>2, <3>1
      <4> HIDE DEF IsPrefix
      <4> QED BY <3>1, <4>1, <4>2, <4>3
    <3> QED BY <2>2, <3>1, <3>2, <3>3
  <2> QED BY <2>1, <2>2
<1> HIDE DEF F
<1>6. F = [n \in Nat |-> IF n = 0 THEN usage ELSE Decay(F[n - 1])] BY <1>4, <1>5
<1> QED BY <1>4, <1>6 DEF Decay

\* Decay keeps the usage of a thread a natural number.
LEMMA DecayedUsageType ==
    ASSUME NEW usage \in Nat, NEW steps \in Nat
    PROVE  DecayedUsage(usage, steps) \in Nat
<1> DEFINE decayed[n \in Nat] ==
               IF n = 0 THEN usage ELSE decayed[n - 1] \div 2 + decayed[n - 1] \div 8
<1>1. PICK f \in [Nat -> Nat] :
          f = [n \in Nat |-> IF n = 0 THEN usage ELSE f[n - 1] \div 2 + f[n - 1] \div 8]
  BY DecayDefined
<1>2. decayed = [n \in Nat |-> IF n = 0 THEN usage
                               ELSE decayed[n - 1] \div 2 + decayed[n - 1] \div 8]
  BY <1>1
<1> HIDE DEF decayed
<1>3. \A n \in Nat : decayed[n] \in Nat
  <2> DEFINE Bad == {n \in Nat : decayed[n] \notin Nat}
  <2> SUFFICES ASSUME Bad # {} PROVE FALSE OBVIOUS
  <2>1. PICK m \in Bad : \A n \in Bad : m <= n BY LeastNatural
  <2>2. m # 0
    <3>1. decayed[0] = usage BY <1>2
    <3> QED BY <3>1
  <2>3. m - 1 \in Nat /\ decayed[m - 1] \in Nat BY <2>1, <2>2
  <2>4. decayed[m] = decayed[m - 1] \div 2 + decayed[m - 1] \div 8 BY <1>2, <2>2
  <2> QED BY <2>3, <2>4
<1> QED BY <1>3 DEF DecayedUsage, decayed

LEMMA PlusType == ASSUME NEW a \in Nat, NEW b \in Nat PROVE Plus(a, b) \in Nat
  BY SchedulerAssumption DEF Plus

LEMMA MinusType == ASSUME NEW a \in Nat, NEW b \in Nat PROVE Minus(a, b) \in Nat
  BY DEF Minus

\* The number of members of a part of an interval is a natural number.
LEMMA PartOfInterval ==
    ASSUME NEW a \in Int, NEW b \in Int, NEW S \in SUBSET (a .. b)
    PROVE  Cardinality(S) \in Nat
  BY FS_Interval, FS_Subset, FS_CardinalityType

LEMMA ShiftType == \A active : processor_set_priority_shift(active) \in OptionalTick
<1>1. PriorityUsageShift \in Nat
  <2> DEFINE S == {k \in 0 .. 29 : ((SchedulerTickTicks \div 3) * 5
                        + ((SchedulerTickTicks % 3) * 5) \div 3) \div (2 ^ k)
                            > DefaultBasePriority}
  <2>1. S \in SUBSET (0 .. 29) OBVIOUS
  <2>2. PriorityUsageShift = Cardinality(S) BY DEF PriorityUsageShift
  <2> HIDE DEF S
  <2> QED BY <2>1, <2>2, PartOfInterval
<1> SUFFICES ASSUME NEW active PROVE processor_set_priority_shift(active) \in OptionalTick
  OBVIOUS
<1> DEFINE load == IF ProcessorCount > 1 THEN active \div ProcessorCount ELSE active
           S == {k \in 1 .. 6 : 2 ^ k <= load}
<1>2. Cardinality(S) \in Nat
  <2>1. S \in SUBSET (1 .. 6) OBVIOUS
  <2> HIDE DEF S
  <2> QED BY <2>1, PartOfInterval
<1>3. processor_set_priority_shift(active) =
          IF active <= ProcessorCount THEN NoShift
          ELSE IF Cardinality(S) < PriorityUsageShift THEN PriorityUsageShift - Cardinality(S)
          ELSE 0
  BY DEF processor_set_priority_shift
<1> HIDE DEF S
<1> QED BY <1>1, <1>2, <1>3 DEF OptionalTick, NoShift

-----------------------------------------------------------------------------
(***************************************************************************)
(* Thread records.                                                         *)
(***************************************************************************)
LEMMA PenaltyType == \A r : Penalty(r) \in Nat
<1> SUFFICES ASSUME NEW r PROVE Penalty(r) \in Nat OBVIOUS
<1> DEFINE S == {k \in 1 .. MaxPriority :
                    k * 2 ^ r.priority_usage_shift <= r.scheduling_usage}
<1>1. S \in SUBSET (1 .. MaxPriority) OBVIOUS
<1>2. Penalty(r) = IF r.priority_usage_shift = NoShift THEN 0 ELSE Cardinality(S)
  BY DEF Penalty
<1> HIDE DEF S
<1>3. Cardinality(S) \in Nat
  <2>1. 1 \in Int /\ MaxPriority \in Int BY RunQueueAssumption
  <2> QED BY <1>1, <2>1, PartOfInterval
<1> QED BY <1>2, <1>3

LEMMA PriorityType == ASSUME NEW r \in ThreadRecords PROVE PriorityOf(r) \in Priorities
<1>1. r.base_priority \in Priorities BY DEF ThreadRecords
<1>2. Penalty(r) \in Nat BY PenaltyType
<1> QED BY <1>1, <1>2, RunQueueAssumption, SchedulerAssumption
        DEF PriorityOf, Clamp, Priorities

\* A suspended thread waits, and only a suspended thread resumes.
SuspendOK(r) ==
    /\ r.suspend_count > 0 => r.state = "Waiting"
    /\ r.resume_runnable => r.suspend_count > 0

\* What recompute_priority leaves alone.
SameButPriority(r, s) ==
    /\ s \in ThreadRecords
    /\ s.state = r.state /\ s.bound_processor = r.bound_processor
    /\ s.timeshare = r.timeshare /\ s.failsafe = r.failsafe
    /\ s.suspend_count = r.suspend_count /\ s.resume_runnable = r.resume_runnable

LEMMA RecomputedType ==
    ASSUME NEW r \in ThreadRecords PROVE SameButPriority(r, Recomputed(r))
  BY PriorityType DEF Recomputed, SameButPriority, ThreadRecords

LEMMA RestoredType ==
    ASSUME NEW r \in ThreadRecords PROVE SameButPriority(r, Restored(r))
<1> DEFINE s == [r EXCEPT !.depressed = FALSE, !.depression_deadline = NoDeadline]
<1>1. SameButPriority(r, s)
  BY DEF SameButPriority, ThreadRecords, OptionalTick, NoDeadline
<1>2. SameButPriority(s, Recomputed(s)) BY <1>1, RecomputedType DEF SameButPriority
<1>3. SameButPriority(r, r) BY DEF SameButPriority
<1> HIDE DEF s
<1>4. SameButPriority(r, Recomputed(s)) BY <1>1, <1>2 DEF SameButPriority
<1> QED BY <1>3, <1>4 DEF Restored, s

LEMMA QuantumType == ASSUME NEW r \in ThreadRecords PROVE quantum_for(r) \in Nat
  BY SchedulerAssumption DEF quantum_for, ThreadRecords

LEMMA NewRecordType ==
    ASSUME NEW base \in Priorities, NEW runnable \in BOOLEAN
    PROVE  /\ NewRecord(base, runnable) \in ThreadRecords
           /\ NewRecord(base, runnable).state = IF runnable THEN "Runnable" ELSE "Waiting"
           /\ NewRecord(base, runnable).timeshare = TRUE
           /\ SuspendOK(NewRecord(base, runnable))
<1>1. PSet \in QueueKeys BY DEF QueueKeys
<1>2. NewRecord(base, runnable) \in ThreadRecords
  BY <1>1, SchedulerAssumption, RunQueueAssumption
  DEF NewRecord, ThreadRecords, States, OptionalTick, NoShift, NoDeadline, Priorities
<1> QED BY <1>2 DEF NewRecord, SuspendOK

LEMMA ReadiedType ==
    ASSUME NEW r \in ThreadRecords
    PROVE  /\ Readied(r) \in ThreadRecords
           /\ Readied(r).state = "Runnable" /\ Readied(r).timeshare = r.timeshare
           /\ Readied(r).suspend_count = r.suspend_count
           /\ Readied(r).resume_runnable = r.resume_runnable
           /\ Readied(r).realtime_deadline \in Nat
  BY QuantumType DEF Readied, ThreadRecords, States

LEMMA TicketType == ASSUME NEW r \in ThreadRecords PROVE TicketOf(r) \in Tickets
  BY DEF TicketOf, Ticket, Tickets, ThreadRecords

-----------------------------------------------------------------------------
(***************************************************************************)
(* A step that touches one thread.  Fits says that the place of a thread   *)
(* in the run queues is the one its record asks for.                       *)
(***************************************************************************)
Fits(q, t, r) ==
    /\ q.place[t].queued <=> r.state = "Runnable"
    /\ q.place[t].queued => /\ q.place[t].priority = r.scheduled_priority
                            /\ q.place[t].processor = r.bound_processor

OnlyAt(q, n, t) ==
    /\ RunQueueOK(n)
    /\ \A u \in Threads : u # t => n.place[u] = q.place[u]

LEMMA PlacesTyped ==
    ASSUME NEW q, RunQueueOK(q)
    PROVE  q.place \in [Threads -> Places]
  BY DEF RunQueueOK, RunQueueType

LEMMA RemoveFits ==
    ASSUME NEW q, RunQueueOK(q), NEW t \in Threads
    PROVE  /\ OnlyAt(q, remove_from_queue(q, t), t)
           /\ ~remove_from_queue(q, t).place[t].queued
<1> DEFINE n == remove_from_queue(q, t)
<1>1. /\ RunQueueOK(n)
      /\ n.place = [q.place EXCEPT ![t] = IF @.queued THEN NotQueued ELSE @]
  BY RemoveKeepsAgreement
<1>2. q.place \in [Threads -> Places] BY PlacesTyped
<1> HIDE DEF n
<1>3. n.place[t] = IF q.place[t].queued THEN NotQueued ELSE q.place[t] BY <1>1, <1>2
<1>4. ~NotQueued.queued BY DEF NotQueued
<1>5. \A u \in Threads : u # t => n.place[u] = q.place[u] BY <1>1, <1>2
<1> QED BY <1>1, <1>3, <1>4, <1>5 DEF OnlyAt, n

LEMMA EnqueueFits ==
    ASSUME NEW q, RunQueueOK(q), NEW t \in Threads, NEW r \in ThreadRecords, NEW front,
           ~q.place[t].queued, r.state = "Runnable"
    PROVE  /\ OnlyAt(q, Enqueued(q, t, r, front), t)
           /\ Fits(Enqueued(q, t, r, front), t, r)
<1> DEFINE n == Enqueued(q, t, r, front)
           ticket == TicketOf(r)
           spot == [queued |-> TRUE, priority |-> ticket.priority,
                    processor |-> ticket.processor, key |-> ticket.key]
<1>1. ticket \in Tickets BY TicketType
<1>2. RunQueueOK(n) /\ n.place = [q.place EXCEPT ![t] = spot]
  BY <1>1, EnqueueKeepsAgreement DEF Enqueued
<1>3. q.place \in [Threads -> Places] BY PlacesTyped
<1>4. ticket.priority = r.scheduled_priority /\ ticket.processor = r.bound_processor
  BY DEF TicketOf, Ticket
<1> HIDE DEF n, ticket
<1>5. spot.queued /\ spot.priority = r.scheduled_priority /\ spot.processor = r.bound_processor
  BY <1>4
<1> HIDE DEF spot
<1>6. n.place[t] = spot /\ \A u \in Threads : u # t => n.place[u] = q.place[u] BY <1>2, <1>3
<1> QED BY <1>2, <1>5, <1>6 DEF OnlyAt, Fits, n

\* Requeueing under a changed record leaves the thread where that record says.
LEMMA RequeueFits ==
    ASSUME NEW q, RunQueueOK(q), NEW t \in Threads, NEW old \in ThreadRecords,
           NEW r \in ThreadRecords, Fits(q, t, old), r.state = old.state
    PROVE  /\ OnlyAt(q, Requeued(q, t, r), t)
           /\ Fits(Requeued(q, t, r), t, r)
<1>1. CASE ~q.place[t].queued
  <2>1. Requeued(q, t, r) = q BY <1>1 DEF Requeued
  <2> QED BY <1>1, <2>1 DEF OnlyAt, Fits
<1>2. CASE q.place[t].queued
  <2> DEFINE m == remove_from_queue(q, t)
  <2>1. OnlyAt(q, m, t) /\ ~m.place[t].queued BY RemoveFits
  <2>2. r.state = "Runnable" BY <1>2 DEF Fits
  <2>3. Requeued(q, t, r) = Enqueued(m, t, r, FALSE) BY <1>2 DEF Requeued
  <2> HIDE DEF m
  <2>4. OnlyAt(m, Enqueued(m, t, r, FALSE), t) /\ Fits(Enqueued(m, t, r, FALSE), t, r)
    BY <2>1, <2>2, EnqueueFits DEF OnlyAt
  <2> QED BY <2>1, <2>3, <2>4 DEF OnlyAt
<1> QED BY <1>1, <1>2

LEMMA MoveFits ==
    ASSUME NEW q, RunQueueOK(q), NEW t \in Threads, NEW old \in ThreadRecords,
           NEW r \in ThreadRecords, Fits(q, t, old), r.state = old.state,
           r.bound_processor = old.bound_processor
    PROVE  /\ OnlyAt(q, RequeuedIfMoved(q, t, old, r), t)
           /\ Fits(RequeuedIfMoved(q, t, old, r), t, r)
<1>1. CASE old.scheduled_priority = r.scheduled_priority
  <2>1. RequeuedIfMoved(q, t, old, r) = q BY <1>1 DEF RequeuedIfMoved
  <2> QED BY <1>1, <2>1 DEF OnlyAt, Fits
<1>2. CASE old.scheduled_priority # r.scheduled_priority
  <2>1. RequeuedIfMoved(q, t, old, r) = Requeued(q, t, r) BY <1>2 DEF RequeuedIfMoved
  <2> QED BY <2>1, RequeueFits
<1> QED BY <1>1, <1>2

\* Two finite sets that agree except at t.
LEMMA CountAt ==
    ASSUME NEW A, NEW B, NEW t, IsFiniteSet(A), A \ {t} = B \ {t}
    PROVE  /\ IsFiniteSet(B)
           /\ Cardinality(A) \in Nat /\ Cardinality(B) \in Nat
           /\ Cardinality(B) = Cardinality(A) + One(t \in B) - One(t \in A)
<1> DEFINE C == A \ {t}
<1>1. IsFiniteSet(C) BY FS_Subset
<1>2. t \notin C OBVIOUS
<1>3. A = C \/ A = C \cup {t} OBVIOUS
<1>4. B = C \/ B = C \cup {t} OBVIOUS
<1>5. t \in A <=> A = C \cup {t} OBVIOUS
<1>6. t \in B <=> B = C \cup {t} OBVIOUS
<1> HIDE DEF C
<1>7. IsFiniteSet(C \cup {t}) /\ Cardinality(C \cup {t}) = Cardinality(C) + 1
  BY <1>1, <1>2, FS_AddElement
<1>8. Cardinality(C) \in Nat BY <1>1, FS_CardinalityType
<1>9. CASE t \in A /\ t \in B BY <1>5, <1>6, <1>7, <1>8, <1>9 DEF One
<1>10. CASE t \in A /\ t \notin B BY <1>1, <1>4, <1>5, <1>6, <1>7, <1>8, <1>10 DEF One
<1>11. CASE t \notin A /\ t \in B BY <1>1, <1>3, <1>5, <1>6, <1>7, <1>8, <1>11 DEF One
<1>12. CASE t \notin A /\ t \notin B BY <1>1, <1>3, <1>4, <1>5, <1>6, <1>8, <1>12 DEF One
<1> QED BY <1>9, <1>10, <1>11, <1>12

\* What the theorems are proved from: the typed records, the queues that match
\* them and the counters.
WaitingThreads == {t \in Registered : threads[t].state = "Waiting"}
ActiveThreads == {t \in Registered : threads[t].state # "Waiting" /\ threads[t].timeshare}

Core ==
    /\ Registered \subseteq Threads
    /\ threads \in [Registered -> ThreadRecords]
    /\ RunQueueOK(rq)
    /\ \A t \in Registered : Fits(rq, t, threads[t]) /\ SuspendOK(threads[t])
    /\ \A t \in Threads \ Registered : ~rq.place[t].queued
    /\ waiting_count = Cardinality(WaitingThreads)
    /\ active_timeshare_count = Cardinality(ActiveThreads)

Active(r) == r.state # "Waiting" /\ r.timeshare

LEMMA CountersFinite ==
    ASSUME Core
    PROVE  /\ IsFiniteSet(WaitingThreads) /\ IsFiniteSet(ActiveThreads)
           /\ waiting_count \in Nat /\ active_timeshare_count \in Nat
<1>1. IsFiniteSet(Registered) BY RunQueueAssumption, FS_Subset DEF Core
<1>2. IsFiniteSet(WaitingThreads) /\ IsFiniteSet(ActiveThreads)
  BY <1>1, FS_Subset DEF WaitingThreads, ActiveThreads
<1> QED BY <1>2, FS_CardinalityType DEF Core

\* A step that changes the record of one registered thread.
LEMMA UpdateKeepsCore ==
    ASSUME Core, NEW t \in Registered, NEW r \in ThreadRecords,
           threads' = [threads EXCEPT ![t] = r],
           OnlyAt(rq, rq', t), Fits(rq', t, r), SuspendOK(r),
           waiting_count' = waiting_count + One(r.state = "Waiting")
                                          - One(threads[t].state = "Waiting"),
           active_timeshare_count' = active_timeshare_count + One(Active(r))
                                                            - One(Active(threads[t]))
    PROVE  Core'
<1>1. /\ Registered' = Registered /\ threads' \in [Registered -> ThreadRecords]
      /\ threads'[t] = r /\ \A u \in Registered : u # t => threads'[u] = threads[u]
  BY DEF Core, Registered
<1>2. RunQueueOK(rq') /\ \A u \in Threads : u # t => rq'.place[u] = rq.place[u] BY DEF OnlyAt
<1>3. ASSUME NEW u \in Registered PROVE Fits(rq', u, threads'[u]) /\ SuspendOK(threads'[u])
  BY <1>1, <1>2 DEF Core, Fits
<1>4. \A u \in Threads \ Registered : ~rq'.place[u].queued BY <1>2 DEF Core
<1>5. waiting_count' = Cardinality(WaitingThreads')
  <2>1. WaitingThreads \ {t} = WaitingThreads' \ {t} BY <1>1 DEF WaitingThreads
  <2>2. t \in WaitingThreads <=> threads[t].state = "Waiting" BY DEF WaitingThreads
  <2>3. t \in WaitingThreads' <=> r.state = "Waiting" BY <1>1 DEF WaitingThreads
  <2>4. Cardinality(WaitingThreads') =
            Cardinality(WaitingThreads) + One(t \in WaitingThreads') - One(t \in WaitingThreads)
    BY <2>1, CountersFinite, CountAt
  <2> QED BY <2>2, <2>3, <2>4 DEF Core, One
<1>6. active_timeshare_count' = Cardinality(ActiveThreads')
  <2>1. ActiveThreads \ {t} = ActiveThreads' \ {t} BY <1>1 DEF ActiveThreads
  <2>2. t \in ActiveThreads <=> Active(threads[t]) BY DEF ActiveThreads, Active
  <2>3. t \in ActiveThreads' <=> Active(r) BY <1>1 DEF ActiveThreads, Active
  <2>4. Cardinality(ActiveThreads') =
            Cardinality(ActiveThreads) + One(t \in ActiveThreads') - One(t \in ActiveThreads)
    BY <2>1, CountersFinite, CountAt
  <2> QED BY <2>2, <2>3, <2>4 DEF Core, One
<1> QED BY <1>1, <1>2, <1>3, <1>4, <1>5, <1>6 DEF Core

\* A step that removes a thread.
LEMMA EraseKeepsCore ==
    ASSUME Core, NEW t \in Registered, threads' = Without(t),
           OnlyAt(rq, rq', t), ~rq'.place[t].queued,
           waiting_count' = waiting_count - One(threads[t].state = "Waiting"),
           active_timeshare_count' = active_timeshare_count - One(Active(threads[t]))
    PROVE  Core'
<1>1. /\ Registered' = Registered \ {t} /\ threads' \in [Registered' -> ThreadRecords]
      /\ \A u \in Registered : u # t => threads'[u] = threads[u]
  BY DEF Core, Without, Registered
<1>2. RunQueueOK(rq') /\ \A u \in Threads : u # t => rq'.place[u] = rq.place[u] BY DEF OnlyAt
<1>3. ASSUME NEW u \in Registered' PROVE Fits(rq', u, threads'[u]) /\ SuspendOK(threads'[u])
  BY <1>1, <1>2 DEF Core, Fits
<1>4. \A u \in Threads \ Registered' : ~rq'.place[u].queued BY <1>1, <1>2 DEF Core
<1>5. waiting_count' = Cardinality(WaitingThreads')
  <2>1. WaitingThreads \ {t} = WaitingThreads' \ {t} BY <1>1 DEF WaitingThreads
  <2>2. t \in WaitingThreads <=> threads[t].state = "Waiting" BY DEF WaitingThreads
  <2>3. t \notin WaitingThreads' BY <1>1 DEF WaitingThreads
  <2>4. /\ Cardinality(WaitingThreads') =
            Cardinality(WaitingThreads) + One(t \in WaitingThreads') - One(t \in WaitingThreads)
        /\ Cardinality(WaitingThreads) \in Nat
    BY <2>1, CountersFinite, CountAt
  <2> QED BY <2>2, <2>3, <2>4 DEF Core, One
<1>6. active_timeshare_count' = Cardinality(ActiveThreads')
  <2>1. ActiveThreads \ {t} = ActiveThreads' \ {t} BY <1>1 DEF ActiveThreads
  <2>2. t \in ActiveThreads <=> Active(threads[t]) BY DEF ActiveThreads, Active
  <2>3. t \notin ActiveThreads' BY <1>1 DEF ActiveThreads
  <2>4. /\ Cardinality(ActiveThreads') =
            Cardinality(ActiveThreads) + One(t \in ActiveThreads') - One(t \in ActiveThreads)
        /\ Cardinality(ActiveThreads) \in Nat
    BY <2>1, CountersFinite, CountAt
  <2> QED BY <2>2, <2>3, <2>4 DEF Core, One
<1> QED BY <1>1, <1>2, <1>3, <1>4, <1>5, <1>6 DEF Core

\* A step that registers a thread.
LEMMA AddKeepsCore ==
    ASSUME Core, NEW t \in Threads, t \notin Registered, NEW r \in ThreadRecords,
           threads' = [u \in Registered \cup {t} |-> IF u = t THEN r ELSE threads[u]],
           OnlyAt(rq, rq', t), Fits(rq', t, r), SuspendOK(r),
           waiting_count' = waiting_count + One(r.state = "Waiting"),
           active_timeshare_count' = active_timeshare_count + One(Active(r))
    PROVE  Core'
<1>1. /\ Registered' = Registered \cup {t} /\ threads' \in [Registered' -> ThreadRecords]
      /\ threads'[t] = r /\ \A u \in Registered : u # t /\ threads'[u] = threads[u]
  BY DEF Core, Registered
<1>2. RunQueueOK(rq') /\ \A u \in Threads : u # t => rq'.place[u] = rq.place[u] BY DEF OnlyAt
<1>3. ASSUME NEW u \in Registered' PROVE Fits(rq', u, threads'[u]) /\ SuspendOK(threads'[u])
  BY <1>1, <1>2 DEF Core, Fits
<1>4. \A u \in Threads \ Registered' : ~rq'.place[u].queued BY <1>1, <1>2 DEF Core
<1>5. waiting_count' = Cardinality(WaitingThreads')
  <2>1. WaitingThreads \ {t} = WaitingThreads' \ {t} BY <1>1 DEF WaitingThreads
  <2>2. t \notin WaitingThreads BY DEF WaitingThreads
  <2>3. t \in WaitingThreads' <=> r.state = "Waiting" BY <1>1 DEF WaitingThreads
  <2>4. /\ Cardinality(WaitingThreads') =
            Cardinality(WaitingThreads) + One(t \in WaitingThreads') - One(t \in WaitingThreads)
        /\ Cardinality(WaitingThreads) \in Nat
    BY <2>1, CountersFinite, CountAt
  <2> QED BY <2>2, <2>3, <2>4 DEF Core, One
<1>6. active_timeshare_count' = Cardinality(ActiveThreads')
  <2>1. ActiveThreads \ {t} = ActiveThreads' \ {t} BY <1>1 DEF ActiveThreads
  <2>2. t \notin ActiveThreads BY DEF ActiveThreads
  <2>3. t \in ActiveThreads' <=> Active(r) BY <1>1 DEF ActiveThreads, Active
  <2>4. /\ Cardinality(ActiveThreads') =
            Cardinality(ActiveThreads) + One(t \in ActiveThreads') - One(t \in ActiveThreads)
        /\ Cardinality(ActiveThreads) \in Nat
    BY <2>1, CountersFinite, CountAt
  <2> QED BY <2>2, <2>3, <2>4 DEF Core, One
<1> QED BY <1>1, <1>2, <1>3, <1>4, <1>5, <1>6 DEF Core

LEMMA CoreUnchanged ==
    ASSUME Core, UNCHANGED <<threads, rq, waiting_count, active_timeshare_count>>
    PROVE  Core'
  BY DEF Core, Registered, WaitingThreads, ActiveThreads

\* A change that neither the queues nor the counters see.
LEMMA QuietUpdate ==
    ASSUME Core, NEW t \in Registered, NEW r \in ThreadRecords,
           threads' = [threads EXCEPT ![t] = r],
           UNCHANGED <<rq, waiting_count, active_timeshare_count>>,
           r.state = threads[t].state, r.timeshare = threads[t].timeshare,
           r.scheduled_priority = threads[t].scheduled_priority,
           r.bound_processor = threads[t].bound_processor, SuspendOK(r)
    PROVE  Core'
<1>1. OnlyAt(rq, rq', t) /\ Fits(rq', t, r) BY DEF Core, OnlyAt, Fits
<1>2. waiting_count \in Nat /\ active_timeshare_count \in Nat BY CountersFinite
<1>3. One(r.state = "Waiting") = One(threads[t].state = "Waiting")
      /\ One(Active(r)) = One(Active(threads[t]))
      /\ One(r.state = "Waiting") \in Nat /\ One(Active(r)) \in Nat
  BY DEF Active, One
<1>4. waiting_count' = waiting_count + One(r.state = "Waiting")
                                     - One(threads[t].state = "Waiting")
  BY <1>2, <1>3
<1>5. active_timeshare_count' = active_timeshare_count + One(Active(r))
                                                       - One(Active(threads[t]))
  BY <1>2, <1>3
<1> QED BY <1>1, <1>4, <1>5, UpdateKeepsCore

\* recompute_priority after a change of policy.
LEMMA RecomputeKeepsCore ==
    ASSUME Core, NEW t \in Registered, NEW r \in ThreadRecords, Recompute(t, r),
           r.state = threads[t].state,
           r.scheduled_priority = threads[t].scheduled_priority,
           r.bound_processor = threads[t].bound_processor, SuspendOK(r),
           UNCHANGED waiting_count,
           active_timeshare_count' = active_timeshare_count + One(Active(r))
                                                            - One(Active(threads[t]))
    PROVE  Core'
<1>1. SameButPriority(r, Recomputed(r)) BY RecomputedType
<1>2. t \in Threads /\ RunQueueOK(rq) /\ Fits(rq, t, r) BY DEF Core, Fits
<1>3. OnlyAt(rq, rq', t) /\ Fits(rq', t, Recomputed(r))
  BY <1>1, <1>2, MoveFits DEF Recompute, SameButPriority
<1>4. waiting_count \in Nat BY CountersFinite
<1>5. /\ Recomputed(r) \in ThreadRecords
      /\ One(Recomputed(r).state = "Waiting") = One(threads[t].state = "Waiting")
      /\ One(threads[t].state = "Waiting") \in Nat
      /\ One(Active(Recomputed(r))) = One(Active(r))
  BY <1>1 DEF SameButPriority, Active, One
<1>6. threads' = [threads EXCEPT ![t] = Recomputed(r)] BY DEF Recompute, Update
<1>7. waiting_count' = waiting_count + One(Recomputed(r).state = "Waiting")
                                     - One(threads[t].state = "Waiting")
  BY <1>4, <1>5
<1>8. active_timeshare_count' = active_timeshare_count + One(Active(Recomputed(r)))
                                                       - One(Active(threads[t]))
  BY <1>5
<1>9. SuspendOK(Recomputed(r)) BY <1>1 DEF SameButPriority, SuspendOK
<1> QED BY <1>3, <1>5, <1>6, <1>7, <1>8, <1>9, UpdateKeepsCore

-----------------------------------------------------------------------------
(***************************************************************************)
(* The calls.                                                              *)
(***************************************************************************)
LEMMA TaskPrioritiesFit == TaskPriorities \subseteq Priorities /\ DefaultBasePriority \in Priorities
  BY SchedulerAssumption, RunQueueAssumption DEF Priorities

LEMMA RegisterCore ==
    ASSUME Core, NEW t \in Threads, t \notin Registered, NEW base \in TaskPriorities,
           NEW runnable \in BOOLEAN,
           threads' = [u \in Registered \cup {t} |->
                          IF u = t THEN NewRecord(base, runnable) ELSE threads[u]],
           rq' = IF runnable THEN Enqueued(rq, t, NewRecord(base, runnable), FALSE) ELSE rq,
           waiting_count' = waiting_count + One(~runnable),
           active_timeshare_count' = active_timeshare_count + One(runnable)
    PROVE  Core'
<1> DEFINE r == NewRecord(base, runnable)
<1>1. /\ r \in ThreadRecords /\ r.state = IF runnable THEN "Runnable" ELSE "Waiting"
      /\ r.timeshare /\ SuspendOK(r)
  BY TaskPrioritiesFit, NewRecordType
<1>2. RunQueueOK(rq) /\ ~rq.place[t].queued BY DEF Core
<1> HIDE DEF r
<1>3. OnlyAt(rq, rq', t) /\ Fits(rq', t, r)
  <2>1. CASE runnable BY <1>1, <1>2, <2>1, EnqueueFits DEF r
  <2>2. CASE ~runnable BY <1>1, <1>2, <2>2 DEF OnlyAt, Fits
  <2> QED BY <2>1, <2>2
<1>4. One(r.state = "Waiting") = One(~runnable) /\ One(Active(r)) = One(runnable)
  BY <1>1 DEF One, Active
<1> QED BY <1>1, <1>3, <1>4, AddKeepsCore DEF r

LEMMA RemoveCore ==
    ASSUME Core, NEW t \in Registered, Remove(t)
    PROVE  Core'
<1>1. t \in Threads /\ RunQueueOK(rq) BY DEF Core
<1>2. OnlyAt(rq, rq', t) /\ ~rq'.place[t].queued BY <1>1, RemoveFits DEF Remove
<1> QED BY <1>2, EraseKeepsCore DEF Remove, Active

\* Every action of a thread that becomes runnable from waiting.
LEMMA ReadyCore ==
    ASSUME Core, NEW t \in Registered, NEW r \in ThreadRecords,
           threads[t].state = "Waiting", r.state = "Runnable", SuspendOK(r),
           r.timeshare = threads[t].timeshare,
           threads' = [threads EXCEPT ![t] = r], rq' = Enqueued(rq, t, r, FALSE),
           waiting_count' = waiting_count - 1,
           active_timeshare_count' = active_timeshare_count + One(r.timeshare)
    PROVE  Core'
<1>1. t \in Threads /\ RunQueueOK(rq) /\ ~rq.place[t].queued BY DEF Core, Fits
<1>2. OnlyAt(rq, rq', t) /\ Fits(rq', t, r) BY <1>1, EnqueueFits
<1>3. waiting_count \in Nat /\ active_timeshare_count \in Nat BY CountersFinite
<1>4. /\ One(r.state = "Waiting") = 0 /\ One(threads[t].state = "Waiting") = 1
      /\ One(Active(r)) = One(r.timeshare) /\ One(Active(threads[t])) = 0
      /\ One(r.timeshare) \in Nat
  BY DEF One, Active
<1>5. waiting_count' = waiting_count + One(r.state = "Waiting") - One(threads[t].state = "Waiting")
  BY <1>3, <1>4
<1>6. active_timeshare_count' = active_timeshare_count + One(Active(r)) - One(Active(threads[t]))
  BY <1>3, <1>4
<1> QED BY <1>2, <1>5, <1>6, UpdateKeepsCore

LEMMA MakeRunnableCore ==
    ASSUME Core, NEW t \in Registered, MakeRunnable(t), elapsed_ticks \in Nat
    PROVE  Core'
<1> DEFINE r == threads[t]
<1>1. r \in ThreadRecords /\ r.state \in States BY DEF Core, ThreadRecords
<1>2. CASE r.suspend_count # 0
  <2> DEFINE new == [r EXCEPT !.resume_runnable = TRUE]
  <2>1. /\ new \in ThreadRecords /\ new.state = r.state /\ new.timeshare = r.timeshare
        /\ new.scheduled_priority = r.scheduled_priority
        /\ new.bound_processor = r.bound_processor
        /\ new.suspend_count = r.suspend_count /\ r.suspend_count \in Nat
    BY <1>1 DEF ThreadRecords
  <2>3. SuspendOK(r) BY DEF Core
  <2>2. /\ threads' = [threads EXCEPT ![t] = new]
        /\ UNCHANGED <<rq, waiting_count, active_timeshare_count>>
    BY <1>2 DEF MakeRunnable, Update
  <2> HIDE DEF new
  <2>4. SuspendOK(new) BY <1>2, <2>1, <2>3 DEF SuspendOK
  <2> QED BY <2>1, <2>2, <2>4, QuietUpdate
<1>3. CASE r.suspend_count = 0 /\ (r.state = "Running" \/ rq.place[t].queued)
  <2>1. UNCHANGED <<threads, rq, waiting_count, active_timeshare_count>>
    BY <1>3 DEF MakeRunnable
  <2> QED BY <2>1, CoreUnchanged
<1>4. CASE r.suspend_count = 0 /\ ~(r.state = "Running" \/ rq.place[t].queued)
  <2> DEFINE ready == [Readied(r) EXCEPT
                         !.realtime_deadline = IF r.realtime
                                               THEN Plus(elapsed_ticks, r.realtime_constraint)
                                               ELSE @]
  <2>1. r.state = "Waiting" BY <1>1, <1>4 DEF Core, Fits, States
  <2>2. /\ Readied(r) \in ThreadRecords /\ Readied(r).state = "Runnable"
        /\ Readied(r).timeshare = r.timeshare /\ Readied(r).realtime_deadline \in Nat
        /\ Readied(r).suspend_count = r.suspend_count
        /\ Readied(r).resume_runnable = r.resume_runnable
    BY <1>1, ReadiedType
  <2>3. Plus(elapsed_ticks, r.realtime_constraint) \in Nat
    BY <1>1, PlusType DEF ThreadRecords
  <2>4. ready \in ThreadRecords /\ ready.state = "Runnable" /\ ready.timeshare = r.timeshare
        /\ SuspendOK(ready)
    BY <1>4, <2>2, <2>3 DEF ThreadRecords, Core, SuspendOK
  <2>5. /\ threads' = [threads EXCEPT ![t] = ready]
        /\ rq' = Enqueued(rq, t, ready, FALSE)
        /\ waiting_count' = waiting_count - One(r.state = "Waiting")
        /\ active_timeshare_count' =
               active_timeshare_count + One(r.state = "Waiting" /\ r.timeshare)
    BY <1>4 DEF MakeRunnable, Update
  <2> HIDE DEF ready
  <2>6. /\ waiting_count' = waiting_count - 1
        /\ active_timeshare_count' = active_timeshare_count + One(ready.timeshare)
    BY <2>1, <2>4, <2>5 DEF One
  <2> QED BY <2>1, <2>4, <2>5, <2>6, ReadyCore
<1> QED BY <1>2, <1>3, <1>4

LEMMA WakeCore ==
    ASSUME Core, NEW t \in Threads, wake_thread(t), elapsed_ticks \in Nat
    PROVE  Core'
<1>1. t \in Registered /\ threads[t] \in ThreadRecords BY DEF wake_thread, Core
<1>2. CASE threads[t].state = "Running"
  <2> DEFINE new == [threads[t] EXCEPT !.wake_pending = TRUE]
  <2>1. /\ new \in ThreadRecords /\ new.state = threads[t].state
        /\ new.timeshare = threads[t].timeshare
        /\ new.scheduled_priority = threads[t].scheduled_priority
        /\ new.bound_processor = threads[t].bound_processor /\ SuspendOK(new)
    BY <1>1 DEF ThreadRecords, Core, SuspendOK
  <2>2. /\ threads' = [threads EXCEPT ![t] = new]
        /\ UNCHANGED <<rq, waiting_count, active_timeshare_count>>
    BY <1>2 DEF wake_thread, Update
  <2> HIDE DEF new
  <2> QED BY <1>1, <2>1, <2>2, QuietUpdate
<1>3. CASE threads[t].state # "Running" BY <1>1, <1>3, MakeRunnableCore DEF wake_thread
<1> QED BY <1>2, <1>3

\* Every action that makes a thread wait: block, suspend_thread.
LEMMA WaitCore ==
    ASSUME Core, NEW t \in Registered, NEW r \in ThreadRecords, r.state = "Waiting",
           SuspendOK(r), threads' = [threads EXCEPT ![t] = r], rq' = remove_from_queue(rq, t),
           waiting_count' = waiting_count + One(threads[t].state # "Waiting"),
           active_timeshare_count' = active_timeshare_count - One(Active(threads[t]))
    PROVE  Core'
<1>1. t \in Threads /\ RunQueueOK(rq) BY DEF Core
<1>2. OnlyAt(rq, rq', t) /\ Fits(rq', t, r) BY <1>1, RemoveFits DEF Fits
<1>3. waiting_count \in Nat /\ active_timeshare_count \in Nat BY CountersFinite
<1>4. /\ One(r.state = "Waiting") = 1 /\ One(Active(r)) = 0
      /\ One(threads[t].state # "Waiting") = 1 - One(threads[t].state = "Waiting")
      /\ One(threads[t].state = "Waiting") \in Nat /\ One(Active(threads[t])) \in Nat
  BY DEF One, Active
<1>5. waiting_count' = waiting_count + One(r.state = "Waiting") - One(threads[t].state = "Waiting")
  BY <1>3, <1>4
<1>6. active_timeshare_count' = active_timeshare_count + One(Active(r)) - One(Active(threads[t]))
  BY <1>3, <1>4
<1> QED BY <1>2, <1>5, <1>6, UpdateKeepsCore

LEMMA BlockCore ==
    ASSUME Core, NEW t \in Threads, block(t)
    PROVE  Core'
<1> DEFINE r == threads[t]
           new == [r EXCEPT !.state = "Waiting", !.remaining_quantum = quantum_for(r),
                            !.computation_metered = 0,
                            !.resume_runnable = IF r.suspend_count # 0 THEN FALSE ELSE @]
<1>1. t \in Registered /\ r \in ThreadRecords BY DEF block, Core
<1>2. quantum_for(r) \in Nat BY <1>1, QuantumType
<1>3. new \in ThreadRecords /\ new.state = "Waiting" /\ SuspendOK(new)
  BY <1>1, <1>2 DEF ThreadRecords, States, Core, SuspendOK
<1>4. /\ threads' = [threads EXCEPT ![t] = new] /\ rq' = remove_from_queue(rq, t)
      /\ waiting_count' = waiting_count + One(threads[t].state # "Waiting")
      /\ active_timeshare_count' = active_timeshare_count - One(Active(threads[t]))
  BY DEF block, Update, Active
<1> HIDE DEF new
<1> QED BY <1>1, <1>3, <1>4, WaitCore

LEMMA SuspendCore ==
    ASSUME Core, NEW t \in Threads, suspend_thread(t)
    PROVE  Core'
<1> DEFINE r == threads[t]
           suspended == [r EXCEPT !.suspend_count = @ + 1]
           new == [suspended EXCEPT !.resume_runnable = r.state # "Waiting",
                                    !.state = "Waiting"]
<1>1. t \in Registered /\ r \in ThreadRecords BY DEF suspend_thread, Core
<1>2. /\ suspended \in ThreadRecords /\ suspended.state = r.state
      /\ suspended.timeshare = r.timeshare
      /\ suspended.scheduled_priority = r.scheduled_priority
      /\ suspended.bound_processor = r.bound_processor
      /\ suspended.suspend_count = r.suspend_count + 1 /\ r.suspend_count \in Nat
      /\ r.suspend_count # 0 => SuspendOK(suspended)
  BY <1>1 DEF ThreadRecords, Core, SuspendOK
<1>3. CASE r.suspend_count # 0
  <2>1. /\ threads' = [threads EXCEPT ![t] = suspended]
        /\ UNCHANGED <<rq, waiting_count, active_timeshare_count>>
    BY <1>3 DEF suspend_thread, Update
  <2> HIDE DEF suspended
  <2> QED BY <1>1, <1>2, <1>3, <2>1, QuietUpdate
<1>4. CASE r.suspend_count = 0
  <2>5. /\ new \in ThreadRecords /\ new.state = "Waiting"
        /\ new.suspend_count = suspended.suspend_count
    BY <1>2 DEF ThreadRecords, States
  <2>6. new.suspend_count > 0 BY <1>2, <2>5
  <2>1. new \in ThreadRecords /\ new.state = "Waiting" /\ SuspendOK(new)
    BY <2>5, <2>6 DEF SuspendOK
  <2>2. /\ threads' = [threads EXCEPT ![t] = new]
        /\ rq' = IF r.state # "Waiting" THEN remove_from_queue(rq, t) ELSE rq
        /\ waiting_count' = waiting_count + One(r.state # "Waiting")
        /\ active_timeshare_count' = active_timeshare_count - One(Active(r))
    BY <1>4 DEF suspend_thread, Update, Active
  <2>3. r.state = "Waiting" => remove_from_queue(rq, t) = rq
    BY <1>1 DEF Core, Fits, remove_from_queue
  <2>4. rq' = remove_from_queue(rq, t) BY <2>2, <2>3
  <2> HIDE DEF new
  <2> QED BY <1>1, <2>1, <2>2, <2>4, WaitCore
<1> QED BY <1>3, <1>4

LEMMA ResumeCore ==
    ASSUME Core, NEW t \in Threads, resume_thread(t)
    PROVE  Core'
<1> DEFINE r == [threads[t] EXCEPT !.suspend_count = @ - 1]
           s == [r EXCEPT !.resume_runnable = FALSE]
<1>1. t \in Registered /\ threads[t] \in ThreadRecords /\ threads[t].suspend_count > 0
  BY DEF resume_thread, Core
<1>s. threads[t].state = "Waiting" BY <1>1 DEF Core, SuspendOK
<1>2. /\ r \in ThreadRecords /\ r.state = threads[t].state
      /\ r.timeshare = threads[t].timeshare
      /\ r.scheduled_priority = threads[t].scheduled_priority
      /\ r.bound_processor = threads[t].bound_processor
  BY <1>1 DEF ThreadRecords
<1>3. /\ s \in ThreadRecords /\ s.timeshare = threads[t].timeshare
      /\ s.suspend_count = r.suspend_count /\ ~s.resume_runnable
  BY <1>2 DEF ThreadRecords
<1>4. CASE r.suspend_count # 0 \/ ~r.resume_runnable
  <2>1. /\ threads' = [threads EXCEPT ![t] = r]
        /\ UNCHANGED <<rq, waiting_count, active_timeshare_count>>
    BY <1>4 DEF resume_thread, Update
  <2>2. SuspendOK(r) BY <1>1, <1>4, <1>s DEF SuspendOK, ThreadRecords
  <2> HIDE DEF r
  <2> QED BY <1>1, <1>2, <2>1, <2>2, QuietUpdate
<1>5. CASE ~(r.suspend_count # 0 \/ ~r.resume_runnable)
  <2>1. /\ threads' = [threads EXCEPT ![t] = Readied(s)]
        /\ rq' = Enqueued(rq, t, Readied(s), FALSE)
        /\ waiting_count' = waiting_count - 1
        /\ active_timeshare_count' = active_timeshare_count + One(r.timeshare)
    BY <1>5 DEF resume_thread, Update
  <2> HIDE DEF s, r
  <2>2. /\ Readied(s) \in ThreadRecords /\ Readied(s).state = "Runnable"
        /\ Readied(s).timeshare = threads[t].timeshare /\ SuspendOK(Readied(s))
    BY <1>3, <1>5, ReadiedType DEF SuspendOK
  <2>3. active_timeshare_count' = active_timeshare_count + One(Readied(s).timeshare)
    BY <1>2, <2>1, <2>2
  <2> QED BY <1>1, <1>s, <2>1, <2>2, <2>3, ReadyCore
<1> QED BY <1>4, <1>5

-----------------------------------------------------------------------------
(***************************************************************************)
(* Policy calls.                                                           *)
(***************************************************************************)

\* The fields by which a record is queued and counted, but for timeshare.
Aligned(r, s) ==
    /\ s \in ThreadRecords
    /\ s.state = r.state /\ s.scheduled_priority = r.scheduled_priority
    /\ s.bound_processor = r.bound_processor
    /\ s.suspend_count = r.suspend_count /\ s.resume_runnable = r.resume_runnable

LEMMA AlignedRecompute ==
    ASSUME Core, NEW t \in Registered, NEW r, Aligned(threads[t], r), Recompute(t, r),
           UNCHANGED waiting_count,
           active_timeshare_count' = active_timeshare_count + One(Active(r))
                                                            - One(Active(threads[t]))
    PROVE  Core'
<1>1. SuspendOK(r) BY DEF Core, SuspendOK, Aligned
<1> QED BY <1>1, RecomputeKeepsCore DEF Aligned

LEMMA SetBasePriorityCore ==
    ASSUME Core, NEW t \in Threads, NEW base \in BasePriorities, set_base_priority(t, base)
    PROVE  Core'
<1> DEFINE r == [threads[t] EXCEPT !.base_priority = base]
<1>1. t \in Registered /\ threads[t] \in ThreadRecords /\ base \in Priorities
  BY SchedulerAssumption DEF set_base_priority, Core
<1>2. Aligned(threads[t], r) /\ r.timeshare = threads[t].timeshare
  BY <1>1 DEF Aligned, ThreadRecords
<1>3. Recompute(t, r) /\ UNCHANGED <<waiting_count, active_timeshare_count>>
  BY DEF set_base_priority
<1> HIDE DEF r
<1>4. One(Active(r)) = One(Active(threads[t])) /\ One(Active(r)) \in Nat
  BY <1>2 DEF Active, Aligned, One
<1>5. active_timeshare_count' = active_timeshare_count + One(Active(r)) - One(Active(threads[t]))
  BY <1>3, <1>4, CountersFinite
<1> QED BY <1>1, <1>2, <1>3, <1>5, AlignedRecompute

\* The count follows a change of the timeshare flag.
LEMMA MovesCount ==
    ASSUME NEW r \in ThreadRecords, NEW s \in ThreadRecords, s.state = r.state,
           NEW moves, moves = (r.state # "Waiting" /\ r.timeshare # s.timeshare)
    PROVE  One(moves /\ s.timeshare) - One(moves /\ ~s.timeshare)
               = One(Active(s)) - One(Active(r))
<1>1. r.timeshare \in BOOLEAN /\ s.timeshare \in BOOLEAN BY DEF ThreadRecords
<1>2. CASE r.timeshare = TRUE /\ s.timeshare = TRUE
  <2>1. ~moves BY <1>2
  <2>2. Active(s) <=> Active(r) BY <1>2 DEF Active
  <2>3. One(moves /\ s.timeshare) = 0 /\ One(moves /\ ~s.timeshare) = 0 BY <2>1 DEF One
  <2>4. One(Active(s)) = One(Active(r)) /\ One(Active(r)) \in Nat BY <2>2 DEF One
  <2> QED BY <2>3, <2>4
<1>3. CASE r.timeshare = TRUE /\ s.timeshare = FALSE BY <1>3 DEF One, Active
<1>4. CASE r.timeshare = FALSE /\ s.timeshare = TRUE BY <1>4 DEF One, Active
<1>5. CASE r.timeshare = FALSE /\ s.timeshare = FALSE BY <1>5 DEF One, Active
<1> QED BY <1>1, <1>2, <1>3, <1>4, <1>5

LEMMA OneType == \A b : One(b) \in Nat BY DEF One

LEMMA SetTimeshareCore ==
    ASSUME Core, NEW t \in Threads, NEW timeshare \in Timeshares, set_timeshare(t, timeshare)
    PROVE  Core'
<1> DEFINE old == threads[t]
           r == [old EXCEPT !.realtime = FALSE, !.timeshare = timeshare,
                            !.remaining_quantum = QuantumTicks]
           moves == old.state # "Waiting" /\ old.timeshare # timeshare
<1>1. t \in Registered /\ old \in ThreadRecords /\ timeshare \in BOOLEAN /\ QuantumTicks \in Nat
  BY SchedulerAssumption DEF set_timeshare, Core
<1>2. Aligned(old, r) /\ r.timeshare = timeshare BY <1>1 DEF Aligned, ThreadRecords
<1>3. /\ Recompute(t, r) /\ UNCHANGED waiting_count
      /\ active_timeshare_count' =
             active_timeshare_count + One(moves /\ timeshare) - One(moves /\ ~timeshare)
  BY DEF set_timeshare
<1> HIDE DEF r
<1>4. moves = (old.state # "Waiting" /\ old.timeshare # r.timeshare) BY <1>2
<1> HIDE DEF moves
<1>5. One(moves /\ timeshare) - One(moves /\ ~timeshare) = One(Active(r)) - One(Active(old))
  BY <1>1, <1>2, <1>4, MovesCount DEF Aligned
<1>6. active_timeshare_count' = active_timeshare_count + One(Active(r)) - One(Active(old))
  BY <1>3, <1>5, OneType, CountersFinite
<1> QED BY <1>1, <1>2, <1>3, <1>6, AlignedRecompute

LEMMA LegacyPolicyCore ==
    ASSUME Core, NEW t \in Threads, NEW timeshare \in Timeshares, NEW base \in BasePriorities,
           legacy_thread_policy(t, timeshare, base)
    PROVE  Core'
<1> DEFINE old == threads[t]
           changes == old.realtime \/ old.timeshare # timeshare
           moves == old.state # "Waiting" /\ old.timeshare # timeshare
           r1 == [old EXCEPT !.realtime = FALSE, !.timeshare = timeshare,
                             !.remaining_quantum = QuantumTicks]
           first == IF changes THEN Recomputed(r1) ELSE old
           r2 == [first EXCEPT !.base_priority = base]
           second == IF base = old.base_priority THEN first ELSE Recomputed(r2)
           q1 == RequeuedIfMoved(rq, t, old, first)
           q2 == RequeuedIfMoved(q1, t, first, second)
<1>1. /\ t \in Registered /\ t \in Threads /\ old \in ThreadRecords /\ timeshare \in BOOLEAN
      /\ QuantumTicks \in Nat /\ base \in Priorities
      /\ RunQueueOK(rq) /\ Fits(rq, t, old) /\ SuspendOK(old)
  BY SchedulerAssumption DEF legacy_thread_policy, Core
<1>2. /\ threads' = [threads EXCEPT ![t] = second] /\ rq' = q2 /\ UNCHANGED waiting_count
      /\ active_timeshare_count' =
             active_timeshare_count + One(moves /\ timeshare) - One(moves /\ ~timeshare)
  BY DEF legacy_thread_policy, Update
<1>3. SameButPriority(r1, Recomputed(r1)) /\ r1.timeshare = timeshare
      /\ r1.state = old.state /\ r1.bound_processor = old.bound_processor
      /\ r1.suspend_count = old.suspend_count /\ r1.resume_runnable = old.resume_runnable
  <2>1. r1 \in ThreadRecords BY <1>1 DEF ThreadRecords
  <2> QED BY <1>1, <2>1, RecomputedType DEF ThreadRecords
<1>4. /\ first \in ThreadRecords /\ first.timeshare = timeshare
      /\ first.state = old.state /\ first.bound_processor = old.bound_processor
      /\ first.suspend_count = old.suspend_count
      /\ first.resume_runnable = old.resume_runnable
  <2>1. CASE changes
    <3> HIDE DEF r1, changes
    <3> QED BY <1>3, <2>1 DEF SameButPriority
  <2>2. CASE ~changes BY <1>1, <2>2 DEF ThreadRecords
  <2> QED BY <2>1, <2>2
<1> HIDE DEF first
<1>5. /\ r2 \in ThreadRecords /\ r2.timeshare = first.timeshare
      /\ r2.state = first.state /\ r2.bound_processor = first.bound_processor
      /\ r2.suspend_count = first.suspend_count
      /\ r2.resume_runnable = first.resume_runnable
  BY <1>1, <1>4 DEF ThreadRecords
<1> HIDE DEF r2
<1>6. SameButPriority(r2, Recomputed(r2)) BY <1>5, RecomputedType
<1>7. /\ second \in ThreadRecords /\ second.timeshare = timeshare
      /\ second.state = old.state /\ second.bound_processor = old.bound_processor
      /\ second.suspend_count = old.suspend_count
      /\ second.resume_runnable = old.resume_runnable
  BY <1>4, <1>5, <1>6 DEF SameButPriority
<1> HIDE DEF second
<1>8. OnlyAt(rq, q1, t) /\ Fits(q1, t, first) BY <1>1, <1>4, MoveFits
<1> HIDE DEF q1
<1>9. OnlyAt(q1, q2, t) /\ Fits(q2, t, second) BY <1>1, <1>4, <1>7, <1>8, MoveFits DEF OnlyAt
<1>10. OnlyAt(rq, rq', t) /\ Fits(rq', t, second) BY <1>2, <1>8, <1>9 DEF OnlyAt
<1>11. moves = (old.state # "Waiting" /\ old.timeshare # second.timeshare) BY <1>7
<1> HIDE DEF moves
<1>12. One(moves /\ timeshare) - One(moves /\ ~timeshare) = One(Active(second)) - One(Active(old))
  BY <1>1, <1>7, <1>11, MovesCount
<1>13. active_timeshare_count' = active_timeshare_count + One(Active(second)) - One(Active(old))
  BY <1>2, <1>12, OneType, CountersFinite
<1>14. waiting_count' = waiting_count + One(second.state = "Waiting") - One(old.state = "Waiting")
  BY <1>2, <1>7, OneType, CountersFinite
<1>15. SuspendOK(second) BY <1>1, <1>7 DEF SuspendOK
<1> QED BY <1>1, <1>2, <1>7, <1>10, <1>13, <1>14, <1>15, UpdateKeepsCore

LEMMA SetRealtimeCore ==
    ASSUME Core, NEW t \in Threads, NEW rp \in RealtimeParameters,
           set_realtime(t, rp[1], rp[2]), elapsed_ticks \in Nat
    PROVE  Core'
<1> DEFINE old == threads[t]
           r == [old EXCEPT !.timeshare = FALSE, !.realtime = TRUE,
                            !.realtime_computation = rp[1],
                            !.realtime_constraint = rp[2],
                            !.realtime_deadline = Plus(elapsed_ticks, rp[2]),
                            !.remaining_quantum = rp[1]]
<1>1. t \in Registered /\ old \in ThreadRecords /\ rp[1] \in Nat /\ rp[2] \in Nat
  BY SchedulerAssumption DEF set_realtime, Core
<1>2. Plus(elapsed_ticks, rp[2]) \in Nat BY <1>1, PlusType
<1>3. Aligned(old, r) /\ ~r.timeshare BY <1>1, <1>2 DEF Aligned, ThreadRecords
<1>4. /\ Recompute(t, r) /\ UNCHANGED waiting_count
      /\ active_timeshare_count' = active_timeshare_count - One(Active(old))
  BY DEF set_realtime, Active
<1> HIDE DEF r
<1>5. One(Active(r)) = 0 BY <1>3 DEF One, Active
<1>6. active_timeshare_count' = active_timeshare_count + One(Active(r)) - One(Active(old))
  BY <1>4, <1>5, OneType, CountersFinite
<1> QED BY <1>1, <1>3, <1>4, <1>6, AlignedRecompute

LEMMA BindCore ==
    ASSUME Core, NEW t \in Threads, NEW proc \in Bindings, bind_thread(t, proc)
    PROVE  Core'
<1> DEFINE old == threads[t]
           r == [old EXCEPT !.bound_processor = proc]
<1>1. /\ t \in Registered /\ old \in ThreadRecords /\ proc \in QueueKeys
      /\ RunQueueOK(rq) /\ Fits(rq, t, old) /\ SuspendOK(old)
  BY SchedulerAssumption DEF bind_thread, Core
<1>2. /\ r \in ThreadRecords /\ r.state = old.state /\ r.timeshare = old.timeshare
      /\ r.suspend_count = old.suspend_count /\ r.resume_runnable = old.resume_runnable
  BY <1>1 DEF ThreadRecords
<1>3. /\ threads' = [threads EXCEPT ![t] = r] /\ rq' = Requeued(rq, t, r)
      /\ UNCHANGED <<waiting_count, active_timeshare_count>>
  BY DEF bind_thread, Update
<1> HIDE DEF r
<1>4. OnlyAt(rq, rq', t) /\ Fits(rq', t, r) BY <1>1, <1>2, <1>3, RequeueFits
<1>5. SuspendOK(r) BY <1>1, <1>2 DEF SuspendOK
<1>6. One(Active(r)) = One(Active(old)) /\ One(r.state = "Waiting") = One(old.state = "Waiting")
  BY <1>2 DEF Active
<1>7. /\ waiting_count' = waiting_count + One(r.state = "Waiting") - One(old.state = "Waiting")
      /\ active_timeshare_count' = active_timeshare_count + One(Active(r)) - One(Active(old))
  BY <1>3, <1>6, OneType, CountersFinite
<1> QED BY <1>1, <1>2, <1>3, <1>4, <1>5, <1>7, UpdateKeepsCore

-----------------------------------------------------------------------------
(***************************************************************************)
(* Choosing.                                                               *)
(***************************************************************************)

\* A non-empty index has a first entry: the minimum of the std::set order.
LEMMA FirstEntry ==
    ASSUME NEW S \in SUBSET (Nat \X Threads), S # {}
    PROVE  \E e \in S : \A o \in S : Before(e, o)
<1>1. Threads \subseteq Nat BY RunQueueAssumption
<1> DEFINE Keys == {e[1] : e \in S}
<1>2. Keys \in SUBSET Nat /\ Keys # {} OBVIOUS
<1>3. PICK k \in Keys : \A o \in Keys : k <= o BY <1>2, LeastNatural
<1> DEFINE Ties == {e[2] : e \in {o \in S : o[1] = k}}
<1>4. Ties \in SUBSET Nat /\ Ties # {} BY <1>1
<1>5. PICK m \in Ties : \A o \in Ties : m <= o BY <1>4, LeastNatural
<1>6. PICK e \in S : e[1] = k /\ e[2] = m OBVIOUS
<1>7. ASSUME NEW o \in S PROVE Before(e, o)
  <2>1. o[1] \in Keys /\ o[1] \in Nat /\ k \in Nat /\ k <= o[1] BY <1>2, <1>3
  <2>2. CASE o[1] = k
    <3>1. o[2] \in Ties BY <2>2
    <3>2. m <= o[2] BY <1>5, <3>1
    <3> QED BY <1>6, <2>2, <3>2 DEF Before
  <2>3. CASE o[1] # k BY <1>6, <2>1, <2>3 DEF Before
  <2> QED BY <2>2, <2>3
<1> QED BY <1>7

\* peek_highest returns a thread of this queue, of the priority of high_queue.
LEMMA PeekHighest ==
    ASSUME NEW q, RunQueueOK(q), NEW c \in QueueKeys, ~PeekThrows(q, c)
    PROVE  LET t == peek_highest(q, c) IN
           /\ t \in Threads /\ q.place[t].queued /\ q.place[t].processor = c
           /\ q.place[t].priority = q.high_queue[c]
<1> DEFINE p == q.high_queue[c]
<1>1. /\ p \in Priorities \cup {NoQueue} /\ q.realtime_order[c] \in SUBSET (Nat \X Threads)
      /\ RealtimeQueuePriority \in Nat
  BY RunQueueAssumption DEF RunQueueOK, RunQueueType
<1>2. CASE p >= RealtimeQueuePriority
  <2>1. /\ q.realtime_order[c] # {} /\ q.place[FirstRealtime(q, c)].queued
        /\ q.place[FirstRealtime(q, c)].priority = p
    BY <1>2 DEF PeekThrows
  <2>2. \E e \in q.realtime_order[c] : \A o \in q.realtime_order[c] : Before(e, o)
    BY <1>1, <2>1, FirstEntry
  <2> DEFINE first == CHOOSE k \in q.realtime_order[c] : \A o \in q.realtime_order[c] : Before(k, o)
  <2>3. first \in q.realtime_order[c] BY <2>2
  <2>4. FirstRealtime(q, c) = first[2] BY DEF FirstRealtime
  <2> HIDE DEF first
  <2>5. first[2] \in Queued(q, c) BY <2>3 DEF RunQueueOK, RealtimeOrderExact
  <2>6. peek_highest(q, c) = first[2] BY <1>2, <2>4 DEF peek_highest
  <2> QED BY <2>1, <2>4, <2>5, <2>6 DEF Queued
<1>3. CASE ~(p >= RealtimeQueuePriority)
  <2>1. p \in Priorities /\ q.queues[c][p] # << >>
    BY <1>1, <1>3 DEF PeekThrows, Priorities, NoQueue
  <2>2. q.queues[c][p] \in Seq(Threads) BY <2>1 DEF RunQueueOK, RunQueueType
  <2> DEFINE list == q.queues[c][p]
  <2>3. 1 \in 1 .. Len(list) /\ Head(list) = list[1] /\ list[1] \in Threads BY <2>1, <2>2
  <2>4. peek_highest(q, c) = Head(list) BY <1>3 DEF peek_highest
  <2>5. ASSUME NEW k \in Priorities
        PROVE  \A i \in 1 .. Len(q.queues[c][k]) :
                   /\ q.place[q.queues[c][k][i]].queued
                   /\ q.place[q.queues[c][k][i]].processor = c
                   /\ q.place[q.queues[c][k][i]].priority = k
    BY DEF RunQueueOK, ListsMatchPlaces
  <2>6. PICK k \in Priorities : k = p BY <2>1
  <2>7. \A i \in 1 .. Len(list) : /\ q.place[list[i]].queued /\ q.place[list[i]].processor = c
                                  /\ q.place[list[i]].priority = k
    <3>1. list = q.queues[c][k] BY <2>6
    <3> HIDE DEF list
    <3> QED BY <2>5, <3>1
  <2>9. peek_highest(q, c) = list[1] BY <2>3, <2>4
  <2> HIDE DEF p, list
  <2>8. /\ q.place[list[1]].queued /\ q.place[list[1]].processor = c
        /\ q.place[list[1]].priority = p
    BY <2>3, <2>6, <2>7
  <2> QED BY <2>3, <2>8, <2>9 DEF p
<1> QED BY <1>2, <1>3

\* A dispatched thread leaves its queue and runs.
LEMMA DispatchCore ==
    ASSUME Core, NEW t \in Threads, NEW proc \in Processors, rq.place[t].queued,
           Dispatch(t, proc)
    PROVE  Core' /\ t \in Registered
<1> DEFINE old == threads[t]
           q == remove_from_queue(rq, t)
           r == Restored(old)
           renew == r.timeshare /\ (r.remaining_timeslices = 0 \/ r.timeslice_processor # proc)
           new == [r EXCEPT
                     !.state = "Running",
                     !.remaining_timeslices = IF renew THEN timeshare_quanta(q) ELSE @,
                     !.timeslice_processor = IF renew THEN proc ELSE @,
                     !.priority_usage_shift =
                         processor_set_priority_shift(active_timeshare_count)]
<1>1. /\ t \in Registered /\ old \in ThreadRecords /\ old.state = "Runnable"
      /\ RunQueueOK(rq) /\ SuspendOK(old) /\ proc \in QueueKeys
  BY DEF Core, Fits, QueueKeys
<1>2. SameButPriority(old, r) BY <1>1, RestoredType
<1>3. OnlyAt(rq, q, t) /\ ~q.place[t].queued BY <1>1, RemoveFits
<1>4. timeshare_quanta(q) \in Nat
  <2>1. q.count[PSet] \in Nat BY <1>3 DEF OnlyAt, RunQueueOK, RunQueueType, QueueKeys
  <2>2. ProcessorCount \in Nat BY RunQueueAssumption
  <2> HIDE DEF q
  <2> QED BY <2>1, <2>2 DEF timeshare_quanta
<1>5. processor_set_priority_shift(active_timeshare_count) \in OptionalTick BY ShiftType
<1>6. /\ threads' = [threads EXCEPT ![t] = new] /\ rq' = q
      /\ UNCHANGED <<waiting_count, active_timeshare_count>>
  BY DEF Dispatch, Update
<1> HIDE DEF r, q, renew
<1>7. /\ new \in ThreadRecords /\ new.state = "Running" /\ new.timeshare = old.timeshare
      /\ new.suspend_count = old.suspend_count /\ new.resume_runnable = old.resume_runnable
  BY <1>1, <1>2, <1>4, <1>5 DEF SameButPriority, ThreadRecords, States
<1> HIDE DEF new
<1>8. OnlyAt(rq, rq', t) /\ Fits(rq', t, new) BY <1>3, <1>6, <1>7 DEF Fits
<1>9. SuspendOK(new)
  <2>1. old.suspend_count \in Nat BY <1>1 DEF ThreadRecords
  <2> QED BY <1>1, <1>7, <2>1 DEF SuspendOK
<1>10. One(Active(new)) = One(Active(old)) /\ One(new.state = "Waiting") = One(old.state = "Waiting")
  BY <1>1, <1>7 DEF Active, One
<1>11. /\ waiting_count' = waiting_count + One(new.state = "Waiting") - One(old.state = "Waiting")
       /\ active_timeshare_count' = active_timeshare_count + One(Active(new)) - One(Active(old))
  BY <1>6, <1>10, OneType, CountersFinite
<1> QED BY <1>1, <1>6, <1>7, <1>8, <1>9, <1>11, UpdateKeepsCore

-----------------------------------------------------------------------------
(***************************************************************************)
(* Completing a slice.                                                     *)
(***************************************************************************)

\* Accounting changes neither state nor binding; a fail-safe demotion is the only
\* change of the timeshare flag.
AccountedLike(r, s) ==
    /\ s \in ThreadRecords
    /\ s.state = r.state /\ s.suspend_count = r.suspend_count
    /\ s.resume_runnable = r.resume_runnable
    /\ \/ s.timeshare = r.timeshare /\ s.failsafe = r.failsafe
       \/ ~r.timeshare /\ ~r.failsafe /\ s.timeshare /\ s.failsafe

LEMMA AccountedType ==
    ASSUME NEW r \in ThreadRecords, NEW ticks \in Nat, scheduler_tick \in Nat
    PROVE  AccountedLike(r, Accounted(r, ticks))
<1> DEFINE c == Charged(r, ticks)
           f == [c EXCEPT
                   !.saved_base_priority = c.base_priority, !.saved_timeshare = c.timeshare,
                   !.saved_realtime = c.realtime,
                   !.realtime = FALSE, !.base_priority = IF c.realtime THEN 0 ELSE @,
                   !.timeshare = TRUE, !.failsafe = TRUE,
                   !.failsafe_release_tick = Plus(scheduler_tick, FailsafeReleaseTicks)]
<1>1. /\ Plus(r.scheduling_usage, ticks) \in Nat
      /\ Minus(r.remaining_quantum, ticks) \in Nat
      /\ Plus(r.computation_metered, ticks) \in Nat
  BY PlusType, MinusType DEF ThreadRecords
<1>2. /\ c \in ThreadRecords /\ c.state = r.state /\ c.suspend_count = r.suspend_count
      /\ c.resume_runnable = r.resume_runnable /\ c.timeshare = r.timeshare
      /\ c.failsafe = r.failsafe
  BY <1>1 DEF Charged, ThreadRecords
<1> HIDE DEF c
<1>3. Plus(scheduler_tick, FailsafeReleaseTicks) \in Nat BY SchedulerAssumption, PlusType
<1>4. 0 \in Priorities BY RunQueueAssumption DEF Priorities
<1>5. /\ f \in ThreadRecords /\ f.state = c.state /\ f.suspend_count = c.suspend_count
      /\ f.resume_runnable = c.resume_runnable
  <2> DEFINE base == IF c.realtime THEN 0 ELSE c.base_priority
             tick == Plus(scheduler_tick, FailsafeReleaseTicks)
  <2>1. /\ base \in Priorities /\ c.base_priority \in Priorities
        /\ c.timeshare \in BOOLEAN /\ c.realtime \in BOOLEAN
    BY <1>2, <1>4 DEF ThreadRecords
  <2>2. f = [c EXCEPT !.saved_base_priority = c.base_priority,
                      !.saved_timeshare = c.timeshare, !.saved_realtime = c.realtime,
                      !.realtime = FALSE, !.base_priority = base,
                      !.timeshare = TRUE, !.failsafe = TRUE, !.failsafe_release_tick = tick]
    OBVIOUS
  <2>3. tick \in Nat BY <1>3
  <2> HIDE DEF f, base, tick
  <2>4. f \in ThreadRecords BY <1>2, <2>1, <2>2, <2>3 DEF ThreadRecords
  <2>5. /\ f.state = c.state /\ f.suspend_count = c.suspend_count
        /\ f.resume_runnable = c.resume_runnable
    BY <1>2, <2>2 DEF ThreadRecords
  <2> QED BY <2>4, <2>5
<1>6. f.timeshare /\ f.failsafe
  <2>1. f.timeshare = TRUE BY <1>2, Zenon DEF ThreadRecords
  <2>2. f.failsafe = TRUE BY <1>2, Zenon DEF ThreadRecords
  <2> QED BY <2>1, <2>2
<1>7. apply_failsafe(c) = Recomputed(f) BY DEF apply_failsafe
<1> HIDE DEF f
<1>8. SameButPriority(f, Recomputed(f)) BY <1>5, RecomputedType
<1>9. CASE Unsafe(c)
  <2>1. Accounted(r, ticks) = Recomputed(f) BY <1>7, <1>9 DEF Accounted, c
  <2>2. ~c.timeshare /\ ~c.failsafe BY <1>9 DEF Unsafe
  <2> QED BY <1>2, <1>5, <1>6, <1>8, <2>1, <2>2 DEF AccountedLike, SameButPriority
<1>10. CASE ~Unsafe(c)
  <2>1. Accounted(r, ticks) = c BY <1>10 DEF Accounted, c
  <2> QED BY <1>2, <2>1 DEF AccountedLike
<1> QED BY <1>9, <1>10

Completions == {"Continue", "Yield", "Block"}

SliceLike(r, s) ==
    /\ s \in ThreadRecords /\ s.timeshare = r.timeshare
    /\ s.suspend_count = r.suspend_count /\ s.resume_runnable = r.resume_runnable
    /\ s.state \in {"Runnable", "Waiting"}

LEMMA AfterSliceType ==
    ASSUME NEW r \in ThreadRecords, NEW completion \in Completions
    PROVE  SliceLike(r, AfterSlice(r, completion).record)
<1> DEFINE q == quantum_for(r)
           s == AfterSlice(r, completion).record
           turned == [r EXCEPT
                        !.wake_pending = FALSE,
                        !.computation_metered = IF completion = "Yield" THEN 0 ELSE @,
                        !.remaining_quantum = q, !.state = "Runnable"]
           rotated == Recomputed(turned)
           keeps == completion # "Yield" /\ r.timeshare /\ r.remaining_timeslices > 1
           released == [r EXCEPT !.remaining_quantum = q,
                                 !.remaining_timeslices = 0, !.timeslice_processor = PSet]
           expired == r.remaining_quantum = 0
<1>1. q \in Nat BY QuantumType
<1>2. PSet \in QueueKeys BY DEF QueueKeys
<1>3. CASE completion = "Block"
  <2> DEFINE b == [released EXCEPT !.wake_pending = FALSE,
                      !.state = IF r.wake_pending THEN "Runnable" ELSE "Waiting"]
  <2>1. s = b BY <1>3 DEF AfterSlice
  <2> HIDE DEF q, s
  <2>2. released \in ThreadRecords /\ released.timeshare = r.timeshare
        /\ released.suspend_count = r.suspend_count
        /\ released.resume_runnable = r.resume_runnable
    BY <1>1, <1>2 DEF ThreadRecords
  <2> HIDE DEF released
  <2>3. SliceLike(r, b) BY <2>2 DEF SliceLike, ThreadRecords, States
  <2> QED BY <2>1, <2>3 DEF s
<1>4. CASE completion # "Block" /\ (completion = "Yield" \/ expired)
  <2> DEFINE a == [rotated EXCEPT !.remaining_timeslices = @ - 1]
             b == [rotated EXCEPT !.remaining_timeslices = 0, !.timeslice_processor = PSet]
  <2>1. s = IF keeps THEN a ELSE b BY <1>4 DEF AfterSlice
  <2> HIDE DEF q, s
  <2>2. /\ turned \in ThreadRecords /\ turned.state = "Runnable"
        /\ turned.timeshare = r.timeshare /\ turned.suspend_count = r.suspend_count
        /\ turned.resume_runnable = r.resume_runnable
    BY <1>1 DEF ThreadRecords, States
  <2>3. turned.remaining_timeslices = r.remaining_timeslices
    BY DEF ThreadRecords
  <2> HIDE DEF turned
  <2>4. SameButPriority(turned, rotated) BY <2>2, RecomputedType
  <2>5. rotated.remaining_timeslices = turned.remaining_timeslices
    BY <2>2 DEF Recomputed, ThreadRecords
  <2>6. /\ rotated \in ThreadRecords /\ rotated.timeshare = r.timeshare
        /\ rotated.suspend_count = r.suspend_count
        /\ rotated.resume_runnable = r.resume_runnable /\ rotated.state = "Runnable"
    BY <2>2, <2>4 DEF SameButPriority
  <2> HIDE DEF rotated
  <2>7. CASE keeps
    <3>1. rotated.remaining_timeslices - 1 \in Nat
      BY <2>3, <2>5, <2>7 DEF ThreadRecords
    <3>2. SliceLike(r, a) BY <2>6, <3>1 DEF SliceLike, ThreadRecords
    <3> QED BY <2>1, <2>7, <3>2 DEF s
  <2>8. CASE ~keeps
    <3>1. SliceLike(r, b) BY <1>2, <2>6 DEF SliceLike, ThreadRecords
    <3> QED BY <2>1, <2>8, <3>1 DEF s
  <2> QED BY <2>7, <2>8
<1>5. CASE completion # "Block" /\ ~(completion = "Yield" \/ expired)
  <2> DEFINE b == [r EXCEPT !.wake_pending = FALSE, !.state = "Runnable"]
  <2>1. s = b BY <1>5 DEF AfterSlice
  <2>2. SliceLike(r, b) BY DEF SliceLike, ThreadRecords, States
  <2> QED BY <2>1, <2>2
<1> QED BY <1>3, <1>4, <1>5

LEMMA CompleteCore ==
    ASSUME Core, NEW t \in Registered, threads[t].state = "Running",
           NEW r \in ThreadRecords, r.state = "Running",
           r.timeshare = threads[t].timeshare, r.suspend_count = threads[t].suspend_count,
           r.resume_runnable = threads[t].resume_runnable,
           NEW ticks \in Nat, NEW completion \in Completions, scheduler_tick \in Nat,
           CompleteRunning(t, r, ticks, completion)
    PROVE  Core'
<1> DEFINE charged == Accounted(r, ticks)
           after == AfterSlice(charged, completion)
           new == after.record
           waits == new.state = "Waiting"
           demoted == charged.failsafe /\ ~r.failsafe /\ ~r.timeshare
<1>1. /\ t \in Threads /\ RunQueueOK(rq) /\ ~rq.place[t].queued /\ SuspendOK(threads[t])
      /\ threads[t] \in ThreadRecords
  BY DEF Core, Fits
<1>2. AccountedLike(r, charged) BY AccountedType
<1>3. /\ threads' = [threads EXCEPT ![t] = new]
      /\ rq' = IF waits THEN rq ELSE Enqueued(rq, t, new, after.front)
      /\ waiting_count' = waiting_count + One(waits)
      /\ active_timeshare_count' =
             active_timeshare_count + One(demoted) - One(waits /\ charged.timeshare)
  BY DEF CompleteRunning, Update
<1> HIDE DEF charged
<1>4. /\ new \in ThreadRecords /\ new.timeshare = charged.timeshare
      /\ new.suspend_count = charged.suspend_count
      /\ new.resume_runnable = charged.resume_runnable
      /\ new.state \in {"Runnable", "Waiting"}
  BY <1>2, AfterSliceType DEF AccountedLike, SliceLike
<1> HIDE DEF after
<1>5. SuspendOK(new)
  <2>1. new.suspend_count = threads[t].suspend_count
        /\ new.resume_runnable = threads[t].resume_runnable
    BY <1>2, <1>4 DEF AccountedLike
  <2>2. threads[t].suspend_count \in Nat BY <1>1 DEF ThreadRecords
  <2> QED BY <1>1, <2>1, <2>2 DEF SuspendOK
<1>6. OnlyAt(rq, rq', t) /\ Fits(rq', t, new)
  <2>1. CASE waits BY <1>1, <1>3, <2>1 DEF OnlyAt, Fits
  <2>2. CASE ~waits BY <1>1, <1>3, <1>4, <2>2, EnqueueFits
  <2> QED BY <2>1, <2>2
<1>7. One(demoted) - One(waits /\ charged.timeshare) = One(Active(new)) - One(Active(threads[t]))
  <2>1. Active(threads[t]) <=> r.timeshare BY DEF Active
  <2>2. Active(new) <=> ~waits /\ charged.timeshare BY <1>4 DEF Active
  <2>3. CASE charged.timeshare = r.timeshare /\ charged.failsafe = r.failsafe
    <3>1. ~demoted BY <2>3
    <3> QED BY <2>1, <2>2, <2>3, <3>1 DEF One
  <2>4. CASE ~r.timeshare /\ ~r.failsafe /\ charged.timeshare /\ charged.failsafe
    <3>1. demoted BY <2>4
    <3> QED BY <2>1, <2>2, <2>4, <3>1 DEF One
  <2> QED BY <1>2, <2>3, <2>4 DEF AccountedLike
<1> HIDE DEF demoted
<1>8. active_timeshare_count' =
          active_timeshare_count + One(Active(new)) - One(Active(threads[t]))
  BY <1>3, <1>7, OneType, CountersFinite
<1>9. waiting_count' = waiting_count + One(new.state = "Waiting")
                                     - One(threads[t].state = "Waiting")
  <2>1. One(threads[t].state = "Waiting") = 0 BY DEF One
  <2> QED BY <1>3, <2>1, OneType, CountersFinite
<1> HIDE DEF new
<1> QED BY <1>3, <1>4, <1>5, <1>6, <1>8, <1>9, UpdateKeepsCore

LEMMA CompleteSliceCore ==
    ASSUME Core, NEW t \in Threads, NEW ticks \in TickCounts, NEW completion \in Completions,
           scheduler_tick \in Nat, complete_slice(t, ticks, completion)
    PROVE  Core'
<1>1. t \in Registered /\ threads[t] \in ThreadRecords /\ ticks \in Nat
  BY SchedulerAssumption DEF complete_slice, Ends, Core
<1>2. CASE threads[t].state = "Running"
  <2>1. CompleteRunning(t, threads[t], ticks, completion) BY <1>2 DEF complete_slice
  <2> QED BY <1>1, <1>2, <2>1, CompleteCore
<1>3. CASE threads[t].state # "Running"
  <2>1. UNCHANGED <<threads, rq, waiting_count, active_timeshare_count>>
    BY <1>3 DEF complete_slice
  <2> QED BY <2>1, CoreUnchanged
<1> QED BY <1>2, <1>3

LEMMA DepressedType ==
    ASSUME NEW r \in ThreadRecords, NEW duration \in Nat, elapsed_ticks \in Nat
    PROVE  SameButPriority(r, Depressed(r, duration))
<1>1. Plus(elapsed_ticks, duration) \in Nat BY PlusType
<1>2. 0 \in Priorities BY RunQueueAssumption DEF Priorities
<1> DEFINE d == IF duration # 0 THEN Plus(elapsed_ticks, duration) ELSE NoDeadline
<1>3. d \in OptionalTick BY <1>1 DEF OptionalTick, NoDeadline
<1>4. Depressed(r, duration) =
          IF r.depressed THEN r
          ELSE [r EXCEPT !.depressed = TRUE, !.scheduled_priority = 0,
                         !.depression_deadline = d]
  BY DEF Depressed
<1> HIDE DEF d
<1>5. CASE r.depressed BY <1>4, <1>5 DEF SameButPriority
<1>6. CASE ~r.depressed
  <2> DEFINE s == [r EXCEPT !.depressed = TRUE, !.scheduled_priority = 0,
                            !.depression_deadline = d]
  <2>1. s \in ThreadRecords BY <1>2, <1>3 DEF ThreadRecords
  <2>2. /\ s.state = r.state /\ s.bound_processor = r.bound_processor
        /\ s.timeshare = r.timeshare /\ s.failsafe = r.failsafe
        /\ s.suspend_count = r.suspend_count /\ s.resume_runnable = r.resume_runnable
    BY DEF ThreadRecords
  <2>3. Depressed(r, duration) = s BY <1>4, <1>6
  <2> HIDE DEF s
  <2> QED BY <2>1, <2>2, <2>3 DEF SameButPriority
<1> QED BY <1>5, <1>6

LEMMA DepressCore ==
    ASSUME Core, NEW t \in Threads, NEW ticks \in TickCounts, NEW duration \in DepressDurations,
           scheduler_tick \in Nat, elapsed_ticks \in Nat, depress(t, ticks, duration)
    PROVE  Core'
<1> DEFINE old == threads[t]
           r == Depressed(old, duration)
<1>1. /\ t \in Registered /\ old \in ThreadRecords /\ ticks \in Nat /\ duration \in Nat
      /\ RunQueueOK(rq) /\ Fits(rq, t, old) /\ SuspendOK(old)
  BY SchedulerAssumption DEF depress, Ends, Core
<1>2. SameButPriority(old, r) BY <1>1, DepressedType
<1>3. CASE old.state = "Running"
  <2>1. CompleteRunning(t, r, ticks, "Yield") BY <1>3 DEF depress
  <2>2. "Yield" \in Completions BY DEF Completions
  <2> HIDE DEF r
  <2> QED BY <1>1, <1>2, <1>3, <2>1, <2>2, CompleteCore DEF SameButPriority
<1>4. CASE old.state # "Running"
  <2>1. /\ threads' = [threads EXCEPT ![t] = r]
        /\ rq' = IF old.depressed THEN rq ELSE Requeued(rq, t, r)
        /\ UNCHANGED <<waiting_count, active_timeshare_count>>
    BY <1>4 DEF depress, Update
  <2>2. old.depressed => r = old BY DEF Depressed
  <2> HIDE DEF r
  <2>3. OnlyAt(rq, rq', t) /\ Fits(rq', t, r)
    <3>1. CASE old.depressed BY <1>1, <2>1, <2>2, <3>1 DEF OnlyAt
    <3>2. CASE ~old.depressed BY <1>1, <1>2, <2>1, <3>2, RequeueFits DEF SameButPriority
    <3> QED BY <3>1, <3>2
  <2>4. SuspendOK(r) BY <1>1, <1>2 DEF SuspendOK, SameButPriority
  <2>5. One(Active(r)) = One(Active(old))
        /\ One(r.state = "Waiting") = One(old.state = "Waiting")
    BY <1>2 DEF Active, SameButPriority
  <2>6. /\ waiting_count' = waiting_count + One(r.state = "Waiting") - One(old.state = "Waiting")
        /\ active_timeshare_count' = active_timeshare_count + One(Active(r)) - One(Active(old))
    BY <2>1, <2>5, OneType, CountersFinite
  <2> QED BY <1>1, <1>2, <2>1, <2>3, <2>4, <2>6, UpdateKeepsCore DEF SameButPriority
<1> QED BY <1>3, <1>4

LEMMA TerminateCore ==
    ASSUME Core, NEW t \in Threads, NEW ticks \in TickCounts, NEW ending,
           scheduler_tick \in Nat, terminate_slice(t, ticks, ending)
    PROVE  Core'
<1> DEFINE r == threads[t]
           charged == Accounted(r, ticks)
           demoted == charged.failsafe /\ ~r.failsafe /\ ~r.timeshare
<1>1. t \in Registered /\ r \in ThreadRecords /\ ticks \in Nat /\ RunQueueOK(rq)
  BY SchedulerAssumption DEF terminate_slice, Ends, Core
<1>2. AccountedLike(r, charged) BY <1>1, AccountedType
<1>3. UNCHANGED <<rq, waiting_count>> BY DEF terminate_slice
<1>4. CASE r.state = "Running"
  <2>1. /\ threads' = Without(t)
        /\ active_timeshare_count' =
               active_timeshare_count + One(demoted) - One(charged.timeshare)
    BY <1>4 DEF terminate_slice
  <2> HIDE DEF charged
  <2>2. OnlyAt(rq, rq', t) /\ ~rq'.place[t].queued BY <1>1, <1>3, <1>4 DEF Core, Fits, OnlyAt
  <2>3. One(demoted) - One(charged.timeshare) = 0 - One(Active(r))
    <3>1. Active(r) <=> r.timeshare BY <1>4 DEF Active
    <3>2. CASE charged.timeshare = r.timeshare /\ charged.failsafe = r.failsafe
      <4>1. ~demoted BY <3>2
      <4> QED BY <3>1, <3>2, <4>1 DEF One
    <3>3. CASE ~r.timeshare /\ ~r.failsafe /\ charged.timeshare /\ charged.failsafe
      <4>1. demoted BY <3>3
      <4> QED BY <3>1, <3>3, <4>1 DEF One
    <3> QED BY <1>2, <3>2, <3>3 DEF AccountedLike
  <2> HIDE DEF demoted
  <2>4. active_timeshare_count' = active_timeshare_count - One(Active(r))
    BY <2>1, <2>3, OneType, CountersFinite
  <2>5. waiting_count' = waiting_count - One(r.state = "Waiting")
    <3>1. One(r.state = "Waiting") = 0 BY <1>4 DEF One
    <3> QED BY <1>3, <3>1, CountersFinite
  <2> QED BY <1>1, <2>1, <2>2, <2>4, <2>5, EraseKeepsCore
<1>5. CASE r.state # "Running"
  <2>1. UNCHANGED <<threads, active_timeshare_count>> BY <1>5 DEF terminate_slice
  <2> QED BY <1>3, <2>1, CoreUnchanged
<1> QED BY <1>4, <1>5

-----------------------------------------------------------------------------
(***************************************************************************)
(* Scheduler time.                                                         *)
(***************************************************************************)
LEMMA ExpireCore ==
    ASSUME Core, expire_depressions
    PROVE  Core'
<1> DEFINE t == FirstOf(depression_order)[2]
           live == /\ t \in Registered /\ threads[t].depressed
                   /\ threads[t].depression_deadline = FirstOf(depression_order)[1]
           r == Restored(threads[t])
<1>1. /\ UNCHANGED <<waiting_count, active_timeshare_count>>
      /\ IF live THEN /\ threads' = [threads EXCEPT ![t] = r]
                      /\ rq' = RequeuedIfMoved(rq, t, threads[t], r)
                 ELSE UNCHANGED <<threads, rq>>
  BY DEF expire_depressions, Update
<1>2. CASE ~live
  <2> HIDE DEF live
  <2> QED BY <1>1, <1>2, CoreUnchanged
<1>3. CASE live
  <2>1. /\ t \in Registered /\ t \in Threads /\ threads[t] \in ThreadRecords
        /\ RunQueueOK(rq) /\ Fits(rq, t, threads[t]) /\ SuspendOK(threads[t])
    BY <1>3 DEF Core
  <2>2. SameButPriority(threads[t], r) BY <2>1, RestoredType
  <2>3. threads' = [threads EXCEPT ![t] = r] /\ rq' = RequeuedIfMoved(rq, t, threads[t], r)
    BY <1>1, <1>3
  <2> HIDE DEF r, t, live
  <2>4. OnlyAt(rq, rq', t) /\ Fits(rq', t, r) BY <2>1, <2>2, <2>3, MoveFits DEF SameButPriority
  <2>5. SuspendOK(r) BY <2>1, <2>2 DEF SuspendOK, SameButPriority
  <2>6. One(Active(r)) = One(Active(threads[t]))
        /\ One(r.state = "Waiting") = One(threads[t].state = "Waiting")
    BY <2>2 DEF Active, SameButPriority
  <2>7. /\ waiting_count' = waiting_count + One(r.state = "Waiting")
                                          - One(threads[t].state = "Waiting")
        /\ active_timeshare_count' = active_timeshare_count + One(Active(r))
                                                            - One(Active(threads[t]))
    BY <1>1, <2>6, OneType, CountersFinite
  <2> QED BY <2>1, <2>2, <2>3, <2>4, <2>5, <2>7, UpdateKeepsCore DEF SameButPriority
<1> QED BY <1>2, <1>3

LEMMA ReleaseCore ==
    ASSUME Core, release_failsafe
    PROVE  Core'
<1> DEFINE t == FirstOf(failsafe_order)[2]
           r == threads[t]
           live == /\ t \in Registered /\ r.failsafe
                   /\ r.failsafe_release_tick = FirstOf(failsafe_order)[1]
           moves == r.state # "Waiting" /\ r.timeshare # r.saved_timeshare
           back == [r EXCEPT !.base_priority = r.saved_base_priority,
                             !.timeshare = r.saved_timeshare,
                             !.realtime = r.saved_realtime,
                             !.failsafe = FALSE, !.failsafe_release_tick = 0,
                             !.computation_metered = 0]
           new == [back EXCEPT !.remaining_quantum = quantum_for(back)]
<1>1. /\ UNCHANGED waiting_count
      /\ IF live
         THEN /\ Recompute(t, new)
              /\ active_timeshare_count' =
                     active_timeshare_count + One(moves /\ r.saved_timeshare)
                                            - One(moves /\ ~r.saved_timeshare)
         ELSE UNCHANGED <<threads, rq, active_timeshare_count>>
  BY DEF release_failsafe
<1>2. CASE ~live
  <2> HIDE DEF live
  <2> QED BY <1>1, <1>2, CoreUnchanged
<1>3. CASE live
  <2>1. t \in Registered /\ r \in ThreadRecords BY <1>3 DEF Core
  <2>2. Recompute(t, new)
        /\ active_timeshare_count' =
               active_timeshare_count + One(moves /\ r.saved_timeshare)
                                      - One(moves /\ ~r.saved_timeshare)
    BY <1>1, <1>3
  <2>3. Aligned(r, back) /\ back.timeshare = r.saved_timeshare
    BY <2>1 DEF Aligned, ThreadRecords
  <2>4. quantum_for(back) \in Nat BY <2>3, QuantumType DEF Aligned
  <2> HIDE DEF back
  <2>5. Aligned(r, new) /\ new.timeshare = r.saved_timeshare
    BY <2>3, <2>4 DEF Aligned, ThreadRecords
  <2> HIDE DEF new, t
  <2>6. moves = (r.state # "Waiting" /\ r.timeshare # new.timeshare) BY <2>5
  <2> HIDE DEF moves
  <2>7. One(moves /\ r.saved_timeshare) - One(moves /\ ~r.saved_timeshare)
            = One(Active(new)) - One(Active(r))
    BY <2>1, <2>5, <2>6, MovesCount DEF Aligned
  <2>8. active_timeshare_count' = active_timeshare_count + One(Active(new)) - One(Active(r))
    BY <2>2, <2>7, OneType, CountersFinite
  <2> QED BY <1>1, <2>1, <2>2, <2>5, <2>8, AlignedRecompute
<1> QED BY <1>2, <1>3

LEMMA AgeCore ==
    ASSUME Core, NEW t \in Threads, age_priorities(t), todo \subseteq Registered,
           age_shift \in OptionalTick, tick_steps \in Nat
    PROVE  Core'
<1> DEFINE old == threads[t]
           usage == DecayedUsage(old.scheduling_usage, tick_steps)
           r == [old EXCEPT !.priority_usage_shift = age_shift, !.scheduling_usage = usage]
<1>1. t \in Registered /\ old \in ThreadRecords BY DEF age_priorities, Core
<1>2. usage \in Nat BY <1>1, DecayedUsageType DEF ThreadRecords
<1>3. Recompute(t, r) /\ UNCHANGED <<waiting_count, active_timeshare_count>>
  BY DEF age_priorities
<1> HIDE DEF usage
<1>4. Aligned(old, r) /\ r.timeshare = old.timeshare BY <1>1, <1>2 DEF Aligned, ThreadRecords
<1> HIDE DEF r
<1>5. One(Active(r)) = One(Active(old)) BY <1>4 DEF Active, Aligned
<1>6. active_timeshare_count' = active_timeshare_count + One(Active(r)) - One(Active(old))
  BY <1>3, <1>5, OneType, CountersFinite
<1> QED BY <1>1, <1>3, <1>4, <1>6, AlignedRecompute

-----------------------------------------------------------------------------
(***************************************************************************)
(* The guest loop around the scheduler.  The loops over many threads visit *)
(* only threads that are still registered, and the thread an exec starts   *)
(* again has been removed by the time the removal loop ends.               *)
(***************************************************************************)
LoopType ==
    /\ depression_order \subseteq Nat \X Threads
    /\ failsafe_order \subseteq Nat \X Threads
    /\ elapsed_ticks \in Nat /\ elapsed_since_scheduler_tick \in Nat /\ scheduler_tick \in Nat
    /\ phase \in Phases /\ next_processor \in 0 .. ProcessorCount
    /\ batch \in Seq(Threads \X Processors) /\ round_ticks \in Nat
    /\ todo \subseteq Threads /\ tick_steps \in Nat /\ age_shift \in OptionalTick
    /\ exec_thread \in Threads \cup {NoThread}
    /\ wait \in [Threads -> {"none", "woken", "blocked"}]

LoopOK ==
    /\ phase \in {"remove", "age"} => todo \subseteq Registered
    /\ phase # "remove" => exec_thread = NoThread
    /\ exec_thread \in Registered => exec_thread \in todo

IInv == Core /\ LoopType /\ LoopOK

LEMMA InitHolds == Init => IInv
<1> SUFFICES ASSUME Init PROVE IInv OBVIOUS
<1> DEFINE r == NewRecord(DefaultBasePriority, TRUE)
           t == InitialThread
<1>1. t \in Threads /\ Registered = {t} /\ threads[t] = r /\ threads = [u \in {t} |-> r]
  BY SchedulerAssumption DEF Init, Registered
<1>2. r \in ThreadRecords /\ r.state = "Runnable" /\ r.timeshare
      /\ r.suspend_count = 0 /\ ~r.resume_runnable
  <2>1. r \in ThreadRecords BY TaskPrioritiesFit, NewRecordType
  <2> QED BY <2>1 DEF NewRecord
<1>3. RunQueueOK(EmptyRunQueues) /\ \A u \in Threads : ~EmptyRunQueues.place[u].queued
  BY EmptyQueuesAgree DEF NotQueued
<1>4. OnlyAt(EmptyRunQueues, rq, t) /\ Fits(rq, t, r)
  BY <1>1, <1>2, <1>3, EnqueueFits DEF Init
<1> HIDE DEF r
<1>5. WaitingThreads = {} BY <1>1, <1>2 DEF WaitingThreads
<1>6. ActiveThreads = {t} BY <1>1, <1>2 DEF ActiveThreads
<1>7. Cardinality(WaitingThreads) = 0 /\ Cardinality(ActiveThreads) = 1
  BY <1>5, <1>6, FS_EmptySet, FS_Singleton
<1>8. waiting_count = Cardinality(WaitingThreads)
      /\ active_timeshare_count = Cardinality(ActiveThreads)
  BY <1>7 DEF Init
<1>9. SuspendOK(r) BY <1>2 DEF SuspendOK
<1>10. Core BY <1>1, <1>2, <1>3, <1>4, <1>8, <1>9 DEF Core, OnlyAt
<1>11. LoopType
  BY RunQueueAssumption DEF Init, LoopType, Phases, OptionalTick, NoShift
<1>12. LoopOK
  <2>1. NoThread \notin Threads BY RunQueueAssumption DEF NoThread
  <2> QED BY <1>1, <2>1 DEF Init, LoopOK
<1> QED BY <1>10, <1>11, <1>12 DEF IInv

\* Every disjunct of Next keeps the threads, the run queues and the counters in
\* agreement.
LEMMA CoreStep ==
    ASSUME IInv, Next
    PROVE  Core'
<1>1. /\ Core /\ elapsed_ticks \in Nat /\ scheduler_tick \in Nat /\ tick_steps \in Nat
      /\ age_shift \in OptionalTick /\ LoopOK
  BY DEF IInv, LoopType
<1>2. ASSUME NEW t \in Threads, Call(t) PROVE Core'
  <2>1. CASE \E base \in TaskPriorities, runnable \in BOOLEAN :
                 register_thread(t, base, runnable)
    BY <1>1, <2>1, RegisterCore DEF register_thread
  <2>2. CASE remove_thread(t) BY <1>1, <2>2, RemoveCore DEF remove_thread
  <2>3. CASE wake_thread(t) BY <1>1, <2>3, WakeCore
  <2>4. CASE block(t) BY <1>1, <2>4, BlockCore
  <2>5. CASE suspend_thread(t) BY <1>1, <2>5, SuspendCore
  <2>6. CASE resume_thread(t) BY <1>1, <2>6, ResumeCore
  <2> QED BY <1>2, <2>1, <2>2, <2>3, <2>4, <2>5, <2>6 DEF Call
<1>3. ASSUME NEW t \in Threads, Policy(t) PROVE Core'
  <2>1. CASE \E base \in BasePriorities : set_base_priority(t, base)
    BY <1>1, <2>1, SetBasePriorityCore
  <2>2. CASE \E timeshare \in Timeshares : set_timeshare(t, timeshare)
    BY <1>1, <2>2, SetTimeshareCore
  <2>3. CASE \E timeshare \in Timeshares, base \in BasePriorities :
                 legacy_thread_policy(t, timeshare, base)
    BY <1>1, <2>3, LegacyPolicyCore
  <2>4. CASE \E rp \in RealtimeParameters : set_realtime(t, rp[1], rp[2])
    BY <1>1, <2>4, SetRealtimeCore
  <2>5. CASE \E proc \in Bindings : bind_thread(t, proc) BY <1>1, <2>5, BindCore
  <2> QED BY <1>3, <2>1, <2>2, <2>3, <2>4, <2>5 DEF Policy
<1>4. ASSUME NEW t \in Threads, make_runnable(t) PROVE Core'
  BY <1>1, <1>4, MakeRunnableCore DEF make_runnable
<1>5. ASSUME NEW t \in Threads, Completion(t) PROVE Core'
  <2>1. PICK ticks \in TickCounts :
            \/ \E completion \in {"Continue", "Yield", "Block"} :
                   complete_slice(t, ticks, completion)
            \/ \E duration \in DepressDurations : depress(t, ticks, duration)
            \/ \E ending \in {"thread", "process", "exec"} : terminate_slice(t, ticks, ending)
    BY <1>5 DEF Completion
  <2>2. CASE \E completion \in {"Continue", "Yield", "Block"} :
                 complete_slice(t, ticks, completion)
    BY <1>1, <2>2, CompleteSliceCore DEF Completions
  <2>3. CASE \E duration \in DepressDurations : depress(t, ticks, duration)
    BY <1>1, <2>3, DepressCore
  <2>4. CASE \E ending \in {"thread", "process", "exec"} : terminate_slice(t, ticks, ending)
    BY <1>1, <2>4, TerminateCore
  <2> QED BY <2>1, <2>2, <2>3, <2>4
<1>6. ASSUME Removal PROVE Core'
  <2>1. ASSUME NEW t \in Threads, remove_process(ProcessOf[t]) PROVE Core'
    BY <1>1, <2>1, CoreUnchanged DEF remove_process, schedulerVars
  <2>2. ASSUME NEW t \in Threads, remove_process_step(t) PROVE Core'
    <3>1. t \in Registered BY <1>1, <2>2 DEF remove_process_step, LoopOK
    <3> QED BY <1>1, <2>2, <3>1, RemoveCore DEF remove_process_step
  <2>3. ASSUME NEW base \in TaskPriorities, remove_process_done(base) PROVE Core'
    <3>1. CASE exec_thread = NoThread
      <4>1. UNCHANGED <<threads, rq, waiting_count, active_timeshare_count>>
        BY <2>3, <3>1 DEF remove_process_done, schedulerVars
      <4> QED BY <1>1, <4>1, CoreUnchanged
    <3>2. CASE exec_thread # NoThread
      <4>1. exec_thread \in Threads /\ exec_thread \notin Registered
        BY <1>1, <2>3, <3>2 DEF remove_process_done, LoopOK, IInv, LoopType
      <4>2. /\ threads' = [u \in Registered \cup {exec_thread} |->
                              IF u = exec_thread THEN NewRecord(base, TRUE) ELSE threads[u]]
            /\ rq' = Enqueued(rq, exec_thread, NewRecord(base, TRUE), FALSE)
            /\ active_timeshare_count' = active_timeshare_count + 1
            /\ waiting_count' = waiting_count
        BY <2>3, <3>2 DEF remove_process_done
      <4>3. /\ active_timeshare_count' = active_timeshare_count + One(TRUE)
            /\ waiting_count' = waiting_count + One(~TRUE)
        BY <1>1, <4>2, CountersFinite DEF One
      <4> QED BY <1>1, <4>1, <4>2, <4>3, RegisterCore
    <3> QED BY <3>1, <3>2
  <2> QED BY <1>6, <2>1, <2>2, <2>3 DEF Removal
<1>7. CASE skip_slice BY <1>1, <1>7, CoreUnchanged DEF skip_slice, schedulerVars
<1>8. ASSUME Choose PROVE Core'
  <2>1. CASE begin_choosing BY <1>1, <2>1, CoreUnchanged DEF begin_choosing, schedulerVars
  <2>2. ASSUME NEW proc \in Processors, choose_next(proc) PROVE Core'
    <3> DEFINE c == selected_run_queue(rq, proc)
    <3>1. c \in QueueKeys BY DEF selected_run_queue, QueueKeys
    <3>2. ~PeekThrows(rq, c) /\ Dispatch(peek_highest(rq, c), proc) BY <2>2 DEF choose_next
    <3> HIDE DEF c
    <3>3. peek_highest(rq, c) \in Threads /\ rq.place[peek_highest(rq, c)].queued
      BY <1>1, <3>1, <3>2, PeekHighest DEF Core
    <3> QED BY <1>1, <3>2, <3>3, DispatchCore
  <2>3. ASSUME NEW proc \in Processors, choose_nothing(proc) PROVE Core'
    BY <1>1, <2>3, CoreUnchanged DEF choose_nothing, schedulerVars
  <2>4. ASSUME NEW t \in Threads, choose_preferred(t) PROVE Core'
    <3>1. 0 \in Processors BY RunQueueAssumption DEF Processors
    <3> QED BY <1>1, <2>4, <3>1, DispatchCore DEF choose_preferred
  <2>5. CASE end_choosing BY <1>1, <2>5, CoreUnchanged DEF end_choosing, schedulerVars
  <2> QED BY <1>8, <2>1, <2>2, <2>3, <2>4, <2>5 DEF Choose
<1>9. ASSUME Time PROVE Core'
  <2>1. CASE advance_time BY <1>1, <2>1, CoreUnchanged DEF advance_time, schedulerVars
  <2>2. CASE expire_depressions BY <1>1, <2>2, ExpireCore
  <2>3. CASE expire_depressions_done
    BY <1>1, <2>3, CoreUnchanged DEF expire_depressions_done, schedulerVars
  <2>4. CASE release_failsafe BY <1>1, <2>4, ReleaseCore
  <2>5. CASE release_failsafe_done
    BY <1>1, <2>5, CoreUnchanged DEF release_failsafe_done, schedulerVars
  <2>6. ASSUME NEW t \in Threads, age_priorities(t) PROVE Core'
    <3>1. todo \subseteq Registered BY <1>1, <2>6 DEF age_priorities, LoopOK
    <3> QED BY <1>1, <2>6, <3>1, AgeCore
  <2>7. CASE age_priorities_done
    BY <1>1, <2>7, CoreUnchanged DEF age_priorities_done, schedulerVars
  <2> QED BY <1>9, <2>1, <2>2, <2>3, <2>4, <2>5, <2>6, <2>7 DEF Time
<1> QED BY <1>2, <1>3, <1>4, <1>5, <1>6, <1>7, <1>8, <1>9 DEF Next

Waits == {"none", "woken", "blocked"}

\* Where no loop over threads is in progress, LoopOK holds by itself.
LEMMA OutsideLoops ==
    ASSUME Core', phase' \notin {"remove", "age"}, exec_thread' = NoThread
    PROVE  LoopOK'
<1>1. NoThread \notin Threads BY RunQueueAssumption DEF NoThread
<1>2. exec_thread' \notin Registered' BY <1>1 DEF Core
<1> QED BY <1>2 DEF LoopOK

\* A call that leaves the guest loop where it is.
LEMMA QuietLoop ==
    ASSUME IInv, Core', phase \notin {"remove", "age"}, UNCHANGED <<clockVars, loopVars>>,
           depression_order' \subseteq depression_order,
           failsafe_order' \subseteq failsafe_order,
           wait' \in [Threads -> Waits]
    PROVE  LoopType' /\ LoopOK'
<1>1. exec_thread' = NoThread /\ phase' = phase BY DEF IInv, LoopOK, loopVars
<1> QED BY <1>1, OutsideLoops DEF IInv, LoopType, Waits, clockVars, loopVars

LEMMA WaitMarks ==
    ASSUME IInv
    PROVE  /\ wait \in [Threads -> Waits]
           /\ \A t, w : w \in Waits => [wait EXCEPT ![t] = w] \in [Threads -> Waits]
  BY DEF IInv, LoopType, Waits

\* The batch shrinks at its head and grows by a chosen slice.
LEMMA BatchType ==
    ASSUME IInv
    PROVE  /\ batch # << >> => Tail(batch) \in Seq(Threads \X Processors)
           /\ \A t \in Threads, proc \in Processors :
                  Append(batch, <<t, proc>>) \in Seq(Threads \X Processors)
  BY DEF IInv, LoopType

LEMMA UnindexShrinks ==
    ASSUME NEW t
    PROVE  /\ unindex_depression(t) \subseteq depression_order
           /\ unindex_failsafe(t) \subseteq failsafe_order
  BY DEF unindex_depression, unindex_failsafe

LEMMA LoopStep ==
    ASSUME IInv, Next, Core'
    PROVE  LoopType' /\ LoopOK'
<1> USE DEF Waits
<1>1. ASSUME NEW t \in Threads, Call(t) PROVE LoopType' /\ LoopOK'
  <2>1. /\ phase \notin {"remove", "age"} /\ UNCHANGED <<clockVars, loopVars>>
        /\ wait' \in [Threads -> Waits]
    BY <1>1, WaitMarks DEF Call, register_thread, remove_thread, Remove, wake_thread, block,
       suspend_thread, resume_thread, InSlice
  <2>2. depression_order' \subseteq depression_order /\ failsafe_order' \subseteq failsafe_order
    BY <1>1, UnindexShrinks DEF Call, register_thread, remove_thread, Remove, wake_thread, block,
       suspend_thread, resume_thread
  <2> QED BY <2>1, <2>2, QuietLoop
<1>2. ASSUME NEW t \in Threads, Policy(t) PROVE LoopType' /\ LoopOK'
  <2>1. /\ phase \notin {"remove", "age"} /\ UNCHANGED <<clockVars, loopVars>>
        /\ wait' = wait /\ depression_order' = depression_order
        /\ failsafe_order' = failsafe_order
    BY <1>2 DEF Policy, set_base_priority, set_timeshare, legacy_thread_policy, set_realtime,
       bind_thread, InSlice
  <2> QED BY <2>1, QuietLoop, WaitMarks
<1>3. ASSUME NEW t \in Threads, make_runnable(t) PROVE LoopType' /\ LoopOK'
  BY <1>3, QuietLoop, WaitMarks DEF make_runnable
<1>4. ASSUME NEW t \in Threads, NEW ticks \in TickCounts, Ends(t), EndSlice(ticks)
      PROVE  /\ batch' \in Seq(Threads \X Processors) /\ round_ticks' \in Nat
             /\ t \in Registered /\ threads[t] \in ThreadRecords /\ ticks \in Nat
             /\ phase = "run" /\ exec_thread = NoThread
  <2>1. ticks \in Nat BY SchedulerAssumption
  <2> QED BY <1>4, <2>1, BatchType DEF Ends, EndSlice, Larger, IInv, Core, LoopType, LoopOK
<1>5. ASSUME NEW t \in Threads, NEW r \in ThreadRecords, NEW ticks \in Nat, NEW completion,
             CompleteRunning(t, r, ticks, completion)
      PROVE  failsafe_order' \subseteq Nat \X Threads
  <2>1. Accounted(r, ticks) \in ThreadRecords
    BY AccountedType DEF AccountedLike, IInv, LoopType
  <2>2. Accounted(r, ticks).failsafe_release_tick \in Nat BY <2>1 DEF ThreadRecords
  <2> QED BY <1>5, <2>2 DEF CompleteRunning, IInv, LoopType
<1>6. ASSUME NEW t \in Threads, NEW ticks \in TickCounts, NEW completion,
             complete_slice(t, ticks, completion)
      PROVE  LoopType' /\ LoopOK'
  <2>1. /\ batch' \in Seq(Threads \X Processors) /\ round_ticks' \in Nat
        /\ threads[t] \in ThreadRecords /\ ticks \in Nat
        /\ phase = "run" /\ exec_thread = NoThread
    BY <1>4, <1>6 DEF complete_slice
  <2>2. failsafe_order' \subseteq Nat \X Threads
    BY <1>5, <1>6, <2>1 DEF complete_slice, IInv, LoopType
  <2>3. wait' \in [Threads -> Waits] BY <1>6, WaitMarks DEF complete_slice
  <2>4. UNCHANGED <<depression_order, clockVars, phase, next_processor, todo, tick_steps,
                    age_shift, exec_thread>>
    BY <1>6 DEF complete_slice
  <2>5. LoopOK' BY <2>1, <2>4, OutsideLoops
  <2> QED BY <2>1, <2>2, <2>3, <2>4, <2>5 DEF IInv, LoopType, clockVars
<1>7. ASSUME NEW t \in Threads, NEW ticks \in TickCounts, NEW duration \in DepressDurations,
             depress(t, ticks, duration)
      PROVE  LoopType' /\ LoopOK'
  <2> DEFINE r == Depressed(threads[t], duration)
  <2>1. /\ batch' \in Seq(Threads \X Processors) /\ round_ticks' \in Nat
        /\ threads[t] \in ThreadRecords /\ ticks \in Nat
        /\ phase = "run" /\ exec_thread = NoThread
    BY <1>4, <1>7 DEF depress
  <2>2. duration \in Nat BY SchedulerAssumption
  <2>3. r \in ThreadRecords BY <2>1, <2>2, DepressedType DEF SameButPriority, IInv, LoopType
  <2>4. failsafe_order' \subseteq Nat \X Threads
    BY <1>5, <1>7, <2>1, <2>3 DEF depress, IInv, LoopType
  <2>5. ASSUME ~threads[t].depressed, duration # 0 PROVE r.depression_deadline \in Nat
    <3>1. Plus(elapsed_ticks, duration) \in Nat BY <2>2, PlusType DEF IInv, LoopType
    <3>2. r.depression_deadline = Plus(elapsed_ticks, duration)
      BY <2>1, <2>5 DEF Depressed, ThreadRecords
    <3> QED BY <3>1, <3>2
  <2> HIDE DEF r
  <2>6. depression_order' \subseteq Nat \X Threads
    BY <1>7, <2>5 DEF depress, IInv, LoopType, r
  <2>7. UNCHANGED <<clockVars, phase, next_processor, todo, tick_steps, age_shift,
                    exec_thread, wait>>
    BY <1>7 DEF depress
  <2>8. LoopOK' BY <2>1, <2>7, OutsideLoops
  <2> QED BY <2>1, <2>4, <2>6, <2>7, <2>8 DEF IInv, LoopType, clockVars
<1>8. ASSUME NEW t \in Threads, NEW ticks \in TickCounts,
             NEW ending \in {"thread", "process", "exec"}, terminate_slice(t, ticks, ending)
      PROVE  LoopType' /\ LoopOK'
  <2> DEFINE erased == threads[t].state = "Running"
             left == ThreadsOf(ProcessOf[t]) \ (IF erased THEN {t} ELSE {})
  <2>1. /\ batch' \in Seq(Threads \X Processors) /\ round_ticks' \in Nat
        /\ t \in Registered /\ phase = "run" /\ exec_thread = NoThread
    BY <1>4, <1>8 DEF terminate_slice
  <2>2. /\ depression_order' \subseteq depression_order
        /\ failsafe_order' \subseteq failsafe_order /\ wait' \in [Threads -> Waits]
    BY <1>8, UnindexShrinks, WaitMarks DEF terminate_slice
  <2>3. Registered' = IF erased THEN Registered \ {t} ELSE Registered
    BY <1>8 DEF terminate_slice, Without, Registered
  <2>4. /\ exec_thread' = IF ending = "exec" THEN t ELSE NoThread
        /\ UNCHANGED <<clockVars, next_processor, tick_steps, age_shift>>
        /\ IF ending = "thread" THEN UNCHANGED <<phase, todo>>
                                ELSE phase' = "remove" /\ todo' = left
    BY <1>8 DEF terminate_slice
  <2>5. left \subseteq Registered' /\ left \subseteq Threads
    BY <2>3 DEF ThreadsOf, IInv, Core
  <2>6. t \in Registered' => t \in left
    BY <2>1, <2>3 DEF ThreadsOf
  <2> HIDE DEF left, erased
  <2>7. LoopType'
    BY <2>1, <2>2, <2>4, <2>5 DEF IInv, LoopType, clockVars, Phases
  <2>8. LoopOK'
    <3>1. CASE ending = "thread" BY <2>1, <2>4, <3>1, OutsideLoops
    <3>2. CASE ending # "thread"
      <4>1. NoThread \notin Registered' BY RunQueueAssumption DEF NoThread, Core
      <4> QED BY <2>4, <2>5, <2>6, <3>2, <4>1 DEF LoopOK
    <3> QED BY <3>1, <3>2
  <2> QED BY <2>7, <2>8
<1>9. ASSUME NEW t \in Threads, Completion(t) PROVE LoopType' /\ LoopOK'
  BY <1>6, <1>7, <1>8, <1>9 DEF Completion
<1>10. ASSUME Removal PROVE LoopType' /\ LoopOK'
  <2>1. ASSUME NEW t \in Threads, remove_process(ProcessOf[t]) PROVE LoopType' /\ LoopOK'
    <3>1. todo' \subseteq Registered /\ Registered' = Registered /\ phase' = "remove"
          /\ exec_thread' = NoThread
      BY <2>1 DEF remove_process, ThreadsOf, schedulerVars, Registered, InSlice, IInv, LoopOK
    <3>2. NoThread \notin Registered' BY RunQueueAssumption DEF NoThread, Core
    <3>3. LoopOK' BY <3>1, <3>2 DEF LoopOK
    <3> QED BY <2>1, <3>1, <3>3
      DEF remove_process, IInv, LoopType, Core, Phases, schedulerVars, clockVars
  <2>2. ASSUME NEW t \in Threads, remove_process_step(t) PROVE LoopType' /\ LoopOK'
    <3>1. Registered' = Registered \ {t} BY <2>2 DEF remove_process_step, Remove, Without, Registered
    <3>2. /\ todo' = todo \ {t} /\ exec_thread' = exec_thread /\ phase' = phase
          /\ phase = "remove"
          /\ UNCHANGED <<clockVars, next_processor, batch, round_ticks, tick_steps, age_shift>>
      BY <2>2 DEF remove_process_step
    <3>3. /\ depression_order' \subseteq depression_order
          /\ failsafe_order' \subseteq failsafe_order /\ wait' \in [Threads -> Waits]
      BY <2>2, UnindexShrinks, WaitMarks DEF remove_process_step, Remove
    <3>4. LoopOK' BY <3>1, <3>2 DEF IInv, LoopOK
    <3> QED BY <3>2, <3>3, <3>4 DEF IInv, LoopType, clockVars
  <2>3. ASSUME NEW base \in TaskPriorities, remove_process_done(base)
        PROVE  LoopType' /\ LoopOK'
    <3>1. /\ phase' = "run" /\ exec_thread' = NoThread
          /\ UNCHANGED <<clockVars, next_processor, batch, round_ticks, todo, tick_steps,
                         age_shift>>
      BY <2>3 DEF remove_process_done
    <3>2. /\ depression_order' = depression_order /\ failsafe_order' = failsafe_order
          /\ wait' \in [Threads -> Waits]
      BY <2>3, WaitMarks DEF remove_process_done, schedulerVars
    <3>3. LoopOK' BY <3>1, OutsideLoops
    <3> QED BY <3>1, <3>2, <3>3 DEF IInv, LoopType, clockVars, Phases
  <2> QED BY <1>10, <2>1, <2>2, <2>3 DEF Removal
<1>11. CASE skip_slice
  <2>1. phase' \notin {"remove", "age"} /\ exec_thread' = NoThread
    BY <1>11 DEF skip_slice, IInv, LoopOK
  <2> QED BY <1>11, <2>1, OutsideLoops, BatchType
    DEF skip_slice, IInv, LoopType, schedulerVars, clockVars
<1>12. ASSUME NEW t \in Threads, NEW proc \in Processors, Dispatch(t, proc)
       PROVE  /\ depression_order' \subseteq depression_order
              /\ batch' \in Seq(Threads \X Processors) /\ wait' \in [Threads -> Waits]
              /\ UNCHANGED <<failsafe_order, clockVars, round_ticks, todo, tick_steps,
                             age_shift, exec_thread>>
  BY <1>12, UnindexShrinks, BatchType, WaitMarks DEF Dispatch
<1>13. ASSUME Choose PROVE LoopType' /\ LoopOK'
  <2>1. ProcessorCount \in Nat BY RunQueueAssumption
  <2>2. CASE begin_choosing
    <3>1. phase' \notin {"remove", "age"} /\ exec_thread' = NoThread
      BY <2>2 DEF begin_choosing, IInv, LoopOK
    <3> QED BY <2>2, <3>1, OutsideLoops
      DEF begin_choosing, IInv, LoopType, schedulerVars, clockVars, Phases
  <2>3. ASSUME NEW proc \in Processors, choose_next(proc) PROVE LoopType' /\ LoopOK'
    <3> DEFINE c == selected_run_queue(rq, proc)
    <3>1. c \in QueueKeys BY DEF selected_run_queue, QueueKeys
    <3>2. /\ ~PeekThrows(rq, c) /\ Dispatch(peek_highest(rq, c), proc)
          /\ phase = "choose" /\ phase' = phase
          /\ next_processor = proc /\ next_processor' = next_processor + 1
      BY <2>3 DEF choose_next
    <3> HIDE DEF c
    <3>3. peek_highest(rq, c) \in Threads BY <3>1, <3>2, PeekHighest DEF IInv, Core
    <3>4. next_processor' \in 0 .. ProcessorCount BY <2>1, <3>2 DEF Processors
    <3>5. exec_thread' = NoThread BY <1>12, <3>2, <3>3 DEF IInv, LoopOK
    <3>6. LoopOK' BY <3>2, <3>5, OutsideLoops
    <3> QED BY <1>12, <3>2, <3>3, <3>4, <3>6 DEF IInv, LoopType, clockVars
  <2>4. ASSUME NEW proc \in Processors, choose_nothing(proc) PROVE LoopType' /\ LoopOK'
    <3>1. phase' \notin {"remove", "age"} /\ exec_thread' = NoThread
      BY <2>4 DEF choose_nothing, IInv, LoopOK
    <3>2. next_processor' \in 0 .. ProcessorCount BY <2>1, <2>4 DEF choose_nothing, Processors
    <3> QED BY <2>4, <3>1, <3>2, OutsideLoops
      DEF choose_nothing, IInv, LoopType, schedulerVars, clockVars
  <2>5. ASSUME NEW t \in Threads, choose_preferred(t) PROVE LoopType' /\ LoopOK'
    <3>1. 0 \in Processors BY <2>1, RunQueueAssumption DEF Processors
    <3>2. Dispatch(t, 0) /\ phase = "choose" /\ phase' = "run" /\ next_processor' = next_processor
      BY <2>5 DEF choose_preferred
    <3>3. exec_thread' = NoThread BY <1>12, <3>1, <3>2 DEF IInv, LoopOK
    <3>4. LoopOK' BY <3>2, <3>3, OutsideLoops
    <3> QED BY <1>12, <3>1, <3>2, <3>4 DEF IInv, LoopType, clockVars, Phases
  <2>6. CASE end_choosing
    <3>1. phase' \notin {"remove", "age"} /\ exec_thread' = NoThread
      BY <2>6 DEF end_choosing, IInv, LoopOK
    <3> QED BY <2>1, <2>6, <3>1, OutsideLoops
      DEF end_choosing, IInv, LoopType, schedulerVars, clockVars, Phases
  <2> QED BY <1>13, <2>2, <2>3, <2>4, <2>5, <2>6 DEF Choose
<1>14. ASSUME Time PROVE LoopType' /\ LoopOK'
  <2>1. CASE advance_time
    <3> DEFINE since == Plus(elapsed_since_scheduler_tick, round_ticks)
               steps == since \div SchedulerTickTicks
    <3>1. since \in Nat /\ SchedulerTickTicks \in Nat \ {0}
      BY PlusType, SchedulerAssumption DEF IInv, LoopType
    <3> HIDE DEF since
    <3>2. steps \in Nat /\ since % SchedulerTickTicks \in Nat BY <3>1
    <3>3. /\ elapsed_ticks' = Plus(elapsed_ticks, round_ticks)
          /\ elapsed_since_scheduler_tick' = since % SchedulerTickTicks
          /\ scheduler_tick' = Plus(scheduler_tick, steps)
          /\ tick_steps' = steps
          /\ age_shift' = IF steps = 0 THEN NoShift
                          ELSE processor_set_priority_shift(active_timeshare_count)
          /\ phase = "run" /\ phase' = "expire" /\ round_ticks' = 0
          /\ UNCHANGED <<depression_order, failsafe_order, next_processor, batch, todo,
                         exec_thread, wait>>
      BY <2>1 DEF advance_time, schedulerVars, since
    <3> HIDE DEF steps
    <3>4. elapsed_ticks' \in Nat /\ scheduler_tick' \in Nat
      BY <3>2, <3>3, PlusType DEF IInv, LoopType
    <3>5. age_shift' \in OptionalTick BY <3>3, ShiftType DEF OptionalTick, NoShift
    <3>6. exec_thread' = NoThread BY <3>3 DEF IInv, LoopOK
    <3>7. LoopOK' BY <3>3, <3>6, OutsideLoops
    <3> QED BY <3>2, <3>3, <3>4, <3>5, <3>7 DEF IInv, LoopType, Phases
  <2>2. CASE expire_depressions
    <3>1. /\ depression_order' \subseteq depression_order /\ phase = "expire"
          /\ UNCHANGED <<failsafe_order, clockVars, loopVars, wait>>
      BY <2>2 DEF expire_depressions
    <3> QED BY <3>1, QuietLoop, WaitMarks
  <2>3. CASE expire_depressions_done
    <3>1. phase' \notin {"remove", "age"} /\ exec_thread' = NoThread
      BY <2>3 DEF expire_depressions_done, IInv, LoopOK
    <3> QED BY <2>3, <3>1, OutsideLoops
      DEF expire_depressions_done, IInv, LoopType, schedulerVars, clockVars, Phases
  <2>4. CASE release_failsafe
    <3>1. /\ failsafe_order' \subseteq failsafe_order /\ phase = "release"
          /\ UNCHANGED <<depression_order, clockVars, loopVars, wait>>
      BY <2>4 DEF release_failsafe
    <3> QED BY <3>1, QuietLoop, WaitMarks
  <2>5. CASE release_failsafe_done
    <3>1. /\ phase = "release" /\ phase' = "age" /\ todo' = Registered
          /\ Registered' = Registered /\ exec_thread' = exec_thread
      BY <2>5 DEF release_failsafe_done, schedulerVars, Registered
    <3>2. NoThread \notin Registered' BY RunQueueAssumption DEF NoThread, Core
    <3>3. LoopOK' BY <3>1, <3>2 DEF IInv, LoopOK
    <3> QED BY <2>5, <3>1, <3>3
      DEF release_failsafe_done, IInv, LoopType, Core, schedulerVars, clockVars, Phases
  <2>6. ASSUME NEW t \in Threads, age_priorities(t) PROVE LoopType' /\ LoopOK'
    <3>1. /\ phase = "age" /\ phase' = phase /\ todo' = todo \ {t} /\ exec_thread' = exec_thread
          /\ threads' = [threads EXCEPT ![t] = threads'[t]]
      BY <2>6 DEF age_priorities, Recompute, Update, IInv, Core, LoopOK
    <3>2. Registered' = Registered BY <3>1 DEF Registered
    <3>3. NoThread \notin Registered' BY RunQueueAssumption DEF NoThread, Core
    <3>4. LoopOK' BY <3>1, <3>2, <3>3 DEF IInv, LoopOK
    <3> QED BY <2>6, <3>1, <3>4 DEF age_priorities, IInv, LoopType, clockVars
  <2>7. CASE age_priorities_done
    <3>1. phase' \notin {"remove", "age"} /\ exec_thread' = NoThread
      BY <2>7 DEF age_priorities_done, IInv, LoopOK
    <3> QED BY <2>7, <3>1, OutsideLoops
      DEF age_priorities_done, IInv, LoopType, schedulerVars, clockVars, Phases,
          OptionalTick, NoShift
  <2> QED BY <1>14, <2>1, <2>2, <2>3, <2>4, <2>5, <2>6, <2>7 DEF Time
<1> QED BY <1>1, <1>2, <1>3, <1>9, <1>10, <1>11, <1>13, <1>14 DEF Next

LEMMA StutterHolds ==
    ASSUME IInv, UNCHANGED vars
    PROVE  IInv'
<1>1. UNCHANGED <<threads, rq, waiting_count, active_timeshare_count>>
  BY DEF vars, schedulerVars
<1>2. Core' BY <1>1, CoreUnchanged DEF IInv
<1>3. UNCHANGED <<depression_order, failsafe_order, clockVars, loopVars, wait>> /\ threads' = threads
  BY DEF vars, schedulerVars
<1>4. LoopType' BY <1>3 DEF IInv, LoopType, clockVars, loopVars
<1>5. LoopOK' BY <1>3 DEF IInv, LoopOK, loopVars, Registered
<1> QED BY <1>2, <1>4, <1>5 DEF IInv

\* The inductive invariant of the scheduler and the guest loop.
THEOREM Invariant == Spec => []IInv
<1>1. Init => IInv BY InitHolds
<1>2. IInv /\ [Next]_vars => IInv'
  <2> SUFFICES ASSUME IInv, [Next]_vars PROVE IInv' OBVIOUS
  <2>1. CASE Next
    <3>1. Core' BY <2>1, CoreStep
    <3> QED BY <2>1, <3>1, LoopStep DEF IInv
  <2>2. CASE UNCHANGED vars BY <2>2, StutterHolds
  <2> QED BY <2>1, <2>2
<1> QED BY <1>1, <1>2, PTL DEF Spec

\* Members of the scheduler and of the guest loop keep their declared types; the
\* unsigned counters never wrap below zero.
THEOREM TypeCorrect == Spec => []TypeOK
<1>1. IInv => TypeOK
  <2> SUFFICES ASSUME IInv PROVE TypeOK OBVIOUS
  <2>1. waiting_count \in Nat /\ active_timeshare_count \in Nat BY CountersFinite DEF IInv
  <2> QED BY <2>1 DEF IInv, Core, LoopType, RunQueueOK, TypeOK
<1> QED BY <1>1, Invariant, PTL

\* The lists, the bitmap, high_queue, the counts and the real-time index agree with
\* the thread records in every reachable state, for any number of threads and
\* processors and any priorities.
THEOREM QueuesAgree == Spec => []QueuesMatchThreads
<1>1. IInv => QueuesMatchThreads
  <2> SUFFICES ASSUME IInv PROVE QueuesMatchThreads OBVIOUS
  <2>1. /\ RunQueueOK(rq) /\ Registered \subseteq Threads
        /\ \A t \in Registered : Fits(rq, t, threads[t])
        /\ \A t \in Threads \ Registered : ~rq.place[t].queued
    BY DEF IInv, Core
  <2> QED BY <2>1 DEF QueuesMatchThreads, Fits
<1> QED BY <1>1, Invariant, PTL

\* waiting_count_ and active_timeshare_count_ are what a walk over threads_ counts.
THEOREM CountersAgree == Spec => []CountersExact
<1>1. IInv => CountersExact
  BY DEF IInv, Core, CountersExact, WaitingThreads, ActiveThreads
<1> QED BY <1>1, Invariant, PTL

\* A suspended thread never runs and is never queued.
THEOREM SuspensionHolds == Spec => []SuspendedThreadsWait
<1>1. IInv => SuspendedThreadsWait BY DEF IInv, Core, SuspendOK, SuspendedThreadsWait
<1> QED BY <1>1, Invariant, PTL
-----------------------------------------------------------------------------
(***************************************************************************)
(* The slices of a round, the wakes and the timer indexes.  BatchOK adds   *)
(* to RunningThreadsHaveSlices that a round starts with an empty batch and *)
(* that nothing but the choosing loop touches a thread until it ends;      *)
(* WakesOK adds to NoLostWakeup the flag that carries a wake of a running  *)
(* thread to the end of its slice.                                         *)
(***************************************************************************)
BetweenRounds == {"wake", "expire", "release", "age"}

BatchOK ==
    /\ \A i, j \in 1 .. Len(batch) : batch[i][1] = batch[j][1] => i = j
    /\ \A t \in Registered : threads[t].state = "Running" =>
           \E i \in 1 .. Len(batch) : batch[i][1] = t
    /\ phase \in BetweenRounds => batch = << >>
    /\ phase = "choose" => \A i \in 1 .. Len(batch) :
           batch[i][1] \in Registered /\ threads[batch[i][1]].state = "Running"

Marked(r, mark) ==
    mark = "woken" => /\ r.state = "Waiting" => r.suspend_count > 0 /\ r.resume_runnable
                      /\ r.state = "Running" => r.wake_pending

WakesOK == \A t \in Registered : Marked(threads[t], wait[t])

\* The entries of one thread in the two timer indexes.
TimerAt(t) ==
    /\ \A d \in Nat : <<d, t>> \in depression_order <=>
           t \in Registered /\ threads[t].depression_deadline = d
    /\ \A k \in Nat : <<k, t>> \in failsafe_order <=>
           t \in Registered /\ threads[t].failsafe /\ threads[t].failsafe_release_tick = k
    /\ t \in Registered /\ threads[t].depression_deadline # NoDeadline => threads[t].depressed

TimersOK == \A t \in Threads : TimerAt(t)

Marks == BatchOK /\ WakesOK /\ TimersOK

\* What a step leaves alone that touches thread t only.
Elsewhere(t) ==
    /\ Registered \ {t} = Registered' \ {t}
    /\ \A u \in Registered \ {t} : threads'[u] = threads[u] /\ wait'[u] = wait[u]
    /\ \A u \in Threads \ {t}, d \in Nat :
           /\ <<d, u>> \in depression_order' <=> <<d, u>> \in depression_order
           /\ <<d, u>> \in failsafe_order' <=> <<d, u>> \in failsafe_order

LEMMA TimersElsewhere ==
    ASSUME TimersOK, NEW t \in Threads, Elsewhere(t), TimerAt(t)'
    PROVE  TimersOK'
<1>1. ASSUME NEW u \in Threads, u # t PROVE TimerAt(u)'
  <2>1. /\ u \in Registered' <=> u \in Registered
        /\ u \in Registered => threads'[u] = threads[u]
    BY <1>1 DEF Elsewhere
  <2>2. \A d \in Nat : /\ <<d, u>> \in depression_order' <=> <<d, u>> \in depression_order
                       /\ <<d, u>> \in failsafe_order' <=> <<d, u>> \in failsafe_order
    BY <1>1 DEF Elsewhere
  <2>3. TimerAt(u) BY DEF TimersOK
  <2> QED BY <2>1, <2>2, <2>3 DEF TimerAt
<1> QED BY <1>1 DEF TimersOK

LEMMA WakesElsewhere ==
    ASSUME WakesOK, NEW t, Elsewhere(t), t \in Registered' => Marked(threads'[t], wait'[t])
    PROVE  WakesOK'
<1>1. ASSUME NEW u \in Registered' PROVE Marked(threads'[u], wait'[u])
  <2>1. CASE u = t BY <2>1
  <2>2. CASE u # t BY <2>2 DEF Elsewhere, WakesOK
  <2> QED BY <2>1, <2>2
<1> QED BY <1>1 DEF WakesOK

\* A step that chooses nothing and completes nothing.
LEMMA BatchKept ==
    ASSUME BatchOK, batch' = batch, phase # "choose",
           phase' = phase \/ phase' \in {"run", "remove"},
           \A u \in Registered' : threads'[u].state = "Running" =>
               u \in Registered /\ threads[u].state = "Running"
    PROVE  BatchOK'
  BY DEF BatchOK, BetweenRounds

\* The slice at the head of the batch ends with its thread no longer running.
LEMMA BatchEnds ==
    ASSUME IInv, BatchOK, NEW t \in Threads, batch # << >>, Head(batch)[1] = t,
           batch' = Tail(batch), phase = "run", phase' \in {"run", "remove"},
           t \in Registered' => threads'[t].state # "Running",
           \A u \in Registered' \ {t} : u \in Registered /\ threads'[u] = threads[u]
    PROVE  BatchOK'
<1>1. batch \in Seq(Threads \X Processors) BY DEF IInv, LoopType
<1>2. /\ Len(batch) \in Nat \ {0} /\ Len(batch') = Len(batch) - 1 /\ batch[1][1] = t
      /\ \A i \in 1 .. Len(batch') : batch'[i] = batch[i + 1]
  BY <1>1
<1>3. \A i, j \in 1 .. Len(batch') : batch'[i][1] = batch'[j][1] => i = j
  <2>1. SUFFICES ASSUME NEW i \in 1 .. Len(batch'), NEW j \in 1 .. Len(batch'),
                        batch'[i][1] = batch'[j][1]
                 PROVE  i = j
    OBVIOUS
  <2>2. i + 1 \in 1 .. Len(batch) /\ j + 1 \in 1 .. Len(batch) BY <1>2
  <2>3. batch[i + 1][1] = batch[j + 1][1] BY <1>2, <2>1
  <2>4. i + 1 = j + 1 BY <2>2, <2>3 DEF BatchOK
  <2> QED BY <2>4
<1>4. ASSUME NEW u \in Registered', threads'[u].state = "Running"
      PROVE  \E i \in 1 .. Len(batch') : batch'[i][1] = u
  <2>1. u # t BY <1>4
  <2>2. u \in Registered /\ threads[u].state = "Running" BY <1>4, <2>1
  <2>3. PICK k \in 1 .. Len(batch) : batch[k][1] = u BY <2>2 DEF BatchOK
  <2>4. k # 1 BY <1>2, <2>1, <2>3
  <2>5. k - 1 \in 1 .. Len(batch') /\ (k - 1) + 1 = k BY <1>2, <2>3, <2>4
  <2> QED BY <1>2, <2>3, <2>5
<1> QED BY <1>3, <1>4 DEF BatchOK, BetweenRounds

-----------------------------------------------------------------------------
\* A record whose state, wakes and timers are those of another.
SameTimers(r, s) ==
    /\ s.depressed = r.depressed /\ s.depression_deadline = r.depression_deadline
    /\ s.failsafe = r.failsafe /\ s.failsafe_release_tick = r.failsafe_release_tick

SameMarks(r, s) ==
    /\ s.state = r.state /\ s.suspend_count = r.suspend_count
    /\ s.resume_runnable = r.resume_runnable /\ s.wake_pending = r.wake_pending

LEMMA RecomputedMarks ==
    ASSUME NEW r \in ThreadRecords
    PROVE  SameTimers(r, Recomputed(r)) /\ SameMarks(r, Recomputed(r))
  BY DEF Recomputed, SameTimers, SameMarks, ThreadRecords

\* A step that gives one registered thread another record.
LEMMA OneRecord ==
    ASSUME Core, NEW t \in Registered, NEW r, threads' = [threads EXCEPT ![t] = r],
           \A u \in Registered \ {t} : wait'[u] = wait[u],
           \A u \in Threads \ {t}, d \in Nat :
               /\ <<d, u>> \in depression_order' <=> <<d, u>> \in depression_order
               /\ <<d, u>> \in failsafe_order' <=> <<d, u>> \in failsafe_order
    PROVE  Registered' = Registered /\ threads'[t] = r /\ Elsewhere(t) /\ t \in Threads
  BY DEF Core, Registered, Elsewhere

\* A call that changes the record of one thread and no timer.
LEMMA CallMarks ==
    ASSUME IInv, Marks, NEW t \in Registered, NEW r, threads' = [threads EXCEPT ![t] = r],
           UNCHANGED <<depression_order, failsafe_order, batch>>, phase # "choose",
           phase' = phase \/ phase' \in {"run", "remove"},
           \A u \in Registered \ {t} : wait'[u] = wait[u],
           SameTimers(threads[t], r), Marked(r, wait'[t]),
           r.state = "Running" => threads[t].state = "Running"
    PROVE  Marks'
<1>1. /\ Registered' = Registered /\ threads'[t] = r /\ Elsewhere(t) /\ t \in Threads
  BY OneRecord DEF IInv
<1>2. TimersOK'
  <2>1. TimerAt(t) BY <1>1 DEF Marks, TimersOK
  <2>2. TimerAt(t)' BY <1>1, <2>1 DEF TimerAt, SameTimers
  <2> QED BY <1>1, <2>2, TimersElsewhere DEF Marks
<1>3. WakesOK' BY <1>1, WakesElsewhere DEF Marks
<1>4. BatchOK'
  <2>1. \A u \in Registered' : threads'[u].state = "Running" =>
            u \in Registered /\ threads[u].state = "Running"
    BY <1>1 DEF Elsewhere
  <2> QED BY <2>1, BatchKept DEF Marks
<1> QED BY <1>2, <1>3, <1>4 DEF Marks

\* A policy call.
LEMMA PolicyMarks ==
    ASSUME IInv, Marks, NEW t \in Registered, NEW r, threads' = [threads EXCEPT ![t] = r],
           UNCHANGED <<depression_order, failsafe_order, batch, phase, wait>>, phase # "choose",
           SameTimers(threads[t], r), SameMarks(threads[t], r)
    PROVE  Marks'
<1>1. Marked(threads[t], wait[t]) BY DEF Marks, WakesOK
<1>2. Marked(r, wait'[t]) BY <1>1 DEF Marked, SameMarks
<1> QED BY <1>2, CallMarks DEF SameMarks

\* A step that forgets a thread.
LEMMA EraseMarks ==
    ASSUME IInv, TimersOK, WakesOK, NEW t \in Registered, threads' = Without(t),
           depression_order' = unindex_depression(t), failsafe_order' = unindex_failsafe(t),
           wait' = [wait EXCEPT ![t] = "none"]
    PROVE  TimersOK' /\ WakesOK' /\ Registered' = Registered \ {t} /\ Elsewhere(t)
<1>1. Registered' = Registered \ {t} /\ \A u \in Registered \ {t} : threads'[u] = threads[u]
  BY DEF Without, Registered
<1>2. t \in Threads /\ TimerAt(t) BY DEF IInv, Core, TimersOK
<1>3. wait \in [Threads -> Waits] BY WaitMarks
<1>4. Elsewhere(t)
  BY <1>1, <1>3 DEF Elsewhere, unindex_depression, unindex_failsafe, IInv, Core
<1>5. TimerAt(t)'
  <2>1. \A d \in Nat : <<d, t>> \notin unindex_depression(t)
    BY <1>2 DEF TimerAt, unindex_depression, NoDeadline
  <2>2. \A d \in Nat : <<d, t>> \notin unindex_failsafe(t)
    BY <1>2 DEF TimerAt, unindex_failsafe
  <2> QED BY <1>1, <2>1, <2>2 DEF TimerAt
<1>6. TimersOK' BY <1>2, <1>4, <1>5, TimersElsewhere
<1>7. WakesOK' BY <1>1, <1>4, WakesElsewhere
<1> QED BY <1>1, <1>4, <1>6, <1>7

\* A step that registers a thread.
LEMMA AddMarks ==
    ASSUME IInv, Marks, NEW t \in Threads, t \notin Registered, NEW base \in TaskPriorities,
           NEW runnable \in BOOLEAN,
           threads' = [u \in Registered \cup {t} |->
                          IF u = t THEN NewRecord(base, runnable) ELSE threads[u]],
           UNCHANGED <<depression_order, failsafe_order, batch>>, phase # "choose",
           phase' = phase \/ phase' = "run", wait' = [wait EXCEPT ![t] = "none"]
    PROVE  Marks'
<1> DEFINE r == NewRecord(base, runnable)
<1>1. /\ Registered' = Registered \cup {t} /\ threads'[t] = r
      /\ \A u \in Registered : threads'[u] = threads[u]
  BY DEF Registered
<1>2. /\ r.state # "Running" /\ r.depression_deadline = NoDeadline /\ ~r.failsafe
  BY DEF NewRecord
<1>3. wait \in [Threads -> Waits] BY WaitMarks
<1>4. Elsewhere(t) BY <1>1, <1>3 DEF Elsewhere, IInv, Core
<1> HIDE DEF r
<1>5. TimersOK'
  <2>1. TimerAt(t) BY DEF Marks, TimersOK
  <2>2. TimerAt(t)' BY <1>1, <1>2, <2>1 DEF TimerAt, NoDeadline
  <2> QED BY <1>4, <2>2, TimersElsewhere DEF Marks
<1>6. WakesOK'
  <2>1. Marked(threads'[t], wait'[t]) BY <1>3 DEF Marked
  <2> QED BY <1>4, <2>1, WakesElsewhere DEF Marks
<1>7. BatchOK'
  <2>1. \A u \in Registered' : threads'[u].state = "Running" =>
            u \in Registered /\ threads[u].state = "Running"
    BY <1>1, <1>2
  <2> QED BY <2>1, BatchKept DEF Marks
<1> QED BY <1>5, <1>6, <1>7 DEF Marks

LEMMA RemoveMarks ==
    ASSUME IInv, Marks, NEW t \in Registered, Remove(t), batch' = batch, phase' = phase,
           phase # "choose"
    PROVE  Marks'
<1>1. /\ TimersOK' /\ WakesOK' /\ Registered' = Registered \ {t} /\ Elsewhere(t)
  BY EraseMarks DEF Remove, Marks
<1>2. BatchOK'
  <2>1. \A u \in Registered' : threads'[u].state = "Running" =>
            u \in Registered /\ threads[u].state = "Running"
    BY <1>1 DEF Elsewhere
  <2> QED BY <2>1, BatchKept DEF Marks
<1> QED BY <1>1, <1>2 DEF Marks

LEMMA ReadiedMarks ==
    ASSUME NEW r \in ThreadRecords
    PROVE  SameTimers(r, Readied(r)) /\ Readied(r).state = "Runnable"
  BY DEF Readied, SameTimers, ThreadRecords

LEMMA UnchangedMarks ==
    ASSUME IInv, Marks, NEW t \in Registered,
           UNCHANGED <<threads, depression_order, failsafe_order, batch, phase>>,
           wait' = [wait EXCEPT ![t] = "woken"], threads[t].state = "Runnable"
    PROVE  Marks'
<1>1. wait \in [Threads -> Waits] /\ t \in Threads BY WaitMarks DEF IInv, Core
<1>2. BatchOK' /\ TimersOK' BY DEF Marks, BatchOK, TimersOK, TimerAt, Registered
<1>3. \A u \in Registered : Marked(threads[u], wait'[u])
  BY <1>1 DEF Marks, WakesOK, Marked
<1>4. WakesOK' BY <1>3 DEF WakesOK, Registered
<1> QED BY <1>2, <1>4 DEF Marks

\* make_runnable leaves a woken thread Runnable, or suspended and to be resumed.
LEMMA MakeRunnableMarks ==
    ASSUME IInv, Marks, NEW t \in Registered, MakeRunnable(t), threads[t].state # "Running",
           wait' = [wait EXCEPT ![t] = "woken"],
           UNCHANGED <<depression_order, failsafe_order, batch, phase>>, phase # "choose"
    PROVE  Marks'
<1> DEFINE r == threads[t]
           d == IF r.realtime THEN Plus(elapsed_ticks, r.realtime_constraint)
                              ELSE Readied(r).realtime_deadline
           resumed == [r EXCEPT !.resume_runnable = TRUE]
           ready == [Readied(r) EXCEPT !.realtime_deadline = d]
<1>1. /\ wait \in [Threads -> Waits] /\ t \in Threads /\ r \in ThreadRecords
      /\ Fits(rq, t, r) /\ SuspendOK(r)
  BY WaitMarks DEF IInv, Core
<1>2. \A u \in Registered \ {t} : wait'[u] = wait[u] BY <1>1
<1>3. CASE r.suspend_count # 0
  <2>1. threads' = [threads EXCEPT ![t] = resumed] BY <1>3 DEF MakeRunnable, Update
  <2>2. /\ SameTimers(r, resumed) /\ resumed.state = r.state /\ resumed.resume_runnable
        /\ resumed.suspend_count = r.suspend_count /\ r.suspend_count \in Nat
    BY <1>1 DEF SameTimers, ThreadRecords
  <2>3. Marked(resumed, wait'[t]) BY <1>3, <2>2 DEF Marked
  <2> HIDE DEF resumed
  <2> QED BY <1>2, <2>1, <2>2, <2>3, CallMarks
<1>4. CASE r.suspend_count = 0 /\ rq.place[t].queued
  <2>1. r.state = "Runnable" BY <1>1, <1>4 DEF Fits
  <2>2. threads' = threads BY <1>4 DEF MakeRunnable
  <2> QED BY <2>1, <2>2, UnchangedMarks
<1>5. CASE r.suspend_count = 0 /\ ~rq.place[t].queued
  <2>1. threads' = [threads EXCEPT ![t] = ready] BY <1>5 DEF MakeRunnable, Update
  <2>2. Readied(r) \in ThreadRecords /\ SameTimers(r, Readied(r)) /\ Readied(r).state = "Runnable"
    BY <1>1, ReadiedType, ReadiedMarks
  <2> HIDE DEF d
  <2>3. SameTimers(r, ready) /\ ready.state = "Runnable"
    BY <2>2 DEF SameTimers, ThreadRecords
  <2>4. Marked(ready, wait'[t]) BY <2>3 DEF Marked
  <2> HIDE DEF ready
  <2> QED BY <1>2, <2>1, <2>3, <2>4, CallMarks
<1> QED BY <1>3, <1>4, <1>5

LEMMA WakeMarks ==
    ASSUME IInv, Marks, NEW t \in Threads, wake_thread(t)
    PROVE  Marks'
<1> DEFINE r == threads[t]
           pending == [r EXCEPT !.wake_pending = TRUE]
<1>1. /\ t \in Registered /\ r \in ThreadRecords /\ phase # "choose"
      /\ wait \in [Threads -> Waits] /\ wait' = [wait EXCEPT ![t] = "woken"]
      /\ UNCHANGED <<depression_order, failsafe_order, batch, phase>>
  BY WaitMarks DEF wake_thread, InSlice, loopVars, IInv, Core
<1>2. CASE r.state # "Running"
  <2>1. MakeRunnable(t) BY <1>2 DEF wake_thread
  <2> QED BY <1>1, <1>2, <2>1, MakeRunnableMarks
<1>3. CASE r.state = "Running"
  <2>1. threads' = [threads EXCEPT ![t] = pending] BY <1>3 DEF wake_thread, Update
  <2>2. /\ SameTimers(r, pending) /\ pending.state = "Running" /\ pending.wake_pending
    BY <1>1, <1>3 DEF SameTimers, ThreadRecords
  <2>3. Marked(pending, wait'[t]) BY <2>2 DEF Marked
  <2>4. \A u \in Registered \ {t} : wait'[u] = wait[u] BY <1>1 DEF IInv, Core
  <2> HIDE DEF pending
  <2> QED BY <1>1, <1>3, <2>1, <2>2, <2>3, <2>4, CallMarks
<1> QED BY <1>2, <1>3

LEMMA BlockMarks ==
    ASSUME IInv, Marks, NEW t \in Threads, block(t)
    PROVE  Marks'
<1> DEFINE r == threads[t]
           resume == IF r.suspend_count # 0 THEN FALSE ELSE r.resume_runnable
           quantum == quantum_for(r)
           new == [r EXCEPT !.state = "Waiting", !.remaining_quantum = quantum,
                            !.computation_metered = 0, !.resume_runnable = resume]
<1>1. /\ t \in Registered /\ r \in ThreadRecords /\ phase # "choose"
      /\ wait \in [Threads -> Waits] /\ wait' = [wait EXCEPT ![t] = "blocked"]
      /\ UNCHANGED <<depression_order, failsafe_order, batch, phase>>
      /\ threads' = [threads EXCEPT ![t] = new]
  BY WaitMarks DEF block, InSlice, loopVars, IInv, Core, Update
<1> HIDE DEF resume, quantum
<1>2. SameTimers(r, new) /\ new.state = "Waiting" BY <1>1 DEF SameTimers, ThreadRecords
<1> HIDE DEF new
<1>3. wait'[t] = "blocked" /\ \A u \in Registered \ {t} : wait'[u] = wait[u]
  BY <1>1 DEF IInv, Core
<1>4. Marked(new, wait'[t]) BY <1>3 DEF Marked
<1> QED BY <1>1, <1>2, <1>3, <1>4, CallMarks

\* Suspending a woken thread remembers that it has to run again.
LEMMA SuspendMarks ==
    ASSUME IInv, Marks, NEW t \in Threads, suspend_thread(t)
    PROVE  Marks'
<1> DEFINE r == threads[t]
           count == r.suspend_count + 1
           resume == r.state # "Waiting"
           again == [r EXCEPT !.suspend_count = count]
           first == [again EXCEPT !.resume_runnable = resume, !.state = "Waiting"]
<1>1. /\ t \in Registered /\ r \in ThreadRecords /\ phase # "choose"
      /\ UNCHANGED <<depression_order, failsafe_order, batch, phase, wait>>
      /\ threads' = IF r.suspend_count # 0 THEN [threads EXCEPT ![t] = again]
                                           ELSE [threads EXCEPT ![t] = first]
  BY DEF suspend_thread, InSlice, loopVars, IInv, Core, Update
<1>2. Marked(r, wait[t]) /\ SuspendOK(r) BY <1>1 DEF Marks, WakesOK, IInv, Core
<1>3. count \in Nat /\ count > 0 /\ r.suspend_count \in Nat BY <1>1 DEF ThreadRecords
<1>4. /\ SameTimers(r, again) /\ again.state = r.state /\ again.suspend_count = count
      /\ again.resume_runnable = r.resume_runnable /\ again.wake_pending = r.wake_pending
  BY <1>1 DEF SameTimers, ThreadRecords
<1>5. /\ SameTimers(r, first) /\ first.state = "Waiting" /\ first.suspend_count = count
      /\ first.resume_runnable = resume
  BY <1>1 DEF SameTimers, ThreadRecords
<1> HIDE DEF again, first, count
<1>6. CASE r.suspend_count # 0
  <2>1. Marked(again, wait[t]) BY <1>2, <1>3, <1>4 DEF Marked
  <2> QED BY <1>1, <1>4, <1>6, <2>1, CallMarks
<1>7. CASE r.suspend_count = 0
  <2>1. wait[t] = "woken" => r.state # "Waiting" BY <1>2, <1>7 DEF Marked
  <2>2. Marked(first, wait[t]) BY <1>3, <1>5, <2>1 DEF Marked
  <2> QED BY <1>1, <1>5, <1>7, <2>2, CallMarks
<1> QED BY <1>6, <1>7

LEMMA ResumeMarks ==
    ASSUME IInv, Marks, NEW t \in Threads, resume_thread(t)
    PROVE  Marks'
<1> DEFINE old == threads[t]
           count == old.suspend_count - 1
           r == [old EXCEPT !.suspend_count = count]
           idle == [r EXCEPT !.resume_runnable = FALSE]
           ready == Readied(idle)
<1>1. /\ t \in Registered /\ old \in ThreadRecords /\ phase # "choose"
      /\ old.suspend_count > 0
      /\ UNCHANGED <<depression_order, failsafe_order, batch, phase, wait>>
      /\ threads' = IF r.suspend_count # 0 \/ ~r.resume_runnable
                    THEN [threads EXCEPT ![t] = r] ELSE [threads EXCEPT ![t] = ready]
  BY DEF resume_thread, InSlice, loopVars, IInv, Core, Update
<1>2. Marked(old, wait[t]) /\ SuspendOK(old) BY <1>1 DEF Marks, WakesOK, IInv, Core
<1>3. old.suspend_count \in Nat /\ count \in Nat BY <1>1 DEF ThreadRecords
<1>4. /\ r \in ThreadRecords
      /\ SameTimers(old, r) /\ r.state = old.state /\ r.suspend_count = count
      /\ r.resume_runnable = old.resume_runnable /\ r.wake_pending = old.wake_pending
  BY <1>1, <1>3 DEF SameTimers, ThreadRecords
<1> HIDE DEF r, count
<1>5. idle \in ThreadRecords /\ SameTimers(r, idle) BY <1>4 DEF SameTimers, ThreadRecords
<1> HIDE DEF idle
<1>6. SameTimers(idle, ready) /\ ready.state = "Runnable" BY <1>5, ReadiedMarks
<1>7. SameTimers(old, ready) BY <1>4, <1>5, <1>6 DEF SameTimers
<1> HIDE DEF ready
<1>8. CASE r.suspend_count # 0 \/ ~r.resume_runnable
  <2>1. Marked(r, wait[t])
    <3>1. r.suspend_count # 0 => r.suspend_count > 0 BY <1>3, <1>4
    <3> QED BY <1>1, <1>2, <1>4, <1>8, <3>1 DEF Marked, SuspendOK
  <2> QED BY <1>1, <1>4, <1>8, <2>1, CallMarks
<1>9. CASE ~(r.suspend_count # 0 \/ ~r.resume_runnable)
  <2>1. Marked(ready, wait[t]) BY <1>6 DEF Marked
  <2> QED BY <1>1, <1>6, <1>7, <1>9, <2>1, CallMarks
<1> QED BY <1>8, <1>9

-----------------------------------------------------------------------------
\* recompute_priority after a policy change or aging of one thread.
LEMMA RecomputeMarks ==
    ASSUME IInv, Marks, NEW t \in Registered, NEW r \in ThreadRecords, Recompute(t, r),
           UNCHANGED <<depression_order, failsafe_order, batch, phase, wait>>, phase # "choose",
           SameTimers(threads[t], r), SameMarks(threads[t], r)
    PROVE  Marks'
<1>1. SameTimers(r, Recomputed(r)) /\ SameMarks(r, Recomputed(r)) BY RecomputedMarks
<1>2. SameTimers(threads[t], Recomputed(r)) /\ SameMarks(threads[t], Recomputed(r))
  BY <1>1 DEF SameTimers, SameMarks
<1>3. threads' = [threads EXCEPT ![t] = Recomputed(r)] BY DEF Recompute, Update
<1> QED BY <1>2, <1>3, PolicyMarks

LEMMA LegacyPolicyMarks ==
    ASSUME IInv, Marks, NEW t \in Threads, NEW timeshare \in Timeshares,
           NEW base \in BasePriorities, legacy_thread_policy(t, timeshare, base)
    PROVE  Marks'
<1> DEFINE old == threads[t]
           changes == old.realtime \/ old.timeshare # timeshare
           r1 == [old EXCEPT !.realtime = FALSE, !.timeshare = timeshare,
                             !.remaining_quantum = QuantumTicks]
           first == IF changes THEN Recomputed(r1) ELSE old
           r2 == [first EXCEPT !.base_priority = base]
           second == IF base = old.base_priority THEN first ELSE Recomputed(r2)
<1>1. /\ t \in Registered /\ old \in ThreadRecords /\ timeshare \in BOOLEAN
      /\ QuantumTicks \in Nat /\ base \in Priorities
      /\ UNCHANGED <<depression_order, failsafe_order, batch, phase, wait>> /\ phase # "choose"
      /\ threads' = [threads EXCEPT ![t] = second]
  BY SchedulerAssumption DEF legacy_thread_policy, InSlice, loopVars, IInv, Core, Update
<1>2. r1 \in ThreadRecords /\ SameTimers(old, r1) /\ SameMarks(old, r1)
  BY <1>1 DEF ThreadRecords, SameTimers, SameMarks
<1> HIDE DEF r1, changes
<1>3. first \in ThreadRecords /\ SameTimers(old, first) /\ SameMarks(old, first)
  <2>1. Recomputed(r1) \in ThreadRecords BY <1>2, RecomputedType DEF SameButPriority
  <2>2. SameTimers(old, Recomputed(r1)) /\ SameMarks(old, Recomputed(r1))
    BY <1>2, RecomputedMarks DEF SameTimers, SameMarks
  <2>3. SameTimers(old, old) /\ SameMarks(old, old) BY DEF SameTimers, SameMarks
  <2> QED BY <1>1, <2>1, <2>2, <2>3
<1> HIDE DEF first
<1>4. r2 \in ThreadRecords /\ SameTimers(first, r2) /\ SameMarks(first, r2)
  BY <1>1, <1>3 DEF ThreadRecords, SameTimers, SameMarks
<1> HIDE DEF r2
<1>5. SameTimers(old, second) /\ SameMarks(old, second)
  <2>1. SameTimers(r2, Recomputed(r2)) /\ SameMarks(r2, Recomputed(r2)) BY <1>4, RecomputedMarks
  <2>2. SameTimers(old, Recomputed(r2)) /\ SameMarks(old, Recomputed(r2))
    BY <1>3, <1>4, <2>1 DEF SameTimers, SameMarks
  <2> QED BY <1>3, <2>2
<1> HIDE DEF second
<1> QED BY <1>1, <1>5, PolicyMarks

LEMMA PolicyCallMarks ==
    ASSUME IInv, Marks, NEW t \in Threads, Policy(t)
    PROVE  Marks'
<1> DEFINE old == threads[t]
<1>1. /\ t \in Registered /\ old \in ThreadRecords /\ phase # "choose"
      /\ UNCHANGED <<depression_order, failsafe_order, batch, phase, wait>>
  BY DEF Policy, set_base_priority, set_timeshare, legacy_thread_policy, set_realtime,
     bind_thread, InSlice, loopVars, IInv, Core
<1>2. ASSUME NEW base \in BasePriorities, set_base_priority(t, base) PROVE Marks'
  <2> DEFINE r == [old EXCEPT !.base_priority = base]
  <2>1. base \in Priorities BY SchedulerAssumption
  <2>2. r \in ThreadRecords /\ SameTimers(old, r) /\ SameMarks(old, r)
    BY <1>1, <2>1 DEF ThreadRecords, SameTimers, SameMarks
  <2>3. Recompute(t, r) BY <1>2 DEF set_base_priority
  <2> HIDE DEF r
  <2> QED BY <1>1, <2>2, <2>3, RecomputeMarks
<1>3. ASSUME NEW timeshare \in Timeshares, set_timeshare(t, timeshare) PROVE Marks'
  <2> DEFINE r == [old EXCEPT !.realtime = FALSE, !.timeshare = timeshare,
                              !.remaining_quantum = QuantumTicks]
  <2>1. timeshare \in BOOLEAN /\ QuantumTicks \in Nat BY SchedulerAssumption
  <2>2. r \in ThreadRecords /\ SameTimers(old, r) /\ SameMarks(old, r)
    BY <1>1, <2>1 DEF ThreadRecords, SameTimers, SameMarks
  <2>3. Recompute(t, r) BY <1>3 DEF set_timeshare
  <2> HIDE DEF r
  <2> QED BY <1>1, <2>2, <2>3, RecomputeMarks
<1>4. ASSUME NEW rp \in RealtimeParameters, set_realtime(t, rp[1], rp[2]) PROVE Marks'
  <2> DEFINE d == Plus(elapsed_ticks, rp[2])
             r == [old EXCEPT !.timeshare = FALSE, !.realtime = TRUE,
                              !.realtime_computation = rp[1],
                              !.realtime_constraint = rp[2],
                              !.realtime_deadline = d, !.remaining_quantum = rp[1]]
  <2>1. rp[1] \in Nat /\ rp[2] \in Nat BY SchedulerAssumption
  <2>2. d \in Nat BY <2>1, PlusType DEF IInv, LoopType
  <2>3. Recompute(t, r) BY <1>4 DEF set_realtime
  <2> HIDE DEF d
  <2>4. r \in ThreadRecords /\ SameTimers(old, r) /\ SameMarks(old, r)
    BY <1>1, <2>1, <2>2 DEF ThreadRecords, SameTimers, SameMarks
  <2> HIDE DEF r
  <2> QED BY <1>1, <2>3, <2>4, RecomputeMarks
<1>5. ASSUME NEW proc \in Bindings, bind_thread(t, proc) PROVE Marks'
  <2> DEFINE r == [old EXCEPT !.bound_processor = proc]
  <2>1. SameTimers(old, r) /\ SameMarks(old, r)
    BY <1>1 DEF ThreadRecords, SameTimers, SameMarks
  <2>2. threads' = [threads EXCEPT ![t] = r] BY <1>5 DEF bind_thread, Update
  <2> HIDE DEF r
  <2> QED BY <1>1, <2>1, <2>2, PolicyMarks
<1> QED BY <1>2, <1>3, <1>4, <1>5, LegacyPolicyMarks DEF Policy

LEMMA AgeMarks ==
    ASSUME IInv, Marks, NEW t \in Threads, age_priorities(t)
    PROVE  Marks'
<1> DEFINE old == threads[t]
           usage == DecayedUsage(old.scheduling_usage, tick_steps)
           r == [old EXCEPT !.priority_usage_shift = age_shift, !.scheduling_usage = usage]
<1>1. /\ t \in Registered /\ old \in ThreadRecords /\ phase # "choose"
      /\ UNCHANGED <<depression_order, failsafe_order, batch, phase, wait>>
      /\ Recompute(t, r)
  BY DEF age_priorities, IInv, Core, LoopOK
<1>2. usage \in Nat /\ age_shift \in OptionalTick
  BY <1>1, DecayedUsageType DEF IInv, LoopType, ThreadRecords
<1> HIDE DEF usage
<1>3. r \in ThreadRecords /\ SameTimers(old, r) /\ SameMarks(old, r)
  BY <1>1, <1>2 DEF ThreadRecords, SameTimers, SameMarks
<1> HIDE DEF r
<1> QED BY <1>1, <1>3, RecomputeMarks

\* A depression that ends leaves the thread without a deadline.
LEMMA RestoredMarks ==
    ASSUME NEW r \in ThreadRecords, r.depression_deadline # NoDeadline => r.depressed
    PROVE  /\ Restored(r) \in ThreadRecords
           /\ SameMarks(r, Restored(r)) /\ Restored(r).depression_deadline = NoDeadline
           /\ Restored(r).failsafe = r.failsafe
           /\ Restored(r).failsafe_release_tick = r.failsafe_release_tick
<1> DEFINE s == [r EXCEPT !.depressed = FALSE, !.depression_deadline = NoDeadline]
<1>1. /\ s \in ThreadRecords /\ SameMarks(r, s) /\ s.depression_deadline = NoDeadline
      /\ s.failsafe = r.failsafe /\ s.failsafe_release_tick = r.failsafe_release_tick
  BY DEF ThreadRecords, OptionalTick, NoDeadline, SameMarks
<1>2. Restored(r) = IF r.depressed THEN Recomputed(s) ELSE r BY DEF Restored
<1> HIDE DEF s
<1>3. SameTimers(s, Recomputed(s)) /\ SameMarks(s, Recomputed(s)) /\ Recomputed(s) \in ThreadRecords
  BY <1>1, RecomputedMarks, RecomputedType DEF SameButPriority
<1> QED BY <1>1, <1>2, <1>3 DEF SameTimers, SameMarks

LEMMA FirstInOrder ==
    ASSUME NEW S \in SUBSET (Nat \X Threads), S # {}
    PROVE  FirstOf(S) \in S
<1>1. \E e \in S : \A o \in S : Before(e, o) BY FirstEntry
<1> QED BY <1>1 DEF FirstOf

\* Whatever the index names is depressed until then: an expired entry is never stale.
LEMMA ExpireMarks ==
    ASSUME IInv, Marks, expire_depressions
    PROVE  Marks'
<1>1. /\ depression_order # {}
      /\ UNCHANGED <<failsafe_order, batch, phase, wait>> /\ phase # "choose"
  BY DEF expire_depressions, Due, loopVars
<1>2. depression_order \in SUBSET (Nat \X Threads) BY DEF IInv, LoopType
<1>3. PICK d \in Nat, t \in Threads : FirstOf(depression_order) = <<d, t>>
  BY <1>1, <1>2, FirstInOrder
<1>4. <<d, t>> \in depression_order BY <1>1, <1>2, <1>3, FirstInOrder
<1> DEFINE old == threads[t]
           r == Restored(old)
<1>5. /\ depression_order' = depression_order \ {<<d, t>>}
      /\ t \in Registered /\ old.depressed /\ old.depression_deadline = d
             => threads' = [threads EXCEPT ![t] = r]
  BY <1>3 DEF expire_depressions, Update
<1>6. TimerAt(t) BY DEF Marks, TimersOK
<1>7. t \in Registered /\ old.depression_deadline = d BY <1>4, <1>6 DEF TimerAt
<1>8. old.depressed BY <1>6, <1>7 DEF TimerAt, NoDeadline
<1>9. threads' = [threads EXCEPT ![t] = r] BY <1>5, <1>7, <1>8
<1>10. /\ SameMarks(old, r) /\ r.depression_deadline = NoDeadline
       /\ r.failsafe = old.failsafe /\ r.failsafe_release_tick = old.failsafe_release_tick
  BY <1>7, <1>8, RestoredMarks DEF IInv, Core
<1> HIDE DEF r
<1>11. Registered' = Registered /\ threads'[t] = r /\ Elsewhere(t)
  BY <1>1, <1>5, <1>7, <1>9, OneRecord DEF IInv
<1>12. TimersOK'
  <2>1. \A k \in Nat : <<k, t>> \notin depression_order' BY <1>5, <1>6, <1>7 DEF TimerAt
  <2>2. TimerAt(t)' BY <1>1, <1>6, <1>10, <1>11, <2>1 DEF TimerAt, NoDeadline
  <2> QED BY <1>11, <2>2, TimersElsewhere DEF Marks
<1>13. WakesOK'
  <2>1. Marked(old, wait[t]) BY <1>7 DEF Marks, WakesOK
  <2>2. Marked(r, wait'[t]) BY <1>1, <1>10, <2>1 DEF Marked, SameMarks
  <2> QED BY <1>11, <2>2, WakesElsewhere DEF Marks
<1>14. BatchOK'
  <2>1. \A u \in Registered' : threads'[u].state = "Running" =>
            u \in Registered /\ threads[u].state = "Running"
    BY <1>10, <1>11 DEF Elsewhere, SameMarks
  <2> QED BY <1>1, <2>1, BatchKept DEF Marks
<1> QED BY <1>12, <1>13, <1>14 DEF Marks

\* So is an expired fail-safe entry, and the release clears both flag and entry.
LEMMA ReleaseMarks ==
    ASSUME IInv, Marks, release_failsafe
    PROVE  Marks'
<1>1. /\ failsafe_order # {}
      /\ UNCHANGED <<depression_order, batch, phase, wait>> /\ phase # "choose"
  BY DEF release_failsafe, Due, loopVars
<1>2. failsafe_order \in SUBSET (Nat \X Threads) BY DEF IInv, LoopType
<1>3. PICK k \in Nat, t \in Threads : FirstOf(failsafe_order) = <<k, t>>
  BY <1>1, <1>2, FirstInOrder
<1>4. <<k, t>> \in failsafe_order BY <1>1, <1>2, <1>3, FirstInOrder
<1> DEFINE old == threads[t]
           back == [old EXCEPT !.base_priority = old.saved_base_priority,
                               !.timeshare = old.saved_timeshare,
                               !.realtime = old.saved_realtime,
                               !.failsafe = FALSE, !.failsafe_release_tick = 0,
                               !.computation_metered = 0]
           quantum == quantum_for(back)
           new == [back EXCEPT !.remaining_quantum = quantum]
           r == Recomputed(new)
<1>5. /\ failsafe_order' = failsafe_order \ {<<k, t>>}
      /\ t \in Registered /\ old.failsafe /\ old.failsafe_release_tick = k
             => threads' = [threads EXCEPT ![t] = r]
  BY <1>3 DEF release_failsafe, Recompute, Update
<1>6. TimerAt(t) BY DEF Marks, TimersOK
<1>7. t \in Registered /\ old.failsafe /\ old.failsafe_release_tick = k /\ old \in ThreadRecords
  BY <1>4, <1>6 DEF TimerAt, IInv, Core
<1>8. threads' = [threads EXCEPT ![t] = r] BY <1>5, <1>7
<1>9. /\ back \in ThreadRecords /\ SameMarks(old, back) /\ ~back.failsafe
      /\ back.depressed = old.depressed /\ back.depression_deadline = old.depression_deadline
  BY <1>7 DEF ThreadRecords, SameMarks
<1>10. quantum \in Nat BY <1>9, QuantumType
<1> HIDE DEF back, quantum
<1>11. new \in ThreadRecords /\ SameMarks(back, new) /\ SameTimers(back, new)
  BY <1>9, <1>10 DEF ThreadRecords, SameMarks, SameTimers
<1> HIDE DEF new
<1>12. SameMarks(new, r) /\ SameTimers(new, r) BY <1>11, RecomputedMarks
<1>13. /\ SameMarks(old, r) /\ ~r.failsafe
       /\ r.depressed = old.depressed /\ r.depression_deadline = old.depression_deadline
  BY <1>9, <1>11, <1>12 DEF SameMarks, SameTimers
<1> HIDE DEF r
<1>14. Registered' = Registered /\ threads'[t] = r /\ Elsewhere(t)
  BY <1>1, <1>5, <1>7, <1>8, OneRecord DEF IInv
<1>15. TimersOK'
  <2>1. \A n \in Nat : <<n, t>> \notin failsafe_order' BY <1>5, <1>6, <1>7 DEF TimerAt
  <2>2. TimerAt(t)' BY <1>1, <1>6, <1>13, <1>14, <2>1 DEF TimerAt
  <2> QED BY <1>14, <2>2, TimersElsewhere DEF Marks
<1>16. WakesOK'
  <2>1. Marked(old, wait[t]) BY <1>7 DEF Marks, WakesOK
  <2>2. Marked(r, wait'[t]) BY <1>1, <1>13, <2>1 DEF Marked, SameMarks
  <2> QED BY <1>14, <2>2, WakesElsewhere DEF Marks
<1>17. BatchOK'
  <2>1. \A u \in Registered' : threads'[u].state = "Running" =>
            u \in Registered /\ threads[u].state = "Running"
    BY <1>13, <1>14 DEF Elsewhere, SameMarks
  <2> QED BY <1>1, <2>1, BatchKept DEF Marks
<1> QED BY <1>15, <1>16, <1>17 DEF Marks

-----------------------------------------------------------------------------
\* A dispatched thread has a slice of its own, no deadline and no wake to answer.
LEMMA DispatchMarks ==
    ASSUME IInv, Marks, NEW t \in Threads, NEW proc \in Processors, rq.place[t].queued,
           Dispatch(t, proc), phase = "choose", phase' \in {"choose", "run"}
    PROVE  Marks'
<1> DEFINE old == threads[t]
           r == Restored(old)
           slices == IF r.timeshare /\ (r.remaining_timeslices = 0 \/ r.timeslice_processor # proc)
                     THEN timeshare_quanta(remove_from_queue(rq, t)) ELSE r.remaining_timeslices
           place == IF r.timeshare /\ (r.remaining_timeslices = 0 \/ r.timeslice_processor # proc)
                    THEN proc ELSE r.timeslice_processor
           shift == processor_set_priority_shift(active_timeshare_count)
           new == [r EXCEPT !.state = "Running", !.remaining_timeslices = slices,
                            !.timeslice_processor = place, !.priority_usage_shift = shift]
<1>1. t \in Registered /\ old \in ThreadRecords /\ old.state = "Runnable" /\ TimerAt(t)
  BY DEF IInv, Core, Fits, Marks, TimersOK
<1>2. /\ threads' = [threads EXCEPT ![t] = new] /\ batch' = Append(batch, <<t, proc>>)
      /\ depression_order' = (IF old.depressed THEN unindex_depression(t) ELSE depression_order)
      /\ wait' = [wait EXCEPT ![t] = "none"] /\ failsafe_order' = failsafe_order
  BY DEF Dispatch, Update
<1>3. /\ r \in ThreadRecords /\ r.depression_deadline = NoDeadline
      /\ r.failsafe = old.failsafe /\ r.failsafe_release_tick = old.failsafe_release_tick
  BY <1>1, RestoredMarks DEF TimerAt
<1> HIDE DEF r, slices, place, shift
<1>4. /\ new.state = "Running" /\ new.depression_deadline = NoDeadline
      /\ new.failsafe = old.failsafe /\ new.failsafe_release_tick = old.failsafe_release_tick
  BY <1>3 DEF ThreadRecords
<1> HIDE DEF new
<1>5. wait \in [Threads -> Waits] BY WaitMarks
<1>6. Registered' = Registered /\ threads'[t] = new /\ Elsewhere(t)
  <2>1. \A u \in Threads \ {t}, d \in Nat : <<d, u>> \in depression_order' <=> <<d, u>> \in depression_order
    BY <1>2 DEF unindex_depression
  <2>2. \A u \in Registered \ {t} : wait'[u] = wait[u] BY <1>2, <1>5 DEF IInv, Core
  <2> QED BY <1>1, <1>2, <2>1, <2>2, OneRecord DEF IInv
<1>7. TimersOK'
  <2>1. \A d \in Nat : <<d, t>> \notin depression_order'
    <3>1. CASE old.depression_deadline = NoDeadline
      BY <1>1, <1>2, <3>1 DEF TimerAt, unindex_depression, NoDeadline
    <3>2. CASE old.depression_deadline # NoDeadline
      BY <1>1, <1>2, <3>2 DEF TimerAt, unindex_depression
    <3> QED BY <3>1, <3>2
  <2>2. TimerAt(t)' BY <1>1, <1>2, <1>4, <1>6, <2>1 DEF TimerAt, NoDeadline
  <2> QED BY <1>6, <2>2, TimersElsewhere DEF Marks
<1>8. WakesOK'
  <2>1. Marked(threads'[t], wait'[t]) BY <1>2, <1>5 DEF Marked
  <2> QED BY <1>6, <2>1, WakesElsewhere DEF Marks
<1>9. BatchOK'
  <2>1. batch \in Seq(Threads \X Processors) BY DEF IInv, LoopType
  <2>2. /\ Len(batch) \in Nat /\ Len(batch') = Len(batch) + 1
        /\ batch'[Len(batch) + 1][1] = t
        /\ \A i \in 1 .. Len(batch) : batch'[i] = batch[i]
    BY <1>2, <2>1
  <2>3. \A i \in 1 .. Len(batch) : /\ batch[i][1] \in Registered
                                   /\ threads[batch[i][1]].state = "Running"
    BY DEF Marks, BatchOK
  <2>4. \A i \in 1 .. Len(batch) : batch[i][1] # t BY <1>1, <2>3
  <2>5. \A i \in 1 .. Len(batch') : i = Len(batch) + 1 \/ i \in 1 .. Len(batch) BY <2>2
  <2>6. \A i, j \in 1 .. Len(batch') : batch'[i][1] = batch'[j][1] => i = j
    BY <2>2, <2>4, <2>5 DEF Marks, BatchOK
  <2>7. \A i \in 1 .. Len(batch') : /\ batch'[i][1] \in Registered'
                                    /\ threads'[batch'[i][1]].state = "Running"
    BY <1>1, <1>4, <1>6, <2>2, <2>3, <2>4, <2>5 DEF Elsewhere
  <2>8. ASSUME NEW u \in Registered', threads'[u].state = "Running"
        PROVE  \E i \in 1 .. Len(batch') : batch'[i][1] = u
    <3>1. CASE u = t
      <4>1. Len(batch) + 1 \in 1 .. Len(batch') BY <2>2
      <4> QED BY <2>2, <3>1, <4>1
    <3>2. CASE u # t
      <4>1. u \in Registered /\ threads[u].state = "Running" BY <1>6, <2>8, <3>2 DEF Elsewhere
      <4>2. PICK i \in 1 .. Len(batch) : batch[i][1] = u BY <4>1 DEF Marks, BatchOK
      <4>3. i \in 1 .. Len(batch') /\ batch'[i][1] = u BY <2>2, <4>2
      <4> QED BY <4>3
    <3> QED BY <3>1, <3>2
  <2> QED BY <2>6, <2>7, <2>8 DEF BatchOK, BetweenRounds
<1> QED BY <1>7, <1>8, <1>9 DEF Marks

-----------------------------------------------------------------------------
LEMMA AccountedMarks ==
    ASSUME NEW r \in ThreadRecords, NEW ticks \in Nat
    PROVE  LET s == Accounted(r, ticks) IN
           /\ s.wake_pending = r.wake_pending
           /\ s.depressed = r.depressed /\ s.depression_deadline = r.depression_deadline
           /\ \/ s.failsafe = r.failsafe /\ s.failsafe_release_tick = r.failsafe_release_tick
              \/ s.failsafe /\ ~r.failsafe
<1> DEFINE usage == IF r.priority_usage_shift # NoShift /\ r.timeshare
                    THEN Plus(r.scheduling_usage, ticks) ELSE r.scheduling_usage
           quantum == Minus(r.remaining_quantum, ticks)
           metered == IF r.timeshare THEN r.computation_metered
                                     ELSE Plus(r.computation_metered, ticks)
           c == [r EXCEPT !.scheduling_usage = usage, !.remaining_quantum = quantum,
                          !.computation_metered = metered]
           tick == Plus(scheduler_tick, FailsafeReleaseTicks)
           base == IF c.realtime THEN 0 ELSE c.base_priority
           f == [c EXCEPT
                   !.saved_base_priority = c.base_priority, !.saved_timeshare = c.timeshare,
                   !.saved_realtime = c.realtime,
                   !.realtime = FALSE, !.base_priority = base,
                   !.timeshare = TRUE, !.failsafe = TRUE, !.failsafe_release_tick = tick]
           s == Accounted(r, ticks)
<1>1. s = IF Unsafe(c) THEN Recomputed(f) ELSE c
  BY DEF Accounted, Charged, apply_failsafe
<1> HIDE DEF s, usage, quantum, metered
<1>2. SameMarks(r, c) /\ SameTimers(r, c) BY DEF SameMarks, SameTimers, ThreadRecords
<1>3. DOMAIN c = DOMAIN r BY DEF ThreadRecords
<1>4. /\ f.wake_pending = c.wake_pending /\ f.failsafe = TRUE
      /\ f.depressed = c.depressed /\ f.depression_deadline = c.depression_deadline
  BY <1>3 DEF ThreadRecords
<1> HIDE DEF f, c
<1>5. CASE Unsafe(c)
  <2>1. /\ s.wake_pending = f.wake_pending /\ s.failsafe = f.failsafe
        /\ s.depressed = f.depressed /\ s.depression_deadline = f.depression_deadline
    BY <1>1, <1>5 DEF Recomputed
  <2>2. ~c.failsafe BY <1>5 DEF Unsafe
  <2> QED BY <1>2, <1>4, <2>1, <2>2 DEF SameMarks, SameTimers, s
<1>6. CASE ~Unsafe(c) BY <1>1, <1>2, <1>6 DEF SameMarks, SameTimers, s
<1> QED BY <1>5, <1>6

\* Only a blocking slice without a pending wake leaves its thread waiting.
LEMMA AfterSliceMarks ==
    ASSUME NEW r \in ThreadRecords, NEW completion \in Completions
    PROVE  LET s == AfterSlice(r, completion).record IN
           /\ SameTimers(r, s)
           /\ s.state = "Waiting" => completion = "Block" /\ ~r.wake_pending
<1> DEFINE q == quantum_for(r)
           metered == IF completion = "Yield" THEN 0 ELSE r.computation_metered
           s == AfterSlice(r, completion).record
           turned == [r EXCEPT !.wake_pending = FALSE, !.computation_metered = metered,
                               !.remaining_quantum = q, !.state = "Runnable"]
           rotated == Recomputed(turned)
           keeps == completion # "Yield" /\ r.timeshare /\ r.remaining_timeslices > 1
           expired == r.remaining_quantum = 0
           fewer == rotated.remaining_timeslices - 1
<1>1. CASE completion = "Block"
  <2> DEFINE b == [[r EXCEPT !.remaining_quantum = q,
                             !.remaining_timeslices = 0, !.timeslice_processor = PSet]
                   EXCEPT !.wake_pending = FALSE,
                          !.state = IF r.wake_pending THEN "Runnable" ELSE "Waiting"]
  <2>1. s = b BY <1>1 DEF AfterSlice
  <2> HIDE DEF q, s
  <2>2. SameTimers(r, b) /\ (b.state = "Waiting" => ~r.wake_pending)
    BY DEF SameTimers, ThreadRecords
  <2> QED BY <1>1, <2>1, <2>2 DEF s
<1>2. CASE completion # "Block" /\ (completion = "Yield" \/ expired)
  <2> DEFINE a == [rotated EXCEPT !.remaining_timeslices = fewer]
             b == [rotated EXCEPT !.remaining_timeslices = 0, !.timeslice_processor = PSet]
  <2>1. s = IF keeps THEN a ELSE b BY <1>2 DEF AfterSlice
  <2> HIDE DEF q, s, metered, fewer
  <2>2. SameTimers(r, turned) /\ turned.state = "Runnable" /\ DOMAIN turned = DOMAIN r
    BY DEF SameTimers, ThreadRecords
  <2> HIDE DEF turned
  <2>3. /\ SameTimers(turned, rotated) /\ rotated.state = "Runnable"
        /\ DOMAIN rotated = DOMAIN r
    BY <2>2 DEF Recomputed, SameTimers, ThreadRecords
  <2> HIDE DEF rotated
  <2>4. /\ SameTimers(rotated, a) /\ a.state = "Runnable"
        /\ SameTimers(rotated, b) /\ b.state = "Runnable"
    BY <2>3 DEF SameTimers, ThreadRecords
  <2> HIDE DEF a, b
  <2>5. SameTimers(r, s) /\ s.state = "Runnable"
    BY <2>1, <2>2, <2>3, <2>4 DEF SameTimers
  <2> QED BY <2>5 DEF s
<1>3. CASE completion # "Block" /\ ~(completion = "Yield" \/ expired)
  <2> DEFINE b == [r EXCEPT !.wake_pending = FALSE, !.state = "Runnable"]
  <2>1. s = b BY <1>3 DEF AfterSlice
  <2>2. SameTimers(r, b) /\ b.state = "Runnable" BY DEF SameTimers, ThreadRecords
  <2> QED BY <2>1, <2>2
<1> QED BY <1>1, <1>2, <1>3

LEMMA CompleteMarks ==
    ASSUME IInv, Marks, NEW t \in Registered, threads[t].state = "Running",
           NEW r \in ThreadRecords, r.wake_pending = threads[t].wake_pending,
           r.state = "Running",
           r.failsafe = threads[t].failsafe,
           r.failsafe_release_tick = threads[t].failsafe_release_tick,
           r.depression_deadline # NoDeadline => r.depressed,
           NEW ticks \in TickCounts, NEW completion \in Completions,
           CompleteRunning(t, r, ticks, completion),
           Ends(t), EndSlice(ticks), phase' = phase,
           \A d \in Nat : <<d, t>> \in depression_order' <=> r.depression_deadline = d,
           \A u \in Threads \ {t}, d \in Nat :
               <<d, u>> \in depression_order' <=> <<d, u>> \in depression_order,
           \A u \in Registered \ {t} : wait'[u] = wait[u],
           wait'[t] = "woken" => wait[t] = "woken"
    PROVE  Marks'
<1> DEFINE charged == Accounted(r, ticks)
           after == AfterSlice(charged, completion)
           new == after.record
<1>1. ticks \in Nat /\ scheduler_tick \in Nat BY SchedulerAssumption DEF IInv, LoopType
<1>2. AccountedLike(r, charged) BY <1>1, AccountedType
<1>3. /\ charged \in ThreadRecords /\ charged.wake_pending = r.wake_pending
      /\ charged.depressed = r.depressed
      /\ charged.depression_deadline = r.depression_deadline
      /\ \/ /\ charged.failsafe = r.failsafe
            /\ charged.failsafe_release_tick = r.failsafe_release_tick
         \/ charged.failsafe /\ ~r.failsafe
  BY <1>1, <1>2, AccountedMarks DEF AccountedLike
<1>4. /\ threads' = [threads EXCEPT ![t] = new]
      /\ failsafe_order' = IF charged.failsafe /\ ~r.failsafe
                           THEN failsafe_order \cup {<<charged.failsafe_release_tick, t>>}
                           ELSE failsafe_order
  BY DEF CompleteRunning, Update
<1> HIDE DEF charged
<1>5. /\ SameTimers(charged, new) /\ new.state \in {"Runnable", "Waiting"}
      /\ new.state = "Waiting" => ~charged.wake_pending
  BY <1>3, AfterSliceMarks, AfterSliceType DEF SliceLike
<1> HIDE DEF after
<1>6. Registered' = Registered /\ threads'[t] = new /\ Elsewhere(t) /\ t \in Threads
  <2>1. \A u \in Threads \ {t}, d \in Nat : <<d, u>> \in failsafe_order' <=> <<d, u>> \in failsafe_order
    BY <1>4
  <2> HIDE DEF new
  <2> QED BY <1>4, <2>1, OneRecord DEF IInv
<1> HIDE DEF new
<1>7. TimersOK'
  <2>1. TimerAt(t) BY <1>6 DEF Marks, TimersOK
  <2>2. \A d \in Nat : <<d, t>> \in depression_order' <=> new.depression_deadline = d
    BY <1>3, <1>5 DEF SameTimers
  <2>3. new.depression_deadline # NoDeadline => new.depressed BY <1>3, <1>5 DEF SameTimers
  <2>4. ASSUME NEW k \in Nat
        PROVE  <<k, t>> \in failsafe_order' <=> new.failsafe /\ new.failsafe_release_tick = k
    <3>1. <<k, t>> \in failsafe_order <=> r.failsafe /\ r.failsafe_release_tick = k
      BY <2>1 DEF TimerAt
    <3>2. CASE charged.failsafe /\ ~r.failsafe BY <1>4, <1>5, <3>1, <3>2 DEF SameTimers
    <3>3. CASE ~(charged.failsafe /\ ~r.failsafe)
      BY <1>3, <1>4, <1>5, <3>1, <3>3 DEF SameTimers
    <3> QED BY <3>2, <3>3
  <2>5. TimerAt(t)' BY <1>6, <2>2, <2>3, <2>4 DEF TimerAt
  <2> QED BY <1>6, <2>5, TimersElsewhere DEF Marks
<1>8. WakesOK'
  <2>1. wait[t] = "woken" => r.wake_pending BY DEF Marks, WakesOK, Marked
  <2>2. Marked(new, wait'[t]) BY <1>3, <1>5, <2>1 DEF Marked
  <2> QED BY <1>6, <2>2, WakesElsewhere DEF Marks
<1>9. BatchOK'
  <2>1. batch # << >> /\ Head(batch)[1] = t /\ batch' = Tail(batch) /\ phase = "run"
    BY DEF Ends, EndSlice
  <2> QED BY <1>5, <1>6, <2>1, BatchEnds DEF Marks, Elsewhere
<1> QED BY <1>7, <1>8, <1>9 DEF Marks

\* A slice whose thread is no longer running ends without touching a record.
LEMMA IdleEndMarks ==
    ASSUME IInv, Marks, NEW t \in Registered, threads[t].state # "Running",
           NEW ticks \in TickCounts, Ends(t), EndSlice(ticks), phase' = phase,
           UNCHANGED <<threads, depression_order, failsafe_order>>,
           \A u \in Registered \ {t} : wait'[u] = wait[u],
           wait'[t] = "woken" => wait[t] = "woken"
    PROVE  Marks'
<1>1. Registered' = Registered BY DEF Registered
<1>2. TimersOK' BY <1>1 DEF Marks, TimersOK, TimerAt
<1>3. WakesOK'
  <2>1. Elsewhere(t) BY <1>1 DEF Elsewhere
  <2>2. Marked(threads'[t], wait'[t]) BY DEF Marks, WakesOK, Marked
  <2> QED BY <2>1, <2>2, WakesElsewhere DEF Marks
<1>4. BatchOK'
  <2>1. batch # << >> /\ Head(batch)[1] = t /\ batch' = Tail(batch) /\ phase = "run"
        /\ t \in Threads
    BY DEF Ends, EndSlice, IInv, Core
  <2> QED BY <1>1, <2>1, BatchEnds DEF Marks
<1> QED BY <1>2, <1>3, <1>4 DEF Marks

LEMMA CompleteSliceMarks ==
    ASSUME IInv, Marks, NEW t \in Threads, NEW ticks \in TickCounts,
           NEW completion \in Completions, complete_slice(t, ticks, completion)
    PROVE  Marks'
<1> DEFINE old == threads[t]
<1>1. /\ Ends(t) /\ EndSlice(ticks) /\ phase' = phase /\ depression_order' = depression_order
      /\ t \in Registered /\ old \in ThreadRecords /\ TimerAt(t)
      /\ wait \in [Threads -> Waits]
  BY WaitMarks DEF complete_slice, Ends, IInv, Core, Marks, TimersOK
<1>2. /\ \A u \in Registered \ {t} : wait'[u] = wait[u]
      /\ wait'[t] = "woken" => wait[t] = "woken"
  BY <1>1 DEF complete_slice, IInv, Core
<1>3. CASE old.state = "Running"
  <2>1. CompleteRunning(t, old, ticks, completion) BY <1>3 DEF complete_slice
  <2>2. /\ \A d \in Nat : <<d, t>> \in depression_order' <=> old.depression_deadline = d
        /\ old.depression_deadline # NoDeadline => old.depressed
    BY <1>1 DEF TimerAt
  <2> QED BY <1>1, <1>2, <1>3, <2>1, <2>2, CompleteMarks
<1>4. CASE old.state # "Running"
  <2>1. UNCHANGED <<threads, failsafe_order>> BY <1>4 DEF complete_slice
  <2> QED BY <1>1, <1>2, <1>4, <2>1, IdleEndMarks
<1> QED BY <1>3, <1>4

LEMMA DepressMarks ==
    ASSUME IInv, Marks, NEW t \in Threads, NEW ticks \in TickCounts,
           NEW duration \in DepressDurations, depress(t, ticks, duration)
    PROVE  Marks'
<1> DEFINE old == threads[t]
           d0 == IF duration # 0 THEN Plus(elapsed_ticks, duration) ELSE NoDeadline
           deep == [old EXCEPT !.depressed = TRUE, !.scheduled_priority = 0,
                               !.depression_deadline = d0]
           r == Depressed(old, duration)
<1>1. /\ Ends(t) /\ EndSlice(ticks) /\ phase' = phase /\ wait' = wait
      /\ t \in Registered /\ old \in ThreadRecords /\ TimerAt(t) /\ duration \in Nat
      /\ depression_order' = IF ~old.depressed /\ duration # 0
                             THEN depression_order \cup {<<r.depression_deadline, t>>}
                             ELSE depression_order
  BY SchedulerAssumption DEF depress, Ends, IInv, Core, Marks, TimersOK
<1>2. d0 \in OptionalTick /\ (duration # 0 => d0 \in Nat) /\ (duration = 0 => d0 = NoDeadline)
  <2>1. Plus(elapsed_ticks, duration) \in Nat BY <1>1, PlusType DEF IInv, LoopType
  <2> QED BY <2>1 DEF OptionalTick, NoDeadline
<1>3. r = IF old.depressed THEN old ELSE deep BY DEF Depressed
<1>4. r \in ThreadRecords BY <1>1, DepressedType DEF SameButPriority, IInv, LoopType
<1> HIDE DEF d0, r
<1>5. /\ SameMarks(old, deep) /\ deep.depressed /\ deep.depression_deadline = d0
      /\ deep.failsafe = old.failsafe
      /\ deep.failsafe_release_tick = old.failsafe_release_tick
  BY <1>1 DEF SameMarks, ThreadRecords
<1> HIDE DEF deep
<1>6. /\ SameMarks(old, r) /\ r.failsafe = old.failsafe
      /\ r.failsafe_release_tick = old.failsafe_release_tick
      /\ r.depression_deadline # NoDeadline => r.depressed
  BY <1>1, <1>3, <1>5 DEF TimerAt, SameMarks
<1>7. ASSUME NEW d \in Nat
      PROVE  <<d, t>> \in depression_order' <=> r.depression_deadline = d
  <2>1. <<d, t>> \in depression_order <=> old.depression_deadline = d BY <1>1 DEF TimerAt
  <2>2. CASE old.depressed BY <1>1, <1>3, <2>1, <2>2
  <2>3. CASE ~old.depressed
    <3>1. old.depression_deadline = NoDeadline BY <1>1, <2>3 DEF TimerAt
    <3>2. <<d, t>> \notin depression_order BY <2>1, <3>1 DEF NoDeadline
    <3> QED BY <1>1, <1>2, <1>3, <1>5, <2>3, <3>2 DEF NoDeadline
  <2> QED BY <2>2, <2>3
<1>8. \A u \in Threads \ {t}, d \in Nat :
          <<d, u>> \in depression_order' <=> <<d, u>> \in depression_order
  BY <1>1
<1>9. CASE old.state = "Running"
  <2>1. CompleteRunning(t, r, ticks, "Yield") BY <1>9 DEF depress, r
  <2>2. r.state = "Running" /\ r.wake_pending = old.wake_pending BY <1>6, <1>9 DEF SameMarks
  <2>3. "Yield" \in Completions BY DEF Completions
  <2> QED BY <1>1, <1>4, <1>6, <1>7, <1>8, <1>9, <2>1, <2>2, <2>3, CompleteMarks
<1>10. CASE old.state # "Running"
  <2>1. threads' = [threads EXCEPT ![t] = r] /\ failsafe_order' = failsafe_order
    BY <1>10 DEF depress, Update, r
  <2>2. Registered' = Registered /\ threads'[t] = r /\ Elsewhere(t)
    BY <1>1, <1>8, <2>1, OneRecord DEF IInv
  <2>3. TimersOK'
    <3>1. TimerAt(t)' BY <1>1, <1>6, <1>7, <2>1, <2>2 DEF TimerAt
    <3> QED BY <2>2, <3>1, TimersElsewhere DEF Marks
  <2>4. WakesOK'
    <3>1. Marked(old, wait[t]) BY <1>1 DEF Marks, WakesOK
    <3>2. Marked(r, wait'[t]) BY <1>1, <1>6, <3>1 DEF Marked, SameMarks
    <3> QED BY <2>2, <3>2, WakesElsewhere DEF Marks
  <2>5. BatchOK'
    <3>1. batch # << >> /\ Head(batch)[1] = t /\ batch' = Tail(batch) /\ phase = "run"
      BY <1>1 DEF Ends, EndSlice
    <3>2. r.state # "Running" BY <1>6, <1>10 DEF SameMarks
    <3> QED BY <1>1, <2>2, <3>1, <3>2, BatchEnds DEF Marks, Elsewhere
  <2> QED BY <2>3, <2>4, <2>5 DEF Marks
<1> QED BY <1>9, <1>10

LEMMA TerminateMarks ==
    ASSUME IInv, Marks, NEW t \in Threads, NEW ticks \in TickCounts, NEW ending,
           terminate_slice(t, ticks, ending)
    PROVE  Marks'
<1>1. /\ Ends(t) /\ EndSlice(ticks) /\ phase' \in {"run", "remove"} /\ t \in Registered
      /\ batch # << >> /\ Head(batch)[1] = t /\ batch' = Tail(batch) /\ phase = "run"
  BY DEF terminate_slice, Ends, EndSlice
<1>2. CASE threads[t].state = "Running"
  <2>1. /\ threads' = Without(t) /\ depression_order' = unindex_depression(t)
        /\ failsafe_order' = unindex_failsafe(t) /\ wait' = [wait EXCEPT ![t] = "none"]
    BY <1>2 DEF terminate_slice
  <2>2. TimersOK' /\ WakesOK' /\ Registered' = Registered \ {t} /\ Elsewhere(t)
    BY <1>1, <2>1, EraseMarks DEF Marks
  <2>3. BatchOK' BY <1>1, <2>2, BatchEnds DEF Marks, Elsewhere
  <2> QED BY <2>2, <2>3 DEF Marks
<1>3. CASE threads[t].state # "Running"
  <2>1. UNCHANGED <<threads, depression_order, failsafe_order, wait>>
    BY <1>3 DEF terminate_slice
  <2>2. Registered' = Registered BY <2>1 DEF Registered
  <2>3. TimersOK' /\ WakesOK' BY <2>1, <2>2 DEF Marks, TimersOK, TimerAt, WakesOK
  <2>4. BatchOK' BY <1>1, <1>3, <2>1, <2>2, BatchEnds DEF Marks
  <2> QED BY <2>3, <2>4 DEF Marks
<1> QED BY <1>2, <1>3

-----------------------------------------------------------------------------
\* A step of the guest loop that touches no thread.
LEMMA LoopMarks ==
    ASSUME IInv, Marks, UNCHANGED <<threads, depression_order, failsafe_order, wait, batch>>,
           phase' \in BetweenRounds => phase \in BetweenRounds \/ batch = << >>,
           phase' = "choose" => phase \in BetweenRounds \cup {"choose"}
    PROVE  Marks'
<1>1. Registered' = Registered BY DEF Registered
<1>2. TimersOK' /\ WakesOK' BY <1>1 DEF Marks, TimersOK, TimerAt, WakesOK
<1>3. BatchOK'
  <2>1. phase \in BetweenRounds => batch = << >> BY DEF Marks, BatchOK
  <2>2. phase' = "choose" => \A i \in 1 .. Len(batch') :
            batch'[i][1] \in Registered' /\ threads'[batch'[i][1]].state = "Running"
    BY <1>1, <2>1 DEF Marks, BatchOK
  <2> QED BY <1>1, <2>1, <2>2 DEF Marks, BatchOK
<1> QED BY <1>2, <1>3 DEF Marks

LEMMA MarksStep ==
    ASSUME IInv, Marks, Next
    PROVE  Marks'
<1> USE DEF BetweenRounds
<1>1. ASSUME NEW t \in Threads, Call(t) PROVE Marks'
  <2>1. ASSUME NEW base \in TaskPriorities, NEW runnable \in BOOLEAN,
               register_thread(t, base, runnable)
        PROVE  Marks'
    BY <2>1, AddMarks DEF register_thread, InSlice, loopVars
  <2>2. CASE remove_thread(t) BY <2>2, RemoveMarks DEF remove_thread, InSlice, loopVars
  <2> QED BY <1>1, <2>1, <2>2, WakeMarks, BlockMarks, SuspendMarks, ResumeMarks DEF Call
<1>2. ASSUME NEW t \in Threads, make_runnable(t) PROVE Marks'
  <2>1. /\ t \in Registered /\ MakeRunnable(t) /\ threads[t].state # "Running"
        /\ wait' = [wait EXCEPT ![t] = "woken"] /\ phase = "wake"
        /\ UNCHANGED <<depression_order, failsafe_order, batch, phase>>
    BY <1>2 DEF make_runnable, loopVars
  <2> QED BY <2>1, MakeRunnableMarks
<1>3. ASSUME NEW t \in Threads, Completion(t) PROVE Marks'
  BY <1>3, CompleteSliceMarks, DepressMarks, TerminateMarks DEF Completion, Completions
<1>4. ASSUME Removal PROVE Marks'
  <2>1. ASSUME NEW t \in Threads, remove_process(ProcessOf[t]) PROVE Marks'
    BY <2>1, LoopMarks DEF remove_process, schedulerVars
  <2>2. ASSUME NEW t \in Threads, remove_process_step(t) PROVE Marks'
    BY <2>2, RemoveMarks DEF remove_process_step, IInv, LoopOK
  <2>3. ASSUME NEW base \in TaskPriorities, remove_process_done(base) PROVE Marks'
    <3>1. phase = "remove" /\ phase' = "run" /\ batch' = batch BY <2>3 DEF remove_process_done
    <3>2. CASE exec_thread = NoThread
      BY <2>3, <3>1, <3>2, LoopMarks DEF remove_process_done, schedulerVars
    <3>3. CASE exec_thread # NoThread
      <4>1. exec_thread \in Threads /\ exec_thread \notin Registered
        BY <2>3, <3>3 DEF remove_process_done, LoopOK, IInv, LoopType
      <4>2. /\ threads' = [u \in Registered \cup {exec_thread} |->
                              IF u = exec_thread THEN NewRecord(base, TRUE) ELSE threads[u]]
            /\ wait' = [wait EXCEPT ![exec_thread] = "none"]
            /\ UNCHANGED <<depression_order, failsafe_order>>
        BY <2>3, <3>3 DEF remove_process_done
      <4> QED BY <3>1, <4>1, <4>2, AddMarks
    <3> QED BY <3>2, <3>3
  <2> QED BY <1>4, <2>1, <2>2, <2>3 DEF Removal
<1>5. CASE skip_slice
  <2>1. /\ phase = "run" /\ phase' = phase /\ batch # << >> /\ Head(batch)[1] \notin Registered
        /\ batch' = Tail(batch)
        /\ UNCHANGED <<threads, depression_order, failsafe_order, wait>>
    BY <1>5 DEF skip_slice, schedulerVars
  <2>2. Registered' = Registered BY <2>1 DEF Registered
  <2>3. TimersOK' /\ WakesOK' BY <2>1, <2>2 DEF Marks, TimersOK, TimerAt, WakesOK
  <2>4. PICK t \in Threads : t = Head(batch)[1]
    <3>1. batch \in Seq(Threads \X Processors) BY DEF IInv, LoopType
    <3>2. Head(batch) \in Threads \X Processors BY <2>1, <3>1
    <3> QED BY <3>2
  <2>5. BatchOK' BY <2>1, <2>2, <2>4, BatchEnds DEF Marks
  <2> QED BY <2>3, <2>5 DEF Marks
<1>6. ASSUME Choose PROVE Marks'
  <2>1. CASE begin_choosing BY <2>1, LoopMarks DEF begin_choosing, schedulerVars
  <2>2. ASSUME NEW proc \in Processors, choose_next(proc) PROVE Marks'
    <3> DEFINE c == selected_run_queue(rq, proc)
    <3>1. c \in QueueKeys BY DEF selected_run_queue, QueueKeys
    <3>2. /\ ~PeekThrows(rq, c) /\ Dispatch(peek_highest(rq, c), proc)
          /\ phase = "choose" /\ phase' = phase
      BY <2>2 DEF choose_next
    <3> HIDE DEF c
    <3>3. peek_highest(rq, c) \in Threads /\ rq.place[peek_highest(rq, c)].queued
      BY <3>1, <3>2, PeekHighest DEF IInv, Core
    <3>4. PICK t \in Threads : t = peek_highest(rq, c) BY <3>3
    <3> QED BY <3>2, <3>3, <3>4, DispatchMarks
  <2>3. ASSUME NEW proc \in Processors, choose_nothing(proc) PROVE Marks'
    BY <2>3, LoopMarks DEF choose_nothing, schedulerVars
  <2>4. ASSUME NEW t \in Threads, choose_preferred(t) PROVE Marks'
    <3>1. 0 \in Processors BY RunQueueAssumption DEF Processors
    <3> QED BY <2>4, <3>1, DispatchMarks DEF choose_preferred
  <2>5. CASE end_choosing BY <2>5, LoopMarks DEF end_choosing, schedulerVars
  <2> QED BY <1>6, <2>1, <2>2, <2>3, <2>4, <2>5 DEF Choose
<1>7. ASSUME Time PROVE Marks'
  <2>1. CASE advance_time BY <2>1, LoopMarks DEF advance_time, schedulerVars
  <2>2. CASE expire_depressions_done
    BY <2>2, LoopMarks DEF expire_depressions_done, schedulerVars
  <2>3. CASE release_failsafe_done BY <2>3, LoopMarks DEF release_failsafe_done, schedulerVars
  <2>4. CASE age_priorities_done BY <2>4, LoopMarks DEF age_priorities_done, schedulerVars
  <2> QED BY <1>7, <2>1, <2>2, <2>3, <2>4, ExpireMarks, ReleaseMarks, AgeMarks DEF Time
<1> QED BY <1>1, <1>2, <1>3, <1>4, <1>5, <1>6, <1>7, PolicyCallMarks DEF Next

LEMMA MarksInit == Init => Marks
<1> SUFFICES ASSUME Init PROVE Marks OBVIOUS
<1> DEFINE r == NewRecord(DefaultBasePriority, TRUE)
<1>1. Registered = {InitialThread} /\ threads[InitialThread] = r
  BY DEF Init, Registered
<1>2. r.depression_deadline = NoDeadline /\ ~r.failsafe /\ r.state = "Runnable"
  BY DEF NewRecord
<1> HIDE DEF r
<1>3. depression_order = {} /\ failsafe_order = {} /\ batch = << >> /\ phase = "wake"
  BY DEF Init
<1>6. TimersOK BY <1>1, <1>2, <1>3 DEF TimersOK, TimerAt, NoDeadline
<1>4. WakesOK BY <1>1, <1>2 DEF Init, WakesOK, Marked
<1>5. BatchOK BY <1>1, <1>2, <1>3 DEF BatchOK, BetweenRounds
<1> QED BY <1>4, <1>5, <1>6 DEF Marks

\* The inductive invariant of slices, wakes and timers, beside that of the queues.
THEOREM MarksInvariant == Spec => []Marks
<1>1. Init => Marks BY MarksInit
<1>2. IInv /\ Marks /\ [Next]_vars => Marks'
  <2> SUFFICES ASSUME IInv, Marks, [Next]_vars PROVE Marks' OBVIOUS
  <2>1. CASE Next BY <2>1, MarksStep
  <2>2. CASE UNCHANGED vars
    BY <2>2, LoopMarks DEF vars, schedulerVars, loopVars
  <2> QED BY <2>1, <2>2
<1> QED BY <1>1, <1>2, Invariant, PTL DEF Spec

\* A Running thread always has exactly one slice to complete, and a woken thread
\* never waits unless it is suspended and will run when resumed.
THEOREM ThreadsNotStranded == Spec => []NoThreadStranded
<1>1. IInv /\ Marks => NoThreadStranded
  <2> SUFFICES ASSUME IInv, Marks PROVE NoThreadStranded OBVIOUS
  <2>1. RunningThreadsHaveSlices BY DEF Marks, BatchOK, RunningThreadsHaveSlices
  <2>2. NoLostWakeup BY DEF Marks, WakesOK, Marked, NoLostWakeup
  <2> QED BY <2>1, <2>2 DEF NoThreadStranded
<1> QED BY <1>1, Invariant, MarksInvariant, PTL

\* The two orders that begin_tick reads name exactly the threads with a timed
\* depression and the fail-safe threads.
THEOREM TimersAgree == Spec => []TimerIndexesExact
<1>1. IInv /\ Marks => TimerIndexesExact
  <2> SUFFICES ASSUME IInv, Marks PROVE TimerIndexesExact OBVIOUS
  <2>1. /\ depression_order \in SUBSET (Nat \X Threads)
        /\ failsafe_order \in SUBSET (Nat \X Threads)
        /\ Registered \subseteq Threads /\ \A t \in Registered : threads[t] \in ThreadRecords
    BY DEF IInv, LoopType, Core
  <2>2. \A t \in Registered : /\ threads[t].failsafe_release_tick \in Nat
                              /\ threads[t].depression_deadline \in Nat \cup {NoDeadline}
    BY <2>1 DEF ThreadRecords, OptionalTick, NoDeadline
  <2>3. depression_order =
            {<<threads[t].depression_deadline, t>> :
                t \in {u \in Registered : threads[u].depression_deadline # NoDeadline}}
    <3>1. ASSUME NEW d \in Nat, NEW t \in Threads
          PROVE  <<d, t>> \in depression_order <=>
                     t \in Registered /\ threads[t].depression_deadline = d
      BY DEF Marks, TimersOK, TimerAt
    <3>2. NoDeadline \notin Nat BY DEF NoDeadline
    <3> QED BY <2>1, <2>2, <3>1, <3>2
  <2>4. failsafe_order =
            {<<threads[t].failsafe_release_tick, t>> :
                t \in {u \in Registered : threads[u].failsafe}}
    <3>1. ASSUME NEW k \in Nat, NEW t \in Threads
          PROVE  <<k, t>> \in failsafe_order <=>
                     /\ t \in Registered /\ threads[t].failsafe
                     /\ threads[t].failsafe_release_tick = k
      BY DEF Marks, TimersOK, TimerAt
    <3> QED BY <2>1, <2>2, <3>1
  <2>5. \A t \in Registered :
            threads[t].depression_deadline # NoDeadline => threads[t].depressed
    BY <2>1 DEF Marks, TimersOK, TimerAt
  <2> QED BY <2>3, <2>4, <2>5 DEF TimerIndexesExact
<1> QED BY <1>1, Invariant, MarksInvariant, PTL

-----------------------------------------------------------------------------
(***************************************************************************)
(* What choose_next takes.                                                 *)
(***************************************************************************)
\* No thread of a queue is above its high_queue, and a queue that holds a
\* thread is counted.
LEMMA QueuedBelowHigh ==
    ASSUME NEW q, RunQueueOK(q), NEW u \in Threads, q.place[u].queued,
           NEW c, c = q.place[u].processor
    PROVE  /\ c \in QueueKeys /\ q.count[c] # 0
           /\ q.place[u].priority <= q.high_queue[c]
           /\ q.place[u].priority \in Priorities
<1> DEFINE p == q.place[u].priority
<1>1. c \in QueueKeys /\ p \in Priorities BY PlacesTyped DEF Places
<1>2. p \in q.bitmap[c]
  <2>1. PICK i \in 1 .. Len(q.queues[c][p]) : q.queues[c][p][i] = u
    BY DEF RunQueueOK, PlacesMatchLists
  <2>2. q.queues[c][p] # << >> BY <2>1
  <2> QED BY <1>1, <2>2 DEF RunQueueOK, BitmapExact
<1>3. p <= q.high_queue[c] BY <1>1, <1>2 DEF RunQueueOK, HighQueueExact
<1>4. q.count[c] # 0
  <2>1. IsFiniteSet(Queued(q, c)) BY RunQueueAssumption, FS_Subset DEF Queued
  <2>2. u \in Queued(q, c) BY DEF Queued
  <2>3. Cardinality(Queued(q, c)) # 0 BY <2>1, <2>2, FS_EmptySet
  <2> QED BY <1>1, <2>3 DEF RunQueueOK, CountsExact
<1> QED BY <1>1, <1>3, <1>4

\* The selected queue is at least as high as either of the two that hold a thread.
LEMMA SelectedHighest ==
    ASSUME NEW q, RunQueueOK(q), NEW proc \in Processors, NEW d \in {PSet, proc}, q.count[d] # 0
    PROVE  LET c == selected_run_queue(q, proc) IN
           c \in {PSet, proc} /\ q.high_queue[d] <= q.high_queue[c]
<1>1. PSet \in QueueKeys /\ proc \in QueueKeys BY DEF QueueKeys
<1>2. /\ q.high_queue[PSet] \in Priorities \cup {NoQueue}
      /\ q.high_queue[proc] \in Priorities \cup {NoQueue}
  BY <1>1 DEF RunQueueOK, RunQueueType
<1>3. Priorities \cup {NoQueue} \subseteq Int BY RunQueueAssumption DEF Priorities, NoQueue
<1> QED BY <1>2, <1>3 DEF selected_run_queue

\* choose_next takes a thread of the highest priority among all those queued
\* for the processor, whichever of the two queues holds it: high_queue of
\* either queue is never below a thread it holds, and the peek at the selected
\* queue returns a thread of that priority.
THEOREM ChoosesHighest == Spec => ChoosesHighestPriority
<1> DEFINE Chosen(proc) ==
        choose_next(proc) =>
          LET t == batch'[Len(batch')][1] IN
          /\ t \in Eligible(proc)
          /\ \A u \in Eligible(proc) :
                 threads[u].scheduled_priority <= threads[t].scheduled_priority
<1>1. ASSUME IInv PROVE \A proc \in Processors : Chosen(proc)
  <2> SUFFICES ASSUME NEW proc \in Processors, choose_next(proc) PROVE Chosen(proc)
    OBVIOUS
  <2> USE <1>1
  <2> DEFINE c == selected_run_queue(rq, proc)
             t == peek_highest(rq, c)
  <2>1. /\ RunQueueOK(rq) /\ HasCandidate(rq, proc) /\ ~PeekThrows(rq, c)
        /\ batch' = Append(batch, <<t, proc>>) /\ batch \in Seq(Threads \X Processors)
    <3>1. RunQueueOK(rq) /\ batch \in Seq(Threads \X Processors) BY DEF IInv, Core, LoopType
    <3>2. HasCandidate(rq, proc) /\ ~PeekThrows(rq, c) /\ Dispatch(t, proc)
      BY DEF choose_next
    <3>3. batch' = Append(batch, <<t, proc>>) BY <3>2 DEF Dispatch
    <3> QED BY <3>1, <3>2, <3>3
  <2>2. batch'[Len(batch')][1] = t
    <3>1. Len(batch') = Len(batch) + 1 /\ batch'[Len(batch) + 1] = <<t, proc>> BY <2>1
    <3> QED BY <3>1
  <2>3. c \in {PSet, proc} /\ c \in QueueKeys BY DEF selected_run_queue, QueueKeys
  <2>4. /\ t \in Threads /\ rq.place[t].queued /\ rq.place[t].processor = c
        /\ rq.place[t].priority = rq.high_queue[c]
    BY <2>1, <2>3, PeekHighest
  <2> HIDE DEF t
  <2>5. \A u \in Threads : rq.place[u].queued =>
            /\ u \in Registered
            /\ rq.place[u].priority = threads[u].scheduled_priority
            /\ rq.place[u].processor = threads[u].bound_processor
    <3>1. /\ \A u \in Registered : Fits(rq, u, threads[u])
          /\ \A u \in Threads \ Registered : ~rq.place[u].queued
      BY DEF IInv, Core
    <3> QED BY <3>1 DEF Fits
  <2>6. t \in Eligible(proc) BY <2>3, <2>4, <2>5 DEF Eligible
  <2>7. ASSUME NEW u \in Eligible(proc)
        PROVE  threads[u].scheduled_priority <= threads[t].scheduled_priority
    <3> DEFINE d == rq.place[u].processor
    <3>1. u \in Threads /\ rq.place[u].queued /\ u \in Registered
      <4>1. Registered \subseteq Threads BY DEF IInv, Core
      <4> QED BY <2>7, <4>1 DEF Eligible
    <3>2. d \in {PSet, proc} BY <2>5, <2>7, <3>1 DEF Eligible
    <3>3. /\ d \in QueueKeys /\ rq.count[d] # 0 /\ rq.place[u].priority <= rq.high_queue[d]
          /\ rq.place[u].priority \in Priorities
      BY <2>1, <3>1, QueuedBelowHigh
    <3> HIDE DEF d
    <3>4. rq.high_queue[d] <= rq.high_queue[c] BY <2>1, <3>2, <3>3, SelectedHighest
    <3>5. rq.high_queue[d] \in Int /\ rq.high_queue[c] \in Int /\ rq.place[u].priority \in Int
      <4>1. Priorities \cup {NoQueue} \subseteq Int BY RunQueueAssumption DEF Priorities, NoQueue
      <4> QED BY <2>1, <2>3, <3>3, <4>1 DEF RunQueueOK, RunQueueType
    <3>6. rq.place[u].priority <= rq.place[t].priority BY <2>4, <3>3, <3>4, <3>5
    <3> QED BY <2>4, <2>5, <3>1, <3>6
  <2> HIDE DEF c
  <2> QED BY <2>2, <2>6, <2>7
<1>2. IInv => [\A proc \in Processors : Chosen(proc)]_vars BY <1>1
<1>3. Spec => []IInv BY Invariant
<1> QED BY <1>2, <1>3, PTL DEF ChoosesHighestPriority

-----------------------------------------------------------------------------
(***************************************************************************)
(* Priorities.  The queues order the real-time band by deadline, so they   *)
(* are sound only while real-time threads alone are in it.  The code lets  *)
(* any thread in whose base priority a policy call sets that high, so what *)
(* follows has the absence of such calls as its hypothesis.                *)
(***************************************************************************)
KernelPriorities == BasePriorities \subseteq 0 .. RealtimeQueuePriority - 1

\* What recompute_priority relies on, ...
BandOK(r) ==
    /\ r.base_priority < RealtimeQueuePriority
    /\ r.saved_base_priority < RealtimeQueuePriority
    /\ r.realtime \/ r.saved_realtime => r.realtime_computation > 0
    /\ r.depressed => r.scheduled_priority < RealtimeQueuePriority

\* ... what it ensures, ...
InBand(r) ==
    /\ r.scheduled_priority <= RealtimeQueuePriority
    /\ r.scheduled_priority = RealtimeQueuePriority => r.realtime

\* ... and, between the slices, the time that quantum_for gave back.
Rankable(r) == BandOK(r) /\ r.remaining_quantum > 0
Ranked(r) == Rankable(r) /\ InBand(r)

\* The places of the real-time band, and they alone, have a key.
Keyed(q) ==
    \A t \in Threads : q.place[t].queued =>
        /\ q.place[t].priority <= RealtimeQueuePriority
        /\ q.place[t].priority = RealtimeQueuePriority <=> q.place[t].key # NoKey

Ranks == (\A t \in Registered : Ranked(threads[t])) /\ Keyed(rq)

\* A record of the same priorities, with time left to run.
SameRank(r, s) ==
    /\ s.base_priority = r.base_priority /\ s.saved_base_priority = r.saved_base_priority
    /\ s.realtime = r.realtime /\ s.saved_realtime = r.saved_realtime
    /\ s.realtime_computation = r.realtime_computation
    /\ s.depressed = r.depressed /\ s.scheduled_priority = r.scheduled_priority
    /\ s.remaining_quantum > 0

LEMMA SameRankKeeps ==
    ASSUME NEW r, NEW s, SameRank(r, s)
    PROVE  (Rankable(r) => Rankable(s)) /\ (Ranked(r) => Ranked(s))
  BY DEF SameRank, Rankable, Ranked, BandOK, InBand

LEMMA Bands ==
    /\ RealtimeQueuePriority \in Nat /\ RealtimeQueuePriority > 0
    /\ MaxKernelPriority < RealtimeQueuePriority
    /\ \A p \in TaskPriorities : p < RealtimeQueuePriority
    /\ DefaultBasePriority < RealtimeQueuePriority
    /\ KernelPriorities => \A p \in BasePriorities : p < RealtimeQueuePriority
    /\ Priorities \subseteq Nat
<1>1. /\ MaxKernelPriority \in Nat /\ MaxKernelPriority + 2 = RealtimeQueuePriority
      /\ RealtimeQueuePriority \in Nat /\ MaxPriority \in Nat
  BY SchedulerAssumption, RunQueueAssumption
<1>2. /\ TaskPriorities \subseteq 0 .. MaxKernelPriority
      /\ DefaultBasePriority \in 0 .. MaxKernelPriority
  BY SchedulerAssumption
<1>3. \A p \in 0 .. MaxKernelPriority : p < RealtimeQueuePriority BY <1>1
<1>4. KernelPriorities => \A p \in BasePriorities : p < RealtimeQueuePriority
  BY <1>1 DEF KernelPriorities
<1>5. Priorities \subseteq Nat BY <1>1 DEF Priorities
<1> QED BY <1>1, <1>2, <1>3, <1>4, <1>5

LEMMA PriorityRanked ==
    ASSUME NEW r \in ThreadRecords, r.base_priority < RealtimeQueuePriority
    PROVE  /\ PriorityOf(r) <= RealtimeQueuePriority
           /\ PriorityOf(r) = RealtimeQueuePriority => r.realtime
<1>1. /\ r.base_priority \in Nat /\ MaxKernelPriority \in Nat /\ RealtimeQueuePriority \in Nat
      /\ MaxKernelPriority < RealtimeQueuePriority /\ Penalty(r) \in Nat
  BY Bands, PenaltyType, SchedulerAssumption DEF ThreadRecords
<1>2. Clamp(r.base_priority - Penalty(r), 0, MaxKernelPriority) <= MaxKernelPriority
  <2> DEFINE x == r.base_priority - Penalty(r)
  <2>1. x \in Int BY <1>1
  <2> HIDE DEF x
  <2> QED BY <1>1, <2>1 DEF Clamp
<1>3. Clamp(r.base_priority - Penalty(r), 0, MaxKernelPriority) \in Int
  <2> DEFINE x == r.base_priority - Penalty(r)
  <2>1. x \in Int BY <1>1
  <2> HIDE DEF x
  <2> QED BY <1>1, <2>1 DEF Clamp
<1> HIDE DEF Clamp
<1> QED BY <1>1, <1>2, <1>3 DEF PriorityOf

LEMMA RecomputedInBand ==
    ASSUME NEW r \in ThreadRecords, BandOK(r)
    PROVE  /\ BandOK(Recomputed(r)) /\ InBand(Recomputed(r))
           /\ Recomputed(r) \in ThreadRecords
           /\ Recomputed(r).remaining_quantum = r.remaining_quantum
<1>1. Recomputed(r) \in ThreadRecords BY RecomputedType DEF SameButPriority
<1>2. CASE r.depressed
  <2>1. Recomputed(r) = r BY <1>2 DEF Recomputed
  <2>2. r.scheduled_priority < RealtimeQueuePriority /\ r.scheduled_priority \in Nat
    BY <1>2, Bands DEF BandOK, ThreadRecords
  <2> QED BY <1>1, <2>1, <2>2, Bands DEF InBand
<1>3. CASE ~r.depressed
  <2> DEFINE p == PriorityOf(r)
             s == [r EXCEPT !.scheduled_priority = p]
  <2>1. Recomputed(r) = s BY <1>3 DEF Recomputed
  <2>2. p <= RealtimeQueuePriority /\ (p = RealtimeQueuePriority => r.realtime)
    BY PriorityRanked DEF BandOK
  <2> HIDE DEF p
  <2>3. /\ s.scheduled_priority = p /\ s.realtime = r.realtime /\ s.depressed = r.depressed
        /\ s.base_priority = r.base_priority /\ s.saved_base_priority = r.saved_base_priority
        /\ s.saved_realtime = r.saved_realtime
        /\ s.realtime_computation = r.realtime_computation
        /\ s.remaining_quantum = r.remaining_quantum
    BY DEF ThreadRecords
  <2> HIDE DEF s
  <2> QED BY <1>1, <1>3, <2>1, <2>2, <2>3 DEF BandOK, InBand
<1> QED BY <1>2, <1>3

LEMMA RecomputedRanked ==
    ASSUME NEW r \in ThreadRecords, Rankable(r)
    PROVE  Ranked(Recomputed(r)) /\ Recomputed(r) \in ThreadRecords
  BY RecomputedInBand DEF Ranked, Rankable

LEMMA QuantumPositive ==
    ASSUME NEW r \in ThreadRecords, r.realtime => r.realtime_computation > 0
    PROVE  quantum_for(r) \in Nat /\ quantum_for(r) > 0
<1>1. QuantumTicks \in Nat /\ QuantumTicks > 0 BY SchedulerAssumption
<1> QED BY <1>1 DEF quantum_for, ThreadRecords

\* The queue operations keep the keys in the band of real-time threads.
LEMMA RemoveKeyed ==
    ASSUME NEW q, RunQueueOK(q), Keyed(q), NEW t \in Threads
    PROVE  Keyed(remove_from_queue(q, t)) /\ RunQueueOK(remove_from_queue(q, t))
<1> DEFINE n == remove_from_queue(q, t)
<1>1. OnlyAt(q, n, t) /\ ~n.place[t].queued BY RemoveFits
<1> HIDE DEF n
<1>2. Keyed(n) BY <1>1 DEF Keyed, OnlyAt
<1> QED BY <1>1, <1>2 DEF OnlyAt, n

LEMMA EnqueueKeyed ==
    ASSUME NEW q, RunQueueOK(q), Keyed(q), NEW t \in Threads, NEW r \in ThreadRecords,
           Ranked(r), NEW front
    PROVE  Keyed(Enqueued(q, t, r, front)) /\ RunQueueOK(Enqueued(q, t, r, front))
<1> DEFINE n == Enqueued(q, t, r, front)
           ticket == TicketOf(r)
           spot == [queued |-> TRUE, priority |-> ticket.priority,
                    processor |-> ticket.processor, key |-> ticket.key]
<1>1. ticket \in Tickets BY TicketType
<1>2. /\ RunQueueOK(n)
      /\ ~q.place[t].queued => n.place = [q.place EXCEPT ![t] = spot]
      /\ q.place[t].queued => n = q
  BY <1>1, EnqueueKeepsAgreement DEF Enqueued
<1>3. q.place \in [Threads -> Places] BY PlacesTyped
<1>4. /\ ticket.priority = r.scheduled_priority
      /\ ticket.key = IF r.realtime /\ r.scheduled_priority >= RealtimeQueuePriority
                      THEN r.realtime_deadline ELSE NoKey
  BY DEF TicketOf, Ticket
<1> HIDE DEF n, ticket
<1>5. spot.priority = r.scheduled_priority /\ spot.key = ticket.key BY <1>4
<1> HIDE DEF spot
<1>6. /\ r.scheduled_priority \in Nat /\ r.realtime_deadline \in Nat
      /\ r.scheduled_priority <= RealtimeQueuePriority
      /\ r.scheduled_priority = RealtimeQueuePriority => r.realtime
      /\ RealtimeQueuePriority \in Nat
  BY Bands DEF ThreadRecords, Ranked, InBand
<1>7. /\ spot.priority <= RealtimeQueuePriority
      /\ spot.priority = RealtimeQueuePriority <=> spot.key # NoKey
  BY <1>4, <1>5, <1>6 DEF NoKey
<1>8. CASE ~q.place[t].queued
  <2>1. n.place[t] = spot /\ \A u \in Threads : u # t => n.place[u] = q.place[u]
    BY <1>2, <1>3, <1>8
  <2>2. Keyed(n) BY <1>7, <2>1 DEF Keyed
  <2> QED BY <1>2, <2>2 DEF n
<1>9. CASE q.place[t].queued BY <1>2, <1>9 DEF n
<1> QED BY <1>8, <1>9

LEMMA RequeueKeyed ==
    ASSUME NEW q, RunQueueOK(q), Keyed(q), NEW t \in Threads, NEW r \in ThreadRecords, Ranked(r)
    PROVE  /\ Keyed(Requeued(q, t, r)) /\ RunQueueOK(Requeued(q, t, r))
           /\ \A old : /\ Keyed(RequeuedIfMoved(q, t, old, r))
                       /\ RunQueueOK(RequeuedIfMoved(q, t, old, r))
<1> DEFINE m == remove_from_queue(q, t)
<1>1. Keyed(m) /\ RunQueueOK(m) BY RemoveKeyed
<1>2. Requeued(q, t, r) = IF q.place[t].queued THEN Enqueued(m, t, r, FALSE) ELSE q
  BY DEF Requeued
<1> HIDE DEF m
<1>3. Keyed(Enqueued(m, t, r, FALSE)) /\ RunQueueOK(Enqueued(m, t, r, FALSE))
  BY <1>1, EnqueueKeyed
<1>4. Keyed(Requeued(q, t, r)) /\ RunQueueOK(Requeued(q, t, r)) BY <1>2, <1>3
<1>5. \A old : \/ RequeuedIfMoved(q, t, old, r) = q
               \/ RequeuedIfMoved(q, t, old, r) = Requeued(q, t, r)
  BY DEF RequeuedIfMoved
<1> QED BY <1>4, <1>5

\* A step that gives one registered thread another record.
LEMMA UpdateRanks ==
    ASSUME IInv, Ranks, NEW t \in Registered, NEW r, threads' = [threads EXCEPT ![t] = r],
           Ranked(r), Keyed(rq')
    PROVE  Ranks'
<1>1. Registered' = Registered /\ threads'[t] = r /\ \A u \in Registered \ {t} : threads'[u] = threads[u]
  BY DEF Registered, IInv, Core
<1>2. \A u \in Registered' : Ranked(threads'[u]) BY <1>1 DEF Ranks
<1> QED BY <1>2 DEF Ranks

LEMMA RecomputeRanks ==
    ASSUME IInv, Ranks, NEW t \in Registered, NEW r \in ThreadRecords, Rankable(r), Recompute(t, r)
    PROVE  Ranks'
<1>1. Ranked(Recomputed(r)) /\ Recomputed(r) \in ThreadRecords BY RecomputedRanked
<1>2. t \in Threads /\ RunQueueOK(rq) /\ Keyed(rq) BY DEF IInv, Core, Ranks
<1>3. /\ threads' = [threads EXCEPT ![t] = Recomputed(r)]
      /\ rq' = RequeuedIfMoved(rq, t, r, Recomputed(r))
  BY DEF Recompute, Update
<1>4. Keyed(rq') BY <1>1, <1>2, <1>3, RequeueKeyed
<1> QED BY <1>1, <1>3, <1>4, UpdateRanks

LEMMA NewRecordRanked ==
    ASSUME NEW base \in TaskPriorities \cup {DefaultBasePriority}, NEW runnable \in BOOLEAN
    PROVE  Ranked(NewRecord(base, runnable)) /\ NewRecord(base, runnable) \in ThreadRecords
<1>1. base < RealtimeQueuePriority /\ base \in Priorities /\ base \in Nat
  BY Bands, TaskPrioritiesFit
<1>2. RealtimeQueuePriority \in Nat /\ RealtimeQueuePriority > 0 /\ QuantumTicks \in Nat
      /\ QuantumTicks > 0
  BY Bands, SchedulerAssumption
<1> DEFINE r == NewRecord(base, runnable)
<1>3. /\ r.base_priority = base /\ r.scheduled_priority = base /\ r.saved_base_priority = 0
      /\ r.remaining_quantum = QuantumTicks /\ ~r.realtime /\ ~r.saved_realtime /\ ~r.depressed
  BY DEF NewRecord
<1>4. r \in ThreadRecords BY <1>1, NewRecordType
<1> HIDE DEF r
<1> QED BY <1>1, <1>2, <1>3, <1>4 DEF Ranked, Rankable, BandOK, InBand, r

\* A step that registers a thread.
LEMMA AddRanks ==
    ASSUME IInv, Ranks, NEW t \in Threads, t \notin Registered, NEW base \in TaskPriorities,
           NEW runnable \in BOOLEAN,
           threads' = [u \in Registered \cup {t} |->
                          IF u = t THEN NewRecord(base, runnable) ELSE threads[u]],
           rq' = IF runnable THEN Enqueued(rq, t, NewRecord(base, runnable), FALSE) ELSE rq
    PROVE  Ranks'
<1> DEFINE r == NewRecord(base, runnable)
<1>1. Ranked(r) /\ r \in ThreadRecords BY NewRecordRanked
<1>2. /\ Registered' = Registered \cup {t} /\ threads'[t] = r
      /\ \A u \in Registered : threads'[u] = threads[u]
  BY DEF Registered
<1> HIDE DEF r
<1>3. Keyed(rq) /\ RunQueueOK(rq) BY DEF IInv, Core, Ranks
<1>4. Keyed(Enqueued(rq, t, r, FALSE)) BY <1>1, <1>3, EnqueueKeyed
<1>5. Keyed(rq') BY <1>3, <1>4 DEF r
<1>6. \A u \in Registered' : Ranked(threads'[u]) BY <1>1, <1>2 DEF Ranks
<1> QED BY <1>5, <1>6 DEF Ranks

\* A step that forgets a thread.
LEMMA EraseRanks ==
    ASSUME IInv, Ranks, NEW t \in Registered, threads' = Without(t),
           rq' \in {rq, remove_from_queue(rq, t)}
    PROVE  Ranks'
<1>1. /\ \A u \in Registered' : u \in Registered /\ threads'[u] = threads[u]
  BY DEF Without, Registered
<1>2. t \in Threads /\ RunQueueOK(rq) /\ Keyed(rq) BY DEF IInv, Core, Ranks
<1>3. Keyed(rq') BY <1>2, RemoveKeyed
<1>4. \A u \in Registered' : Ranked(threads'[u]) BY <1>1 DEF Ranks
<1> QED BY <1>3, <1>4 DEF Ranks

LEMMA ReadiedRanked ==
    ASSUME NEW r \in ThreadRecords, Ranked(r)
    PROVE  Ranked(Readied(r)) /\ Readied(r) \in ThreadRecords
<1> DEFINE n == quantum_for(r)
           s == [r EXCEPT !.state = "Runnable", !.remaining_quantum = n,
                          !.computation_metered = 0]
<1>1. n \in Nat /\ n > 0 BY QuantumPositive DEF Ranked, Rankable, BandOK
<1>2. Readied(r) = s BY DEF Readied
<1> HIDE DEF n
<1>3. SameRank(r, s) BY <1>1 DEF SameRank, ThreadRecords
<1> HIDE DEF s
<1> QED BY <1>2, <1>3, SameRankKeeps, ReadiedType

\* The calls of system calls and device callbacks.
LEMMA MakeRunnableRanks ==
    ASSUME IInv, Ranks, NEW t \in Registered, MakeRunnable(t)
    PROVE  Ranks'
<1> DEFINE r == threads[t]
<1>1. /\ r \in ThreadRecords /\ Ranked(r) /\ t \in Threads /\ Keyed(rq) /\ RunQueueOK(rq)
      /\ r.remaining_quantum > 0
  BY DEF IInv, Core, Ranks, Ranked, Rankable
<1>2. CASE r.suspend_count # 0
  <2> DEFINE new == [r EXCEPT !.resume_runnable = TRUE]
  <2>1. threads' = [threads EXCEPT ![t] = new] /\ rq' = rq BY <1>2 DEF MakeRunnable, Update
  <2>2. SameRank(r, new) BY <1>1 DEF SameRank, ThreadRecords
  <2> HIDE DEF new
  <2>3. Ranked(new) BY <1>1, <2>2, SameRankKeeps
  <2> QED BY <1>1, <2>1, <2>3, UpdateRanks
<1>3. CASE r.suspend_count = 0 /\ (r.state = "Running" \/ rq.place[t].queued)
  <2>1. UNCHANGED <<threads, rq>> BY <1>3 DEF MakeRunnable
  <2> QED BY <2>1 DEF Ranks, Registered
<1>4. CASE r.suspend_count = 0 /\ ~(r.state = "Running" \/ rq.place[t].queued)
  <2> DEFINE s == Readied(r)
             d == IF r.realtime THEN Plus(elapsed_ticks, r.realtime_constraint)
                  ELSE s.realtime_deadline
             ready == [s EXCEPT !.realtime_deadline = d]
  <2>1. Ranked(s) /\ s \in ThreadRecords /\ s.remaining_quantum > 0
    BY <1>1, ReadiedRanked DEF Ranked, Rankable
  <2>2. d \in Nat BY <1>1, <2>1, PlusType DEF ThreadRecords, IInv, LoopType
  <2>3. threads' = [threads EXCEPT ![t] = ready] /\ rq' = Enqueued(rq, t, ready, FALSE)
    BY <1>4 DEF MakeRunnable, Update
  <2> HIDE DEF s, d
  <2>4. SameRank(s, ready) /\ ready \in ThreadRecords BY <2>1, <2>2 DEF SameRank, ThreadRecords
  <2> HIDE DEF ready
  <2>5. Ranked(ready) BY <2>1, <2>4, SameRankKeeps
  <2>6. Keyed(rq') BY <1>1, <2>3, <2>4, <2>5, EnqueueKeyed
  <2> QED BY <2>3, <2>5, <2>6, UpdateRanks
<1> QED BY <1>2, <1>3, <1>4

LEMMA WakeRanks ==
    ASSUME IInv, Ranks, NEW t \in Threads, wake_thread(t)
    PROVE  Ranks'
<1>1. /\ t \in Registered /\ threads[t] \in ThreadRecords /\ Ranked(threads[t]) /\ Keyed(rq)
      /\ threads[t].remaining_quantum > 0
  BY DEF wake_thread, IInv, Core, Ranks, Ranked, Rankable
<1>2. CASE threads[t].state = "Running"
  <2> DEFINE new == [threads[t] EXCEPT !.wake_pending = TRUE]
  <2>1. threads' = [threads EXCEPT ![t] = new] /\ rq' = rq BY <1>2 DEF wake_thread, Update
  <2>2. SameRank(threads[t], new) BY <1>1 DEF SameRank, ThreadRecords
  <2> HIDE DEF new
  <2>3. Ranked(new) BY <1>1, <2>2, SameRankKeeps
  <2> QED BY <1>1, <2>1, <2>3, UpdateRanks
<1>3. CASE threads[t].state # "Running" BY <1>1, <1>3, MakeRunnableRanks DEF wake_thread
<1> QED BY <1>2, <1>3

LEMMA BlockRanks ==
    ASSUME IInv, Ranks, NEW t \in Threads, block(t)
    PROVE  Ranks'
<1> DEFINE r == threads[t]
           n == quantum_for(r)
           resumes == IF r.suspend_count # 0 THEN FALSE ELSE r.resume_runnable
           new == [r EXCEPT !.state = "Waiting", !.remaining_quantum = n,
                            !.computation_metered = 0, !.resume_runnable = resumes]
<1>1. /\ t \in Registered /\ r \in ThreadRecords /\ Ranked(r) /\ Keyed(rq) /\ RunQueueOK(rq)
      /\ (r.realtime => r.realtime_computation > 0)
  BY DEF block, IInv, Core, Ranks, Ranked, Rankable, BandOK
<1>2. n \in Nat /\ n > 0 BY <1>1, QuantumPositive
<1>3. threads' = [threads EXCEPT ![t] = new] /\ rq' = remove_from_queue(rq, t)
  BY DEF block, Update
<1> HIDE DEF n, resumes
<1>4. SameRank(r, new) BY <1>1, <1>2 DEF SameRank, ThreadRecords
<1> HIDE DEF new
<1>5. Ranked(new) BY <1>1, <1>4, SameRankKeeps
<1>6. Keyed(rq') BY <1>1, <1>3, RemoveKeyed
<1> QED BY <1>1, <1>3, <1>5, <1>6, UpdateRanks

LEMMA SuspendRanks ==
    ASSUME IInv, Ranks, NEW t \in Threads, suspend_thread(t)
    PROVE  Ranks'
<1> DEFINE r == threads[t]
           n == r.suspend_count + 1
           suspended == [r EXCEPT !.suspend_count = n]
           new == [suspended EXCEPT !.resume_runnable = r.state # "Waiting",
                                    !.state = "Waiting"]
<1>1. /\ t \in Registered /\ r \in ThreadRecords /\ Ranked(r) /\ Keyed(rq) /\ RunQueueOK(rq)
      /\ r.remaining_quantum > 0
  BY DEF suspend_thread, IInv, Core, Ranks, Ranked, Rankable
<1>2. /\ \/ threads' = [threads EXCEPT ![t] = suspended]
         \/ threads' = [threads EXCEPT ![t] = new]
      /\ rq' \in {rq, remove_from_queue(rq, t)}
  BY DEF suspend_thread, Update
<1> HIDE DEF n
<1>3. SameRank(r, suspended) /\ SameRank(r, new) BY <1>1 DEF SameRank, ThreadRecords
<1> HIDE DEF suspended, new
<1>4. Ranked(suspended) /\ Ranked(new) BY <1>1, <1>3, SameRankKeeps
<1>5. Keyed(rq') BY <1>1, <1>2, RemoveKeyed
<1> QED BY <1>1, <1>2, <1>4, <1>5, UpdateRanks

LEMMA ResumeRanks ==
    ASSUME IInv, Ranks, NEW t \in Threads, resume_thread(t)
    PROVE  Ranks'
<1> DEFINE n == threads[t].suspend_count - 1
           r == [threads[t] EXCEPT !.suspend_count = n]
           s == [r EXCEPT !.resume_runnable = FALSE]
           ready == Readied(s)
<1>1. /\ t \in Registered /\ threads[t] \in ThreadRecords /\ Ranked(threads[t])
      /\ Keyed(rq) /\ RunQueueOK(rq) /\ threads[t].remaining_quantum > 0
      /\ threads[t].suspend_count > 0
  BY DEF resume_thread, IInv, Core, Ranks, Ranked, Rankable
<1>2. \/ threads' = [threads EXCEPT ![t] = r] /\ rq' = rq
      \/ threads' = [threads EXCEPT ![t] = ready] /\ rq' = Enqueued(rq, t, ready, FALSE)
  BY DEF resume_thread, Update
<1>3. n \in Nat BY <1>1 DEF ThreadRecords
<1> HIDE DEF n
<1>4. /\ SameRank(threads[t], r) /\ SameRank(threads[t], s) /\ s \in ThreadRecords
  BY <1>1, <1>3 DEF SameRank, ThreadRecords
<1> HIDE DEF r, s
<1>5. Ranked(r) /\ Ranked(ready) /\ ready \in ThreadRecords
  BY <1>1, <1>4, SameRankKeeps, ReadiedRanked
<1> HIDE DEF ready
<1>6. Keyed(Enqueued(rq, t, ready, FALSE)) BY <1>1, <1>5, EnqueueKeyed
<1> QED BY <1>1, <1>2, <1>5, <1>6, UpdateRanks

-----------------------------------------------------------------------------
\* Policy calls: here the hypothesis on base priorities is used.
LEMMA LegacyPolicyRanks ==
    ASSUME KernelPriorities, IInv, Ranks, NEW t \in Threads, NEW timeshare \in Timeshares,
           NEW base \in BasePriorities, legacy_thread_policy(t, timeshare, base)
    PROVE  Ranks'
<1> DEFINE old == threads[t]
           changes == old.realtime \/ old.timeshare # timeshare
           r1 == [old EXCEPT !.realtime = FALSE, !.timeshare = timeshare,
                             !.remaining_quantum = QuantumTicks]
           first == IF changes THEN Recomputed(r1) ELSE old
           r2 == [first EXCEPT !.base_priority = base]
           second == IF base = old.base_priority THEN first ELSE Recomputed(r2)
           q1 == RequeuedIfMoved(rq, t, old, first)
           q2 == RequeuedIfMoved(q1, t, first, second)
<1>1. /\ t \in Registered /\ old \in ThreadRecords /\ timeshare \in BOOLEAN
      /\ QuantumTicks \in Nat /\ QuantumTicks > 0 /\ base \in Priorities
      /\ Ranked(old) /\ Keyed(rq) /\ RunQueueOK(rq) /\ base < RealtimeQueuePriority
  BY SchedulerAssumption, Bands DEF legacy_thread_policy, IInv, Core, Ranks
<1>2. threads' = [threads EXCEPT ![t] = second] /\ rq' = q2
  BY DEF legacy_thread_policy, Update
<1>3. r1 \in ThreadRecords /\ Rankable(r1)
  <2>1. /\ r1 \in ThreadRecords
        /\ r1.base_priority = old.base_priority
        /\ r1.saved_base_priority = old.saved_base_priority /\ ~r1.realtime
        /\ r1.saved_realtime = old.saved_realtime /\ r1.depressed = old.depressed
        /\ r1.realtime_computation = old.realtime_computation
        /\ r1.scheduled_priority = old.scheduled_priority
        /\ r1.remaining_quantum = QuantumTicks
    BY <1>1 DEF ThreadRecords
  <2> HIDE DEF r1
  <2> QED BY <1>1, <2>1 DEF Ranked, Rankable, BandOK
<1> HIDE DEF r1, changes
<1>4. first \in ThreadRecords /\ Ranked(first) BY <1>1, <1>3, RecomputedRanked
<1> HIDE DEF first
<1>5. r2 \in ThreadRecords /\ Rankable(r2)
  <2>1. /\ r2 \in ThreadRecords
        /\ r2.base_priority = base
        /\ r2.saved_base_priority = first.saved_base_priority /\ r2.realtime = first.realtime
        /\ r2.saved_realtime = first.saved_realtime /\ r2.depressed = first.depressed
        /\ r2.realtime_computation = first.realtime_computation
        /\ r2.scheduled_priority = first.scheduled_priority
        /\ r2.remaining_quantum = first.remaining_quantum
    BY <1>1, <1>4 DEF ThreadRecords
  <2> HIDE DEF r2
  <2> QED BY <1>1, <1>4, <2>1 DEF Ranked, Rankable, BandOK
<1> HIDE DEF r2
<1>6. second \in ThreadRecords /\ Ranked(second) BY <1>4, <1>5, RecomputedRanked
<1> HIDE DEF second
<1>7. Keyed(q1) /\ RunQueueOK(q1) BY <1>1, <1>4, RequeueKeyed
<1> HIDE DEF q1
<1>8. Keyed(q2) BY <1>1, <1>6, <1>7, RequeueKeyed
<1> QED BY <1>1, <1>2, <1>6, <1>8, UpdateRanks

LEMMA PolicyRanks ==
    ASSUME KernelPriorities, IInv, Ranks, NEW t \in Threads, Policy(t)
    PROVE  Ranks'
<1> DEFINE old == threads[t]
<1>1. /\ t \in Registered /\ old \in ThreadRecords /\ Ranked(old) /\ Rankable(old)
      /\ BandOK(old) /\ old.remaining_quantum > 0
  BY DEF Policy, set_base_priority, set_timeshare, legacy_thread_policy, set_realtime,
     bind_thread, IInv, Core, Ranks, Ranked, Rankable
<1>2. ASSUME NEW base \in BasePriorities, set_base_priority(t, base) PROVE Ranks'
  <2> DEFINE r == [old EXCEPT !.base_priority = base]
  <2>1. base \in Priorities /\ base < RealtimeQueuePriority BY SchedulerAssumption, Bands
  <2>2. /\ r \in ThreadRecords /\ r.base_priority = base
        /\ r.saved_base_priority = old.saved_base_priority /\ r.realtime = old.realtime
        /\ r.saved_realtime = old.saved_realtime /\ r.depressed = old.depressed
        /\ r.realtime_computation = old.realtime_computation
        /\ r.scheduled_priority = old.scheduled_priority
        /\ r.remaining_quantum = old.remaining_quantum
    BY <1>1, <2>1 DEF ThreadRecords
  <2>3. Recompute(t, r) BY <1>2 DEF set_base_priority
  <2> HIDE DEF r
  <2>4. Rankable(r) BY <1>1, <2>1, <2>2 DEF Rankable, BandOK
  <2> QED BY <1>1, <2>2, <2>3, <2>4, RecomputeRanks
<1>3. ASSUME NEW timeshare \in Timeshares, set_timeshare(t, timeshare) PROVE Ranks'
  <2> DEFINE r == [old EXCEPT !.realtime = FALSE, !.timeshare = timeshare,
                              !.remaining_quantum = QuantumTicks]
  <2>1. timeshare \in BOOLEAN /\ QuantumTicks \in Nat /\ QuantumTicks > 0
    BY SchedulerAssumption
  <2>2. /\ r \in ThreadRecords /\ r.base_priority = old.base_priority
        /\ r.saved_base_priority = old.saved_base_priority /\ ~r.realtime
        /\ r.saved_realtime = old.saved_realtime /\ r.depressed = old.depressed
        /\ r.realtime_computation = old.realtime_computation
        /\ r.scheduled_priority = old.scheduled_priority
        /\ r.remaining_quantum = QuantumTicks
    BY <1>1, <2>1 DEF ThreadRecords
  <2>3. Recompute(t, r) BY <1>3 DEF set_timeshare
  <2> HIDE DEF r
  <2>4. Rankable(r) BY <1>1, <2>1, <2>2 DEF Rankable, BandOK
  <2> QED BY <1>1, <2>2, <2>3, <2>4, RecomputeRanks
<1>4. ASSUME NEW rp \in RealtimeParameters, set_realtime(t, rp[1], rp[2]) PROVE Ranks'
  <2> DEFINE d == Plus(elapsed_ticks, rp[2])
             r == [old EXCEPT !.timeshare = FALSE, !.realtime = TRUE,
                              !.realtime_computation = rp[1],
                              !.realtime_constraint = rp[2],
                              !.realtime_deadline = d, !.remaining_quantum = rp[1]]
  <2>1. rp[1] \in Nat /\ rp[2] \in Nat /\ rp[1] > 0 BY SchedulerAssumption
  <2>2. d \in Nat BY <2>1, PlusType DEF IInv, LoopType
  <2>3. Recompute(t, r) BY <1>4 DEF set_realtime
  <2> HIDE DEF d
  <2>4. /\ r \in ThreadRecords /\ r.base_priority = old.base_priority
        /\ r.saved_base_priority = old.saved_base_priority /\ r.depressed = old.depressed
        /\ r.realtime_computation = rp[1] /\ r.remaining_quantum = rp[1]
        /\ r.scheduled_priority = old.scheduled_priority
    BY <1>1, <2>1, <2>2 DEF ThreadRecords
  <2> HIDE DEF r
  <2>5. Rankable(r) BY <1>1, <2>1, <2>4 DEF Rankable, BandOK
  <2> QED BY <1>1, <2>3, <2>4, <2>5, RecomputeRanks
<1>5. ASSUME NEW proc \in Bindings, bind_thread(t, proc) PROVE Ranks'
  <2> DEFINE r == [old EXCEPT !.bound_processor = proc]
  <2>1. proc \in QueueKeys BY SchedulerAssumption
  <2>2. SameRank(old, r) /\ r \in ThreadRecords BY <1>1, <2>1 DEF ThreadRecords, SameRank
  <2>3. threads' = [threads EXCEPT ![t] = r] /\ rq' = Requeued(rq, t, r)
    BY <1>5 DEF bind_thread, Update
  <2> HIDE DEF r
  <2>4. Ranked(r) BY <1>1, <2>2, SameRankKeeps
  <2>5. Keyed(rq') BY <2>2, <2>3, <2>4, RequeueKeyed DEF IInv, Core, Ranks
  <2> QED BY <1>1, <2>3, <2>4, <2>5, UpdateRanks
<1> QED BY <1>2, <1>3, <1>4, <1>5, LegacyPolicyRanks DEF Policy

-----------------------------------------------------------------------------
\* The end of a depression leaves a record that is Ranked again.
LEMMA RestoredRanked ==
    ASSUME NEW r \in ThreadRecords, Ranked(r)
    PROVE  Ranked(Restored(r)) /\ Restored(r) \in ThreadRecords
<1> DEFINE s == [r EXCEPT !.depressed = FALSE, !.depression_deadline = NoDeadline]
<1>1. /\ s \in ThreadRecords /\ s.base_priority = r.base_priority
      /\ s.saved_base_priority = r.saved_base_priority /\ s.realtime = r.realtime
      /\ s.saved_realtime = r.saved_realtime /\ ~s.depressed
      /\ s.realtime_computation = r.realtime_computation
      /\ s.scheduled_priority = r.scheduled_priority
      /\ s.remaining_quantum = r.remaining_quantum
  BY DEF ThreadRecords, OptionalTick, NoDeadline
<1>2. Restored(r) = IF r.depressed THEN Recomputed(s) ELSE r BY DEF Restored
<1> HIDE DEF s
<1>3. Rankable(s) BY <1>1 DEF Ranked, Rankable, BandOK
<1> QED BY <1>1, <1>2, <1>3, RecomputedRanked

LEMMA DispatchRanks ==
    ASSUME IInv, Ranks, NEW t \in Threads, NEW proc \in Processors, rq.place[t].queued,
           Dispatch(t, proc)
    PROVE  Ranks'
<1> DEFINE old == threads[t]
           r == Restored(old)
           renew == r.timeshare /\ (r.remaining_timeslices = 0 \/ r.timeslice_processor # proc)
           slices == IF renew THEN timeshare_quanta(remove_from_queue(rq, t))
                              ELSE r.remaining_timeslices
           place == IF renew THEN proc ELSE r.timeslice_processor
           shift == processor_set_priority_shift(active_timeshare_count)
           new == [r EXCEPT !.state = "Running", !.remaining_timeslices = slices,
                            !.timeslice_processor = place, !.priority_usage_shift = shift]
<1>1. /\ t \in Registered /\ old \in ThreadRecords /\ Ranked(old)
      /\ Keyed(rq) /\ RunQueueOK(rq)
  BY DEF IInv, Core, Ranks
<1>2. threads' = [threads EXCEPT ![t] = new] /\ rq' = remove_from_queue(rq, t)
  BY DEF Dispatch, Update
<1>3. Ranked(r) /\ r \in ThreadRecords /\ r.remaining_quantum > 0
  BY <1>1, RestoredRanked DEF Ranked, Rankable
<1> HIDE DEF r, slices, place, shift, renew
<1>4. SameRank(r, new) BY <1>3 DEF SameRank, ThreadRecords
<1> HIDE DEF new
<1>5. Ranked(new) BY <1>3, <1>4, SameRankKeeps
<1>6. Keyed(rq') BY <1>1, <1>2, RemoveKeyed
<1> QED BY <1>1, <1>2, <1>5, <1>6, UpdateRanks

\* Charging a slice may leave no time, but nothing out of its band: the fail-safe
\* demotion is the one change of priority among them.
LEMMA AccountedRanked ==
    ASSUME NEW r \in ThreadRecords, Ranked(r), NEW ticks \in Nat, scheduler_tick \in Nat
    PROVE  /\ Accounted(r, ticks) \in ThreadRecords
           /\ BandOK(Accounted(r, ticks)) /\ InBand(Accounted(r, ticks))
<1> DEFINE usage == IF r.priority_usage_shift # NoShift /\ r.timeshare
                    THEN Plus(r.scheduling_usage, ticks) ELSE r.scheduling_usage
           quantum == Minus(r.remaining_quantum, ticks)
           metered == IF r.timeshare THEN r.computation_metered
                                     ELSE Plus(r.computation_metered, ticks)
           c == [r EXCEPT !.scheduling_usage = usage, !.remaining_quantum = quantum,
                          !.computation_metered = metered]
           tick == Plus(scheduler_tick, FailsafeReleaseTicks)
           base == IF c.realtime THEN 0 ELSE c.base_priority
           f == [c EXCEPT
                   !.saved_base_priority = c.base_priority, !.saved_timeshare = c.timeshare,
                   !.saved_realtime = c.realtime,
                   !.realtime = FALSE, !.base_priority = base,
                   !.timeshare = TRUE, !.failsafe = TRUE, !.failsafe_release_tick = tick]
           s == Accounted(r, ticks)
<1>0. s \in ThreadRecords BY AccountedType DEF AccountedLike
<1>1. s = IF Unsafe(c) THEN Recomputed(f) ELSE c
  BY DEF Accounted, Charged, apply_failsafe
<1> HIDE DEF s
<1>2. usage \in Nat /\ quantum \in Nat /\ metered \in Nat
  BY PlusType, MinusType DEF ThreadRecords
<1> HIDE DEF usage, quantum, metered
<1>3. /\ c \in ThreadRecords /\ c.base_priority = r.base_priority
      /\ c.saved_base_priority = r.saved_base_priority /\ c.realtime = r.realtime
      /\ c.saved_realtime = r.saved_realtime /\ c.depressed = r.depressed
      /\ c.realtime_computation = r.realtime_computation
      /\ c.scheduled_priority = r.scheduled_priority
  BY <1>2 DEF ThreadRecords
<1> HIDE DEF c
<1>4. BandOK(c) /\ InBand(c) BY <1>3 DEF Ranked, Rankable, BandOK, InBand
<1>5. tick \in Nat /\ base \in Priorities /\ base < RealtimeQueuePriority
  <2>1. tick \in Nat BY SchedulerAssumption, PlusType
  <2>2. 0 \in Priorities BY RunQueueAssumption DEF Priorities
  <2> QED BY <1>3, <1>4, <2>1, <2>2, Bands DEF BandOK, ThreadRecords
<1> HIDE DEF tick, base
<1>6. /\ f \in ThreadRecords /\ f.base_priority = base
      /\ f.saved_base_priority = c.base_priority /\ ~f.realtime
      /\ f.saved_realtime = c.realtime /\ f.depressed = c.depressed
      /\ f.realtime_computation = c.realtime_computation
      /\ f.scheduled_priority = c.scheduled_priority
  <2>1. f \in ThreadRecords BY <1>3, <1>5 DEF ThreadRecords
  <2> QED BY <1>3, <2>1 DEF ThreadRecords
<1> HIDE DEF f
<1>7. BandOK(f) BY <1>4, <1>5, <1>6 DEF BandOK
<1>8. BandOK(s) /\ InBand(s) BY <1>1, <1>4, <1>6, <1>7, RecomputedInBand
<1> QED BY <1>0, <1>8 DEF s

\* Whatever the completion, the thread leaves the slice with time to run.
LEMMA AfterSliceRanked ==
    ASSUME NEW r \in ThreadRecords, BandOK(r), InBand(r), NEW completion \in Completions
    PROVE  Ranked(AfterSlice(r, completion).record)
<1> DEFINE q == quantum_for(r)
           metered == IF completion = "Yield" THEN 0 ELSE r.computation_metered
           s == AfterSlice(r, completion).record
           turned == [r EXCEPT !.wake_pending = FALSE, !.computation_metered = metered,
                               !.remaining_quantum = q, !.state = "Runnable"]
           rotated == Recomputed(turned)
           keeps == completion # "Yield" /\ r.timeshare /\ r.remaining_timeslices > 1
           expired == r.remaining_quantum = 0
           fewer == rotated.remaining_timeslices - 1
<1>1. q \in Nat /\ q > 0 BY QuantumPositive DEF BandOK
<1>2. CASE completion = "Block"
  <2> DEFINE b == [[r EXCEPT !.remaining_quantum = q,
                             !.remaining_timeslices = 0, !.timeslice_processor = PSet]
                   EXCEPT !.wake_pending = FALSE,
                          !.state = IF r.wake_pending THEN "Runnable" ELSE "Waiting"]
  <2>1. s = b BY <1>2 DEF AfterSlice
  <2> HIDE DEF q, s
  <2>2. /\ b.base_priority = r.base_priority
        /\ b.saved_base_priority = r.saved_base_priority /\ b.realtime = r.realtime
        /\ b.saved_realtime = r.saved_realtime /\ b.depressed = r.depressed
        /\ b.realtime_computation = r.realtime_computation
        /\ b.scheduled_priority = r.scheduled_priority /\ b.remaining_quantum = q
    BY DEF ThreadRecords
  <2> HIDE DEF b
  <2>3. Ranked(b) BY <1>1, <2>2 DEF Ranked, Rankable, BandOK, InBand
  <2> QED BY <2>1, <2>3 DEF s
<1>3. CASE completion # "Block" /\ (completion = "Yield" \/ expired)
  <2> DEFINE a == [rotated EXCEPT !.remaining_timeslices = fewer]
             b == [rotated EXCEPT !.remaining_timeslices = 0, !.timeslice_processor = PSet]
  <2>1. s = IF keeps THEN a ELSE b BY <1>3 DEF AfterSlice
  <2>m. metered \in Nat BY DEF ThreadRecords
  <2> HIDE DEF q, s, metered, fewer, keeps
  <2>2. /\ turned \in ThreadRecords /\ turned.base_priority = r.base_priority
        /\ turned.saved_base_priority = r.saved_base_priority
        /\ turned.realtime = r.realtime
        /\ turned.saved_realtime = r.saved_realtime /\ turned.depressed = r.depressed
        /\ turned.realtime_computation = r.realtime_computation
        /\ turned.scheduled_priority = r.scheduled_priority /\ turned.remaining_quantum = q
    BY <1>1, <2>m DEF ThreadRecords, States
  <2> HIDE DEF turned
  <2>3. Rankable(turned) BY <1>1, <2>2 DEF Rankable, BandOK
  <2>4. Ranked(rotated) /\ rotated \in ThreadRecords BY <2>2, <2>3, RecomputedRanked
  <2> HIDE DEF rotated
  <2>5. SameRank(rotated, a) /\ SameRank(rotated, b)
    <3>1. rotated.remaining_quantum > 0 BY <2>4 DEF Ranked, Rankable
    <3> QED BY <2>4, <3>1 DEF SameRank, ThreadRecords
  <2> HIDE DEF a, b
  <2>6. Ranked(s) BY <2>1, <2>4, <2>5, SameRankKeeps
  <2> QED BY <2>6 DEF s
<1>4. CASE completion # "Block" /\ ~(completion = "Yield" \/ expired)
  <2> DEFINE b == [r EXCEPT !.wake_pending = FALSE, !.state = "Runnable"]
  <2>1. s = b BY <1>4 DEF AfterSlice
  <2>2. r.remaining_quantum > 0 BY <1>4 DEF ThreadRecords
  <2>3. SameRank(r, b) /\ Ranked(r) BY <2>2 DEF SameRank, ThreadRecords, Ranked, Rankable
  <2> HIDE DEF b, s
  <2>4. Ranked(s) BY <2>1, <2>3, SameRankKeeps
  <2> QED BY <2>4 DEF s
<1> QED BY <1>2, <1>3, <1>4

LEMMA CompleteRanks ==
    ASSUME IInv, Ranks, NEW t \in Registered, NEW r \in ThreadRecords, Ranked(r),
           NEW ticks \in TickCounts, NEW completion \in Completions,
           CompleteRunning(t, r, ticks, completion)
    PROVE  Ranks'
<1> DEFINE charged == Accounted(r, ticks)
           after == AfterSlice(charged, completion)
           new == after.record
<1>1. ticks \in Nat /\ scheduler_tick \in Nat BY SchedulerAssumption DEF IInv, LoopType
<1>2. charged \in ThreadRecords /\ BandOK(charged) /\ InBand(charged)
  BY <1>1, AccountedRanked
<1>3. /\ threads' = [threads EXCEPT ![t] = new]
      /\ rq' \in {rq, Enqueued(rq, t, new, after.front)}
  BY DEF CompleteRunning, Update
<1> HIDE DEF charged
<1>4. Ranked(new) /\ new \in ThreadRecords
  BY <1>2, AfterSliceRanked, AfterSliceType DEF SliceLike
<1> HIDE DEF after, new
<1>5. t \in Threads /\ Keyed(rq) /\ RunQueueOK(rq) BY DEF IInv, Core, Ranks
<1>6. Keyed(Enqueued(rq, t, new, after.front)) BY <1>4, <1>5, EnqueueKeyed
<1>7. Keyed(rq') BY <1>3, <1>5, <1>6
<1> QED BY <1>3, <1>4, <1>7, UpdateRanks

LEMMA CompleteSliceRanks ==
    ASSUME IInv, Ranks, NEW t \in Threads, NEW ticks \in TickCounts,
           NEW completion \in Completions, complete_slice(t, ticks, completion)
    PROVE  Ranks'
<1>1. t \in Registered /\ threads[t] \in ThreadRecords /\ Ranked(threads[t])
  BY DEF complete_slice, Ends, IInv, Core, Ranks
<1>2. CASE threads[t].state = "Running"
  <2>1. CompleteRunning(t, threads[t], ticks, completion) BY <1>2 DEF complete_slice
  <2> QED BY <1>1, <2>1, CompleteRanks
<1>3. CASE threads[t].state # "Running"
  <2>1. UNCHANGED <<threads, rq>> BY <1>3 DEF complete_slice
  <2> QED BY <2>1 DEF Ranks, Registered
<1> QED BY <1>2, <1>3

LEMMA DepressRanks ==
    ASSUME IInv, Ranks, NEW t \in Threads, NEW ticks \in TickCounts,
           NEW duration \in DepressDurations, depress(t, ticks, duration)
    PROVE  Ranks'
<1> DEFINE old == threads[t]
           d0 == IF duration # 0 THEN Plus(elapsed_ticks, duration) ELSE NoDeadline
           deep == [old EXCEPT !.depressed = TRUE, !.scheduled_priority = 0,
                               !.depression_deadline = d0]
           r == Depressed(old, duration)
<1>1. /\ t \in Registered /\ old \in ThreadRecords /\ Ranked(old) /\ duration \in Nat
      /\ Keyed(rq) /\ RunQueueOK(rq)
  BY SchedulerAssumption DEF depress, Ends, IInv, Core, Ranks
<1>2. r = IF old.depressed THEN old ELSE deep BY DEF Depressed
<1>3. r \in ThreadRecords BY <1>1, DepressedType DEF SameButPriority, IInv, LoopType
<1> HIDE DEF d0, r
<1>4. /\ deep.base_priority = old.base_priority
      /\ deep.saved_base_priority = old.saved_base_priority /\ deep.realtime = old.realtime
      /\ deep.saved_realtime = old.saved_realtime
      /\ deep.realtime_computation = old.realtime_computation
      /\ deep.scheduled_priority = 0 /\ deep.remaining_quantum = old.remaining_quantum
  BY <1>1 DEF ThreadRecords
<1> HIDE DEF deep
<1>5. Ranked(deep)
  <2>1. 0 < RealtimeQueuePriority /\ RealtimeQueuePriority \in Nat BY Bands
  <2> QED BY <1>1, <1>4, <2>1 DEF Ranked, Rankable, BandOK, InBand
<1>6. Ranked(r) BY <1>1, <1>2, <1>5
<1>7. CASE old.state = "Running"
  <2>1. CompleteRunning(t, r, ticks, "Yield") BY <1>7 DEF depress, r
  <2> QED BY <1>1, <1>3, <1>6, <2>1, CompleteRanks DEF Completions
<1>8. CASE old.state # "Running"
  <2>1. /\ threads' = [threads EXCEPT ![t] = r] /\ rq' \in {rq, Requeued(rq, t, r)}
    BY <1>8 DEF depress, Update, r
  <2>2. Keyed(rq') BY <1>1, <1>3, <1>6, <2>1, RequeueKeyed
  <2> QED BY <1>1, <1>6, <2>1, <2>2, UpdateRanks
<1> QED BY <1>7, <1>8

LEMMA TerminateRanks ==
    ASSUME IInv, Ranks, NEW t \in Threads, NEW ticks, NEW ending,
           terminate_slice(t, ticks, ending)
    PROVE  Ranks'
<1>1. t \in Registered /\ rq' = rq BY DEF terminate_slice, Ends
<1>2. CASE threads[t].state = "Running"
  <2>1. threads' = Without(t) BY <1>2 DEF terminate_slice
  <2> QED BY <1>1, <2>1, EraseRanks
<1>3. CASE threads[t].state # "Running"
  <2>1. threads' = threads BY <1>3 DEF terminate_slice
  <2> QED BY <1>1, <2>1 DEF Ranks, Registered
<1> QED BY <1>2, <1>3

\* Scheduler time.
LEMMA ExpireRanks ==
    ASSUME IInv, Ranks, expire_depressions
    PROVE  Ranks'
<1> DEFINE t == FirstOf(depression_order)[2]
           r == Restored(threads[t])
<1>1. \/ UNCHANGED <<threads, rq>>
      \/ /\ t \in Registered /\ threads' = [threads EXCEPT ![t] = r]
         /\ rq' = RequeuedIfMoved(rq, t, threads[t], r)
  BY DEF expire_depressions, Update
<1> HIDE DEF t
<1>2. CASE UNCHANGED <<threads, rq>> BY <1>2 DEF Ranks, Registered
<1>3. CASE ~UNCHANGED <<threads, rq>>
  <2>1. /\ t \in Registered /\ t \in Threads /\ threads[t] \in ThreadRecords
        /\ Ranked(threads[t]) /\ Keyed(rq) /\ RunQueueOK(rq)
    BY <1>1, <1>3 DEF IInv, Core, Ranks
  <2>2. Ranked(r) /\ r \in ThreadRecords BY <2>1, RestoredRanked
  <2> HIDE DEF r
  <2>3. Keyed(rq') BY <1>1, <1>3, <2>1, <2>2, RequeueKeyed
  <2> QED BY <1>1, <1>3, <2>1, <2>2, <2>3, UpdateRanks
<1> QED BY <1>2, <1>3

LEMMA ReleaseRanks ==
    ASSUME IInv, Ranks, release_failsafe
    PROVE  Ranks'
<1> DEFINE t == FirstOf(failsafe_order)[2]
           r == threads[t]
           back == [r EXCEPT !.base_priority = r.saved_base_priority,
                             !.timeshare = r.saved_timeshare,
                             !.realtime = r.saved_realtime,
                             !.failsafe = FALSE, !.failsafe_release_tick = 0,
                             !.computation_metered = 0]
           n == quantum_for(back)
           new == [back EXCEPT !.remaining_quantum = n]
<1>1. \/ UNCHANGED <<threads, rq>>
      \/ t \in Registered /\ Recompute(t, new)
  BY DEF release_failsafe
<1> HIDE DEF t
<1>2. CASE UNCHANGED <<threads, rq>> BY <1>2 DEF Ranks, Registered
<1>3. CASE t \in Registered /\ Recompute(t, new)
  <2>1. /\ t \in Threads /\ r \in ThreadRecords /\ Ranked(r) BY <1>3 DEF IInv, Core, Ranks
  <2> HIDE DEF r
  <2>2. /\ back \in ThreadRecords /\ back.base_priority = r.saved_base_priority
        /\ back.saved_base_priority = r.saved_base_priority
        /\ back.realtime = r.saved_realtime
        /\ back.saved_realtime = r.saved_realtime /\ back.depressed = r.depressed
        /\ back.realtime_computation = r.realtime_computation
        /\ back.scheduled_priority = r.scheduled_priority
    BY <2>1 DEF ThreadRecords
  <2>3. n \in Nat /\ n > 0
    <3>1. back.realtime => back.realtime_computation > 0
      BY <2>1, <2>2 DEF Ranked, Rankable, BandOK
    <3> HIDE DEF back
    <3> QED BY <2>2, <3>1, QuantumPositive
  <2> HIDE DEF n, back
  <2>4. /\ new \in ThreadRecords /\ new.base_priority = back.base_priority
        /\ new.saved_base_priority = back.saved_base_priority
        /\ new.realtime = back.realtime
        /\ new.saved_realtime = back.saved_realtime /\ new.depressed = back.depressed
        /\ new.realtime_computation = back.realtime_computation
        /\ new.scheduled_priority = back.scheduled_priority
        /\ new.remaining_quantum = n
    BY <2>2, <2>3 DEF ThreadRecords
  <2> HIDE DEF new
  <2>5. Rankable(new) BY <2>1, <2>2, <2>3, <2>4 DEF Ranked, Rankable, BandOK
  <2> QED BY <1>3, <2>4, <2>5, RecomputeRanks
<1> QED BY <1>1, <1>2, <1>3

LEMMA AgeRanks ==
    ASSUME IInv, Ranks, NEW t \in Threads, age_priorities(t)
    PROVE  Ranks'
<1> DEFINE old == threads[t]
           usage == DecayedUsage(old.scheduling_usage, tick_steps)
           r == [old EXCEPT !.priority_usage_shift = age_shift, !.scheduling_usage = usage]
<1>1. /\ t \in Registered /\ old \in ThreadRecords /\ Recompute(t, r) /\ Rankable(old)
      /\ old.remaining_quantum > 0
  BY DEF age_priorities, IInv, Core, LoopOK, Ranks, Ranked, Rankable
<1>2. usage \in Nat /\ age_shift \in OptionalTick
  BY <1>1, DecayedUsageType DEF IInv, LoopType, ThreadRecords
<1> HIDE DEF usage
<1>3. r \in ThreadRecords /\ SameRank(old, r) BY <1>1, <1>2 DEF ThreadRecords, SameRank
<1> HIDE DEF r
<1>4. Rankable(r) BY <1>1, <1>3, SameRankKeeps
<1> QED BY <1>1, <1>3, <1>4, RecomputeRanks

-----------------------------------------------------------------------------
LEMMA LoopRanks == ASSUME Ranks, UNCHANGED <<threads, rq>> PROVE Ranks'
  BY DEF Ranks, Registered

LEMMA RanksStep ==
    ASSUME KernelPriorities, IInv, Ranks, Next
    PROVE  Ranks'
<1>1. ASSUME NEW t \in Threads, Call(t) PROVE Ranks'
  <2>1. ASSUME NEW base \in TaskPriorities, NEW runnable \in BOOLEAN,
               register_thread(t, base, runnable)
        PROVE  Ranks'
    BY <2>1, AddRanks DEF register_thread
  <2>2. CASE remove_thread(t) BY <2>2, EraseRanks DEF remove_thread, Remove
  <2> QED BY <1>1, <2>1, <2>2, WakeRanks, BlockRanks, SuspendRanks, ResumeRanks DEF Call
<1>2. ASSUME NEW t \in Threads, make_runnable(t) PROVE Ranks'
  BY <1>2, MakeRunnableRanks DEF make_runnable
<1>3. ASSUME NEW t \in Threads, Completion(t) PROVE Ranks'
  BY <1>3, CompleteSliceRanks, DepressRanks, TerminateRanks DEF Completion, Completions
<1>4. ASSUME Removal PROVE Ranks'
  <2>1. ASSUME NEW t \in Threads, remove_process(ProcessOf[t]) PROVE Ranks'
    BY <2>1, LoopRanks DEF remove_process, schedulerVars
  <2>2. ASSUME NEW t \in Threads, remove_process_step(t) PROVE Ranks'
    <3>1. t \in Registered BY <2>2 DEF remove_process_step, IInv, LoopOK
    <3> QED BY <2>2, <3>1, EraseRanks DEF remove_process_step, Remove
  <2>3. ASSUME NEW base \in TaskPriorities, remove_process_done(base) PROVE Ranks'
    <3>1. CASE exec_thread = NoThread
      BY <2>3, <3>1, LoopRanks DEF remove_process_done, schedulerVars
    <3>2. CASE exec_thread # NoThread
      <4>1. exec_thread \in Threads /\ exec_thread \notin Registered
        BY <2>3, <3>2 DEF remove_process_done, LoopOK, IInv, LoopType
      <4>2. /\ threads' = [u \in Registered \cup {exec_thread} |->
                              IF u = exec_thread THEN NewRecord(base, TRUE) ELSE threads[u]]
            /\ rq' = Enqueued(rq, exec_thread, NewRecord(base, TRUE), FALSE)
        BY <2>3, <3>2 DEF remove_process_done
      <4> QED BY <4>1, <4>2, AddRanks
    <3> QED BY <3>1, <3>2
  <2> QED BY <1>4, <2>1, <2>2, <2>3 DEF Removal
<1>5. CASE skip_slice BY <1>5, LoopRanks DEF skip_slice, schedulerVars
<1>6. ASSUME Choose PROVE Ranks'
  <2>1. CASE begin_choosing BY <2>1, LoopRanks DEF begin_choosing, schedulerVars
  <2>2. ASSUME NEW proc \in Processors, choose_next(proc) PROVE Ranks'
    <3> DEFINE c == selected_run_queue(rq, proc)
    <3>1. c \in QueueKeys BY DEF selected_run_queue, QueueKeys
    <3>2. ~PeekThrows(rq, c) /\ Dispatch(peek_highest(rq, c), proc) BY <2>2 DEF choose_next
    <3> HIDE DEF c
    <3>3. peek_highest(rq, c) \in Threads /\ rq.place[peek_highest(rq, c)].queued
      BY <3>1, <3>2, PeekHighest DEF IInv, Core
    <3>4. PICK t \in Threads : t = peek_highest(rq, c) BY <3>3
    <3> QED BY <3>2, <3>3, <3>4, DispatchRanks
  <2>3. ASSUME NEW proc \in Processors, choose_nothing(proc) PROVE Ranks'
    BY <2>3, LoopRanks DEF choose_nothing, schedulerVars
  <2>4. ASSUME NEW t \in Threads, choose_preferred(t) PROVE Ranks'
    <3>1. 0 \in Processors BY RunQueueAssumption DEF Processors
    <3> QED BY <2>4, <3>1, DispatchRanks DEF choose_preferred
  <2>5. CASE end_choosing BY <2>5, LoopRanks DEF end_choosing, schedulerVars
  <2> QED BY <1>6, <2>1, <2>2, <2>3, <2>4, <2>5 DEF Choose
<1>7. ASSUME Time PROVE Ranks'
  <2>1. CASE advance_time BY <2>1, LoopRanks DEF advance_time, schedulerVars
  <2>2. CASE expire_depressions_done
    BY <2>2, LoopRanks DEF expire_depressions_done, schedulerVars
  <2>3. CASE release_failsafe_done BY <2>3, LoopRanks DEF release_failsafe_done, schedulerVars
  <2>4. CASE age_priorities_done BY <2>4, LoopRanks DEF age_priorities_done, schedulerVars
  <2> QED BY <1>7, <2>1, <2>2, <2>3, <2>4, ExpireRanks, ReleaseRanks, AgeRanks DEF Time
<1> QED BY <1>1, <1>2, <1>3, <1>4, <1>5, <1>6, <1>7, PolicyRanks DEF Next

LEMMA RanksInit == Init => Ranks
<1> SUFFICES ASSUME Init PROVE Ranks OBVIOUS
<1> DEFINE r == NewRecord(DefaultBasePriority, TRUE)
<1>1. /\ Registered = {InitialThread} /\ threads[InitialThread] = r
      /\ rq = Enqueued(EmptyRunQueues, InitialThread, r, FALSE)
  BY DEF Init, Registered
<1>2. Ranked(r) /\ r \in ThreadRecords BY NewRecordRanked
<1>3. InitialThread \in Threads BY SchedulerAssumption
<1>4. RunQueueOK(EmptyRunQueues) BY EmptyQueuesAgree
<1>5. Keyed(EmptyRunQueues) BY DEF Keyed, EmptyRunQueues, NotQueued
<1> HIDE DEF r
<1>6. Keyed(rq) BY <1>1, <1>2, <1>3, <1>4, <1>5, EnqueueKeyed
<1> QED BY <1>1, <1>2, <1>6 DEF Ranks

\* The inductive invariant of the priorities: every thread below the real-time band
\* unless it is real-time, every place of that band with a key, and no thread between
\* slices without time to run.
THEOREM RanksInvariant == KernelPriorities /\ Spec => []Ranks
<1> SUFFICES ASSUME KernelPriorities PROVE Spec => []Ranks OBVIOUS
<1>1. Init => Ranks BY RanksInit
<1>2. IInv /\ Ranks /\ [Next]_vars => Ranks'
  <2> SUFFICES ASSUME IInv, Ranks, [Next]_vars PROVE Ranks' OBVIOUS
  <2>1. CASE Next BY <2>1, RanksStep
  <2>2. CASE UNCHANGED vars BY <2>2, LoopRanks DEF vars, schedulerVars
  <2> QED BY <2>1, <2>2
<1> QED BY <1>1, <1>2, Invariant, PTL DEF Spec

\* With keys and band in step, peek_highest finds its caches as it expects them.
LEMMA PeekFinds ==
    ASSUME NEW q, RunQueueOK(q), Keyed(q), NEW proc \in Processors, HasCandidate(q, proc)
    PROVE  LET c == selected_run_queue(q, proc) IN
           /\ c \in QueueKeys /\ ~PeekThrows(q, c)
           /\ q.high_queue[c] <= RealtimeQueuePriority
<1> DEFINE c == selected_run_queue(q, proc)
           p == q.high_queue[c]
<1>1. PSet \in QueueKeys /\ proc \in QueueKeys /\ c \in {PSet, proc} /\ c \in QueueKeys
  BY DEF QueueKeys, selected_run_queue
<1>2. PICK d \in {PSet, proc} : q.count[d] # 0 BY DEF HasCandidate
<1>3. q.high_queue[d] <= p BY <1>2, SelectedHighest
<1> HIDE DEF c
<1>4. q.high_queue[d] \in Priorities
  <2>1. IsFiniteSet(Queued(q, d)) BY RunQueueAssumption, FS_Subset DEF Queued
  <2>2. Cardinality(Queued(q, d)) # 0 BY <1>1, <1>2 DEF RunQueueOK, CountsExact
  <2>3. PICK u \in Queued(q, d) : TRUE BY <2>1, <2>2, FS_EmptySet
  <2>4. q.place[u].priority <= q.high_queue[d] /\ q.place[u].priority \in Priorities
    BY <2>3, QueuedBelowHigh DEF Queued
  <2>5. q.high_queue[d] \in Priorities \cup {NoQueue} BY <1>1, <1>2 DEF RunQueueOK, RunQueueType
  <2>6. Priorities \subseteq Nat BY Bands
  <2>7. q.high_queue[d] # NoQueue
    <3>1. SUFFICES ASSUME q.high_queue[d] = -1 PROVE FALSE BY DEF NoQueue
    <3>2. q.place[u].priority \in Nat /\ q.place[u].priority <= -1 BY <2>4, <2>6, <3>1
    <3> QED BY <3>2
  <2> QED BY <2>5, <2>7
<1>5. p \in Priorities
  <2>1. p \in Priorities \cup {NoQueue} BY <1>1 DEF RunQueueOK, RunQueueType
  <2>2. Priorities \subseteq Nat BY Bands
  <2> HIDE DEF p
  <2>3. p # NoQueue
    <3>1. SUFFICES ASSUME p = -1 PROVE FALSE BY DEF NoQueue
    <3>2. q.high_queue[d] \in Nat /\ q.high_queue[d] <= -1 BY <1>3, <1>4, <2>2, <3>1 DEF p
    <3> QED BY <3>2
  <2> QED BY <2>1, <2>3
<1>6. p \in q.bitmap[c] BY <1>1, <1>5, Bands DEF RunQueueOK, HighQueueExact, NoQueue
<1>7. q.queues[c][p] # << >> BY <1>1, <1>5, <1>6 DEF RunQueueOK, BitmapExact
<1>8. PICK u \in Threads : u \in Queued(q, c) /\ q.place[u].priority = p
  <2> DEFINE list == q.queues[c][p]
  <2>1. list \in Seq(Threads) BY <1>1, <1>5 DEF RunQueueOK, RunQueueType
  <2>2. 1 \in 1 .. Len(list) /\ list[1] \in Threads BY <1>7, <2>1
  <2>3. /\ q.place[list[1]].queued /\ q.place[list[1]].processor = c
        /\ q.place[list[1]].priority = p
    <3>1. PICK k \in Priorities : k = p BY <1>5
    <3>2. \A i \in 1 .. Len(q.queues[c][k]) :
              /\ q.place[q.queues[c][k][i]].queued
              /\ q.place[q.queues[c][k][i]].processor = c
              /\ q.place[q.queues[c][k][i]].priority = k
      BY <1>1 DEF RunQueueOK, ListsMatchPlaces
    <3>3. list = q.queues[c][k] BY <3>1
    <3> HIDE DEF list, p
    <3> QED BY <2>2, <3>1, <3>2, <3>3
  <2> QED BY <2>2, <2>3 DEF Queued
<1> HIDE DEF p
<1>9. p <= RealtimeQueuePriority BY <1>8 DEF Keyed, Queued
<1>10. CASE p >= RealtimeQueuePriority
  <2>1. p = RealtimeQueuePriority BY <1>5, <1>9, <1>10, Bands
  <2>2. q.place[u].key # NoKey BY <1>8, <2>1 DEF Keyed, Queued
  <2>3. q.realtime_order[c] # {}
    <3>1. q.realtime_order[c] =
              {<<q.place[t].key, t>> : t \in {v \in Queued(q, c) : q.place[v].key # NoKey}}
      BY <1>1 DEF RunQueueOK, RealtimeOrderExact
    <3>2. u \in {v \in Queued(q, c) : q.place[v].key # NoKey} BY <1>8, <2>2
    <3>3. <<q.place[u].key, u>> \in q.realtime_order[c] BY <3>1, <3>2
    <3> QED BY <3>3
  <2>4. q.realtime_order[c] \in SUBSET (Nat \X Threads) BY <1>1 DEF RunQueueOK, RunQueueType
  <2>5. \E e \in q.realtime_order[c] : \A o \in q.realtime_order[c] : Before(e, o)
    BY <2>3, <2>4, FirstEntry
  <2>6. PICK v \in Threads : v \in Queued(q, c) /\ q.place[v].key # NoKey /\ FirstRealtime(q, c) = v
    <3> DEFINE first == CHOOSE k \in q.realtime_order[c] : \A o \in q.realtime_order[c] : Before(k, o)
    <3>1. first \in q.realtime_order[c] BY <2>5
    <3>2. FirstRealtime(q, c) = first[2] BY DEF FirstRealtime
    <3> HIDE DEF first
    <3> QED BY <1>1, <3>1, <3>2 DEF RunQueueOK, RealtimeOrderExact, Queued
  <2>7. q.place[v].queued /\ q.place[v].priority = p
    BY <2>1, <2>6 DEF Keyed, Queued
  <2>8. ~PeekThrows(q, c) BY <1>10, <2>3, <2>6, <2>7 DEF PeekThrows, p
  <2> QED BY <1>1, <1>9, <2>8 DEF c, p
<1>11. CASE ~(p >= RealtimeQueuePriority)
  <2>1. p >= 0 BY <1>5, Bands
  <2>2. ~(p < 0) BY <1>5, <2>1, Bands
  <2>3. ~PeekThrows(q, c) BY <1>7, <1>11, <2>2 DEF PeekThrows, p
  <2> QED BY <1>1, <1>9, <2>3 DEF c, p
<1> QED BY <1>10, <1>11

\* The orders that begin_tick reads name the threads they should, and none of the
\* logic_errors of choose_next and preemption_for is ever thrown, as long as no policy
\* call puts the base priority of a thread into the real-time band.
THEOREM CachesHold == KernelPriorities /\ Spec => []CachesExact
<1>1. IInv /\ Ranks => NeverThrows
  <2> SUFFICES ASSUME IInv, Ranks, NEW proc \in Processors, HasCandidate(rq, proc)
               PROVE  ~PeekThrows(rq, selected_run_queue(rq, proc))
    BY DEF NeverThrows
  <2>1. RunQueueOK(rq) /\ Keyed(rq) BY DEF IInv, Core, Ranks
  <2> QED BY <2>1, PeekFinds
<1>2. NeverThrows /\ TimerIndexesExact => CachesExact BY DEF CachesExact
<1> QED BY <1>1, <1>2, Invariant, RanksInvariant, TimersAgree, PTL

\* The first entry of a real-time order is the one of the thread it names, and no
\* thread of the queue has a smaller key.
LEMMA FirstKey ==
    ASSUME NEW q, RunQueueOK(q), NEW c \in QueueKeys, NEW u \in Threads,
           u \in Queued(q, c), q.place[u].key # NoKey
    PROVE  q.place[FirstRealtime(q, c)].key <= q.place[u].key
<1>1. q.realtime_order[c] =
          {<<q.place[t].key, t>> : t \in {v \in Queued(q, c) : q.place[v].key # NoKey}}
  BY DEF RunQueueOK, RealtimeOrderExact
<1>2. <<q.place[u].key, u>> \in q.realtime_order[c] BY <1>1
<1>3. q.realtime_order[c] \in SUBSET (Nat \X Threads) BY DEF RunQueueOK, RunQueueType
<1>4. \E e \in q.realtime_order[c] : \A o \in q.realtime_order[c] : Before(e, o)
  BY <1>2, <1>3, FirstEntry
<1> DEFINE first == CHOOSE k \in q.realtime_order[c] : \A o \in q.realtime_order[c] : Before(k, o)
<1>5. first \in q.realtime_order[c] /\ Before(first, <<q.place[u].key, u>>) BY <1>2, <1>4
<1>6. FirstRealtime(q, c) = first[2] BY DEF FirstRealtime
<1> HIDE DEF first
<1>7. first[1] = q.place[first[2]].key BY <1>1, <1>5
<1>8. first[1] \in Nat /\ q.place[u].key \in Nat BY <1>2, <1>3, <1>5
<1>9. first[1] <= q.place[u].key BY <1>5, <1>8 DEF Before
<1> QED BY <1>6, <1>7, <1>9

\* What a processor takes out of its queues has the highest priority it could take, and
\* in the real-time band no later key than another thread that either queue holds, if
\* it may stand in that queue itself.
LEMMA ChosenFirst ==
    ASSUME NEW q, RunQueueOK(q), Keyed(q), NEW proc \in Processors,
           NEW t \in Threads, NEW u \in Threads, NEW d \in QueueKeys,
           q.place[u].queued, q.place[u].processor = d, d \in {PSet, proc},
           t = peek_highest(q, selected_run_queue(q, proc))
    PROVE  /\ q.place[t].queued /\ q.place[u].priority \in Nat /\ q.place[t].priority \in Nat
           /\ q.place[u].priority <= q.place[t].priority
           /\ (/\ q.place[u].priority >= RealtimeQueuePriority
               /\ q.place[u].key # NoKey
               /\ q.place[t].processor \in {PSet, d})
                  => q.place[t].key <= q.place[u].key
<1> DEFINE c == selected_run_queue(q, proc)
<1>1. q.count[d] # 0 /\ q.place[u].priority <= q.high_queue[d] BY QueuedBelowHigh
<1>2. HasCandidate(q, proc) BY <1>1 DEF HasCandidate
<1>3. c \in QueueKeys /\ ~PeekThrows(q, c) /\ q.high_queue[c] <= RealtimeQueuePriority
  BY <1>2, PeekFinds
<1>4. c \in {PSet, proc} BY DEF selected_run_queue
<1>5. q.high_queue[d] <= q.high_queue[c] BY <1>1, SelectedHighest
<1>c. c = selected_run_queue(q, proc) OBVIOUS
<1>t. t = peek_highest(q, c) OBVIOUS
<1> HIDE DEF c
<1>6. q.place[t].queued /\ q.place[t].processor = c /\ q.place[t].priority = q.high_queue[c]
  BY <1>3, <1>t, PeekHighest
<1>7. /\ q.high_queue[d] \in Int /\ q.high_queue[c] \in Int
      /\ q.place[u].priority \in Nat /\ q.place[t].priority \in Nat
      /\ RealtimeQueuePriority \in Nat
  <2>1. RealtimeQueuePriority \in Nat /\ Priorities \subseteq Nat BY Bands
  <2>2. q.high_queue \in [QueueKeys -> Priorities \cup {NoQueue}]
    BY DEF RunQueueOK, RunQueueType
  <2>3. Priorities \cup {NoQueue} \subseteq Int BY <2>1 DEF NoQueue
  <2>4. q.place \in [Threads -> Places] BY PlacesTyped
  <2>5. q.place[u].priority \in Priorities /\ q.place[t].priority \in Priorities
    BY <2>4 DEF Places
  <2> QED BY <1>3, <2>1, <2>2, <2>3, <2>5
<1>8. q.place[u].priority <= q.place[t].priority BY <1>1, <1>5, <1>6, <1>7
<1>9. ASSUME q.place[u].priority >= RealtimeQueuePriority, q.place[u].key # NoKey,
             q.place[t].processor \in {PSet, d}
      PROVE  q.place[t].key <= q.place[u].key
  <2>1. q.high_queue[c] = RealtimeQueuePriority /\ q.high_queue[d] >= q.high_queue[c]
    BY <1>1, <1>3, <1>5, <1>7, <1>9
  <2>2. d = c
    <3>1. SUFFICES ASSUME d # c PROVE FALSE OBVIOUS
    <3>2. c = PSet /\ d = proc BY <1>4, <1>6, <1>9, <3>1
    <3>3. selected_run_queue(q, proc) = proc BY <1>1, <2>1, <3>2 DEF selected_run_queue
    <3> QED BY <1>c, <3>1, <3>2, <3>3
  <2>3. t = FirstRealtime(q, c)
    <3>1. q.high_queue[c] >= RealtimeQueuePriority BY <1>7, <2>1
    <3> QED BY <1>t, <3>1 DEF peek_highest
  <2>4. u \in Queued(q, c) BY <2>2 DEF Queued
  <2> QED BY <1>3, <1>9, <2>3, <2>4, FirstKey
<1> QED BY <1>6, <1>7, <1>8, <1>9

\* A preemption that is asked for switches threads: the thread that goes back to the
\* head of its queue has time left, so only a higher priority or an earlier deadline can
\* have asked, and neither leaves it in front.
THEOREM PreemptionsSwitch == KernelPriorities /\ Spec => []PreemptionSwitches
<1>1. ASSUME IInv, Ranks, NEW i \in 1 .. Len(batch), NEW t, t = batch[i][1],
             NEW proc, proc = batch[i][2], NEW candidate,
             candidate = peek_highest(rq, selected_run_queue(rq, proc)),
             NEW after, after = AfterSlice(threads[t], "Continue"),
             NEW q, q = Enqueued(rq, t, after.record, after.front),
             t \in Registered, preemption_for(t, proc),
             \/ threads[candidate].scheduled_priority > threads[t].scheduled_priority
             \/ OrderedByDeadline(t, candidate),
             peek_highest(q, selected_run_queue(q, proc)) = t
      PROVE  FALSE
  <2> USE <1>1
  <2> DEFINE r == threads[t]
             c == selected_run_queue(q, proc)
             d == rq.place[candidate].processor
             u == threads[candidate]
  <2>1. /\ t \in Threads /\ proc \in Processors /\ r \in ThreadRecords /\ Ranked(r)
        /\ RunQueueOK(rq) /\ Keyed(rq) /\ ~rq.place[t].queued /\ HasCandidate(rq, proc)
    <3>1. batch \in Seq(Threads \X Processors) BY DEF IInv, LoopType
    <3>2. proc \in Processors BY <3>1
    <3>3. r.state = "Running" /\ HasCandidate(rq, proc) BY DEF preemption_for
    <3>4. t \in Threads /\ r \in ThreadRecords /\ Ranked(r) /\ RunQueueOK(rq) /\ Keyed(rq)
          /\ Fits(rq, t, r)
      BY DEF IInv, Core, Ranks
    <3> QED BY <3>2, <3>3, <3>4 DEF Fits
  <2>2. /\ candidate \in Threads /\ rq.place[candidate].queued /\ d \in {PSet, proc}
        /\ d \in QueueKeys
    <3> DEFINE s == selected_run_queue(rq, proc)
    <3>1. s \in QueueKeys /\ ~PeekThrows(rq, s) BY <2>1, PeekFinds
    <3>2. s \in {PSet, proc} BY DEF selected_run_queue
    <3> HIDE DEF s
    <3>3. candidate = peek_highest(rq, s) BY DEF s
    <3> QED BY <2>1, <3>1, <3>2, <3>3, PeekHighest
  <2>3. /\ candidate \in Registered /\ rq.place[candidate].priority = u.scheduled_priority
        /\ candidate # t
    <3>1. /\ \A v \in Registered : Fits(rq, v, threads[v])
          /\ \A v \in Threads \ Registered : ~rq.place[v].queued
      BY DEF IInv, Core
    <3> QED BY <2>1, <2>2, <3>1 DEF Fits
  <2>4. /\ RunQueueOK(q) /\ Keyed(q) /\ q.place[candidate] = rq.place[candidate]
        /\ q.place[t].queued /\ q.place[t].priority = r.scheduled_priority
        /\ q.place[t].processor = r.bound_processor
        /\ r.realtime /\ r.scheduled_priority >= RealtimeQueuePriority
               => q.place[t].key = r.realtime_deadline
    <3> DEFINE back == [r EXCEPT !.wake_pending = FALSE, !.state = "Runnable"]
    <3>1. r.remaining_quantum # 0 /\ r.remaining_quantum > 0
      BY <2>1 DEF Ranked, Rankable, ThreadRecords
    <3>2. after.record = back BY <3>1 DEF AfterSlice
    <3>3. /\ back \in ThreadRecords /\ back.state = "Runnable" /\ SameRank(r, back)
          /\ back.bound_processor = r.bound_processor
          /\ back.realtime_deadline = r.realtime_deadline
      BY <2>1, <3>1 DEF ThreadRecords, States, SameRank
    <3> HIDE DEF back
    <3>4. q = Enqueued(rq, t, back, after.front) BY <3>2
    <3>5. Ranked(back) BY <2>1, <3>3, SameRankKeeps
    <3>6. RunQueueOK(q) /\ Keyed(q) BY <2>1, <3>3, <3>4, <3>5, EnqueueKeyed
    <3>7. OnlyAt(rq, q, t) /\ Fits(q, t, back) BY <2>1, <3>3, <3>4, EnqueueFits
    <3>8. q.place[t].key = IF back.realtime /\ back.scheduled_priority >= RealtimeQueuePriority
                           THEN back.realtime_deadline ELSE NoKey
      <4> DEFINE ticket == TicketOf(back)
                 spot == [queued |-> TRUE, priority |-> ticket.priority,
                          processor |-> ticket.processor, key |-> ticket.key]
      <4>1. ticket \in Tickets BY <3>3, TicketType
      <4>2. ticket.key = IF back.realtime /\ back.scheduled_priority >= RealtimeQueuePriority
                         THEN back.realtime_deadline ELSE NoKey
        BY DEF TicketOf, Ticket
      <4>3. q = enqueue(rq, t, ticket, after.front) BY <3>4 DEF Enqueued
      <4> HIDE DEF ticket
      <4>4. q.place = [rq.place EXCEPT ![t] = spot] BY <2>1, <4>1, <4>3, EnqueueKeepsAgreement
      <4>5. rq.place \in [Threads -> Places] BY <2>1, PlacesTyped
      <4>6. q.place[t] = spot BY <2>1, <4>4, <4>5
      <4> QED BY <4>2, <4>6
    <3> QED BY <2>2, <2>3, <3>3, <3>6, <3>7, <3>8 DEF OnlyAt, Fits, SameRank
  <2>a. RealtimeQueuePriority \in Nat /\ Priorities \subseteq Nat BY Bands
  <2>b. /\ u.scheduled_priority \in Nat /\ r.scheduled_priority \in Nat
        /\ u.realtime_deadline \in Nat /\ r.realtime_deadline \in Nat
        /\ r.remaining_quantum > 0 /\ r.remaining_quantum \in Nat
    BY <2>1, <2>3, <2>a DEF IInv, Core, ThreadRecords, Ranked, Rankable
  <2>c. peek_highest(q, c) = t OBVIOUS
  <2>e. \/ u.scheduled_priority > r.scheduled_priority
        \/ OrderedByDeadline(t, candidate)
    OBVIOUS
  <2>f. \/ u.scheduled_priority > r.scheduled_priority
        \/ r.remaining_quantum = 0
        \/ /\ u.scheduled_priority >= RealtimeQueuePriority
           /\ r.realtime /\ u.realtime /\ u.realtime_deadline < r.realtime_deadline
    BY DEF preemption_for
  <2>g. /\ OrderedByDeadline(t, candidate) => r.bound_processor \in {PSet, d}
        /\ OrderedByDeadline(t, candidate) => rq.place[candidate].key = u.realtime_deadline
    BY DEF OrderedByDeadline
  <2>5. /\ q.place[candidate].priority <= q.place[t].priority
        /\ (/\ q.place[candidate].priority >= RealtimeQueuePriority
            /\ q.place[candidate].key # NoKey
            /\ q.place[t].processor \in {PSet, d})
               => q.place[t].key <= q.place[candidate].key
    <3>1. /\ q.place[candidate].queued /\ q.place[candidate].processor = d
          /\ d \in QueueKeys /\ d \in {PSet, proc}
          /\ t \in Threads /\ candidate \in Threads /\ proc \in Processors
          /\ RunQueueOK(q) /\ Keyed(q)
      BY <2>1, <2>2, <2>4
    <3>2. t = peek_highest(q, selected_run_queue(q, proc)) OBVIOUS
    <3> HIDE <1>1 DEF c, d, u, r
    <3> QED BY <3>1, <3>2, ChosenFirst
  <2> HIDE <1>1 DEF c, d, u, r
  <2>6. u.scheduled_priority <= r.scheduled_priority
    BY <2>3, <2>4, <2>5
  <2>7. /\ OrderedByDeadline(t, candidate) /\ r.realtime
        /\ u.scheduled_priority >= RealtimeQueuePriority
        /\ u.realtime_deadline < r.realtime_deadline
    BY <2>6, <2>b, <2>e, <2>f
  <2>8. r.scheduled_priority >= RealtimeQueuePriority BY <2>6, <2>7, <2>a, <2>b
  <2>9. q.place[t].key = r.realtime_deadline BY <2>4, <2>7, <2>8
  <2>10. q.place[candidate].key = u.realtime_deadline BY <2>4, <2>7, <2>g
  <2>11. q.place[candidate].key # NoKey BY <2>10, <2>b DEF NoKey
  <2>12. q.place[t].key <= q.place[candidate].key BY <2>3, <2>4, <2>5, <2>7, <2>11, <2>g
  <2> QED BY <2>7, <2>9, <2>10, <2>12, <2>b
<1>2. IInv /\ Ranks => PreemptionSwitches BY <1>1 DEF PreemptionSwitches
<1> QED BY <1>2, Invariant, RanksInvariant, PTL
=============================================================================
