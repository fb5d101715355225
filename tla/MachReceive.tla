---------------------------- MODULE MachReceive ----------------------------
(***************************************************************************)
(* Who gets a Mach message, and when: the blocked receives of one task     *)
(* (pending_mach_receives_), the port sets that make a queue visible to    *)
(* more than one of them, the compound FIFO that decides between them, and *)
(* the queue generation that lets the main loop skip a receive that found  *)
(* nothing.  What a message carries is the business of MachRights: here it *)
(* is only its size.                                                       *)
(*                                                                         *)
(* The generation and the wait-queue sequence are 64-bit counters that are *)
(* only compared: a receive remembers whether the generation it observed   *)
(* is still the current one (cached), and order lists the receivers and    *)
(* the port-set links in the order of their sequence numbers.  A name is   *)
(* the object it will denote.  A deadline is the time left until it.       *)
(***************************************************************************)
EXTENDS Integers, Sequences, SequencesExt, FiniteSets, Erasure

CONSTANTS
    Threads,            \* processor slots of the task
    Ports, PortSets,    \* global IPC objects
    NoObject,           \* an absent receive_object
    Operations,         \* what guests do beyond sending and receiving
    Mixes,              \* the client mixes to explore
    MaxMessages         \* bound: messages sent

ASSUME ReceiveAssumption ==
    /\ Ports \cap PortSets = {}
    /\ NoObject \notin Ports \cup PortSets
    /\ MaxMessages \in Nat
    /\ \A m \in Mixes :
          /\ m.threads \subseteq Threads
          /\ m.objects \subseteq Ports \cup PortSets
          /\ m.sizes \subseteq Nat      \* of messages and receive buffers
          /\ m.intervals \subseteq Nat  \* timeouts of receives

Objects == Ports \cup PortSets
Forever == -1

VARIABLES
    queues,             \* mach_queues
    members,            \* mach_port_sets
    order,              \* receivers and mach_port_set_links_by_member, by sequence
    pending,            \* pending_mach_receives_
    threads,            \* what every slot is doing
    life,               \* whether an object is named, not yet, or no more
    sent,               \* messages sent so far
    mix                 \* the mix of this behaviour, which never changes

vars == <<queues, members, order, pending, threads, life, sent, mix>>

Receiver(t) == <<"receiver", t>>
Link(s, p) == <<"link", s, p>>
Without(f, S) == [x \in DOMAIN f \ S |-> f[x]]
Links == {Link(s, p) : s \in PortSets, p \in Ports}

\* note_mach_queue_topology_change_locked and the end of
\* enqueue_mach_message_locked: no observed generation is current any more.
NewGeneration(receives) ==
    [t \in DOMAIN receives |-> [receives[t] EXCEPT !.cached = FALSE]]

-----------------------------------------------------------------------------
(***************************************************************************)
(* The choice of a receiver for a queued message.                          *)
(***************************************************************************)
Place(list, e) == CHOOSE i \in DOMAIN list : list[i] = e

\* The receivers whose object is p, and those of the sets p is linked to,
\* with the place of their element in the wait queue of p and their own.
Waiters(receives, list, p) ==
    {<<Place(list, Receiver(t)), Place(list, Receiver(t)), t>> :
        t \in {u \in DOMAIN receives : receives[u].object = p}}
    \cup
    {<<Place(list, Link(receives[t].object, p)), Place(list, Receiver(t)), t>> :
        t \in {u \in DOMAIN receives : Link(receives[u].object, p) \in Range(list)}}

\* Receivers of one set tie, and none of them is preferred.
Before_untied(a, b) == a = b \/ a[1] < b[1]

Before(a, b) == a[1] < b[1] \/ (a[1] = b[1] /\ a[2] <= b[2])

\* Whoever polls first takes the message.
AnyReceiver(receives, list, p, t) == \E w \in Waiters(receives, list, p) : w[3] = t

\* t is preferred_pending_mach_receiver_locked(p).
Preferred(receives, list, p, t) ==
    \E w \in Waiters(receives, list, p) :
        w[3] = t /\ \A o \in Waiters(receives, list, p) : Before(w, o)

\* The queues a receive walks: its port's, or those of the set's members.
Walk(object) ==
    IF object \in Ports THEN <<object>>
    ELSE IF object \in PortSets THEN members[object] ELSE << >>

VisibleQueues(object) == {p \in Range(Walk(object)) : queues[p] # << >>}

-----------------------------------------------------------------------------
(***************************************************************************)
(* deliver_pending_mach_locked for thread t, on the receives and the order *)
(* its caller prepared.                                                    *)
(***************************************************************************)
\* A name resolves while it denotes something.
Resolved(receive) ==
    IF receive.object = NoObject /\ life[receive.name] = "live"
    THEN [receive EXCEPT !.object = receive.name] ELSE receive

End(receives, list, t) ==
    /\ pending' = Without(receives, {t})
    /\ order' = Erased(list, {Receiver(t)})
    /\ threads' = [threads EXCEPT ![t] = "running"]

Stay(receives, list, t) ==
    /\ pending' = receives
    /\ order' = list
    /\ threads' = [threads EXCEPT ![t] = "waiting"]

\* Only a walk that met no message proves that none is there.
CachesEmpty(visible) == visible = {}

deliver_pending_mach(receives, list, t) ==
    LET own == Resolved(receives[t])
        visible == VisibleQueues(own.object)
        seen == [u \in DOMAIN receives |->
                    IF u = t \/ visible # {} THEN Resolved(receives[u]) ELSE receives[u]]
        mine == {p \in visible : Preferred(seen, list, p, t)}
    IN  IF own.object = NoObject THEN
            Stay(receives, list, t) /\ UNCHANGED queues
        ELSE IF mine # {} THEN
            /\ End(seen, list, t)
            /\ LET p == Head(Kept(Walk(own.object), mine)) IN
               IF Head(queues[p]) > own.size THEN UNCHANGED queues  \* MACH_RCV_TOO_LARGE
               ELSE queues' = [queues EXCEPT ![p] = Tail(@)]
        ELSE IF own.deadline = 0 THEN
            End(seen, list, t) /\ UNCHANGED queues          \* MACH_RCV_TIMED_OUT
        ELSE
            /\ Stay([seen EXCEPT ![t].cached = CachesEmpty(visible)], list, t)
            /\ UNCHANGED queues

\* begin_receive: the receive is queued, tried at once, and with a timeout of
\* zero given up at once.
mach_msg_receive(t, name, size, interval) ==
    LET object == IF life[name] = "live" THEN name ELSE NoObject
        receive == [name |-> name, object |-> object, size |-> size,
                    deadline |-> interval, cached |-> FALSE]
        receives == [u \in DOMAIN pending \cup {t} |->
                        IF u = t THEN receive ELSE pending[u]]
        list == Append(Erased(order, {Receiver(t)}), Receiver(t))
    IN  /\ threads[t] = "running"
        /\ object # NoObject \/ "unnamed_receive" \in Operations
        /\ IF object = NoObject /\ interval = 0
           THEN End(receives, list, t) /\ UNCHANGED queues
           ELSE deliver_pending_mach(receives, list, t)
        /\ UNCHANGED <<members, life, sent>>

\* A cached receive is skipped even when its deadline has passed.
\* Another look cannot succeed: nothing was queued since the last one.
Skipped(receive) ==
    receive.object # NoObject /\ receive.cached /\ receive.deadline # 0

\* The main loop offers a waiting thread its message.
deliver_pending_mach_if_ready(t) ==
    /\ threads[t] = "waiting"
    /\ t \in DOMAIN pending
    /\ ~Skipped(pending[t])
    /\ deliver_pending_mach(pending, order, t)
    /\ UNCHANGED <<members, life, sent>>

advance_time ==
    /\ \E t \in DOMAIN pending : pending[t].deadline > 0
    /\ pending' = [t \in DOMAIN pending |->
           [pending[t] EXCEPT !.deadline = IF @ > 0 THEN @ - 1 ELSE @]]
    /\ UNCHANGED <<queues, members, order, threads, life, sent>>

-----------------------------------------------------------------------------
(***************************************************************************)
(* Senders, which may be other tasks and host threads, and the objects.    *)
(***************************************************************************)
enqueue_mach_message(p, size) ==
    /\ life[p] = "live"
    /\ sent < MaxMessages
    /\ sent' = sent + 1
    /\ queues' = [queues EXCEPT ![p] = Append(@, size)]
    /\ pending' = NewGeneration(pending)
    /\ UNCHANGED <<members, order, threads, life>>

mach_port_allocate(o) ==
    /\ life[o] = "new"
    /\ life' = [life EXCEPT ![o] = "live"]
    /\ UNCHANGED <<queues, members, order, pending, threads, sent>>

\* A populated port joins the set and the generation stays.
insert_member(s, p) ==
    /\ life[s] = "live" /\ life[p] = "live"
    /\ p \notin Range(members[s])
    /\ members' = [members EXCEPT ![s] = Append(@, p)]
    /\ order' = Append(order, Link(s, p))
    /\ pending' = NewGeneration(pending)
    /\ UNCHANGED <<queues, threads, life, sent>>

extract_member(s, p) ==
    /\ life[s] = "live" /\ life[p] = "live"
    /\ p \in Range(members[s])
    /\ members' = [members EXCEPT ![s] = Erased(@, {p})]
    /\ order' = Erased(order, {Link(s, p)})
    /\ pending' = NewGeneration(pending)
    /\ UNCHANGED <<queues, threads, life, sent>>

LinksOf(p) == {Link(s, p) : s \in PortSets} \cap Range(order)
LeftSets(p) ==
    [s \in PortSets |-> IF Link(s, p) \in LinksOf(p) THEN Erased(members[s], {p}) ELSE members[s]]

\* mach_port_move_member: out of every set, then into the named one, if any.
\* A port that is in no set cannot be moved to none.
move_member(p, s) ==
    /\ life[p] = "live"
    /\ s # NoObject => life[s] = "live"
    /\ s # NoObject \/ LinksOf(p) # {}
    /\ members' = [r \in PortSets |-> IF r = s THEN Append(LeftSets(p)[r], p) ELSE LeftSets(p)[r]]
    /\ order' = Erased(order, LinksOf(p)) \o (IF s = NoObject THEN << >> ELSE <<Link(s, p)>>)
    /\ pending' = NewGeneration(pending)
    /\ UNCHANGED <<queues, threads, life, sent>>

\* The queue and the memberships of a destroyed port go; the receives
\* blocked on it stay.
destroy_port(p) ==
    /\ life[p] = "live"
    /\ life' = [life EXCEPT ![p] = "dead"]
    /\ queues' = [queues EXCEPT ![p] = << >>]
    /\ members' = LeftSets(p)
    /\ order' = Erased(order, LinksOf(p))
    /\ pending' = IF LinksOf(p) = {} THEN pending ELSE NewGeneration(pending)
    /\ UNCHANGED <<threads, sent>>

\* The links of the members are left.
erase_port_set_linked(s) ==
    /\ life[s] = "live"
    /\ life' = [life EXCEPT ![s] = "dead"]
    /\ members' = [members EXCEPT ![s] = << >>]
    /\ pending' = NewGeneration(pending)
    /\ UNCHANGED <<queues, order, threads, sent>>

erase_port_set(s) ==
    /\ life[s] = "live"
    /\ life' = [life EXCEPT ![s] = "dead"]
    /\ members' = [members EXCEPT ![s] = << >>]
    /\ order' = Erased(order, {Link(s, p) : p \in Range(members[s])})
    /\ pending' = NewGeneration(pending)
    /\ UNCHANGED <<queues, threads, sent>>

-----------------------------------------------------------------------------
(***************************************************************************)
(* Threads.                                                                *)
(***************************************************************************)
\* A free slot is taken.
thread_create(t) ==
    /\ threads[t] = "absent"
    /\ \E u \in Threads : threads[u] = "running"
    /\ threads' = [threads EXCEPT ![t] = "running"]
    /\ UNCHANGED <<queues, members, order, pending, life, sent>>

\* thread_terminate by another thread frees the slot and leaves the receive;
\* by the thread itself, it is erased.
thread_terminate(t, target) ==
    /\ threads[t] = "running"
    /\ threads[target] # "absent"
    /\ threads[target] = "running" \/ "terminate_blocked" \in Operations
    /\ threads' = [threads EXCEPT ![target] = "absent"]
    /\ pending' = IF t = target THEN Without(pending, {t}) ELSE pending
    /\ order' = IF t = target THEN Erased(order, {Receiver(t)}) ELSE order
    /\ UNCHANGED <<queues, members, life, sent>>

-----------------------------------------------------------------------------
Init ==
    /\ queues = [p \in Ports |-> << >>]
    /\ members = [s \in PortSets |-> << >>]
    /\ order = << >>
    /\ pending = << >>
    /\ mix \in Mixes
    /\ threads = [t \in Threads |-> IF t \in mix.threads THEN "running" ELSE "absent"]
    /\ life = [o \in Objects |-> "new"]
    /\ sent = 0

Receive(t) ==
    \E name \in mix.objects, size \in mix.sizes, interval \in {Forever} \cup mix.intervals :
        mach_msg_receive(t, name, size, interval)

Topology ==
    \/ \E o \in mix.objects : mach_port_allocate(o)
    \/ \E s \in PortSets, p \in Ports : insert_member(s, p) \/ extract_member(s, p)
    \/ \E p \in Ports, s \in PortSets \cup {NoObject} : move_member(p, s)
    \/ \E p \in Ports : destroy_port(p)
    \/ \E s \in PortSets : erase_port_set(s)

Next ==
    /\ UNCHANGED mix
    /\ \/ \E t \in mix.threads : Receive(t) \/ deliver_pending_mach_if_ready(t)
       \/ \E p \in Ports, size \in mix.sizes : enqueue_mach_message(p, size)
       \/ Topology
       \/ \E t \in mix.threads : thread_create(t)
       \/ \E t, target \in mix.threads : thread_terminate(t, target)
       \/ advance_time

\* The main loop offers every waiting thread its message in each iteration
\* and time passes; guests and senders owe nothing.
Fairness ==
    /\ \A t \in Threads : WF_vars(deliver_pending_mach_if_ready(t) /\ UNCHANGED mix)
    /\ WF_vars(advance_time /\ UNCHANGED mix)

Spec == Init /\ [][Next]_vars /\ Fairness

-----------------------------------------------------------------------------
(***************************************************************************)
(* Properties.                                                             *)
(***************************************************************************)
\* The variables have the shape of the C++ state; every blocked receive has
\* one place in the wait-queue order and nothing else has.
TypeOK ==
    /\ queues \in [Ports -> Seq(mix.sizes)]
    /\ members \in [PortSets -> Seq(Ports)]
    /\ \A s \in PortSets : IsInjective(members[s])
    /\ Range(order) \subseteq {Receiver(t) : t \in DOMAIN pending} \cup Links
    /\ {Receiver(t) : t \in DOMAIN pending} \subseteq Range(order)
    /\ IsInjective(order)
    /\ DOMAIN pending \subseteq Threads
    /\ \A t \in DOMAIN pending :
        pending[t] \in [name : Objects, object : Objects \cup {NoObject}, size : mix.sizes,
                        deadline : Int, cached : BOOLEAN]
    /\ threads \in [Threads -> {"absent", "running", "waiting"}]
    /\ life \in [Objects -> {"new", "live", "dead"}]
    /\ sent \in 0 .. MaxMessages

\* An unchanged generation proves that another walk cannot succeed: no message
\* is queued where a receive that the main loop skips could see it, whatever
\* was sent, inserted, extracted, moved or destroyed since.
CachedEmptyIsEmpty ==
    \A t \in DOMAIN pending :
        pending[t].object # NoObject /\ pending[t].cached
            => VisibleQueues(pending[t].object) = {}

\* The members of the sets and the reverse links of the ports describe one
\* topology.
LinksMatchMembers ==
    \A s \in PortSets, p \in Ports : Link(s, p) \in Range(order) <=> p \in Range(members[s])

\* The first waiter of the compound FIFO of port p: its elements are direct
\* waiters and links to sets that have waiters of their own.  A receive whose name
\* has come to denote something waits for that.
Direct(o) == {Receiver(t) : t \in {u \in DOMAIN pending : Resolved(pending[u]).object = o}}
Elements(p) == Kept(order, Direct(p) \cup {Link(s, p) : s \in {r \in PortSets : Direct(r) # {}}})
FirstWaiter(p) ==
    LET e == Head(Elements(p)) IN
    IF e \in Direct(p) THEN e[2] ELSE Head(Kept(order, Direct(e[2])))[2]

\* A blocked thread that takes a message of a port is the first waiter of the
\* port, by the order in which receivers came and sets were linked and not by
\* the order in which the main loop polls them.
DeliveredInFifoOrder ==
    [][\A t \in Threads, p \in Ports :
        /\ threads[t] = "waiting" /\ threads'[t] = "running"
        /\ Len(queues'[p]) < Len(queues[p])
        => t = FirstWaiter(p)]_vars

\* A thread does not stay blocked beside a message it may receive.
MessagesReachWaiters ==
    \A t \in Threads :
        LET stuck == /\ threads[t] = "waiting"
                     /\ t \in DOMAIN pending
                     /\ VisibleQueues(pending[t].object) # {}
        IN  stuck ~> ~stuck

\* A receive with a timeout ends.
TimedReceivesEnd ==
    \A t \in Threads :
        (threads[t] = "waiting" /\ t \in DOMAIN pending /\ pending[t].deadline # Forever)
            ~> (threads[t] # "waiting")

\* What receivers are told about sets and queues without a walk is what a walk finds.
TopologyExact == LinksMatchMembers /\ CachedEmptyIsEmpty

\* A receive ends when there is a message for it, or when its time has come.
ReceivesEnd == MessagesReachWaiters /\ TimedReceivesEnd
=============================================================================
