------------------------- MODULE MachReceiveProofs -------------------------
(***************************************************************************)
(* Theorems about MachReceive, for any number of threads, ports and port   *)
(* sets and any mix of clients, on whatever operations they insist.        *)
(***************************************************************************)
EXTENDS MachReceive, SequenceTheorems, TLAPS

ReceiveRecords ==
    [name : Objects, object : Objects \cup {NoObject}, size : mix.sizes,
     deadline : Int, cached : BOOLEAN]

\* The queues a receive on an object walks, and that none of them has a message.
Sees(o, p, m) == (o \in Ports /\ p = o) \/ (o \in PortSets /\ p \in Range(m[o]))
Quiet(o, q, m) == \A p \in Ports : Sees(o, p, m) => q[p] = << >>

\* A blocked receive: it is cached only when it denotes an object that is quiet.
ReceiveOK(r, q, m) == r \in ReceiveRecords /\ (r.cached => r.object # NoObject /\ Quiet(r.object, q, m))
ReceivesOK(receives, q, m) ==
    /\ DOMAIN receives \subseteq Threads
    /\ \A t \in DOMAIN receives : ReceiveOK(receives[t], q, m)

\* The wait-queue order has every blocked receiver and every membership, once.
Places == {Receiver(t) : t \in Threads} \cup Links
OrderOK(list, receivers, m) ==
    /\ list \in Seq(Places) /\ IsInjective(list)
    /\ \A t \in Threads : Receiver(t) \in Range(list) <=> t \in receivers
    /\ \A s \in PortSets, p \in Ports : Link(s, p) \in Range(list) <=> p \in Range(m[s])

MembersOK(m) == m \in [PortSets -> Seq(Ports)] /\ \A s \in PortSets : IsInjective(m[s])

\* The inductive invariant.
RInv ==
    /\ mix \in Mixes
    /\ queues \in [Ports -> Seq(mix.sizes)]
    /\ MembersOK(members)
    /\ threads \in [Threads -> {"absent", "running", "waiting"}]
    /\ life \in [Objects -> {"new", "live", "dead"}]
    /\ sent \in 0 .. MaxMessages
    /\ ReceivesOK(pending, queues, members)
    /\ OrderOK(order, DOMAIN pending, members)

-----------------------------------------------------------------------------
(***************************************************************************)
(* Walks and places.                                                       *)
(***************************************************************************)
LEMMA Distinct ==
    ASSUME NEW t, NEW s, NEW p
    PROVE  /\ Receiver(t) # Link(s, p)
           /\ \A u : Receiver(u) = Receiver(t) => u = t
           /\ \A r, q : Link(r, q) = Link(s, p) => r = s /\ q = p
  BY DEF Receiver, Link

LEMMA WalkList ==
    ASSUME MembersOK(members), NEW o
    PROVE  Walk(o) \in Seq(Ports) /\ \A p \in Ports : p \in Range(Walk(o)) <=> Sees(o, p, members)
<1>1. CASE o \in Ports
  <2>1. Walk(o) = <<o>> /\ o \notin PortSets BY <1>1, ReceiveAssumption DEF Walk
  <2>2. <<o>> \in Seq(Ports) /\ DOMAIN <<o>> = 1 .. 1 /\ <<o>>[1] = o BY <1>1
  <2>3. Range(<<o>>) = {o} BY <2>2 DEF Range
  <2> QED BY <1>1, <2>1, <2>2, <2>3 DEF Sees
<1>2. CASE o \notin Ports /\ o \in PortSets
  <2>1. Walk(o) = members[o] BY <1>2 DEF Walk
  <2> QED BY <1>2, <2>1 DEF Sees, MembersOK
<1>3. CASE o \notin Ports /\ o \notin PortSets
  <2>1. Walk(o) = << >> BY <1>3 DEF Walk
  <2> QED BY <1>3, <2>1, EmptyRange DEF Sees
<1> QED BY <1>1, <1>2, <1>3

\* A walk meets no message exactly when none is there.
LEMMA VisibleQuiet ==
    ASSUME MembersOK(members), NEW o
    PROVE  /\ VisibleQueues(o) = {} <=> Quiet(o, queues, members)
           /\ \A p \in VisibleQueues(o) : p \in Ports /\ queues[p] # << >> /\ p \in Range(Walk(o))
<1>1. Range(Walk(o)) \in SUBSET Ports BY WalkList, NoRange
<1>2. \A p \in Ports : p \in Range(Walk(o)) <=> Sees(o, p, members) BY WalkList
<1> QED BY <1>1, <1>2 DEF Quiet, VisibleQueues

\* What a step does to the queues and sets that keeps quiet objects quiet.
LEMMA StaysOK ==
    ASSUME NEW r, NEW q, NEW n, NEW m, NEW l, ReceiveOK(r, q, m),
           \A p \in Ports : q[p] = << >> => n[p] = << >>,
           \A p \in Ports : Sees(r.object, p, l) => Sees(r.object, p, m)
    PROVE  ReceiveOK(r, n, l)
  BY DEF ReceiveOK, Quiet

LEMMA FreshOK ==
    ASSUME NEW r, NEW q, NEW m, r \in ReceiveRecords
    PROVE  ReceiveOK([r EXCEPT !.cached = FALSE], q, m)
<1>1. [r EXCEPT !.cached = FALSE] \in ReceiveRecords /\ [r EXCEPT !.cached = FALSE].cached = FALSE
  BY DEF ReceiveRecords
<1> QED BY <1>1 DEF ReceiveOK

LEMMA NewGenerationOK ==
    ASSUME NEW receives, NEW q, NEW m, NEW n, NEW l, ReceivesOK(receives, q, m)
    PROVE  /\ ReceivesOK(NewGeneration(receives), n, l)
           /\ DOMAIN NewGeneration(receives) = DOMAIN receives
<1> DEFINE new == NewGeneration(receives)
<1>1. /\ DOMAIN new = DOMAIN receives
      /\ \A t \in DOMAIN receives : new[t] = [receives[t] EXCEPT !.cached = FALSE]
  BY DEF NewGeneration
<1>2. \A t \in DOMAIN receives : receives[t] \in ReceiveRecords BY DEF ReceivesOK, ReceiveOK
<1>3. \A t \in DOMAIN receives : ReceiveOK([receives[t] EXCEPT !.cached = FALSE], n, l)
  BY <1>2, FreshOK
<1> HIDE DEF new
<1>4. ReceivesOK(new, n, l) BY <1>1, <1>3 DEF ReceivesOK
<1> QED BY <1>1, <1>4 DEF new

LEMMA ResolvedOK ==
    ASSUME NEW r, NEW q, NEW m, ReceiveOK(r, q, m)
    PROVE  /\ ReceiveOK(Resolved(r), q, m)
           /\ Resolved(r).deadline = r.deadline
<1> DEFINE s == [r EXCEPT !.object = r.name]
<1>1. r \in ReceiveRecords BY DEF ReceiveOK
<1>2. s \in ReceiveRecords /\ s.cached = r.cached /\ s.deadline = r.deadline
  BY <1>1 DEF ReceiveRecords
<1>3. CASE r.object = NoObject /\ life[r.name] = "live"
  <2>1. Resolved(r) = s BY <1>3 DEF Resolved
  <2>2. ~s.cached BY <1>2, <1>3 DEF ReceiveOK
  <2> HIDE DEF s
  <2> QED BY <1>2, <2>1, <2>2 DEF ReceiveOK
<1>4. CASE ~(r.object = NoObject /\ life[r.name] = "live")
  <2>1. Resolved(r) = r BY <1>4 DEF Resolved
  <2> QED BY <2>1
<1> QED BY <1>3, <1>4

-----------------------------------------------------------------------------
(***************************************************************************)
(* The wait-queue order.                                                   *)
(***************************************************************************)
LEMMA EraseReceiver ==
    ASSUME NEW list, NEW D, NEW m, OrderOK(list, D, m), NEW t \in Threads
    PROVE  OrderOK(Erased(list, {Receiver(t)}), D \ {t}, m)
<1> DEFINE a == Erased(list, {Receiver(t)})
<1>1. list \in Seq(Places) /\ IsInjective(list) BY DEF OrderOK
<1>2. a \in Seq(Places) /\ IsInjective(a) /\ Range(a) = Range(list) \ {Receiver(t)}
  BY <1>1, ErasedList
<1> HIDE DEF a
<1>3. \A u \in Threads : Receiver(u) \in Range(a) <=> u \in D \ {t}
  BY <1>2, Distinct DEF OrderOK
<1>4. \A s \in PortSets, p \in Ports : Link(s, p) \in Range(a) <=> p \in Range(m[s])
  BY <1>2, Distinct DEF OrderOK
<1> QED BY <1>2, <1>3, <1>4 DEF OrderOK, a

LEMMA QueueReceiver ==
    ASSUME NEW list, NEW D, NEW m, OrderOK(list, D, m), NEW t \in Threads, t \notin D
    PROVE  OrderOK(Append(list, Receiver(t)), D \cup {t}, m)
<1> DEFINE a == Append(list, Receiver(t))
<1>1. list \in Seq(Places) /\ IsInjective(list) /\ Receiver(t) \notin Range(list) BY DEF OrderOK
<1>2. Receiver(t) \in Places BY DEF Places
<1>3. a \in Seq(Places) /\ IsInjective(a) /\ Range(a) = Range(list) \cup {Receiver(t)}
  BY <1>1, <1>2, AppendList
<1> HIDE DEF a
<1>4. \A u \in Threads : Receiver(u) \in Range(a) <=> u \in D \cup {t}
  BY <1>3, Distinct DEF OrderOK
<1>5. \A s \in PortSets, p \in Ports : Link(s, p) \in Range(a) <=> p \in Range(m[s])
  BY <1>3, Distinct DEF OrderOK
<1> QED BY <1>3, <1>4, <1>5 DEF OrderOK, a

\* Links leave the order together with the memberships they stand for.
LEMMA EraseLinks ==
    ASSUME NEW list, NEW D, NEW m, OrderOK(list, D, m), NEW gone \in SUBSET Links, NEW l,
           \A s \in PortSets, p \in Ports :
               p \in Range(l[s]) <=> p \in Range(m[s]) /\ Link(s, p) \notin gone
    PROVE  OrderOK(Erased(list, gone), D, l)
<1> DEFINE a == Erased(list, gone)
<1>1. list \in Seq(Places) /\ IsInjective(list) BY DEF OrderOK
<1>2. a \in Seq(Places) /\ IsInjective(a) /\ Range(a) = Range(list) \ gone
  BY <1>1, ErasedList
<1> HIDE DEF a
<1>3. \A t \in Threads : Receiver(t) \in Range(a) <=> t \in D
  <2>1. \A t \in Threads : Receiver(t) \notin gone BY Distinct DEF Links
  <2> QED BY <1>2, <2>1 DEF OrderOK
<1>4. \A s \in PortSets, p \in Ports : Link(s, p) \in Range(a) <=> p \in Range(l[s])
  BY <1>2 DEF OrderOK
<1> QED BY <1>2, <1>3, <1>4 DEF OrderOK, a

LEMMA QueueLink ==
    ASSUME NEW list, NEW D, NEW m, OrderOK(list, D, m), NEW l,
           NEW s \in PortSets, NEW p \in Ports, p \notin Range(m[s]),
           \A r \in PortSets, q \in Ports :
               q \in Range(l[r]) <=> q \in Range(m[r]) \/ (r = s /\ q = p)
    PROVE  OrderOK(Append(list, Link(s, p)), D, l)
<1> DEFINE a == Append(list, Link(s, p))
<1>1. list \in Seq(Places) /\ IsInjective(list) /\ Link(s, p) \notin Range(list) BY DEF OrderOK
<1>2. Link(s, p) \in Places BY DEF Places, Links
<1>3. a \in Seq(Places) /\ IsInjective(a) /\ Range(a) = Range(list) \cup {Link(s, p)}
  BY <1>1, <1>2, AppendList
<1> HIDE DEF a
<1>4. \A t \in Threads : Receiver(t) \in Range(a) <=> t \in D
  BY <1>3, Distinct DEF OrderOK
<1>5. \A r \in PortSets, q \in Ports : Link(r, q) \in Range(a) <=> q \in Range(l[r])
  BY <1>3, Distinct DEF OrderOK
<1> QED BY <1>3, <1>4, <1>5 DEF OrderOK, a

-----------------------------------------------------------------------------
(***************************************************************************)
(* Receives.                                                               *)
(***************************************************************************)
LEMMA TailList ==
    ASSUME NEW T, NEW q \in Seq(T), q # << >>
    PROVE  Tail(q) \in Seq(T) /\ Len(Tail(q)) = Len(q) - 1 /\ Len(q) \in Nat
  OBVIOUS

\* What a walk tells the receives: names resolve.
Told(receives, t, visible) ==
    [u \in DOMAIN receives |->
        IF u = t \/ visible # {} THEN Resolved(receives[u]) ELSE receives[u]]

LEMMA ToldOK ==
    ASSUME NEW receives, NEW q, NEW m, ReceivesOK(receives, q, m), NEW t, NEW visible
    PROVE  /\ ReceivesOK(Told(receives, t, visible), q, m)
           /\ DOMAIN Told(receives, t, visible) = DOMAIN receives
<1> DEFINE new == Told(receives, t, visible)
<1>1. /\ DOMAIN new = DOMAIN receives
      /\ \A u \in DOMAIN receives : new[u] \in {Resolved(receives[u]), receives[u]}
  BY DEF Told
<1> HIDE DEF new
<1>2. \A u \in DOMAIN receives : ReceiveOK(receives[u], q, m) BY DEF ReceivesOK
<1>3. \A u \in DOMAIN receives : ReceiveOK(Resolved(receives[u]), q, m) BY <1>2, ResolvedOK
<1>4. ReceivesOK(new, q, m) BY <1>1, <1>2, <1>3 DEF ReceivesOK
<1> QED BY <1>1, <1>4 DEF new

\* deliver_pending_mach either ends the receive, perhaps with the first message of a
\* queue the receive sees, or leaves it, cached only after a walk that met nothing.
LEMMA DeliverCases ==
    ASSUME NEW receives, NEW list, NEW t \in DOMAIN receives,
           deliver_pending_mach(receives, list, t)
    PROVE  LET own == Resolved(receives[t])
               visible == VisibleQueues(own.object)
               seen == Told(receives, t, visible)
               mine == {p \in visible : Preferred(seen, list, p, t)}
               first == Head(Kept(Walk(own.object), mine))
           IN  \/ Stay(receives, list, t) /\ UNCHANGED queues
               \/ End(seen, list, t) /\ UNCHANGED queues
               \/ /\ mine # {} /\ End(seen, list, t)
                  /\ queues' = [queues EXCEPT ![first] = Tail(@)]
               \/ /\ own.object # NoObject /\ UNCHANGED queues
                  /\ Stay([seen EXCEPT ![t].cached = CachesEmpty(visible)], list, t)
<1> DEFINE own == Resolved(receives[t])
           visible == VisibleQueues(own.object)
           seen == Told(receives, t, visible)
           mine == {p \in visible : Preferred(seen, list, p, t)}
           first == Head(Kept(Walk(own.object), mine))
<1>1. IF own.object = NoObject THEN Stay(receives, list, t) /\ UNCHANGED queues
      ELSE IF mine # {} THEN
          /\ End(seen, list, t)
          /\ IF Head(queues[first]) > own.size THEN UNCHANGED queues
             ELSE queues' = [queues EXCEPT ![first] = Tail(@)]
      ELSE IF own.deadline = 0 THEN End(seen, list, t) /\ UNCHANGED queues
      ELSE /\ Stay([seen EXCEPT ![t].cached = CachesEmpty(visible)], list, t)
           /\ UNCHANGED queues
  BY DEF deliver_pending_mach, Told
<1> HIDE DEF own, visible, seen, mine, first
<1>2. \/ Stay(receives, list, t) /\ UNCHANGED queues
      \/ End(seen, list, t) /\ UNCHANGED queues
      \/ /\ mine # {} /\ End(seen, list, t)
         /\ queues' = [queues EXCEPT ![first] = Tail(@)]
      \/ /\ own.object # NoObject /\ UNCHANGED queues
         /\ Stay([seen EXCEPT ![t].cached = CachesEmpty(visible)], list, t)
  BY <1>1
<1> QED BY <1>2 DEF own, visible, seen, mine, first

\* Only the thread that is offered a message changes its state.
LEMMA DeliverTurns ==
    ASSUME NEW receives, NEW list, NEW t,
           End(receives, list, t) \/ deliver_pending_mach(receives, list, t)
    PROVE  \E v : threads' = [threads EXCEPT ![t] = v]
<1>1. ASSUME NEW r, NEW l, End(r, l, t) \/ Stay(r, l, t)
      PROVE  \E v : threads' = [threads EXCEPT ![t] = v]
  BY <1>1 DEF End, Stay
<1>2. deliver_pending_mach(receives, list, t) => \E r, l : End(r, l, t) \/ Stay(r, l, t)
  BY DEF deliver_pending_mach
<1> QED BY <1>1, <1>2

\* The message is taken from a queue that has one.
LEMMA MineVisible ==
    ASSUME MembersOK(members), NEW o, NEW S \in SUBSET VisibleQueues(o), S # {}
    PROVE  LET first == Head(Kept(Walk(o), S))
           IN  first \in S /\ first \in Ports /\ queues[first] # << >>
<1> DEFINE w == Walk(o)
           kept == Kept(w, S)
<1>1. w \in Seq(Ports) BY WalkList
<1>2. S \subseteq Range(w) /\ \A p \in S : p \in Ports /\ queues[p] # << >> BY VisibleQuiet
<1> HIDE DEF w
<1>3. kept \in Seq(Ports) /\ Range(kept) = Range(w) \cap S BY <1>1, KeptList
<1>4. kept # << >> /\ Head(kept) \in Range(kept)
  <2> HIDE DEF kept
  <2> QED BY <1>2, <1>3, NoRange
<1> HIDE DEF kept
<1>5. Head(kept) \in S /\ Head(kept) \in Ports /\ queues[Head(kept)] # << >> BY <1>2, <1>3, <1>4
<1> QED BY <1>5 DEF kept, w

LEMMA EndOK ==
    ASSUME RInv, NEW receives, NEW list, NEW t \in DOMAIN receives, End(receives, list, t),
           ReceivesOK(receives, queues, members), OrderOK(list, DOMAIN receives, members),
           queues' \in [Ports -> Seq(mix.sizes)],
           \A p \in Ports : queues[p] = << >> => queues'[p] = << >>,
           UNCHANGED <<members, life, sent, mix>>
    PROVE  RInv'
<1>1. /\ pending' = Without(receives, {t}) /\ order' = Erased(list, {Receiver(t)})
      /\ threads' = [threads EXCEPT ![t] = "running"]
  BY DEF End
<1>2. t \in Threads BY DEF ReceivesOK
<1>3. /\ DOMAIN pending' = DOMAIN receives \ {t}
      /\ \A u \in DOMAIN pending' : pending'[u] = receives[u]
  BY <1>1 DEF Without
<1>4. OrderOK(order', DOMAIN pending', members') BY <1>1, <1>2, <1>3, EraseReceiver
<1>5. ASSUME NEW u \in DOMAIN pending' PROVE ReceiveOK(receives[u], queues', members)
  <2>1. ReceiveOK(receives[u], queues, members) BY <1>3 DEF ReceivesOK
  <2> QED BY <2>1, StaysOK
<1>6. \A u \in DOMAIN pending' : ReceiveOK(pending'[u], queues', members') /\ ReceiveRecords' = ReceiveRecords
  BY <1>3, <1>5 DEF ReceiveRecords
<1>7. ReceivesOK(pending, queues, members)'
  BY <1>3, <1>5, <1>6 DEF ReceivesOK, ReceiveOK
<1>8. threads' \in [Threads -> {"absent", "running", "waiting"}] BY <1>1, <1>2 DEF RInv
<1> QED BY <1>4, <1>7, <1>8 DEF RInv, OrderOK

LEMMA StayOK ==
    ASSUME RInv, NEW receives, NEW list, NEW t \in DOMAIN receives, Stay(receives, list, t),
           ReceivesOK(receives, queues, members), OrderOK(list, DOMAIN receives, members),
           UNCHANGED <<queues, members, life, sent, mix>>
    PROVE  RInv'
<1>1. /\ pending' = receives /\ order' = list
      /\ threads' = [threads EXCEPT ![t] = "waiting"]
  BY DEF Stay
<1>2. t \in Threads BY DEF ReceivesOK
<1>3. threads' \in [Threads -> {"absent", "running", "waiting"}] BY <1>1, <1>2 DEF RInv
<1>4. ReceivesOK(pending, queues, members)' BY <1>1 DEF ReceivesOK, ReceiveOK, ReceiveRecords
<1>5. OrderOK(order', DOMAIN pending', members') BY <1>1
<1> QED BY <1>3, <1>4, <1>5 DEF RInv

LEMMA DeliverOK ==
    ASSUME RInv, NEW receives, NEW list, NEW t \in DOMAIN receives,
           ReceivesOK(receives, queues, members), OrderOK(list, DOMAIN receives, members),
           deliver_pending_mach(receives, list, t), UNCHANGED <<members, life, sent, mix>>
    PROVE  RInv'
<1> DEFINE own == Resolved(receives[t])
           visible == VisibleQueues(own.object)
           seen == Told(receives, t, visible)
           mine == {p \in visible : Preferred(seen, list, p, t)}
           first == Head(Kept(Walk(own.object), mine))
           kept == [seen EXCEPT ![t].cached = CachesEmpty(visible)]
<1>0. MembersOK(members) BY DEF RInv
<1>1. ReceivesOK(seen, queues, members) /\ DOMAIN seen = DOMAIN receives BY ToldOK
<1>2. seen[t] = own BY DEF Told
<1>3. mine # {} => first \in Ports /\ queues[first] # << >> BY <1>0, MineVisible
<1>4. visible = {} <=> Quiet(own.object, queues, members) BY <1>0, VisibleQuiet
<1>5. \/ Stay(receives, list, t) /\ UNCHANGED queues
      \/ End(seen, list, t) /\ UNCHANGED queues
      \/ /\ mine # {} /\ End(seen, list, t)
         /\ queues' = [queues EXCEPT ![first] = Tail(@)]
      \/ /\ own.object # NoObject /\ UNCHANGED queues
         /\ Stay(kept, list, t)
  BY DeliverCases
<1> HIDE DEF own, visible, seen, mine, first
<1>6. CASE Stay(receives, list, t) /\ UNCHANGED queues BY <1>6, StayOK
<1>7. CASE End(seen, list, t) /\ UNCHANGED queues
  <2>1. queues' \in [Ports -> Seq(mix.sizes)] BY <1>7 DEF RInv
  <2> QED BY <1>1, <1>7, <2>1, EndOK
<1>8. CASE /\ mine # {} /\ End(seen, list, t)
           /\ queues' = [queues EXCEPT ![first] = Tail(@)]
  <2>1. queues \in [Ports -> Seq(mix.sizes)] BY DEF RInv
  <2>2. Tail(queues[first]) \in Seq(mix.sizes) BY <1>3, <1>8, <2>1, TailList
  <2>3. queues' \in [Ports -> Seq(mix.sizes)] BY <1>8, <2>1, <2>2
  <2>4. \A p \in Ports : queues[p] = << >> => queues'[p] = << >> BY <1>3, <1>8, <2>1
  <2> QED BY <1>1, <1>8, <2>3, <2>4, EndOK
<1>9. CASE /\ own.object # NoObject /\ UNCHANGED queues
           /\ Stay(kept, list, t)
  <2>1. seen[t] \in ReceiveRecords BY <1>1 DEF ReceivesOK, ReceiveOK
  <2>2. /\ DOMAIN kept = DOMAIN seen /\ \A u \in DOMAIN seen \ {t} : kept[u] = seen[u]
        /\ kept[t] = [seen[t] EXCEPT !.cached = CachesEmpty(visible)]
    BY <1>1
  <2>3. CachesEmpty(visible) \in BOOLEAN /\ (CachesEmpty(visible) <=> visible = {})
    BY DEF CachesEmpty
  <2>4. /\ kept[t] \in ReceiveRecords /\ kept[t].object = own.object
        /\ kept[t].cached => visible = {}
    BY <1>2, <2>1, <2>2, <2>3 DEF ReceiveRecords
  <2>5. ReceiveOK(kept[t], queues, members) BY <1>4, <1>9, <2>4 DEF ReceiveOK
  <2> HIDE DEF kept
  <2>6. ReceivesOK(kept, queues, members) BY <1>1, <2>2, <2>5 DEF ReceivesOK
  <2>7. t \in DOMAIN kept /\ OrderOK(list, DOMAIN kept, members) BY <1>1, <2>2
  <2> QED BY <1>9, <2>6, <2>7, StayOK
<1> QED BY <1>5, <1>6, <1>7, <1>8, <1>9

LEMMA ReceiveStep ==
    ASSUME RInv, UNCHANGED mix, NEW t \in mix.threads, Receive(t)
    PROVE  RInv'
<1>0. PICK name \in mix.objects, size \in mix.sizes, interval \in {Forever} \cup mix.intervals :
          mach_msg_receive(t, name, size, interval)
  BY DEF Receive
<1> DEFINE object == IF life[name] = "live" THEN name ELSE NoObject
           receive == [name |-> name, object |-> object, size |-> size,
                       deadline |-> interval, cached |-> FALSE]
           receives == [u \in DOMAIN pending \cup {t} |->
                           IF u = t THEN receive ELSE pending[u]]
           list == Append(Erased(order, {Receiver(t)}), Receiver(t))
<1>1. /\ t \in Threads /\ name \in Objects /\ interval \in Int
      /\ mix.objects \subseteq Objects
  BY ReceiveAssumption DEF RInv, Objects, Forever
<1>2. /\ \/ End(receives, list, t) /\ UNCHANGED queues
         \/ deliver_pending_mach(receives, list, t)
      /\ UNCHANGED <<members, life, sent>>
  BY <1>0 DEF mach_msg_receive
<1>3. receive \in ReceiveRecords /\ ~receive.cached BY <1>1 DEF ReceiveRecords
<1>4. /\ DOMAIN receives = DOMAIN pending \cup {t} /\ receives[t] = receive
      /\ \A u \in DOMAIN pending \ {t} : receives[u] = pending[u]
  OBVIOUS
<1>5. OrderOK(list, DOMAIN receives, members)
  <2>1. OrderOK(order, DOMAIN pending, members) BY DEF RInv
  <2>2. OrderOK(Erased(order, {Receiver(t)}), DOMAIN pending \ {t}, members)
    BY <1>1, <2>1, EraseReceiver
  <2>3. OrderOK(list, (DOMAIN pending \ {t}) \cup {t}, members)
    BY <1>1, <2>2, QueueReceiver
  <2>4. (DOMAIN pending \ {t}) \cup {t} = DOMAIN receives BY <1>4
  <2> HIDE DEF list, receives
  <2> QED BY <2>3, <2>4
<1> HIDE DEF object, receive, receives, list
<1>6. ReceivesOK(receives, queues, members)
  <2>1. ReceiveOK(receive, queues, members) BY <1>3 DEF ReceiveOK
  <2>2. ReceivesOK(pending, queues, members) BY DEF RInv
  <2>3. DOMAIN receives \subseteq Threads BY <1>1, <1>4, <2>2 DEF ReceivesOK
  <2>4. \A u \in DOMAIN receives : ReceiveOK(receives[u], queues, members)
    BY <1>4, <2>1, <2>2 DEF ReceivesOK
  <2> QED BY <2>3, <2>4 DEF ReceivesOK
<1>7. t \in DOMAIN receives BY <1>4
<1>8. CASE End(receives, list, t) /\ UNCHANGED queues
  <2>1. queues' \in [Ports -> Seq(mix.sizes)] BY <1>8 DEF RInv
  <2> QED BY <1>2, <1>5, <1>6, <1>7, <1>8, <2>1, EndOK
<1>9. CASE deliver_pending_mach(receives, list, t)
  BY <1>2, <1>5, <1>6, <1>7, <1>9, DeliverOK
<1> QED BY <1>2, <1>8, <1>9

LEMMA DeliverStep ==
    ASSUME RInv, UNCHANGED mix, NEW t, deliver_pending_mach_if_ready(t)
    PROVE  RInv'
<1>1. /\ t \in DOMAIN pending /\ deliver_pending_mach(pending, order, t)
      /\ UNCHANGED <<members, life, sent>>
  BY DEF deliver_pending_mach_if_ready
<1>2. ReceivesOK(pending, queues, members) /\ OrderOK(order, DOMAIN pending, members) BY DEF RInv
<1> QED BY <1>1, <1>2, DeliverOK

LEMMA AdvanceStep ==
    ASSUME RInv, UNCHANGED mix, advance_time
    PROVE  RInv'
<1> DEFINE passed(r) == [r EXCEPT !.deadline = IF @ > 0 THEN @ - 1 ELSE @]
<1>1. /\ pending' = [t \in DOMAIN pending |-> passed(pending[t])]
      /\ UNCHANGED <<queues, members, order, threads, life, sent, mix>>
  BY DEF advance_time
<1>2. ASSUME NEW r, ReceiveOK(r, queues, members) PROVE ReceiveOK(passed(r), queues, members)
  <2>1. /\ passed(r) \in ReceiveRecords /\ passed(r).cached = r.cached
        /\ passed(r).object = r.object
    BY <1>2 DEF ReceiveOK, ReceiveRecords
  <2> HIDE DEF passed
  <2> QED BY <1>2, <2>1 DEF ReceiveOK
<1> HIDE DEF passed
<1>3. DOMAIN pending' = DOMAIN pending /\ \A t \in DOMAIN pending : pending'[t] = passed(pending[t])
  BY <1>1
<1>4. ReceivesOK(pending, queues, members) BY DEF RInv
<1>5. ReceivesOK(pending', queues, members) BY <1>2, <1>3, <1>4 DEF ReceivesOK
<1>6. ReceivesOK(pending, queues, members)' BY <1>1, <1>5 DEF ReceivesOK, ReceiveOK, ReceiveRecords
<1> QED BY <1>1, <1>3, <1>6 DEF RInv, OrderOK

\* A step that makes every cached answer stale, or changes no receive.
LEMMA QueuesOK ==
    ASSUME RInv, UNCHANGED <<threads, mix>>,
           \/ pending' = NewGeneration(pending)
           \/ /\ pending' = pending
              /\ \A p \in Ports : queues[p] = << >> => queues'[p] = << >>
              /\ \A o \in Objects, p \in Ports : Sees(o, p, members') => Sees(o, p, members),
           queues' \in [Ports -> Seq(mix.sizes)], MembersOK(members'),
           life' \in [Objects -> {"new", "live", "dead"}], sent' \in 0 .. MaxMessages,
           OrderOK(order', DOMAIN pending, members')
    PROVE  RInv'
<1>1. ReceivesOK(pending, queues, members) BY DEF RInv
<1>2. ReceivesOK(pending', queues', members') /\ DOMAIN pending' = DOMAIN pending
  <2>1. CASE pending' = NewGeneration(pending) BY <1>1, <2>1, NewGenerationOK
  <2>2. CASE /\ pending' = pending
             /\ \A p \in Ports : queues[p] = << >> => queues'[p] = << >>
             /\ \A o \in Objects, p \in Ports : Sees(o, p, members') => Sees(o, p, members)
    <3>1. ASSUME NEW t \in DOMAIN pending PROVE ReceiveOK(pending[t], queues', members')
      <4>1. ReceiveOK(pending[t], queues, members) BY <1>1 DEF ReceivesOK
      <4>2. \A p \in Ports : Sees(NoObject, p, members') => Sees(NoObject, p, members)
        BY ReceiveAssumption DEF Sees
      <4>3. pending[t].object \in Objects \cup {NoObject} BY <4>1 DEF ReceiveOK, ReceiveRecords
      <4>4. \A p \in Ports : Sees(pending[t].object, p, members') => Sees(pending[t].object, p, members)
        BY <2>2, <4>2, <4>3
      <4> QED BY <2>2, <4>1, <4>4, StaysOK
    <3> QED BY <1>1, <2>2, <3>1 DEF ReceivesOK
  <2> QED BY <2>1, <2>2
<1>3. ReceivesOK(pending, queues, members)'
  BY <1>2 DEF ReceivesOK, ReceiveOK, ReceiveRecords
<1> QED BY <1>2, <1>3 DEF RInv, MembersOK, OrderOK

LEMMA EnqueueStep ==
    ASSUME RInv, UNCHANGED mix, NEW p \in Ports, NEW size \in mix.sizes,
           enqueue_mach_message(p, size)
    PROVE  RInv'
<1>1. /\ sent < MaxMessages /\ sent' = sent + 1
      /\ queues' = [queues EXCEPT ![p] = Append(@, size)]
      /\ pending' = NewGeneration(pending) /\ UNCHANGED <<members, order, threads, life, mix>>
  BY DEF enqueue_mach_message
<1>2. queues \in [Ports -> Seq(mix.sizes)] /\ sent \in 0 .. MaxMessages BY DEF RInv
<1>3. Append(queues[p], size) \in Seq(mix.sizes) BY <1>2, AppendList
<1>4. queues' \in [Ports -> Seq(mix.sizes)] BY <1>1, <1>2, <1>3
<1>5. sent' \in 0 .. MaxMessages BY <1>1, <1>2, ReceiveAssumption
<1>6. MembersOK(members') /\ OrderOK(order', DOMAIN pending, members') BY <1>1 DEF RInv
<1> QED BY <1>1, <1>4, <1>5, <1>6, QueuesOK DEF RInv

LEMMA AllocateStep ==
    ASSUME RInv, UNCHANGED mix, NEW o \in Objects, mach_port_allocate(o)
    PROVE  RInv'
<1>1. /\ life' = [life EXCEPT ![o] = "live"]
      /\ UNCHANGED <<queues, members, order, pending, threads, sent, mix>>
  BY DEF mach_port_allocate
<1>2. life' \in [Objects -> {"new", "live", "dead"}] BY <1>1 DEF RInv
<1>3. MembersOK(members') /\ OrderOK(order', DOMAIN pending, members') BY <1>1 DEF RInv
<1> QED BY <1>1, <1>2, <1>3, QueuesOK DEF RInv

-----------------------------------------------------------------------------
(***************************************************************************)
(* Sets and ports.                                                         *)
(***************************************************************************)
LEMMA InsertStep ==
    ASSUME RInv, UNCHANGED mix, NEW s \in PortSets, NEW p \in Ports, insert_member(s, p)
    PROVE  RInv'
<1>1. /\ p \notin Range(members[s]) /\ members' = [members EXCEPT ![s] = Append(@, p)]
      /\ order' = Append(order, Link(s, p)) /\ pending' = NewGeneration(pending)
      /\ UNCHANGED <<queues, threads, life, sent, mix>>
  BY DEF insert_member
<1>2. members \in [PortSets -> Seq(Ports)] /\ \A r \in PortSets : IsInjective(members[r])
  BY DEF RInv, MembersOK
<1> DEFINE a == Append(members[s], p)
<1>3. a \in Seq(Ports) /\ Range(a) = Range(members[s]) \cup {p} /\ IsInjective(a)
  BY <1>1, <1>2, AppendList
<1>4. members' = [members EXCEPT ![s] = a] BY <1>1
<1> HIDE DEF a
<1>5. MembersOK(members') BY <1>2, <1>3, <1>4 DEF MembersOK
<1>6. \A r \in PortSets, q \in Ports :
          q \in Range(members'[r]) <=> q \in Range(members[r]) \/ (r = s /\ q = p)
  BY <1>2, <1>3, <1>4
<1>7. OrderOK(order, DOMAIN pending, members) BY DEF RInv
<1>8. OrderOK(order', DOMAIN pending, members') BY <1>1, <1>6, <1>7, QueueLink
<1> QED BY <1>1, <1>5, <1>8, QueuesOK DEF RInv

\* Memberships that go, with their links.
LEMMA LeavingOK ==
    ASSUME RInv, NEW gone \in SUBSET Links, NEW l, l \in [PortSets -> Seq(Ports)],
           \A s \in PortSets : IsInjective(l[s]),
           \A s \in PortSets, p \in Ports :
               p \in Range(l[s]) <=> p \in Range(members[s]) /\ Link(s, p) \notin gone
    PROVE  /\ MembersOK(l) /\ OrderOK(Erased(order, gone), DOMAIN pending, l)
           /\ \A o \in Objects, p \in Ports : Sees(o, p, l) => Sees(o, p, members)
<1>1. OrderOK(order, DOMAIN pending, members) BY DEF RInv
<1>2. OrderOK(Erased(order, gone), DOMAIN pending, l) BY <1>1, EraseLinks
<1> QED BY <1>2 DEF MembersOK, Sees

LEMMA DropMember ==
    ASSUME RInv, NEW s \in PortSets, NEW p \in Ports
    PROVE  LET d == Erased(members[s], {p})
           IN  d \in Seq(Ports) /\ Range(d) = Range(members[s]) \ {p} /\ IsInjective(d)
<1>1. members[s] \in Seq(Ports) /\ IsInjective(members[s]) BY DEF RInv, MembersOK
<1> QED BY <1>1, ErasedList

LEMMA ExtractStep ==
    ASSUME RInv, UNCHANGED mix, NEW s \in PortSets, NEW p \in Ports, extract_member(s, p)
    PROVE  RInv'
<1> DEFINE d == Erased(members[s], {p})
<1>1. /\ members' = [members EXCEPT ![s] = d]
      /\ order' = Erased(order, {Link(s, p)}) /\ pending' = NewGeneration(pending)
      /\ UNCHANGED <<queues, threads, life, sent, mix>>
  BY DEF extract_member
<1>2. d \in Seq(Ports) /\ Range(d) = Range(members[s]) \ {p} /\ IsInjective(d) BY DropMember
<1>3. members \in [PortSets -> Seq(Ports)] /\ \A r \in PortSets : IsInjective(members[r])
  BY DEF RInv, MembersOK
<1> HIDE DEF d
<1>4. members' \in [PortSets -> Seq(Ports)] /\ \A r \in PortSets : IsInjective(members'[r])
  BY <1>1, <1>2, <1>3
<1>5. \A r \in PortSets, q \in Ports :
          q \in Range(members'[r]) <=> q \in Range(members[r]) /\ Link(r, q) \notin {Link(s, p)}
  <2> SUFFICES ASSUME NEW r \in PortSets, NEW q \in Ports
               PROVE  q \in Range(members'[r]) <=> q \in Range(members[r]) /\ Link(r, q) # Link(s, p)
    OBVIOUS
  <2>1. Link(r, q) = Link(s, p) <=> r = s /\ q = p BY DEF Link
  <2> QED BY <1>1, <1>2, <1>3, <2>1
<1>6. {Link(s, p)} \in SUBSET Links BY DEF Links
<1>7. MembersOK(members') /\ OrderOK(order', DOMAIN pending, members')
  BY <1>1, <1>4, <1>5, <1>6, LeavingOK
<1> QED BY <1>1, <1>7, QueuesOK DEF RInv

\* A port leaves all its sets.
LEMMA LeftOK ==
    ASSUME RInv, NEW p \in Ports
    PROVE  /\ LinksOf(p) \in SUBSET Links
           /\ LeftSets(p) \in [PortSets -> Seq(Ports)]
           /\ \A s \in PortSets : IsInjective(LeftSets(p)[s])
           /\ \A s \in PortSets : Range(LeftSets(p)[s]) = Range(members[s]) \ {p}
           /\ \A s \in PortSets, q \in Ports :
                  q \in Range(LeftSets(p)[s]) <=> q \in Range(members[s]) /\ Link(s, q) \notin LinksOf(p)
<1> DEFINE d(s) == Erased(members[s], {p})
<1>1. LinksOf(p) \in SUBSET Links BY DEF LinksOf, Links
<1>2. \A s \in PortSets, q \in Ports : Link(s, q) \in Range(order) <=> q \in Range(members[s])
  BY DEF RInv, OrderOK
<1>3. members \in [PortSets -> Seq(Ports)] /\ \A s \in PortSets : IsInjective(members[s])
  BY DEF RInv, MembersOK
<1>4. \A s \in PortSets, q \in Ports : Link(s, q) \in LinksOf(p) <=> q = p /\ p \in Range(members[s])
  BY <1>2, Distinct DEF LinksOf
<1>5. \A s \in PortSets :
          d(s) \in Seq(Ports) /\ Range(d(s)) = Range(members[s]) \ {p} /\ IsInjective(d(s))
  BY DropMember
<1>6. LeftSets(p) = [s \in PortSets |-> IF Link(s, p) \in LinksOf(p) THEN d(s) ELSE members[s]]
  BY DEF LeftSets
<1> HIDE DEF d
<1>7. LeftSets(p) \in [PortSets -> Seq(Ports)] /\ \A s \in PortSets : IsInjective(LeftSets(p)[s])
  BY <1>3, <1>5, <1>6
<1>8. \A s \in PortSets : Range(LeftSets(p)[s]) = Range(members[s]) \ {p}
  <2> SUFFICES ASSUME NEW s \in PortSets PROVE Range(LeftSets(p)[s]) = Range(members[s]) \ {p}
    OBVIOUS
  <2>1. CASE Link(s, p) \in LinksOf(p) BY <1>5, <1>6, <2>1
  <2>2. CASE Link(s, p) \notin LinksOf(p)
    <3>1. p \notin Range(members[s]) BY <1>4, <2>2
    <3>2. LeftSets(p)[s] = members[s] BY <1>6, <2>2
    <3> QED BY <3>1, <3>2
  <2> QED BY <2>1, <2>2
<1> QED BY <1>1, <1>4, <1>7, <1>8

LEMMA MoveStep ==
    ASSUME RInv, UNCHANGED mix, NEW p \in Ports, NEW s \in PortSets \cup {NoObject}, move_member(p, s)
    PROVE  RInv'
<1> DEFINE left == LeftSets(p)
           list == Erased(order, LinksOf(p))
<1>1. /\ members' = [r \in PortSets |-> IF r = s THEN Append(left[r], p) ELSE left[r]]
      /\ order' = list \o (IF s = NoObject THEN << >> ELSE <<Link(s, p)>>)
      /\ pending' = NewGeneration(pending)
      /\ UNCHANGED <<queues, threads, life, sent, mix>>
  BY DEF move_member
<1>2. /\ left \in [PortSets -> Seq(Ports)] /\ \A r \in PortSets : IsInjective(left[r])
      /\ \A r \in PortSets : Range(left[r]) = Range(members[r]) \ {p}
      /\ OrderOK(list, DOMAIN pending, left) /\ MembersOK(left)
  BY LeftOK, LeavingOK
<1> HIDE DEF left, list
<1>3. list \in Seq(Places) BY <1>2 DEF OrderOK
<1>4. CASE s = NoObject
  <2>1. s \notin PortSets BY <1>4, ReceiveAssumption
  <2>2. members' = left BY <1>1, <1>2, <2>1
  <2>3. order' = list BY <1>1, <1>3, <1>4
  <2> QED BY <1>1, <1>2, <2>2, <2>3, QueuesOK DEF RInv
<1>5. CASE s # NoObject
  <2>1. s \in PortSets BY <1>5
  <2>2. order' = Append(list, Link(s, p)) BY <1>1, <1>3, <1>5
  <2> DEFINE a == Append(left[s], p)
  <2>3. a \in Seq(Ports) /\ Range(a) = Range(left[s]) \cup {p} /\ IsInjective(a)
    BY <1>2, <2>1, AppendList
  <2>4. members' = [left EXCEPT ![s] = a] BY <1>1, <1>2
  <2> HIDE DEF a
  <2>5. MembersOK(members') BY <1>2, <2>3, <2>4 DEF MembersOK
  <2>6. \A r \in PortSets, q \in Ports :
            q \in Range(members'[r]) <=> q \in Range(left[r]) \/ (r = s /\ q = p)
    BY <1>2, <2>1, <2>3, <2>4
  <2>7. OrderOK(order', DOMAIN pending, members') BY <1>2, <2>1, <2>2, <2>6, QueueLink
  <2> QED BY <1>1, <2>5, <2>7, QueuesOK DEF RInv
<1> QED BY <1>4, <1>5

LEMMA DestroyStep ==
    ASSUME RInv, UNCHANGED mix, NEW p \in Ports, destroy_port(p)
    PROVE  RInv'
<1>1. /\ life' = [life EXCEPT ![p] = "dead"] /\ queues' = [queues EXCEPT ![p] = << >>]
      /\ members' = LeftSets(p) /\ order' = Erased(order, LinksOf(p))
      /\ pending' = NewGeneration(pending) \/ pending' = pending
      /\ UNCHANGED <<threads, sent, mix>>
  BY DEF destroy_port
<1>2. queues \in [Ports -> Seq(mix.sizes)] /\ life \in [Objects -> {"new", "live", "dead"}]
  BY DEF RInv
<1>3. << >> \in Seq(mix.sizes) OBVIOUS
<1>4. /\ queues' \in [Ports -> Seq(mix.sizes)] /\ life' \in [Objects -> {"new", "live", "dead"}]
      /\ \A q \in Ports : queues[q] = << >> => queues'[q] = << >>
  BY <1>1, <1>2, <1>3
<1>5. /\ MembersOK(members') /\ OrderOK(order', DOMAIN pending, members')
      /\ \A o \in Objects, q \in Ports : Sees(o, q, members') => Sees(o, q, members)
  BY <1>1, LeftOK, LeavingOK
<1> QED BY <1>1, <1>4, <1>5, QueuesOK DEF RInv

LEMMA EraseSetStep ==
    ASSUME RInv, UNCHANGED mix, NEW s \in PortSets, erase_port_set(s)
    PROVE  RInv'
<1> DEFINE gone == {Link(s, p) : p \in Range(members[s])}
<1>1. /\ life' = [life EXCEPT ![s] = "dead"] /\ members' = [members EXCEPT ![s] = << >>]
      /\ order' = Erased(order, gone) /\ pending' = NewGeneration(pending)
      /\ UNCHANGED <<queues, threads, sent, mix>>
  BY DEF erase_port_set
<1>2. members \in [PortSets -> Seq(Ports)] /\ \A r \in PortSets : IsInjective(members[r])
  BY DEF RInv, MembersOK
<1>3. Range(members[s]) \in SUBSET Ports BY <1>2, NoRange
<1>4. gone \in SUBSET Links BY <1>3 DEF Links
<1>5. \A r \in PortSets, q \in Ports : Link(r, q) \in gone <=> r = s /\ q \in Range(members[s])
  <2> SUFFICES ASSUME NEW r \in PortSets, NEW q \in Ports
               PROVE  Link(r, q) \in gone <=> r = s /\ q \in Range(members[s])
    OBVIOUS
  <2>1. \A p : Link(r, q) = Link(s, p) <=> r = s /\ q = p BY DEF Link
  <2> QED BY <2>1
<1>6. << >> \in Seq(Ports) OBVIOUS
<1>7. members' \in [PortSets -> Seq(Ports)] /\ \A r \in PortSets : IsInjective(members'[r])
  BY <1>1, <1>2, <1>6, EmptyRange
<1>8. \A r \in PortSets, q \in Ports :
          q \in Range(members'[r]) <=> q \in Range(members[r]) /\ Link(r, q) \notin gone
  <2> HIDE DEF gone
  <2> QED BY <1>1, <1>2, <1>5, EmptyRange
<1> HIDE DEF gone
<1>9. MembersOK(members') /\ OrderOK(order', DOMAIN pending, members')
  BY <1>1, <1>4, <1>7, <1>8, LeavingOK
<1>10. life' \in [Objects -> {"new", "live", "dead"}] BY <1>1 DEF RInv
<1> QED BY <1>1, <1>9, <1>10, QueuesOK DEF RInv

-----------------------------------------------------------------------------
LEMMA TerminateStep ==
    ASSUME RInv, UNCHANGED mix, NEW t \in Threads, NEW target \in Threads, thread_terminate(t, target)
    PROVE  RInv'
<1>1. /\ threads' = [threads EXCEPT ![target] = "absent"]
      /\ UNCHANGED <<queues, members, life, sent, mix>>
      /\ \/ pending' = pending /\ order' = order
         \/ pending' = Without(pending, {t}) /\ order' = Erased(order, {Receiver(t)})
  BY DEF thread_terminate
<1>2. threads' \in [Threads -> {"absent", "running", "waiting"}] BY <1>1 DEF RInv
<1>3. ReceivesOK(pending, queues, members) /\ OrderOK(order, DOMAIN pending, members) BY DEF RInv
<1>4. OrderOK(order', DOMAIN pending', members) /\ ReceivesOK(pending', queues, members)
  <2>1. CASE pending' = pending /\ order' = order BY <1>3, <2>1
  <2>2. CASE pending' = Without(pending, {t}) /\ order' = Erased(order, {Receiver(t)})
    <3>1. /\ DOMAIN pending' = DOMAIN pending \ {t}
          /\ \A u \in DOMAIN pending' : pending'[u] = pending[u]
      BY <2>2 DEF Without
    <3> QED BY <1>3, <2>2, <3>1, EraseReceiver DEF ReceivesOK
  <2> QED BY <1>1, <2>1, <2>2
<1>5. ReceivesOK(pending, queues, members)' BY <1>1, <1>4 DEF ReceivesOK, ReceiveOK, ReceiveRecords
<1> QED BY <1>1, <1>2, <1>4, <1>5 DEF RInv, OrderOK

LEMMA RInit == Init => RInv
<1> SUFFICES ASSUME Init PROVE RInv OBVIOUS
<1>1. << >> \in Seq(mix.sizes) /\ << >> \in Seq(Ports) /\ << >> \in Seq(Places) /\ DOMAIN << >> = {}
  OBVIOUS
<1>2. MembersOK(members) BY <1>1, EmptyRange DEF Init, MembersOK
<1>3. OrderOK(order, DOMAIN pending, members) BY <1>1, EmptyRange DEF Init, OrderOK
<1>4. ReceivesOK(pending, queues, members) BY <1>1 DEF Init, ReceivesOK
<1>5. sent \in 0 .. MaxMessages BY ReceiveAssumption DEF Init
<1> QED BY <1>1, <1>2, <1>3, <1>4, <1>5 DEF Init, RInv

LEMMA RStep == RInv /\ [Next]_vars => RInv'
<1> SUFFICES ASSUME RInv, [Next]_vars PROVE RInv' OBVIOUS
<1>0. mix.threads \subseteq Threads /\ mix.objects \subseteq Objects
  BY ReceiveAssumption DEF RInv, Objects
<1>1. CASE UNCHANGED vars
  BY <1>1 DEF RInv, vars, ReceivesOK, ReceiveOK, ReceiveRecords, OrderOK, MembersOK
<1>2. CASE Next
  <2>0. UNCHANGED mix BY <1>2 DEF Next
  <2>1. CASE \E t \in mix.threads : Receive(t) \/ deliver_pending_mach_if_ready(t)
    BY <2>0, <2>1, ReceiveStep, DeliverStep
  <2>2. CASE \E p \in Ports, size \in mix.sizes : enqueue_mach_message(p, size)
    BY <2>0, <2>2, EnqueueStep
  <2>3. CASE Topology
    BY <1>0, <2>0, <2>3, AllocateStep, InsertStep, ExtractStep, MoveStep, DestroyStep, EraseSetStep
    DEF Topology
  <2>4. CASE \E t \in mix.threads : thread_create(t)
    <3>1. PICK t \in mix.threads : thread_create(t) BY <2>4
    <3>2. /\ threads' = [threads EXCEPT ![t] = "running"]
          /\ UNCHANGED <<queues, members, order, pending, life, sent, mix>>
      BY <2>0, <3>1 DEF thread_create
    <3>3. threads' \in [Threads -> {"absent", "running", "waiting"}] BY <3>2 DEF RInv
    <3> QED BY <3>2, <3>3 DEF RInv, ReceivesOK, ReceiveOK, ReceiveRecords, OrderOK, MembersOK
  <2>5. CASE \E t, target \in mix.threads : thread_terminate(t, target)
    BY <1>0, <2>0, <2>5, TerminateStep
  <2>6. CASE advance_time BY <2>0, <2>6, AdvanceStep
  <2> QED BY <1>2, <2>1, <2>2, <2>3, <2>4, <2>5, <2>6 DEF Next
<1> QED BY <1>1, <1>2 DEF Next

\* The receives, the wait-queue order and the sets agree in every reachable state:
\* the inductive invariant behind the theorems below.
THEOREM ReceivesAgree == Spec => []RInv
BY RInit, RStep, PTL DEF Spec

\* The variables keep the shape of the C++ state, and a blocked receive has one
\* place in the wait-queue order (deliver_pending_mach_locked relies on it).
THEOREM TypeCorrect == Spec => []TypeOK
<1>1. RInv => TypeOK
  <2> SUFFICES ASSUME RInv PROVE TypeOK OBVIOUS
  <2>1. order \in Seq(Places) /\ IsInjective(order) BY DEF RInv, OrderOK
  <2>2. Range(order) \in SUBSET Places BY <2>1, NoRange
  <2>3. DOMAIN pending \subseteq Threads BY DEF RInv, ReceivesOK
  <2>4. Range(order) \subseteq {Receiver(t) : t \in DOMAIN pending} \cup Links
    BY <2>2 DEF RInv, OrderOK, Places
  <2>5. {Receiver(t) : t \in DOMAIN pending} \subseteq Range(order)
    BY <2>3 DEF RInv, OrderOK
  <2>6. \A t \in DOMAIN pending : pending[t] \in ReceiveRecords
    BY DEF RInv, ReceivesOK, ReceiveOK
  <2> QED BY <2>1, <2>3, <2>4, <2>5, <2>6 DEF RInv, TypeOK, MembersOK, ReceiveRecords
<1> QED BY <1>1, ReceivesAgree, PTL

\* mach_port_sets and mach_port_set_links_by_member describe one topology, and a
\* receive that the main loop skips because the queue generation is the one it observed
\* has no message to find.
THEOREM TopologyAgrees == Spec => []TopologyExact
<1>1. RInv => TopologyExact
  <2> SUFFICES ASSUME RInv PROVE TopologyExact OBVIOUS
  <2>1. LinksMatchMembers BY DEF RInv, OrderOK, LinksMatchMembers
  <2>2. ASSUME NEW t \in DOMAIN pending, pending[t].cached
        PROVE  VisibleQueues(pending[t].object) = {}
    <3>1. Quiet(pending[t].object, queues, members) BY <2>2 DEF RInv, ReceivesOK, ReceiveOK
    <3>2. MembersOK(members) BY DEF RInv
    <3> QED BY <3>1, <3>2, VisibleQuiet
  <2> QED BY <2>1, <2>2 DEF TopologyExact, CachedEmptyIsEmpty
<1> QED BY <1>1, ReceivesAgree, PTL

-----------------------------------------------------------------------------
(***************************************************************************)
(* The compound FIFO.                                                      *)
(***************************************************************************)
LEMMA PlaceOf ==
    ASSUME NEW list \in Seq(Places), IsInjective(list), NEW i \in DOMAIN list
    PROVE  Place(list, list[i]) = i
<1>1. \A j \in DOMAIN list : list[j] = list[i] => j = i BY DEF IsInjective
<1> QED BY <1>1 DEF Place

LEMMA PlaceIn ==
    ASSUME NEW list \in Seq(Places), NEW e \in Range(list)
    PROVE  Place(list, e) \in DOMAIN list /\ list[Place(list, e)] = e
<1>1. \E i \in DOMAIN list : list[i] = e BY DEF Range
<1> QED BY <1>1 DEF Place

\* The element of p's wait queue that comes first is the one through which the
\* preferred receiver waits, and among the receivers of one set it is the first.
LEMMA PreferredFirst ==
    ASSUME RInv, NEW p \in Ports, NEW t \in Threads, NEW seen,
           seen = [u \in DOMAIN pending |-> Resolved(pending[u])],
           Preferred(seen, order, p, t)
    PROVE  t = FirstWaiter(p)
<1> DEFINE D == DOMAIN pending
           At(e) == Place(order, e)
           W == Waiters(seen, order, p)
           S == Direct(p) \cup {Link(s, p) : s \in {r \in PortSets : Direct(r) # {}}}
           first == Elements(p)
<1>1. /\ order \in Seq(Places) /\ IsInjective(order) /\ D \subseteq Threads
      /\ \A u \in D : Receiver(u) \in Range(order)
      /\ DOMAIN order \in SUBSET Nat
  BY DEF RInv, OrderOK, ReceivesOK
<1>2. DOMAIN seen = D /\ \A u \in D : seen[u].object = Resolved(pending[u]).object OBVIOUS
<1>3. \A o : Direct(o) = {Receiver(u) : u \in {v \in D : seen[v].object = o}}
  BY <1>2 DEF Direct
<1>4. \A i \in DOMAIN order : At(order[i]) = i BY <1>1, PlaceOf
<1>5. \A e \in Range(order) : At(e) \in DOMAIN order /\ order[At(e)] = e BY <1>1, PlaceIn
<1>6. W = {<<At(Receiver(u)), At(Receiver(u)), u>> : u \in {v \in D : seen[v].object = p}}
          \cup {<<At(Link(seen[u].object, p)), At(Receiver(u)), u>> :
                  u \in {v \in D : Link(seen[v].object, p) \in Range(order)}}
  BY <1>2 DEF Waiters
<1>7. PICK w \in W : w[3] = t /\ \A o \in W : Before(w, o) BY DEF Preferred
<1>8. first = Kept(order, S) BY DEF Elements
<1>9. \A s : Link(s, p) \in Range(order) => s \in PortSets
  <2> SUFFICES ASSUME NEW s, Link(s, p) \in Range(order) PROVE s \in PortSets OBVIOUS
  <2>1. Link(s, p) \in Places BY <1>1, NoRange
  <2>2. Link(s, p) \in Links BY <2>1, Distinct DEF Places
  <2>3. PICK r \in PortSets, q \in Ports : Link(s, p) = Link(r, q) BY <2>2 DEF Links
  <2> QED BY <2>3, Distinct
<1>10. \A u \in D : seen[u].object = p => <<At(Receiver(u)), At(Receiver(u)), u>> \in W BY <1>6
<1>11. \A u \in D : Link(seen[u].object, p) \in Range(order) =>
           <<At(Link(seen[u].object, p)), At(Receiver(u)), u>> \in W
  BY <1>6
<1> HIDE DEF W, S, At, first
\* The place of the element through which t waits.
<1>12. \/ /\ t \in D /\ seen[t].object = p
          /\ w[1] = At(Receiver(t)) /\ w[2] = At(Receiver(t))
       \/ /\ t \in D /\ Link(seen[t].object, p) \in Range(order)
          /\ w[1] = At(Link(seen[t].object, p)) /\ w[2] = At(Receiver(t))
  BY <1>6, <1>7
<1>13. t \in D /\ w[1] \in DOMAIN order /\ w[2] \in DOMAIN order /\ order[w[2]] = Receiver(t)
  BY <1>1, <1>5, <1>12
<1>14. order[w[1]] \in S
  <2>1. CASE seen[t].object = p /\ w[1] = At(Receiver(t))
    <3>1. order[w[1]] = Receiver(t) BY <1>1, <1>5, <1>13, <2>1
    <3>2. Receiver(t) \in Direct(p) BY <1>3, <1>13, <2>1
    <3> QED BY <3>1, <3>2 DEF S
  <2>2. CASE Link(seen[t].object, p) \in Range(order) /\ w[1] = At(Link(seen[t].object, p))
    <3>1. order[w[1]] = Link(seen[t].object, p) BY <1>5, <2>2
    <3>2. Receiver(t) \in Direct(seen[t].object) BY <1>3, <1>13
    <3>3. seen[t].object \in PortSets BY <1>9, <2>2
    <3> QED BY <3>1, <3>2, <3>3 DEF S
  <2> QED BY <1>12, <2>1, <2>2
<1>15. PICK i \in DOMAIN order : /\ order[i] \in S /\ Head(first) = order[i]
                                 /\ \A j \in DOMAIN order : order[j] \in S => i <= j
  <2>1. order[w[1]] \in Range(order) BY <1>13 DEF Range
  <2>2. first # << >>
    <3>1. Range(first) = Range(order) \cap S BY <1>1, <1>8, KeptList
    <3> QED BY <1>14, <2>1, <3>1, EmptyRange
  <2> QED BY <1>1, <1>8, <2>2, KeptList
<1>16. i <= w[1] BY <1>13, <1>14, <1>15
\* No element comes before: its receiver would be preferred.
<1>17. w[1] <= i
  <2>1. CASE order[i] \in Direct(p)
    <3>1. PICK u \in D : seen[u].object = p /\ order[i] = Receiver(u) BY <1>3, <2>1
    <3>2. <<i, i, u>> \in W BY <1>4, <1>10, <1>15, <3>1
    <3>3. Before(w, <<i, i, u>>) BY <1>7, <3>2
    <3> QED BY <1>1, <1>13, <1>15, <3>3 DEF Before
  <2>2. CASE order[i] \notin Direct(p)
    <3>1. PICK s \in PortSets : Direct(s) # {} /\ order[i] = Link(s, p) BY <1>15, <2>2 DEF S
    <3>2. PICK u \in D : seen[u].object = s BY <1>3, <3>1
    <3>3. Link(s, p) \in Range(order) BY <1>15, <3>1 DEF Range
    <3>4. At(Link(s, p)) = i BY <1>4, <1>15, <3>1
    <3>5. <<i, At(Receiver(u)), u>> \in W BY <1>11, <3>2, <3>3, <3>4
    <3>6. Before(w, <<i, At(Receiver(u)), u>>) BY <1>7, <3>5
    <3> QED BY <1>1, <1>13, <1>15, <3>6 DEF Before
  <2> QED BY <2>1, <2>2
<1>18. Head(first) = order[w[1]]
  <2>1. i = w[1] BY <1>1, <1>13, <1>15, <1>16, <1>17
  <2> QED BY <1>15, <2>1
<1>19. CASE seen[t].object = p /\ w[1] = At(Receiver(t))
  <2>1. Head(first) = Receiver(t) BY <1>1, <1>5, <1>13, <1>18, <1>19
  <2>2. Receiver(t) \in Direct(p) BY <1>3, <1>13, <1>19
  <2>3. FirstWaiter(p) = Receiver(t)[2] BY <2>1, <2>2 DEF FirstWaiter, first
  <2> QED BY <2>3 DEF Receiver
<1>20. CASE Link(seen[t].object, p) \in Range(order) /\ w[1] = At(Link(seen[t].object, p))
  <2> DEFINE s == seen[t].object
             here == Kept(order, Direct(s))
  <2>1. Head(first) = Link(s, p) BY <1>5, <1>18, <1>20
  <2>2. Link(s, p) \notin Direct(p) BY <1>3, Distinct
  <2>3. Link(s, p)[2] = s BY DEF Link
  <2>4. FirstWaiter(p) = Head(here)[2] BY <2>1, <2>2, <2>3 DEF FirstWaiter, first
  <2>5. Receiver(t) \in Direct(s) BY <1>3, <1>13
  <2> HIDE DEF s
  <2>6. here # << >>
    <3>1. Range(here) = Range(order) \cap Direct(s) BY <1>1, KeptList
    <3> HIDE DEF here
    <3> QED BY <1>1, <1>13, <2>5, <3>1, EmptyRange
  <2>7. PICK j \in DOMAIN order : /\ order[j] \in Direct(s) /\ Head(here) = order[j]
                                  /\ \A k \in DOMAIN order : order[k] \in Direct(s) => j <= k
    BY <1>1, <2>6, KeptList
  <2> HIDE DEF here
  <2>8. PICK u \in D : seen[u].object = s /\ order[j] = Receiver(u) BY <1>3, <2>7
  <2>9. <<w[1], j, u>> \in W
    <3>1. At(Receiver(u)) = j BY <1>4, <2>7, <2>8
    <3> QED BY <1>11, <1>20, <2>8, <3>1 DEF s
  <2>10. Before(w, <<w[1], j, u>>) BY <1>7, <2>9
  <2>11. w[2] <= j BY <1>1, <1>13, <2>7, <2>10 DEF Before
  <2>12. j <= w[2] BY <1>13, <2>5, <2>7
  <2>13. j = w[2] BY <1>1, <1>13, <2>7, <2>11, <2>12
  <2>14. Head(here) = Receiver(t) BY <1>13, <2>7, <2>13
  <2> QED BY <2>4, <2>14 DEF Receiver
<1> QED BY <1>12, <1>19, <1>20

\* Who takes a message.
LEMMA TakenByFirst ==
    ASSUME RInv, [Next]_vars, NEW t \in Threads, NEW p \in Ports,
           threads[t] = "waiting", threads'[t] = "running", Len(queues'[p]) < Len(queues[p])
    PROVE  t = FirstWaiter(p)
<1>0. /\ threads \in [Threads -> {"absent", "running", "waiting"}]
      /\ queues \in [Ports -> Seq(mix.sizes)] /\ MembersOK(members)
      /\ \A q \in Ports : Len(queues[q]) \in Nat
  BY DEF RInv
<1>1. deliver_pending_mach_if_ready(t)
  <2>1. Next BY DEF vars
  <2>2. ASSUME NEW u \in mix.threads, Receive(u) PROVE FALSE
    <3>1. threads[u] = "running" /\ \E v : threads' = [threads EXCEPT ![u] = v]
      <4>1. ASSUME NEW r, NEW l, End(r, l, u) \/ deliver_pending_mach(r, l, u)
            PROVE  \E v : threads' = [threads EXCEPT ![u] = v]
        BY <4>1, DeliverTurns
      <4> QED BY <2>2, <4>1 DEF Receive, mach_msg_receive
    <3> QED BY <1>0, <3>1
  <2>3. ASSUME NEW u \in mix.threads, deliver_pending_mach_if_ready(u) PROVE u = t
    <3>1. \E v : threads' = [threads EXCEPT ![u] = v]
      BY <2>3, DeliverTurns DEF deliver_pending_mach_if_ready
    <3> QED BY <1>0, <3>1
  <2>4. ASSUME NEW u \in mix.threads, thread_create(u) PROVE FALSE
    BY <1>0, <2>4 DEF thread_create
  <2>5. ASSUME NEW u \in mix.threads, NEW v \in mix.threads, thread_terminate(u, v) PROVE FALSE
    BY <1>0, <2>5 DEF thread_terminate
  <2>6. UNCHANGED threads => FALSE OBVIOUS
  <2>7. Topology => UNCHANGED threads
    BY DEF Topology, mach_port_allocate, insert_member, extract_member, move_member,
           destroy_port, erase_port_set
  <2>8. (\E q \in Ports, size \in mix.sizes : enqueue_mach_message(q, size)) => UNCHANGED threads
    BY DEF enqueue_mach_message
  <2>9. advance_time => UNCHANGED threads BY DEF advance_time
  <2> QED BY <2>1, <2>2, <2>3, <2>4, <2>5, <2>6, <2>7, <2>8, <2>9 DEF Next
<1>2. t \in DOMAIN pending /\ deliver_pending_mach(pending, order, t)
  BY <1>1 DEF deliver_pending_mach_if_ready
<1> DEFINE own == Resolved(pending[t])
           visible == VisibleQueues(own.object)
           seen == Told(pending, t, visible)
           mine == {q \in visible : Preferred(seen, order, q, t)}
           first == Head(Kept(Walk(own.object), mine))
<1>3. ~UNCHANGED queues BY <1>0
<1>4. mine # {} /\ queues' = [queues EXCEPT ![first] = Tail(@)]
  BY <1>2, <1>3, DeliverCases
<1>5. first \in mine /\ first \in Ports BY <1>0, <1>4, MineVisible
<1>6. p = first
  <2> HIDE DEF mine, first
  <2> QED BY <1>0, <1>4, <1>5
<1>7. visible # {} /\ Preferred(seen, order, first, t) BY <1>5
<1>8. seen = [u \in DOMAIN pending |-> Resolved(pending[u])] BY <1>7 DEF Told
<1>9. Preferred(seen, order, p, t) BY <1>6, <1>7
<1> HIDE DEF seen
<1> QED BY <1>8, <1>9, PreferredFirst

\* A message goes to the receiver at the head of its port's compound FIFO, in which
\* receivers and sets stand in the order they came and were linked: the choice of
\* preferred_pending_mach_receiver_locked among all that poll.
THEOREM DeliveredToFirst == Spec => DeliveredInFifoOrder
<1> DEFINE Taken == \A t \in Threads, p \in Ports :
               /\ threads[t] = "waiting" /\ threads'[t] = "running"
               /\ Len(queues'[p]) < Len(queues[p])
               => t = FirstWaiter(p)
<1>1. RInv /\ [Next]_vars => [Taken]_vars BY TakenByFirst
<1>2. DeliveredInFifoOrder <=> [][Taken]_vars BY DEF DeliveredInFifoOrder
<1> HIDE DEF Taken
<1> QED BY <1>1, <1>2, ReceivesAgree, PTL DEF Spec
=============================================================================
