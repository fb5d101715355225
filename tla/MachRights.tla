---------------------------- MODULE MachRights ----------------------------
(***************************************************************************)
(* The life of Mach ports and rights in the compatibility kernel: what the *)
(* traps and MIG routines of src/kernel/mach do to the name spaces, the    *)
(* port objects, the message queues, the in-flight and kernel-held Send    *)
(* counts and the notification requests.  Every handler runs under         *)
(* mach_mutex, so each one is a single step; what makes it hard is that    *)
(* one call cascades: destroying a port discards its queue, which may end  *)
(* other ports, whose notifications go to further queues.                  *)
(*                                                                         *)
(* The kernel state is one record, so that a handler reads as the          *)
(* composition of the support routines it calls.  A task's control port is *)
(* abstracted (see Controlled); a message is the rights it carries.  A     *)
(* call the kernel refuses changes nothing and is no step.  Names never    *)
(* run out (the bound of a mix stays below LastName).                      *)
(*                                                                         *)
(* All operations together are out of TLC's reach, so a behaviour belongs  *)
(* to a client mix: the calls its guests make, drawn from Mixes once and   *)
(* for all.  The kernel never looks at it.                                 *)
(***************************************************************************)
EXTENDS IpcSpace, Sequences, SequencesExt

CONSTANTS
    Mixes,                  \* the client mixes to explore
    SharedDispositions,     \* dispositions of rights inserted or extracted
    MaxCarried,             \* port descriptors of a message
    MaxObjects, MaxMakeSends, MaxReferences    \* bounds

ASSUME RightsAssumption ==
    /\ Objects = 1 .. MaxObjects
    /\ \A m \in Mixes :
          /\ m.initial \subseteq Tasks       \* the tasks before any fork
          /\ m.operations \subseteq STRING   \* what guests call
          /\ m.carried \cup m.reply \cup m.destination \subseteq STRING
                                            \* the dispositions they use
          /\ m.chosen \subseteq Nat          \* names they ask for themselves
          /\ m.syncs \subseteq Nat           \* sync arguments of requests
          /\ m.objects \in Nat /\ m.names \in Nat /\ m.queued \in Nat
                                            \* bounds of the mix

VARIABLES
    mach,                   \* the Mach part of KernelSharedState
    mix                     \* the mix of this behaviour, which never changes

vars == <<mach, mix>>

NoObject == 0
Nobody == 0

-----------------------------------------------------------------------------
(***************************************************************************)
(* Dispositions.                                                           *)
(***************************************************************************)
Moves == {"move_receive", "move_send", "move_send_once"}

right_for_disposition ==
    [move_receive |-> "Receive", move_send |-> "Send", copy_send |-> "Send",
     make_send |-> "Send", move_send_once |-> "SendOnce",
     make_send_once |-> "SendOnce"]

source_right_for_disposition ==
    [move_receive |-> "Receive", move_send |-> "Send", copy_send |-> "Send",
     make_send |-> "Receive", move_send_once |-> "SendOnce",
     make_send_once |-> "Receive"]

-----------------------------------------------------------------------------
(***************************************************************************)
(* The state, and its small updates.                                       *)
(***************************************************************************)
Lookup(k, t, n) == k.spaces[t].entries[n]
HasRight(k, t, n, right) == t \in DOMAIN k.spaces /\ Holds(k.spaces[t], n, right)
Alive(k, o) == o \in DOMAIN k.ports
PutSpace(k, t, s) == [k EXCEPT !.spaces[t] = s]

Copyout(k, t, o, right) == PutSpace(k, t, SpaceCopyout(k.spaces[t], o, right))

set_receive_owner(k, o, t) ==
    IF Alive(k, o) THEN [k EXCEPT !.ports[o].receive_owner = t] ELSE k

increment_make_send_count(k, o) ==
    IF Alive(k, o) THEN [k EXCEPT !.ports[o].make_send_count = @ + 1] ELSE k

mark_object_dead(k, o) ==
    [k EXCEPT !.spaces = [t \in DOMAIN @ |-> SpaceMarkDead(@[t], o)]]

create_port(k, o, owner) ==
    [k EXCEPT !.ports = WithEntry(@, o, [receive_owner |-> owner, make_send_count |-> 0]),
              !.queues = WithEntry(@, o, <<>>)]

QueueOf(k, o) == IF o \in DOMAIN k.queues THEN k.queues[o] ELSE <<>>

enqueue_mach_message(k, o, message) ==
    [k EXCEPT !.queues = WithEntry(@, o, Append(QueueOf(k, o), message))]

remove_member_from_all(k, o) ==
    [k EXCEPT !.sets = [s \in DOMAIN @ |-> SelectSeq(@[s], LAMBDA p : p # o)]]

WithoutRequest(k, key) == [k EXCEPT !.requests = WithoutName(@, key)]
WithoutDead(k, key) == [k EXCEPT !.dead = WithoutName(@, key)]

\* A kernel notification carries no right, except port-destroyed.
Right(o, right) == [object |-> o, right |-> right]
Notice == [reply |-> <<>>, keep |-> NoObject, rights |-> <<>>, ool |-> FALSE]

-----------------------------------------------------------------------------
(***************************************************************************)
(* Notifications.                                                          *)
(***************************************************************************)
\* No guest, queued or kernel-held Send right.
SendersGone(k, o) ==
    NoReferences(k.spaces, o, "Send") /\ k.inflight[o] = 0 /\ k.holds[o] = 0

notify(k, o) == IF Alive(k, o) THEN enqueue_mach_message(k, o, Notice) ELSE k

enqueue_no_senders(k, o) ==
    LET key == <<o, "no_senders">> IN
    IF /\ key \in DOMAIN k.requests
       /\ Alive(k, o)
       /\ SendersGone(k, o)
       /\ k.ports[o].make_send_count >= k.requests[key].sync
    THEN notify(WithoutRequest(k, key), k.requests[key].notify)
    ELSE k

enqueue_dead_name(k, o) == notify(k, o)
enqueue_port_deleted(k, o) == notify(k, o)
enqueue_send_once(k, o) == notify(k, o)

\* Only for a live notify port: the receive right travels with the message.
enqueue_port_destroyed(k, o, receive) ==
    enqueue_mach_message(k, o, [Notice EXCEPT !.rights = <<Right(receive, "Receive")>>])

cancel_dead_name_silently(k, t, n) ==
    IF <<t, n>> \in DOMAIN k.dead THEN WithoutDead(k, <<t, n>>) ELSE k

cancel_dead_name(k, t, n) ==
    IF <<t, n>> \in DOMAIN k.dead
    THEN enqueue_port_deleted(WithoutDead(k, <<t, n>>), k.dead[<<t, n>>].notify)
    ELSE k

-----------------------------------------------------------------------------
(***************************************************************************)
(* The end of ports and rights.                                            *)
(***************************************************************************)
RECURSIVE remove_port_object(_, _), terminate_receive_object(_, _),
          discard_right(_, _), discard_message(_, _), release_kernel_send(_, _)

release_inflight(k, o) ==
    IF k.inflight[o] = 0 THEN k
    ELSE enqueue_no_senders([k EXCEPT !.inflight[o] = @ - 1], o)

retain_kernel_send(k, o) == IF o = NoObject THEN k ELSE [k EXCEPT !.holds[o] = @ + 1]

release_unreferenced_memory_entry(k, o) ==
    IF o \in k.memory_entries /\ SendersGone(k, o)
    THEN remove_port_object([k EXCEPT !.memory_entries = @ \ {o}], o)
    ELSE k

release_unreferenced_iokit_object(k, o) ==
    IF o \in DOMAIN k.iokit /\ SendersGone(k, o) THEN remove_port_object(k, o) ELSE k

release_kernel_send(k, o) ==
    IF o = NoObject \/ k.holds[o] = 0 THEN k
    ELSE LET less == [k EXCEPT !.holds[o] = @ - 1] IN
         IF less.holds[o] > 0 THEN less
         ELSE release_unreferenced_iokit_object(
                  release_unreferenced_memory_entry(enqueue_no_senders(less, o), o), o)

discard_right_lossy(k, r) ==
    CASE r.right = "Send" -> release_inflight(k, r.object)
      [] r.right = "Receive" -> k
      [] r.right = "SendOnce" -> enqueue_send_once(k, r.object)

discard_right(k, r) ==
    CASE r.right = "Send" -> release_inflight(k, r.object)
      [] r.right = "Receive" -> terminate_receive_object(k, r.object)
      [] r.right = "SendOnce" -> enqueue_send_once(k, r.object)

discard_message(k, message) ==
    LET replied == FoldLeft(discard_right, k, message.reply)
        kept == IF message.keep = NoObject THEN replied
                ELSE release_inflight(replied, message.keep)
    IN  FoldLeft(discard_right, kept, message.rights)

discard_queue_once(k, o) ==
    IF o \notin DOMAIN k.queues THEN k
    ELSE FoldLeft(discard_message, [k EXCEPT !.queues = WithoutName(@, o)], k.queues[o])

\* The queue goes first, and again when discarding it has brought it back.
discard_queue(k, o) ==
    IF o \notin DOMAIN k.queues THEN k
    ELSE LET after == FoldLeft(discard_message, [k EXCEPT !.queues = WithoutName(@, o)],
                               k.queues[o])
         IN  [after EXCEPT !.queues = WithoutName(@, o)]

\* What the tables remember of an object beyond its port.
forget_port(k, o) ==
    [k EXCEPT
        !.ports = WithoutName(@, o),
        !.special = [t \in DOMAIN @ |-> IF @[t] = o THEN NoObject ELSE @[t]],
        !.exceptions = [t \in DOMAIN @ |-> IF @[t] = o THEN NoObject ELSE @[t]],
        !.holds[o] = 0,
        !.memory_entries = @ \ {o},
        !.iokit = WithoutName(@, o),
        !.requests = WithoutName(WithoutName(@, <<o, "no_senders">>), <<o, "port_destroyed">>)]

\* A port set is an object without a port.
remove_port_object(k, o) ==
    IF o \in k.removing THEN k
    ELSE LET alone == remove_member_from_all([k EXCEPT !.removing = @ \cup {o}], o)
             unset == [alone EXCEPT !.sets = WithoutName(@, o)]
             forgotten == forget_port(discard_queue(unset, o), o)
         IN  [forgotten EXCEPT !.removing = @ \ {o}]

AddDeadReference(k, t, n) ==
    IF /\ t \in DOMAIN k.spaces /\ n \in DOMAIN k.spaces[t].entries
       /\ CanModify(Lookup(k, t, n), "DeadName", 1)
    THEN PutSpace(k, t, SpaceModify(k.spaces[t], n, "DeadName", 1))
    ELSE k

dead_names(k, o) ==
    LET tell(key, j) == enqueue_dead_name(WithoutDead(AddDeadReference(j, key[1], key[2]), key),
                                          j.dead[key].notify)
    IN  FoldSet(tell, k, {key \in DOMAIN k.dead : k.dead[key].target = o})

terminate_receive_object(k, o) ==
    LET alone == remove_member_from_all(k, o)
        key == <<o, "port_destroyed">>
        rest == WithoutRequest(alone, key)
    IN  IF o \in k.removing THEN k
        ELSE IF key \in DOMAIN k.requests /\ Alive(k, k.requests[key].notify)
        THEN set_receive_owner(enqueue_port_destroyed(rest, k.requests[key].notify, o), o, Nobody)
        ELSE remove_port_object(dead_names(mark_object_dead(rest, o), o), o)

consume_moved_right_owned(k, t, n, right) ==
    IF right = "Receive"
    THEN remove_member_from_all(PutSpace(k, t, SpaceRemoveType(k.spaces[t], n, right)),
                                Lookup(k, t, n).object)
    ELSE PutSpace(k, t, SpaceModify(k.spaces[t], n, right, -1))

\* Takes one moved right out of a name; the right stays in flight.
consume_moved_right(k, t, n, right) ==
    LET o == Lookup(k, t, n).object IN
    IF right = "Receive"
    THEN set_receive_owner(
             remove_member_from_all(PutSpace(k, t, SpaceRemoveType(k.spaces[t], n, right)), o),
             o, Nobody)
    ELSE LET less == PutSpace(k, t, SpaceModify(k.spaces[t], n, right, -1)) IN
         IF n \in DOMAIN less.spaces[t].entries THEN less ELSE cancel_dead_name(less, t, n)

destroy_port_name(k, t, n) ==
    LET entry == Lookup(k, t, n)
        gone == PutSpace(cancel_dead_name(k, t, n), t, SpaceDestroyName(k.spaces[t], n))
        unsent == IF "Send" \in entry.type THEN enqueue_no_senders(gone, entry.object) ELSE gone
        unused == IF "SendOnce" \in entry.type THEN enqueue_send_once(unsent, entry.object)
                  ELSE unsent
    IN  IF "Receive" \in entry.type THEN terminate_receive_object(unused, entry.object)
        ELSE IF "PortSet" \in entry.type THEN remove_port_object(unused, entry.object)
        ELSE unused

CancelIfGone(k, t, n) ==
    IF n \in DOMAIN k.spaces[t].entries THEN k ELSE cancel_dead_name(k, t, n)

\* The calls modify_port_references accepts, and what they do.
CanModifyReferences(k, t, n, right, delta) ==
    /\ HasRight(k, t, n, right)
    /\ IF right \in {"Send", "DeadName"} THEN CanModify(Lookup(k, t, n), right, delta)
       ELSE delta = -1

modify_port_references(k, t, n, right, delta) ==
    LET entry == Lookup(k, t, n)
        o == entry.object
        without == PutSpace(k, t, SpaceRemoveType(k.spaces[t], n, right))
        changed == PutSpace(k, t, SpaceModify(k.spaces[t], n, right, delta))
        settled == CancelIfGone(changed, t, n)
    IN  CASE right = "Receive" -> terminate_receive_object(CancelIfGone(without, t, n), o)
          [] right = "PortSet" -> remove_port_object(without, o)
          [] right = "SendOnce" -> enqueue_send_once(CancelIfGone(without, t, n), o)
          [] right = "Send" /\ entry.user_references["Send"] + delta = 0 ->
                 enqueue_no_senders(settled, o)
          [] OTHER -> settled

-----------------------------------------------------------------------------
(***************************************************************************)
(* Sending and receiving.                                                  *)
(***************************************************************************)
\* A destination resolves through its source right, or through the right a
\* received header stands for.
BySource(k, t, n, d) == HasRight(k, t, n, source_right_for_disposition[d])
ByReceivedType(k, t, n, d) ==
    ~BySource(k, t, n, d) /\ HasRight(k, t, n, right_for_disposition[d])

Routable(k, t, n, d) ==
    /\ d # "move_receive"
    /\ BySource(k, t, n, d) \/ ByReceivedType(k, t, n, d)
    /\ LET o == Lookup(k, t, n).object
       IN  Alive(k, o) \/ \E s \in DOMAIN k.sets : o \in ToSet(k.sets[s])

Captured(k, t, transfer) == BySource(k, t, transfer.name, transfer.disposition)

Carried(k, t, transfer) ==
    Right(Lookup(k, t, transfer.name).object, right_for_disposition[transfer.disposition])

IsMove(transfer) == transfer.disposition \in Moves

\* The preflight: every name has as many references as the message moves.
MovesFit(k, t, moves) ==
    \A i \in DOMAIN moves :
        LET right == source_right_for_disposition[moves[i].disposition]
            same == {j \in DOMAIN moves : moves[j] = moves[i]}
        IN  Cardinality(same) <= Lookup(k, t, moves[i].name).user_references[right]

consume_transfer(k, t, transfer) ==
    consume_moved_right(k, t, transfer.name, right_for_disposition[transfer.disposition])

retain_inflight(k, transfer, r) ==
    LET kept == IF r.right = "Send" THEN [k EXCEPT !.inflight[r.object] = @ + 1] ELSE k
    IN  IF transfer.disposition = "make_send" THEN increment_make_send_count(kept, r.object)
        ELSE kept

\* A message to name n with disposition d, an optional reply and other rights.
\* The destination right of a retained MAKE_SEND_ONCE is consumed, too, but
\* the preflight does not count it: then the moves may leave it nothing.
mach_msg_send(t, n, d, reply, transfers, ool) ==
    LET k == mach
        o == Lookup(k, t, n).object
        destination == [name |-> n, disposition |-> d]
        all == reply \o transfers
        moved == SelectSeq(all, IsMove)
        counted == IF d \in Moves THEN Append(moved, destination) ELSE moved
        uses == d \in Moves \/ (d = "make_send_once" /\ ByReceivedType(k, t, n, d))
        rights == [i \in DOMAIN all |-> Carried(k, t, all[i])]
        taken == FoldLeft(LAMBDA j, m : consume_transfer(j, t, m), k, moved)
        used == IF uses THEN consume_transfer(taken, t, destination) ELSE taken
        keep == IF d = "move_send" THEN o ELSE NoObject
        kept == FoldLeft(LAMBDA j, i : retain_inflight(j, all[i], rights[i]), used,
                         [i \in DOMAIN all |-> i])
        held == IF keep = NoObject THEN kept ELSE [kept EXCEPT !.inflight[keep] = @ + 1]
    IN  /\ n \in DOMAIN k.spaces[t].entries
        /\ Routable(k, t, n, d)
        /\ \A i \in DOMAIN all : Captured(k, t, all[i])
        /\ MovesFit(k, t, counted)
        /\ mach' = IF uses /\ ~HasRight(taken, t, n, right_for_disposition[d])
                   THEN taken
                   ELSE enqueue_mach_message(held, o,
                            [reply |-> SubSeq(rights, 1, Len(reply)), keep |-> keep,
                             rights |-> SubSeq(rights, Len(reply) + 1, Len(all)),
                             ool |-> ool])

\* A right whose port has gone becomes a dead name.
copyout_received_right(k, t, r) ==
    IF Alive(k, r.object) THEN Copyout(k, t, r.object, r.right)
    ELSE Copyout(mark_object_dead(k, r.object), t, r.object, "DeadName")

deliver_reply(k, t, r) ==
    LET copied == copyout_received_right(k, t, r)
    IN  IF r.right = "Send" THEN release_inflight(copied, r.object) ELSE copied

deliver_right(k, t, r) ==
    LET copied == copyout_received_right(k, t, r) IN
    CASE r.right = "Send" -> release_inflight(copied, r.object)
      [] r.right = "Receive" ->
             set_receive_owner(remove_member_from_all(copied, r.object), r.object, t)
      [] OTHER -> copied

PopQueue(k, o) == [k EXCEPT !.queues[o] = Tail(@)]

\* A message for a dead port, or with a dead receive right, is discarded.
Undeliverable(k, o, message) ==
    \/ ~Alive(k, o)
    \/ \E i \in DOMAIN (message.reply \o message.rights) :
           LET r == (message.reply \o message.rights)[i]
           IN  r.right = "Receive" /\ ~Alive(k, r.object)

\* Task t receives the first message of port o.  A message whose out-of-line
\* payload cannot be mapped stays where it is.
deliver_pending_mach(k, t, o, mapped) ==
    LET message == Head(k.queues[o])
        named == Copyout(k, t, o, "Receive")
        replied == FoldLeft(LAMBDA j, r : deliver_reply(j, t, r), named, message.reply)
        copied == FoldLeft(LAMBDA j, r : deliver_right(j, t, r), replied, message.rights)
    IN  IF Undeliverable(k, o, message) THEN discard_message(PopQueue(k, o), message)
        ELSE IF ~mapped THEN copied
        ELSE IF message.keep = NoObject THEN PopQueue(copied, o)
        ELSE release_inflight(PopQueue(copied, o), message.keep)

\* The queues a receive on object o looks at, in order.
Visible(k, o) ==
    SelectSeq(<<o>> \o (IF o \in DOMAIN k.sets THEN k.sets[o] ELSE <<>>),
              LAMBDA p : QueueOf(k, p) # <<>>)

\* The name is resolved whatever right it denotes.
mach_msg_receive(t, n, mapped) ==
    /\ n \in DOMAIN mach.spaces[t].entries
    /\ LET seen == Visible(mach, Lookup(mach, t, n).object) IN
       /\ seen # <<>>
       /\ mapped \/ Head(mach.queues[Head(seen)]).ool
       /\ mach' = deliver_pending_mach(mach, t, Head(seen), mapped)

-----------------------------------------------------------------------------
(***************************************************************************)
(* The mach_port routines on the space of task t.                          *)
(***************************************************************************)
NewObject(k, right, t) ==
    CASE right = "Receive" -> create_port(k, k.next, t)
      [] right = "PortSet" -> [k EXCEPT !.sets = WithEntry(@, k.next, <<>>)]
      [] right = "DeadName" -> k

mach_port_allocate(t, right) ==
    LET named == PutSpace(mach, t, SpaceAllocate(mach.spaces[t], mach.next, right))
    IN  mach' = [NewObject(named, right, t) EXCEPT !.next = @ + 1]

mach_port_allocate_name(t, right, n) ==
    /\ n \notin DOMAIN mach.spaces[t].entries
    /\ LET named == PutSpace(mach, t, SpaceInstall(mach.spaces[t], n, mach.next, right))
       IN  mach' = [NewObject(named, right, t) EXCEPT !.next = @ + 1]

mach_port_rename_plain(t, old, new) ==
    /\ old \in DOMAIN mach.spaces[t].entries /\ new \notin DOMAIN mach.spaces[t].entries
    /\ mach' = PutSpace(mach, t, SpaceRename(mach.spaces[t], old, new))

mach_port_rename(t, old, new) ==
    LET renamed == PutSpace(mach, t, SpaceRename(mach.spaces[t], old, new))
        key == <<t, old>>
    IN  /\ old \in DOMAIN mach.spaces[t].entries /\ new \notin DOMAIN mach.spaces[t].entries
        /\ mach' = IF key \notin DOMAIN mach.dead THEN renamed
                   ELSE [renamed EXCEPT !.dead =
                             WithEntry(WithoutName(@, key), <<t, new>>, @[key])]

mach_port_destroy(t, n) ==
    /\ n \in DOMAIN mach.spaces[t].entries
    /\ mach' = destroy_port_name(mach, t, n)

mach_port_mod_refs(t, n, right, delta) ==
    /\ CanModifyReferences(mach, t, n, right, delta)
    /\ mach' = modify_port_references(mach, t, n, right, delta)

\* Send, send-once and dead-name references go in this order.
mach_port_deallocate(t, n) ==
    /\ n \in DOMAIN mach.spaces[t].entries
    /\ Releasable(Lookup(mach, t, n)) # {}
    /\ mach' = modify_port_references(mach, t, n, ReleasedRight(Lookup(mach, t, n)), -1)

mach_port_set_mscount(t, n, count) ==
    /\ HasRight(mach, t, n, "Receive")
    /\ mach' = [mach EXCEPT !.ports[Lookup(mach, t, n).object].make_send_count = count]

\* Task c gives task t, under name n, a right it has under its own name.
mach_port_insert_right(c, t, n, name, d) ==
    LET right == right_for_disposition[d]
        source == source_right_for_disposition[d]
        o == Lookup(mach, c, name).object
        space == mach.spaces[t]
        taken == IF d \in Moves THEN consume_moved_right(mach, c, name, source) ELSE mach
        given == PutSpace(taken, t, SpaceInstall(taken.spaces[t], n, o, right))
    IN  /\ HasRight(mach, c, name, source)
        /\ n \in DOMAIN space.entries => space.entries[n].object = o /\ right # "SendOnce"
        /\ right # "SendOnce" /\ NamesOf(space, o) # {} => Lowest(NamesOf(space, o)) = n
        /\ ~(d \notin Moves /\ right = "Send" /\ n \in DOMAIN space.entries
             /\ space.entries[n].user_references["Send"] >= MaximumReferences("Send"))
        /\ mach' = CASE d = "make_send" -> increment_make_send_count(given, o)
                     [] right = "Receive" -> set_receive_owner(given, o, t)
                     [] OTHER -> given

\* Task c takes a right that task t has under name n.
mach_port_extract_right(c, t, n, d) ==
    LET right == right_for_disposition[d]
        source == source_right_for_disposition[d]
        o == Lookup(mach, t, n).object
        taken == IF d \in Moves THEN consume_moved_right(mach, t, n, source) ELSE mach
        given == Copyout(taken, c, o, right)
    IN  /\ HasRight(mach, t, n, source)
        /\ mach' = CASE d = "make_send" -> increment_make_send_count(given, o)
                     [] right = "Receive" -> set_receive_owner(given, o, c)
                     [] OTHER -> given

-----------------------------------------------------------------------------
(***************************************************************************)
(* Port sets.                                                              *)
(***************************************************************************)
Joins(k, s, o) ==
    IF s \in DOMAIN k.sets /\ o \notin ToSet(k.sets[s])
    THEN [k EXCEPT !.sets[s] = Append(@, o)] ELSE k

mach_port_move_member(t, member, set) ==
    LET o == Lookup(mach, t, member).object
        alone == remove_member_from_all(mach, o)
    IN  /\ HasRight(mach, t, member, "Receive")
        /\ set # NoName => HasRight(mach, t, set, "PortSet")
        /\ mach' = IF set = NoName THEN alone ELSE Joins(alone, Lookup(mach, t, set).object, o)

mach_port_insert_member(t, member, set) ==
    /\ HasRight(mach, t, member, "Receive") /\ HasRight(mach, t, set, "PortSet")
    /\ mach' = Joins(mach, Lookup(mach, t, set).object, Lookup(mach, t, member).object)

mach_port_extract_member(t, member, set) ==
    LET o == Lookup(mach, t, member).object IN
    /\ HasRight(mach, t, member, "Receive") /\ HasRight(mach, t, set, "PortSet")
    /\ Lookup(mach, t, set).object \in DOMAIN mach.sets
    /\ mach' = [mach EXCEPT !.sets[Lookup(mach, t, set).object] =
                    SelectSeq(@, LAMBDA p : p # o)]

-----------------------------------------------------------------------------
(***************************************************************************)
(* Notification requests.  Task c asks about name n of task t; the notify  *)
(* right is named in c's space, or NoName withdraws the request.  The      *)
(* previous request's send-once right comes back to c.                     *)
(***************************************************************************)
NotifyObject(k, c, name) == IF name = NoName THEN NoObject ELSE Lookup(k, c, name).object

CanNotify(k, c, name, d) ==
    name # NoName => d \in {"make_send_once", "move_send_once"} /\ BySource(k, c, name, d)

ConsumeNotify(k, c, name, d) ==
    IF name # NoName /\ d = "move_send_once" /\ HasRight(k, c, name, "SendOnce")
    THEN consume_moved_right(k, c, name, "SendOnce") ELSE k

request_dead_name(c, t, n, sync, name, d) ==
    LET key == <<t, n>>
        entry == Lookup(mach, t, n)
        o == NotifyObject(mach, c, name)
        returned == IF key \in DOMAIN mach.dead
                    THEN Copyout(WithoutDead(mach, key), c, mach.dead[key].notify, "SendOnce")
                    ELSE mach
        told == enqueue_dead_name(
                    PutSpace(returned, t,
                             SpaceInstall(returned.spaces[t], n, entry.object, "DeadName")), o)
        armed == [returned EXCEPT !.dead = WithEntry(@, key, [target |-> entry.object,
                                                              notify |-> o])]
    IN  /\ n \in DOMAIN mach.spaces[t].entries
        /\ entry.type \cap {"Send", "Receive", "SendOnce", "DeadName"} # {}
        /\ CanNotify(mach, c, name, d)
        /\ mach' = CASE "DeadName" \in entry.type /\ (sync = 0 \/ o = NoObject) -> returned
                     [] "DeadName" \in entry.type /\ sync # 0 /\ o # NoObject ->
                            ConsumeNotify(told, c, name, d)
                     [] "DeadName" \notin entry.type /\ o # NoObject ->
                            ConsumeNotify(armed, c, name, d)
                     [] OTHER -> returned

request_notification(c, t, n, kind, sync, name, d) ==
    LET entry == Lookup(mach, t, n)
        key == <<entry.object, kind>>
        o == NotifyObject(mach, c, name)
        returned == IF key \in DOMAIN mach.requests
                    THEN Copyout(WithoutRequest(mach, key), c, mach.requests[key].notify,
                                 "SendOnce")
                    ELSE mach
        armed == [returned EXCEPT !.requests = WithEntry(@, key, [notify |-> o, sync |-> sync])]
        settled == IF o = NoObject THEN returned
                   ELSE IF kind = "no_senders" THEN enqueue_no_senders(armed, entry.object)
                   ELSE armed
    IN  /\ HasRight(mach, t, n, "Receive")
        /\ kind = "port_destroyed" => sync = 0
        /\ CanNotify(mach, c, name, d)
        /\ mach' = ConsumeNotify(settled, c, name, d)

-----------------------------------------------------------------------------
(***************************************************************************)
(* Ports the kernel keeps for a task: one special port and one exception   *)
(* port stand for the slots of each table.                                 *)
(***************************************************************************)

task_set_special_port(c, t, name, d) ==
    LET o == NotifyObject(mach, c, name)
        previous == mach.special[t]
        taken == IF d = "move_send" /\ name # NoName
                 THEN consume_moved_right(mach, c, name, "Send") ELSE mach
        held == IF o # previous THEN retain_kernel_send(taken, o) ELSE taken
        set == [held EXCEPT !.special[t] = o]
    IN  /\ name # NoName => right_for_disposition[d] = "Send" /\ HasRight(mach, c, name, "Send")
        /\ mach' = IF previous = o THEN set ELSE release_kernel_send(set, previous)

task_get_special_port(c, t) ==
    /\ mach.special[t] # NoObject
    /\ mach' = IF Alive(mach, mach.special[t]) THEN Copyout(mach, c, mach.special[t], "Send")
               ELSE [mach EXCEPT !.special[t] = NoObject]

task_set_exception_ports(c, t, name, d) ==
    LET o == NotifyObject(mach, c, name)
        previous == mach.exceptions[t]
        taken == IF d = "move_send" /\ name # NoName
                 THEN consume_moved_right(mach, c, name, "Send") ELSE mach
        changed == IF o = previous THEN taken
                   ELSE release_kernel_send(
                            [retain_kernel_send(taken, o) EXCEPT !.exceptions[t] = o], previous)
    IN  /\ name # NoName => right_for_disposition[d] = "Send" /\ BySource(mach, c, name, d)
        /\ mach' = IF d = "make_send" /\ name # NoName
                   THEN increment_make_send_count(changed, o) ELSE changed

task_get_exception_ports(c, t) ==
    /\ mach.exceptions[t] # NoObject
    /\ mach' = Copyout(mach, c, mach.exceptions[t], "Send")

-----------------------------------------------------------------------------
(***************************************************************************)
(* Ports whose receive right the kernel keeps: IOKit connections and named *)
(* memory entries.  A task gets a Send right to a new one.                 *)
(***************************************************************************)
NewKernelPort(t) == [Copyout(create_port(mach, mach.next, Nobody), t, mach.next, "Send")
                     EXCEPT !.next = @ + 1]

IOServiceOpen(t) == mach' = [NewKernelPort(t) EXCEPT !.iokit = WithEntry(@, mach.next, t)]

make_memory_entry(t) == mach' = [NewKernelPort(t) EXCEPT !.memory_entries = @ \cup {mach.next}]

\* The connection's names die with it, and the caller gives one reference back.
IOServiceClose(t, n) ==
    LET o == Lookup(mach, t, n).object
        closed == remove_port_object(mark_object_dead(mach, o), o)
    IN  /\ HasRight(mach, t, n, "Send") /\ o \in DOMAIN mach.iokit
        /\ mach' = PutSpace(closed, t, SpaceDeallocate(closed.spaces[t], n))

-----------------------------------------------------------------------------
(***************************************************************************)
(* Tasks.                                                                  *)
(***************************************************************************)
\* The child shares its parent's bootstrap (special) and exception ports.
\* `preferred` is the name under which the parent knows its bootstrap port.
inherit_child(parent, child, preferred) ==
    LET bootstrap == mach.special[parent]
        handler == mach.exceptions[parent]
        space == IF bootstrap = NoObject THEN NewSpace
                 ELSE SpaceInstall(NewSpace, preferred, bootstrap, "Send")
        born == [mach EXCEPT !.spaces = WithEntry(@, child, space),
                             !.special[child] = bootstrap,
                             !.exceptions[child] = handler]
    IN  /\ child \notin mach.born
        /\ mach' = [retain_kernel_send(retain_kernel_send(born, handler), bootstrap)
                    EXCEPT !.born = @ \cup {child}]

\* Names without a receive right go first, so that notification endpoints of
\* the task can still absorb what the others cause.
TeardownOrder(s) ==
    SetToSortSeq({n \in DOMAIN s.entries : "Receive" \notin s.entries[n].type}, <)
    \o SetToSortSeq({n \in DOMAIN s.entries : "Receive" \in s.entries[n].type}, <)

destroy_if_present(k, t, n) ==
    IF n \in DOMAIN k.spaces[t].entries THEN destroy_port_name(k, t, n) ELSE k

\* Removing the task port forgets the special port and releases the handler.
terminate_exited_task_ports(k, t) ==
    release_kernel_send([k EXCEPT !.special[t] = NoObject, !.exceptions[t] = NoObject],
                        k.exceptions[t])

\* By now the special ports are gone; the requests on the task's names end,
\* and so do the IOKit connections it opened.
cleanup_exited_process_metadata(k, t) ==
    LET cancel(key, j) == cancel_dead_name(j, key[1], key[2])
        close(o, j) == IF Alive(j, o) THEN terminate_receive_object(j, o) ELSE j
        unspecial == release_kernel_send([k EXCEPT !.special[t] = NoObject], k.special[t])
        cancelled == FoldSet(cancel, unspecial, {key \in DOMAIN k.dead : key[1] = t})
    IN  FoldSet(close, cancelled, {o \in DOMAIN k.iokit : k.iokit[o] = t})

release_process_mach_rights(t) ==
    LET emptied == FoldLeft(LAMBDA j, n : destroy_if_present(j, t, n), mach,
                            TeardownOrder(mach.spaces[t]))
        ended == terminate_exited_task_ports(emptied, t)
        gone == [ended EXCEPT !.spaces = WithoutName(@, t)]
    IN  mach' = cleanup_exited_process_metadata(gone, t)

-----------------------------------------------------------------------------
(***************************************************************************)
(* The specification.                                                      *)
(***************************************************************************)
Empty == [x \in {} |-> 0]

Init ==
    /\ mix \in Mixes
    /\ mach = [spaces |-> [t \in mix.initial |-> NewSpace],
            born |-> mix.initial,
            ports |-> Empty, queues |-> Empty, sets |-> Empty,
            inflight |-> [o \in Objects |-> 0], holds |-> [o \in Objects |-> 0],
            requests |-> Empty, dead |-> Empty, removing |-> {},
            special |-> [t \in Tasks |-> NoObject],
            exceptions |-> [t \in Tasks |-> NoObject],
            iokit |-> Empty, memory_entries |-> {}, next |-> 1]

TotalQueued(k) == FoldSet(LAMBDA o, sum : sum + Len(k.queues[o]), 0, DOMAIN k.queues)

\* Named bounds on what the guests do.
Bounded(k) ==
    /\ TotalQueued(k) <= mix.queued
    /\ \A t \in DOMAIN k.spaces :
          /\ k.spaces[t].next_name <= FirstName + NameStride * mix.names
          /\ \A n \in DOMAIN k.spaces[t].entries : \A r \in Rights :
                k.spaces[t].entries[n].user_references[r] <= MaxReferences
    /\ \A o \in DOMAIN k.ports : k.ports[o].make_send_count <= MaxMakeSends

Can(op) == op \in mix.operations

Live == DOMAIN mach.spaces
Entries(t) == DOMAIN mach.spaces[t].entries
Transfers(t, allowed) == [name : Entries(t), disposition : allowed]
AtMost(S, n) == UNION {[1 .. i -> S] : i \in 0 .. n}
Controlled(c) == {t \in Live : t = c \/ c \in mix.initial}

Send(t) ==
    /\ Can("send")
    /\ \E n \in Entries(t), d \in mix.destination, ool \in BOOLEAN,
          reply \in AtMost(Transfers(t, mix.reply), 1),
          carried \in AtMost(Transfers(t, mix.carried), MaxCarried) :
          /\ ool => Can("out_of_line")
          /\ mach_msg_send(t, n, d, reply, carried, ool)

Receive(t) ==
    \E n \in Entries(t), mapped \in BOOLEAN :
        /\ Can("receive") \/ (Can("receive_own") /\ HasRight(mach, t, n, "Receive"))
                          \/ (Can("receive_own") /\ HasRight(mach, t, n, "PortSet"))
        /\ mach_msg_receive(t, n, mapped)

Ports(t) ==
    \/ \E right \in {"Receive", "PortSet", "DeadName"} :
          /\ mach.next <= mix.objects
          /\ \/ Can(right) /\ mach_port_allocate(t, right)
             \/ Can("allocate_name") /\ Can(right)
                /\ \E n \in mix.chosen : mach_port_allocate_name(t, right, n)
    \/ \E n \in Entries(t) :
          \/ Can("rename") /\ \E new \in mix.chosen : mach_port_rename(t, n, new)
          \/ Can("destroy") /\ mach_port_destroy(t, n)
          \/ Can("deallocate") /\ mach_port_deallocate(t, n)
          \/ Can("mod_refs") /\ \E right \in Rights, delta \in {-1, 1} :
                                  mach_port_mod_refs(t, n, right, delta)
          \/ Can("set_mscount") /\ mach_port_set_mscount(t, n, 0)

Sets(t) ==
    /\ Can("sets")
    /\ \E member \in Entries(t), set \in Entries(t) \cup {NoName} :
          \/ mach_port_move_member(t, member, set)
          \/ mach_port_insert_member(t, member, set)
          \/ mach_port_extract_member(t, member, set)

Shared(c) ==
    \E t \in Controlled(c), d \in SharedDispositions :
        \/ Can("insert") /\ \E name \in Entries(c), n \in mix.chosen \cup Entries(t) :
                                mach_port_insert_right(c, t, n, name, d)
        \/ Can("extract") /\ \E n \in Entries(t) : mach_port_extract_right(c, t, n, d)

\* Guests replace a request while its notify port lives, or at any time.
Replaceable(requests, key) ==
    key \in DOMAIN requests =>
        \/ Can("replace") /\ Alive(mach, requests[key].notify)
        \/ Can("replace_any")

Notifications(c) ==
    \E t \in Controlled(c), name \in Entries(c) \cup {NoName}, sync \in mix.syncs,
      d \in {"make_send_once", "move_send_once"} : \E n \in Entries(t) :
        \/ /\ Can("dead_name") /\ Replaceable(mach.dead, <<t, n>>)
           /\ request_dead_name(c, t, n, sync, name, d)
        \/ \E kind \in {"no_senders", "port_destroyed"} :
              /\ Can(kind) /\ Replaceable(mach.requests, <<Lookup(mach, t, n).object, kind>>)
              /\ request_notification(c, t, n, kind, sync, name, d)

KernelPorts(c) ==
    \/ \E t \in Controlled(c) :
          \/ \E name \in Entries(c) \cup {NoName}, d \in {"move_send", "copy_send", "make_send"} :
                \/ Can("special") /\ task_set_special_port(c, t, name, d)
                \/ Can("exceptions") /\ task_set_exception_ports(c, t, name, d)
          \/ Can("special") /\ task_get_special_port(c, t)
          \/ Can("exceptions") /\ task_get_exception_ports(c, t)
    \/ /\ mach.next <= mix.objects
       /\ \/ Can("iokit") /\ IOServiceOpen(c)
          \/ Can("memory_entry") /\ make_memory_entry(c)
    \/ Can("iokit") /\ \E n \in Entries(c) : IOServiceClose(c, n)

Lifetimes(t) ==
    \/ Can("fork") /\ \E child \in Tasks, preferred \in mix.chosen :
                         inherit_child(t, child, preferred)
    \/ Can("exit") /\ release_process_mach_rights(t)

Next ==
    /\ UNCHANGED mix
    /\ \E t \in Live :
        \/ Send(t) /\ Bounded(mach')
        \/ Receive(t) /\ Bounded(mach')
        \/ Ports(t) /\ Bounded(mach')
        \/ Sets(t) /\ Bounded(mach')
        \/ Shared(t) /\ Bounded(mach')
        \/ Notifications(t) /\ Bounded(mach')
        \/ KernelPorts(t) /\ Bounded(mach')
        \/ Lifetimes(t) /\ Bounded(mach')

Spec == Init /\ [][Next]_vars

-----------------------------------------------------------------------------
(***************************************************************************)
(* What must hold.                                                         *)
(***************************************************************************)
\* How often a right for an object travels in queued messages.
InQueue(q, o, right) ==
    LET carries(sum, m) ==
            sum + Cardinality({i \in DOMAIN m.rights : m.rights[i] = Right(o, right)})
                + Cardinality({i \in DOMAIN m.reply : m.reply[i] = Right(o, right)})
                + (IF right = "Send" /\ m.keep = o THEN 1 ELSE 0)
    IN  FoldLeft(carries, 0, q)

Queued(o, right) ==
    FoldSet(LAMBDA p, sum : sum + InQueue(mach.queues[p], o, right), 0, DOMAIN mach.queues)

\* The names, and the tasks, with a right for an object.
Named(o, right) ==
    UNION {{<<t, n>> : n \in {m \in NamesOf(mach.spaces[t], o) : HasRight(mach, t, m, right)}} :
           t \in Live}
Holders(o, right) == {pair[1] : pair \in Named(o, right)}

\* The rights of a task are for ports that exist; sets exist, too.
TypeOK ==
    /\ DOMAIN mach.spaces \subseteq Tasks /\ mach.removing = {}
    /\ DOMAIN mach.ports \cap DOMAIN mach.sets = {}
    /\ \A o \in DOMAIN mach.ports : mach.ports[o].receive_owner \in Tasks \cup {Nobody}
    /\ \A o \in Objects : mach.inflight[o] \in Nat /\ mach.holds[o] \in Nat

\* mach_inflight_send_rights counts, for each object, exactly the Send rights
\* that queued messages carry, whatever was sent, delivered, refused or
\* discarded before (support.cpp: "Keep an in-flight count until every queued
\* message carrying this object is delivered or discarded.").
InflightExact == \A o \in Objects : mach.inflight[o] = Queued(o, "Send")

\* The receive right of a port is one thing: it is under one name of one task
\* or in one queued message, and a live port has not lost it.
OneReceiveRight ==
    \A o \in DOMAIN mach.ports \ (DOMAIN mach.iokit \cup mach.memory_entries) :
        Cardinality(Named(o, "Receive")) + Queued(o, "Receive") = 1

\* receive_owner names the task whose space has the receive right, and is
\* zero only while the right is in transit or the kernel's.
ReceiveOwnerExact ==
    \A o \in DOMAIN mach.ports :
        Holders(o, "Receive") = {mach.ports[o].receive_owner} \ {Nobody}

\* A no-senders request that waits has something to wait for: a guest, queued
\* or kernel-held Send right, or a make-send count below its sync value.
NoSendersArmed ==
    \A key \in DOMAIN mach.requests : key[2] = "no_senders" =>
        \/ ~SendersGone(mach, key[1])
        \/ mach.ports[key[1]].make_send_count < mach.requests[key].sync

\* A dead-name request belongs to a name that exists and denotes the live
\* object the request is about.
DeadRequestsExact ==
    \A key \in DOMAIN mach.dead :
        /\ key[1] \in Live /\ key[2] \in Entries(key[1])
        /\ Lookup(mach, key[1], key[2]).object = mach.dead[key].target
        /\ Alive(mach, mach.dead[key].target)

\* mach_kernel_send_rights counts exactly the task special and exception
\* ports that name the object.
HoldsExact ==
    \A o \in Objects :
        mach.holds[o] = Cardinality({t \in Tasks : mach.special[t] = o})
                      + Cardinality({t \in Tasks : mach.exceptions[t] = o})

\* Queues belong to ports: tearing a port down never leaves or brings back a
\* queue for it, whatever its messages and notifications do.
QueuesLive == DOMAIN mach.queues = DOMAIN mach.ports

\* A Send, SendOnce or Receive right is for a live port: others are dead names.
CapabilitiesLive ==
    \A t \in Live : \A n \in Entries(t) :
        Lookup(mach, t, n).type \cap {"Send", "SendOnce", "Receive"} # {} =>
            Alive(mach, Lookup(mach, t, n).object)

\* Port sets have live members, whose receive right some task holds.
MembersReceivable ==
    \A s \in DOMAIN mach.sets : \A o \in ToSet(mach.sets[s]) : Holders(o, "Receive") # {}

\* An IOKit connection or memory entry without any Send right is gone.  Not an
\* invariant: the reclaimers run only from some calls.
TransientsReclaimed ==
    \A o \in DOMAIN mach.iokit \cup mach.memory_entries : ~SendersGone(mach, o)

\* A send either queues its message or changes nothing, as the comment of the
\* preflight in mach_msg says.  The code does not keep it (README).
SendsAreAtomic ==
    [][\A t \in Live : Send(t) => TotalQueued(mach') > TotalQueued(mach)]_mach

\* A dead-name request never vanishes silently: when it goes, its notify port
\* gets a message, or has gone, or the request moved to another name or its
\* send-once right came back.
DeadRequestsAnswered ==
    [][\A key \in DOMAIN mach.dead \ DOMAIN mach'.dead :
          LET o == mach.dead[key].notify IN
          \/ o \notin DOMAIN mach'.ports
          \/ Len(mach'.queues[o]) > Len(mach.queues[o])
          \/ \E t \in DOMAIN mach'.spaces : \E n \in NamesOf(mach'.spaces[t], o) :
                /\ "SendOnce" \in mach'.spaces[t].entries[n].type
                /\ n \notin Entries(t)
          \/ \E other \in DOMAIN mach'.dead \ DOMAIN mach.dead :
                mach'.dead[other] = mach.dead[key]]_mach

\* What the kernel keeps about rights beside the name spaces agrees with them and with
\* the queues: the counts of rights in transit and of its own, and who receives.
RightsCounted == InflightExact /\ ReceiveOwnerExact /\ HoldsExact

\* The end of a port, wherever it comes from, takes its queue and every right to it
\* along (erase_port, discard_message, copyout_received_right).
NothingDangles == QueuesLive /\ CapabilitiesLive

\* Requests and memberships last as long as what they are about, and no longer.
RequestsLive == NoSendersArmed /\ DeadRequestsExact /\ MembersReceivable
=============================================================================
