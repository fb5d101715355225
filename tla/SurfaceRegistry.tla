-------------------------- MODULE SurfaceRegistry --------------------------
(***************************************************************************)
(* The lifetimes of CoreSurface buffers (src/src/graphics/surface_store.cpp *)
(* and core_surface_hle.cpp). A published surface is an object of the      *)
(* registry that all processes share; a process holds it by a backing of   *)
(* its SurfaceStore, a Mach port by a transport lease, and both count in   *)
(* the object's store_references. Inside a process the backing is counted  *)
(* once more, by the client buffer that made it and by MBX2D handles.      *)
(*                                                                         *)
(* Identifiers are reused: a surface is told from its successors by the    *)
(* publication sequence. Processes run their calls on parallel workers, so *)
(* an import, which looks the object up, finds an address and only then    *)
(* maps the pages, is two steps.                                           *)
(***************************************************************************)
EXTENDS Integers, FiniteSets, Functions

CONSTANTS
    Tasks,          \* process slots
    Ids,            \* surface identifiers, 1 .. n
    Kinds,          \* the client transports, CoreSurface and IOSurface
    Slots,          \* addresses that imports are mapped at
    MaxRefs,        \* bound of the references of a client buffer
    MaxPublications \* bound of publication sequences

NoneYet == 0

SurfaceRegistryAssumption ==
    /\ Ids = 1 .. Cardinality(Ids) /\ NoneYet \notin Slots
    /\ MaxRefs \in Nat /\ MaxPublications \in Nat

VARIABLES
    objects,        \* registry: the published surfaces, by identifier
    published,      \* the publication watermark
    nextId,         \* next_identifier
    ports,          \* surface ports: by identifier, the leased publication and the holders
    task,           \* the state of each process
    borrowed        \* history: identifiers a process made a client for without a reference

Only(f, S) == Restrict(f, DOMAIN f \cap S)
Drop(f, x) == Restrict(f, DOMAIN f \ {x})
With(f, x, v) == [y \in DOMAIN f \cup {x} |-> IF y = x THEN v ELSE f[y]]
EmptyMap == [x \in {} |-> 0]

\* backings and clients of a process, the MBX2D handles (identifiers they
\* retain), what is mapped at the import addresses and which are free, and
\* the import under way.
NoLook == [id |-> NoneYet, kind |-> "none", seq |-> 0, slot |-> NoneYet]
Fresh == [alive |-> TRUE, backings |-> EmptyMap, clients |-> EmptyMap, handles |-> EmptyMap,
          at |-> [s \in Slots |-> "nothing"], free |-> {}, look |-> NoLook]
Gone == [Fresh EXCEPT !.alive = FALSE]

SurfaceInit ==
    /\ objects = EmptyMap /\ published = 0 /\ nextId = 1 /\ ports = EmptyMap
    /\ task = [p \in Tasks |-> IF p = CHOOSE q \in Tasks : TRUE THEN Fresh ELSE Gone]
    /\ borrowed = [p \in Tasks |-> {}]

-----------------------------------------------------------------------------
(***************************************************************************)
(* SurfaceStore.                                                           *)
(***************************************************************************)
\* A reference to the object of an identifier goes; the last one erases it.
Unreferenced(objs, id) ==
    IF id \notin DOMAIN objs THEN objs
    ELSE IF objs[id].refs > 1 THEN [objs EXCEPT ![id].refs = @ - 1] ELSE Drop(objs, id)

\* ~SurfaceTransportLease: only the publication that was leased.
Unleased(objs, id, seq) ==
    IF id \in DOMAIN objs /\ objs[id].seq = seq THEN Unreferenced(objs, id) ELSE objs

reset(objs, t) ==
    [id \in {i \in DOMAIN objs : i \notin DOMAIN t.backings \/ objs[i].refs > 1} |->
        IF id \in DOMAIN t.backings THEN [objs[id] EXCEPT !.refs = @ - 1] ELSE objs[id]]

inherit_references(objs, t) ==
    [id \in DOMAIN objs |-> IF id \in DOMAIN t.backings THEN [objs[id] EXCEPT !.refs = @ + 1] ELSE objs[id]]

\* release: the process's own count first.
Released(objs, t, id) ==
    CASE id \notin DOMAIN t.backings -> [objs |-> objs, t |-> t]
      [] id \in DOMAIN t.backings /\ t.backings[id].refs > 1 ->
            [objs |-> objs, t |-> [t EXCEPT !.backings[id].refs = @ - 1]]
      [] OTHER -> [objs |-> Unreferenced(objs, id), t |-> [t EXCEPT !.backings = Drop(@, id)]]

AllocatedIds == {id \in Ids : id >= nextId /\ id \notin DOMAIN objects
                              /\ \A j \in nextId .. id - 1 : j \in DOMAIN objects}

\* publish, after create_buffer has found a client structure.
CanPublish(p, id) == id \notin DOMAIN objects /\ id \notin DOMAIN task[p].backings /\ published < MaxPublications
Client(refs, slot, seq) == [refs |-> refs, slot |-> slot, seq |-> seq]
Publish(p, id, kind) ==
    /\ CanPublish(p, id)
    /\ published' = published + 1
    /\ objects' = With(objects, id, [seq |-> published + 1, refs |-> 1])
    /\ nextId' = IF nextId <= id THEN id + 1 ELSE nextId
    /\ task' = [task EXCEPT ![p].backings = With(@, id, [seq |-> published + 1, refs |-> 1]),
                            ![p].clients = With(@, <<id, kind>>, Client(1, NoneYet, published + 1))]
    /\ UNCHANGED <<ports, borrowed>>

-----------------------------------------------------------------------------
(***************************************************************************)
(* Client buffers.                                                         *)
(***************************************************************************)
Running(p) == task[p].alive /\ task[p].look = NoLook

\* Create, WrapClientMemory and WrapClientImage.
CreateBuffer(p, kind) == Running(p) /\ \E id \in AllocatedIds : Publish(p, id, kind)

\* Lookup of an identifier the process has a client for.
LookupClient(p, id, kind) ==
    /\ Running(p) /\ <<id, kind>> \in DOMAIN task[p].clients
    /\ task[p].clients[<<id, kind>>].refs < MaxRefs
    /\ task' = [task EXCEPT ![p].clients[<<id, kind>>].refs = @ + 1]
    /\ UNCHANGED <<objects, published, nextId, ports, borrowed>>

\* No client, but a backing: the new client takes no reference to it.
LookupLocal(p, id, kind) ==
    /\ Running(p) /\ <<id, kind>> \notin DOMAIN task[p].clients /\ id \in DOMAIN task[p].backings
    /\ task' = [task EXCEPT ![p].clients =
                    With(@, <<id, kind>>, Client(1, NoneYet, task[p].backings[id].seq))]
    /\ borrowed' = [borrowed EXCEPT ![p] = @ \cup {id}]
    /\ UNCHANGED <<objects, published, nextId, ports>>

\* shared_mapping and acquire_imported_mapping: free addresses that the guest
\* has occupied are forgotten, and a new one is taken when none is left.
LookupShared(p, id, kind) ==
    LET left == {s \in task[p].free : task[p].at[s] = "nothing"}
        taken == task[p].free \cup {task[p].clients[c].slot : c \in DOMAIN task[p].clients}
    IN /\ Running(p) /\ <<id, kind>> \notin DOMAIN task[p].clients
       /\ id \notin DOMAIN task[p].backings /\ id \in DOMAIN objects
       /\ \E s \in IF left # {} THEN left ELSE {s \in Slots \ taken : task[p].at[s] = "nothing"} :
            task' = [task EXCEPT ![p].free = left \ {s},
                                 ![p].look = [id |-> id, kind |-> kind, seq |-> objects[id].seq, slot |-> s]]
       /\ UNCHANGED <<objects, published, nextId, ports, borrowed>>

\* import: the object must still be the one that was looked up, and the
\* address still free; otherwise the address is recycled.
Import(p) ==
    LET k == task[p].look
        fits == /\ k.id \notin DOMAIN task[p].backings /\ k.id \in DOMAIN objects
                /\ objects[k.id].seq = k.seq /\ task[p].at[k.slot] = "nothing"
    IN /\ task[p].alive /\ k # NoLook
       /\ \/ /\ fits
             /\ objects' = [objects EXCEPT ![k.id].refs = @ + 1]
             /\ task' = [task EXCEPT
                    ![p].look = NoLook, ![p].at[k.slot] = "import",
                    ![p].backings = With(@, k.id, [seq |-> k.seq, refs |-> 1]),
                    ![p].clients = With(@, <<k.id, k.kind>>, Client(1, k.slot, k.seq))]
          \/ /\ ~fits
             /\ task' = [task EXCEPT ![p].look = NoLook, ![p].free = @ \cup {k.slot}]
             /\ UNCHANGED objects
       /\ UNCHANGED <<published, nextId, ports, borrowed>>

\* Lookup of an identifier nobody has published makes a screen under it.
LookupUnknown(p, id, kind) ==
    /\ Running(p) /\ <<id, kind>> \notin DOMAIN task[p].clients
    /\ id \notin DOMAIN task[p].backings /\ id \notin DOMAIN objects
    /\ Publish(p, id, kind)

Retain(p, id, kind) ==
    /\ Running(p) /\ <<id, kind>> \in DOMAIN task[p].clients
    /\ task[p].clients[<<id, kind>>].refs < MaxRefs
    /\ task' = [task EXCEPT ![p].clients[<<id, kind>>].refs = @ + 1]
    /\ UNCHANGED <<objects, published, nextId, ports, borrowed>>

\* An import is unmapped and its address recycled only when its lease is
\* still valid, that is when the guest has not mapped something over it.
Unmapped(t, slot) ==
    IF slot # NoneYet /\ t.at[slot] = "import"
    THEN [t EXCEPT !.at[slot] = "nothing", !.free = @ \cup {slot}] ELSE t

Release(p, id, kind) ==
    /\ Running(p) /\ <<id, kind>> \in DOMAIN task[p].clients
    /\ LET c == task[p].clients[<<id, kind>>]
           t == [task[p] EXCEPT !.clients = Drop(@, <<id, kind>>)]
           r == Released(objects, t, id)
       IN \/ /\ c.refs > 1
             /\ task' = [task EXCEPT ![p].clients[<<id, kind>>].refs = @ - 1]
             /\ UNCHANGED <<objects, borrowed>>
          \/ /\ c.refs = 1
             /\ objects' = r.objs /\ task' = [task EXCEPT ![p] = Unmapped(r.t, c.slot)]
             /\ borrowed' = [borrowed EXCEPT ![p] =
                    {i \in @ : \/ \E h \in DOMAIN t.handles : t.handles[h] = i
                               \/ \E x \in DOMAIN t.clients : x[1] = i}]
    /\ UNCHANGED <<published, nextId, ports>>

\* The guest maps something of its own at an import address, or unmaps it.
GuestMaps(p, s) ==
    /\ task[p].alive /\ task[p].at[s] # "guest"
    /\ task' = [task EXCEPT ![p].at[s] = "guest"]
    /\ UNCHANGED <<objects, published, nextId, ports, borrowed>>
GuestUnmaps(p, s) ==
    /\ Running(p) /\ task[p].at[s] # "nothing"
    /\ task' = [task EXCEPT ![p].at[s] = "nothing"]
    /\ UNCHANGED <<objects, published, nextId, ports, borrowed>>

-----------------------------------------------------------------------------
(***************************************************************************)
(* MBX2D handles, surface ports and processes.                             *)
(***************************************************************************)
\* mbx2DCreateSurface retains the backing when there is one.
CreateHandle(p, id) ==
    /\ Running(p) /\ DOMAIN task[p].handles = {} /\ id \in DOMAIN task[p].backings
    /\ task' = [task EXCEPT ![p].backings[id].refs = @ + 1, ![p].handles = With(@, 1, id)]
    /\ UNCHANGED <<objects, published, nextId, ports, borrowed>>

ReleaseHandle(p, h) ==
    /\ Running(p) /\ h \in DOMAIN task[p].handles
    /\ LET r == Released(objects, task[p], task[p].handles[h])
           t == [r.t EXCEPT !.handles = Drop(@, h)]
       IN /\ objects' = r.objs /\ task' = [task EXCEPT ![p] = t]
          /\ borrowed' = [borrowed EXCEPT ![p] = {i \in @ : \E x \in DOMAIN t.clients : x[1] = i}]
    /\ UNCHANGED <<published, nextId, ports>>

\* create_surface_transport_send_right_locked: one port for an identifier.
CreateMachPort(p, id) ==
    /\ Running(p) /\ \E kind \in Kinds : <<id, kind>> \in DOMAIN task[p].clients
    /\ \/ /\ id \in DOMAIN ports /\ ports' = [ports EXCEPT ![id].holders = @ \cup {p}]
          /\ UNCHANGED objects
       \/ /\ id \notin DOMAIN ports /\ id \in DOMAIN objects
          /\ objects' = [objects EXCEPT ![id].refs = @ + 1]
          /\ ports' = With(ports, id, [seq |-> objects[id].seq, holders |-> {p}])
    /\ UNCHANGED <<published, nextId, task, borrowed>>

\* A message carries the right to another process.
SendPort(p, q, id) ==
    /\ task[p].alive /\ task[q].alive /\ id \in DOMAIN ports
    /\ p \in ports[id].holders /\ q \notin ports[id].holders
    /\ ports' = [ports EXCEPT ![id].holders = @ \cup {q}]
    /\ UNCHANGED <<objects, published, nextId, task, borrowed>>

\* The ports whose last right goes with those of p are removed, and their
\* leases dropped.
WithoutRights(p, dropped) ==
    LET dead == {id \in dropped : ports[id].holders = {p}}
    IN /\ ports' = [id \in DOMAIN ports \ dead |->
                        IF id \in dropped THEN [ports[id] EXCEPT !.holders = @ \ {p}] ELSE ports[id]]
       /\ objects' = [id \in {i \in DOMAIN objects :
                              i \in dead => i \in DOMAIN Unleased(objects, i, ports[i].seq)} |->
                        IF id \in dead THEN Unleased(objects, id, ports[id].seq)[id] ELSE objects[id]]

DropPort(p, id) ==
    /\ task[p].alive /\ id \in DOMAIN ports /\ p \in ports[id].holders
    /\ WithoutRights(p, {id})
    /\ UNCHANGED <<published, nextId, task, borrowed>>

\* fork copies the state of the process, and the rights it holds are not.
Fork(p, q) ==
    /\ Running(p) /\ ~task[q].alive /\ task[q] = Gone
    /\ task' = [task EXCEPT ![q] = task[p]]
    /\ objects' = inherit_references(objects, task[p])
    /\ borrowed' = [borrowed EXCEPT ![q] = borrowed[p]]
    /\ UNCHANGED <<published, nextId, ports>>

Spawn(q) ==
    /\ task[q] = Gone
    /\ task' = [task EXCEPT ![q] = Fresh]
    /\ UNCHANGED <<objects, published, nextId, ports, borrowed>>

\* exec resets the store and forgets clients and handles with their memory.
Exec(p) ==
    /\ Running(p) /\ task[p] # Fresh
    /\ objects' = reset(objects, task[p])
    /\ task' = [task EXCEPT ![p] = Fresh] /\ borrowed' = [borrowed EXCEPT ![p] = {}]
    /\ UNCHANGED <<published, nextId, ports>>

\* The rights of an exited process go at once, its store when the reaper
\* destroys the runtime.
Exit(p) ==
    /\ task[p].alive
    /\ task' = [task EXCEPT ![p].alive = FALSE]
    /\ WithoutRights(p, {id \in DOMAIN ports : p \in ports[id].holders})
    /\ UNCHANGED <<published, nextId, borrowed>>

Destroy(p) ==
    /\ ~task[p].alive /\ task[p] # Gone
    /\ objects' = reset(objects, task[p])
    /\ task' = [task EXCEPT ![p] = Gone] /\ borrowed' = [borrowed EXCEPT ![p] = {}]
    /\ UNCHANGED <<published, nextId, ports>>

SurfaceNext ==
    \E p \in Tasks :
      \/ \E kind \in Kinds :
           \/ CreateBuffer(p, kind)
           \/ \E id \in Ids :
                \/ LookupClient(p, id, kind) \/ LookupLocal(p, id, kind)
                \/ LookupShared(p, id, kind) \/ LookupUnknown(p, id, kind)
                \/ Retain(p, id, kind) \/ Release(p, id, kind)
      \/ Import(p)
      \/ \E s \in Slots : GuestMaps(p, s) \/ GuestUnmaps(p, s)
      \/ \E id \in Ids : \/ CreateHandle(p, id) \/ CreateMachPort(p, id) \/ DropPort(p, id)
                         \/ \E q \in Tasks \ {p} : SendPort(p, q, id)
      \/ \E h \in DOMAIN task[p].handles : ReleaseHandle(p, h)
      \/ \E q \in Tasks \ {p} : Fork(p, q)
      \/ Spawn(p) \/ Exec(p) \/ Exit(p) \/ Destroy(p)

-----------------------------------------------------------------------------
\* Every reference to a published surface is counted, whatever the order in
\* which processes fork, exit and drop ports: the object has one reference
\* for each store with a backing and one for its leased port, and all of
\* them mean this publication, never an earlier one of the identifier.
StoreReferencesExact ==
    /\ \A id \in DOMAIN objects :
         objects[id].refs = Cardinality({p \in Tasks : id \in DOMAIN task[p].backings})
                            + (IF id \in DOMAIN ports THEN 1 ELSE 0)
    /\ \A id \in DOMAIN ports : id \in DOMAIN objects /\ objects[id].seq = ports[id].seq
    /\ \A p \in Tasks : \A id \in DOMAIN task[p].backings :
         id \in DOMAIN objects /\ objects[id].seq = task[p].backings[id].seq

\* Inside a process the backing of a surface is there for exactly as long as
\* a client buffer or an MBX2D handle uses it, and is the publication they
\* were made for. Clients made from a backing that was already there take
\* no reference (core_surface_hle.cpp:382) and are left out.
BackingsMatchClients ==
    \A p \in Tasks : \A id \in Ids \ borrowed[p] :
      LET clients == {c \in DOMAIN task[p].clients : c[1] = id}
          users == Cardinality(clients) + Cardinality({h \in DOMAIN task[p].handles : task[p].handles[h] = id})
      IN /\ id \in DOMAIN task[p].backings <=> users > 0
         /\ users > 0 => /\ task[p].backings[id].refs = users
                         /\ \A c \in clients : task[p].clients[c].seq = task[p].backings[id].seq

\* A client's import address is never handed out again while the client
\* lives, and no import stays mapped when its client is gone.
ImportsOwned ==
    \A p \in Tasks :
      LET slotOf(c) == task[p].clients[c].slot
          imported == {c \in DOMAIN task[p].clients : slotOf(c) # NoneYet}
      IN /\ \A c \in imported : slotOf(c) \notin task[p].free
         /\ \A c, e \in imported : slotOf(c) = slotOf(e) => c = e
         /\ \A s \in Slots : task[p].at[s] = "import" => \E c \in imported : slotOf(c) = s

=============================================================================
