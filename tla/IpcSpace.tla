------------------------------ MODULE IpcSpace ------------------------------
(***************************************************************************)
(* One task's ipc_space: the map from Mach names to entries, and what the  *)
(* operations of MachNamespaceTable (src/mach/mach_namespace.cpp) do to    *)
(* it.  A name is looked up by scanning the entries: this is the           *)
(* "authoritative ipc_entry map" the header speaks of.  The index the code *)
(* keeps beside it is in module MachNamespace.                             *)
(*                                                                         *)
(* Every caller grants one right and one user reference at a time and      *)
(* passes a port object, never MACH_PORT_NULL.                             *)
(***************************************************************************)
EXTENDS Integers, FiniteSets

CONSTANTS
    Tasks,                  \* process identifiers
    Objects,                \* global port objects
    FirstName,              \* first_dynamic_name (0x10000)
    NameStride,             \* name_index_stride (0x100)
    LastName,               \* the name before dead_name (0xfffffffe)
    MaxUserReferences,      \* maximum_user_references (0xffff)
    CountLimit              \* the largest uint32

ASSUME IpcSpaceAssumption ==
    /\ FirstName \in Nat \ {0}
    /\ NameStride \in Nat \ {0}
    /\ LastName \in Nat
    /\ FirstName <= LastName
    /\ MaxUserReferences \in Nat \ {0}
    /\ CountLimit \in Nat
    /\ MaxUserReferences <= CountLimit

\* valid_name: neither null_name (0) nor dead_name.
Names == 1 .. LastName
NoName == 0

Rights == {"Send", "Receive", "SendOnce", "PortSet", "DeadName"}

-----------------------------------------------------------------------------
(***************************************************************************)
(* Entries.                                                                *)
(***************************************************************************)
make_entry(object, right) ==
    [object |-> object, type |-> {right},
     user_references |-> [r \in Rights |-> IF r = right THEN 1 ELSE 0]]

add_types_unchecked(entry, right) ==
    [entry EXCEPT
        !.type = @ \cup {right},
        !.user_references[right] =
            IF right \in {"Send", "DeadName"} THEN @ + 1 ELSE 1]

\* Sends and dead names count; other rights already present stay as they are.
add_types(entry, right) ==
    [entry EXCEPT
        !.type = @ \cup {right},
        !.user_references[right] =
            IF right \notin entry.type THEN 1
            ELSE IF right \in {"Send", "DeadName"} /\ @ < CountLimit THEN @ + 1
            ELSE @]

\* An entry without a right; taking away the last user reference takes the right.
DropRight(entry, right) ==
    [entry EXCEPT !.type = @ \ {right}, !.user_references[right] = 0]

WithReferences(entry, right, count) ==
    IF count = 0 THEN DropRight(entry, right)
    ELSE [entry EXCEPT !.user_references[right] = count]

MaximumReferences(right) ==
    IF right = "Send" THEN MaxUserReferences - 1 ELSE MaxUserReferences

\* The conditions under which modify_references succeeds.
CanModify(entry, right, delta) ==
    /\ right \in entry.type
    /\ delta > 0 => /\ right \in {"Send", "DeadName"}
                    /\ entry.user_references[right] + delta <= MaximumReferences(right)
    /\ entry.user_references[right] + delta >= 0

SendLike(entry) == entry.type \cap {"Send", "SendOnce"} # {}

\* All send and send-once references become dead-name references.
DeadEntry(entry) ==
    LET both == entry.user_references["Send"] + entry.user_references["SendOnce"] IN
    [object |-> entry.object,
     type |-> (entry.type \ {"Send", "SendOnce"}) \cup {"DeadName"},
     user_references |->
        [entry.user_references EXCEPT
            !["Send"] = 0, !["SendOnce"] = 0,
            !["DeadName"] = IF both < 1 THEN 1
                            ELSE IF both > CountLimit THEN CountLimit ELSE both]]

\* The right deallocate releases a reference of, in its order of preference.
Releasable(entry) == entry.type \cap {"Send", "SendOnce", "DeadName"}
ReleasedRight(entry) ==
    IF "Send" \in entry.type THEN "Send"
    ELSE IF "SendOnce" \in entry.type THEN "SendOnce" ELSE "DeadName"

-----------------------------------------------------------------------------
(***************************************************************************)
(* The map from names to entries, and the cursor allocate starts from.     *)
(***************************************************************************)
Lowest(S) == CHOOSE n \in S : \A m \in S : n <= m

WithEntry(entries, n, entry) ==
    [m \in DOMAIN entries \cup {n} |-> IF m = n THEN entry ELSE entries[m]]
WithoutName(entries, n) == [m \in DOMAIN entries \ {n} |-> entries[m]]

\* An entry left without a right is erased.
Settle(entries, n, entry) ==
    IF entry.type = {} THEN WithoutName(entries, n) ELSE WithEntry(entries, n, entry)

\* The names allocate's search may stop at: every NameStride-th from the cursor.
FreeNames(entries, next) ==
    {n \in Names : n >= next /\ (n - next) % NameStride = 0 /\ n \notin DOMAIN entries}

\* The cursor after allocating a name: it stays where a further step would
\* leave the range of MachName.
CursorAfter(n, next) == IF n <= LastName + 1 - NameStride THEN n + NameStride ELSE next

NewSpace == [next_name |-> FirstName, entries |-> [n \in {} |-> make_entry(0, "Send")]]

NamesOf(s, object) == {n \in DOMAIN s.entries : s.entries[n].object = object}

Holds(s, n, right) == n \in DOMAIN s.entries /\ right \in s.entries[n].type

-----------------------------------------------------------------------------
(***************************************************************************)
(* The operations on one space.                                            *)
(***************************************************************************)
CanInstall(s, n, object) ==
    n \in Names /\ (n \in DOMAIN s.entries => s.entries[n].object = object)

SpaceInstall(s, n, object, right) ==
    [s EXCEPT !.entries = WithEntry(@, n, IF n \in DOMAIN @ THEN add_types(@[n], right)
                                          ELSE make_entry(object, right))]

CanAllocate(s) == FreeNames(s.entries, s.next_name) # {}
AllocatedName(s) == Lowest(FreeNames(s.entries, s.next_name))

SpaceAllocate(s, object, right) ==
    [next_name |-> CursorAfter(AllocatedName(s), s.next_name),
     entries |-> WithEntry(s.entries, AllocatedName(s), make_entry(object, right))]

\* Whether copyout adds the right to an entry the task already has.
Coalesces(s, object, right) == right # "SendOnce" /\ NamesOf(s, object) # {}

CanCopyout(s, object, right) == Coalesces(s, object, right) \/ CanAllocate(s)

\* The name copyout returns, and the space after it.
SpaceCopyout(s, object, right) ==
    IF Coalesces(s, object, right)
    THEN [s EXCEPT !.entries[Lowest(NamesOf(s, object))] = add_types(@, right)]
    ELSE SpaceAllocate(s, object, right)

SpaceRename(s, old, new) ==
    [s EXCEPT !.entries = WithEntry(WithoutName(@, old), new, @[old])]

SpaceSettle(s, n, entry) == [s EXCEPT !.entries = Settle(@, n, entry)]

SpaceModify(s, n, right, delta) ==
    SpaceSettle(s, n, WithReferences(s.entries[n], right,
                                     s.entries[n].user_references[right] + delta))

SpaceDestroyName(s, n) == [s EXCEPT !.entries = WithoutName(@, n)]

SpaceMarkDead(s, object) ==
    [s EXCEPT !.entries = [n \in DOMAIN @ |->
        IF @[n].object = object /\ SendLike(@[n]) THEN DeadEntry(@[n]) ELSE @[n]]]

SpaceRemoveType(s, n, right) == SpaceSettle(s, n, DropRight(s.entries[n], right))

SpaceDeallocate(s, n) == SpaceModify(s, n, ReleasedRight(s.entries[n]), -1)

\* right_reference_count(object, right) = 0: no task holds the right.
NoReferences(spaces, object, right) ==
    \A t \in DOMAIN spaces : \A n \in NamesOf(spaces[t], object) :
        right \notin spaces[t].entries[n].type
=============================================================================
