--------------------------- MODULE MachNamespace ---------------------------
(***************************************************************************)
(* MachNamespaceTable (src/mach/mach_namespace.cpp) with its index: every  *)
(* space remembers the sorted names of each object beside the entries, so  *)
(* that name_for and copyout need not scan them.  A sorted vector of names *)
(* is modelled by the set of its members; its front is the lowest.         *)
(***************************************************************************)
EXTENDS IpcSpace

CONSTANTS
    ChosenNames, GrantedRights,     \* as in module IpcSpaces
    Increments, Decrements          \* by how much callers ask to change references

ASSUME CallersAssumption ==
    /\ ChosenNames \subseteq Names
    /\ GrantedRights \subseteq Rights
    /\ Increments \subseteq Nat
    /\ Decrements \subseteq Nat

Deltas == Increments \cup {-n : n \in Decrements}

VARIABLE spaces             \* spaces_

EmptySpace == [next_name |-> FirstName,
               entries |-> [n \in {} |-> make_entry(0, "Send")],
               names_by_object |-> [object \in {} |-> {}]]

SpaceOf(t) == IF t \in DOMAIN spaces THEN spaces[t] ELSE EmptySpace
Put(t, s) == spaces' = [u \in DOMAIN spaces \cup {t} |-> IF u = t THEN s ELSE spaces[u]]
Has(t, n) == t \in DOMAIN spaces /\ n \in DOMAIN spaces[t].entries

-----------------------------------------------------------------------------
(***************************************************************************)
(* The index.                                                              *)
(***************************************************************************)
indexed_names(index, object) == IF object \in DOMAIN index THEN index[object] ELSE {}

index_name(index, object, n) ==
    [o \in DOMAIN index \cup {object} |->
        IF o = object THEN indexed_names(index, object) \cup {n} ELSE index[o]]

\* An object without a name has no list.
unindex_name(index, object, n) ==
    IF indexed_names(index, object) \subseteq {n}
    THEN [o \in DOMAIN index \ {object} |-> index[o]]
    ELSE [o \in DOMAIN index |-> IF o = object THEN index[o] \ {n} ELSE index[o]]

\* A name enters, leaves or changes its entry.
Emplace(s, n, entry) ==
    [s EXCEPT !.entries = WithEntry(@, n, entry),
              !.names_by_object = index_name(@, entry.object, n)]

Erase(s, n) ==
    [s EXCEPT !.entries = WithoutName(@, n),
              !.names_by_object = unindex_name(@, s.entries[n].object, n)]

Change(s, n, entry) == [s EXCEPT !.entries[n] = entry]

\* An entry left without a right is erased.
Store(s, n, entry) == IF entry.type = {} THEN Erase(s, n) ELSE Change(s, n, entry)

-----------------------------------------------------------------------------
(***************************************************************************)
(* The operations.                                                         *)
(***************************************************************************)
create_task(t) == Put(t, SpaceOf(t))

destroy_task(t) ==
    t \in DOMAIN spaces /\ spaces' = [u \in DOMAIN spaces \ {t} |-> spaces[u]]

install(t, n, object, right) ==
    LET s == SpaceOf(t) IN
    /\ CanInstall(s, n, object)
    /\ Put(t, IF n \in DOMAIN s.entries THEN Change(s, n, add_types(s.entries[n], right))
              ELSE Emplace(s, n, make_entry(object, right)))

\* A task's space is created even when it has no free name.
allocate(t, object, right) ==
    LET s == SpaceOf(t) IN
    Put(t, IF CanAllocate(s)
           THEN [Emplace(s, AllocatedName(s), make_entry(object, right)) EXCEPT
                    !.next_name = CursorAfter(AllocatedName(s), @)]
           ELSE s)

\* Adds the right to the first indexed name of the object.
AddToFront(s, object, right) ==
    LET n == Lowest(indexed_names(s.names_by_object, object))
    IN  Change(s, n, add_types(s.entries[n], right))

HasIndexed(s, object) == indexed_names(s.names_by_object, object) # {}

copyout_any(t, object, right) ==
    LET s == SpaceOf(t) IN
    IF right # "SendOnce" /\ HasIndexed(s, object)
    THEN \E n \in s.names_by_object[object] :
             Put(t, Change(s, n, add_types(s.entries[n], right)))
    ELSE allocate(t, object, right)

copyout(t, object, right) ==
    LET s == SpaceOf(t) IN
    IF right # "SendOnce" /\ HasIndexed(s, object)
    THEN Put(t, AddToFront(s, object, right))
    ELSE allocate(t, object, right)

copyout_at_name(t, object, right, preferred) ==
    LET s == SpaceOf(t) IN
    IF right # "SendOnce" /\ HasIndexed(s, object)
    THEN Put(t, AddToFront(s, object, right))
    ELSE IF preferred \in DOMAIN s.entries
    THEN allocate(t, object, right)
    ELSE Put(t, Emplace(s, preferred, make_entry(object, right)))

rename_unindexed(t, old, new) ==
    /\ Has(t, old) /\ ~Has(t, new)
    /\ Put(t, [spaces[t] EXCEPT !.entries = WithEntry(WithoutName(@, old), new, @[old])])

rename(t, old, new) ==
    /\ Has(t, old) /\ ~Has(t, new)
    /\ Put(t, Emplace(Erase(spaces[t], old), new, spaces[t].entries[old]))

modify_references(t, n, right, delta) ==
    /\ Has(t, n) /\ CanModify(spaces[t].entries[n], right, delta)
    /\ LET entry == spaces[t].entries[n]
       IN  Put(t, Store(spaces[t], n,
                        WithReferences(entry, right, entry.user_references[right] + delta)))

destroy_name(t, n) == Has(t, n) /\ Put(t, Erase(spaces[t], n))

\* Only the indexed names are visited.
mark_object_dead(object) ==
    spaces' = [t \in DOMAIN spaces |->
        [spaces[t] EXCEPT !.entries = [n \in DOMAIN @ |->
            IF n \in indexed_names(spaces[t].names_by_object, object) /\ SendLike(@[n])
            THEN DeadEntry(@[n]) ELSE @[n]]]]

remove_type(t, n, right) ==
    /\ Has(t, n) /\ right \in spaces[t].entries[n].type
    /\ Put(t, Store(spaces[t], n, DropRight(spaces[t].entries[n], right)))

deallocate(t, n) ==
    /\ Has(t, n) /\ Releasable(spaces[t].entries[n]) # {}
    /\ LET entry == spaces[t].entries[n]
           right == ReleasedRight(entry)
       IN  Put(t, Store(spaces[t], n,
                        WithReferences(entry, right, entry.user_references[right] - 1)))

Init == spaces = [t \in {} |-> EmptySpace]

Next ==
    \/ \E object \in Objects : mark_object_dead(object)
    \/ \E t \in Tasks :
        \/ create_task(t)
        \/ destroy_task(t)
        \/ \E object \in Objects, right \in GrantedRights :
            \/ allocate(t, object, right)
            \/ copyout(t, object, right)
            \/ \E n \in ChosenNames :
                install(t, n, object, right) \/ copyout_at_name(t, object, right, n)
        \/ \E n \in Names :
            \/ destroy_name(t, n)
            \/ deallocate(t, n)
            \/ \E new \in ChosenNames : rename(t, n, new)
            \/ \E right \in Rights :
                \/ remove_type(t, n, right)
                \/ \E delta \in Deltas : modify_references(t, n, right, delta)

Spec == Init /\ [][Next]_spaces

-----------------------------------------------------------------------------
(***************************************************************************)
(* Properties.                                                             *)
(***************************************************************************)
Entries == [object : Objects, type : SUBSET Rights, user_references : [Rights -> 0 .. CountLimit]]

\* A space is a partial map from names to entries, with a cursor that is at most
\* dead_name and an index of its objects.
SpaceType(s) ==
    /\ s \in [next_name : 1 .. LastName + 1, entries : {s.entries},
              names_by_object : {s.names_by_object}]
    /\ DOMAIN s.entries \subseteq Names
    /\ s.entries \in [DOMAIN s.entries -> Entries]
    /\ DOMAIN s.names_by_object \subseteq Objects
    /\ s.names_by_object \in [DOMAIN s.names_by_object -> SUBSET Names]

TypeOK == DOMAIN spaces \subseteq Tasks /\ \A t \in DOMAIN spaces : SpaceType(spaces[t])

\* The index lists exactly the names of every object, whatever sequence of
\* grants, renames, releases and deaths led here, and no list is empty.
IndexExact(s) ==
    /\ DOMAIN s.names_by_object = {s.entries[n].object : n \in DOMAIN s.entries}
    /\ \A object \in DOMAIN s.names_by_object :
           s.names_by_object[object] = {n \in DOMAIN s.entries : s.entries[n].object = object}

IndexesExact == \A t \in DOMAIN spaces : IndexExact(spaces[t])

\* An entry holds a right exactly as long as it has user references of it, and
\* an entry without a right does not exist.
ReferencesMatch(entry) ==
    /\ entry.type # {}
    /\ \A right \in Rights : right \in entry.type <=> entry.user_references[right] > 0

ReferencesMatchTypes ==
    \A t \in DOMAIN spaces : \A n \in DOMAIN spaces[t].entries :
        ReferencesMatch(spaces[t].entries[n])

\* The index is invisible: the table behaves as one that scans its entries.
PlainSpaces ==
    [t \in DOMAIN spaces |->
        [next_name |-> spaces[t].next_name, entries |-> spaces[t].entries]]

Ipc == INSTANCE IpcSpaces WITH spaces <- PlainSpaces

ImplementsIpcSpaces == Ipc!Spec

\* Comment of maximum_user_references: "XNU 792 stores ipc_entry user references
\* in a 16-bit field. A live send right reserves the all-ones value for dead-name
\* conversion."
UserReferencesFit ==
    \A t \in DOMAIN spaces : \A n \in DOMAIN spaces[t].entries :
        \A right \in {"Send", "DeadName"} :
            spaces[t].entries[n].user_references[right] <= MaximumReferences(right)

\* Comment of copyout: "SendOnce rights never coalesce in an ipc_space and always
\* have exactly one user reference."  The code does not keep it (README).
SendOnceNeverCoalesces ==
    \A t \in DOMAIN spaces : \A n \in DOMAIN spaces[t].entries :
        "SendOnce" \in spaces[t].entries[n].type => spaces[t].entries[n].type = {"SendOnce"}

\* The entries of a space and its index say the same of every object, and an entry
\* stays as long as it is referred to (insert, remove, release_reference).
EntriesExact == IndexesExact /\ ReferencesMatchTypes
=============================================================================
