----------------------------- MODULE IpcSpaces -----------------------------
(***************************************************************************)
(* What MachNamespaceTable promises: a table of ipc_spaces in which every  *)
(* operation finds a name by looking at the entries.  Module MachNamespace *)
(* implements it with an index.  An operation that fails changes nothing,  *)
(* except that it may create the task's space (spaces_[task]).             *)
(***************************************************************************)
EXTENDS IpcSpace

CONSTANTS
    ChosenNames,            \* names callers ask for: install, rename, copyout_at_name
    GrantedRights,          \* rights callers grant
    Deltas                  \* reference changes callers ask for

VARIABLE spaces             \* spaces_: a function on the tasks that have a space

SpaceOf(t) == IF t \in DOMAIN spaces THEN spaces[t] ELSE NewSpace
Put(t, s) == spaces' = [u \in DOMAIN spaces \cup {t} |-> IF u = t THEN s ELSE spaces[u]]
Has(t, n) == t \in DOMAIN spaces /\ n \in DOMAIN spaces[t].entries

create_task(t) == Put(t, SpaceOf(t))

destroy_task(t) ==
    t \in DOMAIN spaces /\ spaces' = [u \in DOMAIN spaces \ {t} |-> spaces[u]]

install(t, n, object, right) ==
    /\ CanInstall(SpaceOf(t), n, object)
    /\ Put(t, SpaceInstall(SpaceOf(t), n, object, right))

allocate(t, object, right) ==
    /\ CanAllocate(SpaceOf(t))
    /\ Put(t, SpaceAllocate(SpaceOf(t), object, right))

copyout(t, object, right) ==
    /\ CanCopyout(SpaceOf(t), object, right)
    /\ Put(t, SpaceCopyout(SpaceOf(t), object, right))

\* The preferred name is used when copyout would have to allocate one.
copyout_at_name(t, object, right, preferred) ==
    LET s == SpaceOf(t) IN
    IF Coalesces(s, object, right) \/ preferred \in DOMAIN s.entries
    THEN copyout(t, object, right)
    ELSE Put(t, SpaceInstall(s, preferred, object, right))

rename(t, old, new) ==
    /\ Has(t, old) /\ ~Has(t, new)
    /\ Put(t, SpaceRename(spaces[t], old, new))

modify_references(t, n, right, delta) ==
    /\ Has(t, n) /\ CanModify(spaces[t].entries[n], right, delta)
    /\ Put(t, SpaceModify(spaces[t], n, right, delta))

destroy_name(t, n) == Has(t, n) /\ Put(t, SpaceDestroyName(spaces[t], n))

mark_object_dead(object) ==
    spaces' = [t \in DOMAIN spaces |-> SpaceMarkDead(spaces[t], object)]

remove_type(t, n, right) ==
    /\ Has(t, n) /\ right \in spaces[t].entries[n].type
    /\ Put(t, SpaceRemoveType(spaces[t], n, right))

deallocate(t, n) ==
    /\ Has(t, n) /\ Releasable(spaces[t].entries[n]) # {}
    /\ Put(t, SpaceDeallocate(spaces[t], n))

Init == spaces = [t \in {} |-> NewSpace]

Next ==
    \/ \E object \in Objects : mark_object_dead(object)
    \/ \E t \in Tasks :
        \/ create_task(t)
        \/ destroy_task(t)
        \/ \E object \in Objects, right \in GrantedRights :
            \/ allocate(t, object, right)
            \/ copyout(t, object, right)
            \/ \E n \in ChosenNames :
                install(t, n, object, right) \/ copyout_at_name(t, object, right, n)
        \/ \E n \in Names :
            \/ destroy_name(t, n)
            \/ deallocate(t, n)
            \/ \E new \in ChosenNames : rename(t, n, new)
            \/ \E right \in Rights :
                \/ remove_type(t, n, right)
                \/ \E delta \in Deltas : modify_references(t, n, right, delta)

Spec == Init /\ [][Next]_spaces
=============================================================================
