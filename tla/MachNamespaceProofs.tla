------------------------ MODULE MachNamespaceProofs ------------------------
(***************************************************************************)
(* Proofs about MachNamespace, for any number of tasks, objects, names and *)
(* references: the index and the reference counts of every space are exact *)
(* (IInv is inductive), and the indexed table implements IpcSpaces.        *)
(***************************************************************************)
EXTENDS MachNamespace, NaturalsInduction, WellFoundedInduction, TLAPS

EntryOK(entry) == entry \in Entries /\ ReferencesMatch(entry)

SpaceOK(s) ==
    /\ SpaceType(s)
    /\ IndexExact(s)
    /\ \A n \in DOMAIN s.entries : ReferencesMatch(s.entries[n])

\* The inductive invariant: it is the conjunction of the three invariants, and
\* none of them is inductive alone (copyout and a port's death follow the index).
IInv == DOMAIN spaces \subseteq Tasks /\ \A t \in DOMAIN spaces : SpaceOK(spaces[t])

-----------------------------------------------------------------------------
(***************************************************************************)
(* Entries.                                                                *)
(***************************************************************************)
LEMMA Limits ==
    /\ MaxUserReferences \in Nat \ {0} /\ CountLimit \in Nat /\ 1 <= CountLimit
    /\ MaxUserReferences <= CountLimit
    /\ LastName \in Nat /\ FirstName \in 1 .. LastName + 1
    /\ NameStride \in Nat \ {0}
BY IpcSpaceAssumption

LEMMA MakeEntryOK ==
    ASSUME NEW object \in Objects, NEW right \in Rights
    PROVE  EntryOK(make_entry(object, right)) /\ make_entry(object, right).object = object
BY Limits DEF EntryOK, Entries, ReferencesMatch, make_entry

LEMMA AddTypesOK ==
    ASSUME NEW entry, EntryOK(entry), NEW right \in Rights
    PROVE  EntryOK(add_types(entry, right)) /\ add_types(entry, right).object = entry.object
<1>1. entry \in Entries /\ ReferencesMatch(entry) BY DEF EntryOK
<1>2. add_types(entry, right).object = entry.object BY <1>1 DEF Entries, add_types
<1>3. add_types(entry, right).type = entry.type \cup {right} BY <1>1 DEF Entries, add_types
<1> DEFINE count == add_types(entry, right).user_references
<1>4. /\ count = [entry.user_references EXCEPT ![right] = count[right]]
      /\ count[right] \in 1 .. CountLimit
  BY <1>1, Limits DEF Entries, ReferencesMatch, add_types
<1>5. add_types(entry, right) \in Entries
  <2>1. count \in [Rights -> 0 .. CountLimit] BY <1>1, <1>4, Limits DEF Entries
  <2> QED BY <1>1, <1>2, <1>3, <2>1 DEF Entries, add_types
<1>6. ReferencesMatch(add_types(entry, right))
  BY <1>1, <1>3, <1>4, Limits DEF Entries, ReferencesMatch
<1> QED BY <1>2, <1>5, <1>6 DEF EntryOK

\* What modify_references, remove_type and deallocate leave in an entry.
Settled(entry, old) ==
    /\ entry \in Entries
    /\ entry.object = old.object
    /\ entry.type = {} \/ ReferencesMatch(entry)

LEMMA DropRightOK ==
    ASSUME NEW entry, EntryOK(entry), NEW right \in Rights
    PROVE  Settled(DropRight(entry, right), entry)
<1> DEFINE r == DropRight(entry, right)
<1>1. entry \in Entries /\ ReferencesMatch(entry) BY DEF EntryOK
<1>2. /\ r.object = entry.object
      /\ r.type = entry.type \ {right}
      /\ r.user_references = [entry.user_references EXCEPT ![right] = 0]
  BY <1>1 DEF Entries, DropRight
<1>3. r.user_references \in [Rights -> 0 .. CountLimit] BY <1>1, <1>2, Limits DEF Entries
<1>4. r \in Entries BY <1>1, <1>2, <1>3 DEF Entries, DropRight
<1>5. r.type = {} \/ ReferencesMatch(r)
  BY <1>1, <1>2, Limits DEF Entries, ReferencesMatch
<1> QED BY <1>2, <1>4, <1>5 DEF Settled

LEMMA WithReferencesOK ==
    ASSUME NEW entry, EntryOK(entry), NEW right \in entry.type, NEW count \in 0 .. CountLimit
    PROVE  Settled(WithReferences(entry, right, count), entry)
<1>1. right \in Rights BY DEF EntryOK, Entries
<1>2. CASE count = 0 BY <1>1, <1>2, DropRightOK DEF WithReferences
<1>3. CASE count # 0
  BY <1>1, <1>3, Limits DEF EntryOK, Entries, ReferencesMatch, WithReferences, Settled
<1> QED BY <1>2, <1>3

LEMMA ModifiedCount ==
    ASSUME NEW entry, EntryOK(entry), NEW right \in Rights, NEW delta \in Int,
           CanModify(entry, right, delta)
    PROVE  right \in entry.type /\ entry.user_references[right] + delta \in 0 .. CountLimit
BY Limits DEF EntryOK, Entries, CanModify, MaximumReferences

LEMMA ReleasedCount ==
    ASSUME NEW entry, EntryOK(entry), Releasable(entry) # {}
    PROVE  /\ ReleasedRight(entry) \in entry.type
           /\ entry.user_references[ReleasedRight(entry)] - 1 \in 0 .. CountLimit
<1>1. ReleasedRight(entry) \in entry.type BY DEF ReleasedRight, Releasable
<1> QED BY <1>1, Limits DEF EntryOK, Entries, ReferencesMatch

LEMMA DeadEntryOK ==
    ASSUME NEW entry, EntryOK(entry), SendLike(entry)
    PROVE  EntryOK(DeadEntry(entry)) /\ DeadEntry(entry).object = entry.object
<1> DEFINE both == entry.user_references["Send"] + entry.user_references["SendOnce"]
           dead == IF both < 1 THEN 1 ELSE IF both > CountLimit THEN CountLimit ELSE both
<1>1. both \in Nat BY Limits DEF EntryOK, Entries, Rights
<1>2. dead \in 1 .. CountLimit BY <1>1, Limits
<1> HIDE DEF dead
<1>3. DeadEntry(entry) =
        [object |-> entry.object, type |-> (entry.type \ {"Send", "SendOnce"}) \cup {"DeadName"},
         user_references |-> [entry.user_references EXCEPT
                                !["Send"] = 0, !["SendOnce"] = 0, !["DeadName"] = dead]]
  BY DEF DeadEntry, dead
<1> QED BY <1>2, <1>3, Limits DEF EntryOK, Entries, ReferencesMatch, Rights

-----------------------------------------------------------------------------
(***************************************************************************)
(* A space: a name enters, leaves or changes its entry.                    *)
(***************************************************************************)
\* What IpcSpaces sees of a space.
Plain(s) == [next_name |-> s.next_name, entries |-> s.entries]

LEMMA EmptySpaceOK == SpaceOK(EmptySpace)
BY Limits DEF EmptySpace, SpaceOK, SpaceType, IndexExact, Names

LEMMA EmplaceOK ==
    ASSUME NEW s, SpaceOK(s), NEW n \in Names \ DOMAIN s.entries, NEW e, EntryOK(e)
    PROVE  /\ SpaceOK(Emplace(s, n, e))
           /\ Emplace(s, n, e).next_name = s.next_name
           /\ Emplace(s, n, e).entries = WithEntry(s.entries, n, e)
<1> DEFINE r == Emplace(s, n, e)
           object == e.object
<1>1. EntryOK(e) /\ e.object = object /\ object \in Objects BY DEF EntryOK, Entries
<1>2. /\ r \in [next_name : {s.next_name}, entries : {r.entries}, names_by_object : {r.names_by_object}]
      /\ r.entries = WithEntry(s.entries, n, e)
      /\ r.names_by_object = index_name(s.names_by_object, object, n)
  BY DEF SpaceOK, SpaceType, Emplace
<1> HIDE DEF r, object
<1>3. /\ DOMAIN r.entries = DOMAIN s.entries \cup {n}
      /\ \A m \in DOMAIN r.entries : r.entries[m] = IF m = n THEN e ELSE s.entries[m]
  BY <1>2 DEF WithEntry
<1>4. /\ DOMAIN r.names_by_object = DOMAIN s.names_by_object \cup {object}
      /\ r.names_by_object[object] = indexed_names(s.names_by_object, object) \cup {n}
      /\ \A o \in DOMAIN s.names_by_object : o # object => r.names_by_object[o] = s.names_by_object[o]
  BY <1>2 DEF index_name
<1>5. SpaceType(r)
  <2>1. r.entries \in [DOMAIN r.entries -> Entries]
    BY <1>1, <1>2, <1>3 DEF SpaceOK, SpaceType, EntryOK, WithEntry
  <2>2. r.names_by_object \in [DOMAIN r.names_by_object -> SUBSET Names]
    <3>1. indexed_names(s.names_by_object, object) \subseteq Names
      BY DEF SpaceOK, SpaceType, indexed_names
    <3>2. \A o \in DOMAIN r.names_by_object : r.names_by_object[o] \in SUBSET Names
      BY <1>4, <3>1 DEF SpaceOK, SpaceType
    <3>3. r.names_by_object = [o \in DOMAIN r.names_by_object |-> r.names_by_object[o]]
      BY <1>2 DEF index_name
    <3> QED BY <3>2, <3>3
  <2>3. /\ DOMAIN r.entries \subseteq Names
        /\ DOMAIN r.names_by_object \subseteq Objects
    BY <1>1, <1>3, <1>4 DEF SpaceOK, SpaceType
  <2>4. s.next_name \in 1 .. LastName + 1 BY DEF SpaceOK, SpaceType
  <2> QED BY <1>2, <2>1, <2>2, <2>3, <2>4 DEF SpaceType
<1>6. IndexExact(r)
  <2>1. indexed_names(s.names_by_object, object) = {m \in DOMAIN s.entries : s.entries[m].object = object}
    BY DEF SpaceOK, IndexExact, indexed_names
  <2>2. DOMAIN r.names_by_object = {r.entries[m].object : m \in DOMAIN r.entries}
    <3>1. DOMAIN s.names_by_object = {s.entries[m].object : m \in DOMAIN s.entries}
      BY DEF SpaceOK, IndexExact
    <3>2. \A m \in DOMAIN s.entries : r.entries[m] = s.entries[m] BY <1>3
    <3>3. r.entries[n].object = object BY <1>1, <1>3
    <3> QED BY <1>3, <1>4, <3>1, <3>2, <3>3
  <2>3. ASSUME NEW o \in DOMAIN r.names_by_object
        PROVE  r.names_by_object[o] = {m \in DOMAIN r.entries : r.entries[m].object = o}
    <3>1. CASE o = object BY <1>1, <1>3, <1>4, <2>1, <3>1
    <3>2. CASE o # object BY <1>1, <1>3, <1>4, <3>2 DEF SpaceOK, IndexExact
    <3> QED BY <3>1, <3>2
  <2> QED BY <2>2, <2>3 DEF IndexExact
<1>7. \A m \in DOMAIN r.entries : ReferencesMatch(r.entries[m])
  BY <1>1, <1>3 DEF SpaceOK, EntryOK
<1>8. r.next_name = s.next_name BY <1>2
<1> QED BY <1>2, <1>5, <1>6, <1>7, <1>8 DEF SpaceOK, r

LEMMA EraseOK ==
    ASSUME NEW s, SpaceOK(s), NEW n \in DOMAIN s.entries
    PROVE  /\ SpaceOK(Erase(s, n))
           /\ Erase(s, n).next_name = s.next_name
           /\ Erase(s, n).entries = WithoutName(s.entries, n)
<1> DEFINE object == s.entries[n].object
           r == Erase(s, n)
<1>1. /\ r \in [next_name : {s.next_name}, entries : {r.entries}, names_by_object : {r.names_by_object}]
      /\ r.entries = WithoutName(s.entries, n)
      /\ r.names_by_object = unindex_name(s.names_by_object, object, n)
  BY DEF SpaceOK, SpaceType, Erase
<1>2. object \in DOMAIN s.names_by_object BY DEF SpaceOK, IndexExact
<1>3. indexed_names(s.names_by_object, object) = {m \in DOMAIN s.entries : s.entries[m].object = object}
  BY <1>2 DEF SpaceOK, IndexExact, indexed_names
<1> HIDE DEF object, r
<1>4. /\ DOMAIN r.entries = DOMAIN s.entries \ {n}
      /\ \A m \in DOMAIN r.entries : r.entries[m] = s.entries[m]
  BY <1>1 DEF WithoutName
<1>5. /\ DOMAIN r.names_by_object =
           IF indexed_names(s.names_by_object, object) \subseteq {n}
           THEN DOMAIN s.names_by_object \ {object} ELSE DOMAIN s.names_by_object
      /\ \A o \in DOMAIN r.names_by_object :
           r.names_by_object[o] = IF o = object THEN s.names_by_object[o] \ {n}
                                  ELSE s.names_by_object[o]
  BY <1>1 DEF unindex_name
<1>6. SpaceType(r)
  <2>1. r.entries \in [DOMAIN r.entries -> Entries]
    BY <1>1, <1>4 DEF SpaceOK, SpaceType, WithoutName
  <2>2. r.names_by_object \in [DOMAIN r.names_by_object -> SUBSET Names]
    <3>1. \A o \in DOMAIN r.names_by_object : r.names_by_object[o] \in SUBSET Names
      BY <1>5 DEF SpaceOK, SpaceType
    <3>2. r.names_by_object = [o \in DOMAIN r.names_by_object |-> r.names_by_object[o]]
      BY <1>1 DEF unindex_name
    <3> QED BY <3>1, <3>2
  <2> QED BY <1>1, <1>4, <1>5, <2>1, <2>2 DEF SpaceOK, SpaceType
<1>7. IndexExact(r)
  <2>1. DOMAIN r.names_by_object = {r.entries[m].object : m \in DOMAIN r.entries}
    <3>1. CASE indexed_names(s.names_by_object, object) \subseteq {n}
      BY <1>3, <1>4, <1>5, <3>1 DEF SpaceOK, IndexExact, object
    <3>2. CASE ~(indexed_names(s.names_by_object, object) \subseteq {n})
      <4>1. PICK m \in DOMAIN s.entries : m # n /\ s.entries[m].object = object BY <1>3, <3>2
      <4> QED BY <1>4, <1>5, <3>2, <4>1 DEF SpaceOK, IndexExact, object
    <3> QED BY <3>1, <3>2
  <2>2. ASSUME NEW o \in DOMAIN r.names_by_object
        PROVE  r.names_by_object[o] = {m \in DOMAIN r.entries : r.entries[m].object = o}
    <3>1. /\ o \in DOMAIN s.names_by_object
          /\ s.names_by_object[o] = {m \in DOMAIN s.entries : s.entries[m].object = o}
      BY <1>5 DEF SpaceOK, IndexExact
    <3>2. CASE o = object BY <1>4, <1>5, <3>1, <3>2
    <3>3. CASE o # object
      <4>1. r.names_by_object[o] = s.names_by_object[o] BY <1>5, <3>3
      <4>2. s.entries[n].object # o BY <3>3 DEF object
      <4> QED BY <1>4, <3>1, <4>1, <4>2
    <3> QED BY <3>2, <3>3
  <2> QED BY <2>1, <2>2 DEF IndexExact
<1>8. \A m \in DOMAIN r.entries : ReferencesMatch(r.entries[m]) BY <1>4 DEF SpaceOK
<1>9. r.next_name = s.next_name BY <1>1
<1> QED BY <1>1, <1>6, <1>7, <1>8, <1>9 DEF SpaceOK, r

LEMMA ChangeOK ==
    ASSUME NEW s, SpaceOK(s), NEW n \in DOMAIN s.entries, NEW entry, EntryOK(entry),
           entry.object = s.entries[n].object
    PROVE  /\ SpaceOK(Change(s, n, entry))
           /\ Change(s, n, entry).next_name = s.next_name
           /\ Change(s, n, entry).entries = WithEntry(s.entries, n, entry)
<1> DEFINE r == Change(s, n, entry)
<1>1. /\ r \in [next_name : {s.next_name}, entries : {r.entries},
                names_by_object : {s.names_by_object}]
      /\ r.entries = [s.entries EXCEPT ![n] = entry]
      /\ r.names_by_object = s.names_by_object
  BY DEF SpaceOK, SpaceType, Change
<1> HIDE DEF r
<1>2. /\ DOMAIN r.entries = DOMAIN s.entries
      /\ \A m \in DOMAIN r.entries : r.entries[m] = IF m = n THEN entry ELSE s.entries[m]
  BY <1>1 DEF SpaceOK, SpaceType
<1>3. \A m \in DOMAIN r.entries : r.entries[m].object = s.entries[m].object BY <1>2
<1>4. r.entries = WithEntry(s.entries, n, entry)
  BY <1>1 DEF SpaceOK, SpaceType, WithEntry
<1>5. SpaceType(r) BY <1>1, <1>2 DEF SpaceOK, SpaceType, EntryOK
<1>6. IndexExact(r)
  <2>1. {r.entries[m].object : m \in DOMAIN r.entries}
          = {s.entries[m].object : m \in DOMAIN s.entries}
    BY <1>2, <1>3
  <2>2. \A o : {m \in DOMAIN r.entries : r.entries[m].object = o}
              = {m \in DOMAIN s.entries : s.entries[m].object = o}
    BY <1>2, <1>3
  <2> QED BY <1>1, <2>1, <2>2 DEF SpaceOK, IndexExact
<1>7. \A m \in DOMAIN r.entries : ReferencesMatch(r.entries[m])
  BY <1>2 DEF SpaceOK, EntryOK
<1>8. r.next_name = s.next_name BY <1>1
<1> QED BY <1>4, <1>5, <1>6, <1>7, <1>8 DEF SpaceOK, r

LEMMA StoreOK ==
    ASSUME NEW s, SpaceOK(s), NEW n \in DOMAIN s.entries, NEW entry,
           Settled(entry, s.entries[n])
    PROVE  /\ SpaceOK(Store(s, n, entry))
           /\ Store(s, n, entry).next_name = s.next_name
           /\ Store(s, n, entry).entries = Settle(s.entries, n, entry)
<1>1. CASE entry.type = {} BY <1>1, EraseOK DEF Store, Settle
<1>2. CASE entry.type # {}
  <2>1. EntryOK(entry) /\ entry.object = s.entries[n].object BY <1>2 DEF Settled, EntryOK
  <2> QED BY <1>2, <2>1, ChangeOK DEF Store, Settle
<1> QED BY <1>1, <1>2

LEMMA EntriesOK ==
    ASSUME NEW s, SpaceOK(s), NEW n \in DOMAIN s.entries
    PROVE  EntryOK(s.entries[n]) /\ n \in Names
BY DEF SpaceOK, SpaceType, EntryOK

LEMMA LowestExists ==
    ASSUME NEW S, S \subseteq Nat, S # {}
    PROVE  Lowest(S) \in S
<1> DEFINE Less == {ss \in Nat \X Nat : ss[1] < ss[2]}
<1>1. IsWellFoundedOn(Less, Nat) BY NatLessThanWellFounded DEF OpToRel
<1> HIDE DEF Less
<1>2. PICK n \in S : \A m \in S : ~(<<m, n>> \in Less) BY <1>1, WFMin
<1>3. ASSUME NEW m \in S PROVE n <= m
  <2>1. m \in Nat /\ n \in Nat OBVIOUS
  <2>2. m < n => <<m, n>> \in Less BY <2>1 DEF Less
  <2> QED BY <1>2, <2>1, <2>2
<1> QED BY <1>3 DEF Lowest

-----------------------------------------------------------------------------
(***************************************************************************)
(* The operations that search for a name.                                  *)
(***************************************************************************)
LEMMA AllocatedNameFree ==
    ASSUME NEW s, SpaceOK(s), CanAllocate(s)
    PROVE  AllocatedName(s) \in Names \ DOMAIN s.entries
<1>1. FreeNames(s.entries, s.next_name) \subseteq Nat BY Limits DEF FreeNames, Names
<1>2. AllocatedName(s) \in FreeNames(s.entries, s.next_name)
  BY <1>1, LowestExists DEF AllocatedName, CanAllocate
<1> QED BY <1>2 DEF FreeNames

Allocated(s, object, right) ==
    [Emplace(s, AllocatedName(s), make_entry(object, right)) EXCEPT
        !.next_name = CursorAfter(AllocatedName(s), @)]

LEMMA AllocateOK ==
    ASSUME NEW s, SpaceOK(s), CanAllocate(s), NEW object \in Objects, NEW right \in Rights
    PROVE  /\ SpaceOK(Allocated(s, object, right))
           /\ Plain(Allocated(s, object, right)) = SpaceAllocate(Plain(s), object, right)
<1> DEFINE n == AllocatedName(s)
           e == Emplace(s, n, make_entry(object, right))
           r == Allocated(s, object, right)
<1>1. n \in Names \ DOMAIN s.entries BY AllocatedNameFree
<1>2. AllocatedName(Plain(s)) = n BY DEF AllocatedName, Plain
<1> HIDE DEF n
<1>3. /\ SpaceOK(e) /\ e.next_name = s.next_name
      /\ e.entries = WithEntry(s.entries, n, make_entry(object, right))
  BY <1>1, EmplaceOK, MakeEntryOK
<1> DEFINE cursor == CursorAfter(n, s.next_name)
<1>4. cursor \in 1 .. LastName + 1
  BY <1>1, Limits DEF CursorAfter, Names, SpaceOK, SpaceType
<1>5. r = [e EXCEPT !.next_name = cursor] BY <1>3 DEF Allocated, n
<1> HIDE DEF e, r, cursor
<1>6. /\ r \in [next_name : {cursor}, entries : {e.entries}, names_by_object : {e.names_by_object}]
      /\ r.next_name = cursor /\ r.entries = e.entries
      /\ r.names_by_object = e.names_by_object
  BY <1>3, <1>5 DEF SpaceOK, SpaceType
<1>7. SpaceOK(r) BY <1>3, <1>4, <1>6 DEF SpaceOK, SpaceType, IndexExact
<1>8. Plain(r) = SpaceAllocate(Plain(s), object, right)
  BY <1>2, <1>3, <1>6 DEF Plain, SpaceAllocate, cursor
<1> QED BY <1>7, <1>8 DEF r

LEMMA IndexedNames ==
    ASSUME NEW s, SpaceOK(s), NEW object
    PROVE  indexed_names(s.names_by_object, object) = NamesOf(Plain(s), object)
BY DEF SpaceOK, IndexExact, indexed_names, NamesOf, Plain

LEMMA AddToFrontOK ==
    ASSUME NEW s, SpaceOK(s), NEW object \in Objects, NEW right \in Rights,
           right # "SendOnce", HasIndexed(s, object)
    PROVE  /\ SpaceOK(AddToFront(s, object, right))
           /\ Coalesces(Plain(s), object, right)
           /\ Plain(AddToFront(s, object, right)) = SpaceCopyout(Plain(s), object, right)
<1> DEFINE n == Lowest(indexed_names(s.names_by_object, object))
           e == add_types(s.entries[n], right)
<1>1. n = Lowest(NamesOf(Plain(s), object)) BY IndexedNames
<1>2. Coalesces(Plain(s), object, right) BY IndexedNames DEF Coalesces, HasIndexed
<1>3. n \in NamesOf(Plain(s), object)
  <2>1. NamesOf(Plain(s), object) \subseteq Nat
    BY Limits DEF NamesOf, Plain, SpaceOK, SpaceType, Names
  <2> QED BY <1>1, <1>2, <2>1, LowestExists DEF Coalesces
<1>4. n \in DOMAIN s.entries BY <1>3 DEF NamesOf, Plain
<1> HIDE DEF n
<1>5. EntryOK(e) /\ e.object = s.entries[n].object BY <1>4, EntriesOK, AddTypesOK
<1> HIDE DEF e
<1>6. AddToFront(s, object, right) = Change(s, n, e) BY DEF AddToFront, n, e
<1>7. /\ SpaceOK(Change(s, n, e)) /\ Change(s, n, e).next_name = s.next_name
      /\ Change(s, n, e).entries = WithEntry(s.entries, n, e)
  BY <1>4, <1>5, ChangeOK
<1>8. WithEntry(s.entries, n, e) = [s.entries EXCEPT ![n] = e]
  BY <1>4 DEF WithEntry, SpaceOK, SpaceType
<1>9. Plain(Change(s, n, e)) = SpaceCopyout(Plain(s), object, right)
  BY <1>1, <1>2, <1>7, <1>8 DEF Plain, SpaceCopyout, e
<1> QED BY <1>2, <1>6, <1>7, <1>9

-----------------------------------------------------------------------------
(***************************************************************************)
(* The operators of IpcSpace are the same seen through the instance Ipc.   *)
(***************************************************************************)
LEMMA SameEntries ==
    \A entries, n, next, entry, object, right :
        /\ Ipc!make_entry(object, right) = make_entry(object, right)
        /\ Ipc!add_types(entry, right) = add_types(entry, right)
        /\ Ipc!DropRight(entry, right) = DropRight(entry, right)
        /\ Ipc!WithEntry(entries, n, entry) = WithEntry(entries, n, entry)
        /\ Ipc!WithoutName(entries, n) = WithoutName(entries, n)
        /\ Ipc!Settle(entries, n, entry) = Settle(entries, n, entry)
        /\ Ipc!FreeNames(entries, next) = FreeNames(entries, next)
        /\ Ipc!CursorAfter(n, next) = CursorAfter(n, next)
        /\ Ipc!Lowest(entries) = Lowest(entries)
        /\ Ipc!Releasable(entry) = Releasable(entry)
        /\ Ipc!ReleasedRight(entry) = ReleasedRight(entry)
        /\ Ipc!DeadEntry(entry) = DeadEntry(entry)
        /\ Ipc!SendLike(entry) = SendLike(entry)
BY DEF Ipc!make_entry, make_entry, Ipc!add_types, add_types, Ipc!DropRight, DropRight,
       Ipc!WithEntry, WithEntry, Ipc!WithoutName, WithoutName, Ipc!Settle, Settle,
       Ipc!FreeNames, FreeNames, Ipc!CursorAfter, CursorAfter, Ipc!Lowest, Lowest,
       Ipc!Releasable, Releasable, Ipc!ReleasedRight, ReleasedRight,
       Ipc!DeadEntry, DeadEntry, Ipc!SendLike, SendLike, Ipc!Rights, Rights, Ipc!Names, Names

LEMMA SameReferences ==
    \A entry, right, count, delta :
        /\ Ipc!WithReferences(entry, right, count) = WithReferences(entry, right, count)
        /\ Ipc!CanModify(entry, right, delta) <=> CanModify(entry, right, delta)
BY SameEntries DEF Ipc!WithReferences, WithReferences, Ipc!CanModify, CanModify,
       Ipc!MaximumReferences, MaximumReferences

LEMMA SameSearch ==
    \A s, n, object, right :
        /\ Ipc!NamesOf(s, object) = NamesOf(s, object)
        /\ Ipc!CanAllocate(s) <=> CanAllocate(s)
        /\ Ipc!AllocatedName(s) = AllocatedName(s)
        /\ Ipc!CanInstall(s, n, object) <=> CanInstall(s, n, object)
        /\ Ipc!Coalesces(s, object, right) <=> Coalesces(s, object, right)
BY SameEntries DEF Ipc!NamesOf, NamesOf, Ipc!CanAllocate, CanAllocate, Ipc!AllocatedName,
       AllocatedName, Ipc!CanInstall, CanInstall, Ipc!Names, Names, Ipc!Coalesces, Coalesces

LEMMA SameOperations ==
    \A s, n, object, right :
        /\ Ipc!SpaceInstall(s, n, object, right) = SpaceInstall(s, n, object, right)
        /\ Ipc!SpaceAllocate(s, object, right) = SpaceAllocate(s, object, right)
        /\ Ipc!SpaceCopyout(s, object, right) = SpaceCopyout(s, object, right)
        /\ Ipc!CanCopyout(s, object, right) <=> CanCopyout(s, object, right)
BY SameEntries, SameSearch DEF Ipc!SpaceInstall, SpaceInstall, Ipc!SpaceAllocate, SpaceAllocate,
       Ipc!SpaceCopyout, SpaceCopyout, Ipc!CanCopyout, CanCopyout

-----------------------------------------------------------------------------
(***************************************************************************)
(* A step that puts a good space into the table.                           *)
(***************************************************************************)
LEMMA SpaceOfOK ==
    ASSUME IInv, NEW t
    PROVE  SpaceOK(SpaceOf(t)) /\ Ipc!SpaceOf(t) = Plain(SpaceOf(t))
<1>1. CASE t \in DOMAIN spaces
  BY <1>1 DEF IInv, SpaceOf, Ipc!SpaceOf, PlainSpaces, Plain
<1>2. CASE t \notin DOMAIN spaces
  BY <1>2, EmptySpaceOK, SameEntries
  DEF SpaceOf, Ipc!SpaceOf, PlainSpaces, Plain, EmptySpace, Ipc!NewSpace
<1> QED BY <1>1, <1>2

LEMMA PutOK ==
    ASSUME IInv, NEW t \in Tasks, NEW s, SpaceOK(s), Put(t, s)
    PROVE  IInv' /\ Ipc!Put(t, Plain(s))
<1>1. /\ DOMAIN spaces' = DOMAIN spaces \cup {t}
      /\ \A u \in DOMAIN spaces' : spaces'[u] = IF u = t THEN s ELSE spaces[u]
  BY DEF Put
<1>2. IInv' BY <1>1 DEF IInv
<1>3. PlainSpaces' = [u \in DOMAIN PlainSpaces \cup {t} |->
                        IF u = t THEN Plain(s) ELSE PlainSpaces[u]]
  BY <1>1 DEF PlainSpaces, Plain
<1> QED BY <1>2, <1>3 DEF Ipc!Put

LEMMA HasOK ==
    ASSUME IInv, NEW t, NEW n, Has(t, n)
    PROVE  /\ t \in Tasks /\ n \in Names /\ n \in DOMAIN spaces[t].entries
           /\ SpaceOK(spaces[t]) /\ EntryOK(spaces[t].entries[n])
           /\ Ipc!Has(t, n)
           /\ PlainSpaces[t] = Plain(spaces[t]) /\ PlainSpaces[t].entries = spaces[t].entries
           /\ PlainSpaces[t].next_name = spaces[t].next_name
<1>1. /\ t \in Tasks /\ n \in DOMAIN spaces[t].entries /\ SpaceOK(spaces[t])
      /\ t \in DOMAIN spaces
  BY DEF IInv, Has
<1>2. EntryOK(spaces[t].entries[n]) /\ n \in Names BY <1>1, EntriesOK
<1> QED BY <1>1, <1>2 DEF Ipc!Has, PlainSpaces, Plain

LEMMA CreateStep ==
    ASSUME IInv, NEW t \in Tasks, Put(t, SpaceOf(t))
    PROVE  IInv' /\ Ipc!create_task(t)
BY SpaceOfOK, PutOK DEF Ipc!create_task

LEMMA AllocateStep ==
    ASSUME IInv, NEW t \in Tasks, NEW object \in Objects, NEW right \in Rights,
           allocate(t, object, right)
    PROVE  /\ IInv'
           /\ \/ CanAllocate(SpaceOf(t)) /\ Ipc!Put(t, SpaceAllocate(Plain(SpaceOf(t)), object, right))
              \/ ~CanAllocate(SpaceOf(t)) /\ Ipc!create_task(t)
<1> DEFINE s == SpaceOf(t)
<1>1. SpaceOK(s) BY SpaceOfOK
<1>2. CASE CanAllocate(s)
  <2>1. Put(t, Allocated(s, object, right)) BY <1>2 DEF allocate, Allocated
  <2> QED BY <1>1, <1>2, <2>1, AllocateOK, PutOK
<1>3. CASE ~CanAllocate(s)
  <2>1. Put(t, s) BY <1>3 DEF allocate
  <2> QED BY <1>3, <2>1, CreateStep
<1> QED BY <1>2, <1>3

LEMMA InstallStep ==
    ASSUME IInv, NEW t \in Tasks, NEW n \in Names, NEW object \in Objects,
           NEW right \in Rights, install(t, n, object, right)
    PROVE  IInv' /\ Ipc!install(t, n, object, right)
<1> DEFINE s == SpaceOf(t)
<1>1. SpaceOK(s) /\ Ipc!SpaceOf(t) = Plain(s) BY SpaceOfOK
<1>2. CanInstall(s, n, object) BY DEF install
<1>3. Ipc!CanInstall(Plain(s), n, object) BY <1>2, SameSearch DEF CanInstall, Plain
<1>4. CASE n \in DOMAIN s.entries
  <2> DEFINE e == add_types(s.entries[n], right)
             r == Change(s, n, e)
  <2>1. EntryOK(e) /\ e.object = s.entries[n].object BY <1>1, <1>4, EntriesOK, AddTypesOK
  <2>2. Put(t, r) BY <1>4 DEF install
  <2> HIDE DEF e
  <2>3. SpaceOK(r) /\ r.next_name = s.next_name /\ r.entries = WithEntry(s.entries, n, e)
    BY <1>1, <1>4, <2>1, ChangeOK
  <2> HIDE DEF r
  <2>4. Plain(r) = SpaceInstall(Plain(s), n, object, right)
    BY <1>4, <2>3 DEF Plain, SpaceInstall, e
  <2> QED BY <1>1, <1>3, <2>2, <2>3, <2>4, PutOK, SameOperations DEF Ipc!install
<1>5. CASE n \notin DOMAIN s.entries
  <2> DEFINE r == Emplace(s, n, make_entry(object, right))
  <2>1. Put(t, r) BY <1>5 DEF install
  <2>2. /\ SpaceOK(r) /\ r.next_name = s.next_name
        /\ r.entries = WithEntry(s.entries, n, make_entry(object, right))
    BY <1>1, <1>5, EmplaceOK, MakeEntryOK
  <2> HIDE DEF r
  <2>3. Plain(r) = SpaceInstall(Plain(s), n, object, right)
    BY <1>5, <2>2 DEF Plain, SpaceInstall
  <2> QED BY <1>1, <1>3, <2>1, <2>2, <2>3, PutOK, SameOperations DEF Ipc!install
<1> QED BY <1>4, <1>5

LEMMA CopyoutStep ==
    ASSUME IInv, NEW t \in Tasks, NEW object \in Objects, NEW right \in Rights,
           copyout(t, object, right)
    PROVE  /\ IInv'
           /\ Ipc!copyout(t, object, right) \/ Ipc!create_task(t)
<1> DEFINE s == SpaceOf(t)
<1>1. SpaceOK(s) /\ Ipc!SpaceOf(t) = Plain(s) BY SpaceOfOK
<1>2. CASE right # "SendOnce" /\ HasIndexed(s, object)
  <2>1. Put(t, AddToFront(s, object, right)) BY <1>2 DEF copyout
  <2>2. /\ SpaceOK(AddToFront(s, object, right)) /\ Coalesces(Plain(s), object, right)
        /\ Plain(AddToFront(s, object, right)) = SpaceCopyout(Plain(s), object, right)
    BY <1>1, <1>2, AddToFrontOK
  <2> QED BY <1>1, <2>1, <2>2, PutOK, SameOperations DEF Ipc!copyout, CanCopyout
<1>3. CASE ~(right # "SendOnce" /\ HasIndexed(s, object))
  <2>1. allocate(t, object, right) BY <1>3 DEF copyout
  <2>2. ~Coalesces(Plain(s), object, right)
    BY <1>1, <1>3, IndexedNames DEF Coalesces, HasIndexed
  <2>3. CASE CanAllocate(s)
    <3>1. CanAllocate(Plain(s)) BY <2>3 DEF CanAllocate, Plain
    <3>2. Ipc!Put(t, SpaceCopyout(Plain(s), object, right)) /\ IInv'
      BY <2>1, <2>2, <2>3, AllocateStep DEF SpaceCopyout
    <3> QED BY <1>1, <3>1, <3>2, SameOperations DEF Ipc!copyout, CanCopyout
  <2>4. CASE ~CanAllocate(s) BY <2>1, <2>4, AllocateStep
  <2> QED BY <2>3, <2>4
<1> QED BY <1>2, <1>3

LEMMA CopyoutAtNameStep ==
    ASSUME IInv, NEW t \in Tasks, NEW object \in Objects, NEW right \in Rights,
           NEW preferred \in Names, copyout_at_name(t, object, right, preferred)
    PROVE  /\ IInv'
           /\ Ipc!copyout_at_name(t, object, right, preferred) \/ Ipc!create_task(t)
<1> DEFINE s == SpaceOf(t)
<1>1. SpaceOK(s) /\ Ipc!SpaceOf(t) = Plain(s) BY SpaceOfOK
<1>2. Coalesces(Plain(s), object, right) <=> (right # "SendOnce" /\ HasIndexed(s, object))
  BY <1>1, IndexedNames DEF Coalesces, HasIndexed
<1>3. Plain(s).entries = s.entries BY DEF Plain
<1>4. CASE (right # "SendOnce" /\ HasIndexed(s, object)) \/ preferred \in DOMAIN s.entries
  <2>1. copyout(t, object, right) BY <1>4 DEF copyout_at_name, copyout
  <2>2. Ipc!copyout(t, object, right) => Ipc!copyout_at_name(t, object, right, preferred)
    BY <1>1, <1>2, <1>3, <1>4, SameSearch DEF Ipc!copyout_at_name
  <2> QED BY <2>1, <2>2, CopyoutStep
<1>5. CASE ~(right # "SendOnce" /\ HasIndexed(s, object)) /\ preferred \notin DOMAIN s.entries
  <2> DEFINE r == Emplace(s, preferred, make_entry(object, right))
  <2>1. Put(t, r) BY <1>5 DEF copyout_at_name
  <2>2. /\ SpaceOK(r) /\ r.next_name = s.next_name
        /\ r.entries = WithEntry(s.entries, preferred, make_entry(object, right))
    BY <1>1, <1>5, EmplaceOK, MakeEntryOK
  <2> HIDE DEF r
  <2>3. Plain(r) = SpaceInstall(Plain(s), preferred, object, right)
    BY <1>5, <2>2 DEF Plain, SpaceInstall
  <2>4. IInv' /\ Ipc!Put(t, Plain(r)) BY <2>1, <2>2, PutOK
  <2> QED BY <1>1, <1>2, <1>3, <1>5, <2>3, <2>4, SameSearch, SameOperations
          DEF Ipc!copyout_at_name
<1> QED BY <1>4, <1>5

LEMMA RenameStep ==
    ASSUME IInv, NEW t, NEW old, NEW new \in Names, rename(t, old, new)
    PROVE  IInv' /\ Ipc!rename(t, old, new)
<1> DEFINE s == spaces[t]
           e == s.entries[old]
           r == Emplace(Erase(s, old), new, e)
<1>1. Has(t, old) /\ ~Has(t, new) /\ Put(t, r) BY DEF rename
<1>2. /\ t \in Tasks /\ t \in DOMAIN spaces /\ old \in DOMAIN s.entries /\ SpaceOK(s) /\ EntryOK(e)
      /\ Ipc!Has(t, old) /\ PlainSpaces[t] = Plain(s)
  BY <1>1, HasOK DEF Has
<1>3. new \notin DOMAIN s.entries BY <1>1, <1>2 DEF Has
<1>4. /\ SpaceOK(Erase(s, old)) /\ Erase(s, old).next_name = s.next_name
      /\ Erase(s, old).entries = WithoutName(s.entries, old)
  BY <1>2, EraseOK
<1>5. new \in Names \ DOMAIN Erase(s, old).entries BY <1>3, <1>4 DEF WithoutName
<1>6. /\ SpaceOK(r) /\ r.next_name = s.next_name
      /\ r.entries = WithEntry(WithoutName(s.entries, old), new, e)
  BY <1>2, <1>4, <1>5, EmplaceOK
<1> HIDE DEF r
<1>7. Plain(r) = Ipc!SpaceRename(Plain(s), old, new)
  BY <1>6, SameEntries DEF Plain, Ipc!SpaceRename
<1>8. ~Ipc!Has(t, new) BY <1>2, <1>3 DEF Ipc!Has, Plain
<1> QED BY <1>1, <1>2, <1>6, <1>7, <1>8, PutOK DEF Ipc!rename

\* Storing a settled entry is the same step in both tables.
LEMMA StoreStep ==
    ASSUME IInv, NEW t, NEW n, Has(t, n), NEW entry, Settled(entry, spaces[t].entries[n]),
           Put(t, Store(spaces[t], n, entry))
    PROVE  /\ IInv' /\ Ipc!Has(t, n)
           /\ PlainSpaces[t].entries = spaces[t].entries
           /\ Ipc!Put(t, Ipc!SpaceSettle(PlainSpaces[t], n, entry))
<1> DEFINE s == spaces[t]
           r == Store(s, n, entry)
<1>1. /\ t \in Tasks /\ n \in DOMAIN s.entries /\ SpaceOK(s)
      /\ Ipc!Has(t, n) /\ PlainSpaces[t] = Plain(s) /\ PlainSpaces[t].entries = s.entries
  BY HasOK
<1>2. /\ SpaceOK(r) /\ r.next_name = s.next_name /\ r.entries = Settle(s.entries, n, entry)
  BY <1>1, StoreOK
<1> HIDE DEF r
<1>3. Plain(r) = Ipc!SpaceSettle(Plain(s), n, entry)
  BY <1>2, SameEntries DEF Plain, Ipc!SpaceSettle
<1> QED BY <1>1, <1>2, <1>3, PutOK DEF r

LEMMA ModifyStep ==
    ASSUME IInv, NEW t, NEW n, NEW right \in Rights, NEW delta \in Int,
           modify_references(t, n, right, delta)
    PROVE  IInv' /\ Ipc!modify_references(t, n, right, delta)
<1> DEFINE entry == spaces[t].entries[n]
           stored == WithReferences(entry, right, entry.user_references[right] + delta)
<1>1. Has(t, n) /\ CanModify(entry, right, delta) /\ Put(t, Store(spaces[t], n, stored))
  BY DEF modify_references
<1>2. Settled(stored, entry) BY <1>1, HasOK, ModifiedCount, WithReferencesOK
<1>3. /\ IInv' /\ Ipc!Has(t, n) /\ PlainSpaces[t].entries = spaces[t].entries
      /\ Ipc!Put(t, Ipc!SpaceSettle(PlainSpaces[t], n, stored))
  BY <1>1, <1>2, StoreStep
<1> QED BY <1>1, <1>3, SameReferences DEF Ipc!modify_references, Ipc!SpaceModify

LEMMA RemoveTypeStep ==
    ASSUME IInv, NEW t, NEW n, NEW right \in Rights, remove_type(t, n, right)
    PROVE  IInv' /\ Ipc!remove_type(t, n, right)
<1> DEFINE entry == spaces[t].entries[n]
<1>1. Has(t, n) /\ right \in entry.type /\ Put(t, Store(spaces[t], n, DropRight(entry, right)))
  BY DEF remove_type
<1>2. Settled(DropRight(entry, right), entry) BY <1>1, HasOK, DropRightOK
<1>3. /\ IInv' /\ Ipc!Has(t, n) /\ PlainSpaces[t].entries = spaces[t].entries
      /\ Ipc!Put(t, Ipc!SpaceSettle(PlainSpaces[t], n, DropRight(entry, right)))
  BY <1>1, <1>2, StoreStep
<1> QED BY <1>1, <1>3, SameEntries DEF Ipc!remove_type, Ipc!SpaceRemoveType

LEMMA DeallocateStep ==
    ASSUME IInv, NEW t, NEW n, deallocate(t, n)
    PROVE  IInv' /\ Ipc!deallocate(t, n)
<1> DEFINE entry == spaces[t].entries[n]
           right == ReleasedRight(entry)
           stored == WithReferences(entry, right, entry.user_references[right] - 1)
<1>1. Has(t, n) /\ Releasable(entry) # {} /\ Put(t, Store(spaces[t], n, stored))
  BY DEF deallocate
<1>2. EntryOK(entry) BY <1>1, HasOK
<1>3. right \in entry.type /\ entry.user_references[right] - 1 \in 0 .. CountLimit
  BY <1>1, <1>2, ReleasedCount
<1>4. Settled(stored, entry) BY <1>2, <1>3, WithReferencesOK
<1>5. /\ IInv' /\ Ipc!Has(t, n) /\ PlainSpaces[t].entries = spaces[t].entries
      /\ Ipc!Put(t, Ipc!SpaceSettle(PlainSpaces[t], n, stored))
  BY <1>1, <1>4, StoreStep
<1>6. entry.user_references[right] - 1 = entry.user_references[right] + (-1)
  <2>1. right \in Rights BY <1>2, <1>3 DEF EntryOK, Entries
  <2>2. entry.user_references[right] \in Int BY <1>2, <2>1, Limits DEF EntryOK, Entries
  <2> QED BY <2>2
<1>7. Ipc!SpaceDeallocate(PlainSpaces[t], n) = Ipc!SpaceSettle(PlainSpaces[t], n, stored)
  BY <1>5, <1>6, SameEntries, SameReferences DEF Ipc!SpaceDeallocate, Ipc!SpaceModify
<1> QED BY <1>1, <1>5, <1>7, SameEntries DEF Ipc!deallocate

LEMMA DestroyNameStep ==
    ASSUME IInv, NEW t, NEW n, destroy_name(t, n)
    PROVE  IInv' /\ Ipc!destroy_name(t, n)
<1> DEFINE s == spaces[t]
           r == Erase(s, n)
<1>1. Has(t, n) /\ Put(t, r) BY DEF destroy_name
<1>2. /\ t \in Tasks /\ n \in DOMAIN s.entries /\ SpaceOK(s)
      /\ Ipc!Has(t, n) /\ PlainSpaces[t] = Plain(s)
  BY <1>1, HasOK
<1>3. SpaceOK(r) /\ r.next_name = s.next_name /\ r.entries = WithoutName(s.entries, n)
  BY <1>2, EraseOK
<1> HIDE DEF r
<1>4. Plain(r) = Ipc!SpaceDestroyName(Plain(s), n)
  BY <1>3, SameEntries DEF Plain, Ipc!SpaceDestroyName
<1> QED BY <1>1, <1>2, <1>3, <1>4, PutOK DEF Ipc!destroy_name

-----------------------------------------------------------------------------
(***************************************************************************)
(* A port's death, and a task's end.                                       *)
(***************************************************************************)
Marked(s, object) ==
    [s EXCEPT !.entries = [n \in DOMAIN @ |->
        IF n \in indexed_names(s.names_by_object, object) /\ SendLike(@[n])
        THEN DeadEntry(@[n]) ELSE @[n]]]

LEMMA MarkedOK ==
    ASSUME NEW s, SpaceOK(s), NEW object
    PROVE  /\ SpaceOK(Marked(s, object))
           /\ Plain(Marked(s, object)) = Ipc!SpaceMarkDead(Plain(s), object)
<1> DEFINE r == Marked(s, object)
           names == indexed_names(s.names_by_object, object)
<1>1. names = {n \in DOMAIN s.entries : s.entries[n].object = object}
  BY IndexedNames DEF NamesOf, Plain
<1>2. /\ r \in [next_name : {s.next_name}, entries : {r.entries},
                names_by_object : {s.names_by_object}]
      /\ r.entries = [n \in DOMAIN s.entries |->
            IF n \in names /\ SendLike(s.entries[n]) THEN DeadEntry(s.entries[n])
            ELSE s.entries[n]]
      /\ r.names_by_object = s.names_by_object
      /\ r.next_name = s.next_name
  BY DEF SpaceOK, SpaceType, Marked
<1> HIDE DEF r, names
<1>3. /\ DOMAIN r.entries = DOMAIN s.entries
      /\ \A n \in DOMAIN s.entries : EntryOK(r.entries[n]) /\ r.entries[n].object = s.entries[n].object
  <2>1. DOMAIN r.entries = DOMAIN s.entries BY <1>2
  <2>2. ASSUME NEW n \in DOMAIN s.entries
        PROVE  EntryOK(r.entries[n]) /\ r.entries[n].object = s.entries[n].object
    <3>1. EntryOK(s.entries[n]) BY EntriesOK
    <3>2. CASE n \in names /\ SendLike(s.entries[n]) BY <1>2, <3>1, <3>2, DeadEntryOK
    <3>3. CASE ~(n \in names /\ SendLike(s.entries[n])) BY <1>2, <3>1, <3>3
    <3> QED BY <3>2, <3>3
  <2> QED BY <2>1, <2>2
<1>4. SpaceType(r)
  <2>1. r.entries \in [DOMAIN r.entries -> Entries] BY <1>2, <1>3 DEF EntryOK
  <2> QED BY <1>2, <1>3, <2>1 DEF SpaceOK, SpaceType
<1>5. IndexExact(r)
  <2>1. {r.entries[m].object : m \in DOMAIN r.entries}
          = {s.entries[m].object : m \in DOMAIN s.entries}
    BY <1>3
  <2>2. \A o : {m \in DOMAIN r.entries : r.entries[m].object = o}
              = {m \in DOMAIN s.entries : s.entries[m].object = o}
    BY <1>3
  <2> QED BY <1>2, <2>1, <2>2 DEF SpaceOK, IndexExact
<1>6. SpaceOK(r) BY <1>3, <1>4, <1>5 DEF SpaceOK, EntryOK
<1>7. r.entries = [n \in DOMAIN s.entries |->
            IF s.entries[n].object = object /\ SendLike(s.entries[n])
            THEN DeadEntry(s.entries[n]) ELSE s.entries[n]]
  BY <1>1, <1>2
<1>8. Plain(r) = Ipc!SpaceMarkDead(Plain(s), object)
  BY <1>2, <1>7, SameEntries DEF Plain, Ipc!SpaceMarkDead
<1> QED BY <1>6, <1>8 DEF r

LEMMA MarkDeadStep ==
    ASSUME IInv, NEW object, mark_object_dead(object)
    PROVE  IInv' /\ Ipc!mark_object_dead(object)
<1>1. spaces' = [t \in DOMAIN spaces |-> Marked(spaces[t], object)]
  BY DEF mark_object_dead, Marked
<1>2. \A t \in DOMAIN spaces :
        /\ SpaceOK(Marked(spaces[t], object))
        /\ Plain(Marked(spaces[t], object)) = Ipc!SpaceMarkDead(Plain(spaces[t]), object)
  BY MarkedOK DEF IInv
<1>3. IInv' BY <1>1, <1>2 DEF IInv
<1>4. PlainSpaces' = [t \in DOMAIN spaces |-> Plain(Marked(spaces[t], object))]
  BY <1>1 DEF PlainSpaces, Plain
<1>5. PlainSpaces' = [t \in DOMAIN PlainSpaces |-> Ipc!SpaceMarkDead(PlainSpaces[t], object)]
  BY <1>2, <1>4 DEF PlainSpaces, Plain
<1> QED BY <1>3, <1>5 DEF Ipc!mark_object_dead

LEMMA DestroyTaskStep ==
    ASSUME IInv, NEW t, destroy_task(t)
    PROVE  IInv' /\ Ipc!destroy_task(t)
BY DEF destroy_task, Ipc!destroy_task, IInv, PlainSpaces

-----------------------------------------------------------------------------
(***************************************************************************)
(* The theorems.                                                           *)
(***************************************************************************)
LEMMA NextStep ==
    ASSUME IInv, Next
    PROVE  IInv' /\ Ipc!Next
<1>1. ASSUME NEW object \in Objects, mark_object_dead(object) PROVE IInv' /\ Ipc!Next
  BY <1>1, MarkDeadStep DEF Ipc!Next
<1>2. ASSUME NEW t \in Tasks, Put(t, SpaceOf(t)) PROVE IInv' /\ Ipc!Next
  BY <1>2, CreateStep DEF Ipc!Next
<1>3. ASSUME NEW t \in Tasks, destroy_task(t) PROVE IInv' /\ Ipc!Next
  BY <1>3, DestroyTaskStep DEF Ipc!Next
<1>4. ASSUME NEW t \in Tasks, NEW object \in Objects, NEW right \in GrantedRights,
             allocate(t, object, right)
      PROVE  IInv' /\ Ipc!Next
  <2>1. right \in Rights BY CallersAssumption
  <2>2. SpaceOK(SpaceOf(t)) /\ Ipc!SpaceOf(t) = Plain(SpaceOf(t)) BY SpaceOfOK
  <2>3. CanAllocate(SpaceOf(t)) <=> CanAllocate(Plain(SpaceOf(t))) BY DEF CanAllocate, Plain
  <2>4. IInv' /\ (Ipc!allocate(t, object, right) \/ Ipc!create_task(t))
    BY <1>4, <2>1, <2>2, <2>3, AllocateStep, SameSearch, SameOperations DEF Ipc!allocate
  <2> QED BY <2>4 DEF Ipc!Next
<1>5. ASSUME NEW t \in Tasks, NEW object \in Objects, NEW right \in GrantedRights,
             copyout(t, object, right)
      PROVE  IInv' /\ Ipc!Next
  <2>1. right \in Rights BY CallersAssumption
  <2> QED BY <1>5, <2>1, CopyoutStep DEF Ipc!Next
<1>6. ASSUME NEW t \in Tasks, NEW object \in Objects, NEW right \in GrantedRights,
             NEW n \in ChosenNames, install(t, n, object, right)
      PROVE  IInv' /\ Ipc!Next
  <2>1. right \in Rights /\ n \in Names BY CallersAssumption
  <2> QED BY <1>6, <2>1, InstallStep DEF Ipc!Next
<1>7. ASSUME NEW t \in Tasks, NEW object \in Objects, NEW right \in GrantedRights,
             NEW n \in ChosenNames, copyout_at_name(t, object, right, n)
      PROVE  IInv' /\ Ipc!Next
  <2>1. right \in Rights /\ n \in Names BY CallersAssumption
  <2> QED BY <1>7, <2>1, CopyoutAtNameStep DEF Ipc!Next
<1>8. ASSUME NEW t \in Tasks, NEW n \in Names, destroy_name(t, n) PROVE IInv' /\ Ipc!Next
  BY <1>8, DestroyNameStep DEF Ipc!Next, Ipc!Names, Names
<1>9. ASSUME NEW t \in Tasks, NEW n \in Names, deallocate(t, n) PROVE IInv' /\ Ipc!Next
  BY <1>9, DeallocateStep DEF Ipc!Next, Ipc!Names, Names
<1>10. ASSUME NEW t \in Tasks, NEW n \in Names, NEW new \in ChosenNames, rename(t, n, new)
       PROVE  IInv' /\ Ipc!Next
  <2>1. new \in Names BY CallersAssumption
  <2> QED BY <1>10, <2>1, RenameStep DEF Ipc!Next, Ipc!Names, Names
<1>11. ASSUME NEW t \in Tasks, NEW n \in Names, NEW right \in Rights, remove_type(t, n, right)
       PROVE  IInv' /\ Ipc!Next
  BY <1>11, RemoveTypeStep DEF Ipc!Next, Ipc!Names, Names, Ipc!Rights, Rights
<1>12. ASSUME NEW t \in Tasks, NEW n \in Names, NEW right \in Rights, NEW delta \in Deltas,
              modify_references(t, n, right, delta)
       PROVE  IInv' /\ Ipc!Next
  <2>1. delta \in Int BY CallersAssumption DEF Deltas
  <2> QED BY <1>12, <2>1, ModifyStep DEF Ipc!Next, Ipc!Names, Names, Ipc!Rights, Rights
<1> QED BY <1>1, <1>2, <1>3, <1>4, <1>5, <1>6, <1>7, <1>8, <1>9, <1>10, <1>11, <1>12
        DEF Next, create_task

LEMMA InitHolds == Init => IInv BY DEF Init, IInv

LEMMA StutterHolds == IInv /\ UNCHANGED spaces => IInv' BY DEF IInv

\* The invariant of the index and the counts, kept by every operation of
\* MachNamespaceTable on every space.
THEOREM Invariant == Spec => []IInv
<1>1. IInv /\ [Next]_spaces => IInv' BY NextStep, StutterHolds
<1> QED BY <1>1, InitHolds, PTL DEF Spec

\* names_by_object always lists exactly the names of every object, so a name it
\* gives to entries.at is always an entry.
THEOREM IndexCorrect == Spec => []IndexesExact
<1>1. IInv => IndexesExact BY DEF IInv, IndexesExact, SpaceOK
<1> QED BY <1>1, Invariant, PTL

\* An entry has a right exactly as long as it counts user references of it.
THEOREM ReferencesCorrect == Spec => []ReferencesMatchTypes
<1>1. IInv => ReferencesMatchTypes BY DEF IInv, ReferencesMatchTypes, SpaceOK
<1> QED BY <1>1, Invariant, PTL

\* Both together: what the run checks.
THEOREM EntriesCorrect == Spec => []EntriesExact
<1>1. IndexesExact /\ ReferencesMatchTypes => EntriesExact BY DEF EntriesExact
<1> QED BY <1>1, IndexCorrect, ReferencesCorrect, PTL

\* Spaces, entries and counts keep their types: no count leaves uint32.
THEOREM TypeCorrect == Spec => []TypeOK
<1>1. IInv => TypeOK BY DEF IInv, TypeOK, SpaceOK
<1> QED BY <1>1, Invariant, PTL

\* The indexed table of mach_namespace.cpp implements the table that scans its
\* entries: every name it returns is the one a scan would have found.
THEOREM Refinement == Spec => ImplementsIpcSpaces
<1>1. Init => Ipc!Init BY DEF Init, Ipc!Init, PlainSpaces
<1>2. IInv /\ [Next]_spaces => [Ipc!Next]_PlainSpaces
  <2>1. IInv /\ Next => Ipc!Next BY NextStep
  <2>2. UNCHANGED spaces => UNCHANGED PlainSpaces BY DEF PlainSpaces
  <2> QED BY <2>1, <2>2
<1> QED BY <1>1, <1>2, Invariant, PTL DEF Spec, ImplementsIpcSpaces, Ipc!Spec
=============================================================================
