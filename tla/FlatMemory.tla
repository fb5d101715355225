---------------------------- MODULE FlatMemory -----------------------------
(***************************************************************************)
(* What guest memory promises: a fork copies at once, a store is seen by   *)
(* the page it goes to and by the pages that share its memory object, and  *)
(* by nothing else. No page of a space changes unless the space maps,      *)
(* unmaps or faults it, or somebody stores to it.                          *)
(***************************************************************************)
EXTENDS Integers

CONSTANTS Spaces, Pages, Values, Zero, Absent, Lazy, Own

VARIABLES
    view,              \* what a space sees at a page
    share              \* Own, or the object a page shows: <<"shared" or "copy", object>>

Seen == Values \cup {Absent, Lazy}

FlatInit ==
    /\ view \in [Spaces -> [Pages -> Seen]]
    /\ share \in [Spaces -> [Pages -> {Own}]]

\* The places a store to page p of s is seen at.
Hit(s, p, t, q) ==
    \/ t = s /\ q = p
    \/ /\ share[s][p] # Own /\ share[s][p][1] = "shared"
       /\ share[t][q] # Own /\ share[t][q][2] = share[s][p][2]

\* A page of a space in T that shows bytes of its own does not come to show
\* somebody's object; it may become an object that others can map.
OwnPagesKept(T) ==
    \A t \in T, q \in Pages : share[t][q] = Own /\ view[t][q] # Absent =>
        share'[t][q] = Own \/ share'[t][q][1] = "shared"

\* A store to some pages of s; the call may fault pages of s in first.
FlatStore(s, R) ==
    /\ \A p \in R : view[s][p] # Absent
    /\ OwnPagesKept(Spaces)
    /\ \A p \in R, t \in Spaces, q \in Pages : Hit(s, p, t, q) => view'[t][q] = view'[s][p]
    /\ \A t \in Spaces, q \in Pages : (\A p \in R : ~Hit(s, p, t, q)) =>
            view'[t][q] = view[t][q] \/ (t = s /\ view[s][q] = Lazy)

\* s maps, unmaps or faults pages in: a page shows nothing, zeros, a file,
\* or bytes that some space shows now.
FlatMap(s) ==
    /\ OwnPagesKept(Spaces \ {s})
    /\ \A t \in Spaces \ {s}, q \in Pages : view'[t][q] = view[t][q] \/ view[t][q] = Lazy
    /\ \A q \in Pages :
          \/ view'[s][q] = view[s][q] \/ view[s][q] \in {Absent, Lazy}
          \/ view'[s][q] \in {Absent, Lazy, Zero} \/ share'[s][q] # Own
          \/ \E t \in Spaces, p \in Pages : view'[s][q] = view[t][p]

FlatFork(s, t) ==
    /\ view[t] = [p \in Pages |-> Absent]
    /\ OwnPagesKept(Spaces)
    /\ view' = [view EXCEPT ![t] = view[s]]

Relabel == view' = view /\ OwnPagesKept(Spaces)

FlatNext ==
    \/ Relabel
    \/ \E s \in Spaces : FlatMap(s)
    \/ \E s \in Spaces, t \in Spaces : FlatFork(s, t)
    \/ \E s \in Spaces : \E R \in SUBSET Pages : FlatStore(s, R)

FlatSpec == FlatInit /\ [][FlatNext]_<<view, share>>
=============================================================================
