-------------------------------- MODULE Lists --------------------------------
(***************************************************************************)
(* The operators of SequencesExt that the services use, by their names and *)
(* definitions there.  Devices instantiates each service under a name, and *)
(* the proof system then handles each library once a service: these few    *)
(* stand in for the whole of the largest one.                              *)
(***************************************************************************)
EXTENDS Integers, Sequences, FiniteSets
LOCAL INSTANCE TLC
LOCAL INSTANCE Folds

Front(s) == SubSeq(s, 1, Len(s) - 1)
Last(s)  == s[Len(s)]
RemoveAt(s, i) == SubSeq(s, 1, i - 1) \o SubSeq(s, i + 1, Len(s))

\* The elements of a set in some order, and in the order of a relation.
SetToSeq(S) ==
    CHOOSE q \in [1 .. Cardinality(S) -> S] : \A i, j \in DOMAIN q : q[i] = q[j] => i = j
SetToSortSeq(S, before(_, _)) == SortSeq(SetToSeq(S), before)

\* op(... op(op(base, s[1]), s[2]) ..., s[n]).
FoldLeft(op(_, _), base, s) ==
    MapThenFoldSet(LAMBDA x, folded : op(folded, x), base, LAMBDA i : s[i],
                   LAMBDA S : CHOOSE i \in S : \A j \in S : j <= i, DOMAIN s)
=============================================================================
