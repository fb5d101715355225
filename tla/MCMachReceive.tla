--------------------------- MODULE MCMachReceive ---------------------------
(***************************************************************************)
(* The client mixes of MachReceive for TLC.                                *)
(***************************************************************************)
EXTENDS MachReceive, TLC

CONSTANTS T1, T2, T3, P1, P2, S1, S2

AllThreads == {T1, T2, T3}
BothPorts == {P1, P2}
BothSets == {S1, S2}

\* Receives on a port and a set have timeouts.
Timed == [threads |-> {T1, T2}, objects |-> {P1, S1}, sizes |-> {1}, intervals |-> {1}]

\* Two ports compete for a set.
Competing == [threads |-> {T1, T2}, objects |-> {P1, P2, S1}, sizes |-> {1}, intervals |-> {}]

\* Three threads wait on a port and on a set that may hold it.
Queued == [threads |-> {T1, T2, T3}, objects |-> {P1, S1}, sizes |-> {1}, intervals |-> {}]

\* A port is in two sets.
Linked == [threads |-> {T1, T2}, objects |-> {P1, S1, S2}, sizes |-> {1}, intervals |-> {0}]

\* Buffers may be too small.  With one receiver only: a thread that retries a
\* receive with too small a buffer for ever can keep another one waiting.
Small == [threads |-> {T1}, objects |-> {P1, P2, S1}, sizes |-> {1, 2}, intervals |-> {1}]

AllMixes == {Timed, Competing, Queued, Linked, Small}
=============================================================================
