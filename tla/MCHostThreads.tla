--------------------------- MODULE MCHostThreads ---------------------------
(***************************************************************************)
(* The threads of HostThreads for TLC, in mixes.                           *)
(***************************************************************************)
EXTENDS HostThreads

CONSTANTS w1, w2, h1, h2, r1

\* Two workers execute batches; nothing is compiled.
Slicing == [workers |-> {w1, w2}, helpers |-> {}, deadlines |-> {"none"},
            compiled |-> {r1}, batches |-> 2]

\* Two helpers compile; batches have one slice and need no worker.
Compiling == [workers |-> {}, helpers |-> {h1, h2}, deadlines |-> {"none"},
              compiled |-> Runtimes, batches |-> 1]

\* One helper compiles between deadlines.
Hurried == [workers |-> {}, helpers |-> {h1}, deadlines |-> {"none", "far"},
            compiled |-> {r1}, batches |-> 1]

\* Compilation goes on while a batch runs.
Both == [workers |-> {w1}, helpers |-> {h1}, deadlines |-> {"none"},
         compiled |-> {r1}, batches |-> 2]

AllMixes == {Slicing, Compiling, Hurried, Both}
OnlyHurried == {Hurried}
=============================================================================
