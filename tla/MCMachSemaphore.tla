-------------------------- MODULE MCMachSemaphore --------------------------
(***************************************************************************)
(* The client mixes of MachSemaphore for TLC.                              *)
(***************************************************************************)
EXTENDS MachSemaphore, TLC

CONSTANTS T1, T2

Everyone == Tasks \X Tasks

\* Two tasks with two threads each share two semaphores; nobody has a timeout.
Sharing == [tasks |-> {T1, T2}, slots |-> {0, 1}, counts |-> {0}, intervals |-> {}]

\* Three threads of one task, timed waits and preposts.
Timed == [tasks |-> {T1}, slots |-> {0, 1, 2}, counts |-> {0, 1}, intervals |-> {0, 1}]

SharingAndTimed == {Sharing, Timed}
=============================================================================
