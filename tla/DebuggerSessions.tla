-------------------------- MODULE DebuggerSessions --------------------------
(***************************************************************************)
(* The remote debugger of the boot command (gdb_rsp.cpp, BootGdbTarget and *)
(* the guest loop of main.cpp).  All guest processors stop while the       *)
(* server runs its command loop.  A round of the guest loop runs a batch   *)
(* of slices and completes them one after the other; each completion may   *)
(* stop the guest, so the rest of the batch completes after the debugger's *)
(* next resume request.  The debugger sends a command once the last one is *)
(* answered, and may interrupt while it waits for a stop.                  *)
(*                                                                         *)
(* A thread is <<process, slot>>.  A breakpoint's site holds a version of  *)
(* its instruction, or the trap.  Packets are lossless (TCP); the          *)
(* checksums, acknowledgements, signals and register values are left out.  *)
(***************************************************************************)
EXTENDS Naturals, Sequences, FiniteSets

CONSTANTS Debuggees, DebugSlots, Sites, MaxVersion, GuestProcessors

DebuggerSessionsAssumption ==
    /\ {GuestProcessors, MaxVersion} \subseteq Nat \ {0}
    /\ 1 \in Debuggees /\ 1 \in DebugSlots
    /\ Debuggees \cup DebugSlots \subseteq Nat \ {0}

VARIABLES
    session,      \* "serving" the debugger, "running", "detached" or "killed"
    toServer,     \* packets the debugger sent
    toDebugger,   \* what the server answered: "reply" or "stop"
    expecting,    \* what the debugger waits for: "reply", "stop" or "nothing"
    general,      \* general_thread_
    resuming,     \* continue_thread_
    stopped,      \* stop_thread_
    current,      \* BootGdbTarget::current_thread_
    request,      \* debug_request
    runtimes,     \* processes that have a Runtime
    allocated,    \* threads of the runtimes
    queued,       \* threads the scheduler knows -> whether it is runnable
    batch,        \* slices to complete: thread, whether it trapped, was stepped, or is
                  \* the only one, whose system calls were made while it ran
    code,         \* process -> site -> version, or Trap
    breakpoints,  \* breakpoints_: <<process, site>> -> original
    unpatched,     \* history: what each site holds apart from the breakpoints
    overwritten,  \* history: breakpoints whose site was written while inserted
    crossed,      \* history: an interrupt reached the command loop
    confused,     \* history: the debugger took one answer for another
    executed,     \* history: a slice ran since the last resume request
    vanished,     \* history: a stepped thread ended itself in its slice
    interrupted   \* history: the last stop was the debugger's interrupt

wireVars == <<toServer, toDebugger, expecting, crossed, confused>>
protocolVars == <<general, resuming, stopped>>
guestVars == <<runtimes, allocated, queued>>
memoryVars == <<code, breakpoints, unpatched, overwritten>>

None == <<0, 0>>
Trap == MaxVersion + 1
GdbThreads == Debuggees \X DebugSlots
NoRequest == [kind |-> "none", thread |-> None]
Fresh == [s \in Sites |-> 0]
Put(f, x, v) == [y \in DOMAIN f \cup {x} |-> IF y = x THEN v ELSE f[y]]

Init ==
    /\ session = "serving"
    /\ toServer = <<>> /\ toDebugger = <<>> /\ expecting = "nothing"
    /\ general = <<1, 1>> /\ resuming = None /\ stopped = <<1, 1>> /\ current = <<1, 1>>
    /\ request = NoRequest
    /\ runtimes = {1} /\ allocated = {<<1, 1>>} /\ queued = Put(<<>>, <<1, 1>>, TRUE)
    /\ batch = <<>>
    /\ code = [p \in Debuggees |-> IF p = 1 THEN Fresh ELSE <<>>] /\ breakpoints = <<>>
    /\ unpatched = code /\ overwritten = {}
    /\ crossed = FALSE /\ confused = FALSE /\ executed = FALSE /\ vanished = FALSE
    /\ interrupted = FALSE

(* The debugger. *)

Queries == {[op |-> "query"], [op |-> "any"]}
Selections == [op : {"general", "resuming"}, thread : allocated]
Edits == [op : {"write"}, site : Sites, version : 0..MaxVersion]
         \cup [op : {"insert", "remove"}, site : Sites]
Resumes == [op : {"step", "continue"}, thread : GdbThreads \cup {None}]
Ends == {[op |-> "detach"], [op |-> "kill"]}

Awaited(c) == IF c.op \in {"step", "continue"} THEN "stop"
              ELSE IF c.op = "kill" THEN "nothing" ELSE "reply"

DebuggerSends(c) ==
    /\ expecting = "nothing" /\ toServer = <<>> /\ session = "serving"
    /\ toServer' = <<c>> /\ expecting' = Awaited(c)
    /\ UNCHANGED <<session, toDebugger, crossed, confused, protocolVars, current, request,
                   guestVars, batch, memoryVars, executed, vanished, interrupted>>

DebuggerInterrupts ==
    /\ expecting = "stop" /\ ~\E i \in DOMAIN toServer : toServer[i].op = "interrupt"
    /\ toServer' = Append(toServer, [op |-> "interrupt"])
    /\ UNCHANGED <<session, toDebugger, expecting, crossed, confused, protocolVars,
                   current, request, guestVars, batch, memoryVars, executed, vanished,
                   interrupted>>

DebuggerReceives ==
    /\ toDebugger # <<>> /\ expecting # "nothing"
    /\ toDebugger' = Tail(toDebugger) /\ expecting' = "nothing"
    /\ confused' = (confused \/ Head(toDebugger) # expecting)
    /\ UNCHANGED <<session, toServer, crossed, protocolVars, current, request, guestVars,
                   batch, memoryVars, executed, vanished, interrupted>>

(* BootGdbTarget. *)

threads == allocated

\* resolve_general_thread.
resolve_general_thread ==
    IF general \in threads THEN general
    ELSE IF stopped \in threads THEN stopped
    ELSE IF current \in threads THEN current
    ELSE IF threads = {} THEN None
    ELSE CHOOSE t \in threads :
            \A u \in threads : t[1] < u[1] \/ (t[1] = u[1] /\ t[2] <= u[2])

\* Bytes stored in a process, by the debugger or the guest.
Stored(p, s, v) ==
    /\ code' = [code EXCEPT ![p][s] = v]
    /\ unpatched' = [unpatched EXCEPT ![p][s] = v]
    /\ overwritten' = overwritten \cup ({<<p, s>>} \cap DOMAIN breakpoints)
    /\ UNCHANGED breakpoints

\* Mutant: what is kept of the code is the trap itself.
PatchFirst(p, s) ==
    IF <<p, s>> \in DOMAIN breakpoints THEN UNCHANGED memoryVars
    ELSE /\ breakpoints' = Put(breakpoints, <<p, s>>, Trap)
         /\ code' = [code EXCEPT ![p][s] = Trap]
         /\ UNCHANGED <<unpatched, overwritten>>

\* insert_software_breakpoint: a second insertion changes nothing.
insert_software_breakpoint(p, s) ==
    IF <<p, s>> \in DOMAIN breakpoints THEN UNCHANGED memoryVars
    ELSE /\ breakpoints' = Put(breakpoints, <<p, s>>, code[p][s])
         /\ code' = [code EXCEPT ![p][s] = Trap]
         /\ UNCHANGED <<unpatched, overwritten>>

WithoutBreakpoints(gone) == [b \in DOMAIN breakpoints \ gone |-> breakpoints[b]]

remove_software_breakpoint(p, s) ==
    IF <<p, s>> \notin DOMAIN breakpoints THEN UNCHANGED memoryVars
    ELSE /\ code' = [code EXCEPT ![p][s] = breakpoints[<<p, s>>]]
         /\ breakpoints' = WithoutBreakpoints({<<p, s>>})
         /\ UNCHANGED <<unpatched, overwritten>>

\* Memory of process p without the breakpoints of process parent.
prepare_fork_child(parent) ==
    [s \in Sites |-> IF <<parent, s>> \in DOMAIN breakpoints THEN breakpoints[<<parent, s>>]
                     ELSE code[parent][s]]

notify_exec(p) == breakpoints' = WithoutBreakpoints({p} \X Sites)

remove_all_breakpoints ==
    /\ code' = [p \in Debuggees |->
          IF p \in runtimes THEN prepare_fork_child(p) ELSE code[p]]
    /\ breakpoints' = <<>>
    /\ UNCHANGED <<unpatched, overwritten>>

(* GdbRspProtocol::handle and the command loop. *)

Answered(what) == toDebugger' = Append(toDebugger, what)
Received == toServer' = Tail(toServer)

\* A query, a selection or an edit: the server stays in its command loop.
HandleCommand ==
    /\ session = "serving" /\ toServer # <<>>
    /\ LET c == Head(toServer)
           thread == resolve_general_thread IN
       \/ /\ c.op = "query" /\ UNCHANGED <<general, resuming, memoryVars>>
       \/ /\ c.op = "any" /\ resuming' = None /\ UNCHANGED <<general, memoryVars>>
       \/ /\ c.op = "general" /\ general' = c.thread /\ UNCHANGED <<resuming, memoryVars>>
       \/ /\ c.op = "resuming" /\ resuming' = c.thread /\ UNCHANGED <<general, memoryVars>>
       \/ /\ c.op = "write" /\ thread # None /\ Stored(thread[1], c.site, c.version)
          /\ UNCHANGED <<general, resuming>>
       \/ /\ c.op = "insert" /\ thread # None
          /\ insert_software_breakpoint(thread[1], c.site)
          /\ UNCHANGED <<general, resuming>>
       \/ /\ c.op = "remove" /\ thread # None
          /\ remove_software_breakpoint(thread[1], c.site)
          /\ UNCHANGED <<general, resuming>>
    /\ Received /\ Answered("reply")
    /\ UNCHANGED <<session, expecting, crossed, confused, stopped, current, request,
                   guestVars, batch, executed, vanished, interrupted>>

\* read_packet turns an interrupt into "?", which is answered by the stop reply.
InterruptWhileServing ==
    /\ session = "serving" /\ toServer # <<>> /\ Head(toServer).op = "interrupt"
    /\ Received /\ Answered("stop") /\ crossed' = TRUE
    /\ UNCHANGED <<session, expecting, confused, protocolVars, current, request, guestVars,
                   batch, memoryVars, executed, vanished, interrupted>>

\* vCont, c and s: a thread named here is not looked up; a step without one steps
\* the thread that registers are read from, a continue runs every thread.
Target(c) ==
    IF c.thread # None THEN c.thread
    ELSE IF resuming # None THEN resuming
    ELSE IF c.op = "step" THEN resolve_general_thread ELSE None

Resume ==
    /\ session = "serving" /\ toServer # <<>> /\ Head(toServer).op \in {"step", "continue"}
    /\ request' = [kind |-> Head(toServer).op, thread |-> Target(Head(toServer))]
    /\ session' = "running" /\ Received /\ executed' = FALSE
    /\ UNCHANGED <<toDebugger, expecting, crossed, confused, protocolVars, current,
                   guestVars, batch, memoryVars, vanished,
                   interrupted>>

Detach ==
    /\ session = "serving" /\ toServer # <<>> /\ Head(toServer).op = "detach"
    /\ remove_all_breakpoints
    /\ session' = "detached" /\ request' = NoRequest
    /\ Received /\ Answered("reply")
    /\ UNCHANGED <<expecting, crossed, confused, protocolVars, current, guestVars, batch,
                   executed, vanished, interrupted>>

Kill ==
    /\ session = "serving" /\ toServer # <<>> /\ Head(toServer).op = "kill"
    /\ session' = "killed" /\ Received
    /\ UNCHANGED <<toDebugger, expecting, crossed, confused, protocolVars, current, request,
                   guestVars, batch, memoryVars, executed, vanished, interrupted>>

\* command_loop announces a stop of the thread.
Announce(t) ==
    /\ session' = "serving" /\ stopped' = t
    /\ general' = IF general = None THEN t ELSE general
    /\ Answered("stop") /\ UNCHANGED resuming

(* Rounds of the guest loop. *)

InLoop == session \in {"running", "detached"}
Runnable == {t \in DOMAIN queued : queued[t]}

\* The thread the debugger resumes is the only one that may run.
Batches ==
    IF request.thread # None THEN {{request.thread} \cap Runnable} \ {{}}
    ELSE {b \in SUBSET Runnable : Cardinality(b) \in 1..GuestProcessors}

\* The scheduler chooses the threads of a batch one after the other.
Orders(b) == {q \in [1..Cardinality(b) -> b] : \A i, j \in DOMAIN q : q[i] = q[j] => i = j}

TrapsOf(p) == {s \in Sites : code[p][s] = Trap}

Execute ==
    /\ InLoop /\ batch = <<>>
    /\ \E b \in Batches : \E hits \in SUBSET {t \in b : TrapsOf(t[1]) # {}} :
       \E order \in Orders(b) :
          batch' = [i \in DOMAIN order |->
                       [thread |-> order[i], hit |-> order[i] \in hits,
                        step |-> request.kind = "step", alone |-> Cardinality(b) = 1]]
    /\ executed' = TRUE
    /\ UNCHANGED <<session, wireVars, protocolVars, current, request, guestVars, memoryVars,
                   vanished, interrupted>>

\* A slice whose thread the scheduler does not know any more is dropped.
SkipSlice ==
    /\ InLoop /\ batch # <<>> /\ Head(batch).thread \notin DOMAIN queued
    /\ batch' = Tail(batch)
    /\ UNCHANGED <<session, wireVars, protocolVars, current, request, guestVars, memoryVars,
                   executed, vanished, interrupted>>

(* What the system call at the end of a slice does to the guest. *)

Forgotten(gone) == [t \in DOMAIN queued \ gone |-> queued[t]]
ThreadsOf(p) == {p} \X DebugSlots

Continues == UNCHANGED <<guestVars, memoryVars>>

Blocks(t) ==
    /\ queued' = [queued EXCEPT ![t] = FALSE]
    /\ UNCHANGED <<runtimes, allocated, memoryVars>>

Exits(t) ==
    /\ t[1] # 1 /\ queued' = Forgotten(ThreadsOf(t[1]))
    /\ UNCHANGED <<runtimes, allocated, memoryVars>>

\* thread_terminate of thread u.
Terminates(u) ==
    /\ allocated' = allocated \ {u} /\ queued' = Forgotten({u})
    /\ UNCHANGED <<runtimes, memoryVars>>

\* thread_create takes the first free slot after the first.
Creates(t) ==
    /\ \E u \in ThreadsOf(t[1]) \ allocated :
          /\ u[2] # 1
          /\ \A v \in ThreadsOf(t[1]) \ allocated : v[2] = 1 \/ u[2] <= v[2]
          /\ allocated' = allocated \cup {u} /\ queued' = Put(queued, u, TRUE)
    /\ UNCHANGED <<runtimes, memoryVars>>

\* A process identifier is used once.
Forks(t) ==
    /\ \E p \in Debuggees :
          /\ code[p] = <<>> /\ \A q \in Debuggees : code[q] = <<>> => p <= q
          /\ runtimes' = runtimes \cup {p}
          /\ allocated' = allocated \cup {<<p, 1>>}
          /\ queued' = Put(queued, <<p, 1>>, TRUE)
          /\ code' = [code EXCEPT ![p] = prepare_fork_child(t[1])]
          /\ unpatched' = [unpatched EXCEPT ![p] = unpatched[t[1]]]
          /\ overwritten' = overwritten \cup
                {<<p, s>> : s \in {s \in Sites : <<t[1], s>> \in overwritten}}
    /\ UNCHANGED breakpoints

\* The thread that calls exec is the only one left.
Execs(t) ==
    /\ notify_exec(t[1])
    /\ code' = [code EXCEPT ![t[1]] = Fresh]
    /\ unpatched' = [unpatched EXCEPT ![t[1]] = Fresh]
    /\ overwritten' = {b \in overwritten : b[1] # t[1]}
    /\ allocated' = (allocated \ ThreadsOf(t[1])) \cup {t}
    /\ queued' = Put(Forgotten(ThreadsOf(t[1])), t, TRUE)
    /\ UNCHANGED runtimes

\* The kernel, or a replaced function, stores into the code of the process.
Stores(t) ==
    /\ \E s \in Sites, v \in 0..MaxVersion : Stored(t[1], s, v)
    /\ UNCHANGED guestVars

Effects(t) ==
    \/ Continues \/ Blocks(t) \/ Exits(t) \/ Creates(t) \/ Forks(t) \/ Execs(t) \/ Stores(t)
    \/ \E u \in ThreadsOf(t[1]) \cap DOMAIN queued : Terminates(u)

\* What poll_interrupt may find.
Polled == {FALSE} \cup {toServer # <<>> /\ session = "running"}

\* A slice is completed; with a debugger, a trap, a step, a fault or an interrupt
\* stops the guest.
CompleteSlice ==
    /\ InLoop /\ batch # <<>> /\ Head(batch).thread \in DOMAIN queued
    /\ batch' = Tail(batch)
    /\ LET slice == Head(batch)
           t == slice.thread IN
       \E polled \in Polled, faulted \in {session = "running", FALSE} :
          /\ IF slice.hit \/ faulted THEN ~(slice.hit /\ faulted) /\ Continues
             ELSE Effects(t) /\ ~(slice.alone /\ t \notin allocated')
          /\ toServer' = IF polled THEN Tail(toServer) ELSE toServer
          /\ IF session = "running" /\ (slice.hit \/ slice.step \/ faulted \/ polled)
             THEN Announce(t) /\ current' = t /\ interrupted' = polled
             ELSE UNCHANGED <<session, protocolVars, toDebugger, current, interrupted>>
    /\ UNCHANGED <<expecting, crossed, confused, request, executed, vanished>>

\* The only thread of a batch ends itself: it is gone before its slice completes.
EndsItself ==
    /\ InLoop /\ batch # <<>> /\ Head(batch).thread \in DOMAIN queued
    /\ Head(batch).alone /\ ~Head(batch).hit
    /\ Terminates(Head(batch).thread)
    /\ batch' = Tail(batch) /\ vanished' = (vanished \/ Head(batch).step)
    /\ UNCHANGED <<session, wireVars, protocolVars, current, request, executed,
                   interrupted>>

\* No thread ran: the interrupt stops the guest at the thread that stopped last.
InterruptWhileIdle ==
    /\ session = "running" /\ batch = <<>> /\ Batches = {} /\ toServer # <<>>
    /\ Announce(current) /\ interrupted' = TRUE /\ Received
    /\ UNCHANGED <<expecting, crossed, confused, current, request, guestVars, batch,
                   memoryVars, executed, vanished>>

Wakes(t) ==
    /\ InLoop /\ batch = <<>> /\ t \in DOMAIN queued /\ ~queued[t]
    /\ queued' = [queued EXCEPT ![t] = TRUE]
    /\ UNCHANGED <<session, wireVars, protocolVars, current, request, runtimes, allocated,
                   batch, memoryVars, executed, vanished, interrupted>>

\* The runtime of a process that exited is given to the reaper.
Retires(p) ==
    /\ InLoop /\ batch = <<>> /\ p \in runtimes
    /\ ThreadsOf(p) \cap allocated # {} /\ ThreadsOf(p) \cap DOMAIN queued = {}
    /\ runtimes' = runtimes \ {p} /\ allocated' = allocated \ ThreadsOf(p)
    /\ UNCHANGED <<session, wireVars, protocolVars, current, request, queued, batch,
                   memoryVars, executed, vanished, interrupted>>

Next ==
    \/ \E c \in Queries \cup Selections \cup Edits \cup Resumes \cup Ends : DebuggerSends(c)
    \/ DebuggerInterrupts \/ DebuggerReceives
    \/ HandleCommand \/ InterruptWhileServing \/ Resume \/ Detach \/ Kill
    \/ Execute \/ SkipSlice \/ CompleteSlice \/ EndsItself \/ InterruptWhileIdle
    \/ \E t \in GdbThreads : Wakes(t)
    \/ \E p \in Debuggees : Retires(p)

(* Properties. *)

\* Every trap in memory can be taken out again and leaves what the guest or the
\* debugger last put there, in children and after exec too, unless the site was
\* written while the breakpoint was in it (main.cpp 485-567).
BreakpointsReversible ==
    \A p \in runtimes : \A s \in Sites :
       IF <<p, s>> \in DOMAIN breakpoints
       THEN \/ <<p, s>> \in overwritten
            \/ code[p][s] = Trap /\ breakpoints[<<p, s>>] = unpatched[p][s]
       ELSE /\ code[p][s] # Trap
            /\ <<p, s>> \in overwritten \/ code[p][s] = unpatched[p][s]

\* The debugger takes the answer to each command for what it is, unless its
\* interrupt crossed a stop and was answered as a query (gdb_rsp.cpp 543-581).
RepliesMatchCommands == confused => crossed

\* A step that ran is reported, unless the thread ended itself in it: its slice is
\* dropped, and the debugger waits for a stop until it interrupts (main.cpp 2539).
StepsReported ==
    session = "running" /\ request.kind = "step" /\ executed /\ batch = <<>> => vanished

\* A stop that is not an interrupt names a thread whose registers can be read, though
\* the slices of its batch completed before it may have ended threads or replaced the
\* image (main.cpp 2539 and 2689-2699).
StopsNameThreads == session = "serving" => stopped \in allocated \/ interrupted
=============================================================================
