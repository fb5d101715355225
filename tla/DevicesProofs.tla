---------------------------- MODULE DevicesProofs ----------------------------
(***************************************************************************)
(* Two services of Devices, for every size of the system: the debugger,    *)
(* and the two sides of audio, callbacks and playback.  Each has an        *)
(* inductive invariant of its own machine (DebugInv, CallbacksInv,         *)
(* PlaybackInv), a lemma an action that says it is kept, and a theorem     *)
(* that takes it to the behaviours whose mix runs that machine.            *)
(***************************************************************************)
EXTENDS Devices, Erasure, FiniteSetTheorems

\* A function that is defined on S, whatever its values.
Table(f, S) == f = [x \in S |-> f[x]]

-----------------------------------------------------------------------------
(***************************************************************************)
(* The debugger.                                                           *)
(***************************************************************************)
Version   == 0 .. MaxVersion
Interrupt == [op |-> "interrupt"]
Selected  == [op : {"general", "resuming"}, thread : Debug!GdbThreads]
Packets   == Debug!Queries \cup Selected \cup Debug!Edits \cup Debug!Resumes
             \cup Debug!Ends \cup {Interrupt}
Slices    == [thread : Debug!GdbThreads, hit : BOOLEAN, step : BOOLEAN, alone : BOOLEAN]

\* A runtime's threads are those of a process the debugger knows, and the
\* scheduler knows no other.
ThreadsTyped ==
    /\ runtimes \subseteq Debuggees
    /\ allocated \subseteq {t \in Debug!GdbThreads : t[1] \in runtimes}
    /\ DOMAIN queued \subseteq allocated /\ Table(queued, DOMAIN queued)

\* Memory holds versions and traps, what was there before a breakpoint is a
\* version, and a process that was never forked has no breakpoint.
MemoryTyped ==
    /\ Table(code, Debuggees) /\ Table(unpatched, Debuggees)
    /\ \A p \in runtimes :
          code[p] \in [Sites -> 0 .. MaxVersion + 1] /\ unpatched[p] \in [Sites -> Version]
    /\ Table(breakpoints, DOMAIN breakpoints)
    /\ \A b \in DOMAIN breakpoints : breakpoints[b] \in Version
    /\ \A p \in Debuggees : code[p] = << >> => \A s \in Sites : <<p, s>> \notin DOMAIN breakpoints

\* Unless an interrupt crossed a stop, one command or one answer is under way,
\* and it is what the debugger waits for.
Quiet(q) == Len(q) = 0 \/ (Len(q) = 1 /\ q[1] = Interrupt)
Only(q, ops) == Len(q) = 1 /\ q[1].op \in ops
WireExact == ~crossed =>
    /\ ~confused
    /\ \/ /\ expecting = "nothing" /\ toDebugger = << >> /\ Quiet(toServer)
          /\ session # "running"
       \/ /\ expecting = "nothing" /\ toDebugger = << >> /\ session = "serving"
          /\ Only(toServer, {"kill"})
       \/ /\ expecting = "reply" /\ toDebugger = << >> /\ session = "serving"
          /\ Only(toServer, {"query", "any", "general", "resuming", "write", "insert",
                             "remove", "detach"})
       \/ /\ expecting = "reply" /\ toDebugger = <<"reply">> /\ toServer = << >>
          /\ session \in {"serving", "detached"}
       \/ /\ expecting = "stop" /\ toDebugger = << >> /\ session = "serving"
          /\ \/ Only(toServer, {"step", "continue"})
             \/ /\ Len(toServer) = 2 /\ toServer[1].op \in {"step", "continue"}
                /\ toServer[2] = Interrupt
       \/ /\ expecting = "stop" /\ toDebugger = << >> /\ session = "running"
          /\ Quiet(toServer)
       \/ /\ expecting = "stop" /\ toDebugger = <<"stop">> /\ session = "serving"
          /\ Quiet(toServer)

\* A step is of one thread, alone in its batch.
StepsAlone ==
    /\ request.kind = "step" => request.thread # Debug!None \/ allocated = {}
    /\ \A i \in DOMAIN batch : batch[i].step => batch[i].alone
    /\ session = "running" /\ request.kind = "step" /\ executed =>
          \/ batch = << >> /\ vanished
          \/ Len(batch) = 1 /\ batch[1].step /\ batch[1].thread \in DOMAIN queued

DebugInv ==
    /\ batch \in Seq(Slices) /\ toServer \in Seq(Packets)
    /\ ThreadsTyped /\ MemoryTyped /\ Debug!BreakpointsReversible
    /\ WireExact /\ StepsAlone /\ Debug!StopsNameThreads

LEMMA DebugSizes == MaxVersion \in Nat \ {0} /\ GuestProcessors \in Nat \ {0}
                    /\ Debuggees \subseteq Nat \ {0} /\ DebugSlots \subseteq Nat \ {0}
                    /\ 1 \in Debuggees /\ 1 \in DebugSlots
BY DevicesAssumption DEF Debug!DebuggerSessionsAssumption

\* What one store, insertion, removal, fork or exec does to memory, said of
\* each process and site.
Memory == MemoryTyped /\ Debug!BreakpointsReversible

LEMMA NotEmpty == ASSUME NEW m, NEW V, m \in [Sites -> V], m = << >> PROVE Sites = {}
<1>1. DOMAIN m = Sites /\ DOMAIN << >> = {} OBVIOUS
<1> QED BY <1>1

LEMMA StoredKeeps ==
    ASSUME Memory, NEW p \in runtimes, runtimes \subseteq Debuggees, NEW s \in Sites,
           NEW v \in Version, Debug!Stored(p, s, v), UNCHANGED runtimes
    PROVE  Memory'
<1> DEFINE c == [code EXCEPT ![p][s] = v]  u == [unpatched EXCEPT ![p][s] = v]
<1>0. /\ code' = c /\ unpatched' = u /\ breakpoints' = breakpoints /\ runtimes' = runtimes
      /\ overwritten' = overwritten \cup ({<<p, s>>} \cap DOMAIN breakpoints)
  BY DEF Debug!Stored
<1>a. Version = 0 .. MaxVersion /\ MaxVersion \in Nat BY DebugSizes DEF Version
<1>1. /\ Table(c, Debuggees) /\ Table(u, Debuggees)
      /\ \A q \in Debuggees \ {p} : c[q] = code[q] /\ u[q] = unpatched[q]
      /\ c[p] = [code[p] EXCEPT ![s] = v] /\ u[p] = [unpatched[p] EXCEPT ![s] = v]
  BY DEF Memory, MemoryTyped, Table
<1>2. /\ c[p] \in [Sites -> 0 .. MaxVersion + 1] /\ u[p] \in [Sites -> Version]
      /\ c[p][s] = v /\ u[p][s] = v
      /\ \A r \in Sites \ {s} : c[p][r] = code[p][r] /\ u[p][r] = unpatched[p][r]
  BY <1>1, <1>a DEF Memory, MemoryTyped
<1> HIDE DEF c, u
<1>3. c[p] = << >> => Sites = {} BY <1>2, NotEmpty
<1>4. MemoryTyped' BY <1>0, <1>1, <1>2, <1>3 DEF Memory, MemoryTyped
<1>5. ASSUME NEW q \in runtimes, NEW r \in Sites
      PROVE  IF <<q, r>> \in DOMAIN breakpoints
             THEN \/ <<q, r>> \in overwritten'
                  \/ c[q][r] = Debug!Trap /\ breakpoints[<<q, r>>] = u[q][r]
             ELSE /\ c[q][r] # Debug!Trap
                  /\ <<q, r>> \in overwritten' \/ c[q][r] = u[q][r]
  <2>1. CASE q = p /\ r = s
    BY <2>1, <1>0, <1>2, <1>a DEF Debug!Trap
  <2>2. CASE ~(q = p /\ r = s)
    <3>1. c[q][r] = code[q][r] /\ u[q][r] = unpatched[q][r] BY <2>2, <1>1, <1>2
    <3>2. <<q, r>> \in overwritten => <<q, r>> \in overwritten' BY <1>0
    <3> QED BY <3>1, <3>2, <1>5 DEF Memory, Debug!BreakpointsReversible
  <2> QED BY <2>1, <2>2
<1>6. Debug!BreakpointsReversible'
  BY <1>0, <1>5 DEF Debug!BreakpointsReversible, Debug!Trap
<1> QED BY <1>4, <1>6 DEF Memory

LEMMA InsertKeeps ==
    ASSUME Memory, NEW p \in runtimes, runtimes \subseteq Debuggees, NEW s \in Sites,
           Debug!insert_software_breakpoint(p, s), UNCHANGED runtimes
    PROVE  Memory'
<1>a. /\ Version = 0 .. MaxVersion /\ MaxVersion \in Nat /\ Debug!Trap = MaxVersion + 1
      /\ Debug!Trap' = Debug!Trap
  BY DebugSizes DEF Version, Debug!Trap
<1>1. CASE <<p, s>> \in DOMAIN breakpoints
  BY <1>1 DEF Debug!insert_software_breakpoint, Debug!memoryVars, Memory, MemoryTyped,
              Debug!BreakpointsReversible
<1>2. CASE <<p, s>> \notin DOMAIN breakpoints
  <2> DEFINE c == [code EXCEPT ![p][s] = Debug!Trap]
             b == Debug!Put(breakpoints, <<p, s>>, code[p][s])
  <2>0. /\ code' = c /\ unpatched' = unpatched /\ breakpoints' = b /\ runtimes' = runtimes
        /\ overwritten' = overwritten
    BY <1>2 DEF Debug!insert_software_breakpoint
  <2>1. /\ Table(c, Debuggees)
        /\ \A q \in Debuggees \ {p} : c[q] = code[q]
        /\ c[p] = [code[p] EXCEPT ![s] = Debug!Trap]
    BY DEF Memory, MemoryTyped, Table
  <2>2. /\ c[p] \in [Sites -> 0 .. MaxVersion + 1]
        /\ c[p][s] = Debug!Trap /\ \A r \in Sites \ {s} : c[p][r] = code[p][r]
    BY <2>1, <1>a DEF Memory, MemoryTyped
  <2>3. code[p][s] # Debug!Trap /\ (<<p, s>> \in overwritten \/ code[p][s] = unpatched[p][s])
    BY <1>2 DEF Memory, Debug!BreakpointsReversible
  <2>4. code[p][s] \in Version
    <3>1. code[p][s] \in 0 .. MaxVersion + 1 BY DEF Memory, MemoryTyped
    <3> QED BY <3>1, <2>3, <1>a
  <2>5. /\ Table(b, DOMAIN b) /\ DOMAIN b = DOMAIN breakpoints \cup {<<p, s>>}
        /\ b[<<p, s>>] = code[p][s] /\ \A e \in DOMAIN breakpoints : b[e] = breakpoints[e]
    BY <1>2 DEF Table, Debug!Put
  <2> HIDE DEF c, b
  <2>6. c[p] = << >> => Sites = {} BY <2>2, NotEmpty
  <2>7. \A q \in Debuggees : c[q] = << >> => \A r \in Sites : <<q, r>> \notin DOMAIN b
    BY <2>1, <2>5, <2>6 DEF Memory, MemoryTyped
  <2>8. MemoryTyped'
    BY <2>0, <2>1, <2>2, <2>4, <2>5, <2>7 DEF Memory, MemoryTyped
  <2>9. ASSUME NEW q \in runtimes, NEW r \in Sites
        PROVE  IF <<q, r>> \in DOMAIN b
               THEN \/ <<q, r>> \in overwritten
                    \/ c[q][r] = Debug!Trap /\ b[<<q, r>>] = unpatched[q][r]
               ELSE /\ c[q][r] # Debug!Trap
                    /\ <<q, r>> \in overwritten \/ c[q][r] = unpatched[q][r]
    <3>1. CASE q = p /\ r = s
      BY <3>1, <2>2, <2>3, <2>5
    <3>2. CASE ~(q = p /\ r = s)
      <4>1. c[q][r] = code[q][r] /\ <<q, r>> # <<p, s>> BY <3>2, <2>1, <2>2
      <4> QED BY <4>1, <2>5, <2>9 DEF Memory, Debug!BreakpointsReversible
    <3> QED BY <3>1, <3>2
  <2>10. Debug!BreakpointsReversible'
    BY <2>0, <2>9, <1>a DEF Debug!BreakpointsReversible
  <2> QED BY <2>8, <2>10 DEF Memory
<1> QED BY <1>1, <1>2

LEMMA RemoveKeeps ==
    ASSUME Memory, NEW p \in runtimes, runtimes \subseteq Debuggees, NEW s \in Sites,
           Debug!remove_software_breakpoint(p, s), UNCHANGED runtimes
    PROVE  Memory'
<1>a. /\ Version = 0 .. MaxVersion /\ MaxVersion \in Nat /\ Debug!Trap = MaxVersion + 1
      /\ Debug!Trap' = Debug!Trap
  BY DebugSizes DEF Version, Debug!Trap
<1>1. CASE <<p, s>> \notin DOMAIN breakpoints
  BY <1>1 DEF Debug!remove_software_breakpoint, Debug!memoryVars, Memory, MemoryTyped,
              Debug!BreakpointsReversible
<1>2. CASE <<p, s>> \in DOMAIN breakpoints
  <2> DEFINE old == breakpoints[<<p, s>>]
             c == [code EXCEPT ![p][s] = old]
             b == Debug!WithoutBreakpoints({<<p, s>>})
  <2>0. /\ code' = c /\ unpatched' = unpatched /\ breakpoints' = b /\ runtimes' = runtimes
        /\ overwritten' = overwritten
    BY <1>2 DEF Debug!remove_software_breakpoint
  <2>4. old \in Version /\ (<<p, s>> \in overwritten \/ old = unpatched[p][s])
    BY <1>2 DEF Memory, MemoryTyped, Debug!BreakpointsReversible
  <2> HIDE DEF old
  <2>1. /\ Table(c, Debuggees)
        /\ \A q \in Debuggees \ {p} : c[q] = code[q]
        /\ c[p] = [code[p] EXCEPT ![s] = old]
    BY DEF Memory, MemoryTyped, Table
  <2>2. /\ c[p] \in [Sites -> 0 .. MaxVersion + 1]
        /\ c[p][s] = old /\ \A r \in Sites \ {s} : c[p][r] = code[p][r]
    BY <2>1, <2>4, <1>a DEF Memory, MemoryTyped
  <2>5. /\ Table(b, DOMAIN b) /\ DOMAIN b = DOMAIN breakpoints \ {<<p, s>>}
        /\ \A e \in DOMAIN b : b[e] = breakpoints[e]
    BY DEF Table, Debug!WithoutBreakpoints
  <2> HIDE DEF c, b
  <2>6. c[p] = << >> => Sites = {} BY <2>2, NotEmpty
  <2>7. \A q \in Debuggees : c[q] = << >> => \A r \in Sites : <<q, r>> \notin DOMAIN b
    BY <2>1, <2>5, <2>6 DEF Memory, MemoryTyped
  <2>8. MemoryTyped'
    BY <2>0, <2>1, <2>2, <2>5, <2>7 DEF Memory, MemoryTyped
  <2>9. ASSUME NEW q \in runtimes, NEW r \in Sites
        PROVE  IF <<q, r>> \in DOMAIN b
               THEN \/ <<q, r>> \in overwritten
                    \/ c[q][r] = Debug!Trap /\ b[<<q, r>>] = unpatched[q][r]
               ELSE /\ c[q][r] # Debug!Trap
                    /\ <<q, r>> \in overwritten \/ c[q][r] = unpatched[q][r]
    <3>1. CASE q = p /\ r = s
      BY <3>1, <2>2, <2>4, <2>5, <1>a
    <3>2. CASE ~(q = p /\ r = s)
      <4>1. c[q][r] = code[q][r] /\ <<q, r>> # <<p, s>> BY <3>2, <2>1, <2>2
      <4> QED BY <4>1, <2>5, <2>9 DEF Memory, Debug!BreakpointsReversible
    <3> QED BY <3>1, <3>2
  <2>10. Debug!BreakpointsReversible'
    BY <2>0, <2>9, <1>a DEF Debug!BreakpointsReversible
  <2> QED BY <2>8, <2>10 DEF Memory
<1> QED BY <1>1, <1>2

\* Memory of a process without its breakpoints holds what the guest and the
\* debugger put there.
LEMMA WithoutTraps ==
    ASSUME Memory, NEW p \in runtimes
    PROVE  /\ Debug!prepare_fork_child(p) \in [Sites -> 0 .. MaxVersion + 1]
           /\ \A s \in Sites :
                 /\ Debug!prepare_fork_child(p)[s] # Debug!Trap
                 /\ \/ <<p, s>> \in overwritten
                    \/ Debug!prepare_fork_child(p)[s] = unpatched[p][s]
<1> DEFINE m == Debug!prepare_fork_child(p)
<1>a. /\ Version = 0 .. MaxVersion /\ MaxVersion \in Nat /\ Debug!Trap = MaxVersion + 1
  BY DebugSizes DEF Version, Debug!Trap
<1>1. m = [s \in Sites |-> IF <<p, s>> \in DOMAIN breakpoints THEN breakpoints[<<p, s>>]
                           ELSE code[p][s]]
  BY DEF Debug!prepare_fork_child
<1>2. ASSUME NEW s \in Sites
      PROVE  /\ m[s] \in 0 .. MaxVersion + 1 /\ m[s] # Debug!Trap
             /\ <<p, s>> \in overwritten \/ m[s] = unpatched[p][s]
  <2>1. CASE <<p, s>> \in DOMAIN breakpoints
    <3>1. breakpoints[<<p, s>>] \in Version BY <2>1 DEF Memory, MemoryTyped
    <3> QED BY <2>1, <3>1, <1>1, <1>a DEF Memory, Debug!BreakpointsReversible
  <2>2. CASE <<p, s>> \notin DOMAIN breakpoints
    <3>1. code[p][s] \in 0 .. MaxVersion + 1 BY DEF Memory, MemoryTyped
    <3> QED BY <2>2, <3>1, <1>1 DEF Memory, Debug!BreakpointsReversible
  <2> QED BY <2>1, <2>2
<1> HIDE DEF m
<1>3. m \in [Sites -> 0 .. MaxVersion + 1] BY <1>1, <1>2
<1> QED BY <1>2, <1>3 DEF m

LEMMA NoBreakpoints == DOMAIN << >> = {} /\ Table(<< >>, DOMAIN << >>)
<1>1. DOMAIN << >> = {} OBVIOUS
<1>2. << >> = [x \in {} |-> << >>[x]] OBVIOUS
<1> QED BY <1>1, <1>2 DEF Table

LEMMA RemoveAllKeeps ==
    ASSUME Memory, runtimes \subseteq Debuggees, Debug!remove_all_breakpoints,
           UNCHANGED runtimes
    PROVE  Memory'
<1>0. /\ code' = [p \in Debuggees |->
                     IF p \in runtimes THEN Debug!prepare_fork_child(p) ELSE code[p]]
      /\ breakpoints' = << >> /\ unpatched' = unpatched /\ overwritten' = overwritten
      /\ runtimes' = runtimes
  BY DEF Debug!remove_all_breakpoints
<1>1. Table(code', Debuggees) BY <1>0 DEF Table
<1>2. \A p \in runtimes : code'[p] = Debug!prepare_fork_child(p) BY <1>0
<1>3. \A p \in runtimes : code'[p] \in [Sites -> 0 .. MaxVersion + 1]
  BY <1>2, WithoutTraps
<1>4. MemoryTyped' BY <1>0, <1>1, <1>3, NoBreakpoints DEF Memory, MemoryTyped
<1>5. Debug!BreakpointsReversible'
  BY <1>0, <1>2, WithoutTraps, NoBreakpoints DEF Debug!BreakpointsReversible, Debug!Trap
<1> QED BY <1>4, <1>5 DEF Memory

LEMMA ForkKeeps ==
    ASSUME Memory, runtimes \subseteq Debuggees, NEW t, t[1] \in runtimes, Debug!Forks(t)
    PROVE  Memory'
<1> DEFINE m == Debug!prepare_fork_child(t[1])
<1>1. PICK p \in Debuggees :
          /\ code[p] = << >> /\ runtimes' = runtimes \cup {p}
          /\ code' = [code EXCEPT ![p] = m]
          /\ unpatched' = [unpatched EXCEPT ![p] = unpatched[t[1]]]
          /\ overwritten' = overwritten \cup
                {<<p, s>> : s \in {s \in Sites : <<t[1], s>> \in overwritten}}
          /\ breakpoints' = breakpoints
  BY DEF Debug!Forks
<1>2. /\ m \in [Sites -> 0 .. MaxVersion + 1]
      /\ \A s \in Sites : /\ m[s] # Debug!Trap
                          /\ <<t[1], s>> \in overwritten \/ m[s] = unpatched[t[1]][s]
  BY WithoutTraps
<1> HIDE DEF m
<1>3. /\ Table(code', Debuggees) /\ Table(unpatched', Debuggees)
      /\ code'[p] = m /\ unpatched'[p] = unpatched[t[1]]
      /\ \A q \in Debuggees \ {p} : code'[q] = code[q] /\ unpatched'[q] = unpatched[q]
  BY <1>1 DEF Memory, MemoryTyped, Table
<1>4. \A s \in Sites : <<p, s>> \notin DOMAIN breakpoints
  BY <1>1 DEF Memory, MemoryTyped
<1>5. unpatched[t[1]] \in [Sites -> Version] BY DEF Memory, MemoryTyped
<1>6. MemoryTyped' BY <1>1, <1>2, <1>3, <1>4, <1>5 DEF Memory, MemoryTyped
<1>7. ASSUME NEW q \in runtimes', NEW r \in Sites
      PROVE  IF <<q, r>> \in DOMAIN breakpoints
             THEN \/ <<q, r>> \in overwritten'
                  \/ code'[q][r] = Debug!Trap /\ breakpoints[<<q, r>>] = unpatched'[q][r]
             ELSE /\ code'[q][r] # Debug!Trap
                  /\ <<q, r>> \in overwritten' \/ code'[q][r] = unpatched'[q][r]
  <2>1. CASE q = p
    <3>1. <<t[1], r>> \in overwritten => <<p, r>> \in overwritten' BY <1>1
    <3> QED BY <2>1, <3>1, <1>2, <1>3, <1>4
  <2>2. CASE q # p
    <3>1. q \in runtimes /\ code'[q] = code[q] /\ unpatched'[q] = unpatched[q]
          /\ (<<q, r>> \in overwritten => <<q, r>> \in overwritten')
      BY <2>2, <1>1, <1>3
    <3> QED BY <3>1 DEF Memory, Debug!BreakpointsReversible
  <2> QED BY <2>1, <2>2
<1>8. Debug!BreakpointsReversible'
  BY <1>1, <1>7 DEF Debug!BreakpointsReversible, Debug!Trap
<1> QED BY <1>6, <1>8 DEF Memory

LEMMA ExecKeeps ==
    ASSUME Memory, runtimes \subseteq Debuggees, NEW t, t[1] \in runtimes, Debug!Execs(t)
    PROVE  Memory'
<1> DEFINE p == t[1]  b == Debug!WithoutBreakpoints({p} \X Sites)
<1>0. /\ breakpoints' = b /\ runtimes' = runtimes
      /\ code' = [code EXCEPT ![p] = Debug!Fresh]
      /\ unpatched' = [unpatched EXCEPT ![p] = Debug!Fresh]
      /\ overwritten' = {e \in overwritten : e[1] # p}
  BY DEF Debug!Execs, Debug!notify_exec
<1>a. /\ Version = 0 .. MaxVersion /\ MaxVersion \in Nat \ {0} /\ Debug!Trap = MaxVersion + 1
  BY DebugSizes DEF Version, Debug!Trap
<1>1. /\ Debug!Fresh \in [Sites -> 0 .. MaxVersion + 1] /\ Debug!Fresh \in [Sites -> Version]
      /\ \A s \in Sites : Debug!Fresh[s] = 0 /\ Debug!Fresh[s] # Debug!Trap
  BY <1>a DEF Debug!Fresh
<1>2. /\ Table(b, DOMAIN b) /\ DOMAIN b = DOMAIN breakpoints \ ({p} \X Sites)
      /\ \A e \in DOMAIN b : b[e] = breakpoints[e]
  BY DEF Table, Debug!WithoutBreakpoints
<1>3. /\ Table(code', Debuggees) /\ Table(unpatched', Debuggees)
      /\ code'[p] = Debug!Fresh /\ unpatched'[p] = Debug!Fresh
      /\ \A q \in Debuggees \ {p} : code'[q] = code[q] /\ unpatched'[q] = unpatched[q]
  BY <1>0 DEF Memory, MemoryTyped, Table
<1> HIDE DEF b
<1>4. \A s \in Sites : <<p, s>> \notin DOMAIN b BY <1>2
<1> HIDE DEF p
<1>5. p \in runtimes BY DEF p
<1>6. MemoryTyped' BY <1>0, <1>1, <1>2, <1>3, <1>4, <1>5 DEF Memory, MemoryTyped
<1>7. ASSUME NEW q \in runtimes, NEW r \in Sites
      PROVE  IF <<q, r>> \in DOMAIN b
             THEN \/ <<q, r>> \in overwritten'
                  \/ code'[q][r] = Debug!Trap /\ b[<<q, r>>] = unpatched'[q][r]
             ELSE /\ code'[q][r] # Debug!Trap
                  /\ <<q, r>> \in overwritten' \/ code'[q][r] = unpatched'[q][r]
  <2>1. CASE q = p
    BY <2>1, <1>1, <1>3, <1>4
  <2>2. CASE q # p
    <3>1. /\ code'[q] = code[q] /\ unpatched'[q] = unpatched[q]
          /\ <<q, r>> \in overwritten => <<q, r>> \in overwritten'
          /\ <<q, r>> \in DOMAIN b <=> <<q, r>> \in DOMAIN breakpoints
      BY <2>2, <1>0, <1>2, <1>3
    <3> QED BY <3>1, <1>2 DEF Memory, Debug!BreakpointsReversible
  <2> QED BY <2>1, <2>2
<1>8. Debug!BreakpointsReversible'
  BY <1>0, <1>7 DEF Debug!BreakpointsReversible, Debug!Trap
<1> QED BY <1>6, <1>8 DEF Memory

\* Memory stays, though a process may go.
LEMMA MemoryStays ==
    ASSUME Memory, UNCHANGED Debug!memoryVars, runtimes' \subseteq runtimes
    PROVE  Memory'
BY DEF Memory, MemoryTyped, Debug!memoryVars, Debug!BreakpointsReversible, Debug!Trap

LEMMA PutIn ==
    ASSUME NEW f, NEW x, Table(f, DOMAIN f), NEW g, g = Debug!Put(f, x, TRUE)
    PROVE  DOMAIN g = DOMAIN f \cup {x} /\ Table(g, DOMAIN g)
BY DEF Debug!Put, Table

LEMMA ForgottenOf ==
    ASSUME NEW S
    PROVE  /\ DOMAIN Debug!Forgotten(S) = DOMAIN queued \ S
           /\ Table(Debug!Forgotten(S), DOMAIN queued \ S)
BY DEF Debug!Forgotten, Table

\* The system call at the end of a slice leaves the thread's own process with a
\* runtime, and no thread appears where there was none at all.
LEMMA EffectsKeep ==
    ASSUME ThreadsTyped, Memory, NEW t \in DOMAIN queued, Debug!Effects(t)
    PROVE  ThreadsTyped' /\ Memory'
<1>0. /\ t \in Debug!GdbThreads /\ t \in allocated /\ t[1] \in runtimes
      /\ runtimes \subseteq Debuggees /\ t[1] \in Debuggees /\ t[2] \in DebugSlots
      /\ t = <<t[1], t[2]>>
  BY DEF ThreadsTyped, Debug!GdbThreads
<1>1. CASE Debug!Continues
  BY <1>1, MemoryStays DEF Debug!Continues, Debug!guestVars, ThreadsTyped
<1>2. CASE Debug!Blocks(t)
  <2>1. ThreadsTyped' BY <1>2 DEF Debug!Blocks, ThreadsTyped, Table
  <2> QED BY <1>2, <2>1, MemoryStays DEF Debug!Blocks
<1>3. CASE Debug!Exits(t)
  <2>1. ThreadsTyped' BY <1>3, ForgottenOf DEF Debug!Exits, ThreadsTyped
  <2> QED BY <1>3, <2>1, MemoryStays DEF Debug!Exits
<1>4. CASE Debug!Creates(t)
  <2>1. PICK u \in Debug!ThreadsOf(t[1]) :
            /\ allocated' = allocated \cup {u} /\ queued' = Debug!Put(queued, u, TRUE)
            /\ UNCHANGED <<runtimes, Debug!memoryVars>>
    BY <1>4 DEF Debug!Creates
  <2>2. u \in Debug!GdbThreads /\ u[1] = t[1]
    BY <1>0 DEF Debug!ThreadsOf, Debug!GdbThreads
  <2>3. /\ DOMAIN queued' = DOMAIN queued \cup {u}
        /\ Table(queued', DOMAIN queued')
    BY <2>1, PutIn DEF ThreadsTyped
  <2>4. ThreadsTyped' BY <1>0, <2>1, <2>2, <2>3 DEF ThreadsTyped
  <2> QED BY <2>1, <2>4, MemoryStays
<1>5. CASE Debug!Forks(t)
  <2>1. PICK p \in Debuggees :
            /\ runtimes' = runtimes \cup {p} /\ allocated' = allocated \cup {<<p, 1>>}
            /\ queued' = Debug!Put(queued, <<p, 1>>, TRUE)
    BY <1>5 DEF Debug!Forks
  <2> DEFINE u == <<p, 1>>
  <2>2. u \in Debug!GdbThreads /\ u[1] = p BY DebugSizes DEF Debug!GdbThreads
  <2>3. queued' = Debug!Put(queued, u, TRUE) /\ allocated' = allocated \cup {u}
    BY <2>1
  <2> HIDE DEF u
  <2>4. DOMAIN queued' = DOMAIN queued \cup {u} /\ Table(queued', DOMAIN queued')
    BY <2>3, PutIn DEF ThreadsTyped
  <2>5. ThreadsTyped' BY <2>1, <2>2, <2>3, <2>4 DEF ThreadsTyped
  <2> QED BY <2>5, <1>0, <1>5, ForkKeeps
<1>6. CASE Debug!Execs(t)
  <2> DEFINE left == Debug!Forgotten(Debug!ThreadsOf(t[1]))
  <2>1. /\ runtimes' = runtimes
        /\ allocated' = (allocated \ Debug!ThreadsOf(t[1])) \cup {t}
        /\ queued' = Debug!Put(left, t, TRUE)
    BY <1>6 DEF Debug!Execs
  <2>2. /\ DOMAIN left = DOMAIN queued \ Debug!ThreadsOf(t[1])
        /\ Table(left, DOMAIN left)
    BY ForgottenOf
  <2> HIDE DEF left
  <2>3. /\ DOMAIN queued' = DOMAIN left \cup {t} /\ Table(queued', DOMAIN queued')
    BY <2>1, <2>2, PutIn
  <2>4. ThreadsTyped' BY <1>0, <2>1, <2>2, <2>3 DEF ThreadsTyped
  <2> QED BY <2>4, <1>0, <1>6, ExecKeeps
<1>7. CASE Debug!Stores(t)
  <2>1. PICK s \in Sites, v \in 0 .. MaxVersion : Debug!Stored(t[1], s, v)
    BY <1>7 DEF Debug!Stores
  <2>2. UNCHANGED Debug!guestVars BY <1>7 DEF Debug!Stores
  <2>3. ThreadsTyped' /\ UNCHANGED runtimes BY <2>2 DEF Debug!guestVars, ThreadsTyped
  <2> QED BY <2>1, <2>3, <1>0, StoredKeeps DEF Version
<1>8. ASSUME NEW u \in Debug!ThreadsOf(t[1]) \cap DOMAIN queued, Debug!Terminates(u)
      PROVE  ThreadsTyped' /\ Memory'
  <2>1. ThreadsTyped' BY <1>8, ForgottenOf DEF Debug!Terminates, ThreadsTyped
  <2> QED BY <1>8, <2>1, MemoryStays DEF Debug!Terminates
<1> QED BY <1>1, <1>2, <1>3, <1>4, <1>5, <1>6, <1>7, <1>8 DEF Debug!Effects

\* The thread a packet is for is one that exists, when there is one.
LEMMA ResolvedThread ==
    ASSUME ThreadsTyped
    PROVE  /\ Debug!resolve_general_thread # Debug!None \/ allocated = {}
           /\ Debug!resolve_general_thread # Debug!None =>
                 Debug!resolve_general_thread \in allocated
<1> DEFINE First(u) == \A v \in allocated : u[1] < v[1] \/ (u[1] = v[1] /\ u[2] <= v[2])
<1>0. Debug!None \notin Debug!GdbThreads BY DebugSizes DEF Debug!None, Debug!GdbThreads
<1>1. ASSUME allocated # {} PROVE \E u \in allocated : First(u)
  <2>0. \A u \in allocated : u[1] \in Nat /\ u[2] \in Nat
    BY DebugSizes DEF ThreadsTyped, Debug!GdbThreads
  <2> DEFINE P == {u[1] : u \in allocated}
  <2>1. P \in SUBSET Nat /\ P # {} BY <2>0, <1>1
  <2>2. PICK p \in P : \A q \in P : p <= q
    <3> HIDE DEF P
    <3> QED BY <2>1, LeastNatural
  <2> DEFINE S == {n \in Nat : \E u \in allocated : u[1] = p /\ u[2] = n}
  <2>3. S \in SUBSET Nat /\ S # {} BY <2>0, <2>2
  <2>4. PICK m \in S : \A n \in S : m <= n
    <3> HIDE DEF S
    <3> QED BY <2>3, LeastNatural
  <2>5. PICK u \in allocated : u[1] = p /\ u[2] = m BY <2>4
  <2>6. First(u)
    <3> SUFFICES ASSUME NEW v \in allocated
                 PROVE  u[1] < v[1] \/ (u[1] = v[1] /\ u[2] <= v[2])
      OBVIOUS
    <3>1. p <= v[1] BY <2>2
    <3>2. v[1] = p => m <= v[2] BY <2>0, <2>4
    <3> QED BY <3>1, <3>2, <2>5, <2>0
  <2> QED BY <2>6
<1>2. allocated # {} => (CHOOSE u \in allocated : First(u)) \in allocated BY <1>1
<1>3. Debug!resolve_general_thread =
        IF general \in allocated THEN general
        ELSE IF stopped \in allocated THEN stopped
        ELSE IF current \in allocated THEN current
        ELSE IF allocated = {} THEN Debug!None ELSE CHOOSE u \in allocated : First(u)
  BY DEF Debug!resolve_general_thread, Debug!threads
<1> HIDE DEF First
<1>4. Debug!None \notin allocated BY <1>0 DEF ThreadsTyped
<1> QED BY <1>2, <1>3, <1>4

LEMMA GuestsStay ==
    ASSUME ThreadsTyped, Memory, UNCHANGED <<Debug!guestVars, Debug!memoryVars>>
    PROVE  ThreadsTyped' /\ Memory'
BY MemoryStays DEF Debug!guestVars, ThreadsTyped

\* The first packet, and the first slice.
LEMMA PacketOf ==
    ASSUME NEW c \in Packets
    PROVE  /\ c.op \in {"query", "any", "general", "resuming", "write", "insert", "remove",
                        "step", "continue", "detach", "kill", "interrupt"}
           /\ c.op \in {"write", "insert", "remove"} => c.site \in Sites
           /\ c.op = "write" => c.version \in Version
           /\ c.op = "interrupt" => c = Interrupt
BY DEF Packets, Debug!Queries, Selected, Debug!Edits, Debug!Resumes, Debug!Ends, Interrupt,
       Version

LEMMA FirstPacket ==
    ASSUME toServer \in Seq(Packets), toServer # << >>
    PROVE  Head(toServer) \in Packets /\ Tail(toServer) \in Seq(Packets)
OBVIOUS

LEMMA FirstSlice ==
    ASSUME batch \in Seq(Slices), batch # << >>
    PROVE  /\ Head(batch) \in Slices /\ Head(batch) = batch[1] /\ 1 \in DOMAIN batch
           /\ Tail(batch) \in Seq(Slices) /\ Len(Tail(batch)) = Len(batch) - 1
           /\ \A i \in DOMAIN Tail(batch) : i + 1 \in DOMAIN batch /\ Tail(batch)[i] = batch[i + 1]
OBVIOUS

\* What a step keeps of the steps of threads when it leaves the batch alone.
LEMMA StepsStay ==
    ASSUME StepsAlone, UNCHANGED <<request, allocated, queued, batch, executed, vanished>>,
           session' = "running" => session = "running"
    PROVE  StepsAlone'
BY DEF StepsAlone, Debug!None

LEMMA SendKeeps ==
    ASSUME DebugInv,
           NEW c \in Debug!Queries \cup Debug!Selections \cup Debug!Edits \cup Debug!Resumes
                     \cup Debug!Ends,
           Debug!DebuggerSends(c)
    PROVE  DebugInv'
<1>0. /\ expecting = "nothing" /\ toServer = << >> /\ session = "serving"
      /\ toServer' = <<c>> /\ expecting' = Debug!Awaited(c)
      /\ UNCHANGED <<session, toDebugger, crossed, confused, stopped, request,
                     Debug!guestVars, batch, Debug!memoryVars, executed, vanished, interrupted>>
  BY DEF Debug!DebuggerSends, Debug!protocolVars
<1>1. c \in Packets /\ c.op # "interrupt"
  <2>1. Debug!Selections \subseteq Selected
    BY DEF Debug!Selections, Selected, DebugInv, ThreadsTyped
  <2> QED BY <2>1 DEF Packets, Debug!Queries, Selected, Debug!Edits, Debug!Resumes, Debug!Ends
<1>2. batch' \in Seq(Slices) /\ toServer' \in Seq(Packets) BY <1>0, <1>1 DEF DebugInv
<1>3. ThreadsTyped' /\ Memory' BY <1>0, GuestsStay DEF DebugInv, Memory
<1>4. WireExact'
  <2> SUFFICES ASSUME ~crossed' PROVE WireExact' BY DEF WireExact
  <2>1. ~confused' /\ toDebugger' = << >> /\ session' = "serving"
    BY <1>0 DEF DebugInv, WireExact, Quiet, Only
  <2>2. Len(toServer') = 1 /\ toServer'[1] = c BY <1>0
  <2>3. CASE c.op = "kill" BY <1>0, <2>1, <2>2, <2>3 DEF WireExact, Debug!Awaited, Only
  <2>4. CASE c.op \in {"step", "continue"}
    BY <1>0, <2>1, <2>2, <2>4 DEF WireExact, Debug!Awaited, Only
  <2>5. CASE c.op \notin {"step", "continue", "kill"}
    BY <1>0, <1>1, <2>1, <2>2, <2>5, PacketOf DEF WireExact, Debug!Awaited, Only
  <2> QED BY <2>3, <2>4, <2>5
<1>5. StepsAlone' BY <1>0, StepsStay DEF DebugInv, Debug!guestVars
<1>6. Debug!StopsNameThreads'
  BY <1>0 DEF DebugInv, Debug!StopsNameThreads, Debug!guestVars
<1> QED BY <1>2, <1>3, <1>4, <1>5, <1>6 DEF DebugInv, Memory

LEMMA InterruptKeeps == ASSUME DebugInv, Debug!DebuggerInterrupts PROVE DebugInv'
<1>0. /\ expecting = "stop" /\ ~\E i \in DOMAIN toServer : toServer[i].op = "interrupt"
      /\ toServer' = Append(toServer, Interrupt)
      /\ UNCHANGED <<session, toDebugger, expecting, crossed, confused, stopped, request,
                     Debug!guestVars, batch, Debug!memoryVars, executed, vanished, interrupted>>
  BY DEF Debug!DebuggerInterrupts, Debug!protocolVars, Interrupt
<1>2. batch' \in Seq(Slices) /\ toServer' \in Seq(Packets)
  <2>1. Interrupt \in Packets BY DEF Packets
  <2> QED BY <2>1, <1>0 DEF DebugInv
<1>3. ThreadsTyped' /\ Memory' BY <1>0, GuestsStay DEF DebugInv, Memory
<1>4. WireExact'
  <2> SUFFICES ASSUME ~crossed' PROVE WireExact' BY DEF WireExact
  <2>1. /\ toServer \in Seq(Packets) /\ Len(toServer') = Len(toServer) + 1
        /\ toServer'[Len(toServer')] = Interrupt
        /\ Len(toServer) = 1 => toServer'[1] = toServer[1]
    BY <1>0, <1>2 DEF DebugInv
  <2>2. ~(Len(toServer) = 1 /\ toServer[1] = Interrupt)
    <3> SUFFICES ASSUME Len(toServer) = 1, toServer[1] = Interrupt PROVE FALSE OBVIOUS
    <3>1. 1 \in DOMAIN toServer /\ toServer[1] = Interrupt BY <2>1
    <3> QED BY <3>1, <1>0 DEF Interrupt
  <2>3. ~(Len(toServer) = 2 /\ toServer[2] = Interrupt)
    <3> SUFFICES ASSUME Len(toServer) = 2, toServer[2] = Interrupt PROVE FALSE OBVIOUS
    <3>1. 2 \in DOMAIN toServer /\ toServer[2] = Interrupt BY <2>1
    <3> QED BY <3>1, <1>0 DEF Interrupt
  <2>4. /\ ~confused
        /\ \/ /\ Len(toServer) = 0
              /\ \/ toDebugger = << >> /\ session = "running"
                 \/ toDebugger = <<"stop">> /\ session = "serving"
           \/ /\ session = "serving" /\ toDebugger = << >>
              /\ Len(toServer) = 1 /\ toServer[1].op \in {"step", "continue"}
    BY <1>0, <2>2, <2>3 DEF DebugInv, WireExact, Quiet, Only
  <2> QED BY <2>1, <2>4, <1>0 DEF WireExact, Quiet, Only
<1>5. StepsAlone' BY <1>0, StepsStay DEF DebugInv, Debug!guestVars
<1>6. Debug!StopsNameThreads'
  BY <1>0 DEF DebugInv, Debug!StopsNameThreads, Debug!guestVars
<1> QED BY <1>2, <1>3, <1>4, <1>5, <1>6 DEF DebugInv, Memory

LEMMA ReceiveKeeps == ASSUME DebugInv, Debug!DebuggerReceives PROVE DebugInv'
<1>0. /\ toDebugger # << >> /\ expecting # "nothing"
      /\ toDebugger' = Tail(toDebugger) /\ expecting' = "nothing"
      /\ confused' = (confused \/ Head(toDebugger) # expecting)
      /\ UNCHANGED <<session, toServer, crossed, stopped, request,
                     Debug!guestVars, batch, Debug!memoryVars, executed, vanished, interrupted>>
  BY DEF Debug!DebuggerReceives, Debug!protocolVars
<1>2. batch' \in Seq(Slices) /\ toServer' \in Seq(Packets) BY <1>0 DEF DebugInv
<1>3. ThreadsTyped' /\ Memory' BY <1>0, GuestsStay DEF DebugInv, Memory
<1>4. WireExact'
  <2> SUFFICES ASSUME ~crossed' PROVE WireExact' BY DEF WireExact
  <2>1. /\ ~confused /\ Quiet(toServer) /\ session # "running"
        /\ toDebugger = <<expecting>>
    BY <1>0 DEF DebugInv, WireExact, Quiet, Only
  <2>2. Tail(toDebugger) = << >> /\ Head(toDebugger) = expecting BY <2>1
  <2> QED BY <2>1, <2>2, <1>0 DEF WireExact, Quiet
<1>5. StepsAlone' BY <1>0, StepsStay DEF DebugInv, Debug!guestVars
<1>6. Debug!StopsNameThreads'
  BY <1>0 DEF DebugInv, Debug!StopsNameThreads, Debug!guestVars
<1> QED BY <1>2, <1>3, <1>4, <1>5, <1>6 DEF DebugInv, Memory

\* A command that is answered: the wire before and after.
LEMMA ReplyKeepsWire ==
    ASSUME toServer \in Seq(Packets), WireExact, session = "serving", toServer # << >>,
           toServer[1].op \notin {"step", "continue", "kill", "interrupt"},
           toServer' = Tail(toServer), toDebugger' = Append(toDebugger, "reply"),
           session' \in {"serving", "detached"}, UNCHANGED <<expecting, crossed, confused>>
    PROVE  WireExact'
<1> SUFFICES ASSUME ~crossed' PROVE WireExact' BY DEF WireExact
<1>1. /\ ~confused /\ expecting = "reply" /\ toDebugger = << >> /\ Len(toServer) = 1
  BY DEF WireExact, Quiet, Only, Interrupt
<1>2. toServer' = << >> BY <1>1
<1>3. toDebugger' = <<"reply">> BY <1>1
<1> QED BY <1>1, <1>2, <1>3 DEF WireExact

LEMMA HandleKeeps == ASSUME DebugInv, Debug!HandleCommand PROVE DebugInv'
<1> DEFINE c == Head(toServer)  thread == Debug!resolve_general_thread
<1>0. /\ session = "serving" /\ toServer # << >> /\ toServer' = Tail(toServer)
      /\ toDebugger' = Append(toDebugger, "reply")
      /\ UNCHANGED <<session, expecting, crossed, confused, stopped, request,
                     Debug!guestVars, batch, executed, vanished, interrupted>>
  BY DEF Debug!HandleCommand, Debug!Received, Debug!Answered
<1>1. /\ c.op \in {"query", "any", "general", "resuming", "write", "insert", "remove"}
      /\ \/ UNCHANGED Debug!memoryVars
         \/ c.op = "write" /\ thread # Debug!None /\ Debug!Stored(thread[1], c.site, c.version)
         \/ /\ c.op = "insert" /\ thread # Debug!None
            /\ Debug!insert_software_breakpoint(thread[1], c.site)
         \/ /\ c.op = "remove" /\ thread # Debug!None
            /\ Debug!remove_software_breakpoint(thread[1], c.site)
  BY DEF Debug!HandleCommand
<1>2. c \in Packets /\ batch' \in Seq(Slices) /\ toServer' \in Seq(Packets)
      /\ c = toServer[1]
  BY <1>0, FirstPacket DEF DebugInv
<1>3. ThreadsTyped' /\ runtimes' = runtimes
  BY <1>0 DEF DebugInv, ThreadsTyped, Debug!guestVars
<1>4. Memory'
  <2>1. CASE UNCHANGED Debug!memoryVars
    BY <1>3, <2>1, MemoryStays DEF DebugInv, Memory
  <2>2. CASE thread # Debug!None /\ c.op \in {"write", "insert", "remove"}
    <3>1. thread \in allocated BY <2>2, ResolvedThread DEF DebugInv
    <3>2. thread[1] \in runtimes /\ runtimes \subseteq Debuggees /\ Memory
      BY <3>1 DEF DebugInv, ThreadsTyped, Memory
    <3>3. c.site \in Sites /\ (c.op = "write" => c.version \in Version)
      BY <1>2, <2>2, PacketOf
    <3> HIDE DEF c, thread
    <3> QED BY <1>1, <1>3, <2>1, <3>2, <3>3, StoredKeeps, InsertKeeps, RemoveKeeps
  <2> QED BY <1>1, <2>1, <2>2
<1>5. WireExact' BY <1>0, <1>1, <1>2, ReplyKeepsWire DEF DebugInv
<1>6. StepsAlone' BY <1>0, StepsStay DEF DebugInv, Debug!guestVars
<1>7. Debug!StopsNameThreads'
  BY <1>0 DEF DebugInv, Debug!StopsNameThreads, Debug!guestVars
<1> QED BY <1>2, <1>3, <1>4, <1>5, <1>6, <1>7 DEF DebugInv, Memory

LEMMA CrossedKeeps == ASSUME DebugInv, Debug!InterruptWhileServing PROVE DebugInv'
<1>0. /\ toServer # << >> /\ toServer' = Tail(toServer) /\ crossed' = TRUE
      /\ UNCHANGED <<session, stopped, request,
                     Debug!guestVars, batch, Debug!memoryVars, executed, vanished, interrupted>>
  BY DEF Debug!InterruptWhileServing, Debug!Received, Debug!protocolVars
<1>1. batch' \in Seq(Slices) /\ toServer' \in Seq(Packets)
  BY <1>0, FirstPacket DEF DebugInv
<1>2. ThreadsTyped' /\ Memory' BY <1>0, GuestsStay DEF DebugInv, Memory
<1>3. WireExact' BY <1>0 DEF WireExact
<1>4. StepsAlone' BY <1>0, StepsStay DEF DebugInv, Debug!guestVars
<1>5. Debug!StopsNameThreads'
  BY <1>0 DEF DebugInv, Debug!StopsNameThreads, Debug!guestVars
<1> QED BY <1>1, <1>2, <1>3, <1>4, <1>5 DEF DebugInv, Memory

LEMMA ResumeKeeps == ASSUME DebugInv, Debug!Resume PROVE DebugInv'
<1> DEFINE c == Head(toServer)
<1>0. /\ session = "serving" /\ toServer # << >> /\ c.op \in {"step", "continue"}
      /\ request' = [kind |-> c.op, thread |-> Debug!Target(c)]
      /\ session' = "running" /\ toServer' = Tail(toServer) /\ executed' = FALSE
      /\ UNCHANGED <<toDebugger, expecting, crossed, confused, stopped,
                     Debug!guestVars, batch, Debug!memoryVars, vanished, interrupted>>
  BY DEF Debug!Resume, Debug!Received, Debug!protocolVars
<1>1. /\ c = toServer[1] /\ batch' \in Seq(Slices) /\ toServer' \in Seq(Packets)
      /\ toServer \in Seq(Packets)
  BY <1>0, FirstPacket DEF DebugInv
<1>2. ThreadsTyped' /\ Memory' BY <1>0, GuestsStay DEF DebugInv, Memory
<1>3. WireExact'
  <2> SUFFICES ASSUME ~crossed' PROVE WireExact' BY DEF WireExact
  <2>1. /\ ~confused /\ expecting = "stop" /\ toDebugger = << >>
        /\ Len(toServer) = 1 \/ (Len(toServer) = 2 /\ toServer[2] = Interrupt)
    BY <1>0, <1>1 DEF DebugInv, WireExact, Quiet, Only, Interrupt
  <2>2. Quiet(toServer') BY <2>1, <1>0, <1>1 DEF Quiet
  <2> QED BY <2>1, <2>2, <1>0 DEF WireExact
<1>4. request'.kind = "step" => request'.thread # Debug!None \/ allocated = {}
  BY <1>0, ResolvedThread DEF DebugInv, Debug!Target
<1>5. StepsAlone'
  BY <1>0, <1>4 DEF DebugInv, StepsAlone, Debug!guestVars, Debug!None
<1>6. Debug!StopsNameThreads' BY <1>0 DEF Debug!StopsNameThreads
<1> QED BY <1>1, <1>2, <1>3, <1>5, <1>6 DEF DebugInv, Memory

LEMMA DetachKeeps == ASSUME DebugInv, Debug!Detach PROVE DebugInv'
<1>0. /\ session = "serving" /\ toServer # << >> /\ Head(toServer).op = "detach"
      /\ Debug!remove_all_breakpoints /\ session' = "detached"
      /\ request' = Debug!NoRequest
      /\ toServer' = Tail(toServer) /\ toDebugger' = Append(toDebugger, "reply")
      /\ UNCHANGED <<expecting, crossed, confused, Debug!guestVars, batch>>
  BY DEF Debug!Detach, Debug!Received, Debug!Answered
<1>1. /\ Head(toServer) = toServer[1] /\ batch' \in Seq(Slices)
      /\ toServer' \in Seq(Packets) /\ toServer \in Seq(Packets)
  BY <1>0, FirstPacket DEF DebugInv
<1>2. ThreadsTyped' /\ runtimes' = runtimes
  BY <1>0 DEF DebugInv, ThreadsTyped, Debug!guestVars
<1>3. Memory' BY <1>0, <1>2, RemoveAllKeeps DEF DebugInv, Memory, ThreadsTyped
<1>4. WireExact' BY <1>0, <1>1, ReplyKeepsWire DEF DebugInv
<1>5. StepsAlone' BY <1>0 DEF DebugInv, StepsAlone, Debug!NoRequest
<1>6. Debug!StopsNameThreads' BY <1>0 DEF Debug!StopsNameThreads
<1> QED BY <1>1, <1>2, <1>3, <1>4, <1>5, <1>6 DEF DebugInv, Memory

LEMMA KillKeeps == ASSUME DebugInv, Debug!Kill PROVE DebugInv'
<1>0. /\ session = "serving" /\ toServer # << >> /\ Head(toServer).op = "kill"
      /\ session' = "killed" /\ toServer' = Tail(toServer)
      /\ UNCHANGED <<toDebugger, expecting, crossed, confused, stopped, request,
                     Debug!guestVars, batch, Debug!memoryVars, executed, vanished, interrupted>>
  BY DEF Debug!Kill, Debug!Received, Debug!protocolVars
<1>1. /\ Head(toServer) = toServer[1] /\ batch' \in Seq(Slices)
      /\ toServer' \in Seq(Packets) /\ toServer \in Seq(Packets)
  BY <1>0, FirstPacket DEF DebugInv
<1>2. ThreadsTyped' /\ Memory' BY <1>0, GuestsStay DEF DebugInv, Memory
<1>3. WireExact'
  <2> SUFFICES ASSUME ~crossed' PROVE WireExact' BY DEF WireExact
  <2>1. ~confused /\ expecting = "nothing" /\ toDebugger = << >> /\ Len(toServer) = 1
    BY <1>0, <1>1 DEF DebugInv, WireExact, Quiet, Only, Interrupt
  <2>2. Len(toServer') = 0 BY <2>1, <1>0, <1>1
  <2> QED BY <2>1, <2>2, <1>0 DEF WireExact, Quiet
<1>4. StepsAlone' BY <1>0, StepsStay DEF DebugInv, Debug!guestVars
<1>5. Debug!StopsNameThreads' BY <1>0 DEF Debug!StopsNameThreads
<1> QED BY <1>1, <1>2, <1>3, <1>4, <1>5 DEF DebugInv, Memory

LEMMA WireStays ==
    ASSUME WireExact, UNCHANGED <<session, Debug!wireVars>> PROVE WireExact'
BY DEF WireExact, Debug!wireVars, Quiet, Only, Interrupt

\* A stop is announced while the guest runs.
LEMMA StopKeepsWire ==
    ASSUME toServer \in Seq(Packets), WireExact, session = "running", session' = "serving",
           toServer' = toServer \/ (toServer # << >> /\ toServer' = Tail(toServer)),
           toDebugger' = Append(toDebugger, "stop"), UNCHANGED <<expecting, crossed, confused>>
    PROVE  WireExact'
<1> SUFFICES ASSUME ~crossed' PROVE WireExact' BY DEF WireExact
<1>1. ~confused /\ expecting = "stop" /\ toDebugger = << >> /\ Quiet(toServer)
  BY DEF WireExact
<1>2. Quiet(toServer') BY <1>1 DEF Quiet
<1>3. toDebugger' = <<"stop">> BY <1>1
<1> QED BY <1>1, <1>2, <1>3 DEF WireExact

LEMMA SameCardinality == ASSUME NEW b PROVE Debug!Cardinality(b) = Cardinality(b)
BY DEF Cardinality, Debug!Cardinality

LEMMA ExecuteKeeps == ASSUME DebugInv, Debug!Execute PROVE DebugInv'
<1>0. /\ session # "serving"
      /\ executed' = TRUE
      /\ UNCHANGED <<session, Debug!wireVars, request, Debug!guestVars, Debug!memoryVars,
                     vanished>>
  BY DEF Debug!Execute, Debug!InLoop
<1>1. PICK b \in Debug!Batches :
          \E hits \in SUBSET {t \in b : Debug!TrapsOf(t[1]) # {}} :
          \E order \in Debug!Orders(b) :
             batch' = [i \in DOMAIN order |->
                          [thread |-> order[i], hit |-> order[i] \in hits,
                           step |-> request.kind = "step", alone |-> Debug!Cardinality(b) = 1]]
  BY DEF Debug!Execute
<1>a. PICK hits \in SUBSET {t \in b : Debug!TrapsOf(t[1]) # {}} :
          \E order \in Debug!Orders(b) :
             batch' = [i \in DOMAIN order |->
                          [thread |-> order[i], hit |-> order[i] \in hits,
                           step |-> request.kind = "step", alone |-> Debug!Cardinality(b) = 1]]
  BY <1>1
<1>c. PICK order \in Debug!Orders(b) :
             batch' = [i \in DOMAIN order |->
                          [thread |-> order[i], hit |-> order[i] \in hits,
                           step |-> request.kind = "step", alone |-> Debug!Cardinality(b) = 1]]
  BY <1>a
<1> DEFINE n == Debug!Cardinality(b)
<1>b. n = Cardinality(b) BY SameCardinality
<1>2. /\ b \subseteq DOMAIN queued /\ b \subseteq Debug!GdbThreads /\ n \in Nat \ {0}
      /\ request.kind = "step" => n = 1
  <2>1. DOMAIN queued \subseteq allocated /\ allocated \subseteq Debug!GdbThreads
    BY DEF DebugInv, ThreadsTyped
  <2>2. CASE request.thread # Debug!None
    <3>1. b = {request.thread} /\ b \subseteq DOMAIN queued
      BY <2>2 DEF Debug!Batches, Debug!Runnable
    <3>2. n = 1 BY <3>1, <1>b, FS_Singleton
    <3> QED BY <2>1, <3>1, <3>2
  <2>3. CASE request.thread = Debug!None
    <3>1. b \subseteq DOMAIN queued /\ n \in 1 .. GuestProcessors
      BY <2>3 DEF Debug!Batches, Debug!Runnable
    <3>2. n \in Nat \ {0} BY <3>1, DebugSizes
    <3>3. b # {} BY <3>2, <1>b, FS_EmptySet
    <3>4. request.kind # "step" BY <2>1, <2>3, <3>1, <3>3 DEF DebugInv, StepsAlone
    <3> QED BY <2>1, <3>1, <3>2, <3>4
  <2> QED BY <2>2, <2>3
<1>3. order \in [1 .. n -> b] BY DEF Debug!Orders
<1> HIDE DEF n
<1>4. /\ batch' \in Seq(Slices) /\ DOMAIN batch' = 1 .. n /\ Len(batch') = n
      /\ \A i \in 1 .. n : /\ batch'[i].thread = order[i]
                           /\ batch'[i].step <=> request.kind = "step"
                           /\ batch'[i].alone <=> n = 1
  <2>1. batch' = [i \in 1 .. n |->
                     [thread |-> order[i], hit |-> order[i] \in hits,
                      step |-> request.kind = "step", alone |-> n = 1]]
    BY <1>c, <1>3 DEF n
  <2>2. \A i \in 1 .. n : [thread |-> order[i], hit |-> order[i] \in hits,
                           step |-> request.kind = "step", alone |-> n = 1] \in Slices
    BY <1>2, <1>3 DEF Slices
  <2>3. batch' \in [1 .. n -> Slices] BY <2>1, <2>2
  <2>4. batch' \in Seq(Slices) /\ Len(batch') = n BY <1>2, <2>3
  <2> QED BY <2>1, <2>3, <2>4
<1>5. StepsAlone'
  <2>1. order[1] \in DOMAIN queued BY <1>2, <1>3
  <2>2. queued' = queued /\ allocated' = allocated /\ request' = request
    BY <1>0 DEF Debug!guestVars
  <2>3. n = 1 => Len(batch') = 1 /\ batch'[1].thread \in DOMAIN queued'
                 /\ (batch'[1].step <=> request.kind = "step")
    BY <1>4, <2>1, <2>2
  <2>4. \A i \in DOMAIN batch' : batch'[i].step => batch'[i].alone BY <1>2, <1>4
  <2> QED BY <1>2, <2>2, <2>3, <2>4 DEF DebugInv, StepsAlone, Debug!None
<1>6. ThreadsTyped' /\ Memory' /\ WireExact'
  BY <1>0, GuestsStay, WireStays DEF DebugInv, Memory
<1>7. Debug!StopsNameThreads' BY <1>0 DEF Debug!StopsNameThreads
<1>8. toServer' \in Seq(Packets) BY <1>0 DEF DebugInv, Debug!wireVars
<1> QED BY <1>4, <1>5, <1>6, <1>7, <1>8 DEF DebugInv, Memory

LEMMA SkipKeeps == ASSUME DebugInv, Debug!SkipSlice PROVE DebugInv'
<1>0. /\ session # "serving" /\ batch # << >> /\ Head(batch).thread \notin DOMAIN queued
      /\ batch' = Tail(batch)
      /\ UNCHANGED <<session, Debug!wireVars, request, Debug!guestVars, Debug!memoryVars,
                     executed, vanished>>
  BY DEF Debug!SkipSlice, Debug!InLoop
<1>1. ThreadsTyped' /\ Memory' /\ WireExact'
  BY <1>0, GuestsStay, WireStays DEF DebugInv, Memory
<1>2. batch' \in Seq(Slices) /\ toServer' \in Seq(Packets)
  BY <1>0, FirstSlice DEF DebugInv, Debug!wireVars
<1>3. StepsAlone'
  <2>1. \A i \in DOMAIN batch' : batch'[i].step => batch'[i].alone
    BY <1>0, FirstSlice DEF DebugInv, StepsAlone
  <2>2. ~(session = "running" /\ request.kind = "step" /\ executed)
    BY <1>0, FirstSlice DEF DebugInv, StepsAlone
  <2> QED BY <1>0, <2>1, <2>2 DEF DebugInv, StepsAlone, Debug!guestVars, Debug!None
<1>4. Debug!StopsNameThreads' BY <1>0 DEF Debug!StopsNameThreads
<1> QED BY <1>1, <1>2, <1>3, <1>4 DEF DebugInv, Memory

LEMMA CompleteKeeps == ASSUME DebugInv, Debug!CompleteSlice PROVE DebugInv'
<1> DEFINE slice == Head(batch)  t == slice.thread
<1>0. /\ session # "serving" /\ batch # << >> /\ t \in DOMAIN queued
      /\ batch' = Tail(batch)
      /\ UNCHANGED <<expecting, crossed, confused, request, executed, vanished>>
  BY DEF Debug!CompleteSlice, Debug!InLoop
<1>1. PICK polled \in Debug!Polled, faulted \in {session = "running", FALSE} :
          /\ IF slice.hit \/ faulted THEN ~(slice.hit /\ faulted) /\ Debug!Continues
             ELSE Debug!Effects(t) /\ ~(slice.alone /\ t \notin allocated')
          /\ toServer' = IF polled THEN Tail(toServer) ELSE toServer
          /\ IF session = "running" /\ (slice.hit \/ slice.step \/ faulted \/ polled)
             THEN Debug!Announce(t) /\ current' = t /\ interrupted' = polled
             ELSE UNCHANGED <<session, Debug!protocolVars, toDebugger, current, interrupted>>
  BY DEF Debug!CompleteSlice
<1>2. polled => toServer # << >> /\ session = "running" BY DEF Debug!Polled
<1> DEFINE stops == session = "running" /\ (slice.hit \/ slice.step \/ faulted \/ polled)
<1>3. /\ stops => /\ session' = "serving" /\ stopped' = t /\ (interrupted' <=> polled)
                  /\ toDebugger' = Append(toDebugger, "stop")
      /\ ~stops => session' = session /\ toDebugger' = toDebugger /\ ~polled
  BY <1>1, <1>2 DEF Debug!Announce, Debug!Answered
<1>4. Debug!Effects(t) BY <1>1 DEF Debug!Effects
<1>5. slice.step => t \in allocated'
  <2>1. slice.step => slice.alone BY <1>0, FirstSlice DEF DebugInv, StepsAlone
  <2>2. Debug!Continues => t \in allocated'
    BY <1>0 DEF DebugInv, ThreadsTyped, Debug!Continues, Debug!guestVars
  <2> QED BY <2>1, <2>2, <1>1
<1>6. slice.hit \/ faulted => t \in allocated'
  BY <1>0, <1>1 DEF DebugInv, ThreadsTyped, Debug!Continues, Debug!guestVars
<1>7. /\ slice = batch[1] /\ batch' \in Seq(Slices) /\ Len(batch') = Len(batch) - 1
      /\ \A i \in DOMAIN batch' : batch'[i].step => batch'[i].alone
  BY <1>0, FirstSlice DEF DebugInv, StepsAlone
<1>8. toServer' = toServer \/ (toServer # << >> /\ toServer' = Tail(toServer))
  BY <1>1, <1>2
<1>9. toServer' \in Seq(Packets) BY <1>8, FirstPacket DEF DebugInv
<1>10. ThreadsTyped' /\ Memory' BY <1>0, <1>4, EffectsKeep DEF DebugInv, Memory
<1>11. WireExact'
  <2>1. CASE stops BY <2>1, <1>0, <1>3, <1>8, StopKeepsWire DEF DebugInv
  <2>2. CASE ~stops
    <3>1. toServer' = toServer BY <2>2, <1>1, <1>3
    <3> QED BY <2>2, <3>1, <1>0, <1>3, WireStays DEF DebugInv, Debug!wireVars
  <2> QED BY <2>1, <2>2
<1>12. StepsAlone'
  <2>1. request.kind = "step" => request.thread # Debug!None
    BY <1>0 DEF DebugInv, StepsAlone, ThreadsTyped
  <2>2. ~(session' = "running" /\ request.kind = "step" /\ executed)
    <3> SUFFICES ASSUME session' = "running", request.kind = "step", executed PROVE FALSE
      OBVIOUS
    <3>1. ~stops /\ session = "running" BY <1>3
    <3>2. slice.step BY <3>1, <1>0, <1>7 DEF DebugInv, StepsAlone
    <3> QED BY <3>1, <3>2
  <2> QED BY <1>0, <1>7, <2>1, <2>2 DEF StepsAlone, Debug!None
<1>13. Debug!StopsNameThreads'
  BY <1>0, <1>3, <1>5, <1>6 DEF Debug!StopsNameThreads
<1> QED BY <1>7, <1>9, <1>10, <1>11, <1>12, <1>13 DEF DebugInv, Memory

LEMMA EndsKeeps == ASSUME DebugInv, Debug!EndsItself PROVE DebugInv'
<1>0. /\ session # "serving" /\ batch # << >> /\ Head(batch).thread \in DOMAIN queued
      /\ Debug!Terminates(Head(batch).thread)
      /\ batch' = Tail(batch) /\ vanished' = (vanished \/ Head(batch).step)
      /\ UNCHANGED <<session, Debug!wireVars, request, executed>>
  BY DEF Debug!EndsItself, Debug!InLoop
<1>1. ThreadsTyped'
  BY <1>0, ForgottenOf DEF DebugInv, Debug!Terminates, ThreadsTyped
<1>2. Memory' BY <1>0, MemoryStays DEF DebugInv, Memory, Debug!Terminates
<1>3. WireExact' /\ toServer' \in Seq(Packets)
  BY <1>0, WireStays DEF DebugInv, Debug!wireVars
<1>4. /\ Head(batch) = batch[1] /\ batch' \in Seq(Slices) /\ Len(batch') = Len(batch) - 1
      /\ \A i \in DOMAIN batch' : batch'[i].step => batch'[i].alone
  BY <1>0, FirstSlice DEF DebugInv, StepsAlone
<1>5. StepsAlone'
  <2>1. request.kind = "step" => request.thread # Debug!None
    BY <1>0 DEF DebugInv, StepsAlone, ThreadsTyped
  <2>2. session = "running" /\ request.kind = "step" /\ executed => batch' = << >> /\ vanished'
    <3>1. session = "running" /\ request.kind = "step" /\ executed =>
             Len(batch) = 1 /\ batch[1].step
      BY <1>0 DEF DebugInv, StepsAlone
    <3>2. batch[1].step => vanished' BY <1>0, <1>4, Zenon
    <3>3. Len(batch) = 1 => batch' = << >> BY <1>4
    <3> QED BY <3>1, <3>2, <3>3
  <2> QED BY <1>0, <1>4, <2>1, <2>2 DEF StepsAlone, Debug!None
<1>6. Debug!StopsNameThreads' BY <1>0 DEF Debug!StopsNameThreads
<1> QED BY <1>1, <1>2, <1>3, <1>4, <1>5, <1>6 DEF DebugInv, Memory

LEMMA IdleKeeps == ASSUME DebugInv, Debug!InterruptWhileIdle PROVE DebugInv'
<1>0. /\ session = "running" /\ toServer # << >> /\ session' = "serving"
      /\ toDebugger' = Append(toDebugger, "stop") /\ interrupted' = TRUE
      /\ toServer' = Tail(toServer)
      /\ UNCHANGED <<expecting, crossed, confused, request, Debug!guestVars, batch,
                     Debug!memoryVars, executed, vanished>>
  BY DEF Debug!InterruptWhileIdle, Debug!Announce, Debug!Answered, Debug!Received
<1>1. ThreadsTyped' /\ Memory' BY <1>0, GuestsStay DEF DebugInv, Memory
<1>2. batch' \in Seq(Slices) /\ toServer' \in Seq(Packets)
  BY <1>0, FirstPacket DEF DebugInv
<1>3. WireExact' BY <1>0, StopKeepsWire DEF DebugInv
<1>4. StepsAlone' BY <1>0, StepsStay DEF DebugInv, Debug!guestVars
<1>5. Debug!StopsNameThreads' BY <1>0 DEF Debug!StopsNameThreads
<1> QED BY <1>1, <1>2, <1>3, <1>4, <1>5 DEF DebugInv, Memory

LEMMA WakeKeeps ==
    ASSUME DebugInv, NEW t \in Debug!GdbThreads, Debug!Wakes(t) PROVE DebugInv'
<1>0. /\ session # "serving" /\ batch = << >> /\ t \in DOMAIN queued
      /\ queued' = [queued EXCEPT ![t] = TRUE]
      /\ UNCHANGED <<session, Debug!wireVars, request, runtimes, allocated, batch,
                     Debug!memoryVars, executed, vanished>>
  BY DEF Debug!Wakes, Debug!InLoop
<1>1. ThreadsTyped' BY <1>0 DEF DebugInv, ThreadsTyped, Table
<1>2. Memory' BY <1>0, MemoryStays DEF DebugInv, Memory
<1>3. WireExact' /\ batch' \in Seq(Slices) /\ toServer' \in Seq(Packets)
  BY <1>0, WireStays DEF DebugInv, Debug!wireVars
<1>4. StepsAlone'
  <2>1. Len(batch) = 0 BY <1>0
  <2> QED BY <1>0, <2>1 DEF DebugInv, StepsAlone, Debug!None
<1>5. Debug!StopsNameThreads' BY <1>0 DEF Debug!StopsNameThreads
<1> QED BY <1>1, <1>2, <1>3, <1>4, <1>5 DEF DebugInv, Memory

LEMMA RetireKeeps ==
    ASSUME DebugInv, NEW p \in Debuggees, Debug!Retires(p) PROVE DebugInv'
<1>0. /\ session # "serving" /\ batch = << >>
      /\ Debug!ThreadsOf(p) \cap DOMAIN queued = {}
      /\ runtimes' = runtimes \ {p} /\ allocated' = allocated \ Debug!ThreadsOf(p)
      /\ UNCHANGED <<session, Debug!wireVars, request, queued, batch,
                     Debug!memoryVars, executed, vanished>>
  BY DEF Debug!Retires, Debug!InLoop
<1>1. ThreadsTyped'
  <2>1. \A t \in Debug!GdbThreads : t \notin Debug!ThreadsOf(p) => t[1] # p
    BY DEF Debug!GdbThreads, Debug!ThreadsOf
  <2> QED BY <1>0, <2>1 DEF DebugInv, ThreadsTyped
<1>2. Memory' BY <1>0, MemoryStays DEF DebugInv, Memory
<1>3. WireExact' /\ batch' \in Seq(Slices) /\ toServer' \in Seq(Packets)
  BY <1>0, WireStays DEF DebugInv, Debug!wireVars
<1>4. StepsAlone'
  <2>1. Len(batch) = 0 BY <1>0
  <2> QED BY <1>0, <2>1 DEF DebugInv, StepsAlone, Debug!None
<1>5. Debug!StopsNameThreads' BY <1>0 DEF Debug!StopsNameThreads
<1> QED BY <1>1, <1>2, <1>3, <1>4, <1>5 DEF DebugInv, Memory

LEMMA DebugBegins == ASSUME Debug!Init PROVE DebugInv
<1>0. /\ session = "serving" /\ toServer = << >> /\ toDebugger = << >>
      /\ expecting = "nothing" /\ stopped = <<1, 1>> /\ request = Debug!NoRequest
      /\ runtimes = {1} /\ allocated = {<<1, 1>>}
      /\ queued = Debug!Put(<< >>, <<1, 1>>, TRUE) /\ batch = << >>
      /\ code = [p \in Debuggees |-> IF p = 1 THEN Debug!Fresh ELSE << >>]
      /\ breakpoints = << >> /\ unpatched = code /\ ~crossed /\ ~confused /\ ~executed
  BY DEF Debug!Init
<1>1. batch \in Seq(Slices) /\ toServer \in Seq(Packets) /\ DOMAIN batch = {} BY <1>0
<1>2. ThreadsTyped
  <2> DEFINE t == <<1, 1>>
  <2>1. t \in Debug!GdbThreads /\ t[1] = 1 BY DebugSizes DEF Debug!GdbThreads
  <2>2. queued = Debug!Put(<< >>, t, TRUE) /\ allocated = {t} BY <1>0
  <2> HIDE DEF t
  <2>3. DOMAIN queued = {t} /\ Table(queued, DOMAIN queued)
    BY <2>2, NoBreakpoints, PutIn
  <2> QED BY <1>0, <2>1, <2>2, <2>3, DebugSizes DEF ThreadsTyped
<1>3. Version = 0 .. MaxVersion /\ MaxVersion \in Nat \ {0} /\ Debug!Trap = MaxVersion + 1
  BY DebugSizes DEF Version, Debug!Trap
<1>4. /\ Debug!Fresh \in [Sites -> 0 .. MaxVersion + 1] /\ Debug!Fresh \in [Sites -> Version]
      /\ \A s \in Sites : Debug!Fresh[s] = 0 /\ Debug!Fresh[s] # Debug!Trap
  BY <1>3 DEF Debug!Fresh
<1>5. code[1] = Debug!Fresh /\ Table(code, Debuggees) BY <1>0, DebugSizes DEF Table
<1>6. MemoryTyped BY <1>0, <1>4, <1>5, NoBreakpoints DEF MemoryTyped
<1>7. Debug!BreakpointsReversible
  BY <1>0, <1>4, <1>5, NoBreakpoints DEF Debug!BreakpointsReversible
<1>8. WireExact BY <1>0 DEF WireExact, Quiet
<1>9. StepsAlone BY <1>0, <1>1 DEF StepsAlone, Debug!NoRequest
<1>10. Debug!StopsNameThreads BY <1>0 DEF Debug!StopsNameThreads
<1> QED BY <1>1, <1>2, <1>6, <1>7, <1>8, <1>9, <1>10 DEF DebugInv

LEMMA DebugSteps == ASSUME DebugInv, Debug!Next PROVE DebugInv'
BY SendKeeps, InterruptKeeps, ReceiveKeeps, HandleKeeps, CrossedKeeps, ResumeKeeps,
   DetachKeeps, KillKeeps, ExecuteKeeps, SkipKeeps, CompleteKeeps, EndsKeeps, IdleKeeps,
   WakeKeeps, RetireKeeps
   DEF Debug!Next

LEMMA DebugStays == ASSUME DebugInv, UNCHANGED debugVars PROVE DebugInv'
<1>1. UNCHANGED <<session, toServer, stopped, interrupted, Debug!guestVars, Debug!memoryVars,
                  Debug!wireVars, batch, request, executed, vanished>>
  BY DEF debugVars, Debug!guestVars, Debug!memoryVars, Debug!wireVars
<1>2. ThreadsTyped' /\ Memory' /\ WireExact'
  BY <1>1, GuestsStay, WireStays DEF DebugInv, Memory
<1>3. StepsAlone' BY <1>1, StepsStay DEF DebugInv, Debug!guestVars
<1>4. Debug!StopsNameThreads'
  BY <1>1 DEF DebugInv, Debug!StopsNameThreads, Debug!guestVars
<1> QED BY <1>1, <1>2, <1>3, <1>4 DEF DebugInv, Memory

LEMMA DebugHolds == ASSUME DebugInv PROVE /\ Debug!BreakpointsReversible
                                          /\ Debug!RepliesMatchCommands
                                          /\ Debug!StepsReported /\ Debug!StopsNameThreads
<1>1. Debug!RepliesMatchCommands BY DEF DebugInv, WireExact, Debug!RepliesMatchCommands
<1>2. Debug!StepsReported
  <2>1. batch = << >> => Len(batch) = 0 OBVIOUS
  <2> QED BY <2>1 DEF DebugInv, StepsAlone, Debug!StepsReported
<1> QED BY <1>1, <1>2 DEF DebugInv

DebuggerKept == mix = "debug" => DebugInv

\* Breakpoints come out as they went in, across forks, execs and detaching; the
\* debugger takes no answer for another; every step is reported; and a stop names a
\* thread that is there (gdb_rsp.cpp, main.cpp).
THEOREM DebuggersAreServed == Spec => []DebuggerExact
<1>1. Init => DebuggerKept BY DebugBegins DEF Init, DebuggerKept
<1>2. DebuggerKept /\ [Next]_vars => DebuggerKept'
  <2> SUFFICES ASSUME DebuggerKept, [Next]_vars, mix' = "debug" PROVE DebugInv'
    BY DEF DebuggerKept
  <2>1. CASE Next
    <3>1. mix = "debug" BY <2>1 DEF Next
    <3>2. Debug!Next BY <2>1, <3>1 DEF Next
    <3> QED BY <3>1, <3>2, DebugSteps DEF DebuggerKept
  <2>2. CASE UNCHANGED vars
    <3>1. mix = "debug" /\ UNCHANGED debugVars BY <2>2 DEF vars
    <3> QED BY <3>1, DebugStays DEF DebuggerKept
  <2> QED BY <2>1, <2>2
<1>3. DebuggerKept => DebuggerExact BY DebugHolds DEF DebuggerKept, DebuggerExact
<1> QED BY <1>1, <1>2, <1>3, PTL DEF Spec

-----------------------------------------------------------------------------
(***************************************************************************)
(* The threads of audio callbacks.                                         *)
(***************************************************************************)
IsProc(r) ==
    r \in [device : {r.device}, callback : {r.callback}, slot : ThreadSlots \cup {0},
           running : BOOLEAN, inFlight : BOOLEAN, due : {r.due}]
IsThread(t) == t \in [state : {"running", "parked"}, of : Nat]

\* A procedure and its thread name each other, but for legacy procedures that
\* were added over another; a thread runs exactly while its procedure waits for it.
ProcTyped(k) ==
    /\ k \in Nat /\ k < nextProc /\ IsProc(procs[k])
    /\ procs[k].slot # 0 =>
          /\ slot[procs[k].slot] # Sound!Free /\ slot[procs[k].slot].of = k
          /\ procs[k].inFlight => procs[k].running
          /\ k \notin misused /\ slot[procs[k].slot].state = "running" => procs[k].inFlight
    /\ k \notin misused /\ procs[k].running /\ procs[k].inFlight =>
          procs[k].slot # 0 /\ slot[procs[k].slot].state = "running"
ThreadTyped(s) ==
    slot[s] # Sound!Free =>
       /\ IsThread(slot[s])
       /\ \/ slot[s].of \in DOMAIN procs /\ procs[slot[s].of].slot = s
          \/ slot[s].of = 0 /\ 0 \in misused

CallbacksInv ==
    /\ nextProc \in Nat \ {0} /\ Table(procs, DOMAIN procs) /\ Table(slot, ThreadSlots)
    /\ \A k \in DOMAIN procs : ProcTyped(k)
    /\ \A s \in ThreadSlots : ThreadTyped(s)
    /\ rewritten \subseteq misused

LEMMA AudioSizes == ThreadSlots \subseteq Nat \ {0}
BY DevicesAssumption DEF Sound!AudioCallbacksAssumption

LEMMA NotFree ==
    ASSUME NEW t, t.state \in {"running", "parked"} PROVE t # Sound!Free
BY DEF Sound!Free

\* Something happens to the procedure k and to the threads T, which are its own.
Changes(k, T) ==
    /\ nextProc' \in Nat \ {0} /\ nextProc' >= nextProc
    /\ Table(procs, DOMAIN procs)' /\ Table(slot, ThreadSlots)'
    /\ DOMAIN procs' \ {k} = DOMAIN procs \ {k}
    /\ \A j \in DOMAIN procs \ {k} : procs'[j] = procs[j] /\ procs[j].slot \notin T
    /\ \A s \in ThreadSlots \ T : slot'[s] = slot[s]
    /\ misused \subseteq misused' /\ rewritten' \subseteq misused'
    /\ k \in DOMAIN procs' => ProcTyped(k)'
    /\ \A s \in T \cap ThreadSlots : ThreadTyped(s)'
    /\ \A s \in ThreadSlots \ T : slot[s] # Sound!Free /\ slot[s].of = k =>
          (k \in DOMAIN procs' /\ procs'[k].slot = s) \/ (k = 0 /\ 0 \in misused')

LEMMA ProcedureChanges ==
    ASSUME CallbacksInv, NEW k, NEW T, Changes(k, T) PROVE CallbacksInv'
<1>0. /\ \A j \in DOMAIN procs \ {k} : procs'[j] = procs[j] /\ procs[j].slot \notin T
      /\ DOMAIN procs' \ {k} = DOMAIN procs \ {k}
      /\ nextProc' \in Nat \ {0} /\ nextProc' >= nextProc
      /\ misused \subseteq misused' /\ \A s \in ThreadSlots \ T : slot'[s] = slot[s]
  BY DEF Changes
<1>1. ASSUME NEW j \in DOMAIN procs', j # k PROVE ProcTyped(j)'
  <2>1. /\ j \in DOMAIN procs /\ procs'[j] = procs[j] /\ procs[j].slot \notin T
        /\ ProcTyped(j) /\ nextProc \in Nat
    BY <1>0, <1>1 DEF CallbacksInv
  <2>2. procs[j].slot # 0 => procs[j].slot \in ThreadSlots \ T
    BY <2>1 DEF ProcTyped, IsProc
  <2>3. procs[j].slot # 0 => slot'[procs[j].slot] = slot[procs[j].slot] BY <1>0, <2>2
  <2>4. j \in Nat /\ j < nextProc' BY <1>0, <2>1 DEF ProcTyped
  <2>5. ProcTyped(j)' BY <1>0, <1>1, <2>1, <2>3, <2>4 DEF ProcTyped
  <2> QED BY <2>5
<1>2. ASSUME NEW s \in ThreadSlots PROVE ThreadTyped(s)'
  <2>1. CASE s \in T BY <2>1 DEF Changes
  <2>2. CASE s \notin T
    <3>1. slot'[s] = slot[s] /\ ThreadTyped(s) BY <1>0, <2>2 DEF CallbacksInv
    <3>2. CASE slot[s].of = k BY <2>2, <3>1, <3>2 DEF ThreadTyped, Changes
    <3>3. CASE slot[s].of # k
      <4>1. slot[s].of \in DOMAIN procs =>
               slot[s].of \in DOMAIN procs' /\ procs'[slot[s].of] = procs[slot[s].of]
        BY <1>0, <3>3
      <4> QED BY <1>0, <3>1, <4>1 DEF ThreadTyped
    <3> QED BY <3>2, <3>3
  <2> QED BY <2>1, <2>2
<1> QED BY <1>1, <1>2 DEF CallbacksInv, Changes

LEMMA CallbacksStay ==
    ASSUME CallbacksInv, UNCHANGED <<procs, slot, misused, rewritten>>,
           nextProc' \in Nat \ {0}, nextProc' >= nextProc
    PROVE  CallbacksInv'
<1>1. \A j \in DOMAIN procs : ProcTyped(j)'
  BY DEF CallbacksInv, ProcTyped
<1>2. \A s \in ThreadSlots : ThreadTyped(s)' BY DEF CallbacksInv, ThreadTyped
<1> QED BY <1>1, <1>2 DEF CallbacksInv, Table

\* A thread is one procedure's.
LEMMA OwnThread ==
    ASSUME CallbacksInv, NEW k \in DOMAIN procs, NEW j \in DOMAIN procs \ {k},
           procs[k].slot # 0
    PROVE  procs[j].slot # procs[k].slot
BY DEF CallbacksInv, ProcTyped

\* The procedure k as it was, and as it comes to be.
LEMMA ProcedureSet ==
    ASSUME CallbacksInv, NEW k \in DOMAIN procs, NEW r,
           procs' = [procs EXCEPT ![k] = r]
    PROVE  /\ DOMAIN procs' = DOMAIN procs /\ Table(procs, DOMAIN procs)'
           /\ procs'[k] = r /\ \A j \in DOMAIN procs \ {k} : procs'[j] = procs[j]
BY DEF CallbacksInv, Table

LEMMA ThreadSet ==
    ASSUME CallbacksInv, NEW s \in ThreadSlots, NEW t, slot' = [slot EXCEPT ![s] = t]
    PROVE  /\ Table(slot, ThreadSlots)'
           /\ slot'[s] = t /\ \A q \in ThreadSlots \ {s} : slot'[q] = slot[q]
BY DEF CallbacksInv, Table

LEMMA ThreadReaped ==
    ASSUME CallbacksInv, NEW k \in DOMAIN procs, slot' = Sound!Reaped(procs[k].slot)
    PROVE  /\ Table(slot, ThreadSlots)'
           /\ \A q \in ThreadSlots \ {procs[k].slot} : slot'[q] = slot[q]
           /\ procs[k].slot \in ThreadSlots => slot'[procs[k].slot] = Sound!Free
           /\ \A j \in DOMAIN procs \ {k} :
                 procs[j].slot \notin {procs[k].slot} \cap ThreadSlots
           /\ \A q \in ThreadSlots \ {procs[k].slot} :
                 slot[q] # Sound!Free /\ slot[q].of = k => k = 0 /\ 0 \in misused
           /\ \A q \in {procs[k].slot} \cap ThreadSlots : ThreadTyped(q)'
<1> DEFINE s == procs[k].slot
<1>1. s \in ThreadSlots \cup {0} /\ 0 \notin ThreadSlots
  BY AudioSizes DEF CallbacksInv, ProcTyped, IsProc
<1>2. /\ Table(slot, ThreadSlots)' /\ (s \in ThreadSlots => slot'[s] = Sound!Free)
      /\ \A q \in ThreadSlots \ {s} : slot'[q] = slot[q]
  <2> HIDE DEF s
  <2>0. slot' = Sound!Reaped(s) BY DEF s
  <2>1. CASE s = 0
    <3>1. slot' = slot BY <2>0, <2>1 DEF Sound!Reaped, Sound!NoSlot
    <3> QED BY <1>1, <2>1, <3>1 DEF CallbacksInv, Table
  <2>2. CASE s # 0
    <3>1. slot' = [slot EXCEPT ![s] = Sound!Free]
      BY <2>0, <2>2 DEF Sound!Reaped, Sound!NoSlot
    <3> QED BY <1>1, <2>2, <3>1, ThreadSet
  <2> QED BY <2>1, <2>2
<1>3. \A j \in DOMAIN procs \ {k} : procs[j].slot \notin {s} \cap ThreadSlots
  BY <1>1, OwnThread
<1>4. ASSUME NEW q \in ThreadSlots \ {s}, slot[q] # Sound!Free, slot[q].of = k
      PROVE  k = 0 /\ 0 \in misused
  BY <1>4 DEF CallbacksInv, ThreadTyped
<1>5. \A q \in {s} \cap ThreadSlots : ThreadTyped(q)' BY <1>2 DEF ThreadTyped
<1> QED BY <1>2, <1>3, <1>4, <1>5

\* A registration is not started, and its identifier is new or the legacy one.
LEMMA RegisterKeeps ==
    ASSUME CallbacksInv, NEW k \in Nat, NEW d, NEW f,
           procs' = Sound!Put(procs, k, Sound!Registered(d, f)), slot' = slot,
           nextProc' \in Nat \ {0}, nextProc' >= nextProc, k < nextProc',
           misused \subseteq misused', rewritten' = rewritten,
           k \in DOMAIN procs => k = 0 /\ 0 \in misused'
    PROVE  CallbacksInv'
<1>1. /\ DOMAIN procs' = DOMAIN procs \cup {k} /\ Table(procs, DOMAIN procs)'
      /\ procs'[k] = Sound!Registered(d, f)
      /\ \A j \in DOMAIN procs \ {k} : procs'[j] = procs[j]
  BY DEF Sound!Put, Table
<1>2. ProcTyped(k)'
  <2> DEFINE r == Sound!Registered(d, f)
  <2>1. r.slot = 0 /\ ~r.running /\ ~r.inFlight /\ IsProc(r)
    BY DEF IsProc, Sound!Registered, Sound!NoSlot
  <2>2. procs'[k] = r BY <1>1
  <2> HIDE DEF r
  <2> QED BY <2>1, <2>2 DEF ProcTyped
<1>3. ASSUME NEW s \in ThreadSlots, slot[s] # Sound!Free, slot[s].of = k
      PROVE  k = 0 /\ 0 \in misused'
  BY <1>3 DEF CallbacksInv, ThreadTyped
<1> DEFINE T == {}
<1>4. CallbacksInv'
  <2>1. rewritten' \subseteq misused' /\ Table(slot, ThreadSlots)'
    BY DEF CallbacksInv, Table
  <2>2. DOMAIN procs' \ {k} = DOMAIN procs \ {k} BY <1>1
  <2>3. Changes(k, T) BY <1>1, <1>2, <1>3, <2>1, <2>2 DEF Changes
  <2> HIDE DEF T
  <2> QED BY <2>3, ProcedureChanges
<1> QED BY <1>4

LEMMA AddKeeps ==
    ASSUME CallbacksInv, NEW d, NEW f, Sound!add_io_proc(d, f) PROVE CallbacksInv'
<1>0. nextProc \in Nat \ {0} BY DEF CallbacksInv
<1>1. CASE d = Sound!Synthetic
  <2>1. /\ procs' = Sound!Put(procs, 0, Sound!Registered(d, f))
        /\ misused' = misused \cup (DOMAIN procs \cap {0}) /\ nextProc' = nextProc
        /\ slot' = slot /\ rewritten' = rewritten
    BY <1>1 DEF Sound!add_io_proc, Sound!Legacy
  <2>2. 0 \in DOMAIN procs => 0 \in misused' BY <2>1
  <2> QED BY <1>0, <2>1, <2>2, RegisterKeeps
<1>2. CASE d # Sound!Synthetic
  <2>1. /\ procs' = Sound!Put(procs, nextProc, Sound!Registered(d, f))
        /\ nextProc' = nextProc + 1 /\ misused' = misused
        /\ slot' = slot /\ rewritten' = rewritten
    BY <1>2 DEF Sound!add_io_proc
  <2>2. nextProc \notin DOMAIN procs BY <1>0 DEF CallbacksInv, ProcTyped
  <2> QED BY <1>0, <2>1, <2>2, RegisterKeeps
<1> QED BY <1>1, <1>2

LEMMA CreateKeeps ==
    ASSUME CallbacksInv, NEW d, NEW f, NEW w, Sound!create_native_io_proc(d, f, w)
    PROVE  CallbacksInv'
<1>0. /\ nextProc \in Nat \ {0} /\ nextProc' = nextProc + 1
      /\ slot' = slot /\ rewritten' = rewritten /\ misused' = misused
      /\ procs' = IF w THEN Sound!Put(procs, nextProc, Sound!Registered(d, f)) ELSE procs
  BY DEF CallbacksInv, Sound!create_native_io_proc
<1>1. nextProc \notin DOMAIN procs BY <1>0 DEF CallbacksInv, ProcTyped
<1>2. CASE w BY <1>0, <1>1, <1>2, RegisterKeeps
<1>3. CASE ~w BY <1>0, <1>3, CallbacksStay
<1> QED BY <1>2, <1>3

LEMMA RemovedKeeps ==
    ASSUME CallbacksInv, NEW k \in DOMAIN procs, Sound!Removed(k) PROVE CallbacksInv'
<1>0. /\ slot' = Sound!Reaped(procs[k].slot) /\ procs' = Sound!Without(procs, k)
      /\ nextProc' = nextProc /\ misused' = misused /\ rewritten' = rewritten
      /\ nextProc \in Nat \ {0} /\ rewritten \subseteq misused
  BY DEF CallbacksInv, Sound!Removed
<1>1. /\ DOMAIN procs' = DOMAIN procs \ {k} /\ Table(procs, DOMAIN procs)'
      /\ \A j \in DOMAIN procs \ {k} : procs'[j] = procs[j]
  BY <1>0 DEF Sound!Without, Table
<1> DEFINE T == {procs[k].slot} \cap ThreadSlots
<1>2. \A q \in ThreadSlots \ T : q \in ThreadSlots \ {procs[k].slot} OBVIOUS
<1>3. /\ Table(slot, ThreadSlots)' /\ \A q \in ThreadSlots \ T : slot'[q] = slot[q]
      /\ \A j \in DOMAIN procs \ {k} : procs[j].slot \notin T
      /\ \A q \in ThreadSlots \ T :
            slot[q] # Sound!Free /\ slot[q].of = k => k = 0 /\ 0 \in misused
      /\ \A q \in T \cap ThreadSlots : ThreadTyped(q)'
  BY <1>0, <1>2, ThreadReaped
<1> HIDE DEF T
<1>4. Changes(k, T) BY <1>0, <1>1, <1>3 DEF Changes
<1> QED BY <1>4, ProcedureChanges

LEMMA StartKeeps ==
    ASSUME CallbacksInv, NEW k \in DOMAIN procs, Sound!start_io(k) PROVE CallbacksInv'
<1> DEFINE p == procs[k]
           r == [p EXCEPT !.running = TRUE, !.inFlight = FALSE, !.due = 0]
<1>0. /\ procs' = [procs EXCEPT ![k] = r] /\ nextProc' = nextProc /\ slot' = slot
      /\ misused' = IF p.running /\ p.inFlight THEN misused \cup {k} ELSE misused
      /\ rewritten' = rewritten /\ nextProc \in Nat \ {0} /\ rewritten \subseteq misused
  BY DEF Sound!start_io, CallbacksInv
<1>1. ProcTyped(k) BY DEF CallbacksInv
<1>2. /\ IsProc(r) /\ r.slot = p.slot /\ r.running /\ ~r.inFlight BY <1>1 DEF ProcTyped, IsProc
<1>3. /\ DOMAIN procs' = DOMAIN procs /\ Table(procs, DOMAIN procs)' /\ procs'[k] = r
      /\ \A j \in DOMAIN procs \ {k} : procs'[j] = procs[j]
  <2> HIDE DEF r
  <2> QED BY <1>0, ProcedureSet
<1>4. misused \subseteq misused' /\ (k \notin misused' => k \notin misused /\ ~(p.running /\ p.inFlight))
  BY <1>0
<1> HIDE DEF r, p
<1>5. ProcTyped(k)' BY <1>0, <1>1, <1>2, <1>3, <1>4 DEF ProcTyped, p
<1>6. \A s \in ThreadSlots : slot[s] # Sound!Free /\ slot[s].of = k =>
          procs'[k].slot = s \/ (k = 0 /\ 0 \in misused')
  BY <1>2, <1>3, <1>4 DEF CallbacksInv, ThreadTyped, p
<1> DEFINE T == {}
<1>7. Table(slot, ThreadSlots)' BY <1>0 DEF CallbacksInv, Table
<1>8. rewritten' \subseteq misused' BY <1>0, <1>4
<1>9. Changes(k, T) BY <1>0, <1>3, <1>4, <1>5, <1>6, <1>7, <1>8 DEF Changes
<1> HIDE DEF T
<1> QED BY <1>9, ProcedureChanges

\* A procedure k comes to be r, without its thread.
LEMMA ReapedKeeps ==
    ASSUME CallbacksInv, NEW k \in DOMAIN procs, NEW r, IsProc(r), r.slot = 0,
           procs' = [procs EXCEPT ![k] = r], ~(r.running /\ r.inFlight),
           slot' = Sound!Reaped(procs[k].slot),
           nextProc' = nextProc, misused' = misused, rewritten' = rewritten
    PROVE  CallbacksInv'
<1>0. nextProc \in Nat \ {0} /\ rewritten \subseteq misused /\ ProcTyped(k)
  BY DEF CallbacksInv
<1>1. /\ DOMAIN procs' = DOMAIN procs /\ Table(procs, DOMAIN procs)' /\ procs'[k] = r
      /\ \A j \in DOMAIN procs \ {k} : procs'[j] = procs[j]
  BY ProcedureSet
<1> DEFINE T == {procs[k].slot} \cap ThreadSlots
<1>2. \A q \in ThreadSlots \ T : q \in ThreadSlots \ {procs[k].slot} OBVIOUS
<1>3. /\ Table(slot, ThreadSlots)' /\ \A q \in ThreadSlots \ T : slot'[q] = slot[q]
      /\ \A j \in DOMAIN procs \ {k} : procs[j].slot \notin T
      /\ \A q \in ThreadSlots \ T :
            slot[q] # Sound!Free /\ slot[q].of = k => k = 0 /\ 0 \in misused
      /\ \A q \in T \cap ThreadSlots : ThreadTyped(q)'
  BY <1>2, ThreadReaped
<1>4. ProcTyped(k)' BY <1>0, <1>1 DEF ProcTyped
<1> HIDE DEF T
<1>5. Changes(k, T) BY <1>0, <1>1, <1>3, <1>4 DEF Changes
<1> QED BY <1>5, ProcedureChanges

LEMMA StopKeeps ==
    ASSUME CallbacksInv, NEW k \in DOMAIN procs, Sound!stop_io(k) PROVE CallbacksInv'
<1> DEFINE p == procs[k]
           r == [p EXCEPT !.running = FALSE, !.slot = 0]
<1>1. /\ procs' = [procs EXCEPT ![k] = r] /\ slot' = Sound!Reaped(procs[k].slot)
      /\ nextProc' = nextProc /\ misused' = misused /\ rewritten' = rewritten
  BY DEF Sound!stop_io, Sound!NoSlot
<1>2. IsProc(p) BY DEF CallbacksInv, ProcTyped
<1>3. IsProc(r) /\ r.slot = 0 /\ ~r.running BY <1>2 DEF IsProc
<1> HIDE DEF r
<1> QED BY <1>1, <1>3, ReapedKeeps

LEMMA AudioExecKeeps == ASSUME CallbacksInv, Sound!ExecAudio PROVE CallbacksInv'
<1>1. /\ procs' = << >> /\ nextProc' = 1 /\ slot' = [s \in ThreadSlots |-> Sound!Free]
      /\ misused' = {} /\ rewritten' = {}
  BY DEF Sound!ExecAudio
<1>2. DOMAIN procs' = {} /\ Table(procs, DOMAIN procs)' BY <1>1, NoBreakpoints
<1> QED BY <1>1, <1>2 DEF CallbacksInv, Table, ThreadTyped

LEMMA CallbackReturnsKeeps ==
    ASSUME CallbacksInv, NEW s \in ThreadSlots, Sound!CallbackReturns(s)
    PROVE  CallbacksInv'
<1> DEFINE o == slot[s]
<1> PICK k : k = o.of OBVIOUS
<1> DEFINE t == [o EXCEPT !.state = "parked"]
           p == procs[k]
           r == [p EXCEPT !.inFlight = FALSE]
           T == {s}
<1>0. /\ o.state = "running" /\ slot' = [slot EXCEPT ![s] = t]
      /\ procs' = IF k \in DOMAIN procs THEN [procs EXCEPT ![k] = r] ELSE procs
      /\ nextProc' = nextProc /\ misused' = misused /\ rewritten' = rewritten
      /\ nextProc \in Nat \ {0} /\ rewritten \subseteq misused
  BY DEF Sound!CallbackReturns, Sound!complete_io_proc, CallbacksInv
<1>1. o # Sound!Free BY <1>0, NotFree
<1>2. /\ IsThread(o)
      /\ (k \in DOMAIN procs /\ p.slot = s) \/ (k = 0 /\ 0 \in misused)
  BY <1>1 DEF CallbacksInv, ThreadTyped
<1>3. IsThread(t) /\ t.state = "parked" /\ t.of = k BY <1>2 DEF IsThread
<1>4. /\ Table(slot, ThreadSlots)' /\ slot'[s] = t
      /\ \A q \in ThreadSlots \ {s} : slot'[q] = slot[q]
  <2> HIDE DEF t
  <2> QED BY <1>0, ThreadSet
<1>5. t # Sound!Free
  <2> HIDE DEF t
  <2> QED BY <1>3, NotFree
<1>6. /\ DOMAIN procs' = DOMAIN procs /\ Table(procs, DOMAIN procs)'
      /\ \A j \in DOMAIN procs \ {k} : procs'[j] = procs[j]
      /\ k \in DOMAIN procs => procs'[k] = r
  <2> HIDE DEF r
  <2>1. CASE k \in DOMAIN procs BY <1>0, <2>1, ProcedureSet
  <2>2. CASE k \notin DOMAIN procs BY <1>0, <2>2 DEF CallbacksInv, Table
  <2> QED BY <2>1, <2>2
<1>7. k \in DOMAIN procs => /\ IsProc(r) /\ ~r.inFlight /\ r.slot = p.slot /\ r.running = p.running
                            /\ ProcTyped(k)
  <2>1. k \in DOMAIN procs => ProcTyped(k) BY DEF CallbacksInv
  <2> QED BY <2>1 DEF ProcTyped, IsProc
<1> HIDE DEF t, r
<1>8. \A j \in DOMAIN procs \ {k} : procs[j].slot # s
  <2> SUFFICES ASSUME NEW j \in DOMAIN procs \ {k}, procs[j].slot = s PROVE FALSE OBVIOUS
  <2>1. ProcTyped(j) BY DEF CallbacksInv
  <2>2. s # 0 BY AudioSizes
  <2> QED BY <2>1, <2>2 DEF ProcTyped
<1>9. k \in DOMAIN procs => ProcTyped(k)'
  <2> SUFFICES ASSUME k \in DOMAIN procs PROVE ProcTyped(k)' OBVIOUS
  <2>1. procs'[k] = r /\ r.slot = p.slot /\ ~r.inFlight /\ IsProc(r) /\ ProcTyped(k)
    BY <1>6, <1>7
  <2>2. p.slot # 0 => p.slot \in ThreadSlots BY <2>1 DEF ProcTyped, IsProc
  <2>3. CASE p.slot = s BY <1>0, <1>3, <1>4, <1>5, <2>1, <2>3 DEF ProcTyped
  <2>4. CASE p.slot # s
    <3>1. p.slot # 0 => slot'[p.slot] = slot[p.slot] BY <1>4, <2>2, <2>4
    <3>2. k \in misused' BY <1>0, <1>2, <2>4
    <3>3. procs'[k].slot = p.slot /\ ~procs'[k].inFlight /\ IsProc(procs'[k]) BY <2>1
    <3>4. k \in Nat /\ k < nextProc' /\ (p.slot # 0 => slot[p.slot] # Sound!Free /\ slot[p.slot].of = k)
      BY <1>0, <2>1 DEF ProcTyped
    <3> HIDE DEF p
    <3> QED BY <3>1, <3>2, <3>3, <3>4 DEF ProcTyped
  <2> QED BY <2>3, <2>4
<1>10. ThreadTyped(s)'
  BY <1>0, <1>2, <1>3, <1>4, <1>6, <1>7 DEF ThreadTyped
<1>11. ASSUME NEW q \in ThreadSlots \ T, slot[q] # Sound!Free, slot[q].of = k
       PROVE  (k \in DOMAIN procs' /\ procs'[k].slot = q) \/ (k = 0 /\ 0 \in misused')
  <2>1. ThreadTyped(q) BY DEF CallbacksInv
  <2> QED BY <1>0, <1>6, <1>7, <1>11, <2>1 DEF ThreadTyped
<1>12. Changes(k, T)
  BY <1>0, <1>4, <1>6, <1>8, <1>9, <1>10, <1>11 DEF Changes
<1> HIDE DEF T
<1> QED BY <1>12, ProcedureChanges

LEMMA TakesDue ==
    ASSUME CallbacksInv, NEW now, Sound!Due(now) # {}
    PROVE  Sound!take_due_io_proc(now) \in Sound!Due(now)
<1> DEFINE ready == Sound!Due(now)
           native == ready \ {0}
           first == Sound!Min(native)
<1>1. native \in SUBSET Nat
  <2>1. \A k \in DOMAIN procs : k \in Nat BY DEF CallbacksInv, ProcTyped
  <2> QED BY <2>1 DEF Sound!Due
<1>2. native # {} => first \in native
  <2> HIDE DEF native
  <2>1. native # {} => \E m \in native : \A n \in native : m <= n BY <1>1, LeastNatural
  <2> QED BY <2>1 DEF Sound!Min
<1>3. Sound!take_due_io_proc(now) =
        IF native = {} \/ (0 \in ready /\ procs[0].due <= procs[first].due) THEN 0 ELSE first
  BY DEF Sound!take_due_io_proc, Sound!Legacy
<1> HIDE DEF first
<1> QED BY <1>2, <1>3

\* A procedure that is due is started and waits for nothing.
LEMMA DueProcedure ==
    ASSUME CallbacksInv, NEW now, NEW k \in Sound!Due(now)
    PROVE  k \in DOMAIN procs /\ procs[k].running /\ ~procs[k].inFlight /\ ProcTyped(k)
BY DEF Sound!Due, CallbacksInv

\* The procedure k is served on its thread, if it has one, or on a free one.
LEMMA ServedKeeps ==
    ASSUME CallbacksInv, NEW k \in DOMAIN procs, procs[k].running, NEW r, IsProc(r),
           NEW s \in ThreadSlots, NEW t, IsThread(t), t.state = "running", t.of = k,
           r.slot = s, r.running, r.inFlight,
           procs' = [procs EXCEPT ![k] = r], slot' = [slot EXCEPT ![s] = t],
           procs[k].slot = s \/ (procs[k].slot = 0 /\ slot[s] = Sound!Free),
           nextProc' = nextProc, misused' = misused, rewritten' \subseteq misused
    PROVE  CallbacksInv'
<1> DEFINE T == {s}
<1>0. nextProc \in Nat \ {0} /\ ProcTyped(k) BY DEF CallbacksInv
<1>1. /\ DOMAIN procs' = DOMAIN procs /\ Table(procs, DOMAIN procs)' /\ procs'[k] = r
      /\ \A j \in DOMAIN procs \ {k} : procs'[j] = procs[j]
  BY ProcedureSet
<1>2. /\ Table(slot, ThreadSlots)' /\ slot'[s] = t
      /\ \A q \in ThreadSlots \ {s} : slot'[q] = slot[q]
  BY ThreadSet
<1>3. t # Sound!Free /\ s # 0 BY NotFree, AudioSizes
<1>4. \A j \in DOMAIN procs \ {k} : procs[j].slot # s
  <2> SUFFICES ASSUME NEW j \in DOMAIN procs \ {k}, procs[j].slot = s PROVE FALSE OBVIOUS
  <2>1. ProcTyped(j) BY DEF CallbacksInv
  <2> QED BY <1>0, <1>3, <2>1 DEF ProcTyped
<1>5. ProcTyped(k)' BY <1>0, <1>1, <1>2, <1>3 DEF ProcTyped
<1>6. ThreadTyped(s)' BY <1>1, <1>2 DEF ThreadTyped
<1>7. ASSUME NEW q \in ThreadSlots \ T, slot[q] # Sound!Free, slot[q].of = k
      PROVE  k = 0 /\ 0 \in misused'
  <2>1. ThreadTyped(q) BY DEF CallbacksInv
  <2>2. q # 0 BY AudioSizes
  <2> QED BY <1>7, <2>1, <2>2 DEF ThreadTyped
<1>8. Changes(k, T) BY <1>0, <1>1, <1>2, <1>4, <1>5, <1>6, <1>7 DEF Changes
<1> HIDE DEF T
<1> QED BY <1>8, ProcedureChanges

LEMMA ScheduleKeeps ==
    ASSUME CallbacksInv, NEW now, Sound!schedule_due_audio_io(now) PROVE CallbacksInv'
<1>0. /\ Sound!Due(now) # {} /\ nextProc' = nextProc /\ misused' = misused
      /\ nextProc \in Nat \ {0} /\ rewritten \subseteq misused
  BY DEF CallbacksInv, Sound!schedule_due_audio_io
<1> PICK k : k = Sound!take_due_io_proc(now) OBVIOUS
<1>1. /\ k \in DOMAIN procs /\ procs[k].running /\ ~procs[k].inFlight /\ ProcTyped(k)
  BY <1>0, TakesDue, DueProcedure
<1>2. Sound!MemoryLost(k) \/ Sound!WakeThread(k, now) \/ Sound!CreateThread(k, now)
      \/ Sound!ScheduleFails(k, now)
  BY DEF Sound!schedule_due_audio_io
<1> DEFINE p == procs[k]
<1> PICK period : period = Sound!Max({now, p.due}) + Sound!Max({1, frames}) OBVIOUS
<1> DEFINE x == [p EXCEPT !.inFlight = TRUE, !.due = period]
<1>3. Sound!Taken(k, now) = [procs EXCEPT ![k] = x] BY <1>1 DEF Sound!Taken
<1>4. p.slot \in ThreadSlots \cup {0} /\ IsProc(p) /\ IsProc(x)
      /\ x.slot = p.slot /\ x.running /\ x.inFlight
  BY <1>1 DEF ProcTyped, IsProc
<1>5. CASE Sound!MemoryLost(k)
  <2> DEFINE r == [p EXCEPT !.running = FALSE]
             T == {}
  <2>1. procs' = [procs EXCEPT ![k] = r] /\ slot' = slot /\ rewritten' = rewritten
    BY <1>5 DEF Sound!MemoryLost
  <2>2. IsProc(r) /\ ~r.running /\ ~r.inFlight /\ r.slot = p.slot BY <1>1, <1>4 DEF IsProc
  <2> HIDE DEF r
  <2>3. /\ DOMAIN procs' = DOMAIN procs /\ Table(procs, DOMAIN procs)' /\ procs'[k] = r
        /\ \A j \in DOMAIN procs \ {k} : procs'[j] = procs[j]
    BY <1>1, <2>1, ProcedureSet
  <2>4. ProcTyped(k)' BY <1>0, <1>1, <2>1, <2>2, <2>3 DEF ProcTyped
  <2>5. \A s \in ThreadSlots : slot[s] # Sound!Free /\ slot[s].of = k =>
            p.slot = s \/ (k = 0 /\ 0 \in misused)
    BY DEF CallbacksInv, ThreadTyped
  <2>6. Table(slot, ThreadSlots)' BY <2>1 DEF CallbacksInv, Table
  <2>7. Changes(k, T) BY <1>0, <1>1, <2>1, <2>2, <2>3, <2>4, <2>5, <2>6 DEF Changes
  <2> HIDE DEF T
  <2> QED BY <2>7, ProcedureChanges
<1>6. CASE Sound!WakeThread(k, now)
  <2> PICK s : s = p.slot OBVIOUS
  <2>1. /\ s # 0 /\ procs' = [procs EXCEPT ![k] = x]
        /\ rewritten' = IF slot[s].state = "running" THEN rewritten \cup {k} ELSE rewritten
    BY <1>3, <1>6 DEF Sound!WakeThread, Sound!NoSlot
  <2>2. s \in ThreadSlots BY <1>4, <2>1
  <2> DEFINE o == slot[s]
             t == [o EXCEPT !.state = "running"]
  <2>3. slot' = [slot EXCEPT ![s] = t] BY <1>6 DEF Sound!WakeThread
  <2>4. o # Sound!Free /\ o.of = k BY <1>1, <2>1 DEF ProcTyped
  <2>5. IsThread(o) BY <2>2, <2>4 DEF CallbacksInv, ThreadTyped
  <2>6. IsThread(t) /\ t.state = "running" /\ t.of = k BY <2>4, <2>5 DEF IsThread
  <2>7. rewritten' \subseteq misused BY <1>0, <1>1, <2>1 DEF ProcTyped
  <2> HIDE DEF t, x
  <2> QED BY <1>0, <1>1, <1>4, <2>1, <2>2, <2>3, <2>6, <2>7, ServedKeeps
<1>7. CASE Sound!CreateThread(k, now)
  <2>1. PICK s \in ThreadSlots :
          /\ slot[s] = Sound!Free
          /\ slot' = [slot EXCEPT ![s] = [state |-> "running", of |-> k]]
          /\ procs' = [Sound!Taken(k, now) EXCEPT ![k].slot = s]
    BY <1>7 DEF Sound!CreateThread
  <2> DEFINE t == [state |-> "running", of |-> k]
             r == [x EXCEPT !.slot = s]
  <2>2. p.slot = 0 /\ rewritten' = rewritten
    BY <1>7 DEF Sound!CreateThread, Sound!NoSlot
  <2>3. procs' = [procs EXCEPT ![k] = r]
    <3> HIDE DEF x
    <3>1. procs' = [[procs EXCEPT ![k] = x] EXCEPT ![k].slot = s] BY <1>3, <2>1
    <3> QED BY <1>1, <3>1
  <2>4. IsProc(r) /\ r.slot = s /\ r.running /\ r.inFlight
    <3> HIDE DEF x
    <3> QED BY <1>4 DEF IsProc
  <2>5. IsThread(t) /\ t.state = "running" /\ t.of = k BY <1>1 DEF IsThread, ProcTyped
  <2>6. slot' = [slot EXCEPT ![s] = t] /\ slot[s] = Sound!Free BY <2>1
  <2>7. procs[k].slot = 0 /\ rewritten' \subseteq misused BY <1>0, <2>2
  <2> HIDE DEF t, r
  <2> QED BY <1>0, <1>1, <2>7, <2>3, <2>4, <2>5, <2>6, ServedKeeps
<1>8. CASE Sound!ScheduleFails(k, now)
  <2> DEFINE r == [x EXCEPT !.inFlight = FALSE, !.slot = 0]
  <2>1. /\ procs' = Sound!io_proc_schedule_failed(k, now)
        /\ slot' = Sound!Reaped(procs[k].slot) /\ rewritten' = rewritten
    BY <1>8 DEF Sound!ScheduleFails
  <2>2. procs' = [procs EXCEPT ![k] = r]
    <3> HIDE DEF x
    <3>1. procs' = [[procs EXCEPT ![k] = x] EXCEPT ![k].inFlight = FALSE, ![k].slot = 0]
      BY <1>3, <2>1 DEF Sound!io_proc_schedule_failed, Sound!NoSlot
    <3> QED BY <1>1, <3>1
  <2>3. IsProc(r) /\ r.slot = 0 /\ ~r.inFlight
    <3> HIDE DEF x
    <3> QED BY <1>4 DEF IsProc
  <2> HIDE DEF r
  <2> QED BY <1>0, <1>1, <2>1, <2>2, <2>3, ReapedKeeps
<1> QED BY <1>2, <1>5, <1>6, <1>7, <1>8

LEMMA NamesProcedures ==
    ASSUME CallbacksInv, NEW d, NEW f
    PROVE  Sound!Named(d, f) \subseteq DOMAIN procs
<1> DEFINE native == Sound!Native(d, f)
<1>1. native \in SUBSET (DOMAIN procs \ {0}) BY DEF Sound!Native, Sound!Legacy
<1>2. \A k \in DOMAIN procs : k \in Nat BY DEF CallbacksInv, ProcTyped
<1>3. native # {} => Sound!Min(native) \in native
  <2> HIDE DEF native
  <2>1. native \in SUBSET Nat BY <1>1, <1>2
  <2>2. native # {} => \E m \in native : \A n \in native : m <= n BY <2>1, LeastNatural
  <2> QED BY <2>2 DEF Sound!Min
<1> QED BY <1>1, <1>3 DEF Sound!Named, Sound!Legacy

LEMMA CallbacksBegin == ASSUME Sound!CallbacksInit PROVE CallbacksInv
<1>1. /\ procs = << >> /\ nextProc = 1 /\ slot = [s \in ThreadSlots |-> Sound!Free]
      /\ misused = {} /\ rewritten = {}
  BY DEF Sound!CallbacksInit
<1>2. DOMAIN procs = {} /\ Table(procs, DOMAIN procs) BY <1>1, NoBreakpoints
<1> QED BY <1>1, <1>2 DEF CallbacksInv, Table, ThreadTyped

LEMMA CallbacksStep == ASSUME CallbacksInv, Sound!CallbacksNext PROVE CallbacksInv'
<1>0. nextProc \in Nat \ {0} BY DEF CallbacksInv
<1>1. ASSUME NEW d, NEW f,
             \/ Sound!add_io_proc(d, f) \/ Sound!remove_io_proc(d, f)
             \/ \E w \in BOOLEAN : Sound!create_native_io_proc(d, f, w)
             \/ \E k \in Sound!Named(d, f) : Sound!start_io(k) \/ Sound!stop_io(k)
      PROVE  CallbacksInv'
  <2>1. CASE Sound!add_io_proc(d, f) BY <2>1, AddKeeps
  <2>2. CASE Sound!remove_io_proc(d, f)
    <3>1. PICK k \in Sound!Named(d, f) : Sound!Removed(k) BY <2>2 DEF Sound!remove_io_proc
    <3> QED BY <3>1, NamesProcedures, RemovedKeeps
  <2>3. ASSUME NEW w \in BOOLEAN, Sound!create_native_io_proc(d, f, w) PROVE CallbacksInv'
    BY <2>3, CreateKeeps
  <2>4. ASSUME NEW k \in Sound!Named(d, f), Sound!start_io(k) \/ Sound!stop_io(k)
        PROVE  CallbacksInv'
    BY <2>4, NamesProcedures, StartKeeps, StopKeeps
  <2> QED BY <1>1, <2>1, <2>2, <2>3, <2>4
<1>2. ASSUME NEW d, NEW i \in DOMAIN procs, NEW k \in Sound!Identified(d, i),
             Sound!destroy_native_io_proc(k, d) \/ Sound!start_io(k) \/ Sound!stop_io(k)
      PROVE  CallbacksInv'
  <2>1. k \in DOMAIN procs BY DEF Sound!Identified
  <2>2. CASE Sound!destroy_native_io_proc(k, d)
    <3>1. Sound!Removed(k) BY <2>2 DEF Sound!destroy_native_io_proc
    <3> QED BY <2>1, <3>1, RemovedKeeps
  <2>3. CASE Sound!start_io(k) BY <2>1, <2>3, StartKeeps
  <2>4. CASE Sound!stop_io(k) BY <2>1, <2>4, StopKeeps
  <2> QED BY <1>2, <2>2, <2>3, <2>4
<1>3. ASSUME NEW n, Sound!SetFrames(n) PROVE CallbacksInv'
  BY <1>0, <1>3, CallbacksStay DEF Sound!SetFrames
<1>4. CASE Sound!AudioPeriod
  <2>1. CASE UNCHANGED <<procs, nextProc, frames, slot, misused, rewritten>>
    BY <1>0, <2>1, CallbacksStay
  <2>2. CASE \E now : Sound!schedule_due_audio_io(now) BY <2>2, ScheduleKeeps
  <2> QED BY <1>4, <2>1, <2>2 DEF Sound!AudioPeriod
<1> QED BY <1>1, <1>2, <1>3, <1>4, AudioExecKeeps, CallbackReturnsKeeps
        DEF Sound!CallbacksNext

LEMMA CallbacksHold ==
    ASSUME CallbacksInv
    PROVE  Sound!ThreadsOwned /\ Sound!CallbackAwaited /\ Sound!ThreadsRewrittenParked
<1>1. Sound!ThreadsOwned
  BY DEF CallbacksInv, ProcTyped, ThreadTyped, Sound!ThreadsOwned, Sound!NoSlot, Sound!Legacy
<1>2. Sound!CallbackAwaited BY DEF CallbacksInv, ProcTyped, Sound!CallbackAwaited, Sound!NoSlot
<1> QED BY <1>1, <1>2 DEF CallbacksInv, Sound!ThreadsRewrittenParked

-----------------------------------------------------------------------------
(***************************************************************************)
(* What the host plays.                                                    *)
(***************************************************************************)
IsList(q) == \E T : q \in Seq(T)
IsSource(r) ==
    r \in [path : {r.path}, volume : {r.volume}, rate : {r.rate}, mode : {r.mode}]

\* A sink whose count, fade and lead agree with its queue.
GoodSink(k) ==
    /\ k \in [queue : {k.queue}, count : Nat, fade : Nat, lead : Nat,
              needsLead : {k.needsLead}, gain : {k.gain}]
    /\ IsList(k.queue) /\ k.count = Len(k.queue) /\ k.fade <= k.count
    /\ k.lead > 0 => k.fade = 0 /\ \A i \in 1 .. Len(k.queue) : k.queue[i] = Sound!Pcm
Faded(k) == k.fade = k.count /\ k.lead = 0
Heard(k, S) == \A i \in k.fade + 1 .. Len(k.queue) : k.queue[i] \in S

\* The steps of a call on the sink: they stop, set the gain of what is to play, and
\* play that.
What == IF playing = 0 THEN Sound!Pcm ELSE sources[playing].path
OwnGain == Sound!Gain(sources[playing])
GainStep(o) == o.do = "gain" /\ (playing # 0 => o.to = OwnGain)
PlayStep(o) == o.do = "play" /\ o.by = playing /\ o.of = What /\ o.frames \in Nat

\* Where the call is: what is stopped fades before anything else plays.
Plan ==
    \/ Len(todo) = 0
    \/ Len(todo) = 1 /\ todo[1].do = "stop" /\ playing = 0
    \/ Len(todo) = 1 /\ GainStep(todo[1])
    \/ /\ Len(todo) = 3 /\ todo[1].do = "stop" /\ GainStep(todo[2]) /\ PlayStep(todo[3])
       /\ playing # 0
    \/ /\ Len(todo) = 2 /\ GainStep(todo[1]) /\ PlayStep(todo[2])
       /\ playing # 0 => Faded(sink)
    \/ /\ Len(todo) = 1 /\ PlayStep(todo[1])
       /\ playing # 0 => Faded(sink) /\ sink.gain = OwnGain

PlaybackInv ==
    /\ GoodSink(sink) /\ IsList(todo) /\ Plan
    /\ Table(sources, DOMAIN sources) /\ \A s \in DOMAIN sources : IsSource(sources[s])
    /\ playing # 0 => playing \in DOMAIN sources
    /\ Len(todo) = 0 \/ todo[1].do # "stop" => Heard(sink, {What} \cup orphans)
    /\ Len(todo) = 0 /\ playing # 0 /\ sink.count > 0 /\ ~restated => sink.gain = OwnGain

LEMMA PlaybackSizes ==
    /\ FadeFrames \in Nat /\ FileFrames \in Nat /\ LeadFrames \in Nat
    /\ Volumes \subseteq Nat /\ SourceIds \subseteq Nat \ {0}
BY DevicesAssumption DEF Sound!AudioPlaybackAssumption

LEMMA Smaller ==
    ASSUME NEW a \in Nat, NEW b \in Nat
    PROVE  Sound!Min({a, b}) = IF a <= b THEN a ELSE b
BY DEF Sound!Min

LEMMA Larger ==
    ASSUME NEW b \in Int PROVE Sound!Max({0, b}) = IF b <= 0 THEN 0 ELSE b
BY DEF Sound!Max

LEMMA TrimsQueue ==
    ASSUME NEW q, IsList(q), NEW n \in Nat
    PROVE  LET s == SubSeq(q, 1, Sound!Min({n, Len(q)})) IN
           /\ IsList(s) /\ Len(s) = Sound!Min({n, Len(q)})
           /\ \A i \in 1 .. Len(s) : i \in 1 .. Len(q) /\ s[i] = q[i]
<1> PICK T : q \in Seq(T) BY DEF IsList
<1>1. Len(q) \in Nat OBVIOUS
<1> DEFINE m == Sound!Min({n, Len(q)})
<1>2. m \in 0 .. Len(q) BY <1>1, Smaller
<1> HIDE DEF m
<1> DEFINE s == SubSeq(q, 1, m)
<1>3. /\ s \in Seq(T) /\ Len(s) = m /\ \A i \in 1 .. Len(s) : i \in 1 .. Len(q) /\ s[i] = q[i]
  BY <1>2
<1> HIDE DEF s
<1>4. IsList(s) BY <1>3 DEF IsList
<1> QED BY <1>3, <1>4 DEF m, s

LEMMA EmptyList == IsList(<< >>) /\ Len(<< >>) = 0
<1>1. << >> \in Seq({}) OBVIOUS
<1> QED BY <1>1 DEF IsList

\* A stop ends the lead, and empties the queue or fades what is left of it.
LEMMA StopsSink ==
    ASSUME NEW k, GoodSink(k), NEW mode
    PROVE  GoodSink(Sound!stop(k, mode)) /\ Faded(Sound!stop(k, mode))
<1> DEFINE u == [k EXCEPT !.lead = 0, !.needsLead = TRUE]
           least == Sound!Min({k.count, FadeFrames})
<1>0. /\ k.count \in Nat /\ k.fade \in Nat /\ k.count = Len(k.queue) /\ k.fade <= k.count
      /\ IsList(k.queue)
  BY DEF GoodSink
<1>1. /\ u \in [queue : {k.queue}, count : Nat, fade : Nat, lead : Nat,
                needsLead : {TRUE}, gain : {k.gain}]
      /\ u.count = k.count /\ u.fade = k.fade /\ u.lead = 0
  BY DEF GoodSink
<1>2. least \in Nat /\ least <= k.count BY <1>0, PlaybackSizes, Smaller
<1> HIDE DEF u, least
<1>3. CASE mode = "immediate" \/ k.count = 0
  <2> DEFINE r == [u EXCEPT !.queue = << >>, !.count = 0, !.lead = 0, !.fade = 0]
  <2>1. Sound!stop(k, mode) = r BY <1>3 DEF Sound!stop, Sound!retire_all, u
  <2>2. /\ r \in [queue : {<< >>}, count : Nat, fade : Nat, lead : Nat, needsLead : {TRUE},
                  gain : {k.gain}]
        /\ r.queue = << >> /\ r.count = 0 /\ r.fade = 0 /\ r.lead = 0
        /\ r.needsLead = TRUE /\ r.gain = k.gain
    BY <1>1
  <2> HIDE DEF r
  <2>3. GoodSink(r) /\ Faded(r) BY <2>2, EmptyList DEF GoodSink, Faded
  <2> QED BY <2>1, <2>3
<1>4. ASSUME NEW n \in Nat, n <= k.count, NEW r,
             r = [Sound!trim_pending_samples(u, n) EXCEPT !.fade = n]
      PROVE  GoodSink(r) /\ Faded(r)
  <2> DEFINE q == SubSeq(k.queue, 1, Sound!Min({n, Len(k.queue)}))
             c == Sound!Min({n, k.count})
  <2>1. c = n /\ IsList(q) /\ Len(q) = n BY <1>0, <1>4, Smaller, TrimsQueue
  <2> HIDE DEF c, q
  <2>2. Sound!trim_pending_samples(u, n) = [u EXCEPT !.queue = q, !.count = c]
    BY <1>1 DEF Sound!trim_pending_samples, q, c
  <2>3. /\ r \in [queue : {q}, count : Nat, fade : Nat, lead : Nat, needsLead : {TRUE},
                  gain : {k.gain}]
        /\ r.queue = q /\ r.count = n /\ r.fade = n /\ r.lead = 0 /\ r.needsLead = TRUE
        /\ r.gain = k.gain
    <3> DEFINE w == [u EXCEPT !.queue = q, !.count = c]
    <3>1. r = [w EXCEPT !.fade = n] BY <1>4, <2>2
    <3>2. /\ w \in [queue : {q}, count : Nat, fade : Nat, lead : Nat, needsLead : {TRUE},
                    gain : {k.gain}]
          /\ w.count = n /\ w.lead = 0
      BY <1>1, <2>1
    <3> HIDE DEF w
    <3> DEFINE x == [w EXCEPT !.fade = n]
    <3>3. /\ x \in [queue : {q}, count : Nat, fade : Nat, lead : Nat, needsLead : {TRUE},
                    gain : {k.gain}]
          /\ x.queue = q /\ x.count = n /\ x.fade = n /\ x.lead = 0
          /\ x.needsLead = TRUE /\ x.gain = k.gain
      BY <3>2
    <3>4. r = x BY <3>1
    <3> HIDE DEF x
    <3> QED BY <3>3, <3>4
  <2> QED BY <2>1, <2>3 DEF GoodSink, Faded
<1>5. CASE ~(mode = "immediate" \/ k.count = 0) /\ k.fade # 0
  <2> DEFINE v == Sound!trim_pending_samples(u, k.fade)
             r == [v EXCEPT !.fade = k.fade]
  <2>1. Sound!stop(k, mode) = v BY <1>5 DEF Sound!stop, u
  <2>2. v = r BY <1>1 DEF Sound!trim_pending_samples
  <2> HIDE DEF v
  <2>3. GoodSink(r) /\ Faded(r)
    <3> HIDE DEF r
    <3> QED BY <1>0, <1>4 DEF r, v
  <2> QED BY <2>1, <2>2, <2>3
<1>6. CASE ~(mode = "immediate" \/ k.count = 0) /\ k.fade = 0
  <2> DEFINE r == [Sound!trim_pending_samples(u, least) EXCEPT !.fade = least]
  <2>1. Sound!stop(k, mode) = r BY <1>6 DEF Sound!stop, u, least
  <2> HIDE DEF r
  <2>2. GoodSink(r) /\ Faded(r) BY <1>2, <1>4 DEF r
  <2> QED BY <2>1, <2>2
<1> QED BY <1>3, <1>5, <1>6

\* What is played comes last, and only samples of a device are led by silence.
LEMMA PlaysSink ==
    ASSUME NEW k, GoodSink(k), NEW from, NEW n \in Nat, NEW S,
           k.lead > 0 => from = Sound!Pcm, from \in S, Heard(k, S) \/ k.fade = k.count
    PROVE  LET r == Sound!play(k, from, n) IN
           GoodSink(r) /\ Heard(r, S) /\ r.gain = k.gain
<1> DEFINE begins == from = Sound!Pcm /\ k.needsLead
           lead == IF k.count = 0 /\ k.lead = 0 THEN LeadFrames ELSE k.lead
           led == IF ~begins THEN k ELSE [k EXCEPT !.needsLead = FALSE, !.lead = lead]
           more == [i \in 1 .. n |-> from]
           q == k.queue \o more
           c == k.count + n
           r == [led EXCEPT !.queue = q, !.count = c]
<1>0. /\ k.count \in Nat /\ k.fade \in Nat /\ k.lead \in Nat /\ k.count = Len(k.queue)
      /\ k.fade <= k.count /\ IsList(k.queue)
      /\ k.lead > 0 => k.fade = 0 /\ \A i \in 1 .. Len(k.queue) : k.queue[i] = Sound!Pcm
  BY DEF GoodSink
<1>1. /\ led \in [queue : {k.queue}, count : Nat, fade : Nat, lead : Nat,
                  needsLead : {led.needsLead}, gain : {k.gain}]
      /\ led.count = k.count /\ led.fade = k.fade /\ led.queue = k.queue
      /\ led.lead = k.lead \/ (begins /\ k.count = 0)
  <2>1. CASE ~begins BY <2>1 DEF GoodSink
  <2>2. CASE begins
    <3>1. lead \in Nat /\ (lead = k.lead \/ k.count = 0) BY <1>0, PlaybackSizes
    <3> HIDE DEF lead, begins
    <3> QED BY <2>2, <3>1 DEF GoodSink
  <2> QED BY <2>1, <2>2
<1>2. Sound!play(k, from, n) = r
  <2>1. Sound!play(k, from, n) = [led EXCEPT !.queue = @ \o more, !.count = @ + n]
    BY DEF Sound!play
  <2> HIDE DEF led, more
  <2> QED BY <1>1, <2>1
<1>3. begins => from = Sound!Pcm OBVIOUS
<1> PICK T : k.queue \in Seq(T) BY <1>0 DEF IsList
<1>4. /\ q \in Seq(T \cup {from}) /\ Len(q) = c
      /\ \A i \in 1 .. Len(q) : q[i] = IF i <= k.count THEN k.queue[i] ELSE from
  BY <1>0
<1>10. c \in Nat BY <1>0
<1> HIDE DEF begins, q, led, c
<1>5. /\ r \in [queue : {q}, count : Nat, fade : Nat, lead : Nat,
                needsLead : {led.needsLead}, gain : {k.gain}]
      /\ r.queue = q /\ r.count = c /\ r.fade = k.fade /\ r.lead = led.lead
      /\ r.needsLead = led.needsLead /\ r.gain = k.gain
  BY <1>0, <1>1, <1>10
<1> HIDE DEF r
<1>6. IsList(q) BY <1>4 DEF IsList
<1>7. ASSUME r.lead > 0
      PROVE  r.fade = 0 /\ \A i \in 1 .. Len(q) : q[i] = Sound!Pcm
  BY <1>0, <1>1, <1>3, <1>4, <1>5, <1>7
<1>8. Heard(r, S)
  <2> SUFFICES ASSUME NEW i \in r.fade + 1 .. Len(q) PROVE q[i] \in S BY <1>5 DEF Heard
  <2>1. i \in 1 .. Len(q) /\ i > k.fade BY <1>0, <1>4, <1>5
  <2> QED BY <1>0, <1>4, <2>1 DEF Heard
<1>9. GoodSink(r)
  <2>1. k.fade <= c BY <1>0 DEF c
  <2> QED BY <1>4, <1>5, <1>6, <1>7, <2>1 DEF GoodSink
<1> QED BY <1>2, <1>5, <1>8, <1>9

LEMMA ConsumesSink ==
    ASSUME NEW k, GoodSink(k), NEW S
    PROVE  LET r == Sound!Consumed(k) IN
           /\ GoodSink(r) /\ r.gain = k.gain /\ (r.count > 0 => k.count > 0)
           /\ Heard(k, S) => Heard(r, S)
           /\ Faded(k) => Faded(r)
<1>0. /\ k.count \in Nat /\ k.fade \in Nat /\ k.lead \in Nat /\ k.count = Len(k.queue)
      /\ k.fade <= k.count /\ IsList(k.queue)
      /\ k.lead > 0 => k.fade = 0 /\ \A i \in 1 .. Len(k.queue) : k.queue[i] = Sound!Pcm
  BY DEF GoodSink
<1>1. CASE k.lead > 0
  <2> DEFINE r == [k EXCEPT !.lead = k.lead - 1]
  <2>1. Sound!Consumed(k) = r BY <1>1 DEF Sound!Consumed
  <2>2. /\ r \in [queue : {k.queue}, count : Nat, fade : Nat, lead : Nat,
                  needsLead : {r.needsLead}, gain : {k.gain}]
        /\ r.queue = k.queue /\ r.count = k.count /\ r.fade = k.fade
        /\ r.lead = k.lead - 1 /\ r.gain = k.gain
    BY <1>0, <1>1 DEF GoodSink
  <2> HIDE DEF r
  <2> QED BY <1>0, <1>1, <2>1, <2>2 DEF GoodSink, Heard, Faded
<1>2. CASE ~(k.lead > 0) /\ k.queue = << >>
  <2>1. Sound!Consumed(k) = k BY <1>2 DEF Sound!Consumed
  <2> QED BY <2>1
<1>3. CASE ~(k.lead > 0) /\ k.queue # << >>
  <2> PICK T : k.queue \in Seq(T) BY <1>0 DEF IsList
  <2> DEFINE q == Tail(k.queue)
             fade == IF Len(k.queue) = 1 THEN 0 ELSE Sound!Max({0, k.fade - 1})
             less == k.count - 1
             r == [k EXCEPT !.queue = q, !.count = less, !.fade = fade]
  <2>1. Sound!Consumed(k) = r BY <1>3 DEF Sound!Consumed
  <2>2. /\ q \in Seq(T) /\ k.count > 0 /\ Len(q) = less /\ less \in Nat
        /\ \A i \in 1 .. Len(q) : i + 1 \in 1 .. k.count /\ q[i] = k.queue[i + 1]
    BY <1>0, <1>3
  <2>3. /\ fade \in Nat /\ fade <= k.count - 1 /\ fade >= k.fade - 1
        /\ k.fade = k.count => fade = k.count - 1
    <3> PICK m : m = Sound!Max({0, k.fade - 1}) OBVIOUS
    <3>1. m = IF k.fade - 1 <= 0 THEN 0 ELSE k.fade - 1 BY <1>0, Larger
    <3>2. fade = IF k.count = 1 THEN 0 ELSE m BY <1>0
    <3> HIDE DEF fade
    <3> PICK c \in Nat : c = k.count BY <1>0
    <3> PICK f \in Nat : f = k.fade BY <1>0
    <3>3. fade = (IF c = 1 THEN 0 ELSE IF f - 1 <= 0 THEN 0 ELSE f - 1) /\ c > 0 /\ f <= c
      BY <1>0, <2>2, <3>1, <3>2
    <3>4. /\ fade \in Nat /\ fade <= c - 1 /\ fade >= f - 1
          /\ f = c => fade = c - 1
      BY <3>3
    <3> QED BY <3>4
  <2> HIDE DEF q, fade, less
  <2>4. /\ r \in [queue : {q}, count : Nat, fade : Nat, lead : Nat,
                  needsLead : {k.needsLead}, gain : {k.gain}]
        /\ r.queue = q /\ r.count = less /\ r.fade = fade
        /\ r.lead = k.lead /\ r.needsLead = k.needsLead /\ r.gain = k.gain
    BY <1>0, <2>2, <2>3 DEF GoodSink
  <2> HIDE DEF r
  <2>5. IsList(q) BY <2>2 DEF IsList
  <2>6. GoodSink(r) BY <1>0, <1>3, <2>2, <2>3, <2>4, <2>5 DEF GoodSink, less
  <2>7. ASSUME Heard(k, S) PROVE Heard(r, S)
    <3> SUFFICES ASSUME NEW i \in fade + 1 .. Len(q) PROVE q[i] \in S BY <2>4 DEF Heard
    <3>1. i \in 1 .. Len(q) /\ i + 1 \in k.fade + 1 .. Len(k.queue)
      BY <1>0, <2>2, <2>3 DEF less
    <3> QED BY <2>2, <2>7, <3>1 DEF Heard
  <2>8. Faded(k) => Faded(r) BY <2>3, <2>4 DEF Faded, less
  <2> QED BY <1>0, <2>1, <2>2, <2>4, <2>6, <2>7, <2>8
<1> QED BY <1>0, <1>1, <1>2, <1>3

LEMMA HeardMore ==
    ASSUME NEW k, GoodSink(k), NEW S, NEW R, k.count = 0 \/ (Heard(k, S) /\ S \subseteq R)
    PROVE  Heard(k, R)
BY DEF Heard, GoodSink

LEMMA OneStep == ASSUME NEW a PROVE IsList(<<a>>) /\ Len(<<a>>) = 1 /\ <<a>>[1] = a
<1>1. <<a>> \in Seq({a}) OBVIOUS
<1> QED BY <1>1 DEF IsList

IsJoined(q, u, v) ==
    /\ IsList(q) /\ Len(q) = Len(u) + Len(v)
    /\ \A i \in 1 .. Len(u) : q[i] = u[i]
    /\ \A i \in 1 .. Len(v) : q[Len(u) + i] = v[i]

LEMMA Joined ==
    ASSUME NEW u, IsList(u), NEW v, IsList(v)
    PROVE  IsJoined(u \o v, u, v)
<1> PICK T : u \in Seq(T) BY DEF IsList
<1> PICK S : v \in Seq(S) BY DEF IsList
<1>1. u \in Seq(T \cup S) /\ v \in Seq(T \cup S) OBVIOUS
<1>2. u \o v \in Seq(T \cup S) BY <1>1
<1>3. IsList(u \o v) BY <1>2 DEF IsList
<1> QED BY <1>1, <1>3 DEF IsJoined

LEMMA TwoSteps ==
    ASSUME NEW u, IsList(u), Len(u) = 1, NEW v, IsList(v), Len(v) = 1
    PROVE  IsList(u \o v) /\ Len(u \o v) = 2 /\ (u \o v)[1] = u[1] /\ (u \o v)[2] = v[1]
<1> DEFINE q == u \o v
<1>0. IsJoined(q, u, v) BY Joined
<1> HIDE DEF q
<1>1. /\ IsList(q) /\ Len(q) = Len(u) + Len(v)
      /\ \A i \in 1 .. Len(u) : q[i] = u[i]
      /\ \A i \in 1 .. Len(v) : q[Len(u) + i] = v[i]
  BY <1>0 DEF IsJoined
<1>2. 1 \in 1 .. Len(u) /\ 1 \in 1 .. Len(v) /\ Len(u) + 1 = 2 OBVIOUS
<1>3. IsList(q) /\ Len(q) = 2 BY <1>1
<1>4. q[1] = u[1] BY <1>1, <1>2
<1>5. q[Len(u) + 1] = v[1] BY <1>1, <1>2
<1>6. q[2] = v[1] BY <1>2, <1>5
<1> QED BY <1>3, <1>4, <1>6 DEF q

LEMMA ThreeSteps ==
    ASSUME NEW u, IsList(u), Len(u) = 2, NEW v, IsList(v), Len(v) = 1
    PROVE  /\ IsList(u \o v) /\ Len(u \o v) = 3
           /\ (u \o v)[1] = u[1] /\ (u \o v)[2] = u[2] /\ (u \o v)[3] = v[1]
<1> DEFINE q == u \o v
<1>0. IsJoined(q, u, v) BY Joined
<1> HIDE DEF q
<1>1. /\ IsList(q) /\ Len(q) = Len(u) + Len(v)
      /\ \A i \in 1 .. Len(u) : q[i] = u[i]
      /\ \A i \in 1 .. Len(v) : q[Len(u) + i] = v[i]
  BY <1>0 DEF IsJoined
<1>2. 1 \in 1 .. Len(u) /\ 2 \in 1 .. Len(u) /\ 1 \in 1 .. Len(v) /\ Len(u) + 1 = 3 OBVIOUS
<1>3. IsList(q) /\ Len(q) = 3 BY <1>1
<1>4. q[1] = u[1] /\ q[2] = u[2] BY <1>1, <1>2
<1>5. q[Len(u) + 1] = v[1] BY <1>1, <1>2
<1>6. q[3] = v[1] BY <1>2, <1>5
<1> QED BY <1>3, <1>4, <1>6 DEF q

\* The steps of which calls are made.
LEMMA StepsAre ==
    ASSUME NEW mode, NEW g, NEW s, NEW what, NEW n
    PROVE  /\ IsList(Sound!Stops(mode)) /\ Len(Sound!Stops(mode)) = 1
           /\ Sound!Stops(mode)[1].do = "stop"
           /\ IsList(Sound!SetsGain(g)) /\ Len(Sound!SetsGain(g)) = 1
           /\ Sound!SetsGain(g)[1].do = "gain" /\ Sound!SetsGain(g)[1].to = g
           /\ IsList(Sound!Plays(s, what, n)) /\ Len(Sound!Plays(s, what, n)) = 1
           /\ Sound!Plays(s, what, n)[1].do = "play" /\ Sound!Plays(s, what, n)[1].by = s
           /\ Sound!Plays(s, what, n)[1].of = what /\ Sound!Plays(s, what, n)[1].frames = n
BY OneStep DEF Sound!Stops, Sound!SetsGain, Sound!Plays

LEMMA RestOf ==
    ASSUME NEW q, IsList(q), Len(q) > 0
    PROVE  /\ IsList(Tail(q)) /\ Len(Tail(q)) = Len(q) - 1 /\ Len(q) \in Nat /\ Head(q) = q[1]
           /\ \A i \in 1 .. Len(q) - 1 : Tail(q)[i] = q[i + 1]
<1> PICK T : q \in Seq(T) BY DEF IsList
<1>1. Tail(q) \in Seq(T) OBVIOUS
<1>2. IsList(Tail(q)) BY <1>1 DEF IsList
<1> QED BY <1>2

\* A call on the service, which leaves the sink to its steps.
SourcesTyped ==
    /\ Table(sources, DOMAIN sources) /\ \A s \in DOMAIN sources : IsSource(sources[s])
    /\ playing # 0 => playing \in DOMAIN sources
GainKept ==
    Len(todo)' = 0 /\ playing' # 0 /\ sink.count > 0 /\ ~restated' =>
        playing' = playing /\ ~restated /\ OwnGain' = OwnGain
SoundKept ==
    \/ Len(todo)' # 0 /\ todo'[1].do = "stop"
    \/ sink.count = 0
    \/ {What} \cup orphans \subseteq {What'} \cup orphans'

LEMMA CallKeeps ==
    ASSUME PlaybackInv, Len(todo) = 0, sink' = sink, SourcesTyped', IsList(todo)', Plan',
           GainKept, SoundKept
    PROVE  PlaybackInv'
<1>1. GoodSink(sink) /\ Heard(sink, {What} \cup orphans) BY DEF PlaybackInv
<1>2. Len(todo)' = 0 \/ todo'[1].do # "stop" => Heard(sink, {What'} \cup orphans')
  BY <1>1, HeardMore DEF SoundKept
<1>3. Len(todo)' = 0 /\ playing' # 0 /\ sink.count > 0 /\ ~restated' => sink.gain = OwnGain'
  BY DEF GainKept, PlaybackInv
<1>4. GoodSink(sink)' BY <1>1
<1>5. Heard(sink, {What} \cup orphans)' = Heard(sink, {What'} \cup orphans') OBVIOUS
<1> QED BY <1>2, <1>3, <1>4, <1>5 DEF PlaybackInv, SourcesTyped

LEMMA PlaybackStays ==
    ASSUME PlaybackInv, UNCHANGED <<sources, playing, sink, todo, orphans, restated, ringtone>>
    PROVE  PlaybackInv'
<1>1. What' = What /\ OwnGain' = OwnGain BY DEF What, OwnGain, Sound!Gain
<1>2. Plan' BY <1>1 DEF PlaybackInv, Plan, GainStep, PlayStep
<1>3. Table(sources, DOMAIN sources)' BY DEF PlaybackInv, Table
<1> QED BY <1>1, <1>2, <1>3 DEF PlaybackInv

LEMMA PutSource ==
    ASSUME PlaybackInv, NEW s, NEW r, IsSource(r), sources' = Sound!Put(sources, s, r)
    PROVE  /\ DOMAIN sources' = DOMAIN sources \cup {s} /\ Table(sources, DOMAIN sources)'
           /\ \A u \in DOMAIN sources' : IsSource(sources'[u])
           /\ sources'[s] = r /\ \A u \in DOMAIN sources \ {s} : sources'[u] = sources[u]
<1>1. /\ DOMAIN sources' = DOMAIN sources \cup {s} /\ Table(sources, DOMAIN sources)'
      /\ sources'[s] = r /\ \A u \in DOMAIN sources \ {s} : sources'[u] = sources[u]
  BY DEF Sound!Put, Table
<1>2. \A u \in DOMAIN sources : IsSource(sources[u]) BY DEF PlaybackInv
<1> QED BY <1>1, <1>2

LEMMA KnownSource ==
    ASSUME PlaybackInv, NEW s
    PROVE  /\ IsSource(Sound!Known(s)) /\ IsSource(Sound!NewSource)
           /\ s \in DOMAIN sources => Sound!Known(s) = sources[s]
<1>1. IsSource(Sound!NewSource) BY DEF Sound!NewSource, IsSource
<1> QED BY <1>1 DEF Sound!Known, PlaybackInv

LEMMA RetiredSource ==
    ASSUME PlaybackInv
    PROVE  /\ Sound!Retired = playing \/ (Sound!Retired = 0 /\ sink.count = 0)
           /\ Sound!Retired # 0 => Sound!Retired = playing /\ playing \in DOMAIN sources
BY DEF Sound!Retired, Sound!None, PlaybackInv

\* A call that puts one source in its place and leaves the sink its gain and its sounds.
LEMMA PutKeeps ==
    ASSUME PlaybackInv, NEW s, NEW r, IsSource(r), sources' = Sound!Put(sources, s, r),
           playing' \in {0, playing, s}
    PROVE  SourcesTyped'
<1>1. /\ DOMAIN sources' = DOMAIN sources \cup {s} /\ Table(sources, DOMAIN sources)'
      /\ \A u \in DOMAIN sources' : IsSource(sources'[u])
  BY PutSource
<1>2. playing # 0 => playing \in DOMAIN sources BY DEF PlaybackInv
<1> QED BY <1>1, <1>2 DEF SourcesTyped

LEMMA SameSound ==
    ASSUME PlaybackInv, NEW s, NEW r, IsSource(r), sources' = Sound!Put(sources, s, r),
           playing' = playing
    PROVE  /\ playing # s \/ r.path = sources[s].path => What' = What
           /\ playing # 0 /\ (playing # s \/ r.volume = sources[s].volume) /\ ringtone' = ringtone
                => OwnGain' = OwnGain
<1>1. playing # 0 => playing \in DOMAIN sources BY DEF PlaybackInv
<1>2. sources'[s] = r /\ \A u \in DOMAIN sources \ {s} : sources'[u] = sources[u]
  BY PutSource
<1> QED BY <1>1, <1>2 DEF What, OwnGain, Sound!Gain

LEMMA ReplyKeeps ==
    ASSUME PlaybackInv, NEW r \in ReplyPorts, NEW s \in SourceIds,
           Sound!observe_service_source_create_reply(r, s)
    PROVE  PlaybackInv'
<1> PICK path : path = Head(requested[r]) OBVIOUS
<1> DEFINE ends == Sound!Changes(s, path) /\ playing = s
           x == [Sound!NewSource EXCEPT !.path = path, !.mode = stopMode]
<1>1. /\ todo = << >> /\ sources' = Sound!Put(sources, s, x)
      /\ playing' = IF ends THEN 0 ELSE playing
      /\ todo' = IF ends THEN Sound!Stops(IF s \in DOMAIN sources THEN sources[s].mode ELSE stopMode)
                 ELSE << >>
      /\ UNCHANGED <<ringtone, sink, orphans>>
  BY DEF Sound!observe_service_source_create_reply, Sound!None
<1>2. restated' <=> (restated \/ (playing = s /\ ~ends))
  BY Zenon DEF Sound!observe_service_source_create_reply
<1>3. IsSource(x) /\ x.path = path BY DEF Sound!NewSource, IsSource
<1>4. s # 0 BY PlaybackSizes
<1>5. playing = s /\ ~ends => path = sources[s].path
  BY <1>4 DEF Sound!Changes, Sound!Known, PlaybackInv
<1> HIDE DEF ends, x
<1>6. SourcesTyped' BY <1>1, <1>3, PutKeeps
<1>7. Len(todo) = 0 BY <1>1, EmptyList
<1>8. CASE ends
  <2>1. IsList(todo)' /\ Len(todo)' = 1 /\ todo'[1].do = "stop" /\ playing' = 0
    BY <1>1, <1>8, StepsAre
  <2>2. Plan' BY <2>1 DEF Plan
  <2> QED BY <1>1, <1>6, <1>7, <2>1, <2>2, CallKeeps DEF GainKept, SoundKept
<1>9. CASE ~ends
  <2>1. IsList(todo)' /\ Len(todo)' = 0 /\ playing' = playing BY <1>1, <1>9, EmptyList
  <2>2. Plan' BY <2>1 DEF Plan
  <2>3. What' = What BY <1>1, <1>3, <1>5, <1>9, <2>1, SameSound
  <2>4. playing # 0 /\ playing # s => OwnGain' = OwnGain BY <1>1, <1>3, <2>1, SameSound
  <2>5. GainKept BY <1>2, <1>9, <2>1, <2>4 DEF GainKept
  <2>6. SoundKept BY <1>1, <2>3 DEF SoundKept
  <2> QED BY <1>1, <1>6, <1>7, <2>1, <2>2, <2>5, <2>6, CallKeeps
<1> QED BY <1>8, <1>9

LEMMA VolumeKeeps ==
    ASSUME PlaybackInv, NEW s \in SourceIds, NEW v \in Volumes, Sound!SetUserVolume(s, v)
    PROVE  PlaybackInv'
<1> PICK retired : retired = Sound!Retired OBVIOUS
<1> DEFINE x == [Sound!Known(s) EXCEPT !.volume = v]
<1>1. /\ todo = << >> /\ sources' = Sound!Put(sources, s, x) /\ playing' = retired
      /\ todo' = IF retired = s THEN Sound!SetsGain(v) ELSE << >>
      /\ UNCHANGED <<ringtone, sink, orphans>>
  BY DEF Sound!SetUserVolume
<1>2. restated' <=> (restated /\ retired # s) BY Zenon DEF Sound!SetUserVolume
<1>3. IsSource(x) /\ x.path = Sound!Known(s).path /\ x.volume = v
  BY KnownSource DEF IsSource
<1>4. s # 0 /\ v # -1 BY PlaybackSizes
<1>5. /\ retired = playing \/ (retired = 0 /\ sink.count = 0)
      /\ retired # 0 => retired = playing /\ playing \in DOMAIN sources
      /\ s \in DOMAIN sources => Sound!Known(s) = sources[s]
  BY RetiredSource, KnownSource
<1> HIDE DEF x
<1>6. SourcesTyped' BY <1>1, <1>3, <1>5, PutKeeps
<1>7. Len(todo) = 0 BY <1>1, EmptyList
<1>8. SoundKept
  <2>1. CASE sink.count = 0 BY <2>1 DEF SoundKept
  <2>2. CASE retired = playing
    <3>1. playing = s => x.path = sources[s].path BY <1>3, <1>4, <1>5, <2>2
    <3>2. What' = What BY <1>1, <1>3, <2>2, <3>1, SameSound
    <3> QED BY <1>1, <3>2 DEF SoundKept
  <2> QED BY <1>5, <2>1, <2>2
<1>9. CASE retired = s
  <2>1. /\ IsList(todo)' /\ Len(todo)' = 1 /\ todo'[1].do = "gain" /\ todo'[1].to = v
    BY <1>1, <1>9, StepsAre
  <2>2. sources'[s] = x BY <1>1, <1>3, PutSource
  <2>3. OwnGain' = v BY <1>1, <1>3, <1>4, <1>9, <2>2 DEF OwnGain, Sound!Gain, Sound!Unset
  <2>4. Plan' BY <2>1, <2>3 DEF Plan, GainStep
  <2> QED BY <1>1, <1>6, <1>7, <1>8, <2>1, <2>4, CallKeeps DEF GainKept
<1>10. CASE retired # s
  <2>1. IsList(todo)' /\ Len(todo)' = 0 BY <1>1, <1>10, EmptyList
  <2>2. Plan' BY <2>1 DEF Plan
  <2>3. playing' # 0 => playing' = playing /\ OwnGain' = OwnGain
    BY <1>1, <1>3, <1>5, <1>10, SameSound
  <2>4. GainKept BY <1>2, <1>10, <2>3 DEF GainKept
  <2> QED BY <1>1, <1>6, <1>7, <1>8, <2>1, <2>2, <2>4, CallKeeps
<1> QED BY <1>9, <1>10

LEMMA StopRateKeeps ==
    ASSUME PlaybackInv, NEW s \in SourceIds, Sound!StopRate(s) PROVE PlaybackInv'
<1> PICK retired : retired = Sound!Retired OBVIOUS
<1> DEFINE x == [Sound!Known(s) EXCEPT !.rate = 0]
<1>1. /\ todo = << >> /\ sources' = Sound!Put(sources, s, x)
      /\ playing' = IF retired = s THEN 0 ELSE retired
      /\ todo' = IF retired = s THEN Sound!Stops(Sound!Known(s).mode) ELSE << >>
      /\ UNCHANGED <<ringtone, sink, orphans, restated>>
  BY DEF Sound!StopRate, Sound!None
<1>3. IsSource(x) BY KnownSource DEF IsSource
<1>5. /\ retired = playing \/ (retired = 0 /\ sink.count = 0)
      /\ retired # 0 => retired = playing /\ playing \in DOMAIN sources
  BY RetiredSource
<1> HIDE DEF x
<1>6. SourcesTyped' BY <1>1, <1>3, <1>5, PutKeeps
<1>7. Len(todo) = 0 BY <1>1, EmptyList
<1>8. CASE retired = s
  <2>1. IsList(todo)' /\ Len(todo)' = 1 /\ todo'[1].do = "stop" /\ playing' = 0
    BY <1>1, <1>8, StepsAre
  <2>2. Plan' BY <2>1 DEF Plan
  <2> QED BY <1>1, <1>6, <1>7, <2>1, <2>2, CallKeeps DEF GainKept, SoundKept
<1>9. CASE retired # s
  <2>1. IsList(todo)' /\ Len(todo)' = 0 /\ playing' = retired BY <1>1, <1>9, EmptyList
  <2>2. Plan' BY <2>1 DEF Plan
  <2>3. playing' # 0 => playing' = playing /\ OwnGain' = OwnGain
    BY <1>1, <1>3, <1>5, <1>9, <2>1, SameSound
  <2>4. GainKept BY <1>1, <2>3 DEF GainKept
  <2>5. playing' = playing => What' = What BY <1>1, <1>3, <1>9, <2>1, SameSound
  <2>6. SoundKept BY <1>1, <1>5, <2>1, <2>5 DEF SoundKept
  <2> QED BY <1>1, <1>6, <1>7, <2>1, <2>2, <2>4, <2>6, CallKeeps
<1> QED BY <1>8, <1>9

LEMMA StartRateKeeps ==
    ASSUME PlaybackInv, NEW s \in SourceIds, Sound!StartRate(s) PROVE PlaybackInv'
<1> PICK retired : retired = Sound!Retired OBVIOUS
<1> PICK known : known = Sound!Known(s) OBVIOUS
<1> PICK g : g = Sound!Gain(known) OBVIOUS
<1> DEFINE x == [known EXCEPT !.rate = 1]
           starts == known.path # Sound!NoPath /\ retired # s
           mode == IF retired # 0 THEN Sound!Known(retired).mode ELSE known.mode
           fails == known.path \in Unplayable
           stops == Sound!Stops(mode)
           gains == Sound!SetsGain(g)
           plays == Sound!Plays(s, known.path, FileFrames)
<1>1. /\ todo = << >> /\ sources' = Sound!Put(sources, s, x)
      /\ playing' = IF ~starts THEN retired ELSE IF fails THEN 0 ELSE s
      /\ todo' = IF starts /\ ~fails THEN stops \o gains \o plays ELSE << >>
      /\ orphans' = IF starts /\ fails /\ retired # 0 THEN orphans \cup {sources[retired].path}
                    ELSE orphans
      /\ UNCHANGED <<ringtone, sink, restated>>
  BY DEF Sound!StartRate, Sound!None
<1>3. /\ IsSource(x) /\ x.path = known.path /\ x.volume = known.volume
      /\ s \in DOMAIN sources => known = sources[s]
  BY KnownSource DEF IsSource
<1>4. s # 0 /\ FileFrames \in Nat BY PlaybackSizes
<1>5. /\ retired = playing \/ (retired = 0 /\ sink.count = 0)
      /\ retired # 0 => retired = playing /\ playing \in DOMAIN sources
  BY RetiredSource
<1>6. /\ IsList(stops) /\ Len(stops) = 1 /\ stops[1].do = "stop"
      /\ IsList(gains) /\ Len(gains) = 1 /\ gains[1].do = "gain" /\ gains[1].to = g
      /\ IsList(plays) /\ Len(plays) = 1 /\ plays[1].do = "play" /\ plays[1].by = s
      /\ plays[1].of = known.path /\ plays[1].frames = FileFrames
  BY StepsAre
<1>7. playing # 0 /\ playing = s => x.path = sources[s].path /\ x.volume = sources[s].volume
  BY <1>3 DEF PlaybackInv
<1> HIDE DEF x, starts, mode, fails, stops, gains, plays
<1>8. SourcesTyped' BY <1>1, <1>3, <1>5, PutKeeps
<1>9. Len(todo) = 0 BY <1>1, EmptyList
<1>10. CASE ~starts
  <2>1. IsList(todo)' /\ Len(todo)' = 0 /\ playing' = retired BY <1>1, <1>10, EmptyList
  <2>2. Plan' BY <2>1 DEF Plan
  <2>3. playing' # 0 => playing' = playing /\ OwnGain' = OwnGain
    BY <1>1, <1>3, <1>5, <1>7, <2>1, SameSound
  <2>4. GainKept BY <1>1, <2>3 DEF GainKept
  <2>5. playing' = playing => What' = What
    <3>1. CASE playing = 0 BY <3>1 DEF What
    <3>2. CASE playing # 0 BY <1>1, <1>3, <1>7, <3>2, SameSound
    <3> QED BY <3>1, <3>2
  <2>6. SoundKept BY <1>1, <1>5, <1>10, <2>1, <2>5 DEF SoundKept
  <2> QED BY <1>1, <1>8, <1>9, <2>1, <2>2, <2>4, <2>6, CallKeeps
<1>11. CASE starts /\ fails
  <2>1. IsList(todo)' /\ Len(todo)' = 0 /\ playing' = 0 BY <1>1, <1>11, EmptyList
  <2>2. Plan' BY <2>1 DEF Plan
  <2>3. What' = Sound!Pcm BY <2>1 DEF What
  <2>4. CASE sink.count = 0 \/ playing = 0
    <3>1. SoundKept BY <1>1, <2>3, <2>4 DEF SoundKept, What
    <3> QED BY <1>1, <1>8, <1>9, <2>1, <2>2, <3>1, CallKeeps DEF GainKept
  <2>5. CASE ~(sink.count = 0 \/ playing = 0)
    <3>1. orphans' = orphans \cup {What} BY <1>1, <1>5, <1>11, <2>5 DEF What
    <3>2. SoundKept BY <3>1 DEF SoundKept
    <3> QED BY <1>1, <1>8, <1>9, <2>1, <2>2, <3>2, CallKeeps DEF GainKept
  <2> QED BY <2>4, <2>5
<1>12. CASE starts /\ ~fails
  <2> DEFINE two == stops \o gains
  <2>1. IsList(two) /\ Len(two) = 2 /\ two[1] = stops[1] /\ two[2] = gains[1]
    BY <1>6, TwoSteps
  <2> HIDE DEF two
  <2>2. /\ IsList(two \o plays) /\ Len(two \o plays) = 3 /\ (two \o plays)[1] = two[1]
        /\ (two \o plays)[2] = two[2] /\ (two \o plays)[3] = plays[1]
    BY <1>6, <2>1, ThreeSteps
  <2>3. todo' = two \o plays BY <1>1, <1>12 DEF two
  <2>4. /\ IsList(todo)' /\ Len(todo)' = 3 /\ todo'[1] = stops[1]
        /\ todo'[2] = gains[1] /\ todo'[3] = plays[1] /\ playing' = s
    BY <1>1, <1>12, <2>1, <2>2, <2>3
  <2>5. sources'[s] = x BY <1>1, <1>3, PutSource
  <2>6. OwnGain' = g BY <1>1, <1>3, <2>4, <2>5 DEF OwnGain, Sound!Gain
  <2>7. What' = known.path BY <1>3, <1>4, <2>4, <2>5 DEF What
  <2>8. GainStep(todo[2])' BY <1>6, <2>4, <2>6 DEF GainStep
  <2>9. PlayStep(todo[3])' BY <1>4, <1>6, <2>4, <2>7 DEF PlayStep
  <2>10. Plan' BY <1>4, <1>6, <2>4, <2>8, <2>9 DEF Plan
  <2>11. GainKept /\ SoundKept BY <1>6, <2>4 DEF GainKept, SoundKept
  <2> QED BY <1>1, <1>8, <1>9, <2>4, <2>10, <2>11, CallKeeps
<1> QED BY <1>10, <1>11, <1>12

LEMMA StopModeKeeps ==
    ASSUME PlaybackInv, NEW mode, Sound!observe_service_output_stop_mode(mode)
    PROVE  PlaybackInv'
<1> PICK retired : retired = Sound!Retired OBVIOUS
<1> PICK named : named = {latest, retired} OBVIOUS
<1>1. /\ todo = << >> /\ playing' = retired
      /\ sources' = [s \in DOMAIN sources |->
                       IF s \in named THEN [sources[s] EXCEPT !.mode = mode] ELSE sources[s]]
      /\ UNCHANGED <<ringtone, sink, todo, orphans, restated>>
  BY DEF Sound!observe_service_output_stop_mode
<1>2. /\ retired = playing \/ (retired = 0 /\ sink.count = 0)
      /\ retired # 0 => retired = playing /\ playing \in DOMAIN sources
  BY RetiredSource
<1>3. DOMAIN sources' = DOMAIN sources /\ Table(sources, DOMAIN sources)'
  BY <1>1 DEF Table
<1>4. ASSUME NEW s \in DOMAIN sources
      PROVE  /\ IsSource(sources'[s]) /\ sources'[s].path = sources[s].path
             /\ sources'[s].volume = sources[s].volume
  <2> DEFINE r == [sources[s] EXCEPT !.mode = mode]
  <2>1. IsSource(sources[s]) BY DEF PlaybackInv
  <2>2. IsSource(r) /\ r.path = sources[s].path /\ r.volume = sources[s].volume
    BY <2>1 DEF IsSource
  <2>3. sources'[s] = IF s \in named THEN r ELSE sources[s] BY <1>1
  <2> HIDE DEF r
  <2> QED BY <2>1, <2>2, <2>3
<1>5. SourcesTyped' BY <1>1, <1>2, <1>3, <1>4 DEF SourcesTyped
<1>6. Len(todo) = 0 /\ Len(todo)' = 0 /\ IsList(todo)' BY <1>1, EmptyList
<1>7. Plan' BY <1>6 DEF Plan
<1>8. playing' # 0 => playing' = playing /\ What' = What /\ OwnGain' = OwnGain
  BY <1>1, <1>2, <1>4 DEF What, OwnGain, Sound!Gain
<1>9. playing' = 0 => sink.count = 0 \/ What' = What BY <1>1, <1>2 DEF What
<1>10. GainKept BY <1>1, <1>8 DEF GainKept
<1>11. SoundKept BY <1>1, <1>8, <1>9 DEF SoundKept
<1> QED BY <1>1, <1>5, <1>6, <1>7, <1>10, <1>11, CallKeeps

LEMMA RingtoneKeeps ==
    ASSUME PlaybackInv, NEW v, Sound!observe_category_volume(v) PROVE PlaybackInv'
<1> PICK ops : ops = Sound!CategoryGain(v) OBVIOUS
<1>1. /\ todo = << >> /\ ringtone' = v /\ todo' = ops
      /\ UNCHANGED <<sources, playing, sink, orphans>>
  BY DEF Sound!observe_category_volume
<1>2. restated' <=> (restated /\ ops = << >>) BY Zenon DEF Sound!observe_category_volume
<1>3. Len(todo) = 0 BY <1>1, EmptyList
<1>4. SourcesTyped' BY <1>1 DEF SourcesTyped, PlaybackInv, Table
<1>5. What' = What BY <1>1 DEF What
<1>6. SoundKept BY <1>1, <1>5 DEF SoundKept
<1>7. CASE playing # 0 /\ playing \in DOMAIN sources /\ sources[playing].volume = Sound!Unset
  <2>1. ops = Sound!SetsGain(v) BY <1>7 DEF Sound!CategoryGain, Sound!None
  <2>2. /\ IsList(todo)' /\ Len(todo)' = 1 /\ todo'[1].do = "gain" /\ todo'[1].to = v
    BY <1>1, <2>1, StepsAre
  <2>3. OwnGain' = v BY <1>1, <1>7 DEF OwnGain, Sound!Gain
  <2>4. Plan' BY <2>2, <2>3 DEF Plan, GainStep
  <2> QED BY <1>1, <1>3, <1>4, <1>6, <2>2, <2>4, CallKeeps DEF GainKept
<1>8. CASE ~(playing # 0 /\ playing \in DOMAIN sources /\ sources[playing].volume = Sound!Unset)
  <2>1. ops = << >> BY <1>8 DEF Sound!CategoryGain, Sound!None
  <2>2. IsList(todo)' /\ Len(todo)' = 0 BY <1>1, <2>1, EmptyList
  <2>3. Plan' BY <2>2 DEF Plan
  <2>4. playing # 0 => OwnGain' = OwnGain BY <1>1, <1>8 DEF OwnGain, Sound!Gain, PlaybackInv
  <2>5. GainKept BY <1>1, <1>2, <2>1, <2>4 DEF GainKept
  <2> QED BY <1>1, <1>3, <1>4, <1>6, <2>2, <2>3, <2>5, CallKeeps
<1> QED BY <1>7, <1>8

LEMMA PeriodKeeps ==
    ASSUME PlaybackInv, NEW native \in BOOLEAN, NEW n \in {0, 1}, Sound!CompletePeriod(native, n)
    PROVE  PlaybackInv'
<1> PICK retired : retired = Sound!Retired OBVIOUS
<1> PICK g : g = IF native THEN Sound!Max(Volumes) ELSE deviceVolume OBVIOUS
<1> DEFINE gains == Sound!SetsGain(g)
           plays == Sound!Plays(0, Sound!Pcm, n)
           rest == IF n = 0 THEN << >> ELSE plays
<1>1. /\ todo = << >> /\ playing' = retired
      /\ todo' = IF retired # 0 THEN << >> ELSE gains \o rest
      /\ UNCHANGED <<sources, ringtone, sink, orphans, restated>>
  BY DEF Sound!CompletePeriod, Sound!None
<1>2. /\ retired = playing \/ (retired = 0 /\ sink.count = 0)
      /\ retired # 0 => retired = playing /\ playing \in DOMAIN sources
  BY RetiredSource
<1>3. /\ IsList(gains) /\ Len(gains) = 1 /\ gains[1].do = "gain"
      /\ IsList(plays) /\ Len(plays) = 1 /\ plays[1].do = "play" /\ plays[1].by = 0
      /\ plays[1].of = Sound!Pcm /\ plays[1].frames = n
  BY StepsAre
<1>4. n # 0 => rest = plays OBVIOUS
<1>5. n = 0 => rest = << >> OBVIOUS
<1> HIDE DEF gains, plays, rest
<1>6. Len(todo) = 0 BY <1>1, EmptyList
<1>7. SourcesTyped' BY <1>1, <1>2 DEF SourcesTyped, PlaybackInv, Table
<1>8. playing' = playing => What' = What /\ (playing # 0 => OwnGain' = OwnGain)
  BY <1>1 DEF What, OwnGain, Sound!Gain
<1>9. SoundKept BY <1>1, <1>2, <1>8 DEF SoundKept
<1>10. GainKept BY <1>1, <1>2, <1>8 DEF GainKept
<1>11. CASE retired # 0
  <2>1. IsList(todo)' /\ Len(todo)' = 0 BY <1>1, <1>11, EmptyList
  <2>2. Plan' BY <2>1 DEF Plan
  <2> QED BY <1>1, <1>6, <1>7, <1>9, <1>10, <2>1, <2>2, CallKeeps
<1>12. CASE retired = 0 /\ n = 0
  <2> DEFINE q == gains \o rest
  <2>1. IsJoined(q, gains, rest) /\ Len(rest) = 0 BY <1>3, <1>5, <1>12, EmptyList, Joined
  <2> HIDE DEF q
  <2>2. IsList(q) /\ Len(q) = 1 /\ q[1] = gains[1] BY <1>3, <2>1 DEF IsJoined
  <2>3. todo' = q /\ playing' = 0 BY <1>1, <1>12 DEF q
  <2>4. Plan' BY <1>3, <2>2, <2>3 DEF Plan, GainStep
  <2> QED BY <1>1, <1>6, <1>7, <1>9, <1>10, <2>2, <2>3, <2>4, CallKeeps
<1>13. CASE retired = 0 /\ n # 0
  <2> DEFINE q == gains \o rest
  <2>1. IsList(q) /\ Len(q) = 2 /\ q[1] = gains[1] /\ q[2] = plays[1]
    BY <1>3, <1>4, <1>13, TwoSteps
  <2> HIDE DEF q
  <2>2. todo' = q /\ playing' = 0 BY <1>1, <1>13 DEF q
  <2>3. What' = Sound!Pcm BY <2>2 DEF What
  <2>4. GainStep(todo[1])' BY <1>3, <2>1, <2>2 DEF GainStep
  <2>5. PlayStep(todo[2])' BY <1>3, <2>1, <2>2, <2>3 DEF PlayStep
  <2>6. Plan' BY <2>1, <2>2, <2>4, <2>5 DEF Plan
  <2> QED BY <1>1, <1>6, <1>7, <1>9, <1>10, <2>1, <2>2, <2>6, CallKeeps
<1> QED BY <1>11, <1>12, <1>13

\* A step of the call in progress.  Each kind has its place in the plan.
LEMMA SinkStops ==
    ASSUME PlaybackInv, NEW o, IsList(todo), Len(todo) > 0, o = todo[1], o.do = "stop",
           todo' = Tail(todo), sink' = Sound!stop(sink, o.mode), orphans' = {},
           UNCHANGED <<sources, playing, ringtone>>
    PROVE  PlaybackInv'
<1>1. /\ IsList(todo)' /\ Len(todo)' = Len(todo) - 1 /\ Len(todo) \in Nat
      /\ \A i \in 1 .. Len(todo) - 1 : todo'[i] = todo[i + 1]
  BY RestOf
<1>2. GoodSink(sink)' /\ Faded(sink)' BY StopsSink DEF PlaybackInv
<1>3. SourcesTyped' BY DEF SourcesTyped, PlaybackInv, Table
<1>4. What' = What /\ OwnGain' = OwnGain BY DEF What, OwnGain, Sound!Gain
<1>5. Heard(sink, {What} \cup orphans)' BY <1>2 DEF Heard, Faded, GoodSink
<1>6. \/ Len(todo) = 1 /\ playing = 0
      \/ Len(todo) = 3 /\ GainStep(todo[2]) /\ PlayStep(todo[3]) /\ playing # 0
  BY DEF PlaybackInv, Plan, GainStep, PlayStep
<1>7. CASE Len(todo) = 1 /\ playing = 0
  <2>1. Len(todo)' = 0 /\ playing' = 0 BY <1>1, <1>7
  <2>2. Plan' BY <2>1 DEF Plan
  <2> QED BY <1>1, <1>2, <1>3, <1>5, <2>1, <2>2 DEF PlaybackInv, SourcesTyped
<1>8. CASE Len(todo) = 3 /\ GainStep(todo[2]) /\ PlayStep(todo[3])
  <2>1. 1 \in 1 .. Len(todo) - 1 /\ 2 \in 1 .. Len(todo) - 1 BY <1>8
  <2>2. todo'[1] = todo[1 + 1] /\ todo'[2] = todo[2 + 1] BY <1>1, <2>1
  <2>3. Len(todo)' = 2 /\ todo'[1] = todo[2] /\ todo'[2] = todo[3]
    <3>1. 1 + 1 = 2 /\ 2 + 1 = 3 OBVIOUS
    <3>2. Len(todo)' = 2 BY <1>1, <1>8
    <3>3. todo'[1] = todo[2] BY <2>2, <3>1
    <3>4. todo'[2] = todo[3] BY <2>2, <3>1
    <3> QED BY <3>2, <3>3, <3>4
  <2>4. GainStep(todo[1])' BY <1>4, <1>8, <2>3 DEF GainStep
  <2>5. PlayStep(todo[2])' BY <1>4, <1>8, <2>3 DEF PlayStep
  <2>6. Plan' BY <1>2, <2>3, <2>4, <2>5 DEF Plan
  <2> QED BY <1>1, <1>2, <1>3, <1>5, <2>3, <2>6 DEF PlaybackInv, SourcesTyped
<1> QED BY <1>6, <1>7, <1>8

LEMMA SinkGains ==
    ASSUME PlaybackInv, NEW o, IsList(todo), Len(todo) > 0, o = todo[1], o.do = "gain",
           todo' = Tail(todo), sink' = [sink EXCEPT !.gain = o.to],
           UNCHANGED <<sources, playing, ringtone, orphans, restated>>
    PROVE  PlaybackInv'
<1>1. /\ IsList(todo)' /\ Len(todo)' = Len(todo) - 1 /\ Len(todo) \in Nat
      /\ \A i \in 1 .. Len(todo) - 1 : todo'[i] = todo[i + 1]
  BY RestOf
<1> PICK to : to = o.to OBVIOUS
<1> DEFINE k == [sink EXCEPT !.gain = to]
<1>2. /\ k \in [queue : {sink.queue}, count : Nat, fade : Nat, lead : Nat,
                needsLead : {sink.needsLead}, gain : {to}]
      /\ k.queue = sink.queue /\ k.count = sink.count /\ k.fade = sink.fade
      /\ k.lead = sink.lead /\ k.gain = to
  BY DEF PlaybackInv, GoodSink
<1>3. sink' = k OBVIOUS
<1> HIDE DEF k
<1>4. GoodSink(k) BY <1>2 DEF PlaybackInv, GoodSink
<1>5. Heard(k, {What} \cup orphans)
  <2>1. Heard(sink, {What} \cup orphans) BY DEF PlaybackInv
  <2> QED BY <1>2, <2>1 DEF Heard
<1>6. Faded(sink) => Faded(k) BY <1>2 DEF Faded
<1>7. SourcesTyped' BY DEF SourcesTyped, PlaybackInv, Table
<1>8. What' = What /\ OwnGain' = OwnGain BY DEF What, OwnGain, Sound!Gain
<1>9. GoodSink(sink)' /\ Heard(sink, {What} \cup orphans)' BY <1>3, <1>4, <1>5, <1>8
<1>10. playing # 0 => to = OwnGain BY DEF PlaybackInv, Plan, GainStep, PlayStep
<1>11. playing' # 0 => sink'.gain = OwnGain' BY <1>2, <1>3, <1>8, <1>10
<1>12. \/ Len(todo) = 1
       \/ Len(todo) = 2 /\ PlayStep(todo[2]) /\ (playing # 0 => Faded(sink))
  BY DEF PlaybackInv, Plan, GainStep, PlayStep
<1>13. CASE Len(todo) = 1
  <2>1. Len(todo)' = 0 BY <1>1, <1>13
  <2>2. Plan' BY <2>1 DEF Plan
  <2> QED BY <1>1, <1>7, <1>9, <1>11, <2>2 DEF PlaybackInv, SourcesTyped
<1>14. CASE Len(todo) = 2 /\ PlayStep(todo[2]) /\ (playing # 0 => Faded(sink))
  <2>1. 1 \in 1 .. Len(todo) - 1 BY <1>14
  <2>2. todo'[1] = todo[1 + 1] BY <1>1, <2>1
  <2>3. Len(todo)' = 1 /\ todo'[1] = todo[2] BY <1>1, <1>14, <2>2
  <2>4. PlayStep(todo[1])' BY <1>8, <1>14, <2>3 DEF PlayStep
  <2>5. playing' # 0 => Faded(sink') BY <1>3, <1>6, <1>14
  <2>6. Plan' BY <1>11, <2>3, <2>4, <2>5 DEF Plan
  <2> QED BY <1>1, <1>7, <1>9, <1>11, <2>6 DEF PlaybackInv, SourcesTyped
<1> QED BY <1>12, <1>13, <1>14

\* What is about to play is the last step, and has its gain.
LEMMA PlaysNext ==
    ASSUME PlaybackInv, Len(todo) > 0, todo[1].do = "play"
    PROVE  /\ Len(todo) = 1 /\ PlayStep(todo[1])
           /\ playing # 0 => Faded(sink) /\ sink.gain = OwnGain
           /\ GoodSink(sink) /\ Heard(sink, {What} \cup orphans)
BY DEF PlaybackInv, Plan, GainStep, PlayStep

LEMMA SinkPlays ==
    ASSUME PlaybackInv, NEW o, IsList(todo), Len(todo) > 0, o = todo[1], o.do = "play",
           todo' = Tail(todo), sink' = Sound!play(sink, o.of, o.frames),
           UNCHANGED <<sources, playing, ringtone, orphans, restated>>
    PROVE  PlaybackInv'
<1>1. IsList(todo)' /\ Len(todo)' = Len(todo) - 1 BY RestOf
<1>2. /\ Len(todo) = 1 /\ PlayStep(o) /\ (playing # 0 => Faded(sink) /\ sink.gain = OwnGain)
      /\ GoodSink(sink) /\ Heard(sink, {What} \cup orphans)
  BY PlaysNext
<1>3. What' = What /\ OwnGain' = OwnGain BY DEF What, OwnGain, Sound!Gain
<1> PICK from : from = What OBVIOUS
<1> PICK n : n = o.frames OBVIOUS
<1>4. o.of = from /\ n \in Nat BY <1>2 DEF PlayStep
<1>5. sink.lead > 0 => from = Sound!Pcm BY <1>2 DEF Faded, What
<1> DEFINE k == Sound!play(sink, from, n)
<1>6. GoodSink(k) /\ Heard(k, {from} \cup orphans) /\ k.gain = sink.gain
  BY <1>2, <1>4, <1>5, PlaysSink
<1>7. sink' = k BY <1>4
<1> HIDE DEF k
<1>8. SourcesTyped' BY DEF SourcesTyped, PlaybackInv, Table
<1>9. Len(todo)' = 0 BY <1>1, <1>2
<1>10. Plan' BY <1>9 DEF Plan
<1>11. GoodSink(sink)' /\ Heard(sink, {What} \cup orphans)' BY <1>3, <1>6, <1>7
<1>12. playing' # 0 => sink'.gain = OwnGain' BY <1>2, <1>3, <1>6, <1>7
<1> QED BY <1>1, <1>8, <1>10, <1>11, <1>12 DEF PlaybackInv, SourcesTyped

LEMMA SinkRefuses ==
    ASSUME PlaybackInv, NEW o, IsList(todo), Len(todo) > 0, o = todo[1], o.do = "play",
           todo' = Tail(todo), playing' = IF o.by = playing THEN 0 ELSE playing,
           UNCHANGED <<sources, sink, ringtone, orphans, restated>>
    PROVE  PlaybackInv'
<1>1. IsList(todo)' /\ Len(todo)' = Len(todo) - 1 BY RestOf
<1>2. /\ Len(todo) = 1 /\ PlayStep(o) /\ (playing # 0 => Faded(sink))
      /\ GoodSink(sink) /\ Heard(sink, {What} \cup orphans)
  BY PlaysNext
<1>3. playing' = 0 BY <1>2 DEF PlayStep
<1>4. What' = Sound!Pcm BY <1>3 DEF What
<1>5. Heard(sink, {Sound!Pcm} \cup orphans)
  <2>1. CASE playing = 0 BY <1>2, <2>1 DEF What
  <2>2. CASE playing # 0 BY <1>2, <2>2 DEF Heard, Faded, GoodSink
  <2> QED BY <2>1, <2>2
<1>6. SourcesTyped' BY <1>3 DEF SourcesTyped, PlaybackInv, Table
<1>7. Len(todo)' = 0 BY <1>1, <1>2
<1>8. Plan' BY <1>7 DEF Plan
<1>9. GoodSink(sink)' /\ Heard(sink, {What} \cup orphans)' BY <1>2, <1>4, <1>5
<1> QED BY <1>1, <1>3, <1>6, <1>8, <1>9 DEF PlaybackInv, SourcesTyped

LEMMA SinkStepKeeps == ASSUME PlaybackInv, Sound!SinkStep PROVE PlaybackInv'
<1>1. /\ todo # << >> /\ todo' = Tail(todo) /\ UNCHANGED <<sources, ringtone>>
  BY DEF Sound!SinkStep
<1>2. IsList(todo) BY DEF PlaybackInv
<1>3. Len(todo) > 0
  <2> PICK T : todo \in Seq(T) BY <1>2 DEF IsList
  <2> QED BY <1>1
<1> PICK o : o = Head(todo) OBVIOUS
<1>4. o = todo[1] BY <1>2, <1>3, RestOf
<1>5. \/ /\ o.do = "stop" /\ sink' = Sound!stop(sink, o.mode)
         /\ orphans' = {} /\ restated' = FALSE /\ UNCHANGED playing
      \/ /\ o.do = "gain" /\ sink' = [sink EXCEPT !.gain = o.to]
         /\ UNCHANGED <<playing, orphans, restated>>
      \/ /\ o.do = "play" /\ sink' = Sound!play(sink, o.of, o.frames)
         /\ UNCHANGED <<playing, orphans, restated>>
      \/ /\ o.do = "play" /\ UNCHANGED <<sink, orphans, restated>>
         /\ playing' = IF o.by = playing THEN 0 ELSE playing
  BY Zenon DEF Sound!SinkStep, Sound!None
<1> QED BY <1>1, <1>2, <1>3, <1>4, <1>5, SinkStops, SinkGains, SinkPlays, SinkRefuses

LEMMA ConsumeKeeps == ASSUME PlaybackInv, Sound!consume PROVE PlaybackInv'
<1> DEFINE k == Sound!Consumed(sink)
<1>1. /\ sink' = k /\ UNCHANGED <<sources, playing, ringtone, todo, orphans, restated>>
  BY DEF Sound!consume
<1>2. /\ GoodSink(k) /\ k.gain = sink.gain /\ (k.count > 0 => sink.count > 0)
      /\ Heard(sink, {What} \cup orphans) => Heard(k, {What} \cup orphans)
      /\ Faded(sink) => Faded(k)
  BY ConsumesSink DEF PlaybackInv
<1> HIDE DEF k
<1>3. What' = What /\ OwnGain' = OwnGain BY <1>1 DEF What, OwnGain, Sound!Gain
<1>4. Plan' BY <1>1, <1>2, <1>3 DEF PlaybackInv, Plan, GainStep, PlayStep
<1>5. SourcesTyped' BY <1>1 DEF SourcesTyped, PlaybackInv, Table
<1>6. Len(todo) = 0 \/ todo[1].do # "stop" => Heard(k, {What} \cup orphans)
  BY <1>2 DEF PlaybackInv
<1>7. Len(todo) = 0 /\ playing # 0 /\ k.count > 0 /\ ~restated => k.gain = OwnGain
  BY <1>2 DEF PlaybackInv
<1>8. IsList(todo) BY DEF PlaybackInv
<1> QED BY <1>1, <1>2, <1>3, <1>4, <1>5, <1>6, <1>7, <1>8 DEF PlaybackInv, SourcesTyped

LEMMA PlaybackBegins == ASSUME Sound!PlaybackInit PROVE PlaybackInv
<1>1. /\ sources = << >> /\ playing = 0 /\ todo = << >>
      /\ sink = [queue |-> << >>, count |-> 0, fade |-> 0, lead |-> 0, needsLead |-> TRUE,
                 gain |-> Sound!Max(Volumes)]
  BY DEF Sound!PlaybackInit, Sound!None
<1>2. DOMAIN sources = {} /\ Table(sources, DOMAIN sources) BY <1>1, NoBreakpoints
<1>3. /\ sink.queue = << >> /\ sink.count = 0 /\ sink.fade = 0 /\ sink.lead = 0
      /\ sink \in [queue : {sink.queue}, count : Nat, fade : Nat, lead : Nat,
                   needsLead : {sink.needsLead}, gain : {sink.gain}]
  BY <1>1
<1>4. GoodSink(sink) BY <1>3, EmptyList DEF GoodSink
<1>5. IsList(todo) /\ Len(todo) = 0 BY <1>1, EmptyList
<1>6. Plan BY <1>5 DEF Plan
<1>7. Heard(sink, {What} \cup orphans)
  <2>1. Len(sink.queue) = 0 /\ sink.fade = 0 BY <1>3, EmptyList
  <2> QED BY <2>1 DEF Heard
<1> QED BY <1>1, <1>2, <1>4, <1>5, <1>6, <1>7 DEF PlaybackInv

LEMMA PlaybackStep == ASSUME PlaybackInv, Sound!PlaybackNext PROVE PlaybackInv'
<1>1. ASSUME NEW r, NEW path, Sound!observe_service_source_create_request(r, path)
      PROVE  PlaybackInv'
  BY <1>1, PlaybackStays DEF Sound!observe_service_source_create_request
<1>2. ASSUME NEW v, Sound!SetDeviceVolume(v) PROVE PlaybackInv'
  BY <1>2, PlaybackStays DEF Sound!SetDeviceVolume
<1> QED BY <1>1, <1>2, ReplyKeeps, VolumeKeeps, StopRateKeeps, StartRateKeeps, StopModeKeeps,
           RingtoneKeeps, PeriodKeeps, SinkStepKeeps, ConsumeKeeps DEF Sound!PlaybackNext

LEMMA PlaybackHolds ==
    ASSUME PlaybackInv
    PROVE  Sound!SinkCountsExact /\ Sound!SoundsOwned /\ Sound!GainFollowsSource
<1>1. /\ GoodSink(sink) /\ IsList(sink.queue) /\ (todo = << >> => Len(todo) = 0)
  BY EmptyList DEF PlaybackInv, GoodSink
<1>2. DOMAIN sink.queue = 1 .. Len(sink.queue)
  <2> PICK T : sink.queue \in Seq(T) BY <1>1 DEF IsList
  <2> QED OBVIOUS
<1>3. Sound!SinkCountsExact BY <1>1, <1>2 DEF GoodSink, Sound!SinkCountsExact
<1>4. Sound!SoundsOwned
  <2> SUFFICES ASSUME todo = << >>
               PROVE  Heard(sink, (IF playing = 0 THEN {Sound!Pcm} ELSE {sources[playing].path})
                                    \cup orphans)
    BY DEF Sound!SoundsOwned, Heard, Sound!None
  <2>1. Heard(sink, {What} \cup orphans) BY <1>1 DEF PlaybackInv
  <2>2. {What} = IF playing = 0 THEN {Sound!Pcm} ELSE {sources[playing].path} BY DEF What
  <2> QED BY <2>1, <2>2
<1>5. Sound!GainFollowsSource
  BY <1>1 DEF PlaybackInv, OwnGain, Sound!GainFollowsSource, Sound!None
<1> QED BY <1>3, <1>4, <1>5

AudioKept ==
    /\ mix = "callbacks" => CallbacksInv
    /\ mix = "playback" => PlaybackInv

\* A procedure and its thread name each other, it waits for a callback only while one
\* runs, and no running thread gets new registers (core_audio_hle.cpp); the sink's counts
\* are exact, and what is heard is what plays, at its volume (audio.cpp, sdl_audio_sink.cpp).
THEOREM SoundGoesOn == Spec => []AudioExact
<1>1. Init => AudioKept BY CallbacksBegin, PlaybackBegins DEF Init, AudioKept
<1>2. AudioKept /\ [Next]_vars => AudioKept'
  <2> SUFFICES ASSUME AudioKept, [Next]_vars PROVE AudioKept' OBVIOUS
  <2>1. ASSUME mix' = "callbacks" PROVE CallbacksInv'
    <3>1. CASE Next
      <4>1. mix = "callbacks" BY <2>1, <3>1 DEF Next
      <4>2. Sound!CallbacksNext BY <3>1, <4>1 DEF Next
      <4> QED BY <4>1, <4>2, CallbacksStep DEF AudioKept
    <3>2. CASE UNCHANGED vars
      <4>1. mix = "callbacks" /\ UNCHANGED callbacksVars BY <2>1, <3>2 DEF vars
      <4>2. CallbacksInv BY <4>1 DEF AudioKept
      <4>3. nextProc \in Nat \ {0} BY <4>2 DEF CallbacksInv
      <4> QED BY <4>1, <4>2, <4>3, CallbacksStay DEF callbacksVars
    <3> QED BY <3>1, <3>2
  <2>2. ASSUME mix' = "playback" PROVE PlaybackInv'
    <3>1. CASE Next
      <4>1. mix = "playback" BY <2>2, <3>1 DEF Next
      <4>2. Sound!PlaybackNext BY <3>1, <4>1 DEF Next
      <4> QED BY <4>1, <4>2, PlaybackStep DEF AudioKept
    <3>2. CASE UNCHANGED vars
      <4>1. mix = "playback" /\ UNCHANGED playbackVars BY <2>2, <3>2 DEF vars
      <4> QED BY <4>1, PlaybackStays DEF AudioKept, playbackVars
    <3> QED BY <3>1, <3>2
  <2> QED BY <2>1, <2>2 DEF AudioKept
<1>3. AudioKept => AudioExact BY CallbacksHold, PlaybackHolds DEF AudioKept, AudioExact
<1> QED BY <1>1, <1>2, <1>3, PTL DEF Spec
=============================================================================
