---------------------------- MODULE Replacements ----------------------------
(*****************************************************************************)
(* The replaced functions of one process (userland_hle.cpp).  The entry of   *)
(* a replaced function holds an SVC; the handler it traps to returns,        *)
(* calls a guest function, or lets the original run, and may ask to be       *)
(* called again when that ends: the return address becomes a trampoline      *)
(* whose SVC runs the continuation recorded under its address.  Calls may    *)
(* also be deferred to a later system call of the same processor, which is   *)
(* repeated when they end.  Threads stop at an SVC in parallel and are       *)
(* dispatched one after the other (main.cpp 2523-2553).  The bytes of a      *)
(* function are whether they are patched; registers are whether they are     *)
(* the ones the interrupted system call was made with.                       *)
(*                                                                           *)
(* Then the telephone calls of one process without a baseband                *)
(* (core_telephony_hle.cpp), the longest use of deferred calls.  Dialling    *)
(* lets the firmware make its own call object and records it under its       *)
(* address; ending a call answers at once and makes the firmware's           *)
(* disconnect notification in a chain of guest calls, each deferred by the   *)
(* completion of the one before: create a disconnected call, a dictionary,   *)
(* put the one into the other, call the client back, release both, forget    *)
(* the call.  The chain of one thread runs between the system calls of that  *)
(* thread, and client code runs inside its callback.  An object is its       *)
(* address; the symbols the chain calls are all present.  A chain needs of   *)
(* the trampolines only that each call returns: a state machine of its own.  *)
(*****************************************************************************)
EXTENDS Naturals, Sequences, FiniteSets
LOCAL INSTANCE TLC
LOCAL INSTANCE Functions
LOCAL INSTANCE Lists

CONSTANTS HleThreads, MainThread,     \* the process's processors, the first one
          Entries, ThumbEntries,      \* replaced functions; those in Thumb code
          MaxTrampolines, MaxDeferred, MaxDepth, MaxBirths

UserlandAssumption ==
    /\ MainThread \in HleThreads
    /\ ThumbEntries \subseteq Entries
    /\ {MaxTrampolines, MaxDeferred, MaxDepth, MaxBirths} \subseteq Nat \ {0}

VARIABLES
    pc,          \* thread -> guest code, or the SVC it stopped at
    returns,     \* thread -> return addresses of its active calls, innermost last
    born,        \* thread -> how many threads the processor has had
    arguments,   \* thread -> "own", or "other" once another call's registers are in
    images,      \* functions whose image is mapped
    patched,     \* functions whose entry holds the SVC
    installed,   \* installed_calls_
    parked,      \* pending_continuations_
    free,        \* available_continuation_trampolines_
    cursor,      \* continuation_trampoline_cursor_
    deferred,    \* deferred_guest_calls_
    raced,       \* history: functions restored while another thread was trapped at them
    skipped,     \* history: functions entered behind their first instruction
    hijacked,    \* history: trampolines a forked child returns through without a record
    bypassed,    \* history: functions mapped again over a record of the old mapping
    adopted      \* history: a deferred call was run by a later thread of its processor
uvars == <<pc, returns, born, arguments, images, patched, installed, parked, free,
           cursor, deferred, raced, skipped, hijacked, bypassed, adopted>>

Code == <<"code", "">>
Gone == <<"gone", "">>
Gate(k) == <<"gate", k>>
Entry(f) == <<"entry", f>>
Call(boundary) == <<"svc", boundary>>    \* svc 0x80; "receive" is a receive-only mach_msg

Init ==
    /\ pc = [t \in HleThreads |-> IF t = MainThread THEN Code ELSE Gone]
    /\ returns = [t \in HleThreads |-> <<>>]
    /\ born = [t \in HleThreads |-> IF t = MainThread THEN 1 ELSE 0]
    /\ arguments = [t \in HleThreads |-> "own"]
    /\ images = {} /\ patched = {} /\ installed = {}
    /\ parked = <<>> /\ free = <<>> /\ cursor = 1
    /\ deferred = <<>>
    /\ raced = {} /\ skipped = {} /\ hijacked = {} /\ bypassed = {}
    /\ adopted = FALSE

(* Guest code. *)

\* A thread calls a function: a patched one stops it at the SVC.
CallFunction(t, f) ==
    /\ pc[t] = Code /\ f \in images /\ Len(returns[t]) < MaxDepth
    /\ returns' = [returns EXCEPT ![t] = Append(@, Code)]
    /\ pc' = [pc EXCEPT ![t] = IF f \in patched THEN Entry(f) ELSE Code]
    /\ UNCHANGED <<born, arguments, images, patched, installed, parked, free, cursor,
                   deferred, raced, skipped, hijacked, bypassed, adopted>>

\* A function ends: the thread goes on at its return address.
ReturnFromFunction(t) ==
    /\ pc[t] = Code /\ returns[t] # <<>>
    /\ pc' = [pc EXCEPT ![t] = Last(returns[t])]
    /\ returns' = [returns EXCEPT ![t] = Front(@)]
    /\ UNCHANGED <<born, arguments, images, patched, installed, parked, free, cursor,
                   deferred, raced, skipped, hijacked, bypassed, adopted>>

SystemCall(t, boundary) ==
    /\ pc[t] = Code
    /\ pc' = [pc EXCEPT ![t] = Call(boundary)]
    /\ arguments' = [arguments EXCEPT ![t] = "own"]
    /\ UNCHANGED <<returns, born, images, patched, installed, parked, free, cursor,
                   deferred, raced, skipped, hijacked, bypassed, adopted>>

(* Trampolines. *)

\* install_continuation: the address given back last, else a new one.
Installed(k, rest, next, base, record) ==
    /\ parked' = (k :> record) @@ base
    /\ free' = rest
    /\ cursor' = next

install_continuation(k, base, available, record) ==
    \/ /\ available # <<>> /\ k = Last(available)
       /\ Installed(k, Front(available), cursor, base, record)
    \/ /\ available = <<>> /\ k = cursor /\ cursor <= MaxTrampolines
       /\ Installed(k, <<>>, cursor + 1, base, record)

\* What is recorded for thread t: the address it returns to, and for a deferred
\* call the registers to put back.  thread, birth and depth are not in the code:
\* they say which call the continuation was installed for.
Continuation(t, ret, depth, restores) ==
    [return_address |-> ret, restores |-> restores, saved |-> arguments[t],
     thread |-> t, birth |-> born[t], depth |-> depth]

(* dispatch of a trap at the entry of a replaced function. *)

\* The handler of f is found by the record of a Thumb entry, by the immediate of
\* an ARM one.
HandlerFound(f) == f \in installed \/ f \notin ThumbEntries

\* dispatch returns false: the SVC is unknown and the thread goes on behind it.
Unknown(t, f) ==
    /\ skipped' = skipped \cup {f}
    /\ pc' = [pc EXCEPT ![t] = Code]
    /\ UNCHANGED <<returns, born, arguments, images, patched, installed, parked, free,
                   cursor, deferred, raced, hijacked, bypassed, adopted>>

DispatchUnknown(t, f) ==
    /\ pc[t] = Entry(f) /\ ~HandlerFound(f)
    /\ Unknown(t, f)

\* A guest call for a later system call of the processor; boundary: it waits for
\* a receive.
defer_guest_function(t, boundary) ==
    /\ Len(deferred) < MaxDeferred
    /\ deferred' = Append(deferred, [thread |-> t, birth |-> born[t],
                                     boundary |-> boundary])

\* The handler returns to the caller; CoreTelephony also defers a call.
HandlerReturns(t, f, defers) ==
    /\ pc[t] = Entry(f) /\ HandlerFound(f)
    /\ pc' = [pc EXCEPT ![t] = Last(returns[t])]
    /\ returns' = [returns EXCEPT ![t] = Front(@)]
    /\ IF defers THEN defer_guest_function(t, TRUE) ELSE UNCHANGED deferred
    /\ UNCHANGED <<born, arguments, images, patched, installed, parked, free, cursor,
                   raced, skipped, hijacked, bypassed, adopted>>

\* call_guest_function, or resume_original_persistently with a continuation: the
\* return address becomes a trampoline.
HandlerCallsGuest(t, f, k) ==
    /\ pc[t] = Entry(f) /\ HandlerFound(f)
    /\ install_continuation(k, parked, free,
                            Continuation(t, Last(returns[t]), Len(returns[t]), FALSE))
    /\ returns' = [returns EXCEPT ![t] = Append(Front(@), Gate(k))]
    /\ pc' = [pc EXCEPT ![t] = Code]
    /\ UNCHANGED <<born, arguments, images, patched, installed, deferred, raced, skipped,
                   hijacked, bypassed, adopted>>

\* tail_call_registered: on to another function that has a record.
HandlerTailCalls(t, f, g) ==
    /\ pc[t] = Entry(f) /\ HandlerFound(f) /\ g \in (installed \cap images) \ {f}
    /\ pc' = [pc EXCEPT ![t] = IF g \in patched THEN Entry(g) ELSE Code]
    /\ UNCHANGED <<returns, born, arguments, images, patched, installed, parked, free,
                   cursor, deferred, raced, skipped, hijacked, bypassed, adopted>>

\* resume_original_persistently: the original runs from its persistent trampoline.
HandlerResumes(t, f) ==
    /\ pc[t] = Entry(f) /\ HandlerFound(f)
    /\ IF f \notin installed THEN Unknown(t, f)
       ELSE /\ pc' = [pc EXCEPT ![t] = Code]
            /\ UNCHANGED <<returns, born, arguments, images, patched, installed, parked,
                           free, cursor, deferred, raced, skipped, hijacked, bypassed,
                           adopted>>

\* Mutant: the bytes of a function stay patched.
RestoredNot(f) == patched
\* The bytes of a function go back.
Restored(f) == patched \ {f}

\* resume_original: the bytes go back and the record is erased.
HandlerRestores(t, f) ==
    /\ pc[t] = Entry(f) /\ HandlerFound(f)
    /\ IF f \notin installed THEN Unknown(t, f)
       ELSE /\ installed' = installed \ {f}
            /\ patched' = Restored(f)
            /\ pc' = [pc EXCEPT ![t] = Code]
            /\ raced' = raced \cup {g \in {f} : \E u \in HleThreads \ {t} :
                                                   pc[u] = Entry(f)}
            /\ UNCHANGED <<returns, born, arguments, images, parked, free, cursor,
                           deferred, skipped, hijacked, bypassed, adopted>>

(* dispatch of a trap at a trampoline. *)

\* The record is taken out and the trampoline given back before the
\* continuation runs.
Unparked(k) == [j \in DOMAIN parked \ {k} |-> parked[j]]
GivenBack(k) == Append(free, k)

\* The continuation ends (that of a deferred call puts the registers back and
\* may defer the next call, which waits for no boundary).
ContinuationEnds(t, k, defers) ==
    /\ pc[t] = Gate(k) /\ k \in DOMAIN parked
    /\ parked' = Unparked(k) /\ free' = GivenBack(k)
    /\ pc' = [pc EXCEPT ![t] = parked[k].return_address]
    /\ arguments' = IF parked[k].restores
                    THEN [arguments EXCEPT ![t] = parked[k].saved] ELSE arguments
    /\ IF defers THEN parked[k].restores /\ defer_guest_function(t, FALSE)
                 ELSE UNCHANGED deferred
    /\ UNCHANGED <<returns, born, images, patched, installed, cursor, raced, skipped,
                   hijacked, bypassed, adopted>>

\* It calls another guest function, to be called again after that one.
ContinuationCallsGuest(t, k, next) ==
    /\ pc[t] = Gate(k) /\ k \in DOMAIN parked /\ ~parked[k].restores
    /\ install_continuation(next, Unparked(k), GivenBack(k),
                            Continuation(t, parked[k].return_address,
                                         Len(returns[t]) + 1, FALSE))
    /\ returns' = [returns EXCEPT ![t] = Append(@, Gate(next))]
    /\ pc' = [pc EXCEPT ![t] = Code]
    /\ UNCHANGED <<born, arguments, images, patched, installed, deferred, raced, skipped,
                   hijacked, bypassed, adopted>>

\* No record: the thread runs into the words behind the trampoline.
DispatchLost(t, k) ==
    /\ pc[t] = Gate(k) /\ k \notin DOMAIN parked
    /\ pc' = [pc EXCEPT ![t] = <<"lost", "">>]
    /\ UNCHANGED <<returns, born, arguments, images, patched, installed, parked, free,
                   cursor, deferred, raced, skipped, hijacked, bypassed, adopted>>

(* dispatch of a system call. *)

Deliverable(t, boundary) ==
    {i \in DOMAIN deferred : /\ deferred[i].thread = t
                             /\ deferred[i].boundary => boundary = "receive"}
First(S) == CHOOSE i \in S : \A j \in S : i <= j

\* deliver_deferred_guest_function: the oldest call that may run here, made so
\* that it returns to the SVC that is repeated.
Deliver(t, boundary, k) ==
    LET ready == Deliverable(t, boundary)
        call  == deferred[First(ready)]
    IN  /\ pc[t] = Call(boundary) /\ ready # {} /\ Len(returns[t]) < MaxDepth
        /\ deferred' = RemoveAt(deferred, First(ready))
        /\ install_continuation(k, parked, free,
                                Continuation(t, Call(boundary), Len(returns[t]) + 1, TRUE))
        /\ returns' = [returns EXCEPT ![t] = Append(@, Gate(k))]
        /\ pc' = [pc EXCEPT ![t] = Code]
        /\ arguments' = [arguments EXCEPT ![t] = "other"]
        /\ adopted' = (adopted \/ call.birth # born[t])
        /\ UNCHANGED <<born, images, patched, installed, raced, skipped, hijacked, bypassed>>

\* The system calls the registry knows nothing of.
AtKernel(t) == \E boundary \in {"any", "receive"} :
    pc[t] = Call(boundary) /\ Deliverable(t, boundary) = {}

KernelCall(t) ==
    /\ AtKernel(t)
    /\ pc' = [pc EXCEPT ![t] = Code]
    /\ UNCHANGED <<returns, born, arguments, images, patched, installed, parked, free,
                   cursor, deferred, raced, skipped, hijacked, bypassed, adopted>>

\* mmap of the image of f: an entry that has a record is passed over.
install_mapped_image(t, f) ==
    /\ AtKernel(t) /\ pc[t] = Call("any") /\ f \notin images
    /\ images' = images \cup {f}
    /\ IF f \in installed
       THEN bypassed' = bypassed \cup {f} /\ UNCHANGED <<patched, installed>>
       ELSE patched' = patched \cup {f} /\ installed' = installed \cup {f}
            /\ UNCHANGED bypassed
    /\ pc' = [pc EXCEPT ![t] = Code]
    /\ UNCHANGED <<returns, born, arguments, parked, free, cursor, deferred, raced,
                   skipped, hijacked, adopted>>

\* munmap of it: the registry is not told.
Unmap(t, f) ==
    /\ AtKernel(t) /\ pc[t] = Call("any") /\ f \in images
    /\ \A u \in HleThreads : pc[u] # Entry(f)
    /\ images' = images \ {f} /\ patched' = patched \ {f}
    /\ pc' = [pc EXCEPT ![t] = Code]
    /\ UNCHANGED <<returns, born, arguments, installed, parked, free, cursor, deferred,
                   raced, skipped, hijacked, bypassed, adopted>>

CreateThread(t, u) ==
    /\ AtKernel(t) /\ pc[t] = Call("any")
    /\ pc[u] = Gone /\ u # MainThread /\ born[u] < MaxBirths
    /\ pc' = [pc EXCEPT ![t] = Code, ![u] = Code]
    /\ born' = [born EXCEPT ![u] = @ + 1]
    /\ arguments' = [arguments EXCEPT ![u] = "own"]
    /\ UNCHANGED <<returns, images, patched, installed, parked, free, cursor, deferred,
                   raced, skipped, hijacked, bypassed, adopted>>

\* thread_terminate: the registry keeps what it holds for the thread.
TerminateThread(t, u) ==
    /\ AtKernel(t) /\ pc[t] = Call("any") /\ pc[u] # Gone
    /\ \E v \in HleThreads : v # u /\ pc[v] # Gone
    /\ pc' = [v \in HleThreads |-> IF v = u THEN Gone ELSE IF v = t THEN Code ELSE pc[v]]
    /\ returns' = [returns EXCEPT ![u] = <<>>]
    /\ UNCHANGED <<born, arguments, images, patched, installed, parked, free, cursor,
                   deferred, raced, skipped, hijacked, bypassed, adopted>>

Only(t, v, none) == [u \in HleThreads |-> IF u = t THEN v ELSE none]

\* fork, followed into the child: inherit_mappings takes the records and the
\* trampolines given back, but no continuation; the child's thread is its first
\* and keeps the stack.
inherit_mappings(t) ==
    /\ AtKernel(t) /\ pc[t] = Call("any")
    /\ pc' = Only(MainThread, Code, Gone)
    /\ returns' = Only(MainThread, returns[t], <<>>)
    /\ born' = Only(MainThread, 1, 0)
    /\ arguments' = [u \in HleThreads |-> "own"]
    /\ hijacked' = {r[2] : r \in {s \in Range(returns[t]) : s[1] = "gate"}}
                   \cup hijacked
    /\ parked' = <<>> /\ deferred' = <<>>
    /\ UNCHANGED <<images, patched, installed, free, cursor, raced, skipped, bypassed,
                   adopted>>

\* exec: the image is replaced, one thread is left and the registry is reset.
reset_mappings(t) ==
    /\ AtKernel(t) /\ pc[t] = Call("any")
    /\ pc' = Only(t, Code, Gone)
    /\ returns' = [u \in HleThreads |-> <<>>]
    /\ images' = {} /\ patched' = {} /\ installed' = {}
    /\ parked' = <<>> /\ free' = <<>> /\ cursor' = 1 /\ deferred' = <<>>
    /\ raced' = {} /\ skipped' = {} /\ hijacked' = {} /\ bypassed' = {}
    /\ UNCHANGED <<born, arguments, adopted>>

Trampolines == 1..MaxTrampolines

Next == \E t \in HleThreads :
    \/ ReturnFromFunction(t) \/ KernelCall(t) \/ inherit_mappings(t) \/ reset_mappings(t)
    \/ \E boundary \in {"any", "receive"} :
          \/ SystemCall(t, boundary)
          \/ \E k \in Trampolines : Deliver(t, boundary, k)
    \/ \E f \in Entries :
          \/ CallFunction(t, f) \/ DispatchUnknown(t, f)
          \/ HandlerResumes(t, f) \/ HandlerRestores(t, f)
          \/ \E defers \in BOOLEAN : HandlerReturns(t, f, defers)
          \/ \E k \in Trampolines : HandlerCallsGuest(t, f, k)
          \/ \E g \in Entries : HandlerTailCalls(t, f, g)
          \/ install_mapped_image(t, f) \/ Unmap(t, f)
    \/ \E k \in Trampolines :
          \/ \E defers \in BOOLEAN : ContinuationEnds(t, k, defers)
          \/ \E next \in Trampolines : ContinuationCallsGuest(t, k, next)
          \/ DispatchLost(t, k)
    \/ \E u \in HleThreads : CreateThread(t, u) \/ TerminateThread(t, u)

Spec == Init /\ [][Next]_uvars

-----------------------------------------------------------------------------
(* Properties. *)

\* A trampoline is given back once, and holds no continuation then.
TrampolinesExact ==
    /\ \A i, j \in DOMAIN free : free[i] = free[j] => i = j
    /\ Range(free) \cap DOMAIN parked = {}
    /\ Range(free) \cup DOMAIN parked \subseteq 1..(cursor - 1)

\* The call that returns through a trampoline at a depth of a thread is the one
\* its continuation was installed for, except for what a child inherited.
Owns(t, k, depth) ==
    k \in hijacked \/ ( /\ k \in DOMAIN parked
                        /\ parked[k].thread = t /\ parked[k].birth = born[t]
                        /\ parked[k].depth = depth )
CallsReturnToOwners == \A t \in HleThreads :
    /\ \A i \in DOMAIN returns[t] :
          returns[t][i][1] = "gate" => Owns(t, returns[t][i][2], i)
    /\ pc[t][1] = "gate" => Owns(t, pc[t][2], Len(returns[t]) + 1)

\* A system call is made with the registers its thread made it with.
CallsKeepArguments == \A t \in HleThreads : pc[t][1] = "svc" => arguments[t] = "own"

\* A mapped function is patched exactly when it has a record.
PatchesMatchRecords == \A f \in images \ bypassed : f \in installed <=> f \in patched

\* A function is entered behind its first instruction only by a thread that had
\* trapped when another restored it.
FirstInstructionRuns == skipped \subseteq raced

-----------------------------------------------------------------------------
CONSTANTS PhoneThreads, Addresses, MaxDials, MaxChains

OfflineCallsAssumption ==
    /\ {MaxDials, MaxChains} \subseteq Nat \ {0}
    /\ 0 \notin Addresses

VARIABLES
    activity,    \* thread -> what runs on it, innermost last
    at,          \* thread -> guest code, or the system call it makes or repeats
    chain,       \* deferred_guest_calls_ of the disconnects
    calls,       \* OfflineCallState::calls: address -> sequence of its record
    dialled,     \* next_identifier
    kept,        \* the client's call objects: address -> sequence
    live,        \* addresses of the objects that exist
    ended,       \* history: sequences of the calls that were ended
    repeated,    \* history: those ended again before the chain forgot them
    announced,   \* history: sequence -> disconnect callbacks made
    clobbered    \* history: calls forgotten by the chain of an earlier call

Idle == [kind |-> "idle"]
Top(t) == IF activity[t] = <<>> THEN Idle ELSE Last(activity[t])
Popped(t) == [activity EXCEPT ![t] = Front(@)]
Pushed(t, a) == [activity EXCEPT ![t] = Append(@, a)]
Replaced(t, a) == [activity EXCEPT ![t] = Append(Front(@), a)]

\* Client code runs: nothing replaced is on the thread, or the client's callback.
ClientCode(t) == at[t] = "code" /\ Top(t).kind \in {"idle", "notify"}

PhoneInit ==
    /\ activity = [t \in PhoneThreads |-> <<>>]
    /\ at = [t \in PhoneThreads |-> "code"]
    /\ chain = <<>> /\ calls = <<>> /\ dialled = 0
    /\ kept = <<>> /\ live = {}
    /\ ended = {} /\ repeated = {} /\ clobbered = {}
    /\ announced = [s \in 1..MaxDials |-> 0]

Without(f, a) == [b \in DOMAIN f \ {a} |-> f[b]]

(* __CTServerConnectionCreateCall. *)

\* The number is copied out by a guest function first.
CreateCall(t) ==
    /\ ClientCode(t) /\ dialled < MaxDials
    /\ dialled' = dialled + 1
    /\ activity' = Pushed(t, [kind |-> "copy", sequence |-> dialled + 1])
    /\ UNCHANGED <<at, chain, calls, kept, live, ended, repeated, announced, clobbered>>

NumberCopied(t, copied) ==
    /\ at[t] = "code" /\ Top(t).kind = "copy"
    /\ activity' = IF copied THEN Replaced(t, [Top(t) EXCEPT !.kind = "dial"]) ELSE Popped(t)
    /\ UNCHANGED <<at, chain, calls, dialled, kept, live, ended, repeated, announced,
                   clobbered>>

\* create_firmware_call: the object's address is recorded, over whatever was.
CallCreated(t, a) ==
    /\ at[t] = "code" /\ Top(t).kind = "dial" /\ a \notin live
    /\ activity' = Popped(t)
    /\ IF a = 0 THEN UNCHANGED <<calls, kept, live>>
       ELSE /\ calls' = (a :> Top(t).sequence) @@ calls
            /\ kept' = (a :> Top(t).sequence) @@ kept
            /\ live' = live \cup {a}
    /\ UNCHANGED <<at, chain, dialled, ended, repeated, announced, clobbered>>

\* The client drops a call object.
ReleaseCall(t, a) ==
    /\ ClientCode(t) /\ a \in DOMAIN kept
    /\ kept' = Without(kept, a) /\ live' = live \ {a}
    /\ UNCHANGED <<activity, at, chain, calls, dialled, ended, repeated, announced,
                   clobbered>>

(* Disconnecting. *)

OnThreads == UNION {{activity[t][i] : i \in DOMAIN activity[t]} : t \in PhoneThreads}
Steps == {"create", "dictionary", "set", "notify", "release dictionary", "release call"}
ChainSteps == Range(chain) \cup {a \in OnThreads : a.kind \in Steps}

\* complete_disconnect_service.
complete_disconnect_service(t, a) ==
    /\ Len(chain) < MaxChains
    /\ chain' = Append(chain, [kind |-> "create", thread |-> t, original |-> a,
                               sequence |-> calls[a], call |-> 0, dictionary |-> 0])
    /\ repeated' = repeated \cup {s \in {calls[a]} : s \in ended}
    /\ ended' = ended \cup {calls[a]}

\* __CTServerConnectionEndCall: a call without a record is answered only.
EndCall(t, a) ==
    /\ ClientCode(t) /\ a \in DOMAIN kept /\ a \in DOMAIN calls
    /\ complete_disconnect_service(t, a)
    /\ UNCHANGED <<activity, at, calls, dialled, kept, live, announced, clobbered>>

\* __CTServerConnectionCallListEnd: the newest recorded call.
CallListEnd(t) ==
    /\ ClientCode(t) /\ DOMAIN calls # {}
    /\ \E a \in DOMAIN calls :
          /\ \A b \in DOMAIN calls : calls[b] <= calls[a]
          /\ complete_disconnect_service(t, a)
    /\ UNCHANGED <<activity, at, calls, dialled, kept, live, announced, clobbered>>

\* The next guest call of the chain that link is in.
Continue(link, kind) == chain' = Append(chain, [link EXCEPT !.kind = kind])

\* erase_offline_call.
erase_offline_call(link) ==
    /\ calls' = Without(calls, link.original)
    /\ clobbered' = clobbered \cup
          {calls[a] : a \in {b \in DOMAIN calls \cap {link.original} :
                                calls[b] # link.sequence}}

\* release_disconnected_call, with no object to release.
NothingToRelease(link) == erase_offline_call(link) /\ UNCHANGED <<chain, live>>

\* dictionary_queued is false: only the call is released.
NoDictionary(link) ==
    /\ Continue(link, "release call")
    /\ UNCHANGED <<calls, live, clobbered>>

\* The completions, in the order of the chain; made is the object the guest call
\* returned, or 0.
Completed(link, made) ==
    \/ link.kind = "create" /\ made = 0 /\ NothingToRelease(link)
    \/ /\ link.kind = "create" /\ made # 0
       /\ Continue([link EXCEPT !.call = made], "dictionary")
       /\ live' = live \cup {made} /\ UNCHANGED <<calls, clobbered>>
    \/ link.kind = "dictionary" /\ made = 0 /\ NoDictionary(link)
    \/ /\ link.kind = "dictionary" /\ made # 0
       /\ Continue([link EXCEPT !.dictionary = made], "set")
       /\ live' = live \cup {made} /\ UNCHANGED <<calls, clobbered>>
    \/ /\ link.kind = "set" /\ made = 0
       /\ Continue(link, "notify") /\ UNCHANGED <<calls, live, clobbered>>
    \/ /\ link.kind = "notify" /\ made = 0
       /\ Continue(link, "release dictionary") /\ UNCHANGED <<calls, live, clobbered>>
    \/ /\ link.kind = "release dictionary" /\ made = 0
       /\ Continue([link EXCEPT !.dictionary = 0], "release call")
       /\ live' = live \ {link.dictionary} /\ UNCHANGED <<calls, clobbered>>
    \/ /\ link.kind = "release call" /\ made = 0
       /\ erase_offline_call(link) /\ UNCHANGED chain
       /\ live' = live \ {link.call}

\* The deferred guest call ends: its completion runs and the system call that it
\* interrupted is repeated.
LinkEnds(t, made) ==
    /\ at[t] = "code" /\ Top(t).kind \in Steps
    /\ made \notin live
    /\ Completed(Top(t), made)
    /\ at' = [at EXCEPT ![t] = Top(t).interrupted]
    /\ activity' = Popped(t)
    /\ UNCHANGED <<dialled, kept, ended, repeated, announced>>

(* System calls. *)

\* Client code may wait for a message; CoreFoundation makes other calls.
PhoneSystemCall(t, boundary) ==
    /\ at[t] = "code" /\ boundary = "receive" => ClientCode(t)
    /\ at' = [at EXCEPT ![t] = boundary]
    /\ UNCHANGED <<activity, chain, calls, dialled, kept, live, ended, repeated, announced,
                   clobbered>>

\* Only the first call of a chain waits for a receive.
Ready(t) == {i \in DOMAIN chain : /\ chain[i].thread = t
                           /\ chain[i].kind = "create" => at[t] = "receive"}

DeliverLink(t) ==
    LET i == CHOOSE i \in Ready(t) : \A j \in Ready(t) : i <= j
        link == chain[i]
    IN  /\ at[t] # "code" /\ Ready(t) # {} /\ Len(activity[t]) < MaxChains + 2
        /\ chain' = RemoveAt(chain, i)
        /\ activity' = Pushed(t, [kind |-> link.kind, thread |-> t,
                                  original |-> link.original, sequence |-> link.sequence,
                                  call |-> link.call, dictionary |-> link.dictionary,
                                  interrupted |-> at[t]])
        /\ at' = [at EXCEPT ![t] = "code"]
        /\ announced' = IF link.kind = "notify"
                        THEN [announced EXCEPT ![link.sequence] = @ + 1] ELSE announced
        /\ UNCHANGED <<calls, dialled, kept, live, ended, repeated, clobbered>>

PhoneKernelCall(t) ==
    /\ at[t] # "code" /\ Ready(t) = {}
    /\ at' = [at EXCEPT ![t] = "code"]
    /\ UNCHANGED <<activity, chain, calls, dialled, kept, live, ended, repeated, announced,
                   clobbered>>

PhoneNext == \E t \in PhoneThreads :
    \/ CreateCall(t) \/ CallListEnd(t) \/ DeliverLink(t) \/ PhoneKernelCall(t)
    \/ \E copied \in BOOLEAN : NumberCopied(t, copied)
    \/ \E a \in Addresses \cup {0} : CallCreated(t, a) \/ LinkEnds(t, a)
    \/ \E a \in Addresses : ReleaseCall(t, a) \/ EndCall(t, a)
    \/ \E boundary \in {"any", "receive"} : PhoneSystemCall(t, boundary)

-----------------------------------------------------------------------------
(* Properties. *)

\* An object that the client does not have belongs to one step of one chain:
\* nothing is leaked and nothing released is used.
OwnedBy(s) == {s.call, s.dictionary} \ {0}
ObjectsOwned ==
    /\ UNION {OwnedBy(s) : s \in ChainSteps} = live \ DOMAIN kept
    /\ \A s1, s2 \in ChainSteps : s1 # s2 => OwnedBy(s1) \cap OwnedBy(s2) = {}

\* A call object that the client has can be ended, until it was ended; except one
\* whose record the chain of an earlier call at its address took away.
CallsCanBeEnded == \A a \in DOMAIN kept :
    \/ a \in DOMAIN calls /\ calls[a] = kept[a]
    \/ kept[a] \in ended \cup clobbered

\* A call that was ended is announced as disconnected at most once, unless it was
\* ended again meanwhile, and stays recorded only while its chain runs.
EndedCallsForgotten ==
    /\ \A s \in 1..MaxDials :
          /\ announced[s] > 0 => s \in ended
          /\ announced[s] > 1 => s \in repeated
    /\ \A a \in DOMAIN calls : calls[a] \in ended =>
          \E s \in ChainSteps : s.original = a /\ s.sequence = calls[a]
=============================================================================
