----------------------------- MODULE BsdSockets -----------------------------
(*****************************************************************************)
(* Local sockets: socket pairs, pipes, named listeners and the passing of    *)
(* descriptors (src/src/kernel/bsd/socket.cpp, network.cpp); and the waits   *)
(* on them: readiness, select and kqueues (src/src/kernel/bsd/events.cpp,    *)
(* the readiness predicates and collect_ready_kevents of network.cpp, and    *)
(* the continuations of select and kevent in kernel.cpp).                    *)
(*                                                                           *)
(* A pair is two byte streams; a stream keeps its bytes, the absolute        *)
(* position the reader has reached (read_offsets) and the ancillary          *)
(* records, each bound by an absolute position to the byte it was sent       *)
(* with.  Bytes carry no content: a stream is described by how many are      *)
(* in the buffer.  `taken` and the `byte` of a record are ghosts, what the   *)
(* two positions ought to be.                                                *)
(*                                                                           *)
(* An endpoint is an open description: it stays open as long as a            *)
(* descriptor, a record in flight or a listener's queue refers to it.        *)
(*                                                                           *)
(* The registrations of a kqueue are kept with its descriptor number.  A     *)
(* read or write registration is level triggered; a process registration     *)
(* remembers the exec and exit generations of the process it watches and     *)
(* is ready when they have moved.                                            *)
(*****************************************************************************)
EXTENDS BsdFiles

CONSTANTS
    Pairs,             \* socket pairs, numbered from 1 in creation order
    Listeners,         \* identities of listening sockets
    SocketNames,       \* path names a Unix socket is bound to
    MaxBytes           \* bound of the bytes one stream carries

ASSUME SocketAssumption == Pairs = 1 .. Cardinality(Pairs) /\ MaxBytes \in Nat

VARIABLES
    nextPair,          \* next_socket_pair
    stream,            \* socket_pair_buffers, read_offsets, socket_pair_ancillary
    shut,              \* read_open and write_open cleared by shutdown
    queue,             \* pending_endpoints of every listener
    registry,          \* unix_listeners: the listener a name reaches, 0 for none
    nodes              \* unix_socket_nodes

socketVars == <<nextPair, stream, shut, queue, registry, nodes>>

Sides == {0, 1}
Empty == [len |-> 0, offset |-> 0, taken |-> 0, anc |-> <<>>]

SocketsInit ==
    /\ nextPair = 1
    /\ stream = [k \in Pairs |-> [x \in Sides |-> Empty]]
    /\ shut = [k \in Pairs |-> [x \in Sides |-> [read |-> FALSE, write |-> FALSE]]]
    /\ queue = [l \in Listeners |-> <<>>]
    /\ registry = [n \in SocketNames |-> 0]
    /\ nodes = {}

-----------------------------------------------------------------------------
(***************************************************************************)
(* Lifetime.                                                               *)
(***************************************************************************)
SeqSet(q) == {q[i] : i \in DOMAIN q}

\* Records are never erased, so what they carry stays open with the pair dead.
Carrying(t)     == UNION {SeqSet(r.entries) : r \in SeqSet(t.anc)}
InFlight        == UNION {Carrying(stream[k][x]) : k \in Pairs, x \in Sides}
Entries(tables) == UNION {{tables[p][n] : n \in Fds} : p \in Pids}
LiveEntries     == Entries(fds) \cup InFlight
LiveListeners   == {e.obj : e \in {y \in LiveEntries : y.kind = "unix" /\ y.listening}}
LiveEndpoints   == {e.obj : e \in {y \in LiveEntries : y.kind = "pair"}}
                   \cup UNION {SeqSet(queue[l]) : l \in LiveListeners}

ReadOpen(k, x)  == <<k, x>> \in LiveEndpoints /\ ~shut[k][x].read
WriteOpen(k, x) == <<k, x>> \in LiveEndpoints /\ ~shut[k][x].write

\* A listener whose last reference went takes its queue along; a weak
\* registration of it no longer resolves.
ListenersSettled ==
    /\ queue' = [l \in Listeners |-> IF l \in LiveListeners' THEN queue[l] ELSE <<>>]
    /\ registry' = [n \in SocketNames |->
                        IF registry[n] \in LiveListeners' THEN registry[n] ELSE 0]

NewPair == nextPair \in Pairs /\ nextPair' = nextPair + 1

-----------------------------------------------------------------------------
(***************************************************************************)
(* Making sockets.                                                         *)
(***************************************************************************)
\* Both numbers are taken before the pair is made; with one left the first
\* is given back (EMFILE).
TwoFree(p) == Cardinality(FreeFds(p)) >= 2

socketpair(p, s) ==
    /\ CanCall(p, s) /\ TwoFree(p) /\ NewPair
    /\ fds' = [fds EXCEPT ![p] =
           Installed(Installed(@, Entry("pair", <<nextPair, 0>>)),
                     Entry("pair", <<nextPair, 1>>))]
    /\ UNCHANGED <<stream, shut, queue, registry, nodes>>

\* A pipe is a pair as well; neither end is shut, only the access mode of
\* the read end says it is not for writing.
pipe(p, s) ==
    /\ CanCall(p, s) /\ TwoFree(p) /\ NewPair
    /\ fds' = [fds EXCEPT ![p] =
           Installed(Installed(@, [Entry("pair", <<nextPair, 0>>) EXCEPT !.writable = FALSE]),
                     Entry("pair", <<nextPair, 1>>))]
    /\ UNCHANGED <<stream, shut, queue, registry, nodes>>

socket(p, s) ==
    /\ CanCall(p, s) /\ FreeFds(p) # {}
    /\ fds' = [fds EXCEPT ![p] = Installed(@, Entry("unix", 0))]
    /\ UNCHANGED socketVars

bind(p, s, n, name) ==
    /\ CanCall(p, s) /\ Is(p, n, "unix")
    /\ fds[p][n].path = NoName /\ name \notin nodes
    /\ nodes' = nodes \cup {name}
    /\ fds' = [fds EXCEPT ![p][n].path = name]
    /\ UNCHANGED <<nextPair, stream, shut, queue, registry>>

\* The name reaches the listener only while its node is linked; a second
\* listener on the name is refused.
listen(p, s, n, fresh) ==
    /\ CanCall(p, s) /\ Is(p, n, "unix") /\ fds[p][n].path # NoName
    /\ LET e        == fds[p][n]
           linked   == e.path \in nodes
           existing == IF linked THEN registry[e.path] ELSE 0
           own      == IF e.listening THEN e.obj ELSE 0
       IN  /\ existing # 0 => own = existing
           /\ IF own # 0 THEN UNCHANGED fds
              ELSE /\ fresh \in Listeners \ LiveListeners
                   /\ fds' = [fds EXCEPT ![p][n] =
                                  [@ EXCEPT !.listening = TRUE, !.obj = fresh]]
           /\ registry' = IF linked
                          THEN [registry EXCEPT ![e.path] = IF own # 0 THEN own ELSE fresh]
                          ELSE registry
    /\ UNCHANGED <<nextPair, stream, shut, queue, nodes>>

\* unlink of a socket: new lookups stop, the listener stays.
unlink_socket(p, s, name) ==
    /\ CanCall(p, s) /\ name \in nodes
    /\ nodes' = nodes \ {name}
    /\ registry' = [registry EXCEPT ![name] = 0]
    /\ UNCHANGED <<nextPair, stream, shut, queue, fds>>

connect(p, s, n, name) ==
    /\ CanCall(p, s) /\ Is(p, n, "unix") /\ ~fds[p][n].listening
    /\ registry[name] # 0 /\ NewPair
    /\ fds' = [fds EXCEPT ![p][n] = [@ EXCEPT !.kind = "pair", !.obj = <<nextPair, 0>>]]
    /\ queue' = [queue EXCEPT ![registry[name]] = Append(@, <<nextPair, 1>>)]
    /\ UNCHANGED <<stream, shut, registry, nodes>>

\* complete_unix_accept.  EMFILE leaves the connection queued; a fault while
\* the peer's address is copied out drops it.
Listening(p, n)   == Is(p, n, "unix") /\ fds[p][n].listening
AcceptReady(p, n) == ~Listening(p, n) \/ queue[fds[p][n].obj] # <<>>

AcceptEffect(p, n, fault) ==
    IF ~Listening(p, n) \/ Full(fds[p])
    THEN UNCHANGED <<fds, queue>>                       \* EBADF, EINVAL, EMFILE
    ELSE /\ fds' = IF fault THEN fds
                   ELSE [fds EXCEPT ![p] =
                            Installed(@, Entry("pair", Head(queue[fds[p][n].obj])))]
         /\ queue' = [queue EXCEPT ![fds[p][n].obj] = Tail(@)]

accept(p, s, n, fault) ==
    /\ CanCall(p, s) /\ Listening(p, n)
    /\ \/ AcceptReady(p, n) /\ AcceptEffect(p, n, fault) /\ NoBlock
       \/ /\ ~AcceptReady(p, n) /\ ~fds[p][n].nonblock /\ ~fault
          /\ Block(p, s, [op |-> "accept", fd |-> n])
          /\ UNCHANGED <<fds, queue>>
    /\ UNCHANGED <<nextPair, stream, shut, registry, nodes>>

-----------------------------------------------------------------------------
(***************************************************************************)
(* Moving bytes and descriptors.                                           *)
(***************************************************************************)
Pair(p, n) == fds[p][n].obj[1]
Side(p, n) == fds[p][n].obj[2]
CanSend(p, n) == WriteOpen(Pair(p, n), Side(p, n)) /\ ReadOpen(Pair(p, n), 1 - Side(p, n))
Total(t) == t.taken + t.len

\* write, writev, sendto and sendmsg append to the peer's stream; a message
\* with descriptors records them at the position of its first byte.
Sent(t, count, entries) ==
    [t EXCEPT !.len = @ + count,
              !.anc = IF entries = <<>> THEN @
                      ELSE Append(@, [offset  |-> t.offset + t.len,
                                      byte    |-> Total(t),
                                      entries |-> entries])]

send(p, s, n, count, passed) ==
    /\ CanCall(p, s) /\ Is(p, n, "pair") /\ CanSend(p, n)
    /\ SeqSet(passed) \subseteq Open(p)
    /\ Total(stream[Pair(p, n)][1 - Side(p, n)]) + count <= MaxBytes
    /\ stream' = [stream EXCEPT ![Pair(p, n)][1 - Side(p, n)] =
           Sent(@, count, [i \in DOMAIN passed |-> Transfer(fds[p][passed[i]])])]
    /\ UNCHANGED <<nextPair, shut, queue, registry, nodes, fds>>

EndOfStream(p, n) ==
    ~ReadOpen(Pair(p, n), Side(p, n)) \/ ~WriteOpen(Pair(p, n), 1 - Side(p, n))
StreamReady(p, n) ==
    stream[Pair(p, n)][Side(p, n)].len > 0 \/ EndOfStream(p, n)

Taken(count, t) == IF count < t.len THEN count ELSE t.len

\* The records at the front whose position is below a bound.
Leading(anc, bound) ==
    Cardinality({i \in DOMAIN anc : \A j \in 1 .. i : anc[j].offset < bound})
From(anc, i) == SubSeq(anc, i, Len(anc))

\* Mutant: a read takes the bytes and does not move the position.
ByteReadInPlace(t, count) ==
    LET k == Taken(count, t)
    IN  [t EXCEPT !.len = @ - k, !.taken = @ + k,
                  !.anc = From(@, Leading(@, t.offset + k) + 1)]

\* receive_socket_bytes: an ordinary read discards the rights of the bytes
\* it takes.  receive_socket_message consumes the same records.
ByteRead(t, count) ==
    LET k == Taken(count, t)
    IN  [t EXCEPT !.len = @ - k, !.offset = @ + k, !.taken = @ + k,
                  !.anc = From(@, Leading(@, t.offset + k) + 1)]

\* What a recvmsg hands over: not the records of bytes read before.
RightsRead(t, count) ==
    LET stale == Leading(t.anc, t.offset)
        upto  == Leading(t.anc, t.offset + Taken(count, t))
    IN  FlattenSeq([i \in 1 .. upto - stale |-> t.anc[stale + i].entries])

\* A fault after the bytes left the buffer: the position is not moved.
FaultedRead(t, count) ==
    LET k == Taken(count, t) IN [t EXCEPT !.len = @ - k, !.taken = @ + k]

\* import_descriptor one by one, each into the lowest free number; EMFILE
\* part of the way leaves those already installed, and the rest are lost.
Imported(table, entries) ==
    LET rank(n) == Cardinality({m \in Fds : table[m] = Closed /\ m <= n})
    IN  [n \in Fds |-> IF table[n] = Closed /\ rank(n) <= Len(entries)
                       THEN entries[rank(n)] ELSE table[n]]

\* "read" is a read, "message" a recvmsg, "truncated" one without room for the
\* descriptors (MSG_CTRUNC), "fault" one whose copy-out fails.
RecvEffect(p, n, count, how) ==
    LET k == Pair(p, n)
        x == Side(p, n)
        t == stream[k][x]
    IN  /\ stream' = [stream EXCEPT ![k][x] = IF how = "fault" THEN FaultedRead(t, count)
                                               ELSE ByteRead(t, count)]
        /\ fds' = IF how = "message"
                  THEN [fds EXCEPT ![p] = Imported(@, RightsRead(t, count))] ELSE fds

receive(p, s, n, count, how) ==
    /\ CanCall(p, s) /\ Is(p, n, "pair")
    /\ \/ StreamReady(p, n) /\ RecvEffect(p, n, count, how) /\ NoBlock
       \/ /\ ~StreamReady(p, n) /\ ~fds[p][n].nonblock /\ how \in {"read", "message"}
          /\ Block(p, s, [op |-> "receive", fd |-> n, how |-> how])
          /\ UNCHANGED <<stream, fds>>
    /\ UNCHANGED <<nextPair, shut, queue, registry, nodes>>

\* shutdown clears the flags of the caller's side and, for reading, throws
\* away what is buffered; positions and records stay.
shutdown(p, s, n, how) ==
    /\ CanCall(p, s) /\ Is(p, n, "pair")
    /\ shut' = [shut EXCEPT ![Pair(p, n)][Side(p, n)] =
           [read |-> @.read \/ how \in {"read", "both"},
            write |-> @.write \/ how \in {"write", "both"}]]
    /\ LET t == stream[Pair(p, n)][Side(p, n)]
       IN  stream' = IF how \in {"read", "both"}
                     THEN [stream EXCEPT ![Pair(p, n)][Side(p, n)] =
                               [t EXCEPT !.len = 0, !.taken = Total(t)]]
                     ELSE stream
    /\ UNCHANGED <<nextPair, queue, registry, nodes, fds>>

-----------------------------------------------------------------------------
(***************************************************************************)
(* Continuations of blocked socket calls keep the descriptor NUMBER: a     *)
(* recvmsg or accept whose number was closed ends with an error, a read    *)
(* stays blocked until the number is a socket again.                       *)
(***************************************************************************)
SocketReady(p, s) ==
    LET c == pending[p][s]
    IN  \/ c.op = "accept" /\ AcceptReady(p, c.fd)
        \/ /\ c.op = "receive"
           /\ IF Is(p, c.fd, "pair") THEN StreamReady(p, c.fd) ELSE c.how = "message"

complete_socket(p, s, count) ==
    /\ SocketReady(p, s)
    /\ LET c == pending[p][s]
       IN  \/ c.op = "accept" /\ AcceptEffect(p, c.fd, FALSE) /\ UNCHANGED stream
           \/ /\ c.op = "receive"
              /\ IF Is(p, c.fd, "pair") THEN RecvEffect(p, c.fd, count, c.how)
                 ELSE UNCHANGED <<stream, fds>>          \* EBADF
              /\ UNCHANGED queue
    /\ Woken(p, s)
    /\ UNCHANGED <<nextPair, shut, registry, nodes>>

-----------------------------------------------------------------------------
IsQueue(p, n) == fds[p][n].queue # NoQueue

\* Registering the generations of the moment: what happened before is not
\* reported.
Registration(filter, ident, notes) ==
    [filter |-> filter, ident |-> ident, notes |-> notes,
     exec |-> IF filter = "process" THEN generations[ident].exec ELSE 0,
     exit |-> IF filter = "process" THEN generations[ident].exit ELSE 0]

\* descriptor_writable: a socket counts as writable for as long as its
\* number is open.
descriptor_writable(p, n) == fds[p][n].kind \in {"file", "pair"}

\* descriptor_readable: a queue is readable when a registration other than a
\* process one is ready, the queues registered in it included.  The code
\* recurses through queues; the depth here is the number of descriptors.
descriptor_readable(p, n) ==
    LET readable[k \in 0 .. Cardinality(Fds), m \in Fds] ==
            \/ fds[p][m].kind = "file"
            \/ Listening(p, m) /\ queue[fds[p][m].obj] # <<>>
            \/ Is(p, m, "pair") /\ StreamReady(p, m)
            \/ /\ IsQueue(p, m) /\ k > 0
               /\ \E r \in fds[p][m].queue :
                     \/ r.filter = "read" /\ r.ident # m /\ readable[k - 1, r.ident]
                     \/ r.filter = "write" /\ descriptor_writable(p, r.ident)
    IN  readable[Cardinality(Fds), n]

\* Mutant: an exit is not compared.
NotedExec(r) == {note \in {"exec"} : generations[r.ident][note] # r[note]}

Noted(r) == {note \in {"exec", "exit"} : generations[r.ident][note] # r[note]}

RegistrationReady(p, r) ==
    CASE r.filter = "read"    -> descriptor_readable(p, r.ident)
      [] r.filter = "write"   -> descriptor_writable(p, r.ident)
      [] r.filter = "process" -> r.notes \cap Noted(r) # {}

ReadyIn(p, n) == {r \in fds[p][n].queue \ NoQueue : RegistrationReady(p, r)}

\* collect_ready_kevents: the reported registrations; an exit is reported
\* once and its registration erased, an exec note moves both generations on.
Reported(p, n, reported) ==
    (fds[p][n].queue \ reported)
    \cup {IF r.filter = "process" THEN Registration("process", r.ident, r.notes) ELSE r :
              r \in {x \in reported : ~(x.filter = "process"
                                        /\ "exit" \in x.notes \cap Noted(x))}}

\* At most `count` events fit.  A fault while one is copied out leaves the
\* earlier ones consumed.
Collections(p, n, count) ==
    LET fits == IF count < Cardinality(ReadyIn(p, n)) THEN count
                ELSE Cardinality(ReadyIn(p, n))
    IN  {c \in SUBSET ReadyIn(p, n) : Cardinality(c) = fits}

Collect(p, n, count) ==
    \E c \in Collections(p, n, count) :
        fds' = [fds EXCEPT ![p][n].queue = Reported(p, n, c)]

-----------------------------------------------------------------------------
kqueue(p, s) ==
    /\ CanCall(p, s) /\ FreeFds(p) # {}
    /\ fds' = [fds EXCEPT ![p] = Installed(@, [Entry("kqueue", 0) EXCEPT !.queue = {}])]

\* One change of the list; a registration of the same filter and identifier
\* is replaced.
Changed(registrations, change) ==
    LET others == {r \in registrations :
                      ~(r.filter = change.filter /\ r.ident = change.ident)}
    IN  CASE change.op = "none"   -> registrations
          [] change.op = "delete" -> others
          [] change.op = "add"    ->
                 others \cup {Registration(change.filter, change.ident, change.notes)}

\* The change list alone: no event was asked for, or a receipt was.
kevent_change(p, s, n, change) ==
    /\ CanCall(p, s) /\ IsQueue(p, n) /\ change.op # "none"
    /\ fds' = [fds EXCEPT ![p][n].queue = Changed(@, change)]
    /\ NoBlock

NoDeadline == 0
Forever    == MaxTime + 1
DeadlineAfter(timeout) == IF timeout = Forever THEN NoDeadline ELSE clock + timeout

\* The wait; a zero timeout polls.
kevent(p, s, n, count, timeout) ==
    /\ CanCall(p, s) /\ IsQueue(p, n)
    /\ \/ ReadyIn(p, n) # {} /\ Collect(p, n, count) /\ NoBlock
       \/ /\ ReadyIn(p, n) = {} /\ timeout # 0
          /\ Block(p, s, [op |-> "kevent", fd |-> n, count |-> count,
                          deadline |-> DeadlineAfter(timeout)])
          /\ UNCHANGED fds

\* A poll that finds something changes nothing but the guest's memory.
AnyReady(p, reads, writes) ==
    \/ \E n \in reads : descriptor_readable(p, n)
    \/ \E n \in writes : descriptor_writable(p, n)

select(p, s, reads, writes, timeout) ==
    /\ CanCall(p, s) /\ ~AnyReady(p, reads, writes) /\ timeout # 0
    /\ Block(p, s, [op |-> "select", reads |-> reads, writes |-> writes,
                    deadline |-> DeadlineAfter(timeout)])

-----------------------------------------------------------------------------
(***************************************************************************)
(* Completion.  Both calls look their descriptors up again by number.      *)
(***************************************************************************)
Expired(c) == c.deadline # NoDeadline /\ clock >= c.deadline

EventReady(p, s) ==
    LET c == pending[p][s]
    IN  \/ c.op = "select" /\ (AnyReady(p, c.reads, c.writes) \/ Expired(c))
        \/ c.op = "kevent" /\ (~IsQueue(p, c.fd) \/ ReadyIn(p, c.fd) # {} \/ Expired(c))

complete_event(p, s) ==
    /\ EventReady(p, s)
    /\ LET c == pending[p][s]
       IN  IF c.op = "kevent" /\ IsQueue(p, c.fd) /\ ReadyIn(p, c.fd) # {}
           THEN Collect(p, c.fd, c.count)
           ELSE UNCHANGED fds                        \* select; EBADF; time out
    /\ Woken(p, s)

=============================================================================
