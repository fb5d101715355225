----------------------------- MODULE VirtualUdp -----------------------------
(***************************************************************************)
(* Datagram sockets of the guest without a host network (virtual_udp.cpp   *)
(* and the socket calls that use it).  A socket is shared by every         *)
(* descriptor that dup, fork or SCM_RIGHTS made of it and leaves the       *)
(* network with the last of them.  A datagram goes, at once, into the      *)
(* queue of every socket that accepts it; a full queue loses its oldest.   *)
(*                                                                         *)
(* One family; an address is <<ip, port>>, where an ip is "any", the       *)
(* network's only host "self", or the multicast "group".  A blocked        *)
(* receive is a receive once the queue holds something.                    *)
(***************************************************************************)
EXTENDS Naturals, Sequences, FiniteSets
LOCAL INSTANCE TLC

CONSTANTS UdpSockets, FixedPorts, FirstEphemeral, LastPort, QueueLimit, MaxDatagrams,
          MaxDescriptors

VirtualUdpAssumption ==
    /\ {QueueLimit, MaxDatagrams, MaxDescriptors, FirstEphemeral} \subseteq Nat \ {0}
    /\ LastPort >= FirstEphemeral
    /\ FixedPorts \subseteq 0..LastPort /\ UdpSockets \subseteq Nat

VARIABLES
    descriptors,   \* socket -> descriptors of it; none: it does not exist
    boundTo,       \* bound_address_
    connected,     \* connected_address_
    joined,        \* sockets whose multicast_groups_ hold the group
    quiet,         \* sockets that turned multicast_loop_ off
    incoming,      \* incoming_
    nextPort,      \* next_ephemeral_port_
    sent,          \* history: datagrams sent
    rebound,       \* history: socket -> sent when it was last bound by a call
    since,         \* history: socket -> sent when it was connected
    taken,         \* history: socket -> number of the last datagram received
    lastAccepted   \* history: socket -> number of the last datagram accepted
uvars == <<descriptors, boundTo, connected, joined, quiet, incoming, nextPort, sent,
           rebound, since, taken, lastAccepted>>

NoAddress == <<"none", 0>>
Ip(address) == address[1]
Port(address) == address[2]
PortNumbers == FixedPorts \cup FirstEphemeral..LastPort
Peers == {"self", "group"} \X (PortNumbers \ {0})
Live == {s \in UdpSockets : descriptors[s] > 0}

Zero == [s \in UdpSockets |-> 0]

Init ==
    /\ descriptors = Zero
    /\ boundTo = [s \in UdpSockets |-> NoAddress] /\ connected = boundTo
    /\ joined = {} /\ quiet = {}
    /\ incoming = [s \in UdpSockets |-> <<>>]
    /\ nextPort = FirstEphemeral
    /\ sent = 0 /\ rebound = Zero /\ since = Zero /\ taken = Zero /\ lastAccepted = Zero

Create(s) ==
    /\ descriptors[s] = 0 /\ boundTo[s] = NoAddress /\ lastAccepted[s] = 0
    /\ descriptors' = [descriptors EXCEPT ![s] = 1]
    /\ UNCHANGED <<boundTo, connected, joined, quiet, incoming, nextPort, sent, rebound,
                   since, taken, lastAccepted>>

\* dup, fork or a descriptor received: the same socket.
Share(s) ==
    /\ s \in Live /\ descriptors[s] < MaxDescriptors
    /\ descriptors' = [descriptors EXCEPT ![s] = @ + 1]
    /\ UNCHANGED <<boundTo, connected, joined, quiet, incoming, nextPort, sent, rebound,
                   since, taken, lastAccepted>>

Close(s) ==
    /\ s \in Live
    /\ descriptors' = [descriptors EXCEPT ![s] = @ - 1]
    /\ incoming' = IF descriptors[s] = 1 THEN [incoming EXCEPT ![s] = <<>>] ELSE incoming
    /\ UNCHANGED <<boundTo, connected, joined, quiet, nextPort, sent, rebound, since, taken,
                   lastAccepted>>

\* bind: at any time, to any address and port, also one that is taken or 0; what is
\* queued stays.
Bind(s, address) ==
    /\ s \in Live
    /\ boundTo' = [boundTo EXCEPT ![s] = address]
    /\ rebound' = [rebound EXCEPT ![s] = sent]
    /\ UNCHANGED <<descriptors, connected, joined, quiet, incoming, nextPort, sent, since,
                   taken, lastAccepted>>

\* connect refuses a second peer, binds nothing and keeps what is queued.
Connect(s, peer) ==
    /\ s \in Live /\ connected[s] = NoAddress
    /\ connected' = [connected EXCEPT ![s] = peer]
    /\ since' = [since EXCEPT ![s] = sent]
    /\ UNCHANGED <<descriptors, boundTo, joined, quiet, incoming, nextPort, sent, rebound,
                   taken, lastAccepted>>

Disconnect(s) ==
    /\ s \in Live /\ connected[s] # NoAddress
    /\ connected' = [connected EXCEPT ![s] = NoAddress]
    /\ UNCHANGED <<descriptors, boundTo, joined, quiet, incoming, nextPort, sent, rebound,
                   since, taken, lastAccepted>>

\* set_option: membership of the group and the loop of the sender's own datagrams.
SetOption(s, groups, silent) ==
    /\ s \in Live
    /\ joined' = groups /\ quiet' = silent /\ <<groups, silent>> # <<joined, quiet>>
    /\ UNCHANGED <<descriptors, boundTo, connected, incoming, nextPort, sent, rebound,
                   since, taken, lastAccepted>>

(* send. *)

\* A socket without an address takes the next port, used or not; the counter wraps.
BoundImplicitly(s) ==
    IF boundTo[s] # NoAddress THEN UNCHANGED <<boundTo, nextPort>>
    ELSE /\ boundTo' = [boundTo EXCEPT ![s] = <<"any", nextPort>>]
         /\ nextPort' = IF nextPort = LastPort THEN FirstEphemeral ELSE nextPort + 1

\* Where a datagram says it comes from.
Source(s) ==
    LET address == IF boundTo[s] = NoAddress THEN <<"any", nextPort>> ELSE boundTo[s] IN
    IF Ip(address) = "any" THEN <<"self", Port(address)>> ELSE address

\* Whether socket t, with this address and peer, takes a datagram of socket s.
Accepts(t, address, connection, s, source, destination) ==
    /\ address # NoAddress /\ Port(address) = Port(destination)
    /\ connection \in {NoAddress, source}
    /\ ~(t = s /\ Ip(destination) = "group" /\ s \in quiet)
    /\ \/ Ip(address) = "any"
       \/ IF Ip(destination) = "group" THEN t \in joined ELSE Ip(address) = Ip(destination)

\* maximum_pending_datagrams.
Queued(queue, datagram) ==
    Append(IF Len(queue) < QueueLimit THEN queue ELSE Tail(queue), datagram)

\* To an explicit destination from a socket without a peer, or to the peer.
Send(s, destination) ==
    /\ s \in Live /\ sent < MaxDatagrams
    /\ connected[s] \in {NoAddress, destination}
    /\ BoundImplicitly(s)
    /\ sent' = sent + 1
    /\ LET datagram == [number |-> sent + 1, from |-> s, source |-> Source(s)]
           takers == {t \in Live : Accepts(t, boundTo'[t], connected[t], s, Source(s),
                                           destination)} IN
       /\ incoming' = [t \in UdpSockets |->
              IF t \in takers THEN Queued(incoming[t], datagram) ELSE incoming[t]]
       /\ lastAccepted' = [t \in UdpSockets |->
              IF t \in takers THEN sent + 1 ELSE lastAccepted[t]]
    /\ UNCHANGED <<descriptors, connected, joined, quiet, rebound, since, taken>>

\* recvfrom, recvmsg or read, through any of the descriptors; a datagram that cannot be
\* copied out is lost.
Receive(s) ==
    /\ s \in Live /\ incoming[s] # <<>>
    /\ incoming' = [incoming EXCEPT ![s] = Tail(@)]
    /\ taken' = [taken EXCEPT ![s] = Head(incoming[s]).number]
    /\ UNCHANGED <<descriptors, boundTo, connected, joined, quiet, nextPort, sent, rebound,
                   since, lastAccepted>>

Next ==
    \E s \in UdpSockets :
       \/ Create(s) \/ Share(s) \/ Close(s) \/ Disconnect(s) \/ Receive(s)
       \/ \E address \in {"any", "self", "group"} \X PortNumbers : Bind(s, address)
       \/ \E peer \in Peers : Connect(s, peer) \/ Send(s, peer)
       \/ SetOption(s, joined \cup {s}, quiet) \/ SetOption(s, joined \ {s}, quiet)
       \/ SetOption(s, joined, quiet \cup {s}) \/ SetOption(s, joined, quiet \ {s})

(* Properties. *)

\* A reader gets datagrams in the order they were sent, none twice, and what a full
\* queue loses is never the newest (virtual_udp.cpp 302-320).
QueuesKeepNewest ==
    \A s \in UdpSockets : LET queue == incoming[s] IN
       /\ Len(queue) <= QueueLimit
       /\ \A i \in DOMAIN queue :
             /\ queue[i].number > taken[s]
             /\ i > 1 => queue[i - 1].number < queue[i].number
             /\ i = Len(queue) => queue[i].number = lastAccepted[s]

\* What reaches a connected socket after it connected comes from its peer
\* (virtual_udp.cpp 283-287).
ConnectedHearPeer ==
    \A s \in UdpSockets : \A i \in DOMAIN incoming[s] :
       connected[s] # NoAddress /\ incoming[s][i].number > since[s]
          => incoming[s][i].source = connected[s]

\* An answer to the source of a datagram reaches the socket that sent it, if that is
\* open, without a peer and not bound anew; a socket bound to port 0 or to a group's
\* address sends datagrams that cannot be answered (virtual_udp.cpp 244-300).
AnswersReachSender ==
    \A t \in UdpSockets : \A i \in DOMAIN incoming[t] :
       LET datagram == incoming[t][i]
           s == datagram.from IN
       /\ s \in Live /\ s # t /\ connected[s] = NoAddress /\ rebound[s] < datagram.number
       /\ Port(datagram.source) # 0 /\ Ip(datagram.source) # "group"
       => Accepts(s, boundTo[s], connected[s], t, <<"self", 0>>, datagram.source)
=============================================================================
