------------------------------ MODULE Networks ------------------------------
(*****************************************************************************)
(* The virtual 802.11 radio of wifi_state.cpp, shared by every process: its  *)
(* power, the airplane mode and the association with the one access point    *)
(* in reach.  What follows from it is two state machines.                    *)
(*                                                                           *)
(* Network interfaces (network.cpp, events.cpp), their routes                *)
(* (darwin_route_socket.cpp) and who watches them: sockets of kernel         *)
(* events and route sockets, each with a cursor into a bounded ring that     *)
(* all processes share.  The radio, ioctl calls and routing commands         *)
(* change the interfaces and the routes; a call is one step, because         *)
(* calls of the guest are served one at a time.                              *)
(*                                                                           *)
(* Processes that use the radio: Apple80211 handles with their callbacks     *)
(* and asynchronous scans (apple80211_hle.cpp), and the driver's event       *)
(* device with its streams of records (apple80211_event_stream.cpp), scan    *)
(* iterator and delayed completion (events.cpp, kernel.cpp).  A process      *)
(* has one thread, whose calls into the firmware may be interrupted by a     *)
(* callback at any call of the kernel.                                       *)
(*****************************************************************************)
EXTENDS Integers, Sequences, Lists, FiniteSets, FiniteSetsExt, TLC

\* An associated radio has the lease of the virtual network at once.
RadioInit == [powered |-> FALSE, airplane |-> FALSE, poweredBefore |-> FALSE,
              joined |-> FALSE, preferred |-> FALSE]

associate(r) == IF r.powered THEN [r EXCEPT !.joined = TRUE, !.preferred = TRUE] ELSE r
auto_join(r) == [r EXCEPT !.joined = r.preferred]
set_power(r, on) ==
    IF ~on THEN [r EXCEPT !.powered = FALSE, !.joined = FALSE]
    ELSE IF r.airplane \/ r.powered THEN r
    ELSE auto_join([r EXCEPT !.powered = TRUE])
set_airplane_mode(r, on) ==
    IF r.airplane = on THEN r
    ELSE IF on THEN [r EXCEPT !.airplane = TRUE, !.poweredBefore = r.powered,
                              !.powered = FALSE, !.joined = FALSE]
    ELSE IF r.poweredBefore THEN auto_join([r EXCEPT !.airplane = FALSE, !.powered = TRUE])
    ELSE [r EXCEPT !.airplane = FALSE]

-----------------------------------------------------------------------------
CONSTANTS
    Listeners,      \* sockets of kernel events
    RouteSockets,   \* route sockets
    Protocols,      \* families a route socket may be limited to
    UserAddresses,  \* [family -> addresses a process may configure]
    RouteKeys,      \* the routes commands name
    MaxRetained,    \* bound of both rings
    MaxPosted       \* bound of the events and of the messages ever posted

Families == {"inet", "inet6"}
Lease == "lease"
None == "none"
InterfacesAssumption ==
    /\ DOMAIN UserAddresses = Families /\ Lease \notin UserAddresses["inet"]
    /\ {MaxRetained, MaxPosted} \subseteq Nat \ {0}
    /\ Protocols \subseteq {"any"} \cup Families

VARIABLES
    radio,      \* the WifiState
    interface,  \* [interface -> [up, running, gateway, address]]
    routes,     \* the route table: key -> [gateway, on, origin]
    events,     \* kernel_events: retained [id, subclass]
    messages,   \* route_socket_messages: retained [id, change, key, family, to]
    posted,     \* [events, messages]: how many were ever posted
    listener,   \* [Listeners -> [open, cursor, filter, known]]
    watcher,    \* [RouteSockets -> [open, cursor, protocol, view]]
    silent      \* whether an address changed without an event

networkVars == <<radio, interface, routes, events, messages, posted, listener, watcher, silent>>

Interfaces == {"lo0", "en0"}
Closed == [open |-> FALSE]
\* A key is what the kernel compares: family, destination and mask.
Key(family, to, host) == <<family, to, host>>
Default(family) == Key(family, "default", FALSE)

NetworkInit ==
    /\ radio = RadioInit
    /\ interface = [n \in Interfaces |-> [up |-> FALSE, running |-> n = "lo0", gateway |-> FALSE,
                                          address |-> [f \in Families |-> None]]]
    /\ routes = << >> /\ events = << >> /\ messages = << >>
    /\ posted = [events |-> 0, messages |-> 0]
    /\ listener = [l \in Listeners |-> Closed]
    /\ watcher = [s \in RouteSockets |-> Closed]
    /\ silent = FALSE

-----------------------------------------------------------------------------
(***************************************************************************)
(* What interfaces promise the route table, and the rings.                 *)
(***************************************************************************)
Retained(ring) == IF Len(ring) > MaxRetained THEN SubSeq(ring, Len(ring) - MaxRetained + 1, Len(ring)) ELSE ring
\* post_network_event of each of a sequence of subclasses.
PostEvents(subclasses) ==
    LET new == [i \in 1 .. Len(subclasses) |-> [id |-> posted.events + i, subclass |-> subclasses[i]]]
    IN  events' = Retained(events \o new)
PostMessages(new) ==
    messages' = Retained(messages \o [i \in 1 .. Len(new) |-> [id |-> posted.messages + i] @@ new[i]])
Message(change, key, to) == [change |-> change, key |-> key, to |-> to]

\* The routes an address brings: a host route for the loopback, a network
\* and perhaps a default gateway for inet, a network and itself for inet6.
Replacements(n, i, family) ==
    LET a == i.address[family]
        direct(host) == Key(family, a, host) :> [gateway |-> "direct", on |-> n, origin |-> "interface"]
    IN  IF a = None THEN << >>
        ELSE IF family = "inet6" THEN direct(FALSE) @@ direct(TRUE)
        ELSE IF n = "lo0" THEN direct(TRUE)
        ELSE IF i.gateway
             THEN direct(FALSE) @@ (Default(family) :> [gateway |-> "router", on |-> n, origin |-> "interface"])
             ELSE direct(FALSE)

Without(f, keys) == [k \in DOMAIN f \ keys |-> f[k]]
\* While an address is configured only routes it brought are replaced, and
\* a route already there wins; without one every route of the interface goes.
RemovedRoutes(n, i, family) ==
    {k \in DOMAIN routes : /\ k[1] = family /\ routes[k].on = n
                           /\ i.address[family] # None => routes[k].origin = "interface"}
AddedRoutes(n, i, family) ==
    DOMAIN Replacements(n, i, family) \ (DOMAIN routes \ RemovedRoutes(n, i, family))
synchronize_interface_routes(n, i, family) ==
    /\ routes' = Without(routes, RemovedRoutes(n, i, family)) @@ Replacements(n, i, family)
    /\ PostMessages(SetToSeq({Message("delete", k, None) : k \in RemovedRoutes(n, i, family)}) \o
                    SetToSeq({Message("add", k, None) : k \in AddedRoutes(n, i, family)}))

\* An interface becomes i: its routes follow, and then events are posted.
Becomes(n, i, family, subclasses) ==
    /\ interface' = [interface EXCEPT ![n] = i]
    /\ synchronize_interface_routes(n, i, family)
    /\ PostEvents(subclasses)
    /\ posted' = [events |-> posted.events + Len(subclasses),
                  messages |-> posted.messages + Cardinality(RemovedRoutes(n, i, family))
                                               + Cardinality(AddedRoutes(n, i, family))]

-----------------------------------------------------------------------------
(***************************************************************************)
(* The radio drives en0.                                                   *)
(***************************************************************************)
Transition(r) ==
    [up |-> r.powered, running |-> r.joined, gateway |-> r.joined,
     address |-> [interface["en0"].address EXCEPT !["inet"] = IF r.joined THEN Lease ELSE None]]
apply_wifi_transition(r) ==
    LET old == interface["en0"]
        new == Transition(r)
        leased == new.address["inet"] # None
        had == old.address["inet"] # None
    IN  /\ Becomes("en0", new, "inet",
                   (IF radio.joined # r.joined THEN <<"link">> ELSE << >>) \o
                   (IF <<old.up, old.running>> # <<new.up, new.running>> THEN <<"link">> ELSE << >>) \o
                   (IF leased # had THEN <<"inet">> ELSE << >>))
        /\ silent' = (silent \/ (leased /\ had /\ old.address["inet"] # Lease))
        /\ radio' = r
        /\ UNCHANGED <<listener, watcher>>

\* Power by Apple80211 or by the driver's ioctl, which tell the interface
\* whether or not the radio changed, as airplane mode does.
SetPower(on) == apply_wifi_transition(set_power(radio, on))
SetAirplaneMode(on) == apply_wifi_transition(set_airplane_mode(radio, on))
Associate == radio.powered /\ apply_wifi_transition(associate(radio))

-----------------------------------------------------------------------------
(***************************************************************************)
(* ioctl calls on a datagram socket.                                       *)
(***************************************************************************)
ioctl == UNCHANGED <<radio, listener, watcher, silent>>

\* SIOCSIFFLAGS leaves the flags of the kernel alone.
SetFlags(n, up) ==
    /\ ioctl /\ interface' = [interface EXCEPT ![n].up = up]
    /\ PostEvents(<<"link">>) /\ posted' = [posted EXCEPT !.events = @ + 1]
    /\ UNCHANGED <<routes, messages>>
\* SIOCAIFADDR and SIOCAIFADDR_IN6 keep the gateway that was there.
AddAddress(n, family, a) ==
    ioctl /\ Becomes(n, [interface[n] EXCEPT !.address[family] = a], family, <<family>>)
\* SIOCDIFADDR of an address that is configured.
DeleteAddress(n, family) ==
    /\ ioctl /\ interface[n].address[family] # None
    /\ LET kept == [interface[n] EXCEPT !.address[family] = None]
       IN  Becomes(n, IF family = "inet" THEN [kept EXCEPT !.gateway = FALSE] ELSE kept, family, <<family>>)

-----------------------------------------------------------------------------
(***************************************************************************)
(* Routing commands.  The answer of each goes to every route socket, with  *)
(* its error if it failed; a silent query answers its socket alone.        *)
(***************************************************************************)
\* Of the routes that match an address, the most specific one.
Matching(family, a) ==
    LET of == {Key(family, a, TRUE), Key(family, a, FALSE), Default(family)} \cap DOMAIN routes
    IN  IF Key(family, a, TRUE) \in of THEN {Key(family, a, TRUE)}
        ELSE IF Key(family, a, FALSE) \in of THEN {Key(family, a, FALSE)} ELSE of

Command(change, key, to) ==
    /\ PostMessages(<<Message(change, key, to)>>)
    /\ posted' = [posted EXCEPT !.messages = @ + 1]
    /\ UNCHANGED <<radio, interface, events, listener, watcher, silent>>

\* The interface of a route: the one named, else the one that leads to its
\* gateway, an address of the route's family.
Bound(n, family, via) ==
    IF n # None \/ via = None THEN n
    ELSE LET leads == {k \in Matching(family, via) : routes[k].on # None}
         IN  IF leads = {} THEN None ELSE routes[CHOOSE k \in leads : TRUE].on
Entry(key, n, via) == [gateway |-> IF via = None THEN "direct" ELSE via,
                       on |-> Bound(n, key[1], via), origin |-> "user"]

AddRoute(key, n, via) ==
    /\ n # None \/ via # None
    /\ IF key \in DOMAIN routes THEN Command("failed", key, None) /\ UNCHANGED routes
       ELSE routes' = (key :> Entry(key, n, via)) @@ routes /\ Command("add", key, None)
ChangeRoute(key, n, via) ==
    IF key \notin DOMAIN routes THEN Command("failed", key, None) /\ UNCHANGED routes
    ELSE LET e == Entry(key, n, via)
         IN  /\ routes' = [routes EXCEPT ![key] =
                             [e EXCEPT !.gateway = IF via = None THEN routes[key].gateway ELSE @,
                                       !.on = IF @ = None THEN routes[key].on ELSE @]]
             /\ Command("change", key, None)
DeleteRoute(key) ==
    IF key \notin DOMAIN routes THEN Command("failed", key, None) /\ UNCHANGED routes
    ELSE routes' = Without(routes, {key}) /\ Command("delete", key, None)
\* A process that is not root, or an interface that is not there.
RefusedCommand(key) == Command("failed", key, None) /\ UNCHANGED routes
QueryRoute(s, key, quiet) ==
    /\ watcher[s].open
    /\ Command("answer", key, IF quiet THEN s ELSE None) /\ UNCHANGED routes

-----------------------------------------------------------------------------
(***************************************************************************)
(* Sockets that watch.                                                     *)
(***************************************************************************)
OpenListener(l) ==
    /\ ~listener[l].open
    /\ listener' = [listener EXCEPT ![l] = [open |-> TRUE, cursor |-> posted.events + 1, filter |-> "any",
                                           known |-> interface]]
    /\ UNCHANGED <<radio, interface, routes, events, messages, posted, watcher, silent>>
\* SIOCSKEVFILT; the process looks at the interfaces afterwards.
SetFilter(l, subclass) ==
    /\ listener[l].open
    /\ listener' = [listener EXCEPT ![l].filter = subclass, ![l].known = interface]
    /\ UNCHANGED <<radio, interface, routes, events, messages, posted, watcher, silent>>
system_event_matches(l, e) == listener[l].filter \in {"any", e.subclass}
AvailableEvents(l) ==
    {i \in DOMAIN events : events[i].id >= listener[l].cursor /\ system_event_matches(l, events[i])}
\* A read of an event, and the look at the interfaces that it calls for.
consume_system_event(l) ==
    /\ listener[l].open /\ AvailableEvents(l) # {}
    /\ LET i == Min(AvailableEvents(l))
       IN  listener' = [listener EXCEPT ![l].cursor = events[i].id + 1, ![l].known = interface]
    /\ UNCHANGED <<radio, interface, routes, events, messages, posted, watcher, silent>>

\* A process opens a route socket and dumps the table.
OpenWatcher(s, protocol) ==
    /\ ~watcher[s].open
    /\ watcher' = [watcher EXCEPT ![s] = [open |-> TRUE, cursor |-> posted.messages + 1, protocol |-> protocol,
                                         view |-> DOMAIN routes, lost |-> FALSE]]
    /\ UNCHANGED <<radio, interface, routes, events, messages, posted, listener, silent>>
\* A silent answer passes the limit to a family.
Receives(s, m) == IF m.to # None THEN m.to = s ELSE watcher[s].protocol \in {"any", m.key[1]}
AvailableMessages(s) ==
    {i \in DOMAIN messages : messages[i].id >= watcher[s].cursor /\ Receives(s, messages[i])}
Applied(view, m) ==
    IF m.change = "add" THEN view \cup {m.key} ELSE IF m.change = "delete" THEN view \ {m.key} ELSE view
consume_route_message(s) ==
    /\ watcher[s].open /\ AvailableMessages(s) # {}
    /\ LET i == Min(AvailableMessages(s))
       IN  watcher' = [watcher EXCEPT ![s].cursor = messages[i].id + 1,
                                      ![s].view = Applied(@, messages[i]),
                                      ![s].lost = @ \/ messages[1].id > watcher[s].cursor]
    /\ UNCHANGED <<radio, interface, routes, events, messages, posted, listener, silent>>

Vias(family) == {None} \cup (IF family = "inet" THEN {Lease} ELSE UserAddresses[family])
NetworkNext ==
    /\ posted.events < MaxPosted /\ posted.messages < MaxPosted
    /\ \/ \E on \in BOOLEAN : SetPower(on) \/ SetAirplaneMode(on)
       \/ Associate
       \/ \E n \in Interfaces, up \in BOOLEAN : SetFlags(n, up)
       \/ \E n \in Interfaces, f \in Families :
             DeleteAddress(n, f) \/ \E a \in UserAddresses[f] : AddAddress(n, f, a)
       \/ \E key \in RouteKeys : \/ DeleteRoute(key) \/ RefusedCommand(key)
                            \/ \E s \in RouteSockets, quiet \in BOOLEAN : QueryRoute(s, key, quiet)
                            \/ \E n \in {None, "en0"}, via \in Vias(key[1]) :
                                   AddRoute(key, n, via) \/ ChangeRoute(key, n, via)
       \/ \E l \in Listeners : \/ OpenListener(l) \/ consume_system_event(l)
                               \/ \E c \in {"any", "link"} \cup Families : SetFilter(l, c)
       \/ \E s \in RouteSockets : (\E p \in Protocols : OpenWatcher(s, p)) \/ consume_route_message(s)

-----------------------------------------------------------------------------
\* The flags of en0 that the kernel keeps follow the radio, and a lease is
\* never configured on a radio that is not associated.
InterfaceFollowsRadio ==
    /\ interface["en0"].running = radio.joined
    /\ interface["en0"].address["inet"] = Lease => radio.joined
    /\ radio.joined => radio.powered /\ ~radio.airplane

\* A route that an interface brought is one its addresses bring now.
RoutesFollowAddresses ==
    \A k \in DOMAIN routes : routes[k].origin = "interface" =>
        k \in DOMAIN Replacements(routes[k].on, interface[routes[k].on], k[1])

\* A process that has read all its events knows the interfaces as they are.
ListenersLearnState ==
    \A l \in Listeners :
        (listener[l].open /\ listener[l].filter = "any" /\ AvailableEvents(l) = {} /\ ~silent) =>
            listener[l].known = interface

\* A process that has followed every message knows which routes there are.
Follows(s) ==
    /\ watcher[s].open /\ watcher[s].protocol = "any" /\ AvailableMessages(s) = {}
    /\ ~watcher[s].lost /\ (messages = << >> \/ messages[1].id <= watcher[s].cursor)
WatchersLearnRoutes == \A s \in RouteSockets : Follows(s) => watcher[s].view = DOMAIN routes

-----------------------------------------------------------------------------
CONSTANTS
    Clients,    \* processes
    Fds,        \* descriptors of the event device in a process
    MaxHandles, \* bound of the registrations ever made
    MaxStreams, \* bound of the streams ever opened
    MaxUnread   \* bound of the events waiting in a stream

WifiClientsAssumption == {MaxHandles, MaxStreams, MaxUnread} \subseteq Nat

VARIABLES
    card,         \* the WifiState
    registration, \* [Clients -> NoId or [id, events, scan, flight]], of the one handle
    nextRegistration,       \* next registration
    pending,      \* pending_events: sequence of [to, id] of finished scans
    stack,        \* [Clients -> sequence of the calls a thread is in, the last one running]
    fd,           \* [Clients -> [Fds -> stream or NoId]]
    stream,       \* streams: [events, record, half, profile, sent, read]
    scanned,      \* apple80211_scan_delivered_: [Clients -> SUBSET Fds]
    scheduled,    \* [Clients -> scan completions on the timer]
    learnt,       \* [Clients -> {the power the process knows of} or Unknown]
    broker,       \* [Clients -> the processes it shares an event broker with]
    untold,       \* processes that another broker's change of the power passed by
    reused        \* registrations made while a call of an older one ran or waited

wifiVars == <<card, registration, nextRegistration, pending, stack, fd, stream, scanned, scheduled,
              learnt, broker, untold, reused>>

NoId == 0
Unknown == {}
Unregistered == [id |-> NoId]
NewStream == [events |-> << >>, record |-> 0, half |-> FALSE, profile |-> "undetected",
              sent |-> << >>, read |-> << >>]
Power == "power"
Scanned == "scanned"

WifiClientsInit ==
    /\ card = RadioInit /\ nextRegistration = 1 /\ pending = << >> /\ stream = << >> /\ reused = {}
    /\ registration = [p \in Clients |-> Unregistered]
    /\ stack = [p \in Clients |-> << >>]
    /\ fd = [p \in Clients |-> [f \in Fds |-> NoId]]
    /\ scanned = [p \in Clients |-> {}]
    /\ scheduled = [p \in Clients |-> 0]
    /\ learnt = [p \in Clients |-> Unknown]
    /\ broker = [p \in Clients |-> p] /\ untold = {}

-----------------------------------------------------------------------------
(***************************************************************************)
(* Events go to each descriptor of the event device a process holds, so    *)
(* that a stream with two descriptors gets them twice.                     *)
(***************************************************************************)
Holds(p, s) == Cardinality({f \in Fds : fd[p][f] = s})
Times(e, n) == [i \in 1 .. n |-> e]
Enqueued(s, new) == [s EXCEPT !.events = @ \o new, !.sent = @ \o new]
\* inject_wifi_driver_event in each of the processes of ps.
Injected(ps, e) ==
    [s \in DOMAIN stream |-> LET n == FoldSet(LAMBDA p, sum : sum + Holds(p, s), 0, ps)
                             IN  Enqueued(stream[s], Times(e, n))]
Room == \A s \in DOMAIN stream : Len(stream[s].events) < MaxUnread

\* publish_state_change in a process tells the processes of its broker that
\* monitor an event; those of an association are told like the power's.
Monitors(c, e) ==
    {p \in Clients : /\ broker[p] = broker[c] /\ registration[p] # Unregistered
                     /\ e \in registration[p].events}
TellPower(c, r) == IF r.powered # card.powered THEN Injected(Monitors(c, Power), Power) ELSE stream
publish_state_change(c, r) ==
    /\ card' = r
    /\ stream' = TellPower(c, r)
    /\ untold' = IF r.powered = card.powered THEN untold ELSE untold \cup {p \in Clients : broker[p] # broker[c]}
    /\ UNCHANGED <<registration, nextRegistration, pending, stack, fd, scanned, scheduled, learnt,
                   broker, reused>>

\* Whoever changes the radio: a handle, the driver's ioctl, the airplane
\* switch of CoreTelephony.
ClientSetsPower(c, on) == Room /\ publish_state_change(c, set_power(card, on))
ClientSetsAirplaneMode(c, on) == Room /\ publish_state_change(c, set_airplane_mode(card, on))

-----------------------------------------------------------------------------
(***************************************************************************)
(* The event device.                                                       *)
(***************************************************************************)
OpenDevice(p, f) ==
    /\ fd[p][f] = NoId /\ Len(stream) < MaxStreams
    /\ stream' = Append(stream, NewStream)
    /\ fd' = [fd EXCEPT ![p][f] = Len(stream')]
    /\ learnt' = [learnt EXCEPT ![p] = Unknown]
    /\ UNCHANGED <<card, registration, nextRegistration, pending, stack, scanned, scheduled,
                   broker, untold, reused>>
Duplicate(p, f, g) ==
    /\ fd[p][f] # NoId /\ fd[p][g] = NoId
    /\ fd' = [fd EXCEPT ![p][g] = fd[p][f]]
    /\ UNCHANGED <<card, registration, nextRegistration, pending, stack, stream, scanned,
                   scheduled, learnt, broker, untold, reused>>
CloseDevice(p, f) ==
    /\ fd[p][f] # NoId
    /\ fd' = [fd EXCEPT ![p][f] = NoId]
    /\ scanned' = [scanned EXCEPT ![p] = @ \ {f}]
    /\ learnt' = [learnt EXCEPT ![p] = Unknown]
    /\ UNCHANGED <<card, registration, nextRegistration, pending, stack, stream, scheduled, broker,
                   untold, reused>>

\* The first read decides whether records are bit masks of all that waits
\* or frames of one event each.  Events that arrive after a record was
\* prepared wait for the next one.
Readable(s) == s.record # 0 \/ s.events # << >>
Profile(s, small) == IF s.profile # "undetected" THEN s.profile ELSE IF small THEN "mask" ELSE "frames"
prepare_read(s, small) ==
    LET profile == Profile(s, small)
    IN  [s EXCEPT !.profile = profile,
                  !.record = IF @ # 0 THEN @ ELSE IF profile = "mask" THEN Len(s.events) ELSE 1]
consume(s) ==
    [s EXCEPT !.read = @ \o SubSeq(s.events, 1, s.record), !.events = SubSeq(@, s.record + 1, Len(@)),
              !.record = 0, !.half = FALSE]
\* A process looks at the power after it read an event; others with the same
\* stream have missed it.
Learns(p, before, after) ==
    IF Len(after.read) = Len(before.read) THEN learnt
    ELSE [q \in Clients |-> IF q = p THEN {card.powered}
                            ELSE IF \E f, g \in Fds : fd[p][f] # NoId /\ fd[q][g] = fd[p][f] THEN Unknown
                            ELSE learnt[q]]
\* A buffer the kernel cannot write leaves the record for the next read, and
\* a small one takes a part of it.
ReadEvents(p, f, small, outcome) ==
    LET s == fd[p][f]
        ready == prepare_read(stream[s], small)
        after == CASE outcome = "fault" -> ready
                   [] outcome = "part" -> [ready EXCEPT !.half = TRUE]
                   [] outcome = "whole" -> consume(ready)
    IN  /\ s # NoId /\ Readable(stream[s])
        /\ outcome = "part" => ~stream[s].half
        /\ stream' = [stream EXCEPT ![s] = after]
        /\ learnt' = Learns(p, stream[s], after)
        /\ UNCHANGED <<card, registration, nextRegistration, pending, stack, fd, scanned,
                       scheduled, broker, untold, reused>>

\* The driver's scan: the iterator starts anew, and completion is an event
\* on the timer of the process.
DriverScan(p, f) ==
    /\ fd[p][f] # NoId /\ scheduled[p] < 2
    /\ scanned' = [scanned EXCEPT ![p] = @ \ {f}]
    /\ scheduled' = [scheduled EXCEPT ![p] = @ + 1]
    /\ UNCHANGED <<card, registration, nextRegistration, pending, stack, fd, stream, learnt,
                   broker, untold, reused>>
ScanResult(p, f) ==
    /\ fd[p][f] # NoId /\ f \notin scanned[p] /\ card.powered
    /\ scanned' = [scanned EXCEPT ![p] = @ \cup {f}]
    /\ UNCHANGED <<card, registration, nextRegistration, pending, stack, fd, stream, scheduled,
                   learnt, broker, untold, reused>>
\* deliver_pending_io_locked once the deadline has come.
ScanCompletes(p) ==
    /\ scheduled[p] > 0 /\ Room
    /\ scheduled' = [scheduled EXCEPT ![p] = @ - 1]
    /\ stream' = Injected({p}, Scanned)
    /\ UNCHANGED <<card, registration, nextRegistration, pending, stack, fd, scanned, learnt,
                   broker, untold, reused>>

-----------------------------------------------------------------------------
(***************************************************************************)
(* Apple80211 handles.                                                     *)
(***************************************************************************)
Top(p) == Last(stack[p])
Running(p, kind, id) == \E i \in DOMAIN stack[p] : stack[p][i].kind = kind /\ stack[p][i].id = id
Older(p) == stack[p] # << >> \/ \E i \in DOMAIN pending : pending[i].to = p

\* A registration replaces the one before it and knows nothing of its scan.
EventMonitoringInit(p) ==
    /\ nextRegistration <= MaxHandles
    /\ registration' = [registration EXCEPT
          ![p] = [id |-> nextRegistration, events |-> {}, scan |-> FALSE, flight |-> FALSE]]
    /\ nextRegistration' = nextRegistration + 1
    /\ reused' = IF Older(p) THEN reused \cup {nextRegistration} ELSE reused
    /\ learnt' = [learnt EXCEPT ![p] = Unknown]
    /\ UNCHANGED <<card, pending, stack, fd, stream, scanned, scheduled, broker, untold>>
EventMonitoringHalt(p) ==
    /\ registration[p] # Unregistered
    /\ registration' = [registration EXCEPT ![p] = Unregistered]
    /\ learnt' = [learnt EXCEPT ![p] = Unknown]
    /\ UNCHANGED <<card, nextRegistration, pending, stack, fd, stream, scanned, scheduled, broker,
                   untold, reused>>
\* A process that monitors its power reads it first.
StartMonitoringEvent(p, e) ==
    /\ registration[p] # Unregistered
    /\ registration' = [registration EXCEPT ![p].events = @ \cup {e}]
    /\ learnt' = IF e = Power /\ \E f \in Fds : fd[p][f] # NoId
                 THEN [learnt EXCEPT ![p] = {card.powered}] ELSE learnt
    /\ untold' = IF e = Power THEN untold \ {p} ELSE untold
    /\ UNCHANGED <<card, nextRegistration, pending, stack, fd, stream, scanned, scheduled, broker, reused>>
StopMonitoringEvent(p, e) ==
    /\ registration[p] # Unregistered
    /\ registration' = [registration EXCEPT ![p].events = @ \ {e}]
    /\ learnt' = IF e = Power THEN [learnt EXCEPT ![p] = Unknown] ELSE learnt
    /\ UNCHANGED <<card, nextRegistration, pending, stack, fd, stream, scanned, scheduled, broker,
                   untold, reused>>

\* A request is refused while a scan is under way or a callback runs, for
\* it could not be answered then; the scan itself is the firmware's.
ScanAsync(p) ==
    LET r == registration[p]
    IN  /\ r # Unregistered /\ Scanned \in r.events /\ ~r.flight /\ ~r.scan /\ Len(stack[p]) < 3
        /\ registration' = [registration EXCEPT ![p].scan = TRUE]
        /\ stack' = [stack EXCEPT ![p] = Append(@, [kind |-> "scan", id |-> r.id])]
        /\ UNCHANGED <<card, nextRegistration, pending, fd, stream, scanned, scheduled, learnt,
                       broker, untold, reused>>
\* Its return answers the registration that is there by then.
ScanReturns(p, found) ==
    /\ stack[p] # << >> /\ Top(p).kind = "scan"
    /\ stack' = [stack EXCEPT ![p] = Front(@)]
    /\ IF registration[p] = Unregistered THEN UNCHANGED <<registration, pending>>
       ELSE /\ registration' = [registration EXCEPT ![p].scan = FALSE]
            /\ pending' = IF found THEN Append(pending, [to |-> p, id |-> registration[p].id]) ELSE pending
    /\ UNCHANGED <<card, nextRegistration, fd, stream, scanned, scheduled, learnt, broker, untold, reused>>

\* The oldest finished scan of a process whose handle has no callback in
\* flight, at any call of the kernel.
Deliverable(p) == {i \in DOMAIN pending : pending[i].to = p}
CanDeliver(p) == registration[p] # Unregistered /\ ~registration[p].flight
deliver_pending_event(p) ==
    /\ CanDeliver(p) /\ Deliverable(p) # {} /\ Len(stack[p]) < 3
    /\ LET i == Min(Deliverable(p))
       IN  /\ pending' = RemoveAt(pending, i)
           /\ stack' = [stack EXCEPT ![p] = Append(@, [kind |-> "callback", id |-> pending[i].id])]
    /\ registration' = [registration EXCEPT ![p].flight = TRUE]
    /\ UNCHANGED <<card, nextRegistration, fd, stream, scanned, scheduled, learnt, broker, untold, reused>>
CallbackReturns(p) ==
    /\ stack[p] # << >> /\ Top(p).kind = "callback"
    /\ stack' = [stack EXCEPT ![p] = Front(@)]
    /\ registration' = IF registration[p] = Unregistered THEN registration
                       ELSE [registration EXCEPT ![p].flight = FALSE]
    /\ UNCHANGED <<card, nextRegistration, pending, fd, stream, scanned, scheduled, learnt, broker,
                   untold, reused>>

-----------------------------------------------------------------------------
\* A child shares the streams of its parent and has no registration.
Fork(p, q) ==
    /\ p # q /\ fd[q] = [f \in Fds |-> NoId] /\ registration[q] = Unregistered /\ stack[q] = << >>
    /\ fd' = [fd EXCEPT ![q] = fd[p]]
    /\ scanned' = [scanned EXCEPT ![q] = scanned[p]]
    /\ scheduled' = [scheduled EXCEPT ![q] = 0]
    /\ learnt' = [learnt EXCEPT ![q] = Unknown]
    /\ broker' = [broker EXCEPT ![q] = broker[p]]
    /\ UNCHANGED <<card, registration, nextRegistration, pending, stack, stream, untold, reused>>
reset(p) ==
    /\ registration' = [registration EXCEPT ![p] = Unregistered]
    /\ pending' = SelectSeq(pending, LAMBDA e : e.to # p)
    /\ stack' = [stack EXCEPT ![p] = << >>]
    /\ learnt' = [learnt EXCEPT ![p] = Unknown]
Exec(p) == reset(p) /\ UNCHANGED <<card, nextRegistration, fd, stream, scanned, scheduled, broker,
                                   untold, reused>>
Exit(p) ==
    /\ reset(p)
    /\ fd' = [fd EXCEPT ![p] = [f \in Fds |-> NoId]]
    /\ scanned' = [scanned EXCEPT ![p] = {}]
    /\ scheduled' = [scheduled EXCEPT ![p] = 0]
    /\ UNCHANGED <<card, nextRegistration, stream, broker, untold, reused>>

WifiClientsNext ==
    \/ \E p \in Clients :
        \/ \E on \in BOOLEAN : ClientSetsPower(p, on) \/ ClientSetsAirplaneMode(p, on)
        \/ \E f \in Fds : \/ OpenDevice(p, f) \/ CloseDevice(p, f) \/ DriverScan(p, f) \/ ScanResult(p, f)
                          \/ \E g \in Fds : Duplicate(p, f, g)
                          \/ \E small \in BOOLEAN, o \in {"fault", "part", "whole"} : ReadEvents(p, f, small, o)
        \/ ScanCompletes(p) \/ EventMonitoringInit(p) \/ EventMonitoringHalt(p)
        \/ \E e \in {Power, Scanned} : StartMonitoringEvent(p, e) \/ StopMonitoringEvent(p, e)
        \/ ScanAsync(p) \/ deliver_pending_event(p) \/ CallbackReturns(p)
        \/ \E found \in BOOLEAN : ScanReturns(p, found)
        \/ \E q \in Clients : Fork(p, q)
        \/ Exec(p) \/ Exit(p)

-----------------------------------------------------------------------------
\* Every event sent to a stream is read once, in order, or waits: a record
\* that was prepared and not yet taken loses none that came after it.
StreamsLoseNothing ==
    \A s \in DOMAIN stream : /\ stream[s].read \o stream[s].events = stream[s].sent
                             /\ stream[s].record <= Len(stream[s].events)

\* A scan that was accepted is under way, and while a callback of a handle
\* runs it is marked, so that its callbacks never nest.
ScansUnderWay ==
    \A p \in Clients : LET r == registration[p] IN
        (r # Unregistered /\ r.id \notin reused) =>
            /\ r.scan = Running(p, "scan", r.id)
            /\ r.flight = Running(p, "callback", r.id)
            /\ Cardinality({i \in DOMAIN stack[p] : stack[p][i] = [kind |-> "callback", id |-> r.id]}) <= 1

\* A callback belongs to the registration there is, except one whose process
\* registered anew while it waited.
CallbacksRegistered ==
    \A i \in DOMAIN pending : LET r == registration[pending[i].to] IN
        (r # Unregistered /\ r.id \notin reused) => pending[i].id = r.id

\* A process that monitors its power and has read all its events knows it, unless
\* a process of another broker changed it.
Shared(s) == Cardinality({h \in Clients \X Fds : fd[h[1]][h[2]] = s}) > 1
ClientsLearnPower ==
    \A p \in Clients :
        ( /\ learnt[p] # Unknown /\ p \notin untold
          /\ registration[p] # Unregistered /\ Power \in registration[p].events
          /\ \A f \in Fds : fd[p][f] # NoId => stream[fd[p][f]].events = << >> /\ ~Shared(fd[p][f]) ) =>
              learnt[p] = {card.powered}
=============================================================================
