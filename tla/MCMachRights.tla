---------------------------- MODULE MCMachRights ----------------------------
(***************************************************************************)
(* The client mixes of MachRights for TLC.  Names have stride one; a task  *)
(* allocates two or three names and the queues hold two messages in all.   *)
(* Each mix joins the operations whose effects meet in one part of the     *)
(* kernel state.                                                           *)
(***************************************************************************)
EXTENDS MachRights, TLC

CONSTANTS p, q

Everybody == {p, q}
TwoObjects == 1 .. 2
ThreeObjects == 1 .. 3

Mix == [initial |-> Tasks, operations |-> {}, carried |-> {}, reply |-> {},
        destination |-> {"make_send"}, chosen |-> {}, syncs |-> {0},
        objects |-> 2, names |-> 2, queued |-> 2]

\* Rights travel in messages, ports die and tasks exit.
Messages ==
    [Mix EXCEPT !.operations = {"Receive", "send", "receive_own", "extract", "destroy", "exit"},
                !.carried = {"move_receive", "move_send"},
                !.reply = {"make_send_once"},
                !.destination = {"move_send", "make_send"}]

\* The same with send-once rights.
OnceMessages ==
    [Messages EXCEPT !.carried = {"make_send_once", "move_send_once"},
                     !.reply = {}, !.destination = {"make_send", "make_send_once"}]

\* Memory entries, and special ports; ...
Entrusted ==
    [Mix EXCEPT !.operations = {"memory_entry", "special", "send", "receive_own",
                                "Receive", "extract", "deallocate"},
                !.carried = {"move_send"}]

\* ... memory entries, and IOKit connections.
Transients ==
    [Entrusted EXCEPT !.operations = (@ \ {"special"}) \cup {"iokit"}]

\* No-senders requests.
NoSenders ==
    [Mix EXCEPT !.operations = {"Receive", "send", "receive_own", "extract", "deallocate",
                                "exit", "no_senders", "replace"},
                !.carried = {"move_send"}, !.syncs = {1}]

\* Dead-name requests.
DeadNames ==
    [Mix EXCEPT !.operations = {"Receive", "extract", "mod_refs", "destroy", "exit",
                                "dead_name", "rename"},
                !.chosen = {8}, !.syncs = {0, 1}, !.names = 3]

\* Port-destroyed requests, with a third port.
PortDestroyed ==
    [Mix EXCEPT !.operations = {"Receive", "receive_own", "destroy", "exit", "port_destroyed"},
                !.objects = 3, !.names = 3]

\* A parent forks a child, which inherits exception ports ...
Forks ==
    {[Mix EXCEPT !.initial = {parent},
                 !.operations = {"Receive", "exceptions", "fork", "exit"},
                 !.chosen = {8}, !.queued = 1] : parent \in Tasks}

\* ... while no-senders requests wait for the ports, ...
WatchedForks ==
    {[mx EXCEPT !.operations = @ \cup {"no_senders"}] : mx \in Forks}

\* ... or inherits a bootstrap port.
Bootstraps ==
    {[Mix EXCEPT !.initial = {parent},
                 !.operations = {"Receive", "special", "fork", "deallocate"},
                 !.chosen = {8}, !.queued = 1] : parent \in Tasks}

\* Port sets, and the calls on names.
PortSets ==
    [Mix EXCEPT !.operations = {"Receive", "PortSet", "sets", "send", "receive_own", "insert",
                                "allocate_name", "DeadName", "mod_refs", "set_mscount"},
                !.carried = {"move_receive"}, !.chosen = {8}]

\* Receive rights travel while their ports have port-destroyed requests.
Returning ==
    [Mix EXCEPT !.operations = {"Receive", "send", "extract", "destroy", "port_destroyed"},
                !.carried = {"move_receive"}]

\* Replies to send-once destinations.
OnceReplies ==
    [Mix EXCEPT !.operations = {"Receive", "send", "extract"},
                !.reply = {"move_send_once"}, !.destination = {"make_send_once"}]

ReturningMixes == {Returning}
OnceReplyMixes == {OnceReplies}
MessageMixes == {Messages, OnceMessages, Entrusted, Transients} \cup Forks \cup Bootstraps
RequestMixes == {NoSenders, DeadNames, PortDestroyed, PortSets} \cup WatchedForks

TaskSymmetry == Permutations(Tasks)
=============================================================================
