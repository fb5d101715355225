------------------------- MODULE ApplicationLaunch -------------------------
(***************************************************************************)
(* Which application owns the screen and the touches                       *)
(* (src/src/kernel/mach/input/graphics_services.cpp with the scene         *)
(* coordinator, the input entry points of kernel.cpp and the panel power   *)
(* call of iokit/display/vsync.cpp). The host thread delivers touches and  *)
(* buttons; SpringBoard and the applications run on parallel workers and   *)
(* are seen only through what they ask the kernel: spawns, bootstrap       *)
(* lookups, event deliveries, LayerKit commits, lifecycle callbacks and    *)
(* panel power requests, in any order.                                     *)
(*                                                                         *)
(* Everything below mach_mutex is one record, ui, and every critical       *)
(* section is a function from ui to ui, so that a handler is the           *)
(* composition of the calls it makes. Each application has one event       *)
(* object, named like the application; touch coordinates and their         *)
(* transforms are left out.                                                *)
(***************************************************************************)
EXTENDS Integers, Sequences, FiniteSets

CONSTANTS
    Apps,           \* process identifiers of applications, positive
    MaxInputs,      \* bound of graphics input sequences
    MaxLookups      \* bound of bootstrap lookups without an answer

Nobody == 0
NoRoute == -1       \* active_graphics_touch_route without a value; Nobody is SpringBoard

ApplicationLaunchAssumption == Apps \subseteq Nat \ {Nobody} /\ MaxInputs \in Nat /\ MaxLookups \in Nat

VARIABLES
    ui,             \* the shared state
    pressing,       \* the button whose event is queued but not yet applied
    committing,     \* the application a LayerKit commit was attributed to, not yet applied
    locked,         \* history: a Lock was applied and nothing has unlocked since
    toApp           \* history: the last Down went to an application while locked

launchVars == <<ui, pressing, committing, locked, toApp>>

Phases == {"Launching", "Active", "Suspended", "HeldLock", "InterruptedHome"}
NoHeld == [origin |-> 0, lock |-> 0, pid |-> Nobody, token |-> 0, unlock |-> 0]
NoBarrier == [reason |-> "None", seq |-> 0]
NoAttempt == [token |-> 0, origin |-> 0, from |-> "None", phase |-> "Suspended",
              handoff |-> FALSE, animated |-> FALSE]

Boot ==
    [seq |-> 1, token |-> 1, layer |-> 1,
     attempts |-> [p \in {} |-> NoAttempt],
     foreground |-> Nobody, held |-> NoHeld, barrier |-> NoBarrier, lastHome |-> 0,
     handoff |-> Nobody, homeLock |-> 0, suppressed |-> {},
     pending |-> 0, enqBegin |-> 0, enqLast |-> 0, enqEnd |-> 0, consumed |-> 0,
     unlock |-> [pending |-> FALSE, active |-> FALSE, begin |-> 0, end |-> 0, slid |-> FALSE],
     lockScreen |-> FALSE,
     activeEvent |-> Nobody, pendingEvent |-> Nobody, events |-> {}, scene |-> Nobody,
     suspended |-> FALSE, reason |-> "None", exiting |-> Nobody,
     context |-> Nobody, route |-> NoRoute,
     alert |-> [shown |-> "no", seq |-> 0], appLayer |-> 0,
     clients |-> [p \in Apps |-> "none"], proc |-> [p \in Apps |-> "absent"],
     owns |-> {}, timing |-> {}, frame |-> [logical |-> Nobody, top |-> NoRoute],
     lookups |-> <<>>, launches |-> [p \in {} |-> 0],
     inputs |-> <<>>, resolved |-> TRUE, deferred |-> <<>>,
     power |-> [intent |-> "GuestControlled", on |-> TRUE, wakeAfter |-> 0, lockDown |-> 0,
                offs |-> <<>>, ack |-> FALSE, hw |-> FALSE]]

-----------------------------------------------------------------------------
(***************************************************************************)
(* Questions asked of the state.                                           *)
(***************************************************************************)
is_live(s, p) == p # Nobody /\ s.proc[p] \in {"running", "prewarm"}
object_owned_by_process(s, o, p) == o # Nobody /\ o = p /\ p \in s.owns
HasAttempt(s, p) == p \in DOMAIN s.attempts
PhaseIs(s, p, phases) == HasAttempt(s, p) /\ s.attempts[p].phase \in phases
Exiting(s) == s.suspended /\ s.reason = "Home" /\ s.exiting # Nobody

has_active_application_route(s) ==
    /\ s.scene # Nobody /\ s.activeEvent # Nobody
    /\ ~s.suspended /\ s.reason = "None"
    /\ object_owned_by_process(s, s.scene, s.scene) /\ is_live(s, s.scene)

springboard_alert_owns_input(s) ==
    /\ s.alert.shown # "no"
    /\ has_active_application_route(s) =>
         s.alert.shown # "LockScreen" /\ s.alert.seq > s.appLayer

\* The gesture an application started now would be launched by.
springboard_launch_origin(s) ==
    LET of(p) == IF HasAttempt(s, p) THEN s.attempts[p].origin ELSE 0 IN
    CASE s.pending # 0 -> s.pending
      [] s.pending = 0 /\ of(s.foreground) # 0 -> of(s.foreground)
      [] s.pending = 0 /\ of(s.foreground) = 0 /\ Exiting(s) -> of(s.exiting)
      [] OTHER -> 0

\* The gesture of the launch that the current lock interrupted; 0 is none.
pending_held_origin(s, p) ==
    IF /\ s.held # NoHeld /\ s.barrier.reason = "Lock"
       /\ s.held.origin # 0 /\ s.held.origin < s.held.lock
       /\ s.held.lock = s.barrier.seq
       /\ s.lastHome # 0 => s.held.origin >= s.lastHome
       /\ (p # Nobody /\ s.held.pid # Nobody) => s.held.pid = p
    THEN s.held.origin ELSE 0

origin_is_unlock_touch(s, origin) ==
    /\ s.unlock.begin # 0 /\ origin >= s.unlock.begin
    /\ s.unlock.active \/ (s.unlock.end # 0 /\ origin <= s.unlock.end)

attempt_is_home_exit_target(s, p) ==
    /\ Exiting(s) /\ s.exiting = p /\ s.lastHome # 0
    /\ HasAttempt(s, p) /\ s.attempts[p].origin < s.lastHome

different_foreground_attempt(s, p) == s.foreground \notin {Nobody, p}

attempt_authorized_for_foreground(s, p) ==
    s.foreground = p /\ PhaseIs(s, p, {"Launching", "Active"})

held_launch_matches(s, p) ==
    /\ HasAttempt(s, p) /\ s.held.pid = p /\ s.held.token = s.attempts[p].token
    /\ s.held.origin = s.attempts[p].origin /\ pending_held_origin(s, p) # 0

\* An application whose pixels SpringBoard flattens into its own surfaces
\* is recognised by its display timing.
flattened_display_scene_available(s, p, prewarm) ==
    /\ ~prewarm /\ ~s.suspended /\ s.reason = "None" /\ s.scene \in {Nobody, p}
    /\ ~has_active_application_route(s) /\ ~different_foreground_attempt(s, p)
    /\ p \in s.timing

\* The known event object, or one that is found and then remembered.
event_object_known(s, p) ==
    is_live(s, p) /\ p \in s.owns /\ (p \in s.events \/ p \in {s.activeEvent, s.scene, s.pendingEvent})
remember_event_object(s, p) ==
    IF event_object_known(s, p) THEN [s EXCEPT !.events = @ \cup {p}] ELSE s

-----------------------------------------------------------------------------
(***************************************************************************)
(* Small steps that the handlers are made of.                              *)
(***************************************************************************)
clear_enqueued_gesture(s) == [s EXCEPT !.enqBegin = 0, !.enqLast = 0, !.enqEnd = 0, !.pending = 0]
release_suppression(s, p) == [s EXCEPT !.suppressed = @ \ {p}]
suppress_surfaces(s, p) == IF p = Nobody THEN s ELSE [s EXCEPT !.suppressed = @ \cup {p}]
SetPhase(s, p, phase) == [s EXCEPT !.attempts[p].phase = phase]
Unselected(s, p) == IF s.foreground = p THEN [s EXCEPT !.foreground = Nobody] ELSE s
Suspend(s, why, p) == [s EXCEPT !.suspended = TRUE, !.reason = why, !.exiting = p]
Resume(s) == [s EXCEPT !.suspended = FALSE, !.reason = "None", !.exiting = Nobody]

commit_client_scene(s, p) ==
    IF s.clients[p] = "none" THEN [s EXCEPT !.clients[p] = "Committed"] ELSE s
activate_client_scene(s, p) ==
    IF s.clients[p] = "none" THEN s
    ELSE [s EXCEPT !.clients = [q \in Apps |->
            IF q = p THEN "Active"
            ELSE IF @[q] \in {"Active", "Exiting"} THEN "Suspended" ELSE @[q]]]
suspend_client_scene(s, p) ==
    IF s.clients[p] = "none" THEN s ELSE [s EXCEPT !.clients[p] = "Suspended"]
begin_client_scene_exit(s, p) ==
    IF s.clients[p] = "none" THEN s ELSE [s EXCEPT !.clients[p] = "Exiting"]

\* A launch that the lock holds is bound to the process that carries it.
bind_held_launch(s, p) ==
    IF /\ PhaseIs(s, p, {"HeldLock"}) /\ pending_held_origin(s, p) # 0
       /\ s.attempts[p].origin = s.held.origin
    THEN [s EXCEPT !.held.pid = p, !.held.token = s.attempts[p].token] ELSE s

CanResumeHeld(s, p) == held_launch_matches(s, p) /\ s.held.unlock # 0
resume_held_launch(s, p) ==
    release_suppression([SetPhase(s, p, "Launching") EXCEPT !.foreground = p], p)

\* The lock's unlock gesture is complete: the launch it held goes on.
complete_unlock_transition(s, up) ==
    LET home == s.homeLock # 0 /\ s.homeLock = s.barrier.seq
        r == IF home THEN [s EXCEPT !.homeLock = 0] ELSE s
        p == s.held.pid
        promotes == /\ p # Nobody /\ PhaseIs(s, p, {"HeldLock"})
                    /\ s.attempts[p].token = s.held.token
    IN  IF s.barrier.reason # "Lock"
        THEN [ui |-> [s EXCEPT !.held = NoHeld, !.homeLock = 0], home |-> FALSE, resume |-> Nobody]
        ELSE IF s.held.lock = s.barrier.seq /\ pending_held_origin(s, Nobody) # 0
        THEN LET h == [r EXCEPT !.held.unlock = up] IN
             [ui |-> IF promotes THEN resume_held_launch(h, p) ELSE h, home |-> home,
              resume |-> IF promotes THEN p ELSE Nobody]
        ELSE [ui |-> [r EXCEPT !.held = NoHeld], home |-> home, resume |-> Nobody]

\* A new intent to bring p to the foreground, of a gesture or (origin 0) of
\* another application that hands over. Home cancels the gestures before it;
\* a lock holds the one it interrupted and refuses the others.
begin_launch_attempt(s, p, origin, from) ==
    LET handover == /\ from = "Spawn" /\ origin = 0
                    /\ has_active_application_route(s) \/ is_live(s, s.handoff)
        held == pending_held_origin(s, p)
        phase ==
            CASE origin # 0 /\ s.lastHome # 0 /\ origin < s.lastHome -> "InterruptedHome"
              [] ~(origin # 0 /\ s.lastHome # 0 /\ origin < s.lastHome)
                   /\ held # 0 /\ held = origin -> "HeldLock"
              [] OTHER ->
                   IF \/ s.barrier.reason = "Lock" /\ origin < s.barrier.seq
                      \/ origin_is_unlock_touch(s, origin)
                      \/ origin = 0 /\ ~handover
                   THEN "Suspended" ELSE "Launching"
        a == [s EXCEPT !.token = @ + 1,
                       !.attempts = [q \in DOMAIN @ \cup {p} |-> IF q # p THEN @[q] ELSE
                           [token |-> s.token, origin |-> origin, from |-> from, phase |-> phase,
                            handoff |-> handover, animated |-> FALSE]]]
    IN  CASE phase = "Launching" -> release_suppression([a EXCEPT !.foreground = p], p)
          [] phase = "HeldLock" ->
               bind_held_launch(suppress_surfaces([a EXCEPT !.foreground = p], p), p)
          [] OTHER ->
               Unselected(IF phase = "InterruptedHome" /\ ~attempt_is_home_exit_target(a, p)
                          THEN suppress_surfaces(a, p) ELSE release_suppression(a, p), p)

\* SpringBoard resolved or woke a resident application for a gesture.
record_resident_lookup(s, p, origin) ==
    LET taken(r) == IF r.pending = origin THEN [r EXCEPT !.pending = 0] ELSE r
        owns == ~s.suspended /\ object_owned_by_process(s, s.activeEvent, p)
    IN  CASE origin_is_unlock_touch(s, origin) -> s
          [] ~origin_is_unlock_touch(s, origin) /\ HasAttempt(s, p)
               /\ s.attempts[p].origin = origin -> taken(bind_held_launch(s, p))
          [] OTHER ->
               IF \/ PhaseIs(s, p, {"Launching"}) /\ s.foreground = p
                  \/ PhaseIs(s, p, {"Active"}) /\ owns
                  \/ PhaseIs(s, p, {"HeldLock"})
               THEN s ELSE taken(begin_launch_attempt(s, p, origin, "EventServiceLookup"))

-----------------------------------------------------------------------------
(***************************************************************************)
(* The barrier that Home and Lock raise against launches in progress.      *)
(***************************************************************************)

home_barrier(s, seq, sampled) ==
    LET b == [s EXCEPT !.barrier = [reason |-> "Home", seq |-> seq], !.handoff = Nobody,
                       !.homeLock = 0, !.held = NoHeld, !.pending = 0,
                       !.lastHome = IF seq > @ THEN seq ELSE @]
        older(p) == s.attempts[p].origin < seq
        chosen(p) == s.foreground = p /\ PhaseIs(s, p, {"Launching", "HeldLock"}) /\ older(p)
        after(p) == CASE chosen(p) -> "InterruptedHome"
                      [] ~chosen(p) /\ PhaseIs(s, p, {"Launching"}) /\ older(p) -> "Suspended"
                      [] OTHER -> s.attempts[p].phase
        tried == {p \in DOMAIN s.attempts : ~PhaseIs(s, p, {"Active"})}
    IN  [b EXCEPT !.attempts = [p \in DOMAIN @ |-> [@[p] EXCEPT !.phase = after(p)]],
                  !.foreground = IF \E p \in tried : chosen(p) THEN Nobody ELSE @,
                  !.suppressed = (@ \ tried)
                     \cup {p \in tried : after(p) = "InterruptedHome" /\ p # sampled}]

\* The launch a lock holds: the selected one, the one a previous lock held,
\* or the gesture that SpringBoard may still turn into one.
held_gesture(s, seq) ==
    LET touch == CASE s.pending # 0 -> s.pending
                   [] s.pending = 0 /\ s.enqBegin # 0 -> s.enqBegin
                   [] s.pending = 0 /\ s.enqBegin = 0 /\ s.consumed # 0 -> s.consumed
                   [] OTHER -> IF s.enqLast # 0 /\ s.enqEnd < seq /\ seq - s.enqEnd <= 2
                               THEN s.enqLast ELSE 0
    IN  CASE s.held.origin # 0 /\ s.held.origin >= s.lastHome -> s.held.origin
          [] ~(s.held.origin # 0 /\ s.held.origin >= s.lastHome)
               /\ ~springboard_alert_owns_input(s) /\ ~s.unlock.pending /\ ~s.unlock.active -> touch
          [] OTHER -> 0

lock_barrier(s, seq, sampled) ==
    LET active == /\ ~s.suspended /\ s.activeEvent # Nobody /\ s.scene = s.activeEvent
                  /\ object_owned_by_process(s, s.activeEvent, s.scene)
        selected == IF /\ PhaseIs(s, s.foreground, {"Launching", "HeldLock"})
                       /\ s.attempts[s.foreground].origin < seq
                    THEN s.foreground ELSE Nobody
        gesture == IF active THEN 0
                   ELSE IF selected # Nobody THEN s.attempts[selected].origin
                   ELSE held_gesture(s, seq)
        tried == {p \in DOMAIN s.attempts : ~PhaseIs(s, p, {"Active"})}
        cancelled == {p \in tried : PhaseIs(s, p, {"InterruptedHome"})}
        holds == {p \in tried \ cancelled :
                    p = selected /\ s.attempts[p].origin >= s.lastHome}
        after(p) == IF p \in holds THEN "HeldLock"
                    ELSE IF PhaseIs(s, p, {"Launching"}) /\ s.attempts[p].origin < seq
                    THEN "Suspended" ELSE s.attempts[p].phase
    IN  [s EXCEPT
           !.barrier = [reason |-> "Lock", seq |-> seq], !.handoff = Nobody, !.homeLock = 0,
           !.held = IF holds # {}
                    THEN [origin |-> s.attempts[selected].origin, lock |-> seq, pid |-> selected,
                          token |-> s.attempts[selected].token, unlock |-> 0]
                    ELSE IF gesture # 0 /\ gesture < seq /\ gesture >= s.lastHome
                    THEN [NoHeld EXCEPT !.origin = gesture, !.lock = seq] ELSE NoHeld,
           !.attempts = [p \in DOMAIN @ |-> [@[p] EXCEPT !.phase = after(p)]],
           !.suppressed = (@ \ tried) \cup (cancelled \ {sampled}) \cup holds,
           !.foreground = IF @ \in tried \ holds THEN Nobody ELSE @]

apply_launch_barrier(s, why, seq, sampled) ==
    IF why = "Home" THEN home_barrier(s, seq, sampled) ELSE lock_barrier(s, seq, sampled)

\* An outgoing application stays the source of the closing animation.
maintain_home_exit(s, p) ==
    LET r == begin_client_scene_exit(Suspend(release_suppression(s, p), "Home", p), p) IN
    IF object_owned_by_process(s, s.pendingEvent, p) \/ s.scene = p
    THEN [r EXCEPT !.scene = p, !.activeEvent = p] ELSE r

complete_home_transition(s, p) ==
    LET r == suspend_client_scene(s, p) IN
    release_suppression(Resume([r EXCEPT
        !.scene = IF @ = p THEN Nobody ELSE @,
        !.activeEvent = IF object_owned_by_process(s, @, p) THEN Nobody ELSE @,
        !.pendingEvent = IF object_owned_by_process(s, @, p) THEN Nobody ELSE @,
        !.attempts = [q \in DOMAIN @ |-> IF q = p THEN [@[q] EXCEPT !.phase = "Suspended"] ELSE @[q]],
        !.context = IF @ = p THEN Nobody ELSE @,
        !.held = IF @.pid = p THEN NoHeld ELSE @,
        !.foreground = IF @ = p THEN Nobody ELSE @]), p)

suspend_active_application(s, why, seq) ==
    LET l == IF why = "Lock"
             THEN [s EXCEPT !.lockScreen = TRUE, !.unlock.pending = @ \/ ~s.unlock.active] ELSE s
        leaving == IF s.suspended /\ s.reason = "Home" THEN s.exiting ELSE Nobody
        chosen == IF is_live(s, s.foreground) /\ HasAttempt(s, s.foreground)
                  THEN s.foreground ELSE Nobody
        f == [l EXCEPT !.foreground = chosen]
        routed == IF s.activeEvent \in s.owns THEN s.activeEvent ELSE Nobody
        shown == IF s.scene # Nobody THEN s.scene ELSE routed
        target ==
            CASE chosen # Nobody -> chosen
              [] chosen = Nobody /\ why = "Lock" /\ Exiting(s)
                   /\ s.exiting \in {s.scene, routed} -> s.exiting
              [] OTHER -> IF /\ shown # Nobody /\ s.activeEvent # Nobody /\ ~s.suspended
                             /\ s.clients[shown] = "Active"
                          THEN shown ELSE Nobody
        sampled == IF why = "Home" /\ target # Nobody THEN target ELSE leaving
        b == apply_launch_barrier(f, why, seq, sampled)
        t == Suspend([b EXCEPT !.homeLock = IF leaving = target THEN seq ELSE @], why, target)
    IN  IF target = Nobody THEN b
        ELSE IF why = "Home" THEN begin_client_scene_exit(release_suppression(t, target), target)
        ELSE suspend_client_scene(t, target)

-----------------------------------------------------------------------------
(***************************************************************************)
(* The rendezvous of a launch: an authorised attempt, a committed scene    *)
(* and an owned event port make the foreground application.                *)
(***************************************************************************)
resolve_flattened_display_scene(s, p, prewarm) ==
    LET resumes == /\ PhaseIs(s, p, {"Suspended"}) /\ s.attempts[p].origin = 0
                   /\ s.attempts[p].from \in {"Spawn", "ForegroundLifecycle"}
        cold == PhaseIs(s, p, {"Launching"}) /\ attempt_authorized_for_foreground(s, p)
        r == IF resumes THEN [SetPhase(s, p, "Launching") EXCEPT !.foreground = p] ELSE s
    IN  IF flattened_display_scene_available(s, p, prewarm) /\ (cold \/ resumes)
        THEN commit_client_scene(release_suppression(r, p), p) ELSE s

suspend_interrupted(s, p) ==
    LET r == suspend_client_scene(s, p) IN
    IF s.scene = p \/ object_owned_by_process(s, s.activeEvent, p) THEN Suspend(r, "Home", p) ELSE r

resumes_locked_scene(s, p) ==
    PhaseIs(s, p, {"Suspended"}) /\ s.suspended /\ s.reason = "Lock" /\ s.exiting = p

\* p may not take the screen from a foreground application that is shown.
preserves_committed_foreground(s, p) ==
    /\ s.scene \notin {Nobody, p} /\ s.activeEvent = s.scene
    /\ ~s.suspended /\ s.clients[s.scene] = "Active"

mark_layer_active(s) == [s EXCEPT !.appLayer = s.layer, !.layer = @ + 1]
BecomesActive(s, p) ==
    LET r == clear_enqueued_gesture(SetPhase(s, p, "Active")) IN
    [r EXCEPT !.held = IF held_launch_matches(r, p) THEN NoHeld ELSE @]

\* What a lifecycle callback or a readiness probe of p finds before it may
\* proceed: "go", or why the call ends, with the state it leaves.
Readiness(s, p, prewarm) ==
    LET u == IF PhaseIs(s, p, {"HeldLock"}) /\ CanResumeHeld(s, p)
             THEN resume_held_launch(s, p) ELSE s
        f == resolve_flattened_display_scene(u, p, prewarm)
    IN  CASE ~HasAttempt(s, p) -> [go |-> FALSE, ui |-> suspend_client_scene(s, p)]
          [] attempt_is_home_exit_target(s, p) -> [go |-> FALSE, ui |-> maintain_home_exit(s, p)]
          [] HasAttempt(s, p) /\ ~attempt_is_home_exit_target(s, p)
               /\ PhaseIs(u, p, {"HeldLock"}) ->
                 [go |-> FALSE, ui |-> Suspend(suspend_client_scene(u, p), "Lock", p)]
          [] HasAttempt(s, p) /\ ~attempt_is_home_exit_target(s, p)
               /\ PhaseIs(u, p, {"InterruptedHome"}) ->
                 [go |-> FALSE, ui |-> suspend_interrupted(u, p)]
          [] OTHER ->
               IF ~is_live(u, p) THEN [go |-> FALSE, ui |-> u]
               ELSE IF \/ ~(attempt_authorized_for_foreground(f, p) \/ resumes_locked_scene(f, p))
                       \/ different_foreground_attempt(f, p)
               THEN [go |-> FALSE, ui |-> suspend_client_scene(f, p)]
               ELSE [go |-> TRUE, ui |-> f]

activate_resolved_application(s, p) ==
    LET was == has_active_application_route(s) /\ s.scene = p
        prewarm == s.proc[p] = "prewarm"
        r == Readiness(s, p, prewarm)
        f == remember_event_object(r.ui, p)
        a == activate_client_scene(BecomesActive(
                Resume([f EXCEPT !.scene = p, !.activeEvent = p]), p), p)
    IN  IF was /\ s.clients[p] = "Active" THEN s
        ELSE IF ~r.go THEN r.ui
        ELSE IF /\ f.clients[p] # "none" /\ event_object_known(f, p)
                /\ ~preserves_committed_foreground(f, p) /\ (~prewarm \/ f.scene = p)
        THEN IF was THEN a ELSE mark_layer_active(a)
        ELSE f

\* -[UIApplication _setSuspended:NO] of an application with a known port.
record_resumed(s, p) ==
    LET b == IF ~HasAttempt(s, p) /\ flattened_display_scene_available(s, p, FALSE)
             THEN begin_launch_attempt(s, p, 0, "ForegroundLifecycle") ELSE s
        e == IF attempt_is_home_exit_target(b, p) \/ PhaseIs(b, p, {"HeldLock"})
             THEN [b EXCEPT !.pendingEvent = p] ELSE b
        r == Readiness(e, p, FALSE)
        q == [r.ui EXCEPT !.pendingEvent = p]
        c == Resume([q EXCEPT !.scene = p])
    IN  IF ~r.go THEN r.ui
        ELSE IF preserves_committed_foreground(q, p) THEN q
        ELSE IF q.clients[p] = "none" THEN [c EXCEPT !.activeEvent = Nobody]
        ELSE BecomesActive(activate_client_scene(mark_layer_active(
                [c EXCEPT !.activeEvent = p]), p), p)

\* -[UIApplication _setSuspended:YES].
record_suspended(s, p) ==
    LET owns == object_owned_by_process(s, s.activeEvent, p)
        dropped(r) == [r EXCEPT !.scene = IF @ = p THEN Nobody ELSE @,
                                !.activeEvent = IF owns THEN Nobody ELSE @,
                                !.context = IF @ = p THEN Nobody ELSE @]
        rest == IF s.reason = "Lock" THEN suspend_client_scene(s, p)
                ELSE begin_client_scene_exit(s, p)
        phase(r) == IF HasAttempt(s, p) THEN SetPhase(r, p, "Suspended") ELSE r
        stays == [rest EXCEPT !.suspended = TRUE, !.exiting = p]
    IN  CASE attempt_is_home_exit_target(s, p) -> maintain_home_exit(s, p)
          [] ~attempt_is_home_exit_target(s, p) /\ PhaseIs(s, p, {"HeldLock"}) ->
               Suspend(suspend_client_scene(s, p), "Lock", p)
          [] ~attempt_is_home_exit_target(s, p) /\ PhaseIs(s, p, {"InterruptedHome"}) ->
               LET r == Unselected(dropped(suspend_client_scene(s, p)), p) IN
               IF s.exiting = p THEN Resume(r) ELSE r
          [] OTHER ->
               IF s.scene # p /\ ~owns THEN s
               ELSE IF s.scene = p /\ s.reason = "Lock" THEN phase(stays)
               ELSE IF s.scene = p /\ s.reason = "Home" THEN Unselected(stays, p)
               ELSE Resume(Unselected([dropped(phase(stays)) EXCEPT !.handoff = p], p))

\* A LayerKit root of SpringBoard is attributed to the application that may
\* be coming to the front; Nobody when there is none.
exact_scene_target(s, p) ==
    /\ HasAttempt(s, p) /\ ~different_foreground_attempt(s, p)
    /\ \/ attempt_authorized_for_foreground(s, p) \/ attempt_is_home_exit_target(s, p)
       \/ PhaseIs(s, p, {"HeldLock"}) /\ held_launch_matches(s, p)

record_scene_transform(s) ==
    LET own == IF s.pendingEvent \in s.owns THEN s.pendingEvent ELSE Nobody
        p == CASE exact_scene_target(s, s.context) -> s.context
               [] ~exact_scene_target(s, s.context) /\ exact_scene_target(s, own) -> own
               [] OTHER -> IF exact_scene_target(s, s.foreground) THEN s.foreground
                           ELSE IF Exiting(s) /\ exact_scene_target(s, s.exiting) THEN s.exiting
                           ELSE Nobody
        holds == PhaseIs(s, p, {"HeldLock"}) /\ held_launch_matches(s, p)
        moved == IF s.context # Nobody THEN [s EXCEPT !.context = p] ELSE s
    IN  IF p = Nobody THEN [ui |-> s, pid |-> Nobody]
        ELSE IF \/ holds /\ s.suspended /\ s.reason = "Lock" /\ s.exiting = p
                \/ ~is_live(s, p)
        THEN [ui |-> moved, pid |-> Nobody]
        ELSE [ui |-> [moved EXCEPT !.context = p,
                                   !.activeEvent = IF s.scene = p /\ ~holds THEN p ELSE @],
              pid |-> p]

\* The last reference to a process in the input state goes with it.
release_application_process(s, p) ==
    LET routed == s.scene = p \/ s.exiting = p \/ object_owned_by_process(s, s.activeEvent, p)
        r == IF routed \/ s.exiting = p
             THEN [s EXCEPT !.suspended = FALSE, !.reason = "None"] ELSE s
        unheld == IF s.held.unlock = 0 /\ s.held.origin >= s.lastHome
                  THEN [s.held EXCEPT !.pid = Nobody, !.token = 0] ELSE NoHeld
    IN  release_suppression([r EXCEPT
           !.pendingEvent = IF object_owned_by_process(s, @, p) \/ (routed /\ @ = s.activeEvent)
                            THEN Nobody ELSE @,
           !.activeEvent = IF routed THEN Nobody ELSE @,
           !.exiting = IF @ = p THEN Nobody ELSE @, !.scene = IF @ = p THEN Nobody ELSE @,
           !.handoff = IF @ = p THEN Nobody ELSE @, !.foreground = IF @ = p THEN Nobody ELSE @,
           !.held = IF @.pid = p THEN unheld ELSE @,
           !.events = @ \ {p}, !.route = IF @ = p THEN NoRoute ELSE @,
           !.attempts = [q \in DOMAIN @ \ {p} |-> @[q]],
           !.context = IF @ = p THEN Nobody ELSE @], p)

-----------------------------------------------------------------------------
(***************************************************************************)
(* Touches.                                                                *)
(***************************************************************************)
Numbered(s) == [s EXCEPT !.seq = @ + 1]
Terminal(phase) == phase \in {"Up", "Cancel"}

\* An input for SpringBoard waits until its event service is known.
Queued(s, kind, seq) ==
    IF s.resolved THEN [s EXCEPT !.inputs = Append(@, [kind |-> kind, seq |-> seq])]
    ELSE [s EXCEPT !.deferred = Append(@, [kind |-> kind, seq |-> seq])]

\* The owner of the frame that is on the screen, or else the application
\* that is semantically in front; Nobody is SpringBoard.
presentation_touch_route(s) ==
    LET claims(p) == p # Nobody /\ event_object_known(s, p) IN
    CASE claims(s.frame.logical) /\ ~springboard_alert_owns_input(s) -> s.frame.logical
      [] ~(claims(s.frame.logical) /\ ~springboard_alert_owns_input(s))
           /\ s.frame.top # NoRoute /\ claims(s.frame.top) -> s.frame.top
      [] OTHER -> Nobody

semantic_touch_route(s) ==
    IF /\ ~springboard_alert_owns_input(s) /\ s.activeEvent # Nobody /\ ~s.suspended
       /\ s.activeEvent \in s.owns /\ is_live(s, s.activeEvent)
       /\ s.clients[s.activeEvent] = "Active"
    THEN s.activeEvent ELSE Nobody
\* An active event object of a process that has exited is forgotten.
SemanticForgets(s) ==
    /\ ~springboard_alert_owns_input(s) /\ s.activeEvent # Nobody /\ ~s.suspended
    /\ s.activeEvent \in s.owns /\ ~is_live(s, s.activeEvent)

\* Mutant: the lock screen is not consulted.
RouteByScene(s, phase) ==
    IF phase # "Down" /\ s.route # NoRoute /\ (s.route \in Apps => s.route \in s.owns)
    THEN "gesture"
    ELSE IF s.suspended THEN "system"
    ELSE IF phase = "Down" /\ s.frame.top # NoRoute THEN "frame" ELSE "semantic"

\* A gesture stays with the owner of its Down. Who decides about a new one:
RouteBy(s, phase) ==
    IF phase # "Down" /\ s.route # NoRoute /\ (s.route \in Apps => s.route \in s.owns)
    THEN "gesture"
    ELSE IF s.unlock.pending \/ s.unlock.active \/ s.suspended THEN "system"
    ELSE IF phase = "Down" /\ s.frame.top # NoRoute THEN "frame" ELSE "semantic"

TouchRoute(s, phase) ==
    CASE RouteBy(s, phase) = "gesture" -> s.route
      [] RouteBy(s, phase) = "system" -> Nobody
      [] RouteBy(s, phase) = "frame" -> presentation_touch_route(s)
      [] RouteBy(s, phase) = "semantic" -> semantic_touch_route(s)

\* SpringBoard's share of a touch: the slider of the lock screen, or a
\* gesture that may launch something.
UnlockTouch(s, phase, seq, slides) ==
    CASE s.unlock.pending /\ phase = "Down" ->
           [s EXCEPT !.unlock.pending = FALSE, !.unlock.active = TRUE,
                     !.unlock.begin = seq, !.unlock.end = 0]
      [] ~(s.unlock.pending /\ phase = "Down") /\ s.unlock.active /\ Terminal(phase) ->
           [s EXCEPT !.unlock.active = FALSE, !.unlock.end = seq,
                     !.unlock.slid = slides /\ phase = "Up",
                     !.unlock.pending = ~(slides /\ phase = "Up")]
      [] OTHER -> s

\* A new gesture supersedes a held launch that an unlock has let go.
Superseded(s) ==
    LET p == s.held.pid
        stale == /\ p # Nobody /\ HasAttempt(s, p) /\ s.attempts[p].token = s.held.token
                 /\ s.attempts[p].phase # "Active"
        r == IF stale THEN Unselected(suppress_surfaces(SetPhase(s, p, "Suspended"), p), p) ELSE s
    IN  IF s.held.unlock = 0 THEN s ELSE [r EXCEPT !.held = NoHeld]

GestureTouch(s, phase, seq) ==
    CASE phase = "Down" ->
           LET r == IF Exiting(s) THEN complete_home_transition(s, s.exiting) ELSE s IN
           [Superseded(r) EXCEPT !.pending = seq, !.enqBegin = seq]
      [] Terminal(phase) ->
           [s EXCEPT !.enqLast = IF s.enqBegin # 0 THEN s.enqBegin ELSE seq,
                     !.enqEnd = seq, !.enqBegin = 0]
      [] OTHER -> s

enqueue_touch(s, phase, slides) ==
    LET seq == s.seq
        to == TouchRoute(s, phase)
        n == Numbered(s)
        f == IF RouteBy(s, phase) = "semantic" /\ SemanticForgets(s)
             THEN [n EXCEPT !.activeEvent = Nobody] ELSE n
        r == [f EXCEPT !.route = IF Terminal(phase) THEN NoRoute ELSE to]
        slider == s.unlock.pending \/ s.unlock.active
        ends == s.unlock.active /\ phase = "Up" /\ slides
        u == UnlockTouch(r, phase, seq, slides)
        g == IF slider THEN u ELSE GestureTouch(u, phase, seq)
        c == IF ends THEN complete_unlock_transition([g EXCEPT !.lockScreen = FALSE], seq)
             ELSE [ui |-> g, home |-> FALSE, resume |-> Nobody]
    IN  IF to \in Apps
        THEN [ui |-> [clear_enqueued_gesture(r) EXCEPT !.events = @ \cup {to}],
              home |-> FALSE, resume |-> Nobody, unlocks |-> FALSE]
        ELSE [ui |-> Queued(c.ui, phase, seq), home |-> c.home, resume |-> c.resume,
              unlocks |-> ends]

-----------------------------------------------------------------------------
(***************************************************************************)
(* The host thread. A handler that leaves mach_mutex between two critical  *)
(* sections leaves the rest of its work in pressing.                       *)
(***************************************************************************)
HostIdle == pressing = <<>> /\ ui.seq < MaxInputs
Unhurried == UNCHANGED <<committing, toApp>>

Touch(phase, slides) ==
    /\ HostIdle /\ (phase # "Up" => ~slides)
    /\ LET e == enqueue_touch(ui, phase, slides) IN
       /\ ui' = e.ui
       /\ pressing' = (IF e.resume # Nobody THEN <<[do |-> "activate", arg |-> e.resume]>> ELSE <<>>)
                      \o (IF e.home THEN <<[do |-> "enqueueHome", arg |-> 0]>> ELSE <<>>)
       /\ locked' = (locked /\ ~e.unlocks)
       /\ toApp' = (phase = "Down" /\ locked /\ TouchRoute(ui, phase) \in Apps)
       /\ UNCHANGED committing

\* A Home or Sleep/Wake press: on a dark panel it wakes, in the lock screen
\* Home only wakes, otherwise it begins a transition.
PressedWhileAsleep(s) ==
    LET w == [s EXCEPT !.power = [@ EXCEPT !.intent = "WakePending", !.wakeAfter = s.power.lockDown,
                                           !.ack = FALSE, !.hw = TRUE, !.on = TRUE]] IN
    IF s.unlock.pending \/ s.unlock.active \/ ~s.lockScreen THEN w
    ELSE [w EXCEPT !.unlock.pending = TRUE]
LockIntent(s) ==
    [s EXCEPT !.power = [@ EXCEPT !.intent = "LockPending", !.ack = FALSE, !.hw = FALSE]]

Press(button) ==
    LET wakes == ~ui.power.on
        begins == ~wakes /\ button = "Lock"
        only == wakes \/ (button = "Home" /\ (ui.unlock.pending \/ ui.unlock.active))
    IN  /\ HostIdle
        /\ ui' = IF wakes THEN PressedWhileAsleep(ui) ELSE IF begins THEN LockIntent(ui) ELSE ui
        /\ pressing' = <<[do |-> IF begins THEN "enqueueLock" ELSE "enqueueHome",
                          arg |-> IF only THEN 1 ELSE 0]>>
        /\ Unhurried /\ UNCHANGED locked

\* The event is numbered and queued; a Lock also opens a panel-off generation.
enqueue_system_button(s, begins) ==
    LET q == Queued(Numbered(s), "Button", s.seq) IN
    IF begins THEN [q EXCEPT !.power.lockDown = s.seq, !.power.offs = Append(@, s.seq)] ELSE q

\* Button releases, volume buttons and the ringer switch only number an event.
OtherInput ==
    /\ HostIdle /\ ui' = Queued(Numbered(ui), "Other", ui.seq)
    /\ Unhurried /\ UNCHANGED <<pressing, locked>>

HostContinues ==
    /\ pressing # <<>>
    /\ LET h == Head(pressing) IN
       \/ /\ h.do = "activate" /\ ui' = activate_resolved_application(ui, h.arg)
          /\ pressing' = Tail(pressing) /\ UNCHANGED locked
       \/ /\ h.do \in {"enqueueHome", "enqueueLock"}
          /\ ui' = enqueue_system_button(ui, h.do = "enqueueLock")
          /\ pressing' = IF h.arg = 1 THEN <<>>
                         ELSE <<[do |-> IF h.do = "enqueueLock" THEN "Lock" ELSE "Home",
                                 arg |-> ui.seq]>>
          /\ UNCHANGED locked
       \/ /\ h.do \in {"Home", "Lock"}
          /\ ui' = suspend_active_application(ui, h.do, h.arg)
          /\ pressing' = Tail(pressing) /\ locked' = (locked \/ h.do = "Lock")
    /\ Unhurried

-----------------------------------------------------------------------------
(***************************************************************************)
(* SpringBoard and the applications.                                       *)
(***************************************************************************)
Guest(s) == ui' = s /\ Unhurried /\ UNCHANGED <<pressing, locked>>
Running(p) == ui.proc[p] \in {"running", "prewarm"}

record_application_spawn(s, p) ==
    LET held == pending_held_origin(s, p)
        origin == IF held # 0 THEN held ELSE springboard_launch_origin(s)
        a == IF HasAttempt(s, p) /\ s.attempts[p].origin = origin THEN bind_held_launch(s, p)
             ELSE begin_launch_attempt(s, p, origin, "Spawn")
        t == [a EXCEPT !.handoff = IF origin = 0 THEN Nobody ELSE @,
                       !.pending = IF @ = origin THEN 0 ELSE @]
    IN  IF attempt_is_home_exit_target(t, p) THEN maintain_home_exit(t, p)
        ELSE IF PhaseIs(t, p, {"InterruptedHome", "HeldLock"}) THEN suspend_client_scene(t, p)
        ELSE t

\* SpringBoard spawns an application, or launchd starts one for it. A new
\* process has an identifier that nothing in progress remembers.
FreshId(p) == /\ ui.proc[p] = "absent" /\ ui.clients[p] = "none" /\ committing # p
              /\ \A i \in DOMAIN pressing : pressing[i].do = "activate" => pressing[i].arg # p
SpawnApplication(p) ==
    FreshId(p) /\ Guest(record_application_spawn([ui EXCEPT !.proc[p] = "running"], p))
LaunchdStarts(p, how) == FreshId(p) /\ Guest([ui EXCEPT !.proc[p] = how])

\* The receive right of an event service reaches its application, or the
\* application gives it up.
CheckIn(p) == Running(p) /\ p \notin ui.owns /\ Guest([ui EXCEPT !.owns = @ \cup {p}])
DropEventPort(p) == Running(p) /\ p \in ui.owns /\ Guest([ui EXCEPT !.owns = @ \ {p}])

\* A process is dead to observers before its ports are taken down.
MarkExited(p) == Running(p) /\ Guest([ui EXCEPT !.proc[p] = "exited"])
ReleaseProcess(p) ==
    /\ ui.proc[p] = "exited"
    /\ LET r == release_application_process([ui EXCEPT !.clients[p] = "none"], p) IN
       Guest([r EXCEPT !.proc[p] = "absent", !.owns = @ \ {p}, !.timing = @ \ {p},
                       !.frame = IF p \in {@.logical, @.top}
                                 THEN [logical |-> Nobody, top |-> Nobody] ELSE @])

LookUpApplication(p) ==
    LET origin == springboard_launch_origin(ui) IN
    /\ Len(ui.lookups) < MaxLookups
    /\ Guest([ui EXCEPT !.lookups = Append(@, [app |-> p, origin |-> origin,
            candidate |-> ~ui.unlock.pending /\ ~ui.unlock.active /\ origin # 0])])

\* launchd's answer. A port that already belongs to a live application is
\* taken as its event port when it is for the current intent; one that
\* launchd still owns is remembered for the first event delivered on it.
LookupAnswered(found) ==
    LET l == Head(ui.lookups)
        p == l.app
        s == [ui EXCEPT !.lookups = Tail(@)]
        gesture == l.candidate /\ s.pending # 0 /\ s.pending = l.origin
        accepted(r, o) == /\ HasAttempt(r, p) /\ r.attempts[p].origin = o
                          /\ \/ r.foreground = p \/ PhaseIs(r, p, {"HeldLock"})
                             \/ attempt_is_home_exit_target(r, p)
        existing == HasAttempt(s, p) /\
                    accepted(s, IF l.origin = 0 THEN s.attempts[p].origin ELSE l.origin)
        origin == IF l.origin # 0 THEN l.origin
                  ELSE IF existing THEN s.attempts[p].origin ELSE 0
        r == record_resident_lookup(s, p, origin)
    IN  /\ ui.lookups # <<>>
        /\ Guest(IF ~found THEN s
                 ELSE IF is_live(s, p) /\ p \in s.owns
                 THEN IF ~existing /\ ~gesture THEN s
                      ELSE IF accepted(r, origin)
                      THEN [r EXCEPT !.pendingEvent = p, !.events = @ \cup {p}] ELSE r
                 ELSE IF gesture
                 THEN [s EXCEPT !.launches = [q \in DOMAIN @ \cup {p} |->
                                                IF q = p THEN l.origin ELSE @[q]]]
                 ELSE s)

\* The application receives an event that SpringBoard sent.
EventDelivered(p, transition) ==
    LET s == [ui EXCEPT !.launches = [q \in DOMAIN @ \ {p} |-> @[q]]]
        r == IF p \in DOMAIN ui.launches THEN record_resident_lookup(s, p, ui.launches[p])
             ELSE IF transition /\ ui.pending # 0 THEN record_resident_lookup(ui, p, ui.pending)
             ELSE ui
    IN  /\ Running(p) /\ p \in ui.owns
        /\ Guest(activate_resolved_application([r EXCEPT !.events = @ \cup {p}], p))

\* SpringBoard receives the application's background transition.
BackgroundCompleted(p) ==
    /\ Running(p) /\ Exiting(ui) /\ ui.exiting = p
    /\ Guest(complete_home_transition(ui, p))

RemoteSceneCommit(p) ==
    Running(p) /\ Guest(activate_resolved_application(commit_client_scene(ui, p), p))
DisplayCall(p) ==
    /\ Running(p) /\ p \notin ui.timing
    /\ Guest(activate_resolved_application([ui EXCEPT !.timing = @ \cup {p}], p))
SetSuspended(p, suspends) ==
    /\ Running(p) /\ p \in ui.events /\ p \in ui.owns
    /\ Guest(IF suspends THEN record_suspended(ui, p) ELSE record_resumed(ui, p))

\* LayerKit attributes a commit and applies it in two critical sections.
LayerKitCommit ==
    LET r == record_scene_transform(ui) IN
    /\ committing = Nobody /\ ui' = r.ui /\ committing' = r.pid
    /\ UNCHANGED <<pressing, locked, toApp>>
LayerKitApplies ==
    /\ committing # Nobody /\ committing' = Nobody
    /\ ui' = activate_resolved_application(commit_client_scene(ui, committing), committing)
    /\ UNCHANGED <<pressing, locked, toApp>>
LayerKitReset == ui.context # Nobody /\ Guest([ui EXCEPT !.context = Nobody])

\* SpringBoard shows a frame; an exit whose application is gone is over.
Present(top) ==
    LET active == {p \in Apps : ui.clients[p] = "Active"}
        s == [ui EXCEPT !.frame = [logical |-> IF active = {} THEN Nobody
                                               ELSE CHOOSE p \in active : TRUE,
                                   top |-> top]]
    IN  /\ top \in Apps => is_live(ui, top)
        /\ Guest(IF Exiting(s) /\ ~(HasAttempt(s, s.exiting) /\ is_live(s, s.exiting))
                 THEN complete_home_transition(s, s.exiting) ELSE s)

ConsumeInput ==
    /\ ui.inputs # <<>>
    /\ LET i == Head(ui.inputs)
           s == [ui EXCEPT !.inputs = Tail(@)] IN
       Guest(IF i.kind = "Down" THEN [s EXCEPT !.consumed = i.seq]
             ELSE IF Terminal(i.kind) THEN [s EXCEPT !.consumed = 0] ELSE s)
ResolveSystemService ==
    /\ ~ui.resolved
    /\ Guest([ui EXCEPT !.resolved = TRUE, !.inputs = @ \o ui.deferred, !.deferred = <<>>])

AlertState(what) ==
    CASE what = "Pending" -> Guest([ui EXCEPT !.alert = [shown |-> what, seq |-> ui.layer],
                                              !.layer = @ + 1])
      [] what \in {"LockScreen", "ApplicationOverlay"} ->
           ui.alert.shown = "Pending" /\ Guest([ui EXCEPT !.alert.shown = what])
      [] what = "no" -> ui.alert.shown # "no" /\ Guest([ui EXCEPT !.alert.shown = what])

\* -[SBAwayController activate] returned. A slide that was complete before
\* the call returned is not asked for again.
LockScreenActivated ==
    LET touch == IF ui.enqBegin # 0 THEN ui.enqBegin ELSE ui.consumed
        u == ui.unlock
        late == /\ touch = 0 /\ u.begin # 0 /\ u.end >= u.begin /\ u.end = ui.seq - 1 /\ u.slid
        s == [ui EXCEPT !.lockScreen = TRUE]
    IN  Guest(IF late
              THEN complete_unlock_transition(clear_enqueued_gesture(
                     [ui EXCEPT !.lockScreen = FALSE, !.unlock.pending = FALSE,
                                !.unlock.active = FALSE]), u.end).ui
              ELSE IF u.active THEN s
              ELSE IF touch # 0
              THEN [s EXCEPT !.unlock = [@ EXCEPT !.pending = FALSE, !.active = TRUE, !.begin = touch]]
              ELSE [s EXCEPT !.unlock.pending = TRUE])
LockScreenDeactivated ==
    /\ ui.lockScreen \/ ui.unlock.pending \/ ui.unlock.active
    /\ ui' = [ui EXCEPT !.lockScreen = FALSE, !.unlock.pending = FALSE, !.unlock.active = FALSE,
                        !.pending = IF @ = ui.unlock.begin THEN 0 ELSE @]
    /\ locked' = FALSE /\ Unhurried /\ UNCHANGED pressing

HandoffAnimation ==
    LET p == ui.foreground IN
    /\ PhaseIs(ui, p, {"Launching", "Active"})
    /\ ui.attempts[p].handoff /\ ~ui.attempts[p].animated
    /\ Guest([ui EXCEPT !.attempts[p].animated = TRUE])

\* The panel power request. While a wake is pending, the panel-off that
\* belongs to the lock before it is consumed and does not darken the panel.
LockOffPending(w) == w.wakeAfter # 0 /\ \E i \in DOMAIN w.offs : w.offs[i] = w.wakeAfter
Popped(w) == IF w.offs = <<>> THEN w ELSE [w EXCEPT !.offs = Tail(@)]
WakeSettled(w) ==
    IF w.ack /\ ~LockOffPending(w)
    THEN [w EXCEPT !.intent = "GuestControlled", !.hw = FALSE, !.ack = FALSE, !.wakeAfter = 0]
    ELSE w

PowerRequested(w, on) ==
    CASE w.intent = "LockPending" /\ ~on ->
           [Popped(w) EXCEPT !.on = FALSE,
              !.intent = IF Popped(w).offs = <<>> THEN "GuestControlled" ELSE @]
      [] w.intent = "WakePending" /\ ~on ->
           LET v == IF LockOffPending(w) THEN Popped(w) ELSE w
               stays == w.hw \/ (LockOffPending(w) /\ w.ack)
           IN  [WakeSettled(v) EXCEPT !.on = stays]
      [] w.intent = "WakePending" /\ on -> [WakeSettled([w EXCEPT !.ack = TRUE]) EXCEPT !.on = TRUE]
      [] OTHER -> [w EXCEPT !.on = on]
PanelPower(on) == Guest([ui EXCEPT !.power = PowerRequested(@, on)])

-----------------------------------------------------------------------------
(***************************************************************************)
(* The states a run starts from are reached by the operations themselves:  *)
(* a tap, the spawn it causes, the application in front, and a launch that *)
(* a lock interrupts.                                                      *)
(***************************************************************************)
Read(s) == [s EXCEPT !.inputs = <<>>]
Tapped == Read(enqueue_touch(enqueue_touch(Boot, "Down", FALSE).ui, "Up", FALSE).ui)
Starting(p) == record_application_spawn([Tapped EXCEPT !.proc[p] = "running"], p)
Shown(p) == activate_resolved_application(
    commit_client_scene([Starting(p) EXCEPT !.owns = {p}, !.events = {p}], p), p)
Locked(s) == Read(suspend_active_application(
    enqueue_system_button(LockIntent(s), TRUE), "Lock", s.seq))

Beginnings ==
    {[Boot EXCEPT !.resolved = FALSE]}
    \cup {Starting(p) : p \in Apps} \cup {Shown(p) : p \in Apps}
    \cup {Locked(Starting(p)) : p \in Apps} \cup {Locked(Shown(p)) : p \in Apps}

LaunchInit ==
    /\ ui \in Beginnings /\ pressing = <<>> /\ committing = Nobody
    /\ locked = (ui.barrier.reason = "Lock") /\ toApp = FALSE

TouchPhases == {"Down", "Move", "Up", "Cancel"}
HostNext == \/ \E phase \in TouchPhases, slides \in BOOLEAN : Touch(phase, slides)
            \/ \E b \in {"Home", "Lock"} : Press(b)
            \/ OtherInput \/ HostContinues
ApplicationNext(p) ==
    \/ SpawnApplication(p) \/ \E how \in {"running", "prewarm"} : LaunchdStarts(p, how)
    \/ CheckIn(p) \/ DropEventPort(p) \/ MarkExited(p) \/ ReleaseProcess(p)
    \/ LookUpApplication(p) \/ \E t \in BOOLEAN : EventDelivered(p, t)
    \/ BackgroundCompleted(p) \/ RemoteSceneCommit(p) \/ DisplayCall(p)
    \/ \E t \in BOOLEAN : SetSuspended(p, t)
SpringBoardNext ==
    \/ \E found \in BOOLEAN : LookupAnswered(found)
    \/ LayerKitCommit \/ LayerKitApplies \/ LayerKitReset
    \/ \E top \in Apps \cup {Nobody} : Present(top)
    \/ ConsumeInput \/ ResolveSystemService
    \/ \E w \in {"Pending", "LockScreen", "ApplicationOverlay", "no"} : AlertState(w)
    \/ LockScreenActivated \/ LockScreenDeactivated \/ HandoffAnimation
    \/ \E on \in BOOLEAN : PanelPower(on)
LaunchNext == HostNext \/ SpringBoardNext \/ \E p \in Apps : ApplicationNext(p)

-----------------------------------------------------------------------------
\* While a lock stands (nothing has unlocked since it was applied), no
\* gesture begins in an application, whatever SpringBoard, a late callback
\* or a readiness probe has made of the scenes meanwhile.
LockedTouchesStay == ~toApp

\* A launch that Home cancelled never comes to the front again: it is not
\* selected, has no touch route and its scene is not active.
CancelledStaysBack ==
    \A p \in Apps : PhaseIs(ui, p, {"InterruptedHome"}) =>
        /\ ui.foreground # p /\ ui.clients[p] # "Active"
        /\ ~(has_active_application_route(ui) /\ ui.scene = p)

\* A process that is gone is named by nothing that routes input.
NoTraceOfDead ==
    \A p \in Apps : ui.proc[p] = "absent" =>
        /\ p \notin {ui.foreground, ui.scene, ui.exiting,
                     ui.handoff, ui.held.pid, ui.context, ui.route}
        /\ ~HasAttempt(ui, p) /\ p \notin ui.suppressed \cup ui.events

\* Until the guest acknowledges a wake by button, no panel-off request of
\* an earlier lock leaves the panel dark.
WakeHolds == ui.power.intent = "WakePending" /\ ui.power.hw => ui.power.on
=============================================================================
