---------------------------- MODULE OnboardControl ----------------------------
(***************************************************************************)
(* The task and control-mode machine of onboard_control                    *)
(* (onboard_control_node.cpp, with the localization protection of          *)
(* navigation_frame.cpp and the LAND retry of avoidance_execution.cpp).    *)
(*                                                                         *)
(* All callbacks of the node take execution_mutex_, so each is one step.   *)
(* Commands of the ground station, telemetry of the flight controller      *)
(* (FCU), replies to asynchronous MAVROS calls, the control timer and the  *)
(* avoidance timer interleave in any order.  What the node believes about  *)
(* the FCU (obs) lags behind what the FCU does (fcu).                      *)
(*                                                                         *)
(* The flight state is one record, fc, and every procedure of the code is  *)
(* an operator from flight state to flight state, so that a handler reads  *)
(* like the code: the calls it makes, in their order.                      *)
(*                                                                         *)
(* Clocks are timers that are off, running or expired.  Command identities *)
(* (source_id, sequence) are recycled once nothing refers to them.         *)
(* Bounds: an operator's command and the retry of a latched LAND only come *)
(* while fewer MAVROS calls are outstanding than the mission allows, and a *)
(* step that may start a command needs a free identity (Free).             *)
(***************************************************************************)
EXTENDS Naturals, Sequences, FiniteSets

CONSTANTS
    Cmd,        \* command identities, enough for the calls outstanding
    NoCmd,      \* no active task
    Config,     \* waypoint configurations (strategy, generator, controller)
    NoConfig,   \* nothing locked
    Smooth,     \* the configurations with a smooth generator (start gate)
    Avoiding,   \* the configurations with an avoidance strategy
    Session,    \* connections of the Odin driver (mode, map and session_id)
    NoSession,  \* the driver has not been heard
    Missions    \* the missions flown (see below)

CommandKinds == {"takeoff", "land", "hover", "cancel", "waypoints", "motion",
                 "switch"}
FaultKinds ==
    {"pose",      \* the local position is not valid
     "stream",    \* position, velocity or State late, or a second publisher
     "thrust",    \* GUID_OPTIONS not verified
     "service",   \* a MAVROS service is not there
     "reject",    \* the FCU refuses a call
     "lost",      \* a call or its reply never arrives
     "lease",     \* the lease lapses
     "link",      \* MAVROS loses the FCU
     "pilot",     \* the remote control changes mode or arming
     "output",    \* the control law computes a non-finite output
     "avoidance", \* the avoidance wait times out
     "nav",       \* map localization is lost
     "tf"}        \* a map transform jumps, or moves a waypoint out of bounds

(* What Odin's status says of the driver: its working mode, and which map  *)
(* and connection it has.                                                  *)
Frame == {"odom", "map", "unsupported"}
Identity == [frame : Frame, session : Session]

(* A mission: the identities that Odin may report (none in simulation),    *)
(* the waypoint configurations and commands that operators use, the faults *)
(* that may strike, and the bound on outstanding MAVROS calls.             *)
Mission ==
    [odin : SUBSET Identity, configs : SUBSET Config,
     commands : SUBSET CommandKinds, faults : SUBSET FaultKinds, pending : Nat]

ASSUME OnboardAssumption ==
    /\ Cmd # {} /\ NoCmd \notin Cmd
    /\ NoConfig \notin Config /\ Smooth \subseteq Config /\ Avoiding \subseteq Config
    /\ NoSession \notin Session
    /\ Missions \subseteq Mission

VARIABLES
    fc,      \* the flight state of the node
    obs,     \* the last State message: connected, armed, mode
    bad,     \* inputs of the control law that are not healthy
    nav,     \* what the node knows of localization
    lease,   \* the commanding station's lease is live (LeaseAuthority!live)
    fcu,     \* the FCU: armed, mode
    mission  \* the mission, the same throughout

vars == <<fc, obs, bad, nav, lease, fcu, mission>>

Task == {"none", "takeoff", "waypoint", "land"}
Mode == {"idle", "takeoff", "land", "motion", "hover", "waypoint", "hold"}
Raw == {"motion", "hover", "waypoint", "hold"}  \* modes that publish attitudes
Timer == {"off", "running", "expired"}
Phase == {"none", "prepare", "height", "requested", "climbing"}
Attempt == {"recent", "due", "overdue"}         \* below 1 s, up to 2 s, above
FcuMode == {"GUIDED", "LAND", "OTHER"}
Service == {"mode", "arm", "takeoff"}
Terminal == {"SUCCEEDED", "FAILED", "CANCELLED"}
Result == [task : Task \ {"none"}, status : Terminal]

\* A set_mode call; current: no later LAND generation has superseded it.
ModeCall == [kind : {"guided", "land"}, cmd : Cmd, failsafe : BOOLEAN, current : BOOLEAN]
Call == [kind : {"arm", "takeoff"}, cmd : Cmd]
Reply == [kind : {"guided", "land", "arm", "takeoff"}, cmd : Cmd, ok : BOOLEAN,
          failsafe : BOOLEAN, current : BOOLEAN]

Flight ==
    [task : Task,                      \* active_task_
     cmd : Cmd \cup {NoCmd},           \* active_command_ while a task is active
     mode : Mode,                      \* control_mode_
     engaged : BOOLEAN,                \* controller_engaged_
     phase : Phase,                    \* takeoff_waiting_for_height_ and
                                       \* takeoff_request_accepted_
     pending : BOOLEAN,                \* waypoint_start_pending_
     config : Config \cup {NoConfig},  \* configuration of the waypoint task
     lock : Config \cup {NoConfig},    \* the three armed_*_lock_ values
     timer : Timer,                    \* active_task_started_ (take-off, LAND)
     link : Timer,                     \* link_loss_started_
     navHold : Timer,                  \* navigation_hold_started_
     failsafe : BOOLEAN,               \* failsafe_land_requested_
     latched : BOOLEAN,                \* avoidance_land_latched_
     handle : BOOLEAN,                 \* avoidance_land_service_request_ is set
     attempt : Attempt,                \* age of avoidance_last_land_attempt_
     modeQueue : Seq(ModeCall),        \* outstanding set_mode calls, oldest first
     calls : SUBSET Call,              \* outstanding arm and take-off calls
     replies : SUBSET Reply,           \* replies the node has not processed
     results : SUBSET Result,          \* terminal task results of the last step
     attitude : BOOLEAN,               \* the last step published an attitude
     accepted : BOOLEAN]               \* the last step accepted a command

\* What the node can take the driver for.
Known == [frame : Frame, session : Session \cup {NoSession}]

Navigation ==
    [id : Known,                       \* the driver's identity, as last heard
     armed : SUBSET Known,             \* armed_navigation_identity_, if any
     ok : BOOLEAN,                     \* localized, transform and extnav healthy
     fault : BOOLEAN,                  \* navigation_fault_
     switching : BOOLEAN]              \* navigation_switch_pending_

TypeOK ==
    /\ fc \in Flight
    /\ obs \in [connected : BOOLEAN, armed : BOOLEAN, mode : FcuMode]
    /\ bad \subseteq {"pose", "stream", "thrust"}
    /\ nav \in Navigation /\ lease \in BOOLEAN
    /\ fcu \in [armed : BOOLEAN, mode : FcuMode]
    /\ mission \in Missions

Idle ==
    [task |-> "none", cmd |-> NoCmd, mode |-> "idle", engaged |-> FALSE,
     phase |-> "none", pending |-> FALSE, config |-> NoConfig, lock |-> NoConfig,
     timer |-> "off", link |-> "off", navHold |-> "off", failsafe |-> FALSE,
     latched |-> FALSE, handle |-> FALSE, attempt |-> "overdue",
     modeQueue |-> <<>>, calls |-> {}, replies |-> {}, results |-> {},
     attitude |-> FALSE, accepted |-> FALSE]

\* Before the driver is heard the node assumes the local frame.
Unlocated ==
    [id |-> [frame |-> "odom", session |-> NoSession], armed |-> {}, ok |-> FALSE,
     fault |-> FALSE, switching |-> FALSE]

Init ==
    /\ fc = Idle
    /\ obs = [connected |-> TRUE, armed |-> FALSE, mode |-> "OTHER"]
    /\ fcu = [armed |-> FALSE, mode |-> "OTHER"]
    /\ bad = {} /\ nav = Unlocated /\ lease = TRUE
    /\ mission \in Missions

-----------------------------------------------------------------------------
(* The procedures of the node, as functions of the flight state f and of   *)
(* what the step finds in its surroundings, x: the MAVROS services that    *)
(* are ready (up), what the telemetry shows (seen), and an identity for a  *)
(* command or a failsafe LAND that starts in this step (new).  They read   *)
(* the telemetry in obs, bad and nav, and the lease.                       *)

Event == {"samples",   \* new height samples since arming
          "height",    \* the take-off height is reached
          "gate",      \* slow enough to start a smooth waypoint task
          "arrive",    \* the arrival at the last waypoint is confirmed
          "avoidance", \* the avoidance wait is over
          "invalid",   \* the control law's output is not finite
          "outside",   \* a waypoint moves out of the height limits of the map
          "failed"}    \* the switch of the navigation mode has failed
Context == [up : SUBSET Service, seen : SUBSET Event, new : Cmd]

Pose == "pose" \notin bad
Guided == obs.mode = "GUIDED"

(* A latched fault outweighs the frame; the local frame asks for no more,  *)
(* the map for healthy observations, and no other mode can be flown.       *)
Located == ~nav.fault /\ (nav.id.frame = "odom" \/ (nav.id.frame = "map" /\ nav.ok))

\* navigation_ready
NavReady(f) == ~nav.switching /\ Located /\ f.navHold = "off"

Step(f) == [f EXCEPT !.results = {}, !.attitude = FALSE, !.accepted = FALSE]

Publish(f, status) ==
    [f EXCEPT !.results = @ \cup {[task |-> f.task, status |-> status]}]

(* No task is active any more.  What the code leaves behind in the fields  *)
(* of the task is not read until the next task sets it.                    *)
Ended(f) ==
    [f EXCEPT !.task = "none", !.cmd = NoCmd, !.phase = "none", !.pending = FALSE,
              !.config = NoConfig, !.timer = "off"]

\* Mutant: a task that ends in flight gives its lock away as well.
UnlockedAlways(f) == [f EXCEPT !.lock = NoConfig]

Unlocked(f) == [f EXCEPT !.lock = IF obs.armed THEN @ ELSE NoConfig]

\* Mutant: the failsafe request outlives the command that takes over.
ClearLinkOnly(f) == [f EXCEPT !.link = "off"]

\* clear_failsafe_locked
ClearFailsafe(f) == [f EXCEPT !.link = "off", !.failsafe = FALSE]

\* cancel_active_task: a LAND that is cancelled says nothing.
CancelTask(f) ==
    Unlocked(Ended(IF f.task \in {"takeoff", "waypoint"} THEN Publish(f, "CANCELLED") ELSE f))

\* enter_hover
Hover(f, mode) == [f EXCEPT !.mode = mode, !.engaged = obs.armed, !.pending = FALSE]

\* ++avoidance_land_request_generation_: replies to earlier LANDs are ignored.
Stale(c) == [c EXCEPT !.current = @ /\ c.kind # "land"]

Superseded(f) == [f EXCEPT !.modeQueue = [i \in DOMAIN @ |-> Stale(@[i])],
                           !.replies = {Stale(r) : r \in @}]

\* Mutant: LAND is queued in front of the requests already on their way.
SendLandFirst(f, x, failsafe) ==
    LET call == [kind |-> "land", cmd |-> f.cmd, failsafe |-> failsafe, current |-> TRUE]
    IN  [Superseded(f) EXCEPT !.modeQueue = <<call>> \o @, !.handle = @ \/ f.latched]

(* send_land_mode_request for the active LAND task.  Without the service   *)
(* the task is over, and control_mode_ stays LAND.                         *)
SendLand(f, x, failsafe) ==
    LET g == [f EXCEPT !.attempt = IF f.latched THEN "recent" ELSE @]
        call == [kind |-> "land", cmd |-> f.cmd, failsafe |-> failsafe, current |-> TRUE]
    IN  IF "mode" \notin x.up
        THEN [Ended(Publish(g, "FAILED")) EXCEPT !.failsafe = @ /\ ~failsafe]
        ELSE [Superseded(g) EXCEPT !.modeQueue = Append(@, call),
                                   !.handle = @ \/ f.latched]

\* Mutant: start_land leaves the controller engaged.
StartLandEngaged(f, x, failsafe) ==
    SendLand([CancelTask(f) EXCEPT !.task = "land", !.cmd = x.new, !.timer = "running",
                                   !.mode = "land"], x, failsafe)

\* start_land
StartLand(f, x, failsafe) ==
    LET g == CancelTask(f)
        h == IF failsafe THEN g ELSE ClearFailsafe(g)
    IN  SendLand([h EXCEPT !.task = "land", !.cmd = x.new, !.timer = "running",
                           !.mode = "land", !.engaged = FALSE], x, failsafe)

\* Mutant: a vehicle in its hold counts as one that is landing.
FailsafeLandUnlessHeld(f, x) ==
    IF f.failsafe \/ f.mode \in {"land", "hold"} THEN f
    ELSE StartLand([f EXCEPT !.failsafe = TRUE], x, TRUE)

\* trigger_failsafe_land
FailsafeLand(f, x) ==
    IF f.failsafe \/ f.mode = "land" THEN f
    ELSE StartLand([f EXCEPT !.failsafe = TRUE], x, TRUE)

\* fail_active_task
FailTask(f, land, x) ==
    LET g == Unlocked(Ended(Publish(f, "FAILED"))) IN
    IF land /\ obs.armed THEN FailsafeLand(g, x)
    ELSE IF obs.armed /\ Pose /\ Guided THEN Hover(g, "hover")
    ELSE [g EXCEPT !.mode = "idle", !.engaged = FALSE]

\* activate_waypoint_execution
Activate(f) == [f EXCEPT !.pending = FALSE, !.mode = "waypoint"]

(* The on_ready continuation of a task whose vehicle is in GUIDED and      *)
(* armed: take-off waits for height samples, a step generator flies at     *)
(* once, a smooth one brakes in a hover until the speed gate opens.        *)
Ready(f, x) ==
    IF f.task = "takeoff" THEN [f EXCEPT !.phase = "height"]
    ELSE IF f.config \notin Smooth \/ "gate" \in x.seen THEN Activate(f)
    ELSE [f EXCEPT !.mode = "hover", !.pending = TRUE]

EnsureArmed(f, x) ==
    IF ~NavReady(f) THEN FailTask(f, FALSE, x)
    ELSE IF obs.armed THEN Ready(f, x)
    ELSE IF "arm" \notin x.up THEN FailTask(f, FALSE, x)
    ELSE [f EXCEPT !.calls = @ \cup {[kind |-> "arm", cmd |-> f.cmd]}]

EnsureGuided(f, x) ==
    IF ~NavReady(f) THEN FailTask(f, FALSE, x)
    ELSE IF Guided THEN EnsureArmed(f, x)
    ELSE IF "mode" \notin x.up THEN FailTask(f, FALSE, x)
    ELSE [f EXCEPT !.modeQueue =
            Append(@, [kind |-> "guided", cmd |-> f.cmd, failsafe |-> FALSE, current |-> TRUE])]

(* start_takeoff, and the lock on_flight_command takes after it when the   *)
(* task has not failed at once.                                            *)
StartTakeoff(f, config, x) ==
    LET g == ClearFailsafe(CancelTask(f))
        h == EnsureGuided([g EXCEPT !.task = "takeoff", !.cmd = x.new, !.timer = "running",
                                    !.phase = "prepare", !.mode = "takeoff", !.engaged = TRUE],
                          x)
    IN  IF h.task = "takeoff" THEN [h EXCEPT !.lock = config] ELSE h

\* Mutant: the lock is taken before the old task is cancelled.
StartWaypointsLockFirst(f, config, x) ==
    LET g == ClearFailsafe(CancelTask([f EXCEPT !.lock = config])) IN
    EnsureGuided([g EXCEPT !.task = "waypoint", !.cmd = x.new,
                           !.config = config, !.engaged = TRUE], x)

\* Mutant: the task is not supervised before it flies.
StartWaypointsUnsupervised(f, config, x) ==
    LET g == ClearFailsafe(CancelTask(f)) IN
    EnsureGuided([g EXCEPT !.lock = config, !.task = "waypoint", !.cmd = x.new,
                           !.config = config], x)

(* The end of on_execute_waypoints with start_waypoint_task: the           *)
(* configuration is locked before the task can fail, control_mode_ is left *)
(* alone until the vehicle is ready.                                       *)
StartWaypoints(f, config, x) ==
    LET g == ClearFailsafe(CancelTask(f)) IN
    EnsureGuided([g EXCEPT !.lock = config, !.task = "waypoint", !.cmd = x.new,
                           !.config = config, !.engaged = TRUE], x)

-----------------------------------------------------------------------------
(* The stages of control_tick.                                             *)

(* map_flight: localization is protected in the map frame, and in every    *)
(* frame once something has happened to it in flight.                      *)
Protected(f) ==
    \/ nav.id.frame # "odom" \/ f.navHold # "off" \/ nav.fault
    \/ \E id \in nav.armed : id.frame # "odom"

(* navigation_tick: a recovered localization ends the hold, a lost one     *)
(* cancels the task and holds, a hold that is over lands.  A LAND is left  *)
(* alone.                                                                  *)
NavTick(f, x) ==
    LET ready == /\ Located /\ "outside" \notin x.seen
                 /\ nav.switching => "failed" \in x.seen
    IN  IF ~Protected(f) \/ f.task = "land" \/ (~obs.armed /\ f.task = "none") THEN f
        ELSE IF ready /\ f.navHold # "off" /\ ~f.failsafe
        THEN LET g == [f EXCEPT !.navHold = "off"] IN IF lease THEN Hover(g, "hover") ELSE g
        ELSE IF ~ready /\ f.navHold = "off"
        THEN IF ~obs.armed THEN CancelTask(f)
             ELSE Hover([CancelTask(f) EXCEPT !.navHold = "running"], "hold")
        ELSE IF f.navHold = "expired" /\ obs.armed THEN FailsafeLand(f, x) ELSE f

\* Mutant: the hold of a lost lease is an ordinary hover.
LinkLossHover(f, x) ==
    LET g == [CancelTask(f) EXCEPT !.link = "running"] IN
    IF Pose /\ Guided THEN Hover(g, "hover") ELSE FailsafeLand(g, x)

\* trigger_link_loss_hold
LinkLossHold(f, x) ==
    LET g == [CancelTask(f) EXCEPT !.link = "running"] IN
    IF Pose /\ Guided THEN Hover(g, "hold") ELSE FailsafeLand(g, x)

\* Mutant: the verification of the thrust mode is not looked at again.
UnhealthySensors == ~obs.connected \/ bad \cap {"pose", "stream"} # {}

Unhealthy == ~obs.connected \/ bad # {}

(* enforce_safety: nothing is supervised unless the controller is engaged. *)
(* A raw mode lands on an unhealthy input and lets go, without a result,   *)
(* when the FCU has left GUIDED; without a lease it holds, then lands.     *)
Safety(f, x) ==
    IF ~f.engaged \/ ~obs.armed THEN f
    ELSE IF f.mode \in Raw /\ Unhealthy THEN FailsafeLand(f, x)
    ELSE IF f.mode \in Raw /\ ~Guided THEN [Ended(f) EXCEPT !.mode = "idle", !.engaged = FALSE]
    ELSE IF lease THEN [f EXCEPT !.link = "off"]
    ELSE LET g == IF f.link = "off" THEN LinkLossHold(f, x) ELSE f
         IN  IF g.link = "expired" THEN FailsafeLand(g, x) ELSE g

(* send_takeoff_request; a height that cannot be resolved ends like a      *)
(* service that is not there.                                              *)
SendTakeoff(f, x) ==
    IF ~NavReady(f) THEN FailTask(f, obs.armed, x)
    ELSE IF "takeoff" \notin x.up THEN FailTask(f, TRUE, x)
    ELSE [f EXCEPT !.phase = "requested",
                   !.calls = @ \cup {[kind |-> "takeoff", cmd |-> f.cmd]}]

TakeoffTick(f, x) ==
    IF f.task # "takeoff" THEN f
    ELSE LET g == IF f.phase = "height" /\ obs.armed /\ "samples" \in x.seen
                  THEN SendTakeoff(f, x) ELSE f
         IN  IF g.task # "takeoff" THEN g
             ELSE IF g.phase = "climbing" /\ obs.armed /\ Pose /\ "height" \in x.seen
             THEN Hover(Ended(Publish(g, "SUCCEEDED")), "hover")
             ELSE IF g.timer = "expired" THEN FailTask(g, TRUE, x) ELSE g

\* Mutant: the result is published for the task that has already been reset.
LandTickLate(f) ==
    IF f.task = "land" /\ f.timer = "expired" THEN Publish(Ended(f), "FAILED") ELSE f

\* LAND confirmation: the task fails, control_mode_ and the failsafe stay.
LandTick(f) ==
    IF f.task = "land" /\ f.timer = "expired" THEN Ended(Publish(f, "FAILED")) ELSE f

\* update_waypoint_start
StartGate(f, x) ==
    IF f.task = "waypoint" /\ f.pending /\ "gate" \in x.seen THEN Activate(f) ELSE f

(* update_waypoint_executor and complete_waypoint, for the last waypoint;  *)
(* update_avoidance_reference latches LAND when its wait is over.          *)
Executor(f, x) ==
    IF f.mode # "waypoint" \/ f.task # "waypoint" THEN f
    ELSE IF "avoidance" \in x.seen /\ f.config \in Avoiding
    THEN FailTask([f EXCEPT !.latched = TRUE], TRUE, x)
    ELSE IF "arrive" \in x.seen THEN [Ended(Publish(f, "SUCCEEDED")) EXCEPT !.mode = "hover"]
    ELSE f

\* publish_attitude_setpoint
Attitude(f, x) ==
    IF f.mode \in Raw /\ obs.armed /\ Guided /\ bad \cap {"pose", "stream"} = {}
    THEN IF "invalid" \in x.seen THEN FailsafeLand(f, x) ELSE [f EXCEPT !.attitude = TRUE]
    ELSE f

ControlTick(f, x) ==
    LET navigated == NavTick(f, x)
        safe == Safety(navigated, x)
        climbed == LandTick(TakeoffTick(safe, x))
        flown == Executor(StartGate(climbed, x), x)
    IN  Attitude(flown, x)

\* on_fcu_state at the edge from armed to disarmed.
Disarmed(f) ==
    LET g == IF f.task = "land" THEN Publish(f, "SUCCEEDED") ELSE f
        h == Superseded(g)
    IN  [Idle EXCEPT !.results = h.results, !.attempt = h.attempt, !.calls = h.calls,
                     !.modeQueue = h.modeQueue, !.replies = h.replies]

-----------------------------------------------------------------------------
(* Actions of the node.                                                    *)

May(fault) == fault \in mission.faults

\* The services a step finds ready: all, all but one, or none.
ServicesUp ==
    IF May("service") THEN {Service, {}} \cup {Service \ {s} : s \in Service} ELSE {Service}

\* What a tick may see, as far as it looks at it.
InFlight == {"arrive"} \cup ({"avoidance"} \cap mission.faults)
Seen ==
    SUBSET ((CASE fc.phase = "height" -> {"samples"}
               [] fc.phase = "climbing" -> {"height"}
               [] fc.pending -> {"gate"} \cup InFlight
               [] fc.mode = "waypoint" -> InFlight
               [] OTHER -> {})
            \cup (IF May("output") THEN {"invalid"} ELSE {})
            \cup (IF nav.switching THEN {"failed"} ELSE {})
            \cup (IF May("tf") /\ nav.id.frame = "map" /\ fc.task = "waypoint"
                  THEN {"outside"} ELSE {}))

\* An identity that neither the task nor any outstanding call or reply has.
InUse ==
    {fc.cmd} \cup {c.cmd : c \in fc.calls \cup fc.replies}
             \cup {fc.modeQueue[i].cmd : i \in DOMAIN fc.modeQueue}
Free == Cmd \ InUse
New == IF Free = {} THEN {} ELSE {CHOOSE c \in Free : TRUE}

Contexts(seen) == [up : ServicesUp, seen : seen, new : New]
Gate == {{}, {"gate"}}

\* Calls and replies that are outstanding.
Outstanding == Len(fc.modeQueue) + Cardinality(fc.calls) + Cardinality(fc.replies)

(* The control timer.  A failed switch is read at its very beginning; what *)
(* follows finds it over (a task that asks NavReady later excludes one).   *)
Tick ==
    /\ \E x \in Contexts(Seen) :
         /\ fc' = ControlTick(Step(fc), x)
         /\ nav' = [nav EXCEPT !.switching = @ /\ "failed" \notin x.seen]
    /\ UNCHANGED <<obs, bad, lease, fcu, mission>>

(* A command passes validate_envelope and authorize_flight_sequence: its   *)
(* station's lease is live and its sequence number is new.                 *)
Authorized(kind) == kind \in mission.commands /\ lease /\ Outstanding < mission.pending

Accept(f) ==
    /\ fc' = [f EXCEPT !.accepted = TRUE]
    /\ UNCHANGED <<obs, bad, nav, lease, fcu, mission>>

LockedOut(config) == obs.armed /\ fc.lock \notin {NoConfig, config}

\* What motion and hover ask of the vehicle.
Controllable == obs.armed /\ Guided /\ bad \cap {"pose", "thrust"} = {}

Takeoff ==
    /\ Authorized("takeoff") /\ ~fc.latched
    /\ NavReady(fc) /\ obs.connected /\ bad \cap {"pose", "thrust"} = {}
    /\ \E config \in mission.configs, x \in Contexts({{}}) :
         ~LockedOut(config) /\ Accept(StartTakeoff(Step(fc), config, x))

Land ==
    /\ Authorized("land")
    /\ obs.connected /\ obs.armed
    /\ \E x \in Contexts({{}}) : Accept(StartLand(Step(fc), x, FALSE))

HoverCommand ==
    /\ Authorized("hover") /\ ~fc.latched /\ Controllable
    /\ Accept(ClearFailsafe(Hover(CancelTask(Step(fc)), "hover")))

Cancel ==
    /\ Authorized("cancel") /\ ~fc.latched
    /\ LET f == CancelTask(Step(fc)) IN
       Accept(ClearFailsafe(IF obs.armed /\ Guided /\ Pose THEN Hover(f, "hover")
                            ELSE [f EXCEPT !.mode = "idle", !.engaged = FALSE]))

\* Mutant: a latched LAND does not keep waypoint tasks out.
WaypointsReadyLatched ==
    obs.connected /\ bad \cap {"pose", "thrust"} = {} /\ NavReady(fc)

\* What on_execute_waypoints asks of the vehicle.
WaypointsReady ==
    ~fc.latched /\ obs.connected /\ bad \cap {"pose", "thrust"} = {} /\ NavReady(fc)

ExecuteWaypoints ==
    /\ Authorized("waypoints") /\ WaypointsReady
    /\ \E config \in mission.configs, x \in Contexts(Gate) :
         ~LockedOut(config) /\ Accept(StartWaypoints(Step(fc), config, x))

Motion ==
    /\ Authorized("motion") /\ ~fc.latched /\ Controllable
    /\ fc.task \notin {"takeoff", "land"}
    /\ Accept([ClearFailsafe(CancelTask(Step(fc))) EXCEPT !.mode = "motion", !.engaged = TRUE])

(* on_set_navigation_mode, on the ground: the worker it starts restarts    *)
(* this process (another behaviour, from Init) or reports a failure.       *)
SetNavigationMode ==
    /\ Authorized("switch")
    /\ obs.connected /\ ~obs.armed /\ fc.task = "none" /\ ~nav.switching
    /\ nav' = [nav EXCEPT !.switching = TRUE]
    /\ fc' = [Step(fc) EXCEPT !.accepted = TRUE]
    /\ UNCHANGED <<obs, bad, lease, fcu, mission>>

\* Mutant: any active task takes the reply for its own.
MatchesAnyTask(f, r) == f.task # "none"

\* active_task_matches for the command a reply belongs to.
Matches(f, r) == f.task # "none" /\ f.cmd = r.cmd

(* The callbacks of the GUIDED, arming and take-off calls. *)
Answered(f, r, x) ==
    IF ~Matches(f, r) THEN f
    ELSE IF ~r.ok THEN FailTask(f, r.kind = "takeoff", x)
    ELSE CASE r.kind = "guided" -> EnsureArmed(f, x)
           [] r.kind = "arm" -> Ready(f, x)
           [] r.kind = "takeoff" -> [f EXCEPT !.phase = "climbing", !.timer = "running"]

\* Mutant: a refused LAND is answered with a hover, as failed tasks are.
LandAnsweredHover(f, r) ==
    IF ~r.current \/ ~Matches(f, r) THEN f
    ELSE IF r.ok THEN [f EXCEPT !.timer = "running", !.mode = "land"]
    ELSE Hover(Ended(Publish(f, "FAILED")), "hover")

(* The callback of a LAND call: only the newest one counts; an accepted    *)
(* LAND restarts the confirmation timer, a refused one ends the task and   *)
(* the failsafe request.                                                   *)
LandAnswered(f, r) ==
    IF ~r.current THEN f
    ELSE LET g == [f EXCEPT !.handle = FALSE] IN
         IF ~Matches(f, r) THEN g
         ELSE IF r.ok THEN [g EXCEPT !.timer = "running", !.mode = "land"]
         ELSE [Ended(Publish(g, "FAILED")) EXCEPT !.failsafe = @ /\ ~r.failsafe]

ReceiveReply(r) ==
    /\ r \in fc.replies
    /\ LET f == [Step(fc) EXCEPT !.replies = @ \ {r}] IN
       \E x \in Contexts(Gate) :
         fc' = IF r.kind = "land" THEN LandAnswered(f, r) ELSE Answered(f, r, x)
    /\ UNCHANGED <<obs, bad, nav, lease, fcu, mission>>

\* Mutant: a call that is never answered is waited for.
RetryWhenAnswered == fc.attempt # "recent" /\ ~fc.handle

\* A second has passed, or two while a call is outstanding.
RetryDue == fc.attempt # "recent" /\ (fc.handle => fc.attempt = "overdue")

(* avoidance_tick while LAND is latched and the FCU is not landing: a call *)
(* that is overdue is given up, and LAND is requested again.               *)
LandRetry ==
    /\ fc.latched /\ obs.armed /\ obs.connected /\ obs.mode # "LAND"
    /\ RetryDue /\ Outstanding < mission.pending
    /\ \E x \in Contexts({{}}) :
         LET g == [Step(fc) EXCEPT !.handle = FALSE, !.attempt = "recent"]
             f == IF fc.handle THEN Superseded(g) ELSE g
         IN  fc' = IF f.task = "land" THEN SendLand(f, x, TRUE) ELSE StartLand(f, x, TRUE)
    /\ UNCHANGED <<obs, bad, nav, lease, fcu, mission>>

(* on_fcu_state.  While MAVROS has lost the FCU its State message is all   *)
(* defaults, and the thrust mode has to be verified anew.  Arming fixes    *)
(* the identity of the localization, disarming forgets it and its fault.   *)
State(connected) ==
    /\ obs' = IF connected
              THEN [connected |-> TRUE, armed |-> fcu.armed, mode |-> fcu.mode]
              ELSE [connected |-> FALSE, armed |-> FALSE, mode |-> "OTHER"]
    /\ obs' # obs
    /\ bad' = IF connected THEN bad ELSE bad \cup {"thrust"}
    /\ fc' = IF obs.armed /\ ~obs'.armed THEN Disarmed(Step(fc)) ELSE fc
    /\ nav' = IF ~obs.armed /\ obs'.armed THEN [nav EXCEPT !.armed = {nav.id}]
              ELSE IF obs.armed /\ ~obs'.armed THEN [nav EXCEPT !.armed = {}, !.fault = FALSE]
              ELSE nav
    /\ UNCHANGED <<lease, fcu, mission>>

ObserveState == State(TRUE) \/ (May("link") /\ State(FALSE))

(* Deadlines pass: take-off or LAND confirmation, link loss, localization  *)
(* hold, and the two ages of the last latched LAND attempt.                *)
Elapse(field) ==
    /\ fc[field] = "running"
    /\ fc' = [fc EXCEPT ![field] = "expired"]
    /\ UNCHANGED <<obs, bad, nav, lease, fcu, mission>>

ElapseAttempt ==
    /\ fc.attempt # "overdue"
    /\ fc' = [fc EXCEPT !.attempt = IF @ = "recent" THEN "due" ELSE "overdue"]
    /\ UNCHANGED <<obs, bad, nav, lease, fcu, mission>>

-----------------------------------------------------------------------------
(* The surroundings: telemetry, the lease, MAVROS and the FCU.             *)

Telemetry ==
    /\ \E b \in mission.faults \cap {"pose", "stream"} :
         bad' = IF b \in bad THEN bad \ {b} ELSE bad \cup {b}
    /\ UNCHANGED <<fc, obs, nav, lease, fcu, mission>>

\* check_thrust_mode_parameter, on a parameter read back from the FCU.
ThrustMode ==
    /\ obs.connected
    /\ "thrust" \in bad \/ May("thrust")
    /\ bad' = IF "thrust" \in bad THEN bad \ {"thrust"} ELSE bad \cup {"thrust"}
    /\ UNCHANGED <<fc, obs, nav, lease, fcu, mission>>

\* navigation_driver_seen_
Heard == nav.id.session # NoSession

(* on_navigation_status, at a new identity.  In flight it is a fault that  *)
(* only disarming clears; on the ground it clears what was before.         *)
(* airborne_ follows what the FCU reports of the flight phase.             *)
NavigationStatus ==
    \E id \in mission.odin \ {nav.id}, airborne \in {FALSE, fcu.armed} :
        LET flying == obs.armed \/ airborne \/ fc.task # "none" IN
        /\ nav' = [nav EXCEPT !.id = id, !.ok = FALSE,
                              !.fault = \/ IF Heard THEN flying ELSE @
                                        \/ nav.armed \ {id} # {}]
        /\ fc' = IF Heard /\ ~flying THEN [fc EXCEPT !.navHold = "off"] ELSE fc
        /\ UNCHANGED <<obs, bad, lease, fcu, mission>>

(* on_navigation_tf: a map transform shows the mode of a driver that says  *)
(* nothing of itself; it may jump, and one that does not clears the fault  *)
(* of an idle vehicle.  (A jump is found against an earlier transform;     *)
(* which one, and whether there is one, is left open.)                     *)
NavigationTf ==
    /\ May("tf") /\ (Heard => nav.id.frame = "map")
    /\ \E jump \in BOOLEAN :
         nav' = [nav EXCEPT !.id.frame = "map", !.ok = @ /\ ~jump,
                            !.fault = jump \/ (@ /\ (obs.armed \/ fc.task # "none"))]
    /\ UNCHANGED <<fc, obs, bad, lease, fcu, mission>>

\* What navigation_ready asks of the map comes and goes.
Localization ==
    /\ May("nav") /\ Heard /\ nav.id.frame = "map"
    /\ nav' = [nav EXCEPT !.ok = ~@]
    /\ UNCHANGED <<fc, obs, bad, lease, fcu, mission>>

LeaseChange ==
    /\ May("lease") /\ lease' = ~lease
    /\ UNCHANGED <<fc, obs, bad, nav, fcu, mission>>

Answer(c, ok) ==
    [kind |-> c.kind, cmd |-> c.cmd, ok |-> ok,
     failsafe |-> c.kind = "land" /\ c.failsafe, current |-> c.kind = "land" /\ c.current]

Outcomes == IF May("reject") THEN BOOLEAN ELSE {TRUE}

\* MAVROS serves set_mode calls in order, and the FCU obeys or refuses.
ServeMode ==
    /\ fc.modeQueue # <<>>
    /\ \E ok \in Outcomes :
         LET c == Head(fc.modeQueue) IN
         /\ fc' = [fc EXCEPT !.modeQueue = Tail(@), !.replies = @ \cup {Answer(c, ok)}]
         /\ fcu' = IF ~ok THEN fcu
                   ELSE [fcu EXCEPT !.mode = IF c.kind = "land" THEN "LAND" ELSE "GUIDED"]
    /\ UNCHANGED <<obs, bad, nav, lease, mission>>

ServeCall ==
    /\ \E c \in fc.calls, ok \in Outcomes :
         /\ fc' = [fc EXCEPT !.calls = @ \ {c}, !.replies = @ \cup {Answer(c, ok)}]
         /\ fcu' = [fcu EXCEPT !.armed = @ \/ (ok /\ c.kind = "arm")]
    /\ UNCHANGED <<obs, bad, nav, lease, mission>>

Lose ==
    /\ May("lost")
    /\ \/ fc.modeQueue # <<>> /\ fc' = [fc EXCEPT !.modeQueue = Tail(@)]
       \/ \E c \in fc.calls : fc' = [fc EXCEPT !.calls = @ \ {c}]
       \/ \E r \in fc.replies : fc' = [fc EXCEPT !.replies = @ \ {r}]
    /\ UNCHANGED <<obs, bad, nav, lease, fcu, mission>>

\* Landed, or disarmed by its own protection while it waits on the ground.
FcuDisarms ==
    /\ fcu.armed
    /\ fcu' = [fcu EXCEPT !.armed = FALSE]
    /\ UNCHANGED <<fc, obs, bad, nav, lease, mission>>

Pilot ==
    /\ May("pilot")
    /\ \E mode \in FcuMode, armed \in BOOLEAN :
         fcu' = [mode |-> mode, armed |-> armed] /\ fcu' # fcu
    /\ UNCHANGED <<fc, obs, bad, nav, lease, mission>>

Next ==
    \/ Tick \/ LandRetry \/ ObserveState
    \/ \E r \in fc.replies : ReceiveReply(r)
    \/ Takeoff \/ Land \/ HoverCommand \/ Cancel \/ ExecuteWaypoints \/ Motion
    \/ SetNavigationMode
    \/ \E field \in {"timer", "link", "navHold"} : Elapse(field)
    \/ ElapseAttempt
    \/ Telemetry \/ ThrustMode \/ LeaseChange
    \/ NavigationStatus \/ NavigationTf \/ Localization
    \/ ServeMode \/ ServeCall \/ Lose \/ FcuDisarms \/ Pilot

Spec == Init /\ [][Next]_vars

(* Fairness.  The control and avoidance timers fire, clocks run, State     *)
(* messages are periodic; MAVROS answers what it received.  Strong         *)
(* fairness of an accepted mode call: an FCU that is asked again and again *)
(* does not refuse, or lose, every single time.                            *)
ServeModeAccepted == ServeMode /\ \E r \in fc'.replies \ fc.replies : r.ok

Mavros == ServeMode \/ ServeCall \/ \E r \in fc.replies : ReceiveReply(r)

Clocks == ElapseAttempt \/ \E field \in {"link", "navHold"} : Elapse(field)

Fairness ==
    /\ WF_vars(Tick) /\ WF_vars(LandRetry) /\ WF_vars(State(TRUE))
    /\ WF_vars(Mavros) /\ WF_vars(Clocks) /\ SF_vars(ServeModeAccepted)

FairSpec == Spec /\ Fairness

-----------------------------------------------------------------------------
(* Safety.                                                                 *)

(* Every mode that publishes attitude setpoints is supervised: enforce_    *)
(* safety looks away when the controller is not engaged, so a raw mode     *)
(* without engagement would fly without lease, pose or mode checks.        *)
RawSupervised == fc.mode \in Raw => fc.engaged

(* While a LAND is being confirmed the node keeps its hands off: mode LAND, *)
(* controller disengaged, whatever replies and telemetry still arrive.      *)
LandHandsOff == fc.task = "land" => fc.mode = "land" /\ ~fc.engaged

(* A take-off or waypoint task is always an engaged one, so that losing    *)
(* the lease cancels it.                                                   *)
TaskSupervised == fc.task \in {"takeoff", "waypoint"} => fc.engaged

(* trigger_failsafe_land does nothing while failsafe_land_requested_ is    *)
(* set: no command, reply or recovery engages the controller under the     *)
(* flag of an old request.  Only the localization hold does.               *)
FailsafeNotMasked == fc.engaged /\ fc.failsafe => fc.navHold # "off" /\ fc.mode = "hold"

(* The task that flies is flown with the configuration that is locked, and *)
(* a lock never outlives a task that failed before the vehicle was armed.  *)
LockFollowsTask ==
    /\ fc.task \in {"takeoff", "waypoint"} => fc.lock # NoConfig
    /\ fc.task = "waypoint" => fc.config = fc.lock
    /\ fc.lock # NoConfig /\ ~obs.armed => fc.engaged

(* The configuration that was locked in flight stays until disarming.      *)
LockStable ==
    [][obs.armed /\ obs'.armed /\ fc.lock # NoConfig => fc'.lock = fc.lock]_vars

(* After the avoidance wait has timed out, no task but LAND and none of    *)
(* the commanded modes comes back before the vehicle has disarmed.         *)
LatchHolds ==
    fc.latched => fc.task \in {"none", "land"} /\ fc.mode \notin {"takeoff", "motion", "waypoint"}

(* A control tick publishes attitudes only on behalf of a live lease or in *)
(* the hold the node enters by itself.                                     *)
AttitudeAuthorized == [][~lease /\ fc'.attitude /\ Tick => fc'.mode = "hold"]_vars

(* Only an accepted operator command, or the hold after lost localization, *)
(* engages the controller: no reply to an abandoned call, no telemetry and *)
(* no other timer does.                                                    *)
OnlyOperatorsEngage ==
    [][~fc.engaged /\ fc'.engaged
        => fc'.accepted \/ fc.navHold # "off" \/ fc'.navHold = "running"]_vars

(* No GUIDED request overtakes a LAND: while a LAND is active, the newest  *)
(* mode request on its way to the FCU is a LAND.                           *)
LandIsLast ==
    fc.task = "land" /\ fc.modeQueue # <<>> => fc.modeQueue[Len(fc.modeQueue)].kind = "land"

(* A control tick that finds an unhealthy input in a mode that publishes   *)
(* attitudes leaves that mode, whatever else the tick does; but for the    *)
(* localization hold under an old failsafe request.                        *)
UnhealthyLetsGo ==
    [][obs.armed /\ fc.mode \in Raw /\ bad # {} /\ Tick
        => fc'.mode \notin Raw \/ (fc'.failsafe /\ fc'.navHold # "off")]_vars

(* When the hold after a lost lease is over, the controller lets go and    *)
(* LAND is requested.                                                      *)
OutageLands ==
    [][fc.engaged /\ obs.armed /\ ~lease /\ fc.link = "expired" /\ Tick => ~fc'.engaged]_vars

(* The same for the hold after lost localization.                          *)
NavTimeoutLands ==
    [][fc.engaged /\ obs.armed /\ ~Located /\ fc.navHold = "expired" /\ Tick
        => ~fc'.engaged]_vars

(* A vehicle that flies on attitude setpoints without a lease, or without  *)
(* localization, does not do so forever: what was lost comes back, or the  *)
(* FCU leaves GUIDED (LAND) or disarms.                                    *)
LossLands ==
    (obs.armed /\ fc.mode \in Raw /\ ~(lease /\ Located))
      ~> ((lease /\ Located) \/ ~obs.armed \/ obs.mode # "GUIDED")

(* Once the avoidance wait has timed out in flight, LAND is requested      *)
(* until the FCU lands, although single requests are refused or lost.      *)
LatchLands == (fc.latched /\ obs.armed) ~> (obs.mode = "LAND" \/ ~obs.armed)

(* A control tick never drops a waypoint task without a terminal result.   *)
NoSilentDrop ==
    [][fc.task = "waypoint" /\ fc'.task = "none" /\ Tick => fc'.results # {}]_vars
=============================================================================
