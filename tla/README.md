# TLA+ models of ros2-ardupilot-mavros-control

This directory holds the formal model of the control software of the vehicle: what is
modelled, what TLC checks on small instances, and what TLAPS proves for all of them.
Paths are relative to the repository root; `node.cpp` is
`src/onboard_control/src/onboard_control_node.cpp`, and `PROJECT.json` gives, for every
definition, the lines it stands for.

## 1. The system

A ground station (Python, Qt, ROS 2) commands one aircraft. On the aircraft
`onboard_control` (C++, ROS 2) talks to an ArduPilot flight controller (FCU) through
MAVROS, and beside it run an avoidance planner, a visual correction service and a video
service. High-level commands travel down (services, motion intents), state and command
results travel up (`ControlStatus`, `CommandResult`).

    upstream client --WebSocket--> ground station --ROS 2--> onboard_control --MAVROS--> FCU
                                     |  ^                      |  ^    |  ^
                                     |  status, results        |  |    |  avoidance bridge / planner
                                     video, media              |  correction service -> extnav
                                                               localization (Odin, tf)

### Inventory

| component | state | operations | hard behaviour | what makes it correct |
|---|---|---|---|---|
| control lease, vehicle side (`node.cpp` 640-834) | owner, deadline, last sequence per source, clock base | acquire, release, heartbeat, expiry, status | two stations, reordering, restart | a running lease never changes hands; released control is not revived; the clock base is the owner's |
| control lease, ground side (`ros_controller.py`, `_update_lease`) | session flags, pending futures, grant hint, sequence, last status | enable, release, one round of the loop | stale status, lost reply, restart of the vehicle's process | authority comes back after an outage |
| command envelope (`validate_envelope`, `align_sender_clock`) | clock base | judge a command's age | clocks that differ, delayed heartbeats | no stale command accepted, no fresh one refused |
| flight machine (`onboard_control_node`) | task, mode, engagement, failsafe, locks, latch, timers, outstanding MAVROS calls | seven operator commands, `control_tick`, `avoidance_tick`, `on_fcu_state`, replies | replies that arrive too late, stale telemetry, refusals, losses, pilot | raw modes are supervised; LAND is hands off and last; a lost link or localization lands; locks and latch hold |
| navigation frame (`navigation_frame.cpp`) | identity, fault, hold, last tf, mode | status, tf, tick, mode switch | localization that comes and goes, jumps, a new identity | a hold ends in recovery or LAND; waypoints are flown in the frame they were made for |
| avoidance execution (`avoidance_execution.cpp`) | request, trajectory, wait, LAND retry | tick, result | late results of another goal or revision | an old curve is never flown; the latched LAND is repeated |
| waypoint trackers (`waypoint_arrival_tracker.hpp`, executor) | counters, hold time | samples | one bad sample, a missed one | arrival needs the samples the limits ask for |
| waypoint calibration (`waypoint_calibration.cpp`) | stage, owner, calls, generation | tick, replies, stop | stop with calls in flight | no ownership or sampling job is left behind |
| FCU session (`fcu_reboot.cpp`, rate, parameter and origin code of `node.cpp`) | generation, chains of requests, origin | reboot, parameters, rates, origin | a reboot in the middle of a chain | replies of an old session have no effect |
| correction service (`correction_service/node.py`) | owner lease, job and its thread, window with its revision, saved and pending candidate | acquire, release, start, stop, apply, clear; freeze, send, reconcile, account | the thread works between locks; answers late or lost; unknown outcome of an application; restart | an application takes effect at most once, upon the correction its jump was computed from, and is accounted truthfully; an owner is rid of its job in the end |
| extnav bridge (`extnav_to_vision_pose.py`) | Odin session, active correction, revision | SetCorrection, status, invalidation | session changes, other clients, restart | compare and swap on revision and session |
| avoidance bridge (`avoidance_bridge.cpp`) and backend manager | session, revision, request | forward, answer, switch | planner restarts, results that cross | one request at a time, answers of the right revision |
| ground commands (`ros_controller.py`) | tickets, pending calls, results | submit, poll, result, time-out | a time-out against a late result | a sequence goes on only after what the vehicle did |
| upstream link (`upstream/service.py`) | address, wish, session, writer, telemetry queue, retained events | connect, disconnect, publish, write | sessions that break, addresses that change, wake-ups between threads | a retained event is sent once, in order, and in the end |
| mission reports (`upstream/status_projector.py`) | mission, landing, standby, missions and photos that wait for files | observe vehicle, result, capture, media | captures, files, results and reconnects in any order | every report is true, once, and in order |
| upstream sequences (`qt_ui/main_window.py`) | sequence and phase, open countdowns, waypoint panel, latches | command, refresh, countdown, operator's LAND | handlers that nest in the event loops of modal dialogs; old tickets | stages follow the vehicle; LAND preempts |
| media (`video_service/`, `ground_media_reader.py`) | recordings, transfers | record, transfer, confirm | interrupted transfers | a delivered file is complete |
| control law, trajectories, vision, other windows, simulation, drivers, scripts | - | - | numerical, device and window code | outside the reach of a model checker |

Components with their status and the reason for what is left out are listed under
`components` in `PROJECT.json`; `hazards` lists at its line each thing that is hard to test.

### How the modelled components interact

The lease decides whether a command is looked at (`has_control_locked`) and, while it
lasts, keeps the controller engaged (`enforce_safety`). The clock base, which heartbeats and
granted acquires set, decides a command's age. Accepted commands start a task of the flight machine; the
machine asks MAVROS for GUIDED, arming, take-off or LAND and goes on in the callback of
the reply. The control timer supervises telemetry, lease and localization, the avoidance
timer repeats a latched LAND. Localization is watched in every frame: a driver that changes its
identity in flight, or a transform that jumps, latches a fault; in the map frame a healthy
localization is asked for as well. Either starts the hold of `navigation_tick`.

The correction service and the extnav bridge share nothing but messages: SetCorrection
requests and answers, and the status the bridge publishes. Each keeps a revision of its own;
a request carries the bridge's revision and session as the service last saw them, and the
bridge refuses it if either has moved.

Commands of the upstream system reach the window through the reader of the link; the window
turns them into sequences of take-off, waypoints, LAND and standby, hands tickets to the ROS
client, and reads the vehicle's results and status. The projector listens to the same
results, and its reports go back through the link. The vehicle in this composition is
`OnboardControl` seen from outside: what it accepts, and the results it publishes.

## 2. Modules

| module | what it is |
|---|---|
| `LeaseAuthority` | abstract specification: what a control lease promises |
| `ControlLease` | both sides of the lease protocol; implements `LeaseAuthority` |
| `ControlLeaseProofs` | types, refinement and what it gives the protocol, clock ownership, no resurrection |
| `MCControlLease` | the stations of the TLC instances |
| `CommandFreshness` | dating of commands without a common clock |
| `CommandFreshnessProofs` | both bounds on the age, for all parameters |
| `MCCommandFreshness` | offsets between the clocks |
| `OnboardControl` | the task and mode machine with failsafes, MAVROS and FCU |
| `OnboardControlProofs` | the inductive invariant of the machine and what follows |
| `OnboardGuardProofs` | lock, failsafe request, holds and order of mode requests; the action properties |
| `MCOnboardControl` | configurations, identities and missions |
| `CorrectionRegister` | abstract specification: an application takes effect at most once |
| `ExtnavCorrection` | the bridge: session, correction, revision, SetCorrection |
| `CorrectionService` | owner lease, job, window and application of the service, with the bridge; implements `CorrectionRegister` |
| `CorrectionServiceProofs` | layered inductive invariant of service and bridge |
| `MCCorrectionService` | clients, tags and mixes of faults |
| `UpstreamLink` | WebSocket session, writer, retained events |
| `StatusProjector` | what is reported of a mission |
| `UpstreamMission` | upstream sequences of the window, tickets, the vehicle from outside; composes the two above |
| `UpstreamMissionProofs` | types, retained events, standby, LAND and stages of the composition |
| `UpstreamTellingProofs` | the invariant about the reports, and what each method of the projector keeps of it |
| `UpstreamStoryProofs` | the window, the dialogs and the vehicle keep it; reports are true and in order |
| `MCUpstreamMission` | addresses, command scripts and mixes of mishaps |

Operators with a comment `Mutant:` are the plausible bugs the properties are tried
against; no specification uses them.

### ControlLease

State ↔ code: `onboard` is `lease_owner_`, `lease_deadline_` (as `live`),
`last_lease_sequence_` and the source of the clock base; `ground[g]` is `lease_state` with
the events `_control_enabled` and `_release_requested` and the two snapshot fields the loop
reads; `net`, `replies` and `status` are what is under way. `released` is a history
variable: the sequence number of the last release the vehicle granted each station.
Actions: `Receive` is `on_acquire_control` or `on_heartbeat`; `Expire` the deadline;
`PublishStatus` is `status_tick`; `UpdateLease(g)` is one whole round of `_update_lease`
(read finished futures, check the hint, then one of release, heartbeat, acquire, nothing,
or end of the session for two publishers of the status); `EnableControl`,
`ReleaseControl`, `ReadStatus`, `StatusStale` are the calls and subscriptions that feed it;
`Restart` starts the vehicle's process with empty tables.

The order of messages is not kept: a service request may overtake a heartbeat. A
heartbeat may be lost at any time, a request or reply only with a restart, and only where
`LossyReplies` says so.

### CommandFreshness

Discrete time as the receiver counts it, the sender's clock a constant `offset` away.
`Aligned` is `align_sender_clock`, `Judge` is the age test of `validate_envelope`. The
network assumption is named: a heartbeat that is delivered travels at most `MaxDelay`;
commands may take any time. The model has one sender; that the base belongs to the owner is
`ClockFollowsOwner` of `ControlLease`.

### OnboardControl

The flight state is one record `fc`, and every procedure of the node is an operator from
flight state to flight state (`CancelTask`, `StartLand`, `FailsafeLand`, `FailTask`,
`EnsureGuided`, ...), so that a handler composes the calls it makes in the order of the
code. `ControlTick` is the pipeline `NavTick`, `Safety`, `TakeoffTick`, `LandTick`,
`StartGate`, `Executor`, `Attitude`.

| variable | code |
|---|---|
| `fc` | the members of the node (comment of each field in `Flight`), its outstanding MAVROS calls and the replies not processed yet |
| `obs` | the last `State` message: connected, armed, mode |
| `bad` | inputs that are not healthy: `pose`, `stream` (position, velocity or State late, or a second publisher of setpoints), `thrust` (GUID_OPTIONS not verified) |
| `nav` | localization: the driver's identity (mode, and map with session) as last heard, the identity fixed at arming, health of the map's observations (`ok`), the latched `navigation_fault_`, a mode switch under way |
| `lease` | the lease of the commanding station is live |
| `fcu` | what the FCU really does, ahead of `obs` |
| `mission` | the commands and faults of this behaviour, chosen at the start |

Why each handler is one step: every callback that changes the task or the mode holds
`execution_mutex_` from beginning to end. Heartbeats, pose and velocity take only `mutex_`,
and `publish_attitude_setpoint` unlocks `mutex_` around the publish, but after that unlock
the tick reads nothing they write except for diagnostics.

MAVROS: `set_mode` requests are served in the order they were sent (`modeQueue`), arming and
take-off calls in any order (`calls`); the replies are processed in any order and may
arrive before the State message that shows their effect. `current` marks a LAND call of the
newest `avoidance_land_request_generation_`. Command identities (source and sequence
number) are recycled once nothing refers to them.

Abstractions: time-outs are timers off/running/expired that may expire at any moment; the
age of the last latched LAND attempt is recent/due/overdue (below 1 s, up to 2 s, above);
reference, controller output and height are verdicts a tick sees (`Event`); a waypoint
task is one waypoint, the last one; a configuration is the triple of strategy, generator
and controller that the code locks. Fields of a task that has ended are reset, for the
code does not read them before the next task sets them. Commands are those that passed
`validate_envelope` and `authorize_flight_sequence`.

Localization: `NavigationStatus` is a status of the Odin driver with another identity (on the
ground it clears fault and hold, in flight it latches a fault that only disarming clears),
`NavigationTf` a map transform, which may jump, `Localization` the map's health coming and going,
`SetNavigationMode` the switch up to the worker it spawns. A switch that succeeds restarts the
process, which is another behaviour from `Init`; one that fails is seen by a tick. Where a
retargeted waypoint goes is left to the event `outside` (out of the height limits).

A *mission* names the identities that Odin may report, configurations, commands, faults and the
bound on outstanding calls of a behaviour. The actions are the same for all missions; missions only switch off
inputs, so that TLC explores the combinations that belong to a hazard in depth
instead of all thirteen faults at once. The proofs do not depend on the missions.

### ExtnavCorrection and CorrectionService

| variable | code |
|---|---|
| `extnav`, `sessions` | the bridge's session, revision and `applied_job_id`; sessions begun so far |
| `requests`, `answers` | SetCorrection calls on their way, and answers somebody waits for |
| `seen` | `_extnav`, the last status received |
| `owner` | `_automatic_owner`, `_owner_releasing`, `_retired_owners`, and whether the deadline has passed |
| `job` | `_job`: its phase in the thread, what it was asked for, its candidate, its request |
| `window`, `saved`, `pending` | `_window` and `_window_revision`, `_saved_candidate`, `_pending_candidate` |
| `fault` | `_resource_fault` |
| `effects`, `sent` | history: which sends took effect, and series and verdict of every send |

The thread of a job holds the service's lock only in pieces; each piece is one action of
`Thread`, and the callbacks (`ReceiveStatus`, `OdometryFault`, `Expire`, the requests of the
clients) happen between them. `Freeze` computes candidate and jump from the status last seen;
`Submit` makes the candidate pending; `Send` repeats the checks under the lock that also
decides stops and releases; then the answer comes (`ReceiveAnswer`) or not
(`AnswerTimesOut`), the status is watched (`Confirm`, `ReconcileTimesOut`) and `Account` saves,
restores or latches. A candidate whose outcome is unknown stays pending and may only be
applied again (`ApplySaved` with `retry`); the requests of an application and its retries
form one *series*, the unit of `CorrectionRegister`. Everything the code can refuse or find
wrong with images, ages and jump limits is a failure that may happen whenever it is evaluated.
`Account` follows the code also where a status callback has emptied the window while the
application was under way: a rejected candidate of the old window may be put back as saved,
where `ApplySaved` refuses it by its window revision.

A correction is known by its job, which is what `_set_correction` compares besides values the
service derives from the job. Which candidates meet the bridge's own limits on quality, sample count
and size is left open (`limit.fit`). Requests may arrive late, or never; the service does not send
two requests at a time, but after a time-out and a retry several are on their way.

### UpstreamLink, StatusProjector and UpstreamMission

`UpstreamLink` has the supervisor, the writer and what other threads hand to the asyncio loop
(`call`) as processes of their own. `StatusProjector` is a set of operators on the record of
the ground station, one per method of the projector, for all of them run under its lock and
inside a handler of the window.

`UpstreamMission` holds that record in `gcs`: the sequence (`seq`), the handlers that wait for
a dialog (`frames`, innermost last), the waypoint panel (`staged`, `running`, `active`), the
queue and results of the ROS client, and the projector's fields. `snap` is the last status
received; `veh` the vehicle; `calls` and `lost` the requests under way and those whose reply
never comes. `parked` is a history variable: the commands that had themselves to wait under a
countdown opened by their own refresh. Each handler of the Qt thread is one action from the state before to the state
after, in the order of the code: `Handle` is `_handle_upstream_command` (reject an open
countdown, refresh, act, refresh), `Refreshed` is `_refresh` (consume results, drive the
sequence, abnormal vehicle, projector), `DialogEnds` ends the innermost dialog, and `Continue`
is what the handler does afterwards. A handler that opens a dialog stops there and leaves a
frame; in simulation there is no dialog and it goes on at once. A refresh that drives the
sequence into a dialog tells the projector (`Observed`) only when the dialog has ended, after
the refreshes that ran meanwhile, and with the status it had taken before: the frame keeps it
in `seen`.

The mission is a list of commands (`limit.script`) with at most one mishap: a request refused
or lost, a task that fails, a disarm, an abnormal vehicle, the operator's own LAND or cancel.

## 3. Runs

| run | checks | instance | result |
|---|---|---|---|
| `lease_handover` | `ClockFollowsOwner`, `ImplementsLeaseAuthority` | 2 stations, 2 messages each, replies may be lost | holds, 1.2 M states |
| `lease_session` | `TypeOK`, `NoResurrection`, `AuthorityRegained` | 1 station, 4 messages, 1 restart, fairness | holds, 53 k states |
| `lease_lost_reply` | `AuthorityRegained` | as above, and the restart may swallow a reply | violated, finding 4 |
| `freshness` | `TypeOK`, `NoStaleCommand`, `NoFreshRefusal` | time to live 1, skew 1, delay 2, offsets -5 and 3, time to 4 | holds, 253 k states |
| `flight_safety` | types, 7 invariants, 4 action properties | seven missions | holds, 1.2 M states |
| `flight_landing` | `LossLands`, `LatchLands`, `OutageLands`, `NavTimeoutLands` | four missions, fairness | holds, 30 k states |
| `outage_after_land` | `OutageLands` | LAND, then waypoints, then a lost lease | violated, finding 1 |
| `nav_masked` | `NavTimeoutLands` | a LAND call that is lost, then lost localization | violated, finding 2 |
| `silent_drop` | `NoSilentDrop` | no fault, no pilot | violated, finding 3 |
| `correction_apply` | types, 3 invariants, 3 action properties or refinements, `OwnerLetsGo` | seven mixes, fairness | holds, 672 k states |
| `upstream_mission` | types, 6 invariants, `RetainedSent` | twelve mixes, fairness | holds, 315 k states |
| `land_behind_countdown` | `LandComesFirst` | a real inspection and one LAND | violated, finding 5 |

Why the bounds suffice. Lease: two messages per station allow a grant, a release or
heartbeat, and a takeover by the other with every overtaking between them; four messages
of one station allow acquire, release, acquire and a late message of the first session, and
a restart between any two. Freshness: `MaxDelay` above `Skew` makes the interesting refusal
possible, the time bound exceeds `Ttl + MaxDelay`, and the offsets exceed the whole time
range in both directions. Flight: with two outstanding calls an old request and its
replacement coexist with their replies; a third adds no new pair. Identities
(eight) are more than the calls, replies and the task need. Deadlock checking is off in
all configurations because the system may stop: message bounds are used up in the lease
instances, the time bound in the freshness instance, sessions, requests and missions in the
correction and upstream instances, and a disarmed vehicle may be idle.

Correction: two sends are an application and its retry, two candidates let an old request meet
a newer candidate, two sessions an old session's job meet a new one, and the revision may be
moved by both and by another client or a restart. The mixes (`MCCorrectionService`) give
depth to one combination at a time: a calibration under session changes; a panel under
session changes and a bridge that restarts; panel and calibration; another tool that writes;
two candidates and two tags; a restart of the service; a candidate the bridge itself refuses. Upstream: two missions, two points
and one mishap are enough for a report or a ticket of one to meet the other; the telemetry
queue has length one, because only full and empty matter to the writer; two upsets are a
failure and an address that changes. The mixes are those of a link, of simulated flights
with each kind of mishap, and of real flights with LANDs above countdowns and with photos and
videos that come late, fail or are missing.

The missions of `flight_safety`: (1) take-off, waypoints, LAND and hover with a lease that
comes and goes, two calls outstanding; (2) two configurations, cancels and refusals, for
the lock; (3) motion with all telemetry faults, non-finite outputs, lost FCU link and a
pilot who changes mode and arming; (4) refusals and missing services; (5) the avoidance
wait that times out; (6) the map frame with lost localization, jumps and lease; (7) the odom
frame with a driver that is heard late, reconnects in flight, or is switched, with lost lease and
late telemetry.

### What the properties say

* `RawSupervised`, `TaskSupervised`: `enforce_safety` returns at once when the controller
  is not engaged, so every mode that publishes attitudes, and every take-off or waypoint
  task, has to be engaged. Late replies and the many ways a task ends are what could break it.
* `LandHandsOff`, `LandIsLast`: an active LAND has mode LAND and no engagement, and no GUIDED
  request is behind it on the way to the FCU.
* `LockFollowsTask`, `LockStable`: the configuration flown is the one locked; the lock
  does not outlive a task that failed before arming and does not change in flight.
* `LatchHolds`, `LatchLands`: once the avoidance wait is over, nothing but LAND until the
  vehicle disarms, and LAND is asked for until the FCU lands.
* `AttitudeAuthorized`, `OnlyOperatorsEngage`, `UnhealthyLetsGo`, `FailsafeNotMasked`:
  no attitude without a lease except in the hold; no engagement but by an accepted command
  or the localization hold; a tick that sees an unhealthy input leaves the raw modes; the
  flag that suppresses further failsafe LANDs is never set while engaged. The last two have one
  exception, in every frame: the localization hold, which engages the controller whatever flag an
  earlier LAND left behind (finding 2). In odom it takes a driver that reconnects in flight. Under
  such a hold the old flag masks a late pose or stream as well.
* `LossLands`, `OutageLands`, `NavTimeoutLands`: the loss of lease or localization ends in
  its return or in LAND. The last two hold for the missions of `flight_landing`; findings 1
  and 2 are the sequences in which they do not, so they are *not* promises of the code in
  general.
* `NoResurrection`, `ClockFollowsOwner`, `AuthorityRegained`, `NoStaleCommand`,
  `NoFreshRefusal`: see the comments in the modules.

* `JumpChecked`: the jump that was limited is the jump that takes effect; the compare and swap
  of the bridge and the service's checks must agree about what a revision means.
* `ImplementsRegister`, `AccountsAreTrue`: no retry and no restart makes an application take
  effect twice, and what is accounted as applied or rejected is so.
* `OwnerExclusive`, `NoSendAfterRelease`, `OwnerLetsGo`: a calibration's lease, its job and the
  end of both.
* `WindowOfOneSession`: a job of an old session cannot write into the new window.
* `RetainedKept`, `RetainedSent`: kept events are neither lost, duplicated, overtaken nor left.
  *Sent* means that the writer's send returned; what the peer makes of it is not known to the code.
* `CompletionTruthful`, `PointsInOrder`, `StandbyWithheld`: what the upstream system is told.
  `StandbyWithheld` is about combined actions; a bare take-off command (01) opens no sequence, and
  between its request and arming standby is withheld by nothing.
* `StagesInOrder`, `LandPreempts`: what the sequences order, whatever handlers nest.
  `LandPreempts` counts from the moment the LAND is queued; that a *received* LAND comes first
  is what finding 5 refutes. It exempts the commands in `parked`, which may still act after the
  LAND when the window then allows it (section 4).

Each property of a passing run has a mutant in `PROJECT.json`: a definition changed the way
a slip in the code would change it, under which TLC finds the property violated.

### Fairness

*Flight.* Control and avoidance timers and the periodic State message are weakly fair
(`Tick`, `LandRetry`, `State(TRUE)`); so are the clocks of the two holds and the retry
(`Clocks`); MAVROS answers what it received and the node processes the answers (`Mavros`).
`ServeModeAccepted` is strongly fair: an FCU that is asked for a mode again and again does
not refuse, or lose, every request. Nothing is assumed of operators, lease,
localization or pilot. Nothing is assumed of the take-off and LAND confirmation timers either.

*Lease.* `PublishStatus`, delivery of requests (not of heartbeats), `ReadStatus`, the hint
deadline and reading of replies are weakly fair; dropping a stale hint and asking are strongly
fair, because the station's loop runs at 50 Hz while the status may go stale and come back.

*Correction.* The steps of the thread are weakly fair, for each of its waits is bounded by a
time-out, and so is `Expire`, which the status timer runs every 0.25 s. Nothing is assumed of
clients, network, bridge or Odin. *Upstream.* The asyncio loop runs what is ready: the
supervisor, the callbacks handed to it, the writer. A sending completes or the session fails.
Nothing is assumed of the operator or of the vehicle.

## 4. Findings

1. **A task accepted during LAND loses its link-loss LAND** (`outage_after_land`,
   `node.cpp:2445`). `start_waypoint_task` leaves `control_mode_` at LAND until the vehicle
   is in GUIDED and armed; both the hold and the LAND of a lost lease return at once in
   that mode.
2. **An unanswered failsafe LAND masks the localization time-out** (`nav_masked`,
   `node.cpp:2176`). The confirmation time-out leaves `failsafe_land_requested_` set; the
   hold engages the controller and its time-out does nothing; in that hold the flag masks a late
   pose or stream too. The hold starts when the map's localization is lost, and in odom too when
   the driver reports another session or mode in flight (`navigation_frame.cpp:122-137`, 318).
3. **A waypoint task can be dropped without a result** (`silent_drop`, `node.cpp:2407`). The
   reply to GUIDED is processed before the State message that shows it, and the next tick
   takes the old mode for an external switch.
4. **A lost AcquireControl reply ends the session** (`lease_lost_reply`,
   `ros_controller.py:1709`). The acquire future has no deadline, and no new acquire is
   sent while it is pending; only a restart of the station's ROS client ends this.
5. **A LAND may wait behind a countdown that starts after it** (`land_behind_countdown`,
   `main_window.py:1234`). The handler of a LAND refreshes before it acts; that refresh may
   consume the result of the take-off and open the countdown of the waypoints above it, which
   executes when nobody cancels it. The LAND is asked for after that countdown and its own, when the
   waypoints have been submitted.

Seen while modelling, without a document that says otherwise: a latched unknown application
can be neither retried, once extnav has moved on (`node.py:1006`), nor cleared (`node.py:701`)
before the session or the process changes; the operator's LAND between the take-off and the
waypoints of a sequence is followed by the sequence's own waypoints; a sequence whose vehicle
is disarmed by other means than its LAND waits until the environment is closed; a mission
that is landed by hand after its own LAND was given up is never reported as complete (08); a
command whose own refresh opened a countdown waits below it, and acts after a LAND that was
queued meanwhile (02, 03, 01, 06 and a disarm: the take-off of 01 is asked for after the
LAND of 06).

The quoted claims of the documentation and tests are in `PROJECT.json`.

## 5. Proofs

All theorems hold for every value of the constants that satisfies the named assumptions
(`LeaseAssumption`, `FreshnessAssumption`, `OnboardAssumption`, `BridgeAssumption`,
`ServiceAssumption`, `LinkAssumption`, `ProjectorAssumption`, `MissionAssumption`), which TLC
evaluates on its instances.

**Lease** (`ControlLeaseProofs`). `TypeCorrect`; `LeaseRefinement`: every step maps to a step
of `LeaseAuthority` or a stutter, by cases on the message received. Through it the protocol has
what the abstract lease promises: a running lease has an owner (`RunningLeaseHasOwner`) and never
changes hands (`NoRunningLeaseIsTaken`). `ClockIsOwners` is inductive together with the types. `ReleasedStaysReleased` needs a strengthening,
`LeaseInv`: sequence numbers are handed out in order (`Numbered`), a station has at most one
acquire under way, as a request or as its reply (`OneAcquire`), and that acquire is younger
than every release of its station (`AcquireIsNewest`). This is what the wait for the
pending future in the release branch is for: without it the acquire may be older than the
release, and a restart that empties the sequence table revives the lease; the mutant
`MayReleaseEarly` is that bug.

**Freshness** (`CommandFreshnessProofs`). `StaleCommandsRefused` and `FreshCommandsAccepted`
rest on `BaseOffset` (the base is between 0 and `MaxDelay` older than an ideal one) and
`InFlightPast`: the age the code computes is the true age less the delay of the last heartbeat.

**Flight machine** (`OnboardControlProofs`). `RawModesSupervised`, `LandsHandsOff`,
`TasksSupervised` and `LatchKeepsOthersOut` follow from one inductive invariant,
`Inv == TypeOK /\ Fit(fc)`. Its parts: an active LAND has mode LAND, no engagement, and an
identity that no reply to an outstanding GUIDED, arming or take-off call may wake (`LandApart`
with `Asked`); a flying task is engaged, without failsafe request and not latched
(`TaskEngaged`); raw modes are engaged (`RawEngaged`); a latch excludes the commanded modes
(`Latched`); an active task has a name (`Named`); a localization hold only exists armed
(`HoldArmed`). `LandApart` is why the induction goes through: without it a late
reply could match the LAND and engage the controller behind its back. The proof follows the code: one
lemma per procedure (what it keeps of `Fit` and `Asked`), one per stage of the tick, one per
handler, and one per action of the surroundings.

**Guards of the flight machine** (`OnboardGuardProofs`), along the same lines with a second
invariant, `GuardInv`, which adds `Guarded(fc)` to `Inv`. Its parts: a GUIDED request is sent
only by a task and starting a LAND ends the task, so the last request behind an active LAND is a
LAND (`LandLast`); a task is locked, flies what is locked, and a lock on the ground belongs to an
engaged controller (`Locked`); an engaged controller has no failsafe request left over except in
the localization hold (`Masked`); a task is not counting a link loss
(`BusyLinked`), and whoever counts one holds or lands (`LinkHeld`). The last two are there
because a tick without a lease must not leave a task or a raw mode running beside the count: they
give `AttitudesAuthorized`. From the invariant follow `NoGuidedBehindLand`, `LocksFollowTasks`,
`FailsafesNotMasked`, and, by cases on the action, `LocksStable` and `OperatorsEngage`.
`UnhealthyLeaves` is `UnhealthyLetsGo` as it is checked; its exception cannot be dropped: the hold
under an old flag is reached in the map frame, and in odom after a change of session.
`OutageLands` and `NavTimeoutLands` are false in general (findings 1 and 2). What is proved of them is
under which condition they hold: the engaged controller has no failsafe request left over and is
not in mode LAND (`Unmasked`). Hence the two early returns of `trigger_failsafe_land` that the
findings show are the only ways in which a tick can lose these LANDs.

**Correction** (`CorrectionServiceProofs`), for any mix of clients, sessions, retries, restarts and other writers. The inductive invariant has layers, each proved
with the help of those below it:

* types: `TypeInv` adds to `TypeOK` that a job which has sent, or retries, has a series, that a
  settled job has a verdict, and that a running job leaves room for its commit;
* ownership (`OwnerInv`): a job that has not sent yet has been stopped once its owner is
  releasing. It gives `OwnersJobOnly` and `NothingSentAfterRelease`;
* windows (`WindowInv`): the keyframes of the candidate, the saved and the pending candidate are
  each of their own session and of different tags; with the checks of `_commit_new_window_locked`
  it gives `OneSessionInWindow`;
* views (`ViewInv`): a session and revision that were read somewhere, in the status last seen,
  the frozen candidate or a request on its way, still mean the correction they had, or are past.
  It gives `JumpsAreChecked`: accepting a request means that the correction its jump was
  computed from is the active one;
* applications (`OnceInv`): a series that has taken effect is `Passed` for every request,
  running retry and latched candidate of it, that is, behind the bridge's revision or its active
  correction. `NotOverwritten` is what keeps a retry under a new revision inside this. It gives
  `RegisterRefinement`: every step takes effect once for its series, drops, or stutters in
  `CorrectionRegister`, and through it `NothingRevives`: an application of the service that was
  replaced or dropped never comes back into force;
* accounts (`AccountInv`): an answer, an acknowledged job and a status prove what they are taken
  to prove (`FlightInv`, `WaitInv`, `JobInv`, `EffectInv`), and a series accounted as rejected is
  neither in force, nor on its way, nor claimed by a job or the latch (`RejectInv`), because only
  the first request of an application can be refused for good (`Refusal`). It gives
  `AccountsHold`.

**Upstream** (`UpstreamMissionProofs`), for every script, mode, mix of mishaps and bound. The
inductive invariant is `Sound == Wired /\ Ground`.

* `Wired` is the link with its books: for every address what was accepted is what was sent
  followed by what is kept, where the event in the writer's hand counts as kept until its sending
  completes. It gives `EventsRetained`; `Sent` is proved to distribute over concatenation, so
  publishing appends to both sides and completing a sending moves one event across.
* `Ground` is the station with its vehicle: the record `gcs` is well formed for the number of
  tickets it has handed out (`Well`), queue, results, calls, missions and histories name only
  such tickets, and the vehicle flies a ticket of the right kind (`Flies`). It gives
  `MissionTyped`. `Withheld`, the part of `Well` about standby, gives `StandbyStaysWithheld`: each
  handler that begins a sequence blocks standby first, and only `EndSequence` frees it.

The handlers are folds over results and events and recursive functions over sequences. The
induction theorems of the library cannot be used, so the module derives an induction over sets of
numbers and over sequences (`Least`, `Induction`, `SeqInduction`) from the least element of a
well-founded relation (`WFMin`), and with it what a fold keeps. There is one lemma per method of
the projector, one per procedure of the window (`...Well`: what it keeps of a well-formed
station, to whose orders it only adds), and one per action (`...Sound`).

What the window orders is a second layer, `Ordered`, on top of `Sound`. It says what everything
that may still order something stands for:

* `Lawful`: the orders given so far are not ahead of their stage (`Earned`), and none lies behind a
  LAND of the same or a newer command (`Behind`), unless its command had to wait;
* `Stacked`: of the nested dialogs only the innermost is open, none in simulation, and what it
  would order is still allowed (`Admits`): a take-off or waypoints only if no newer LAND has been
  ordered meanwhile (`MaySay`), a stage only if it is earned. A handler of a command below another
  dialog is one of `parked`;
* `Steers`: the same of the phase the sequence is in, and that the ticket it waits for is its own
  order of that phase;
* `Reported`: a result bears the name of its order, and a final success is the vehicle's.

This is what the invariants alone do not say: that a LAND needs an upstream command newer than
every order, or a closed dialog above it, follows from `handled` bounding all commands and from
`Preempted` closing the open dialog before anything else happens; that a stage is earned follows
from `Reported` at the moment a result moves the sequence on. It gives `LandsPreempt` and
`StagesFollow`, with one lemma `...Orderly` per procedure and one `...Ordered` per action.

**What is reported** (`UpstreamTellingProofs`, `UpstreamStoryProofs`) is a third layer, `Honest`,
on top of `Sound` and `Ordered`; TLC checked it first, on the instance of `upstream_mission`.
`CompletionTruthful` and `PointsInOrder` speak of the events accepted and of the flights, and
between the two lie a projector with two queues, results that are consumed in one handler or in
nested ones, and snapshots. A *story* is what was accepted so far followed by what the handler
under way has put out. The parts of `Honest`:

* `Tale`: what each event of the story says is so (`Is`), and each may be told after those before
  it (`Before`);
* `Landings`: the missions that wait for their delivery have landed, have not been told of, and
  stand in the order of their flights behind those that only lack photos; of every mission held
  no point beyond its `reported` has been told and every point up to `reached` was visited
  (`Held`). The order of the queues matters because the next delivery is taken from their front:
  without `Rising` a late video of an older mission would be told after a newer one;
* `Newest`: the mission that flies is newer than both queues, and what it claims (`flown`,
  `landed`) the vehicle has done (`Claims`);
* `Coming`: successes are under way in the order of their tickets and, once the mission has flown,
  only later ones. Without it a result of an older ticket could mark the present mission as landed;
* `Chronicle`, `Pilot`: what the vehicle has done. A landing counts for every mission flown before
  it, points are reached one after the other, and the vehicle flies the newest ticket it has
  heard of;
* `Watched`, `Filed`: the last status, and every one a dialog has kept waiting, shows only points
  that were reached (`Observable`, `Glanced`), and only a captured photo can settle. The old status
  is harmless because points reached are never undone.

`UpstreamTellingProofs` proves of each method of the projector (`...Told`) that it continues the
story truthfully, from lemmas about `Within`, `FlattenSeq` and concatenation; `UpstreamStoryProofs`
carries this through the folds over results, the nested dialogs and the phases of a sequence, and
then through every action (`...Honest`). `DeliveriesTruthful` and `PointsFollow` follow. The events
survive the way to the upstream side by `EventsRetained`.

**Only model-checked.** The liveness properties `LossLands`, `LatchLands`, `AuthorityRegained`,
`OwnerLetsGo`, `RetainedSent`: fairness and ENABLED are out of the prover's reach. Every invariant
and action property of the passing runs is a theorem; `OutageLands` and `NavTimeoutLands`, which
are false in general, are so under the condition named above.

## 6. What is not modelled

Interface versions that differ (a station and a vehicle of different versions refuse to
talk). Restarts of a ground station's process: by default it starts with a new source id,
which is one more station of `Ground` (one that keeps its id through
`GROUND_STATION_SOURCE_ID` and counts from one again is not covered), and restarts of its
ROS client, which keep the sequence and drop the pending futures. `_release_finished`, on
which only the GUI waits. In the flight machine: message rate and parameter chains (their
verdict is `thrust`), GPS origin, FCU reboots, counting of the arrival trackers, several
waypoints, planner requests and results, status publication. External parts modelled from
how the code uses them: the FCU, MAVROS, the middleware, the process manager, the pilot.
Of localization: the geometry of a retargeted waypoint and the ages of its observations (their
verdict is `ok`), the worker that restarts the process for a mode switch, and `reboot_active_` as a
reason to refuse one.

In the correction service: image and odometry queues, synchronisation, estimation and quality
gates (their failures may happen at any time), the camera process, the journal, the client
library; values of a correction (its job stands for them). In the upstream part: stop and
restart of the upstream thread, parsing and mapping of messages, telemetry content and low
battery, journal, start and teardown of the environment, `reset_runtime`, motion, navigation
and backend commands, pending-command latches of the panels, a lost control lease (a refused
request stands for it). The numerical planners, vision, camera, relay and driver code, and
the windows, are most of the repository's lines; they are data or device work that a model
checker does not reach.

## 7. Plan

In order of importance to the safety of a flight:

1. `NavigationFrame`: what a retargeted waypoint does to strategy and avoidance in
   `navigation_frame.cpp`; identities, faults, hold and switch are in `OnboardControl`.
2. `AvoidanceExecution` composed with `AvoidanceBridge`: request, result, revision, wait;
   abstract specification "the curve flown answers the current goal".
3. `FcuSession`: generations, rate and parameter chains, reboot recovery, GPS origin;
   abstract specification "verified means verified in this session".
4. `WaypointCalibration`: the stages of `waypoint_calibration.cpp` as a client of
   `CorrectionService`, stopped with calls in flight.
5. `MediaDelivery`: recordings, transfers and confirmations of the video service, as the
   environment of `StatusProjector`'s catalogue.
6. `WaypointTrackers`: the arrival and start trackers as pure operators against a reference
   definition over bounded sample sequences.

Runs: one for a composition rather than one per property, so that each new module adds one
question; bounds of two actors, two identities, one restart. Theorems: an invariant and a
refinement for each of the modules above.

## 8. Running

    tlc -config flight_safety.cfg MCOnboardControl.tla
    tlc -config correction_apply.cfg MCCorrectionService.tla
    tlc -config upstream_mission.cfg MCUpstreamMission.tla
    tlapm OnboardControlProofs.tla
    tlapm UpstreamMissionProofs.tla
    tlapm UpstreamTellingProofs.tla
    tlapm UpstreamStoryProofs.tla
