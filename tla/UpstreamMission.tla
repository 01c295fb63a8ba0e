---------------------------- MODULE UpstreamMission ----------------------------
(***************************************************************************)
(* A mission under the command of the upstream system: the window of the   *)
(* ground station (qt_ui/main_window.py), which turns commands into        *)
(* combined actions - take off, fly the waypoints, land, stand by - the    *)
(* ROS client that carries its tickets to the vehicle and their results    *)
(* back, the projector and the link.                                       *)
(*                                                                         *)
(* The vehicle is OnboardControl seen from outside: its task, what it      *)
(* accepts and the results it publishes.  One timer tick of the window is  *)
(* one step; on a real vehicle every action waits three seconds in a modal *)
(* dialog whose event loop runs the window's other handlers, so that       *)
(* handlers nest: frames holds those that wait, the innermost last.        *)
(* A sequence is known by the command it came from.                        *)
(* Not modelled: loss of the control lease (a request that is refused      *)
(* stands for it), closing the environment, low battery (reported only).   *)
(* Bounds: the commands of limit.script, limit.mishaps mishaps, MaxTickets *)
(* requests.                                                               *)
(***************************************************************************)
EXTENDS StatusProjector

ASSUME MissionAssumption ==
    \A l \in Limits : /\ l.mode \in {"simulation", "hardware"}
                      /\ l.script \in Seq({"01", "02", "03", "05", "06", "07"})
                      /\ l.points \in Point /\ l.plain \subseteq Point
                      /\ l.mishaps \in Nat /\ l.home \in BOOLEAN
                      /\ l.files \subseteq {"photo", "video", "late"}

VARIABLES
    received,  \* commands the reader has passed on
    gcs,       \* the window, its projector and the queue and results of the ROS client
    snap,      \* the latest vehicle status
    veh,       \* the vehicle
    calls,     \* tickets whose request is under way
    lost,      \* tickets accepted by the vehicle whose reply never comes
    mishaps,   \* mishaps that may still happen
    flights    \* history: orders, tickets that succeeded, points reached, missions landed

missionVars == <<received, gcs, snap, veh, calls, lost, mishaps, flights>>
vars == <<linkVars, media, missionVars>>

LandCommands == {"05", "06", "07"}
Simulated == limit.mode = "simulation"
NoCommand == 0   \* what no command of the script has caused
Command == NoCommand..Len(limit.script)

Kind == {"none", "inspection", "emergency", "return", "abnormal"}
Phase == {"none", "takeoff", "waypoints_pending", "waypoints_submitting", "waypoints",
          "land_pending", "land_submitting", "land", "standby", "clear_abnormal"}
Sequence == [kind : Kind, phase : Phase, ticket : Ticket \cup {NoTicket}, command : Command,
             delay : BOOLEAN, via : Ticket \cup {NoTicket}]
NoSequence == [kind |-> "none", phase |-> "none", ticket |-> NoTicket, command |-> NoCommand,
               delay |-> FALSE, via |-> NoTicket]

Name == {"takeoff", "waypoints", "land", "clear_abnormal"}
Order == [name : Name, command : Command]
Result == [ticket : Ticket, name : Name, ok : BOOLEAN, final : BOOLEAN]
Task == {"none", "takeoff", "waypoints", "land"}
Shown == [armed : BOOLEAN, mode : {"idle", "takeoff", "hover", "waypoint", "land"},
          ticket : Ticket \cup {NoTicket}, point : 0..MaxPoints, abnormal : BOOLEAN]

\* What waits for its dialog: a phase of the sequence, the take-off of 01 or 03, the
\* landing of a command, or a command whose own refresh has opened a dialog.
Waiting == {"takeoff", "first", "waypoints", "land", "landing", "command"}
Answer == {"open", "rejected"}
\* seen is the status the handler has taken before its dialog.
Frame == [for : Waiting, command : Command, answer : Answer, seen : Shown]

TypeOK ==
    /\ LinkTypeOK(Event)
    /\ media \in [Ticket -> Media]
    /\ received \in Command /\ gcs.handled \in 0..received
    /\ gcs.seq \in Sequence
    /\ {gcs.frames[i] : i \in DOMAIN gcs.frames} \subseteq Frame
    /\ gcs.running \in BOOLEAN /\ gcs.latched \in BOOLEAN /\ gcs.staged \in BOOLEAN
    /\ gcs.blocked \in BOOLEAN /\ gcs.standby \in BOOLEAN /\ gcs.told \in BOOLEAN
    /\ gcs.mission \in Mission
    /\ {gcs.waiting[i] : i \in DOMAIN gcs.waiting} \subseteq Mission
    /\ {gcs.photos[i] : i \in DOMAIN gcs.photos} \subseteq Mission
    /\ {gcs.queue[i] : i \in DOMAIN gcs.queue} \cup calls \cup lost \subseteq Ticket
    /\ {gcs.results[i] : i \in DOMAIN gcs.results} \subseteq Result
    /\ {gcs.orders[i] : i \in DOMAIN gcs.orders} \subseteq Order
    /\ gcs.out = <<>> /\ gcs.woken = FALSE
    /\ snap \in Shown /\ veh.task \in Task

(***************************************************************************)
(* Vehicle, as its status shows it.                                        *)
(***************************************************************************)
Mode == CASE veh.task = "waypoints" -> "waypoint"
          [] veh.task \in {"takeoff", "land"} -> veh.task
          [] OTHER -> IF veh.armed THEN "hover" ELSE "idle"

StatusNow == [armed |-> veh.armed, mode |-> Mode, ticket |-> veh.ticket, point |-> veh.point,
            abnormal |-> veh.abnormal]

Init ==
    /\ LinkInit(CHOOSE a \in Address : TRUE)
    /\ media = [t \in Ticket |-> NoMedia]
    /\ received = 0
    /\ gcs = [seq |-> NoSequence, frames |-> <<>>, handled |-> 0,
              running |-> FALSE, active |-> NoTicket, latched |-> FALSE, staged |-> FALSE,
              queue |-> <<>>, orders |-> <<>>, results |-> <<>>,
              mission |-> NoMission, waiting |-> <<>>, photos |-> <<>>, landing |-> NoTicket,
              told |-> FALSE, blocked |-> FALSE, standby |-> FALSE,
              parked |-> {}, out |-> <<>>, woken |-> FALSE]
    /\ veh = [armed |-> FALSE, task |-> "none", ticket |-> NoTicket, point |-> 0,
              abnormal |-> FALSE, guided |-> TRUE, last |-> NoTicket]
    /\ snap = [armed |-> FALSE, mode |-> "idle", ticket |-> NoTicket, point |-> 0,
               abnormal |-> FALSE]
    /\ calls = {} /\ lost = {} /\ mishaps = limit.mishaps
    /\ flights = [done |-> {}, reached |-> {}, landed |-> {}]

(***************************************************************************)
(* derive_availability: what the window allows, from the status s.         *)
(***************************************************************************)
CanTakeOff(c, s) == c.seq = NoSequence /\ ~s.armed /\ s.mode = "idle" /\ ~s.abnormal
CanLand(s) == s.armed
CanHover(s) == s.armed /\ s.mode \in {"hover", "waypoint"}
CanSendWaypoints(c, s) == CanHover(s) /\ c.staged /\ ~c.running /\ ~s.abnormal
CanEdit(c) == ~c.running

(***************************************************************************)
(* The sequence.                                                           *)
(***************************************************************************)
\* The ticket that _enqueue gives next.
NextTicket(c) == Len(c.orders) + 1

Enqueue(c, name, command) ==
    [c EXCEPT !.queue = Append(@, NextTicket(c)),
              !.orders = Append(@, [name |-> name, command |-> command])]

NewSequence(kind, phase, command) ==
    [NoSequence EXCEPT !.kind = kind, !.phase = phase, !.command = command]

EndSequence(c) == ReleaseStandby([c EXCEPT !.seq = NoSequence])

(* _observe_upstream_sequence_result: the final result of the phase's own  *)
(* ticket moves the sequence on.                                           *)
PhaseDone(c, r) == r.final /\ c.seq # NoSequence /\ r.ticket = c.seq.ticket

\* Mutant: a phase that failed is over like one that succeeded.
OnlyCleared(c, r) == PhaseDone(c, r) /\ c.seq.phase = "clear_abnormal"
SequenceOver(c, r) == PhaseDone(c, r) /\ (~r.ok \/ c.seq.phase = "clear_abnormal")

SequenceResult(c, r) ==
    LET on(phase) == [c EXCEPT !.seq.phase = phase, !.seq.ticket = NoTicket,
                               !.seq.via = r.ticket,
                               !.seq.delay = phase = "standby" /\ c.seq.kind = "inspection"]
    IN  CASE ~PhaseDone(c, r) -> c
          [] SequenceOver(c, r) -> EndSequence(c)
          [] OTHER -> on(CASE c.seq.phase = "takeoff" -> "waypoints_pending"
                           [] c.seq.phase = "waypoints" -> "land_pending"
                           [] OTHER -> "standby")

(* _consume_results: the projector, the sequence and the waypoint panel    *)
(* see every new result in turn.                                           *)
Consumed(c, r) ==
    LET seen == SequenceResult(ObserveResult(c, r), r)
        own == c.active \in {NoTicket, r.ticket}
    IN  IF r.name = "waypoints" /\ own /\ r.final
        THEN [seen EXCEPT !.running = FALSE, !.active = NoTicket] ELSE seen

Consume(c) == FoldLeft(Consumed, [c EXCEPT !.results = <<>>], c.results)

(* What follows when the dialog of f has ended and yes says how: the       *)
(* request is queued first, and the handler goes on only if its sequence   *)
(* is still the one it worked for.                                         *)
Same(c, f) == c.seq # NoSequence /\ c.seq.command = f.command

Continue(c, f, yes) ==
    LET name == CASE f.for \in {"takeoff", "first"} -> "takeoff"
                  [] f.for = "waypoints" -> "waypoints"
                  [] OTHER -> "land"
        ticket == NextTicket(c)
        queued == CASE ~yes -> c
                    [] yes /\ name = "waypoints" ->
                           [Enqueue(c, name, f.command) EXCEPT !.running = TRUE,
                                                               !.active = ticket]
                    [] OTHER -> Enqueue(c, name, f.command)
        bound == [queued EXCEPT !.seq.ticket = ticket,
                                !.seq.phase = IF f.for = "first" THEN "takeoff" ELSE name]
    IN  CASE f.for = "takeoff" -> queued
          [] f.for = "landing" /\ ~yes -> c
          [] f.for = "landing" /\ yes /\ limit.script[f.command] = "06" ->
                 EndSequence(BeginLanding(queued, ticket))
          [] f.for = "landing" /\ yes /\ limit.script[f.command] # "06" ->
                 [BlockStandby(BeginLanding(queued, ticket)) EXCEPT
                     !.seq = [NewSequence("emergency", "land", f.command) EXCEPT
                                 !.ticket = ticket]]
          [] f.for \in {"first", "waypoints", "land"} /\ ~Same(c, f) -> queued
          [] f.for \in {"first", "waypoints", "land"} /\ Same(c, f) /\ ~yes -> EndSequence(c)
          [] f.for = "first" /\ Same(c, f) /\ yes -> bound
          [] f.for = "waypoints" /\ Same(c, f) /\ yes ->
                 IF c.seq.kind = "inspection"
                 THEN BeginMission(bound, ticket, "inspection", limit.points)
                 ELSE BeginMission(bound, ticket, "return", 1)
          [] f.for = "land" /\ Same(c, f) /\ yes -> BeginLanding(bound, ticket)

(* _confirm_action: at once in simulation, otherwise a countdown. *)
Ask(c, for, command) ==
    LET f == [for |-> for, command |-> command, answer |-> "open", seen |-> snap]
    IN  IF Simulated THEN Continue(c, f, TRUE) ELSE [c EXCEPT !.frames = Append(@, f)]

Countdown(c) == c.frames # <<>> /\ Last(c.frames).answer = "open"

(* _drive_upstream_sequence *)
SubmitWaypoints(c) ==
    Ask([c EXCEPT !.seq.phase = "waypoints_submitting"], "waypoints", c.seq.command)

DriveStandby(c, s) ==
    CASE s.armed \/ c.seq.delay -> c
      [] OTHER ->
           CASE c.seq.kind = "inspection" -> EndSequence(c)
             [] c.seq.kind # "inspection" /\ ~limit.home /\ ~Simulated -> c
             [] c.seq.kind = "abnormal" /\ s.abnormal /\ (limit.home \/ Simulated) ->
                    [Enqueue(c, "clear_abnormal", NoCommand) EXCEPT
                        !.seq.phase = "clear_abnormal", !.seq.ticket = NextTicket(c)]
             [] OTHER -> EndSequence(c)

MayDrive(c) == c.seq # NoSequence /\ ~Countdown(c)

Drive(c, s) ==
    CASE ~MayDrive(c) -> c
      [] MayDrive(c) /\ c.seq.phase = "waypoints_pending" ->
             IF IF c.seq.kind = "inspection" THEN CanSendWaypoints(c, s) ELSE CanHover(s)
             THEN SubmitWaypoints(c) ELSE c
      [] MayDrive(c) /\ c.seq.phase = "land_pending" ->
             IF CanLand(s)
             THEN Ask([c EXCEPT !.seq.phase = "land_submitting"], "land", c.seq.command)
             ELSE [c EXCEPT !.seq.phase = "standby"]
      [] MayDrive(c) /\ c.seq.phase = "standby" -> DriveStandby(c, s)
      [] OTHER -> c

(* _handle_vehicle_abnormal: in simulation, and only with a connection, an *)
(* abnormal vehicle is brought home.                                       *)
ReturnAbnormal(c, s) ==
    IF c.seq.kind \in {"abnormal", "emergency"} \/ ~CanHover(s) THEN c
    ELSE [SubmitWaypoints([BlockStandby(c) EXCEPT
                              !.seq = NewSequence("abnormal", "waypoints_pending", NoCommand)])
             EXCEPT !.latched = TRUE, !.staged = TRUE]

VehicleAbnormal(c, s) ==
    CASE ~s.abnormal -> [c EXCEPT !.latched = FALSE]
      [] s.abnormal /\ (~connected \/ ~Simulated) -> c
      [] OTHER ->
           CASE c.seq.kind \in {"return", "emergency"} ->
                    [c EXCEPT !.seq.kind = "abnormal", !.latched = TRUE]
             [] c.seq.kind \notin {"return", "emergency"} /\ c.latched -> c
             [] OTHER ->
                  CASE s.armed -> ReturnAbnormal(c, s)
                    [] ~s.armed /\ ~limit.home -> c
                    [] OTHER -> [BlockStandby(c) EXCEPT
                                    !.seq = NewSequence("abnormal", "standby", NoCommand),
                                    !.latched = TRUE]

\* A dialog that opens takes the rest of the handler with it.
Opened(before, after) == Len(after.frames) > Len(before.frames)

(* _refresh, ten times a second and in most handlers; the projector is     *)
(* told the status s that the refresh began with.                          *)
Observed(c, s, telemetry, takeoff) ==
    ObserveVehicle(VehicleAbnormal(c, s), s, telemetry, takeoff)

Ended(fed, driven, telemetry) ==
    IF Opened(fed, driven) THEN driven
    ELSE Observed(driven, snap, telemetry, CanTakeOff(fed, snap))

RefreshTelling(c, telemetry) ==
    LET fed == Consume(c)
    IN  Ended(fed, Drive(fed, snap), telemetry)

Refreshed(c) == RefreshTelling(c, FALSE)

(***************************************************************************)
(* Commands.                                                               *)
(***************************************************************************)
Begins(c, judged) == c.staged /\ c.seq = NoSequence /\ CanTakeOff(judged, snap)

\* The part of _handle_upstream_command that follows its refresh; the availability
\* was judged by the refresh, before it drove the sequence.
Act(c, judged, i) ==
    LET cmd == limit.script[i]
    IN  CASE cmd = "01" -> IF CanTakeOff(judged, snap) THEN Ask(c, "takeoff", i) ELSE c
          [] cmd = "02" -> IF CanEdit(judged)
                           THEN Woke(BlockStandby([c EXCEPT !.staged = TRUE])) ELSE c
          [] cmd = "03" -> IF Begins(c, judged)
                           THEN Ask(BlockStandby([c EXCEPT !.seq =
                                        NewSequence("inspection", "takeoff", i)]), "first", i)
                           ELSE c
          [] OTHER -> IF CanLand(snap) THEN Ask(c, "landing", i) ELSE c

\* A command that does nothing is not followed by a refresh.
Done(before, after) ==
    IF after = before \/ Opened(before, after) THEN after ELSE Refreshed(after)

\* Mutant: the dialog is left open.
LeftOpen(c) == c

(* A landing rejects the dialog that is open. *)
Preempted(c) ==
    IF Countdown(c) THEN [c EXCEPT !.frames[Len(c.frames)].answer = "rejected"] ELSE c

\* Under a countdown the window hears no command but a landing.
Deaf(c, i) == Countdown(c) /\ limit.script[i] \notin LandCommands

\* The refresh that precedes a command may open a dialog above it.
Heard(c, i, ready) ==
    LET parked == [for |-> "command", command |-> i, answer |-> "rejected", seen |-> snap]
    IN  IF Opened(c, ready)
        THEN [ready EXCEPT !.frames = InsertAt(@, Len(@), parked), !.parked = @ \cup {i}]
        ELSE Done(ready, Act(ready, Consume(Preempted(c)), i))

Handle(c, i) == IF Deaf(c, i) THEN c ELSE Heard(c, i, Refreshed(Preempted(c)))

\* What has been queued for its own sequence, or for none, is followed by a refresh.
Submitted(c, f, yes) == yes /\ (f.for \in {"first", "waypoints", "land"} => Same(c, f))

\* A dialog of the sequence's own phases was opened by a refresh, which now ends, with the
\* status it had taken before.
Concluded(c, f, done) ==
    IF f.for \in {"takeoff", "first", "landing"} THEN done
    ELSE Observed(done, f.seen, FALSE, CanTakeOff(c, snap))
Completed(c, f, yes, acted) ==
    Concluded(c, f, IF Submitted(c, f, yes) THEN Refreshed(acted) ELSE acted)

\* The innermost handler goes on.
Resumed(c, yes) ==
    LET f == Last(c.frames)
        popped == [c EXCEPT !.frames = Front(@)]
    IN  IF f.for = "command" THEN Done(popped, Act(popped, popped, f.command))
        ELSE Completed(popped, f, yes, Continue(popped, f, yes))

(***************************************************************************)
(* Steps of the ground station.                                            *)
(***************************************************************************)
SetGcs(c) ==
    /\ Len(c.orders) <= MaxTickets
    /\ gcs' = [c EXCEPT !.out = <<>>, !.woken = FALSE]
    /\ Publish(c.out, c.woken)

Mishap(kind) == mishaps > 0 /\ kind \in limit.faults /\ mishaps' = mishaps - 1

ReaderVars == <<limit, operatorVars, wake, session, connected, outbound, writer, upsets, sent>>
Elsewhere == <<ReaderVars, snap, veh, calls, lost, flights>>

Refresh(telemetry) ==
    /\ telemetry => limit.telemetry /\ connected
    /\ SetGcs(RefreshTelling(gcs, telemetry))
    /\ UNCHANGED <<Elsewhere, media, received, mishaps>>

(* The slot of the signal the reader sent. *)
HandleCommand ==
    /\ gcs.handled < received
    /\ SetGcs(Handle([gcs EXCEPT !.handled = @ + 1], gcs.handled + 1))
    /\ UNCHANGED <<Elsewhere, media, received, mishaps>>

(* The innermost dialog has been rejected, its time is up, or the operator *)
(* cancels it.                                                             *)
DialogEnds ==
    /\ gcs.frames # <<>>
    /\ \E yes \in BOOLEAN :
           /\ \/ ~yes /\ Last(gcs.frames).answer = "rejected" /\ UNCHANGED mishaps
              \/ yes /\ Last(gcs.frames).answer = "open" /\ UNCHANGED mishaps
              \/ ~yes /\ Last(gcs.frames).answer = "open" /\ Mishap("cancel")
           /\ SetGcs(Resumed(gcs, yes))
    /\ UNCHANGED <<Elsewhere, media, received>>

(* The delay of the inspection's standby is over. *)
StandbyDelayOver ==
    /\ gcs.seq.delay
    /\ gcs' = [gcs EXCEPT !.seq.delay = FALSE]
    /\ UNCHANGED <<linkVars, media, received, snap, veh, calls, lost, mishaps, flights>>

(* The operator's own LAND, by the button or its key; a landing of the     *)
(* sequence is bound to the new ticket.                                    *)
OperatorLand ==
    /\ Mishap("operator") /\ gcs.frames = <<>> /\ CanLand(snap)
    /\ LET ticket == NextTicket(gcs)
           queued == Enqueue(gcs, "land", NoCommand)
       IN  SetGcs(Refreshed(IF gcs.seq.phase = "land"
                            THEN BeginLanding([queued EXCEPT !.seq.ticket = ticket], ticket)
                            ELSE queued))
    /\ UNCHANGED <<Elsewhere, media, received>>

(* The reader acknowledges a command of its session and passes it on. *)
ReceiveCommand ==
    /\ session.phase = "up" /\ received < Len(limit.script)
    /\ received' = received + 1
    /\ outbound' = Queued(outbound)
    /\ UNCHANGED <<limit, operatorVars, wake, session, connected, call, writer, upsets,
                   eventVars, media, gcs, snap, veh, calls, lost, mishaps, flights>>

StatusArrives ==
    /\ snap # StatusNow /\ snap' = StatusNow
    /\ UNCHANGED <<linkVars, media, received, gcs, veh, calls, lost, mishaps, flights>>

(***************************************************************************)
(* Requests and results.                                                   *)
(***************************************************************************)
OrderOf(t) == gcs.orders[t]
Final(t, ok) == [ticket |-> t, name |-> OrderOf(t).name, ok |-> ok, final |-> TRUE]
Tell(results) == gcs' = [gcs EXCEPT !.results = @ \o results]

(* _process_one_command: sent, or refused here (no service, no control). *)
SendRequest ==
    /\ gcs.queue # <<>>
    /\ LET t == Head(gcs.queue)
           popped == [gcs EXCEPT !.queue = Tail(@)]
       IN  \/ /\ gcs' = popped /\ calls' = calls \cup {t} /\ UNCHANGED mishaps
           \/ /\ Mishap("refuse") /\ UNCHANGED calls
              /\ gcs' = [popped EXCEPT !.results = Append(@, Final(t, FALSE))]
    /\ UNCHANGED <<linkVars, media, received, snap, veh, lost, flights>>

(* _poll_pending_services: no answer in time, though the vehicle may have  *)
(* accepted the request; an expired request is never accepted later.       *)
RequestTimesOut ==
    \/ \E t \in calls :
           /\ Mishap("lose") /\ calls' = calls \ {t} /\ Tell(<<Final(t, FALSE)>>)
           /\ UNCHANGED <<linkVars, media, received, snap, veh, lost, flights>>
    \/ \E t \in lost :
           /\ lost' = lost \ {t} /\ Tell(<<Final(t, FALSE)>>)
           /\ UNCHANGED <<linkVars, media, received, snap, veh, calls, mishaps, flights>>

(***************************************************************************)
(* The vehicle.                                                            *)
(***************************************************************************)
Accepts(t) ==
    /\ t > veh.last
    /\ CASE OrderOf(t).name = "takeoff" -> TRUE
         [] OrderOf(t).name = "waypoints" -> veh.armed /\ veh.guided
         [] OrderOf(t).name = "land" -> veh.armed
         [] OTHER -> ~veh.armed

\* cancel_active_task publishes the end of what flies, and of nothing else.
Cancelled == IF veh.task \in {"takeoff", "waypoints"} THEN <<Final(veh.ticket, FALSE)>> ELSE <<>>

TaskStarted(t) ==
    CASE OrderOf(t).name = "clear_abnormal" -> [veh EXCEPT !.abnormal = FALSE, !.last = t]
      [] OrderOf(t).name # "clear_abnormal" ->
             [veh EXCEPT !.task = OrderOf(t).name, !.ticket = t, !.last = t,
                         !.point = IF OrderOf(t).name = "waypoints" THEN 1 ELSE 0]

Announced(t) ==
    CASE OrderOf(t).name = "clear_abnormal" -> <<Final(t, TRUE)>>
      [] OrderOf(t).name # "clear_abnormal" ->
             Cancelled \o <<[Final(t, TRUE) EXCEPT !.final = FALSE]>>

\* The waypoints have a service of their own; one service keeps its requests in order.
SameService(t, u) == (OrderOf(t).name = "waypoints") = (OrderOf(u).name = "waypoints")

(* on_flight_command and on_execute_waypoints; a sequence number that is   *)
(* not refused is used up even if the order is.                            *)
VehicleAnswers(t) ==
    /\ \A u \in calls : SameService(t, u) => t <= u
    /\ calls' = calls \ {t}
    /\ IF Accepts(t)
       THEN /\ veh' = TaskStarted(t)
            /\ Tell(Announced(t))
            /\ \/ UNCHANGED <<lost, mishaps>>
               \/ Mishap("lose") /\ lost' = lost \cup {t}
       ELSE /\ veh' = [veh EXCEPT !.last = Max({@, t})]
            /\ Tell(<<Final(t, FALSE)>>)
            /\ UNCHANGED <<lost, mishaps>>
    /\ UNCHANGED <<linkVars, media, received, snap, flights>>

VehicleKeeps == <<linkVars, media, received, snap, calls, lost>>

Arms ==
    /\ veh.task = "takeoff" /\ ~veh.armed
    /\ veh' = [veh EXCEPT !.armed = TRUE]
    /\ UNCHANGED <<VehicleKeeps, gcs, mishaps, flights>>

\* The size of the mission that flies.
Size == IF OrderOf(veh.ticket).command = NoCommand THEN 1 ELSE limit.points

(* A height or a waypoint is reached; the last one ends the task in hover. *)
Reaches ==
    /\ veh.armed /\ veh.task \in {"takeoff", "waypoints"}
    /\ LET last == veh.task = "takeoff" \/ veh.point = Size
       IN  /\ veh' = IF last THEN [veh EXCEPT !.task = "none"] ELSE [veh EXCEPT !.point = @ + 1]
           /\ Tell(IF last THEN <<Final(veh.ticket, TRUE)>> ELSE <<>>)
           /\ flights' = [flights EXCEPT
                  !.done = IF last THEN @ \cup {veh.ticket} ELSE @,
                  !.reached = IF veh.task = "waypoints" THEN @ \cup {<<veh.ticket, veh.point>>}
                                                        ELSE @]
    /\ UNCHANGED <<VehicleKeeps, mishaps>>

(* The FCU confirms LAND. *)
EntersLand ==
    /\ veh.task = "land" /\ veh.guided
    /\ veh' = [veh EXCEPT !.guided = FALSE]
    /\ UNCHANGED <<VehicleKeeps, gcs, mishaps, flights>>

Disarmed == [veh EXCEPT !.armed = FALSE, !.task = "none", !.guided = TRUE]

(* Disarming ends a landing well. *)
Lands ==
    /\ veh.task = "land" /\ ~veh.guided
    /\ veh' = Disarmed
    /\ Tell(<<Final(veh.ticket, TRUE)>>)
    /\ flights' = [flights EXCEPT !.done = @ \cup {veh.ticket},
                                  !.landed = {t \in flights.done :
                                                  OrderOf(t).name = "waypoints"}]
    /\ UNCHANGED <<VehicleKeeps, mishaps>>

(* fail_active_task *)
TaskFails ==
    /\ Mishap("fail") /\ veh.task # "none" /\ veh.guided
    /\ veh' = [veh EXCEPT !.task = "none"]
    /\ Tell(<<Final(veh.ticket, FALSE)>>)
    /\ UNCHANGED <<VehicleKeeps, flights>>

(* A disarming by the pilot, or a lost FCU link that looks like one, ends  *)
(* any other task without a result.                                        *)
DisarmedInFlight ==
    /\ Mishap("disarm") /\ veh.armed /\ veh.task # "land"
    /\ veh' = Disarmed
    /\ UNCHANGED <<VehicleKeeps, gcs, flights>>

(* A waypoint is missed too often: marked, and held. *)
BecomesAbnormal ==
    /\ Mishap("abnormal") /\ veh.task = "waypoints" /\ ~veh.abnormal
    /\ veh' = [veh EXCEPT !.abnormal = TRUE]
    /\ UNCHANGED <<VehicleKeeps, gcs, flights>>

(***************************************************************************)
(* The media centre, for real flights.                                     *)
(***************************************************************************)
MediaKeeps == <<Elsewhere, received, mishaps>>

(* The capture of a point is reported; one that failed leaves no file. *)
Captured(t, i, ok) ==
    /\ ~Simulated /\ limit.files # {}
    /\ <<t, i>> \in flights.reached /\ i \notin media[t].caught /\ i \notin limit.plain
    /\ media' = [media EXCEPT ![t].caught = @ \cup {i},
                              ![t].photo[i] = IF ok THEN @ ELSE "failed"]
    /\ UNCHANGED MediaKeeps

CaptureReported(t, i, ok) ==
    /\ Captured(t, i, ok)
    /\ SetGcs(ObserveCapture(gcs, t, i))

(* The catalogue changes, or the delivery of a landed mission is overdue,  *)
(* and the reader hands the catalogue over.                                *)
FileSettles(t) ==
    \/ \E i \in media[t].caught, file \in {"ready", "failed"} :
           /\ "photo" \in limit.files /\ media[t].photo[i] = "pending"
           /\ media' = [media EXCEPT ![t].photo[i] = file]
    \/ \E file \in {"ready", "failed"} :
           /\ "video" \in limit.files /\ t \in flights.landed /\ media[t].video = "pending"
           /\ media' = [media EXCEPT ![t].video = file]
    \/ /\ "late" \in limit.files /\ t \in flights.landed /\ ~media[t].late
       /\ media' = [media EXCEPT ![t].late = TRUE]

MediaSettles(t) ==
    /\ ~Simulated /\ limit.files # {}
    /\ FileSettles(t)
    /\ UNCHANGED <<Elsewhere, received, gcs, mishaps, pending, accepted, call>>

CatalogueRead ==
    /\ ~Simulated /\ limit.files # {}
    /\ SetGcs(ObserveMedia(gcs))
    /\ UNCHANGED <<MediaKeeps, media>>

(***************************************************************************)
LinkStep ==
    /\ OperatorStep \/ SupervisorStep \/ SessionFails \/ WriterStep
    /\ UNCHANGED <<media, missionVars>>

Connected ==
    /\ HandshakeDone
    /\ gcs' = ConnectionRestored(gcs)
    /\ UNCHANGED <<media, received, snap, veh, calls, lost, mishaps, flights>>

MediaStep == \/ \E p \in flights.reached, ok \in BOOLEAN : CaptureReported(p[1], p[2], ok)
             \/ \E p \in flights.reached : MediaSettles(p[1])
             \/ CatalogueRead
WindowStep == \/ \E telemetry \in BOOLEAN : Refresh(telemetry)
              \/ HandleCommand \/ DialogEnds \/ StandbyDelayOver
RosStep == SendRequest \/ RequestTimesOut \/ StatusArrives
VehicleStep == \/ \E t \in calls : VehicleAnswers(t)
               \/ Arms \/ Reaches \/ EntersLand \/ Lands
FaultStep == TaskFails \/ DisarmedInFlight \/ BecomesAbnormal \/ OperatorLand

Next == \/ LinkStep \/ Connected \/ ReceiveCommand
        \/ WindowStep \/ RosStep \/ VehicleStep \/ FaultStep \/ MediaStep

\* The asyncio loop runs the supervisor, the callbacks and the writer when they are ready.
Supervisor == \/ /\ StartSession \/ Woken
                 /\ UNCHANGED <<media, missionVars>>
              \/ Connected
Fairness == /\ WF_vars(Supervisor)
            /\ WF_vars(RunCall /\ UNCHANGED <<media, missionVars>>)
            /\ WF_vars(WriterStep /\ UNCHANGED <<media, missionVars>>)

Spec == Init /\ [][Next]_vars /\ Fairness

(***************************************************************************)
(* Properties.                                                             *)
(***************************************************************************)
(* For every address, the events accepted for it are those sent and those  *)
(* still kept, in their order, whatever sessions broke or addresses were   *)
(* entered: a retained event is neither lost nor overtaken, and one whose  *)
(* sending completed is not sent again.                                    *)
RetainedKept ==
    \A a \in Address : Sent(a, accepted) = Sent(a, sent) \o Sent(a, pending)

(* 08 says that a mission is complete: it is said at most once, and only   *)
(* of a mission whose last waypoint the vehicle reached and after which it *)
(* landed under LAND, and of the missions in the order they were flown,    *)
(* whichever tickets were superseded, refused or timed out on the way and  *)
(* whichever videos came first.                                            *)
CompletionTruthful ==
    \A i \in DOMAIN accepted : accepted[i].status = "08" =>
        /\ accepted[i].mission \in flights.landed
        /\ \A j \in 1..(i - 1) :
               accepted[j].status = "08" => accepted[j].mission < accepted[i].mission

(* The photos of a mission (09) are reported in the order of its points,   *)
(* each once, only of points the vehicle has reached, and on a real flight *)
(* only when there is a file to fetch, in whatever order captures, files   *)
(* and status messages arrive.                                             *)
PointsInOrder ==
    \A i \in DOMAIN accepted : accepted[i].status = "09" =>
        LET e == accepted[i]
        IN  /\ <<e.mission, e.point>> \in flights.reached /\ e.point \notin limit.plain
            /\ Simulated \/ media[e.mission].photo[e.point] = "ready"
            /\ \A j \in 1..(i - 1) :
                   accepted[j].status = "09" /\ accepted[j].mission = e.mission =>
                       accepted[j].point < e.point

Upstream(i) == gcs.orders[i].command # NoCommand

(* Once the LAND of an upstream command has been queued, no take-off and   *)
(* no waypoints of the same or of an earlier command are queued after it,  *)
(* whichever dialogs were open and handlers waiting when it came.  Only a  *)
(* command that had itself to wait for a countdown may still act, when the *)
(* window then allows it (a take-off of a vehicle that disarmed meanwhile).*)
LandPreempts ==
    \A i, j \in DOMAIN gcs.orders :
        /\ i < j /\ Upstream(i) /\ Upstream(j)
        /\ gcs.orders[i].name = "land" /\ gcs.orders[j].name # "land"
        => \/ gcs.orders[j].command > gcs.orders[i].command
           \/ gcs.orders[j].command \in gcs.parked

(* The stages of an inspection follow what the vehicle did: its waypoints  *)
(* are ordered only after its own take-off succeeded, its landing only     *)
(* after its own waypoints did; a result of another ticket, a cancelled or *)
(* a superseded one never moves it on.                                     *)
StagesInOrder ==
    \A i \in DOMAIN gcs.orders :
        LET o == gcs.orders[i]
            flown(name) == \E j \in flights.done : j < i /\ gcs.orders[j] =
                               [name |-> name, command |-> o.command]
        IN  Upstream(i) /\ limit.script[o.command] = "03" =>
                /\ o.name = "waypoints" => flown("takeoff")
                /\ o.name = "land" => flown("waypoints")

(* While a combined action is under way - its phases, its landing, the     *)
(* delay and the return to the hangar - standby is neither free to be      *)
(* reported nor counted as reported.                                       *)
StandbyWithheld == gcs.seq # NoSequence => gcs.blocked /\ ~gcs.standby

(* A kept event is sent, once the operator leaves its address entered and  *)
(* the network lets a session live: the writer is not left waiting on an   *)
(* empty queue beside a list that is not.                                  *)
ToSend == desired /\ Sent(address, pending) # <<>>
RetainedSent == ToSend ~> ~ToSend

(* A countdown that LAND preempts is waited for before an older phase goes *)
(* on: while a LAND command waits, no older operation counts down above    *)
(* it.                                                                     *)
LandComesFirst ==
    \A i, j \in DOMAIN gcs.frames :
        /\ i < j /\ gcs.frames[i].for = "command"
        /\ limit.script[gcs.frames[i].command] \in LandCommands
        => gcs.frames[j].for \notin {"takeoff", "first", "waypoints"}
=============================================================================
