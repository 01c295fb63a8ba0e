---------------------------- MODULE StatusProjector ----------------------------
(***************************************************************************)
(* The projector (upstream/status_projector.py): what the ground station   *)
(* tells the upstream system of a mission.  01 standby, 03 and 05 mission  *)
(* started, 07 landing, 08 mission delivered, 09 photo of a point.         *)
(*                                                                         *)
(* The operators take the record of the ground station and give the one    *)
(* after the call, as the projector's methods do under its lock.  They use *)
(* its fields mission, waiting, photos, landing, told, blocked and standby *)
(* and add to out the events that are retained; woken says that something  *)
(* was put into the link's queue.  07, 08 and 09 are always taken by the   *)
(* link, so that a landing never stays pending; the rest need a connection.*)
(* Battery and pose are telemetry of the module that composes this one.    *)
(*                                                                         *)
(* media is the catalogue of the ground media centre; with simulated media *)
(* a photo and a video are there as soon as they are asked for.            *)
(***************************************************************************)
EXTENDS UpstreamLink, FiniteSetsExt

CONSTANTS MaxTickets, MaxPoints

ASSUME ProjectorAssumption == MaxTickets \in Nat /\ MaxPoints \in Nat \ {0}

VARIABLE media  \* for every mission: its photos, its video, and whether its delivery is overdue

Ticket == 1..MaxTickets
Point == 1..MaxPoints
NoTicket == 0
File == {"pending", "ready", "failed"}
NoMedia == [photo |-> [i \in Point |-> "pending"], caught |-> {}, video |-> "pending",
            late |-> FALSE]
Media == [photo : [Point -> File], caught : SUBSET Point, video : File, late : BOOLEAN]

MissionKind == {"none", "inspection", "return"}
Mission == [ticket : Ticket \cup {NoTicket}, kind : MissionKind, size : 0..MaxPoints,
            no : {a.no : a \in Address}, started : BOOLEAN, reached : 0..MaxPoints,
            reported : 0..MaxPoints, flown : BOOLEAN, landed : BOOLEAN,
            result : {"none", "ready", "failed"}]
NoMission == [ticket |-> NoTicket, kind |-> "none", size |-> 0,
              no |-> (CHOOSE a \in Address : TRUE).no,
              started |-> FALSE, reached |-> 0, reported |-> 0, flown |-> FALSE,
              landed |-> FALSE, result |-> "none"]

Status == {"07", "08", "09"}
Event == [to : Address, status : Status, mission : Ticket, point : 0..MaxPoints]
EventOf(no, status, ticket, point) ==
    [to |-> [address EXCEPT !.no = no], status |-> status, mission |-> ticket, point |-> point]

Active(c) == c.mission.kind # "none"
Dropped(c) == [c EXCEPT !.mission = NoMission]

\* Mutant: standby that has been reported stays so.
OnlyBlock(c) == [c EXCEPT !.blocked = TRUE]
BlockStandby(c) == [c EXCEPT !.blocked = TRUE, !.standby = FALSE]
ReleaseStandby(c) == [c EXCEPT !.blocked = FALSE]
ConnectionRestored(c) == [c EXCEPT !.standby = FALSE]

(* _send for what needs the connection. *)
Woke(c) == [c EXCEPT !.woken = @ \/ connected]

BeginMission(c, ticket, kind, size) ==
    [c EXCEPT !.mission = [NoMission EXCEPT !.ticket = ticket, !.kind = kind, !.size = size,
                                             !.no = address.no]]

BeginLanding(c, ticket) == [c EXCEPT !.landing = ticket, !.told = FALSE]

(***************************************************************************)
(* Photos.                                                                 *)
(***************************************************************************)
Photo(m, i) ==
    CASE i \in limit.plain -> "none"
      [] i \notin limit.plain /\ limit.mode = "simulation" -> "ready"
      [] OTHER -> media[m.ticket].photo[i]

(* _report_points stops at the first point whose photo may still come;     *)
(* points that need none or whose photo has failed are passed over.        *)
Settled(m) ==
    Max({k \in m.reported..m.reached : \A i \in (m.reported + 1)..k : Photo(m, i) # "pending"})

DeliveryFailed(m) == m.result = "failed" \/ media[m.ticket].video = "failed"

PointsReported(m) ==
    IF DeliveryFailed(m) THEN m ELSE [m EXCEPT !.reported = Settled(m)]

PointEvents(m) ==
    LET new == [i \in 1..(PointsReported(m).reported - m.reported) |-> m.reported + i]
        ready == Within(new, {i \in Point : Photo(m, i) = "ready"})
    IN  [k \in DOMAIN ready |-> EventOf(m.no, "09", m.ticket, ready[k])]

\* Mutant: what has been reported is not remembered.
ReportAgain(c) == [c EXCEPT !.out = @ \o PointEvents(c.mission)]

ReportPoints(c) ==
    [c EXCEPT !.mission = PointsReported(@), !.out = @ \o PointEvents(c.mission)]

(***************************************************************************)
(* Delivery of the missions that have landed.                              *)
(***************************************************************************)
(* _prepare_completed_media freezes the outcome of a mission once. *)
Prepared(m) ==
    LET files == media[m.ticket]
        outcome == CASE limit.mode = "simulation" \/ files.video = "ready" -> "ready"
                     [] limit.mode # "simulation" /\ files.video = "failed" -> "failed"
                     [] OTHER -> IF files.late THEN "failed" ELSE "none"
    IN  IF m.result = "none" THEN [m EXCEPT !.result = outcome] ELSE m

(* _flush_completed_missions: in the order of the flights, and not past    *)
(* the first mission whose video may still come.                           *)
Flush(c) ==
    LET all == [i \in DOMAIN c.waiting |-> Prepared(c.waiting[i])]
        ready == Max({k \in 0..Len(all) : \A i \in 1..k : all[i].result # "none"})
        seen == 1..Min({ready + 1, Len(all)})
        after == [i \in DOMAIN all |-> IF i \in seen THEN PointsReported(all[i]) ELSE all[i]]
        events == [i \in seen |->
                      PointEvents(all[i]) \o
                      IF i <= ready THEN <<EventOf(all[i].no, "08", all[i].ticket, 0)>> ELSE <<>>]
        open == {m \in Range(after) : m.result = "ready" /\ m.reported < m.size}
    IN  [c EXCEPT !.waiting = SubSeq(after, ready + 1, Len(after)),
                  !.photos = @ \o Within(SubSeq(after, 1, ready), open),
                  !.out = @ \o FlattenSeq(events)]

(* _finish_completed_mission *)
Finish(c) ==
    Flush(IF c.mission.kind = "inspection" /\ c.mission.flown /\ c.mission.landed
          THEN [Dropped(c) EXCEPT !.waiting = Append(@, c.mission)] ELSE c)

(***************************************************************************)
(* What the projector observes.                                            *)
(***************************************************************************)
TellLanding(c) ==
    [c EXCEPT !.told = TRUE,
              !.out = Append(@, EventOf(address.no, "07", c.landing, 0))]

\* Mutant: a landing that failed is one all the same.
AnyLanding(c, r) == r.final /\ c.mission.kind = "inspection" /\ c.mission.flown
Landed(c, r) == r.final /\ r.ok /\ c.mission.kind = "inspection" /\ c.mission.flown

(* observe_result of the landing that upstream or a sequence asked for. *)
LandingResult(c, r) ==
    LET told == IF r.ok /\ ~c.told THEN TellLanding(c) ELSE c
    IN  Finish([told EXCEPT !.mission.landed = @ \/ Landed(c, r),
                            !.landing = IF r.final THEN NoTicket ELSE @])

WaypointResult(c, r) ==
    IF r.ok /\ c.mission.kind = "inspection"
    THEN ReportPoints([c EXCEPT !.mission.reached = c.mission.size, !.mission.flown = TRUE])
    ELSE Dropped(c)

ObserveResult(c, r) ==
    CASE r.name = "land" /\ r.ticket = c.landing -> LandingResult(c, r)
      [] /\ r.name = "waypoints" /\ r.final /\ Active(c)
         /\ r.ticket = c.mission.ticket -> WaypointResult(c, r)
      [] OTHER -> c

(* _observe_mission: the points behind the one the vehicle flies to. *)
Flying(m, s) == s.mode = "waypoint" /\ s.ticket = m.ticket

ObserveMission(c, s) ==
    LET started == IF Active(c) /\ Flying(c.mission, s) /\ ~c.mission.started
                   THEN [Woke(c) EXCEPT !.mission.started = connected] ELSE c
        passed == Min({s.point - 1, c.mission.size})
    IN  IF /\ started.mission.started /\ Flying(c.mission, s)
           /\ c.mission.kind = "inspection"
        THEN ReportPoints([started EXCEPT !.mission.reached = Max({@, passed})])
        ELSE started

(* observe_vehicle: mission, landing, delivery, telemetry and standby. *)
ObserveVehicle(c, s, telemetry, mayTakeOff) ==
    LET flying == ObserveMission(c, s)
        landing == IF c.landing # NoTicket /\ ~c.told /\ s.mode = "land"
                   THEN TellLanding(flying) ELSE flying
        done == Finish(landing)
        said == IF telemetry THEN Woke(done) ELSE done
        flew == IF s.armed \/ s.abnormal THEN [said EXCEPT !.standby = FALSE] ELSE said
    IN  IF /\ mayTakeOff /\ ~flew.blocked /\ ~flew.standby /\ connected
           /\ limit.mode = "simulation" \/ limit.home
        THEN [Woke(flew) EXCEPT !.standby = TRUE] ELSE flew

(* observe_video_capture: a photo taken proves that its point was reached. *)
ObserveCapture(c, ticket, i) ==
    LET of(m) == m.kind = "inspection" /\ m.ticket = ticket
        reached(m) == IF of(m) THEN [m EXCEPT !.reached = Max({@, i})] ELSE m
        all(ms) == [k \in DOMAIN ms |-> reached(ms[k])]
        mine(ms) == Within(all(ms), {m \in Range(all(ms)) : of(m)})
        later == IF of(c.mission) THEN <<>> ELSE mine(c.waiting) \o mine(c.photos)
        report(m) == IF of(m) THEN PointsReported(m) ELSE m
        now == [c EXCEPT !.mission = reached(@), !.waiting = all(@), !.photos = all(@)]
    IN  Finish(IF of(c.mission) THEN ReportPoints(now)
               ELSE [now EXCEPT !.waiting = [k \in DOMAIN @ |-> report(@[k])],
                                !.photos = [k \in DOMAIN @ |-> report(@[k])],
                                !.out = @ \o FlattenSeq([k \in DOMAIN later |->
                                                            PointEvents(later[k])])])

(* observe_ground_media: the mission that flies, the photos that are still *)
(* to come, the missions that have landed.                                 *)
ObserveMedia(c) ==
    LET flying == IF Active(c) THEN ReportPoints(c) ELSE c
        events == [k \in DOMAIN c.photos |-> PointEvents(c.photos[k])]
        after == [k \in DOMAIN c.photos |-> PointsReported(c.photos[k])]
    IN  Flush([flying EXCEPT !.photos = Within(after, {m \in Range(after) : m.reported < m.size}),
                             !.out = @ \o FlattenSeq(events)])
=============================================================================
