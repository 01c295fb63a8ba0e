-------------------------- MODULE OnboardGuardProofs --------------------------
(***************************************************************************)
(* Further proofs about OnboardControl: the configuration lock, the        *)
(* failsafe request, the order of the mode requests, and what a step may   *)
(* never do.  They stand on Inv, the invariant of OnboardControlProofs,    *)
(* and on a second one, Guarded, about the fields that Inv leaves out.     *)
(* The layout is the same: one lemma per procedure, one per action.        *)
(***************************************************************************)
EXTENDS OnboardControlProofs

(* The second inductive invariant.                                         *)
(* LandLast    the newest mode request of an active LAND is a LAND         *)
(* Locked      a task flies what is locked, and a lock on the ground is    *)
(*             that of a task that has not failed                          *)
(* Masked      the controller is engaged under a failsafe request only in  *)
(*             the hold after lost localization                            *)
(* BusyLinked  no task flies through a link loss                           *)
LandLast(f) ==
    f.task = "land" /\ f.modeQueue # <<>> => f.modeQueue[Len(f.modeQueue)].kind = "land"
Locked(f) ==
    /\ f.task \in Busy => f.lock # NoConfig
    /\ f.task = "waypoint" => f.config = f.lock
    /\ f.lock # NoConfig /\ ~obs.armed => f.engaged
Masked(f)     == f.engaged /\ f.failsafe => f.navHold # "off" /\ f.mode = "hold"
BusyLinked(f) == f.task \in Busy => f.link = "off"

Core(f) == LandLast(f) /\ Locked(f) /\ Masked(f) /\ BusyLinked(f)

\* While a link loss is counted, the controller holds (or lands).
LinkHeld(f) == f.link # "off" /\ f.engaged => f.mode \in {"hold", "land"}

Guarded(f) == Core(f) /\ LinkHeld(f)

\* The lock that is taken in flight stays.
LockKept(f, g) == obs.armed => g.lock = f.lock

\* What the small procedures leave alone, beside the fields of Like.
Aside(f, g) ==
    /\ g.lock = f.lock /\ g.link = f.link /\ g.config = f.config /\ g.attitude = f.attitude

-----------------------------------------------------------------------------
(* The small procedures, the fields that matter here.                      *)

LEMMA EndedAside ==
    ASSUME NEW f \in Flight
    PROVE  LET g == Ended(f) IN
           g.lock = f.lock /\ g.link = f.link /\ g.attitude = f.attitude
BY DEF Ended, Flight

LEMMA PublishAside ==
    ASSUME NEW f \in Flight, NEW status
    PROVE  Aside(f, Publish(f, status))
BY DEF Publish, Flight, Aside

\* The lock outlives a task in flight, and in flight only.
LEMMA UnlockedAside ==
    ASSUME NEW f \in Flight
    PROVE  LET g == Unlocked(f) IN
           /\ g.lock = (IF obs.armed THEN f.lock ELSE NoConfig)
           /\ g.link = f.link /\ g.attitude = f.attitude
BY DEF Unlocked, Flight

LEMMA CancelAside ==
    ASSUME NEW f \in Flight
    PROVE  LET g == CancelTask(f) IN
           /\ g.lock = (IF obs.armed THEN f.lock ELSE NoConfig)
           /\ g.link = f.link /\ g.attitude = f.attitude
<1> DEFINE p == IF f.task \in {"takeoff", "waypoint"} THEN Publish(f, "CANCELLED") ELSE f
<1>1. p \in Flight /\ p.lock = f.lock /\ p.link = f.link /\ p.attitude = f.attitude
      BY PublishFacts, PublishAside, Members DEF Aside
<1> HIDE DEF p
<1>2. CancelTask(f) = Unlocked(Ended(p))
      BY DEF CancelTask, p
<1> QED BY <1>1, <1>2, EndedFacts, EndedAside, UnlockedAside

LEMMA FailedAside ==
    ASSUME NEW f \in Flight, f.task # "none", NEW status \in Terminal
    PROVE  LET g == Unlocked(Ended(Publish(f, status))) IN
           /\ g.lock = (IF obs.armed THEN f.lock ELSE NoConfig)
           /\ g.link = f.link /\ g.attitude = f.attitude
<1> DEFINE p == Publish(f, status)
<1>1. p \in Flight /\ p.lock = f.lock /\ p.link = f.link /\ p.attitude = f.attitude
      BY PublishFacts, PublishAside DEF Aside
<1> HIDE DEF p
<1> QED BY <1>1, EndedFacts, EndedAside, UnlockedAside DEF p

LEMMA ClearFailsafeAside ==
    ASSUME NEW f \in Flight
    PROVE  LET g == ClearFailsafe(f) IN
           g.lock = f.lock /\ g.link = "off" /\ g.attitude = f.attitude
BY DEF ClearFailsafe, Flight

LEMMA StepAside ==
    ASSUME NEW f \in Flight
    PROVE  LET g == Step(f) IN
           g.lock = f.lock /\ g.link = f.link /\ g.config = f.config /\ ~g.attitude /\ ~g.accepted
BY DEF Step, Flight

LEMMA HoverAside ==
    ASSUME NEW f \in Flight, NEW m
    PROVE  Aside(f, Hover(f, m))
BY DEF Hover, Flight, Aside

LEMMA IdleAside ==
    ASSUME NEW f \in Flight
    PROVE  Aside(f, [f EXCEPT !.mode = "idle", !.engaged = FALSE])
BY DEF Flight, Aside

LEMMA SupersededAside ==
    ASSUME NEW f \in Flight
    PROVE  LET g == Superseded(f) IN
           /\ Aside(f, g)
           /\ Len(g.modeQueue) = Len(f.modeQueue)
           /\ (g.modeQueue = <<>>) <=> (f.modeQueue = <<>>)
           /\ \A i \in 1..Len(f.modeQueue) : g.modeQueue[i].kind = f.modeQueue[i].kind
<1> DEFINE q == [i \in DOMAIN f.modeQueue |-> Stale(f.modeQueue[i])]
           rs == {Stale(r) : r \in f.replies}
<1>1. /\ f.modeQueue \in Seq(ModeCall) /\ DOMAIN f.modeQueue = 1..Len(f.modeQueue)
      /\ Len(f.modeQueue) \in Nat
      /\ \A i \in 1..Len(f.modeQueue) : f.modeQueue[i] \in ModeCall
      BY DEF Flight
<1>2. \A i \in 1..Len(f.modeQueue) : q[i].kind = f.modeQueue[i].kind
      BY <1>1, StaleType
<1>3. q \in Seq(ModeCall) /\ DOMAIN q = DOMAIN f.modeQueue
      BY <1>1, StaleType
<1>4. Superseded(f) = [f EXCEPT !.modeQueue = q, !.replies = rs]
      BY DEF Superseded
<1> HIDE DEF q, rs
<1>5. Superseded(f).modeQueue = q /\ Aside(f, Superseded(f))
      BY <1>4 DEF Flight, Aside
<1>6. Len(q) = Len(f.modeQueue) /\ ((q = <<>>) <=> (f.modeQueue = <<>>))
      BY <1>1, <1>3
<1> QED BY <1>2, <1>5, <1>6

-----------------------------------------------------------------------------
(* Guarded states.                                                         *)

\* A disengaged state without a task: only a lock on the ground could be wrong.
LEMMA DisengagedGuarded ==
    ASSUME NEW f, f.task \notin Busy, ~f.engaged, f.lock # NoConfig => obs.armed,
           LandLast(f)
    PROVE  Guarded(f)
BY DEF Guarded, Core, Locked, Masked, BusyLinked, LinkHeld, Busy

LEMMA TasklessGuarded ==
    ASSUME NEW f, f.task = "none", (f.lock # NoConfig /\ ~obs.armed) => f.engaged,
           Masked(f), LinkHeld(f)
    PROVE  Guarded(f)
BY DEF Guarded, Core, LandLast, Locked, BusyLinked, Busy

\* A task that flies, but for its lock.
Manned(f) == f.task \in Busy /\ f.engaged /\ ~f.failsafe /\ f.link = "off"

LEMMA MannedGuarded ==
    ASSUME NEW f, Manned(f), f.lock # NoConfig, f.task = "waypoint" => f.config = f.lock
    PROVE  Guarded(f)
BY DEF Manned, Guarded, Core, LandLast, Locked, Masked, BusyLinked, LinkHeld, Busy

LEMMA GuardedManned ==
    ASSUME NEW f, Fit(f), Core(f), f.task \in Busy
    PROVE  Manned(f) /\ f.lock # NoConfig /\ (f.task = "waypoint" => f.config = f.lock)
BY DEF Manned, Fit, Core, TaskEngaged, Locked, BusyLinked, Busy

\* Steps that leave every field of the invariant alone.
LEMMA SameGuarded ==
    ASSUME NEW f, NEW g, Guarded(f), Like(f, g), g.mode = f.mode,
           g.lock = f.lock, g.link = f.link, g.config = f.config
    PROVE  Guarded(g)
BY DEF Like, SameCalls, Guarded, Core, LandLast, Locked, Masked, BusyLinked, LinkHeld

-----------------------------------------------------------------------------
(* LAND.                                                                   *)

(* What is left of a LAND, whether it could be requested or not: the       *)
(* controller is disengaged, and the request is the last on its way.       *)
LEMMA SendLandEffect ==
    ASSUME NEW f \in Flight, NEW x, NEW failsafe \in BOOLEAN,
           f.task = "land", f.cmd \in Cmd
    PROVE  LET g == SendLand(f, x, failsafe) IN
           /\ g.task \in {"none", "land"} /\ LandLast(g)
           /\ g.mode = f.mode /\ g.engaged = f.engaged /\ g.navHold = f.navHold
           /\ g.lock = f.lock /\ g.link = f.link /\ g.attitude = f.attitude
<1> DEFINE a == [f EXCEPT !.attempt = IF f.latched THEN "recent" ELSE @]
           call == [kind |-> "land", cmd |-> f.cmd, failsafe |-> failsafe, current |-> TRUE]
<1>1. a \in Flight
      BY Members DEF Flight
<1>2. /\ a.task = "land" /\ a.mode = f.mode /\ a.engaged = f.engaged /\ a.navHold = f.navHold
      /\ Aside(f, a)
      BY DEF Flight, Aside
<1>3. SendLand(f, x, failsafe) =
        IF "mode" \notin x.up
        THEN [Ended(Publish(a, "FAILED")) EXCEPT !.failsafe = @ /\ ~failsafe]
        ELSE [Superseded(a) EXCEPT !.modeQueue = Append(@, call), !.handle = @ \/ f.latched]
      BY DEF SendLand
<1> HIDE DEF a
<1>4. CASE "mode" \notin x.up
  <2> DEFINE p == Publish(a, "FAILED")
             e == Ended(p)
             g == [e EXCEPT !.failsafe = @ /\ ~failsafe]
  <2>1. /\ p \in Flight /\ p.mode = f.mode /\ p.engaged = f.engaged /\ p.navHold = f.navHold
        /\ p.lock = f.lock /\ p.link = f.link /\ p.attitude = f.attitude
        BY <1>1, <1>2, PublishFacts, PublishAside, Members DEF Aside
  <2> HIDE DEF p
  <2>2. /\ e \in Flight /\ e.task = "none"
        /\ e.mode = f.mode /\ e.engaged = f.engaged /\ e.navHold = f.navHold
        /\ e.lock = f.lock /\ e.link = f.link /\ e.attitude = f.attitude
        BY <2>1, EndedFacts, EndedAside
  <2> HIDE DEF e
  <2>3. /\ g.task = "none"
        /\ g.mode = f.mode /\ g.engaged = f.engaged /\ g.navHold = f.navHold
        /\ g.lock = f.lock /\ g.link = f.link /\ g.attitude = f.attitude
        BY <2>2 DEF Flight
  <2>4. SendLand(f, x, failsafe) = g
        BY <1>3, <1>4 DEF e, p
  <2> HIDE DEF g
  <2> QED BY <2>3, <2>4 DEF LandLast
<1>5. CASE "mode" \in x.up
  <2> DEFINE s == Superseded(a)
             q == Append(s.modeQueue, call)
             g == [s EXCEPT !.modeQueue = q, !.handle = @ \/ f.latched]
  <2>1. /\ s \in Flight /\ s.task = "land" /\ s.mode = f.mode /\ s.engaged = f.engaged
        /\ s.navHold = f.navHold /\ s.lock = f.lock /\ s.link = f.link
        /\ s.attitude = f.attitude
        BY <1>1, <1>2, SupersededFacts, SupersededAside DEF Aside
  <2>2. call \in ModeCall /\ call.kind = "land"
        BY DEF ModeCall
  <2>3. s.modeQueue \in Seq(ModeCall)
        BY <2>1 DEF Flight
  <2> HIDE DEF s, call
  <2>4. q[Len(q)] = call
        BY <2>2, <2>3
  <2> HIDE DEF q
  <2>5. /\ g.modeQueue = q /\ g.task = "land"
        /\ g.mode = f.mode /\ g.engaged = f.engaged /\ g.navHold = f.navHold
        /\ g.lock = f.lock /\ g.link = f.link /\ g.attitude = f.attitude
        BY <2>1 DEF Flight
  <2>6. SendLand(f, x, failsafe) = g
        BY <1>3, <1>5 DEF s, q, call
  <2> HIDE DEF g
  <2> QED BY <2>2, <2>4, <2>5, <2>6 DEF LandLast
<1> QED BY <1>4, <1>5

LEMMA StartLandEffect ==
    ASSUME NEW f \in Flight, NEW x \in Context, NEW failsafe \in BOOLEAN
    PROVE  LET g == StartLand(f, x, failsafe) IN
           /\ g.task \in {"none", "land"} /\ LandLast(g)
           /\ g.mode = "land" /\ ~g.engaged /\ g.navHold = f.navHold
           /\ g.lock = (IF obs.armed THEN f.lock ELSE NoConfig)
           /\ g.attitude = f.attitude
<1> DEFINE c == CancelTask(f)
           h == IF failsafe THEN c ELSE ClearFailsafe(c)
           l == [h EXCEPT !.task = "land", !.cmd = x.new, !.timer = "running",
                          !.mode = "land", !.engaged = FALSE]
<1>1. c \in Flight /\ c.navHold = f.navHold /\ c.attitude = f.attitude
      /\ c.lock = (IF obs.armed THEN f.lock ELSE NoConfig)
      BY CancelFacts, CancelAside
<1> HIDE DEF c
<1>2. h \in Flight /\ h.navHold = f.navHold /\ h.attitude = f.attitude
      /\ h.lock = (IF obs.armed THEN f.lock ELSE NoConfig)
      BY <1>1, ClearFailsafeFacts, ClearFailsafeAside
<1>3. x.new \in Cmd
      BY DEF Context
<1> HIDE DEF h
<1>4. l \in Flight
      BY <1>2, <1>3, Members DEF Flight
<1>5. /\ l.task = "land" /\ l.cmd \in Cmd /\ l.mode = "land" /\ ~l.engaged
      /\ l.navHold = f.navHold /\ l.attitude = f.attitude
      /\ l.lock = (IF obs.armed THEN f.lock ELSE NoConfig)
      BY <1>2, <1>3 DEF Flight
<1>6. StartLand(f, x, failsafe) = SendLand(l, x, failsafe)
      BY DEF StartLand, h, c
<1> HIDE DEF l
<1> QED BY <1>4, <1>5, <1>6, SendLandEffect

\* start_land guards whatever came before it.
LEMMA StartLandGuarded ==
    ASSUME NEW f \in Flight, NEW x \in Context, NEW failsafe \in BOOLEAN
    PROVE  Guarded(StartLand(f, x, failsafe)) /\ LockKept(f, StartLand(f, x, failsafe))
<1> DEFINE g == StartLand(f, x, failsafe)
<1>1. /\ g.task \in {"none", "land"} /\ LandLast(g) /\ ~g.engaged /\ g.navHold = f.navHold
      /\ g.lock = (IF obs.armed THEN f.lock ELSE NoConfig)
      BY StartLandEffect
<1> HIDE DEF g
<1>2. Guarded(g) /\ LockKept(f, g)
      BY <1>1, DisengagedGuarded DEF LockKept, Busy
<1> QED BY <1>2 DEF g

\* trigger_failsafe_land: nothing, or a LAND.
LEMMA FailsafeLandEffect ==
    ASSUME NEW f \in Flight, NEW x \in Context
    PROVE  LET g == FailsafeLand(f, x) IN
           /\ g.navHold = f.navHold /\ g.attitude = f.attitude /\ LockKept(f, g)
           /\ \/ (f.failsafe \/ f.mode = "land") /\ g = f
              \/ /\ ~f.failsafe /\ f.mode # "land"
                 /\ g.mode = "land" /\ ~g.engaged /\ g.task \in {"none", "land"}
                 /\ Guarded(g)
<1> DEFINE h == [f EXCEPT !.failsafe = TRUE]
<1>1. /\ h \in Flight /\ h.navHold = f.navHold /\ h.lock = f.lock /\ h.attitude = f.attitude
      BY DEF Flight
<1> HIDE DEF h
<1>2. FailsafeLand(f, x) = IF f.failsafe \/ f.mode = "land" THEN f ELSE StartLand(h, x, TRUE)
      BY DEF FailsafeLand, h
<1>3. CASE f.failsafe \/ f.mode = "land"
      BY <1>2, <1>3 DEF LockKept
<1>4. CASE ~(f.failsafe \/ f.mode = "land")
  <2> DEFINE g == StartLand(h, x, TRUE)
  <2>1. /\ g.task \in {"none", "land"} /\ g.mode = "land" /\ ~g.engaged
        /\ g.navHold = f.navHold /\ g.attitude = f.attitude /\ LockKept(f, g)
        BY <1>1, StartLandEffect DEF LockKept
  <2>2. Guarded(g)
        BY <1>1, StartLandGuarded
  <2> HIDE DEF g
  <2> QED BY <1>2, <1>4, <2>1, <2>2 DEF g
<1> QED BY <1>3, <1>4

LEMMA FailsafeLandGuarded ==
    ASSUME NEW f \in Flight, NEW x \in Context, Guarded(f)
    PROVE  Guarded(FailsafeLand(f, x)) /\ LockKept(f, FailsafeLand(f, x))
BY FailsafeLandEffect DEF Guarded, Core

-----------------------------------------------------------------------------
(* Tasks that end, and tasks that go on.                                   *)

LEMMA HoverEffect ==
    ASSUME NEW f \in Flight, NEW m \in Mode, obs.armed = TRUE
    PROVE  LET g == Hover(f, m) IN
           /\ g \in Flight /\ g.task = f.task /\ g.mode = m /\ g.engaged
           /\ g.failsafe = f.failsafe /\ g.navHold = f.navHold
           /\ g.lock = f.lock /\ g.link = f.link /\ g.attitude = f.attitude
BY HoverFacts, HoverAside DEF Aside

\* fail_active_task of a task in flight, or of one that has just been asked for.
LEMMA FailTaskGuarded ==
    ASSUME NEW f \in Flight, Manned(f), NEW x \in Context, NEW land \in BOOLEAN,
           obs.armed \in BOOLEAN
    PROVE  LET g == FailTask(f, land, x) IN
           Guarded(g) /\ LockKept(f, g) /\ g.task \in {"none", "land"} /\ g.attitude = f.attitude
<1> DEFINE e == Unlocked(Ended(Publish(f, "FAILED")))
           i == [e EXCEPT !.mode = "idle", !.engaged = FALSE]
           h == Hover(e, "hover")
           l == FailsafeLand(e, x)
<1>1. /\ e \in Flight /\ e.task = "none" /\ ~e.failsafe /\ e.navHold = f.navHold
      /\ e.lock = (IF obs.armed THEN f.lock ELSE NoConfig)
      /\ e.link = "off" /\ e.attitude = f.attitude /\ e.engaged
  <2>1. f.task # "none" /\ ~f.failsafe /\ f.engaged /\ f.link = "off" /\ "FAILED" \in Terminal
        BY Members DEF Manned, Busy
  <2> QED BY <2>1, FailedFacts, FailedAside
<1>2. FailTask(f, land, x) = IF land /\ obs.armed THEN l
                             ELSE IF obs.armed /\ Pose /\ Guided THEN h ELSE i
      BY DEF FailTask
<1> HIDE DEF e
<1>3. LockKept(f, e) /\ Guarded(e)
      BY <1>1, TasklessGuarded DEF Manned, LockKept, Masked, LinkHeld
<1>4. Guarded(l) /\ LockKept(f, l) /\ l.task \in {"none", "land"} /\ l.attitude = f.attitude
      BY <1>1, <1>3, FailsafeLandEffect DEF LockKept
<1>5. obs.armed => /\ Guarded(h) /\ LockKept(f, h) /\ h.task = "none"
                   /\ h.attitude = f.attitude
  <2>1. HAVE obs.armed
  <2>2. /\ h.task = "none" /\ ~h.failsafe /\ h.engaged /\ h.navHold = f.navHold
        /\ h.lock = f.lock /\ h.link = "off" /\ h.attitude = f.attitude
    <3>1. obs.armed = TRUE /\ "hover" \in Mode
          BY <2>1, Members
    <3> QED BY <1>1, <2>1, <3>1, HoverEffect
  <2> HIDE DEF h
  <2> QED BY <2>2, TasklessGuarded DEF Manned, LockKept, Masked, LinkHeld
<1>6. Guarded(i) /\ LockKept(f, i) /\ i.task = "none" /\ i.attitude = f.attitude
  <2>1. /\ i.task = "none" /\ ~i.engaged /\ i.navHold = f.navHold
        /\ i.lock = e.lock /\ i.attitude = f.attitude
        BY <1>1, IdleFacts, IdleAside DEF Aside
  <2> HIDE DEF i
  <2> QED BY <1>1, <1>3, <2>1, DisengagedGuarded DEF LockKept, LandLast, Busy
<1> HIDE DEF h, i, l
<1> QED BY <1>2, <1>4, <1>5, <1>6

(* What becomes of a task that is being made ready: it is over, or it goes *)
(* on with the lock and the configuration it has.                          *)
Outcome(f, g) ==
    /\ LockKept(f, g) /\ g.attitude = f.attitude
    /\ \/ Guarded(g) /\ g.task \in {"none", "land"}
       \/ Manned(g) /\ g.task = f.task /\ g.lock = f.lock /\ g.config = f.config

LEMMA OutcomeGuarded ==
    ASSUME NEW f, NEW g, Outcome(f, g), f.lock # NoConfig, f.task = "waypoint" => f.config = f.lock
    PROVE  Guarded(g)
BY MannedGuarded DEF Outcome

\* The fields of a task that stays manned.
LEMMA MannedLike ==
    ASSUME NEW f, Manned(f), NEW g, Like(f, g), Aside(f, g)
    PROVE  Outcome(f, g)
BY DEF Manned, Like, Aside, Outcome, LockKept

LEMMA ActivateAside ==
    ASSUME NEW f \in Flight
    PROVE  Aside(f, Activate(f))
BY DEF Activate, Flight, Aside

LEMMA ReadyOutcome ==
    ASSUME NEW f \in Flight, Manned(f), NEW x
    PROVE  Outcome(f, Ready(f, x))
<1> DEFINE t == [f EXCEPT !.phase = "height"]
           w == [f EXCEPT !.mode = "hover", !.pending = TRUE]
<1>1. Aside(f, t) /\ Aside(f, w)
      BY DEF Flight, Aside
<1>2. Ready(f, x) \in {t, w, Activate(f)}
      BY DEF Ready
<1> HIDE DEF t, w
<1>3. Aside(f, Ready(f, x))
      BY <1>1, <1>2, ActivateAside
<1> QED BY <1>3, ReadyFacts, MannedLike

LEMMA EnsureArmedOutcome ==
    ASSUME NEW f \in Flight, Manned(f), NEW x \in Context, obs.armed \in BOOLEAN
    PROVE  Outcome(f, EnsureArmed(f, x))
<1> DEFINE cs == f.calls \cup {[kind |-> "arm", cmd |-> f.cmd]}
           g == [f EXCEPT !.calls = cs]
<1>1. Outcome(f, FailTask(f, FALSE, x))
      BY FailTaskGuarded DEF Outcome
<1>2. Outcome(f, Ready(f, x))
      BY ReadyOutcome
<1>3. EnsureArmed(f, x) \in {FailTask(f, FALSE, x), Ready(f, x), g}
      BY DEF EnsureArmed
<1> HIDE DEF cs
<1>4. /\ Aside(f, g) /\ g.task = f.task /\ g.engaged = f.engaged
      /\ g.failsafe = f.failsafe /\ g.navHold = f.navHold
      BY DEF Flight, Aside
<1> HIDE DEF g
<1>5. Outcome(f, g)
      BY <1>4 DEF Manned, Aside, Outcome, LockKept
<1> QED BY <1>1, <1>2, <1>3, <1>5

LEMMA EnsureGuidedOutcome ==
    ASSUME NEW f \in Flight, Manned(f), NEW x \in Context, obs.armed \in BOOLEAN
    PROVE  Outcome(f, EnsureGuided(f, x))
<1> DEFINE call == [kind |-> "guided", cmd |-> f.cmd, failsafe |-> FALSE, current |-> TRUE]
           q == Append(f.modeQueue, call)
           g == [f EXCEPT !.modeQueue = q]
<1>1. Outcome(f, FailTask(f, FALSE, x))
      BY FailTaskGuarded DEF Outcome
<1>2. Outcome(f, EnsureArmed(f, x))
      BY EnsureArmedOutcome
<1>3. EnsureGuided(f, x) \in {FailTask(f, FALSE, x), EnsureArmed(f, x), g}
      BY DEF EnsureGuided
<1> HIDE DEF q
<1>4. /\ Aside(f, g) /\ g.task = f.task /\ g.engaged = f.engaged
      /\ g.failsafe = f.failsafe /\ g.navHold = f.navHold
      BY DEF Flight, Aside
<1> HIDE DEF g
<1>5. Outcome(f, g)
      BY <1>4 DEF Manned, Aside, Outcome, LockKept
<1> QED BY <1>1, <1>2, <1>3, <1>5

\* A configuration that may be flown keeps the lock of a flight.
Fits(f, config) == obs.armed => f.lock \in {NoConfig, config}

LockSame(f, g) == obs.armed /\ f.lock # NoConfig => g.lock = f.lock

LEMMA StartTakeoffGuarded ==
    ASSUME NEW f \in Flight, NEW x \in Context, NEW config \in Config,
           Fits(f, config), obs.armed \in BOOLEAN, ~f.latched, HoldArmed(f)
    PROVE  LET g == StartTakeoff(f, config, x) IN Guarded(g) /\ LockSame(f, g)
<1> DEFINE k == CancelTask(f)
           c == ClearFailsafe(k)
           t == [c EXCEPT !.task = "takeoff", !.cmd = x.new, !.timer = "running",
                          !.phase = "prepare", !.mode = "takeoff", !.engaged = TRUE]
           h == EnsureGuided(t, x)
           l == [h EXCEPT !.lock = config]
<1>1. k \in Flight /\ k.navHold = f.navHold /\ LockKept(f, k) /\ k.latched = f.latched
      BY CancelFacts, CancelAside DEF LockKept
<1> HIDE DEF k
<1>2. /\ c \in Flight /\ ~c.failsafe /\ c.navHold = f.navHold /\ c.link = "off" /\ LockKept(f, c)
      /\ c.latched = f.latched
      BY <1>1, ClearFailsafeFacts, ClearFailsafeAside DEF LockKept
<1> HIDE DEF c
<1>3. x.new \in Cmd
      BY DEF Context
<1>4. t \in Flight
      BY <1>2, <1>3, Members DEF Flight
<1>5. /\ t.task = "takeoff" /\ t.engaged /\ ~t.failsafe /\ t.navHold = f.navHold
      /\ t.link = "off" /\ LockKept(f, t) /\ t.cmd = x.new /\ t.latched = f.latched
      BY <1>2 DEF Flight, LockKept
<1>6. StartTakeoff(f, config, x) = IF h.task = "takeoff" THEN l ELSE h
      BY DEF StartTakeoff, c, k
<1> HIDE DEF t
<1>7. Manned(t) /\ Fit(t)
      BY <1>3, <1>4, <1>5, BusyFit DEF Manned, HoldArmed, Busy
<1>8. Outcome(t, h) /\ h \in Flight
      BY <1>4, <1>5, <1>7, EnsureGuidedOutcome, EnsureGuidedFit DEF Fit, Busy
<1> HIDE DEF h
<1>9. LockKept(f, h)
      BY <1>5, <1>8 DEF Outcome, LockKept
<1>10. CASE h.task # "takeoff"
      BY <1>5, <1>6, <1>8, <1>9, <1>10 DEF Outcome, LockKept, LockSame
<1>11. CASE h.task = "takeoff"
  <2>1. Manned(h)
        BY <1>8, <1>11 DEF Outcome
  <2>2. /\ l.task = h.task /\ l.engaged = h.engaged /\ l.failsafe = h.failsafe
        /\ l.navHold = h.navHold /\ l.link = h.link /\ l.lock = config
        BY <1>8 DEF Flight
  <2> HIDE DEF l
  <2>3. Manned(l) /\ l.lock # NoConfig
        BY <2>1, <2>2, OnboardAssumption DEF Manned
  <2>4. LockSame(f, l)
        BY <2>2 DEF Fits, LockSame
  <2> QED BY <1>6, <1>11, <2>2, <2>3, <2>4, MannedGuarded
<1> QED BY <1>10, <1>11

LEMMA StartWaypointsGuarded ==
    ASSUME NEW f \in Flight, NEW x \in Context, NEW config \in Config,
           Fits(f, config), obs.armed \in BOOLEAN
    PROVE  LET g == StartWaypoints(f, config, x) IN Guarded(g) /\ LockSame(f, g)
<1> DEFINE k == CancelTask(f)
           c == ClearFailsafe(k)
           t == [c EXCEPT !.lock = config, !.task = "waypoint", !.cmd = x.new,
                          !.config = config, !.engaged = TRUE]
           h == EnsureGuided(t, x)
<1>1. k \in Flight /\ k.navHold = f.navHold
      BY CancelFacts
<1> HIDE DEF k
<1>2. c \in Flight /\ ~c.failsafe /\ c.navHold = f.navHold /\ c.link = "off"
      BY <1>1, ClearFailsafeFacts, ClearFailsafeAside
<1> HIDE DEF c
<1>3. x.new \in Cmd
      BY DEF Context
<1>4. t \in Flight
      BY <1>2, <1>3, Members DEF Flight
<1>5. /\ t.task = "waypoint" /\ t.engaged /\ ~t.failsafe /\ t.navHold = f.navHold
      /\ t.link = "off" /\ t.lock = config /\ t.config = config
      BY <1>2 DEF Flight
<1>6. StartWaypoints(f, config, x) = h
      BY DEF StartWaypoints, c, k
<1> HIDE DEF t
<1>7. Manned(t) /\ t.lock # NoConfig
      BY <1>5, OnboardAssumption DEF Manned, Busy
<1>8. Outcome(t, h)
      BY <1>4, <1>7, EnsureGuidedOutcome
<1> HIDE DEF h
<1>9. Guarded(h)
      BY <1>5, <1>7, <1>8, OutcomeGuarded
<1>10. LockSame(f, h)
      BY <1>5, <1>8 DEF Outcome, LockKept, Fits, LockSame
<1> QED BY <1>6, <1>9, <1>10

-----------------------------------------------------------------------------
(* navigation_tick.                                                        *)

\* The node's hold ended, and the hold it enters.
HoldOver(f) == [f EXCEPT !.navHold = "off"]
Held(f) == Hover([CancelTask(f) EXCEPT !.navHold = "running"], "hold")

\* The tick leaves the flight alone, ends its hold, enters it, or lands.
LEMMA NavTickCases ==
    ASSUME NEW f, NEW x, HoldArmed(f), obs.armed \in BOOLEAN
    PROVE  \/ NavTick(f, x) = f
           \/ /\ f.task # "land" /\ ~f.failsafe /\ obs.armed = TRUE
              /\ NavTick(f, x) = IF lease THEN Hover(HoldOver(f), "hover") ELSE HoldOver(f)
              /\ f.navHold # "off" /\ Located
           \/ /\ f.task # "land" /\ f.navHold = "off"
              /\ NavTick(f, x) = IF obs.armed THEN Held(f) ELSE CancelTask(f)
           \/ /\ f.task # "land" /\ f.navHold = "expired" /\ obs.armed
              /\ NavTick(f, x) = FailsafeLand(f, x)
BY DEF NavTick, HoldOver, Held, HoldArmed

LEMMA HoldOverFacts ==
    ASSUME NEW f \in Flight
    PROVE  LET g == HoldOver(f) IN
           /\ g \in Flight /\ g.modeQueue = f.modeQueue /\ Aside(f, g)
           /\ g.task = f.task /\ g.mode = f.mode /\ g.engaged = f.engaged
           /\ g.failsafe = f.failsafe /\ g.navHold = "off"
<1>1. HoldOver(f) \in Flight
      BY Members DEF HoldOver, Flight
<1> QED BY <1>1 DEF HoldOver, Flight, Aside

LEMMA HeldFacts ==
    ASSUME NEW f \in Flight, obs.armed = TRUE
    PROVE  LET g == Held(f) IN
           /\ g \in Flight /\ g.task = "none" /\ g.mode = "hold" /\ g.engaged
           /\ g.failsafe = f.failsafe /\ g.navHold = "running"
           /\ g.lock = f.lock /\ g.link = f.link /\ g.attitude = f.attitude
<1> DEFINE c == CancelTask(f)
           t == [c EXCEPT !.navHold = "running"]
<1>1. /\ c \in Flight /\ c.task = "none" /\ c.failsafe = f.failsafe
      /\ c.lock = f.lock /\ c.link = f.link /\ c.attitude = f.attitude
      BY CancelFacts, CancelAside
<1> HIDE DEF c
<1>2. /\ t \in Flight /\ t.task = "none" /\ t.failsafe = f.failsafe /\ t.navHold = "running"
      /\ t.lock = f.lock /\ t.link = f.link /\ t.attitude = f.attitude
      BY <1>1, Members DEF Flight
<1>3. Held(f) = Hover(t, "hold")
      BY DEF Held, c
<1> HIDE DEF t
<1> DEFINE h == Hover(t, "hold")
<1>4. /\ h \in Flight /\ h.task = t.task /\ h.mode = "hold" /\ h.engaged
      /\ h.failsafe = t.failsafe /\ h.navHold = t.navHold
      /\ h.lock = t.lock /\ h.link = t.link /\ h.attitude = t.attitude
      BY <1>2, HoverEffect, Members
<1> HIDE DEF h
<1> QED BY <1>2, <1>3, <1>4 DEF h

\* The hover after recovered localization ends a link loss only with a lease.
LinkHeldOrLeased(f) == LinkHeld(f) \/ (lease /\ obs.armed)

LEMMA NavTickGuarded ==
    ASSUME NEW f, NEW x \in Context, Sound(f, x), Guarded(f), obs.armed \in BOOLEAN
    PROVE  LET g == NavTick(f, x) IN
           /\ Core(g) /\ LinkHeldOrLeased(g) /\ LockKept(f, g) /\ g.attitude = f.attitude
<1>1. f \in Flight /\ HoldArmed(f)
      BY DEF Sound, Fit
<1>2. CASE NavTick(f, x) = f
      BY <1>2 DEF Guarded, LinkHeldOrLeased, LockKept
<1>3. CASE /\ f.task # "land" /\ ~f.failsafe /\ obs.armed = TRUE
           /\ NavTick(f, x) = IF lease THEN Hover(HoldOver(f), "hover") ELSE HoldOver(f)
  <2> DEFINE r == HoldOver(f)
             h == Hover(r, "hover")
  <2>1. /\ r \in Flight /\ r.modeQueue = f.modeQueue /\ Aside(f, r)
        /\ r.task = f.task /\ r.mode = f.mode /\ r.engaged = f.engaged
        /\ r.failsafe = f.failsafe /\ r.navHold = "off"
        BY <1>1, HoldOverFacts
  <2> HIDE DEF r
  <2>2. /\ h.task = f.task /\ h.engaged /\ ~h.failsafe /\ h.navHold = "off" /\ Aside(f, h)
    <3>1. obs.armed = TRUE /\ "hover" \in Mode
          BY <1>3, Members
    <3>2. /\ h.task = r.task /\ h.engaged /\ h.failsafe = r.failsafe /\ h.navHold = r.navHold
          /\ Aside(r, h)
          BY <2>1, <3>1, HoverFacts, HoverAside
    <3> QED BY <1>3, <2>1, <3>2 DEF Aside
  <2> HIDE DEF h
  <2>3. Guarded(r)
        BY <1>3, <2>1 DEF Guarded, Core, LandLast, Locked, Masked, BusyLinked, LinkHeld, Aside
  <2>4. Core(h)
        BY <1>3, <2>2 DEF Guarded, Core, LandLast, Locked, Masked, BusyLinked, Aside
  <2> QED BY <1>3, <2>1, <2>2, <2>3, <2>4
          DEF Guarded, LinkHeldOrLeased, LockKept, Aside, r, h
<1>4. CASE /\ f.task # "land"
           /\ NavTick(f, x) = IF obs.armed THEN Held(f) ELSE CancelTask(f)
  <2>1. obs.armed =>
          Guarded(Held(f)) /\ LockKept(f, Held(f)) /\ Held(f).attitude = f.attitude
    <3>1. HAVE obs.armed
    <3>2. obs.armed = TRUE
          BY <3>1
    <3> QED BY <1>1, <1>4, <3>2, HeldFacts, TasklessGuarded
            DEF Masked, LinkHeld, LockKept
  <2>2. ~obs.armed =>
          Guarded(CancelTask(f)) /\ LockKept(f, CancelTask(f)) /\ CancelTask(f).attitude = f.attitude
        BY <1>1, CancelFacts, CancelAside, TasklessGuarded
        DEF Guarded, Core, Masked, LinkHeld, LockKept
  <2> QED BY <1>4, <2>1, <2>2 DEF Guarded, LinkHeldOrLeased
<1>5. CASE NavTick(f, x) = FailsafeLand(f, x)
      BY <1>1, <1>5, FailsafeLandGuarded, FailsafeLandEffect DEF Guarded, LinkHeldOrLeased
<1> QED BY <1>1, <1>2, <1>3, <1>4, <1>5, NavTickCases

-----------------------------------------------------------------------------
(* enforce_safety.                                                         *)

\* Nothing flies, and the controller holds, if it is engaged at all.
Orphaned(f) == f.task \notin Busy /\ (f.engaged => f.mode \in {"hold", "land"})

LEMMA LinkLossHoldGuarded ==
    ASSUME NEW f \in Flight, NEW x \in Context, Core(f), f.engaged, obs.armed = TRUE
    PROVE  LET g == LinkLossHold(f, x) IN
           /\ Guarded(g) /\ Orphaned(g) /\ LockKept(f, g)
           /\ g.attitude = f.attitude /\ g.navHold = f.navHold
<1> DEFINE c == CancelTask(f)
           t == [c EXCEPT !.link = "running"]
<1>1. /\ c \in Flight /\ c.task = "none" /\ c.mode = f.mode /\ c.engaged
      /\ c.failsafe = f.failsafe /\ c.navHold = f.navHold
      /\ c.lock = f.lock /\ c.attitude = f.attitude
      BY CancelFacts, CancelAside
<1>2. LinkLossHold(f, x) = IF Pose /\ Guided THEN Hover(t, "hold") ELSE FailsafeLand(t, x)
      BY DEF LinkLossHold
<1> HIDE DEF c
<1>3. /\ t \in Flight /\ t.task = "none" /\ t.mode = f.mode /\ t.engaged
      /\ t.failsafe = f.failsafe /\ t.navHold = f.navHold
      /\ t.lock = f.lock /\ t.attitude = f.attitude
      BY <1>1, Members DEF Flight
<1> HIDE DEF t
<1>4. CASE LinkLossHold(f, x) = Hover(t, "hold")
  <2> DEFINE h == Hover(t, "hold")
  <2>1. /\ h.task = "none" /\ h.mode = "hold" /\ h.engaged /\ h.failsafe = f.failsafe
        /\ h.navHold = f.navHold /\ h.lock = f.lock /\ h.attitude = f.attitude
        BY <1>3, HoverEffect, Members
  <2> HIDE DEF h
  <2>2. Guarded(h) /\ Orphaned(h) /\ LockKept(f, h)
        BY <2>1, TasklessGuarded
        DEF Core, Masked, LinkHeld, LockKept, Orphaned, Busy
  <2> QED BY <1>4, <2>1, <2>2 DEF h
<1>5. CASE LinkLossHold(f, x) = FailsafeLand(t, x)
  <2> DEFINE g == FailsafeLand(t, x)
  <2>1. /\ g.navHold = t.navHold /\ g.attitude = t.attitude /\ LockKept(t, g)
        /\ \/ (t.failsafe \/ t.mode = "land") /\ g = t
           \/ /\ ~g.engaged /\ g.task \in {"none", "land"}
              /\ Guarded(g)
        BY <1>3, FailsafeLandEffect
  <2> HIDE DEF g
  <2>2. LockKept(f, g) /\ g.attitude = f.attitude /\ g.navHold = f.navHold
        BY <1>3, <2>1 DEF LockKept
  <2>3. CASE (t.failsafe \/ t.mode = "land") /\ g = t
    <3>1. t.mode \in {"hold", "land"} /\ Masked(t)
          BY <1>3, <2>3 DEF Core, Masked
    <3>2. Guarded(t) /\ Orphaned(t)
          BY <1>3, <3>1, TasklessGuarded DEF LinkHeld, Orphaned, Busy
    <3> QED BY <1>5, <2>2, <2>3, <3>2 DEF g
  <2>4. CASE ~g.engaged /\ g.task \in {"none", "land"} /\ Guarded(g)
    <3>1. Guarded(g) /\ Orphaned(g)
          BY <1>3, <2>4 DEF Core, Orphaned, Busy
    <3> QED BY <1>5, <2>2, <3>1 DEF g
  <2> QED BY <2>1, <2>3, <2>4
<1> QED BY <1>2, <1>4, <1>5

LEMMA SafetyGuarded ==
    ASSUME NEW f, NEW x \in Context, Sound(f, x), Core(f), LinkHeldOrLeased(f),
           obs.armed \in BOOLEAN
    PROVE  LET g == Safety(f, x) IN
           /\ Guarded(g) /\ LockKept(f, g) /\ g.attitude = f.attitude /\ g.navHold = f.navHold
           /\ (g.engaged => f.engaged)
           /\ (f.task \notin Busy => g.task \notin Busy)
           /\ (obs.armed /\ ~lease => Orphaned(g))
<1> DEFINE e == Ended(f)
           i == [e EXCEPT !.mode = "idle", !.engaged = FALSE]
           o == [f EXCEPT !.link = "off"]
           l == FailsafeLand(f, x)
           h == LinkLossHold(f, x)
           w == IF f.link = "off" THEN h ELSE f
           k == FailsafeLand(w, x)
           Good(g) == /\ Guarded(g) /\ LockKept(f, g) /\ g.attitude = f.attitude
                      /\ g.navHold = f.navHold /\ (g.engaged => f.engaged)
                      /\ (f.task \notin Busy => g.task \notin Busy)
                      /\ (obs.armed /\ ~lease => Orphaned(g))
<1>1. f \in Flight /\ Fit(f)
      BY DEF Sound, Fit, Core
<1>2. CASE ~f.engaged \/ ~obs.armed
  <2>1. Safety(f, x) = f
        BY <1>2 DEF Safety
  <2>2. Guarded(f)
        BY <1>2 DEF Guarded, LinkHeldOrLeased, LinkHeld
  <2>3. obs.armed => Orphaned(f)
        BY <1>1, <1>2 DEF Fit, TaskEngaged, Orphaned, Busy
  <2> QED BY <2>1, <2>2, <2>3 DEF LockKept
<1>3. CASE f.engaged /\ obs.armed
  <2>1. Safety(f, x) = IF f.mode \in Raw /\ Unhealthy THEN l
                       ELSE IF f.mode \in Raw /\ ~Guided THEN i
                       ELSE IF lease THEN o
                       ELSE IF w.link = "expired" THEN k ELSE w
        BY <1>3 DEF Safety
  <2>2. f.mode \in Raw => Good(l)
    <3>1. HAVE f.mode \in Raw
    <3>2. /\ l.navHold = f.navHold /\ l.attitude = f.attitude /\ LockKept(f, l)
          /\ \/ (f.failsafe \/ f.mode = "land") /\ l = f
             \/ /\ ~l.engaged /\ l.task \in {"none", "land"}
                /\ Guarded(l)
          BY <1>1, FailsafeLandEffect
    <3> HIDE DEF l
    <3>3. f.mode # "land"
          BY <3>1, RawCases
    <3>4. CASE f.failsafe /\ l = f
      <4>1. f.mode = "hold" /\ f.task \notin Busy
            BY <1>1, <1>3, <3>4 DEF Core, Masked, Fit, TaskEngaged, Busy
      <4> QED BY <3>2, <3>4, <4>1 DEF Guarded, LinkHeld, Orphaned
    <3>5. CASE ~l.engaged /\ l.task \in {"none", "land"} /\ Guarded(l)
          BY <3>2, <3>5 DEF Orphaned, Busy
    <3> QED BY <1>1, <3>2, <3>3, <3>4, <3>5
  <2>3. Good(i)
    <3>1. /\ e \in Flight /\ e.task = "none" /\ e.navHold = f.navHold
          /\ e.lock = f.lock /\ e.attitude = f.attitude
          BY <1>1, EndedFacts, EndedAside
    <3> HIDE DEF e
    <3>2. /\ i.task = "none" /\ ~i.engaged /\ i.navHold = f.navHold
          /\ i.lock = f.lock /\ i.attitude = f.attitude
          BY <3>1, IdleFacts, IdleAside DEF Aside
    <3> HIDE DEF i
    <3> QED BY <1>1, <1>3, <3>2, DisengagedGuarded
            DEF LandLast, LockKept, Orphaned, Busy
  <2>4. lease => Good(o)
    <3>1. /\ o.task = f.task /\ o.engaged = f.engaged /\ o.mode = f.mode /\ o.link = "off"
          /\ o.failsafe = f.failsafe /\ o.navHold = f.navHold /\ o.modeQueue = f.modeQueue
          /\ o.lock = f.lock /\ o.config = f.config /\ o.attitude = f.attitude
          BY <1>1 DEF Flight
    <3> HIDE DEF o
    <3> QED BY <3>1 DEF Guarded, Core, LandLast, Locked, Masked, BusyLinked, LinkHeld,
                        LockKept
  <2>5. ~lease => Good(w) /\ w \in Flight
    <3>1. HAVE ~lease
    <3>2. obs.armed = TRUE
          BY <1>3
    <3>3. CASE f.link = "off"
      <4>1. h \in Flight
            BY <3>2, LinkLossHoldSound DEF Sound, Fit
      <4>2. /\ Guarded(h) /\ Orphaned(h) /\ LockKept(f, h)
            /\ h.attitude = f.attitude /\ h.navHold = f.navHold
            BY <1>1, <1>3, <3>2, LinkLossHoldGuarded
      <4> QED BY <1>3, <3>3, <4>1, <4>2 DEF Orphaned
    <3>4. CASE f.link # "off"
      <4>1. LinkHeld(f)
            BY <3>1 DEF LinkHeldOrLeased
      <4>2. Guarded(f) /\ Orphaned(f)
            BY <1>3, <3>4, <4>1 DEF Guarded, Core, BusyLinked, LinkHeld, Orphaned
      <4> QED BY <1>1, <3>4, <4>2 DEF LockKept
    <3> QED BY <3>3, <3>4
  <2> HIDE DEF w
  <2>6. ~lease => Good(k)
    <3>1. HAVE ~lease
    <3>2. Good(w) /\ w \in Flight
          BY <2>5, <3>1
    <3>3. Guarded(k) /\ LockKept(w, k)
          BY <3>2, FailsafeLandGuarded
    <3>4. /\ k.navHold = w.navHold /\ k.attitude = w.attitude
          /\ k = w \/ (~k.engaged /\ k.task \in {"none", "land"})
          BY <3>2, FailsafeLandEffect
    <3> HIDE DEF k
    <3> QED BY <1>3, <3>2, <3>3, <3>4 DEF LockKept, Orphaned, Busy
  <2> HIDE DEF l, i, o, k, h, Good
  <2>7. Good(Safety(f, x))
        BY <2>1, <2>2, <2>3, <2>4, <2>5, <2>6
  <2> QED BY <2>7 DEF Good
<1> QED BY <1>1, <1>2, <1>3

-----------------------------------------------------------------------------
(* The rest of control_tick.                                               *)

LEMMA SendTakeoffGuarded ==
    ASSUME NEW f, NEW x \in Context, Sound(f, x), Guarded(f), f.task = "takeoff",
           obs.armed \in BOOLEAN
    PROVE  LET g == SendTakeoff(f, x) IN
           Guarded(g) /\ LockKept(f, g) /\ g.attitude = f.attitude
<1> DEFINE cs == f.calls \cup {[kind |-> "takeoff", cmd |-> f.cmd]}
           g == [f EXCEPT !.phase = "requested", !.calls = cs]
<1>1. f \in Flight /\ Manned(f)
      BY GuardedManned DEF Sound, Fit, Guarded, Busy
<1>2. \A land \in BOOLEAN : LET h == FailTask(f, land, x) IN
        Guarded(h) /\ LockKept(f, h) /\ h.attitude = f.attitude
      BY <1>1, FailTaskGuarded
<1>3. SendTakeoff(f, x) \in {FailTask(f, obs.armed, x), FailTask(f, TRUE, x), g}
      BY DEF SendTakeoff
<1> HIDE DEF cs
<1>4. /\ g.task = f.task /\ g.engaged = f.engaged /\ g.mode = f.mode /\ g.failsafe = f.failsafe
      /\ g.navHold = f.navHold /\ g.modeQueue = f.modeQueue /\ Aside(f, g)
      BY <1>1 DEF Flight, Aside
<1> HIDE DEF g
<1>5. Guarded(g) /\ LockKept(f, g) /\ g.attitude = f.attitude
      BY <1>4 DEF Guarded, Core, LandLast, Locked, Masked, BusyLinked, LinkHeld,
                  Aside, LockKept
<1> QED BY <1>2, <1>3, <1>5

\* A task that ends with a result, whether the vehicle flies on or not.
LEMMA CompletedGuarded ==
    ASSUME NEW f \in Flight, f.task # "none", Guarded(f), NEW status \in Terminal
    PROVE  LET g == Ended(Publish(f, status)) IN
           /\ g \in Flight /\ Guarded(g) /\ g.lock = f.lock /\ g.link = f.link
           /\ g.attitude = f.attitude /\ g.failsafe = f.failsafe /\ g.navHold = f.navHold
           /\ g.task = "none" /\ g.mode = f.mode /\ g.engaged = f.engaged
<1> DEFINE p == Publish(f, status)
           e == Ended(p)
<1>1. /\ p \in Flight /\ p.mode = f.mode /\ p.engaged = f.engaged
      /\ p.failsafe = f.failsafe /\ p.navHold = f.navHold
      /\ p.lock = f.lock /\ p.link = f.link /\ p.attitude = f.attitude
      BY PublishFacts, PublishAside DEF Aside
<1> HIDE DEF p
<1>2. /\ e \in Flight /\ e.task = "none" /\ e.mode = f.mode /\ e.engaged = f.engaged
      /\ e.failsafe = f.failsafe /\ e.navHold = f.navHold
      /\ e.lock = f.lock /\ e.link = f.link /\ e.attitude = f.attitude
      BY <1>1, EndedFacts, EndedAside
<1> HIDE DEF e
<1>3. Guarded(e)
      BY <1>2, TasklessGuarded DEF Guarded, Core, Locked, Masked, LinkHeld
<1> QED BY <1>2, <1>3 DEF e, p

LEMMA TakeoffTickGuarded ==
    ASSUME NEW f, NEW x \in Context, Sound(f, x), Guarded(f), obs.armed \in BOOLEAN
    PROVE  LET g == TakeoffTick(f, x) IN
           Guarded(g) /\ LockKept(f, g) /\ g.attitude = f.attitude
<1> DEFINE s == IF f.phase = "height" /\ obs.armed /\ "samples" \in x.seen
                THEN SendTakeoff(f, x) ELSE f
           e == Ended(Publish(s, "SUCCEEDED"))
           Good(g) == Guarded(g) /\ LockKept(f, g) /\ g.attitude = f.attitude
<1>1. CASE f.task # "takeoff"
      BY <1>1 DEF TakeoffTick, LockKept
<1>2. CASE f.task = "takeoff"
  <2>1. TakeoffTick(f, x) =
          IF s.task # "takeoff" THEN s
          ELSE IF s.phase = "climbing" /\ obs.armed /\ Pose /\ "height" \in x.seen
          THEN Hover(e, "hover")
          ELSE IF s.timer = "expired" THEN FailTask(s, TRUE, x) ELSE s
        BY <1>2 DEF TakeoffTick
  <2>2. Sound(s, x) /\ Good(s)
        BY <1>2, SendTakeoffSound, SendTakeoffGuarded DEF LockKept
  <2> HIDE DEF s
  <2>3. s.task = "takeoff" => Manned(s) /\ s \in Flight /\ s.task # "none"
        BY <2>2, GuardedManned DEF Sound, Fit, Guarded, Busy
  <2>4. s.task = "takeoff" /\ obs.armed => Good(Hover(e, "hover"))
    <3> DEFINE h == Hover(e, "hover")
    <3>1. HAVE s.task = "takeoff" /\ obs.armed
    <3>2. /\ e \in Flight /\ e.task = "none" /\ Guarded(e) /\ e.attitude = s.attitude
          /\ e.lock = s.lock /\ e.link = "off" /\ ~e.failsafe /\ e.navHold = s.navHold
          BY <2>2, <2>3, <3>1, CompletedGuarded, Members DEF Manned
    <3> HIDE DEF e
    <3>3. /\ h.task = "none" /\ h.engaged /\ ~h.failsafe /\ h.navHold = e.navHold
          /\ h.lock = e.lock /\ h.link = "off" /\ h.attitude = e.attitude
      <4>1. obs.armed = TRUE /\ "hover" \in Mode
            BY <3>1, Members
      <4> QED BY <3>2, <4>1, HoverEffect
    <3> HIDE DEF h
    <3>4. Guarded(h)
          BY <3>1, <3>2, <3>3, TasklessGuarded DEF Guarded, Core, Masked, LinkHeld
    <3> QED BY <2>2, <3>2, <3>3, <3>4 DEF LockKept, h
  <2>5. s.task = "takeoff" => Good(FailTask(s, TRUE, x))
        BY <2>2, <2>3, FailTaskGuarded DEF LockKept
  <2> HIDE DEF e, Good
  <2>6. Good(TakeoffTick(f, x))
        BY <2>1, <2>2, <2>4, <2>5
  <2> QED BY <2>6 DEF Good
<1> QED BY <1>1, <1>2

LEMMA LandTickGuarded ==
    ASSUME NEW f, NEW x, Sound(f, x), Guarded(f)
    PROVE  LET g == LandTick(f) IN
           /\ Guarded(g) /\ LockKept(f, g) /\ g.attitude = f.attitude
           /\ g.mode = f.mode /\ g.engaged = f.engaged /\ g.navHold = f.navHold
           /\ (f.task \notin Busy => g.task \notin Busy)
<1>1. f \in Flight /\ "FAILED" \in Terminal
      BY Members DEF Sound, Fit
<1>2. CASE f.task = "land" /\ f.timer = "expired"
  <2> DEFINE g == Ended(Publish(f, "FAILED"))
  <2>1. /\ Guarded(g) /\ g.lock = f.lock /\ g.attitude = f.attitude
        /\ g.mode = f.mode /\ g.engaged = f.engaged /\ g.navHold = f.navHold /\ g.task = "none"
        BY <1>1, <1>2, CompletedGuarded
  <2>2. LandTick(f) = g
        BY <1>2 DEF LandTick
  <2> HIDE DEF g
  <2> QED BY <2>1, <2>2 DEF LockKept, Busy
<1>3. CASE ~(f.task = "land" /\ f.timer = "expired")
      BY <1>3 DEF LandTick, LockKept
<1> QED BY <1>2, <1>3

LEMMA StartGateGuarded ==
    ASSUME NEW f, NEW x, Sound(f, x), Guarded(f)
    PROVE  LET g == StartGate(f, x) IN
           Guarded(g) /\ LockKept(f, g) /\ g.attitude = f.attitude
<1>1. f \in Flight /\ Fit(f) /\ Core(f)
      BY DEF Sound, Fit, Guarded
<1>2. f.task = "waypoint" => LET g == Activate(f) IN
                             Guarded(g) /\ LockKept(f, g) /\ g.attitude = f.attitude
  <2>1. HAVE f.task = "waypoint"
  <2>2. Manned(f) /\ f.lock # NoConfig /\ f.config = f.lock
        BY <1>1, <2>1, GuardedManned DEF Busy
  <2>3. Outcome(f, Activate(f))
        BY <1>1, <2>2, ActivateFacts, ActivateAside, MannedLike
  <2> QED BY <2>2, <2>3, OutcomeGuarded DEF Outcome
<1> QED BY <1>2 DEF StartGate, LockKept

LEMMA ExecutorGuarded ==
    ASSUME NEW f, NEW x \in Context, Sound(f, x), Guarded(f), obs.armed \in BOOLEAN
    PROVE  LET g == Executor(f, x) IN
           Guarded(g) /\ LockKept(f, g) /\ g.attitude = f.attitude
<1> DEFINE l == [f EXCEPT !.latched = TRUE]
           a == FailTask(l, TRUE, x)
           e == Ended(Publish(f, "SUCCEEDED"))
           h == [e EXCEPT !.mode = "hover"]
           Good(g) == Guarded(g) /\ LockKept(f, g) /\ g.attitude = f.attitude
<1>1. CASE f.mode # "waypoint" \/ f.task # "waypoint"
      BY <1>1 DEF Executor, LockKept
<1>2. CASE f.mode = "waypoint" /\ f.task = "waypoint"
  <2>1. f \in Flight /\ Manned(f)
        BY <1>2, GuardedManned DEF Sound, Fit, Guarded, Busy
  <2>2. Executor(f, x) \in {a, h, f}
        BY <1>2 DEF Executor
  <2>3. Good(a)
    <3>1. /\ l \in Flight /\ l.task = f.task /\ l.engaged = f.engaged
          /\ l.failsafe = f.failsafe /\ l.navHold = f.navHold /\ Aside(f, l)
          BY <2>1 DEF Flight, Aside
    <3> HIDE DEF l
    <3>2. Manned(l)
          BY <2>1, <3>1 DEF Manned, Aside
    <3>3. TRUE \in BOOLEAN
          OBVIOUS
    <3>4. Guarded(a) /\ LockKept(l, a) /\ a.attitude = l.attitude
          BY <3>1, <3>2, <3>3, FailTaskGuarded
    <3> HIDE DEF a
    <3> QED BY <3>1, <3>4 DEF Aside, LockKept
  <2>4. Good(h)
    <3>1. /\ e \in Flight /\ e.task = "none" /\ Guarded(e) /\ e.attitude = f.attitude
          /\ e.lock = f.lock /\ e.link = "off" /\ ~e.failsafe
          BY <1>2, <2>1, CompletedGuarded, Members DEF Manned
    <3> HIDE DEF e
    <3>2. /\ h.task = "none" /\ h.engaged = e.engaged /\ ~h.failsafe /\ h.navHold = e.navHold
          /\ h.lock = e.lock /\ h.link = "off" /\ h.attitude = e.attitude
          BY <3>1 DEF Flight
    <3> HIDE DEF h
    <3>3. Guarded(h)
          BY <3>1, <3>2, TasklessGuarded DEF Guarded, Core, Locked, Masked, LinkHeld
    <3> QED BY <3>1, <3>2, <3>3 DEF LockKept
  <2>5. Good(f)
        BY DEF LockKept
  <2> HIDE DEF a, h, Good
  <2>6. Good(Executor(f, x))
        BY <2>2, <2>3, <2>4, <2>5
  <2> QED BY <2>6 DEF Good
<1> QED BY <1>1, <1>2

\* publish_attitude_setpoint flies what it finds, or lands.
LEMMA AttitudeGuarded ==
    ASSUME NEW f, NEW x \in Context, Sound(f, x), Guarded(f)
    PROVE  LET g == Attitude(f, x) IN
           /\ Guarded(g) /\ LockKept(f, g) /\ g.navHold = f.navHold
           /\ (g.engaged => f.engaged)
           /\ (f.mode \notin Raw => g = f)
           /\ (g.attitude => f.attitude \/ (f.engaged /\ g.mode = f.mode /\ f.mode \in Raw))
<1> DEFINE a == [f EXCEPT !.attitude = TRUE]
           l == FailsafeLand(f, x)
<1>1. f \in Flight /\ RawEngaged(f)
      BY DEF Sound, Fit
<1>2. /\ f.mode \notin Raw => Attitude(f, x) = f
      /\ Attitude(f, x) \in {f, a, l}
      BY DEF Attitude
<1>3. /\ SameCalls(f, a) /\ a.task = f.task /\ a.mode = f.mode /\ a.engaged = f.engaged
      /\ a.failsafe = f.failsafe /\ a.navHold = f.navHold
      /\ a.lock = f.lock /\ a.link = f.link /\ a.config = f.config
      BY <1>1 DEF Flight, SameCalls
<1> HIDE DEF a
<1>4. Guarded(a) /\ LockKept(f, a)
      BY <1>3 DEF SameCalls, Guarded, Core, LandLast, Locked, Masked, BusyLinked,
                  LinkHeld, LockKept
<1>5. Guarded(l) /\ LockKept(f, l) /\ l.navHold = f.navHold /\ l.attitude = f.attitude
      /\ (l.engaged => f.engaged)
      BY <1>1, FailsafeLandGuarded, FailsafeLandEffect
<1> HIDE DEF l
<1> QED BY <1>1, <1>2, <1>3, <1>4, <1>5 DEF RawEngaged, LockKept

-----------------------------------------------------------------------------
(* control_tick as a whole.                                                *)

\* The stages after enforce_safety.
Rear(f, x) == Attitude(Executor(StartGate(LandTick(TakeoffTick(f, x)), x), x), x)

LEMMA RearGuarded ==
    ASSUME NEW f, NEW x \in Context, Sound(f, x), Guarded(f), obs.armed \in BOOLEAN
    PROVE  Guarded(Rear(f, x)) /\ LockKept(f, Rear(f, x))
<1> DEFINE t == TakeoffTick(f, x)
           l == LandTick(t)
           g == StartGate(l, x)
           e == Executor(g, x)
           a == Attitude(e, x)
<1>1. Rear(f, x) = a
      BY DEF Rear
<1>2. Sound(t, x) /\ Guarded(t) /\ LockKept(f, t)
      BY TakeoffTickSound, TakeoffTickGuarded
<1> HIDE DEF t
<1>3. Sound(l, x) /\ Guarded(l) /\ LockKept(t, l)
      BY <1>2, LandTickSound, LandTickGuarded
<1> HIDE DEF l
<1>4. Sound(g, x) /\ Guarded(g) /\ LockKept(l, g)
      BY <1>3, StartGateSound, StartGateGuarded
<1> HIDE DEF g
<1>5. Sound(e, x) /\ Guarded(e) /\ LockKept(g, e)
      BY <1>4, ExecutorSound, ExecutorGuarded
<1> HIDE DEF e
<1>6. Guarded(a) /\ LockKept(e, a)
      BY <1>5, AttitudeGuarded
<1> HIDE DEF a
<1> QED BY <1>1, <1>2, <1>3, <1>4, <1>5, <1>6 DEF LockKept

\* Without a task that flies, they only publish, or land.
LEMMA RearAlone ==
    ASSUME NEW f, NEW x \in Context, Sound(f, x), Guarded(f), f.task \notin Busy
    PROVE  LET g == Rear(f, x) IN
           /\ g.navHold = f.navHold
           /\ (g.engaged => f.engaged)
           /\ (f.mode \notin Raw => g.mode \notin Raw)
           /\ (g.attitude => f.attitude \/ (f.engaged /\ g.mode = f.mode /\ f.mode \in Raw))
<1> DEFINE l == LandTick(f)
           a == Attitude(l, x)
<1>1. TakeoffTick(f, x) = f
      BY DEF TakeoffTick, Busy
<1>2. Sound(l, x)
      BY LandTickSound
<1>3. /\ Guarded(l) /\ l.attitude = f.attitude /\ l.mode = f.mode
      /\ l.engaged = f.engaged /\ l.navHold = f.navHold /\ l.task \notin Busy
      BY LandTickGuarded
<1> HIDE DEF l
<1>4. StartGate(l, x) = l /\ Executor(l, x) = l
      BY <1>3 DEF StartGate, Executor, Busy
<1>5. Rear(f, x) = a
      BY <1>1, <1>4 DEF Rear, l
<1>6. /\ a.navHold = l.navHold /\ (a.engaged => l.engaged)
      /\ (l.mode \notin Raw => a = l)
      /\ (a.attitude => l.attitude \/ (l.engaged /\ a.mode = l.mode /\ l.mode \in Raw))
      BY <1>2, <1>3, AttitudeGuarded
<1> HIDE DEF a
<1> QED BY <1>3, <1>5, <1>6

\* The first two stages, with what they establish for the rest.
Front(f, x) == Safety(NavTick(f, x), x)

LEMMA TickSplit ==
    ASSUME NEW f, NEW x \in Context, Sound(f, x), Guarded(f), obs.armed \in BOOLEAN
    PROVE  /\ ControlTick(f, x) = Rear(Front(f, x), x)
           /\ Sound(NavTick(f, x), x) /\ Core(NavTick(f, x)) /\ LinkHeldOrLeased(NavTick(f, x))
           /\ Sound(Front(f, x), x) /\ Guarded(Front(f, x)) /\ LockKept(f, Front(f, x))
           /\ Front(f, x).attitude = f.attitude
           /\ Front(f, x).navHold = NavTick(f, x).navHold
           /\ (Front(f, x).engaged => NavTick(f, x).engaged)
           /\ (NavTick(f, x).task \notin Busy => Front(f, x).task \notin Busy)
           /\ (obs.armed /\ ~lease => Orphaned(Front(f, x)))
<1> DEFINE n == NavTick(f, x)
           s == Safety(n, x)
<1>1. ControlTick(f, x) = Rear(s, x)
      BY DEF ControlTick, Rear
<1>2. /\ Sound(n, x) /\ Core(n) /\ LinkHeldOrLeased(n) /\ LockKept(f, n)
      /\ n.attitude = f.attitude
      BY NavTickSound, NavTickGuarded
<1> HIDE DEF n
<1>3. /\ Sound(s, x) /\ Guarded(s) /\ LockKept(n, s) /\ s.attitude = n.attitude
      /\ s.navHold = n.navHold /\ (s.engaged => n.engaged)
      /\ (n.task \notin Busy => s.task \notin Busy)
      /\ (obs.armed /\ ~lease => Orphaned(s))
      BY <1>2, SafetySound, SafetyGuarded
<1>4. Front(f, x) = s
      BY DEF Front, n
<1> HIDE DEF s
<1> QED BY <1>1, <1>2, <1>3, <1>4 DEF n, LockKept

LEMMA ControlTickGuarded ==
    ASSUME NEW f, NEW x \in Context, Sound(f, x), Guarded(f), obs.armed \in BOOLEAN
    PROVE  Guarded(ControlTick(f, x)) /\ LockKept(f, ControlTick(f, x))
BY TickSplit, RearGuarded DEF LockKept

\* Whatever is not engaged after enforce_safety does not fly any more.
LEMMA Disengaged ==
    ASSUME NEW f, NEW x, Sound(f, x), ~f.engaged
    PROVE  f.task \notin Busy /\ f.mode \notin Raw
BY DEF Sound, Fit, TaskEngaged, RawEngaged, Busy

\* Attitudes without a lease are those of a hold.
LEMMA TickAttitude ==
    ASSUME NEW f, NEW x \in Context, Sound(f, x), Guarded(f), obs.armed \in BOOLEAN,
           ~f.attitude, ~lease, ControlTick(f, x).attitude
    PROVE  ControlTick(f, x).mode = "hold"
<1> DEFINE s == Front(f, x)
           g == Rear(s, x)
<1>1. /\ ControlTick(f, x) = g /\ Sound(s, x) /\ Guarded(s) /\ ~s.attitude
      /\ (obs.armed => Orphaned(s))
      BY TickSplit
<1> HIDE DEF s
<1>2. CASE obs.armed
  <2>1. s.task \notin Busy /\ (s.engaged => s.mode \in {"hold", "land"})
        BY <1>1, <1>2 DEF Orphaned
  <2>2. s.engaged /\ g.mode = s.mode /\ s.mode \in Raw
        BY <1>1, <2>1, RearAlone
  <2> HIDE DEF g
  <2> QED BY <1>1, <2>1, <2>2, RawCases
<1>3. CASE ~obs.armed
  <2> DEFINE t == TakeoffTick(s, x)
             l == LandTick(t)
             d == StartGate(l, x)
             e == Executor(d, x)
  <2>1. g = Attitude(e, x)
        BY DEF Rear
  <2>2. Sound(t, x) /\ Guarded(t) /\ ~t.attitude
        BY <1>1, TakeoffTickSound, TakeoffTickGuarded
  <2> HIDE DEF t
  <2>3. Sound(l, x) /\ Guarded(l) /\ ~l.attitude
        BY <2>2, LandTickSound, LandTickGuarded
  <2> HIDE DEF l
  <2>4. Sound(d, x) /\ Guarded(d) /\ ~d.attitude
        BY <2>3, StartGateSound, StartGateGuarded
  <2> HIDE DEF d
  <2>5. Sound(e, x) /\ Guarded(e) /\ ~e.attitude
        BY <2>4, ExecutorSound, ExecutorGuarded
  <2> HIDE DEF e
  <2>6. Attitude(e, x) = e
        BY <1>3 DEF Attitude
  <2> HIDE DEF g
  <2> QED BY <1>1, <2>1, <2>5, <2>6
<1> QED BY <1>2, <1>3

\* Only the hold after lost localization, and its end, engage by themselves.
LEMMA NavTickEngages ==
    ASSUME NEW f \in Flight, NEW x \in Context, HoldArmed(f), obs.armed \in BOOLEAN, ~f.engaged,
           f.navHold = "off", NavTick(f, x).engaged
    PROVE  NavTick(f, x).navHold = "running" /\ NavTick(f, x).task = "none"
<1>1. NavTick(f, x) = IF obs.armed THEN Held(f) ELSE CancelTask(f)
      BY NavTickCases
<1>2. ~CancelTask(f).engaged
      BY CancelFacts
<1>3. obs.armed = TRUE
      BY <1>1, <1>2
<1> QED BY <1>1, <1>3, HeldFacts

LEMMA TickEngages ==
    ASSUME NEW f, NEW x \in Context, Sound(f, x), Guarded(f), obs.armed \in BOOLEAN,
           ~f.engaged, f.navHold = "off", ControlTick(f, x).engaged
    PROVE  ControlTick(f, x).navHold = "running"
<1> DEFINE n == NavTick(f, x)
           s == Front(f, x)
           g == Rear(s, x)
<1>1. f \in Flight /\ HoldArmed(f)
      BY DEF Sound, Fit
<1>2. /\ ControlTick(f, x) = g /\ Sound(s, x) /\ Guarded(s)
      /\ s.navHold = n.navHold /\ (s.engaged => n.engaged)
      /\ (n.task \notin Busy => s.task \notin Busy)
      BY TickSplit
<1>3. n.engaged => n.navHold = "running" /\ n.task = "none"
      BY <1>1, NavTickEngages
<1> HIDE DEF n, s
<1>4. s.task \notin Busy
      BY <1>2, <1>3, Disengaged DEF Busy
<1>5. g.navHold = s.navHold /\ (g.engaged => s.engaged)
      BY <1>2, <1>4, RearAlone
<1> HIDE DEF g
<1> QED BY <1>2, <1>3, <1>5

\* A failsafe LAND that nothing masks takes a disengaged LAND mode.
LEMMA FailsafeLandUnmasked ==
    ASSUME NEW f \in Flight, NEW x \in Context, ~f.failsafe, f.mode # "land"
    PROVE  FailsafeLand(f, x).mode = "land" /\ ~FailsafeLand(f, x).engaged
BY FailsafeLandEffect

LEMMA NavTickRaw ==
    ASSUME NEW f, NEW x \in Context, Sound(f, x), obs.armed = TRUE, f.mode \in Raw, ~f.failsafe
    PROVE  LET n == NavTick(f, x) IN
           \/ ~n.engaged
           \/ n.mode \in Raw /\ ~n.failsafe
<1>1. f \in Flight /\ HoldArmed(f) /\ f.mode # "land" /\ "hover" \in Raw /\ "hold" \in Raw
      BY RawCases DEF Sound, Fit
<1>2. CASE NavTick(f, x) = IF lease THEN Hover(HoldOver(f), "hover") ELSE HoldOver(f)
  <2> DEFINE r == HoldOver(f)
             h == Hover(r, "hover")
  <2>1. r \in Flight /\ r.mode = f.mode /\ ~r.failsafe
        BY <1>1, HoldOverFacts
  <2> HIDE DEF r
  <2>2. h.mode = "hover" /\ ~h.failsafe
        BY <2>1, HoverFacts, Members
  <2> HIDE DEF h
  <2> QED BY <1>1, <1>2, <2>1, <2>2 DEF h, r
<1>3. CASE NavTick(f, x) = IF obs.armed THEN Held(f) ELSE CancelTask(f)
      BY <1>1, <1>3, HeldFacts
<1>4. CASE NavTick(f, x) = FailsafeLand(f, x)
      BY <1>1, <1>4, FailsafeLandUnmasked
<1> QED BY <1>1, <1>2, <1>3, <1>4, NavTickCases

LEMMA TickUnhealthy ==
    ASSUME NEW f, NEW x \in Context, Sound(f, x), Guarded(f), obs.armed = TRUE,
           f.mode \in Raw, ~f.failsafe, Unhealthy
    PROVE  ControlTick(f, x).mode \notin Raw
<1> DEFINE n == NavTick(f, x)
           s == Front(f, x)
           g == Rear(s, x)
<1>1. /\ ControlTick(f, x) = g /\ Sound(s, x) /\ Guarded(s) /\ Sound(n, x)
      /\ (s.engaged => n.engaged)
      BY TickSplit
<1>2. ~n.engaged \/ (n.mode \in Raw /\ ~n.failsafe)
      BY NavTickRaw
<1>3. s = Safety(n, x)
      BY DEF Front
<1> HIDE DEF n, s
<1>4. ~s.engaged
  <2>1. CASE n.engaged
    <3>1. n \in Flight /\ n.mode # "land" /\ n.mode \in Raw /\ ~n.failsafe
          BY <1>1, <1>2, <2>1, RawCases DEF Sound, Fit
    <3>2. s = FailsafeLand(n, x)
          BY <1>3, <2>1, <3>1 DEF Safety
    <3> QED BY <3>1, <3>2, FailsafeLandUnmasked
  <2> QED BY <1>1, <2>1
<1>5. g.mode \notin Raw
      BY <1>1, <1>4, Disengaged, RearAlone
<1> QED BY <1>1, <1>5

\* Under an old failsafe request the localization hold goes on.
LEMMA TickMasked ==
    ASSUME NEW f, NEW x \in Context, Sound(f, x), Guarded(f), obs.armed = TRUE,
           f.engaged, f.failsafe, Unhealthy
    PROVE  ControlTick(f, x).failsafe /\ ControlTick(f, x).navHold # "off"
<1> DEFINE a == Attitude(f, x)
<1>1. f \in Flight /\ f.mode = "hold" /\ f.navHold # "off" /\ HoldArmed(f)
      BY DEF Sound, Fit, Guarded, Core, Masked
<1>2. f.task = "none"
  <2>1. f.task \notin Busy
        BY GuardedManned DEF Manned, Sound, Guarded
  <2>2. f.task # "land"
        BY DEF Sound, Fit, LandApart
  <2> QED BY <1>1, <2>1, <2>2, TaskCases DEF Busy
<1>3. FailsafeLand(f, x) = f
      BY DEF FailsafeLand
<1>4. NavTick(f, x) = f
      BY <1>1, <1>3, NavTickCases
<1>5. Safety(f, x) = f
      BY <1>1, <1>3, RawCases DEF Safety
<1>6. Rear(f, x) = a
      BY <1>1, <1>2 DEF Rear, TakeoffTick, LandTick, StartGate, Executor
<1>7. ControlTick(f, x) = a
      BY <1>4, <1>5, <1>6, TickSplit DEF Front
<1>8. a \in {f, [f EXCEPT !.attitude = TRUE]}
      BY <1>3 DEF Attitude
<1> HIDE DEF a
<1> QED BY <1>1, <1>7, <1>8 DEF Flight

\* When the hold after a lost lease is over, an unmasked tick lets go.
LEMMA NavTickOutage ==
    ASSUME NEW f, NEW x \in Context, Sound(f, x), obs.armed = TRUE, ~lease,
           f.link = "expired", ~f.failsafe, f.mode # "land"
    PROVE  LET n == NavTick(f, x) IN
           \/ ~n.engaged
           \/ n.link = "expired" /\ ~n.failsafe /\ n.mode # "land"
<1>1. f \in Flight /\ HoldArmed(f)
      BY DEF Sound, Fit
<1>2. CASE NavTick(f, x) = HoldOver(f)
      BY <1>1, <1>2, HoldOverFacts DEF Aside
<1>3. CASE NavTick(f, x) = Held(f)
      BY <1>1, <1>3, HeldFacts
<1>4. CASE NavTick(f, x) = FailsafeLand(f, x)
      BY <1>1, <1>4, FailsafeLandUnmasked
<1> QED BY <1>1, <1>2, <1>3, <1>4, NavTickCases

LEMMA TickOutage ==
    ASSUME NEW f, NEW x \in Context, Sound(f, x), Guarded(f), obs.armed = TRUE, ~lease,
           f.link = "expired", ~f.failsafe, f.mode # "land"
    PROVE  ~ControlTick(f, x).engaged
<1> DEFINE n == NavTick(f, x)
           s == Front(f, x)
           g == Rear(s, x)
<1>1. /\ ControlTick(f, x) = g /\ Sound(s, x) /\ Guarded(s) /\ Sound(n, x)
      /\ (s.engaged => n.engaged)
      BY TickSplit
<1>2. ~n.engaged \/ (n.link = "expired" /\ ~n.failsafe /\ n.mode # "land")
      BY NavTickOutage
<1>3. s = Safety(n, x)
      BY DEF Front
<1> HIDE DEF n, s
<1>4. ~s.engaged
  <2>1. CASE n.engaged
    <3>1. n \in Flight /\ n.mode # "land" /\ n.link = "expired" /\ ~n.failsafe
          BY <1>1, <1>2, <2>1 DEF Sound, Fit
    <3> DEFINE e == Ended(n)
               i == [e EXCEPT !.mode = "idle", !.engaged = FALSE]
    <3>2. s \in {FailsafeLand(n, x), i}
          BY <1>3, <2>1, <3>1 DEF Safety
    <3>3. ~i.engaged
      <4>1. e \in Flight
            BY <3>1, EndedFacts
      <4> HIDE DEF e
      <4> QED BY <4>1 DEF Flight
    <3> HIDE DEF i
    <3> QED BY <3>1, <3>2, <3>3, FailsafeLandUnmasked
  <2> QED BY <1>1, <2>1
<1>5. ~g.engaged
      BY <1>1, <1>4, Disengaged, RearAlone
<1> QED BY <1>1, <1>5

\* The same for the hold after lost localization.
LEMMA TickNavTimeout ==
    ASSUME NEW f, NEW x \in Context, Sound(f, x), Guarded(f), obs.armed = TRUE, ~Located,
           f.engaged, f.navHold = "expired", ~f.failsafe, f.mode # "land"
    PROVE  ~ControlTick(f, x).engaged
<1> DEFINE n == NavTick(f, x)
           s == Front(f, x)
           g == Rear(s, x)
<1>1. /\ ControlTick(f, x) = g /\ Sound(s, x) /\ Guarded(s) /\ (s.engaged => n.engaged)
      BY TickSplit
<1>2. f \in Flight /\ f.task # "land"
      BY DEF Sound, Fit, LandApart
<1>3. n = FailsafeLand(f, x)
      BY <1>2 DEF NavTick, Protected
<1>4. ~n.engaged
      BY <1>2, <1>3, FailsafeLandUnmasked
<1> HIDE DEF n, s
<1>5. ~g.engaged
      BY <1>1, <1>4, Disengaged, RearAlone
<1> QED BY <1>1, <1>5

-----------------------------------------------------------------------------
(* The handlers.                                                           *)

GuardInv == Inv /\ Guarded(fc)

\* What a step of LockStable and of OnlyOperatorsEngage asks.
LockStep == obs.armed /\ obs'.armed /\ fc.lock # NoConfig => fc'.lock = fc.lock
EngageStep ==
    ~fc.engaged /\ fc'.engaged => fc'.accepted \/ fc.navHold # "off" \/ fc'.navHold = "running"

Right == Guarded(fc)' /\ LockStep /\ EngageStep

LEMMA CarryRight ==
    ASSUME UNCHANGED <<obs, mission>>, Guarded(fc'), LockSame(fc, fc'), EngageStep
    PROVE  Right
BY DEF Right, LockStep, LockSame, Guarded, Core, LandLast, Locked, Masked, BusyLinked,
       LinkHeld

LEMMA StepGuarded ==
    ASSUME GuardInv
    PROVE  LET s == Step(fc) IN
           /\ s \in Flight /\ Fit(s) /\ Guarded(s) /\ HoldArmed(s)
           /\ s.task = fc.task /\ s.engaged = fc.engaged /\ s.navHold = fc.navHold
           /\ s.latched = fc.latched /\ s.mode = fc.mode /\ s.failsafe = fc.failsafe
           /\ s.lock = fc.lock /\ s.link = fc.link /\ ~s.attitude
           /\ obs.armed \in BOOLEAN
<1> DEFINE s == Step(fc)
<1>1. /\ s \in Flight /\ Like(fc, s) /\ s.mode = fc.mode /\ Fit(s)
      /\ fc \in Flight /\ obs.armed \in BOOLEAN
      BY StepFit DEF GuardInv, Inv, TypeOK
<1>2. s.lock = fc.lock /\ s.link = fc.link /\ s.config = fc.config /\ ~s.attitude
      BY <1>1, StepAside
<1> HIDE DEF s
<1>3. Guarded(s)
      BY <1>1, <1>2, SameGuarded DEF GuardInv
<1> QED BY <1>1, <1>2, <1>3 DEF Like, Guarded, Core, Fit, s

LEMMA AcceptRight ==
    ASSUME GuardInv, NEW f \in Flight, Guarded(f), LockSame(Step(fc), f), Accept(f)
    PROVE  Right
<1> DEFINE g == [f EXCEPT !.accepted = TRUE]
<1>1. fc' = g /\ UNCHANGED <<obs, mission>>
      BY DEF Accept
<1>2. /\ Like(f, g) /\ g.mode = f.mode /\ g.accepted
      /\ g.lock = f.lock /\ g.link = f.link /\ g.config = f.config
      BY DEF Flight, Like, SameCalls
<1> HIDE DEF g
<1>3. Guarded(g)
      BY <1>2, SameGuarded
<1>4. LockSame(fc, g)
      BY <1>2, StepGuarded DEF LockSame
<1>5. EngageStep
      BY <1>1, <1>2 DEF EngageStep
<1> QED BY <1>1, <1>3, <1>4, <1>5, CarryRight

LEMMA TickRight ==
    ASSUME GuardInv, Tick
    PROVE  Right
<1> DEFINE s == Step(fc)
<1>1. PICK x \in Contexts(Seen) : fc' = ControlTick(s, x)
      BY DEF Tick
<1>2. UNCHANGED <<obs, mission>>
      BY DEF Tick
<1>3. x \in Context /\ Sound(s, x)
      BY ContextFacts, SeenTypes DEF GuardInv
<1>4. /\ Guarded(s) /\ s.engaged = fc.engaged /\ s.navHold = fc.navHold /\ s.lock = fc.lock
      /\ obs.armed \in BOOLEAN
      BY StepGuarded
<1> HIDE DEF s
<1>5. Guarded(fc') /\ LockKept(s, fc')
      BY <1>1, <1>3, <1>4, ControlTickGuarded
<1>6. EngageStep
      BY <1>1, <1>3, <1>4, TickEngages DEF EngageStep
<1> QED BY <1>2, <1>4, <1>5, <1>6, CarryRight DEF LockKept, LockSame

LEMMA TakeoffRight ==
    ASSUME GuardInv, Takeoff
    PROVE  Right
<1>1. PICK config \in mission.configs, x \in Contexts({{}}) :
        ~LockedOut(config) /\ Accept(StartTakeoff(Step(fc), config, x))
      BY DEF Takeoff
<1>2. x \in Context /\ ~fc.latched /\ config \in Config
      BY ContextFacts, SeenTypes, MissionConfigs DEF Takeoff, GuardInv
<1>3. Fits(Step(fc), config)
      BY <1>1, StepGuarded DEF LockedOut, Fits
<1>4. StartTakeoff(Step(fc), config, x) \in Flight
      BY <1>2, StepGuarded, StartTakeoffFit DEF Fit
<1>5. /\ Guarded(StartTakeoff(Step(fc), config, x))
      /\ LockSame(Step(fc), StartTakeoff(Step(fc), config, x))
      BY <1>2, <1>3, StepGuarded, StartTakeoffGuarded
<1> QED BY <1>1, <1>4, <1>5, AcceptRight

LEMMA ExecuteWaypointsRight ==
    ASSUME GuardInv, ExecuteWaypoints
    PROVE  Right
<1>1. PICK config \in mission.configs, x \in Contexts(Gate) :
        ~LockedOut(config) /\ Accept(StartWaypoints(Step(fc), config, x))
      BY DEF ExecuteWaypoints
<1>2. x \in Context /\ ~fc.latched /\ config \in Config
      BY ContextFacts, SeenTypes, MissionConfigs DEF ExecuteWaypoints, WaypointsReady, GuardInv
<1>3. Fits(Step(fc), config)
      BY <1>1, StepGuarded DEF LockedOut, Fits
<1>4. StartWaypoints(Step(fc), config, x) \in Flight
      BY <1>2, StepGuarded, StartWaypointsFit DEF Fit
<1>5. /\ Guarded(StartWaypoints(Step(fc), config, x))
      /\ LockSame(Step(fc), StartWaypoints(Step(fc), config, x))
      BY <1>2, <1>3, StepGuarded, StartWaypointsGuarded
<1> QED BY <1>1, <1>4, <1>5, AcceptRight

LEMMA LandRight ==
    ASSUME GuardInv, Land
    PROVE  Right
<1>1. PICK x \in Contexts({{}}) : Accept(StartLand(Step(fc), x, FALSE))
      BY DEF Land
<1>2. x \in Context /\ x.new \notin Asked(Step(fc))
      BY ContextFacts, SeenTypes, StepFit DEF GuardInv
<1>3. StartLand(Step(fc), x, FALSE) \in Flight
      BY <1>2, StepGuarded, StartLandSound DEF Sound, Fit
<1>4. /\ Guarded(StartLand(Step(fc), x, FALSE))
      /\ LockSame(Step(fc), StartLand(Step(fc), x, FALSE))
      BY <1>2, StepGuarded, StartLandGuarded DEF LockKept, LockSame
<1> QED BY <1>1, <1>3, <1>4, AcceptRight

\* What is left of a flight that an operator stops.
LEMMA CancelledFacts ==
    ASSUME GuardInv
    PROVE  LET c == CancelTask(Step(fc)) IN
           /\ c \in Flight /\ c.task = "none" /\ c.navHold = fc.navHold
           /\ c.lock = (IF obs.armed THEN fc.lock ELSE NoConfig) /\ obs.armed \in BOOLEAN
<1>1. Step(fc) \in Flight
      BY StepGuarded
<1>2. LET c == CancelTask(Step(fc)) IN
      /\ c \in Flight /\ c.task = "none" /\ c.navHold = Step(fc).navHold
      /\ c.lock = (IF obs.armed THEN Step(fc).lock ELSE NoConfig)
      BY <1>1, CancelFacts, CancelAside
<1> QED BY <1>2, StepGuarded

LEMMA HoveringGuarded ==
    ASSUME GuardInv, obs.armed = TRUE
    PROVE  LET f == ClearFailsafe(Hover(CancelTask(Step(fc)), "hover")) IN
           f \in Flight /\ Guarded(f) /\ LockSame(Step(fc), f)
<1> DEFINE c == CancelTask(Step(fc))
           h == Hover(c, "hover")
           f == ClearFailsafe(h)
<1>1. c \in Flight /\ c.task = "none" /\ c.lock = fc.lock
      BY CancelledFacts
<1> HIDE DEF c
<1>2. /\ h \in Flight /\ h.task = "none" /\ h.engaged /\ h.navHold = c.navHold /\ h.lock = fc.lock
      BY <1>1, HoverEffect, Members
<1> HIDE DEF h
<1>3. /\ f \in Flight /\ f.task = "none" /\ f.engaged /\ ~f.failsafe
      /\ f.link = "off" /\ f.navHold = c.navHold /\ f.lock = fc.lock
      BY <1>2, ClearFailsafeFacts, ClearFailsafeAside
<1> HIDE DEF f
<1>4. Guarded(f) /\ LockSame(Step(fc), f)
      BY <1>1, <1>3, StepGuarded, TasklessGuarded DEF Masked, LinkHeld, LockSame
<1> QED BY <1>3, <1>4 DEF f, h, c

LEMMA HoverCommandRight ==
    ASSUME GuardInv, HoverCommand
    PROVE  Right
<1>1. obs.armed = TRUE /\ Accept(ClearFailsafe(Hover(CancelTask(Step(fc)), "hover")))
      BY StepGuarded DEF HoverCommand, Controllable
<1> QED BY <1>1, HoveringGuarded, AcceptRight

LEMMA CancelRight ==
    ASSUME GuardInv, Cancel
    PROVE  Right
<1> DEFINE c == CancelTask(Step(fc))
           i == [c EXCEPT !.mode = "idle", !.engaged = FALSE]
           f == ClearFailsafe(i)
<1>1. Accept(ClearFailsafe(IF obs.armed /\ Guided /\ Pose THEN Hover(c, "hover") ELSE i))
      BY DEF Cancel
<1>2. CASE obs.armed /\ Guided /\ Pose
  <2>1. obs.armed = TRUE
        BY <1>2, StepGuarded
  <2> QED BY <1>1, <1>2, <2>1, HoveringGuarded, AcceptRight
<1>3. CASE ~(obs.armed /\ Guided /\ Pose)
  <2>1. /\ c \in Flight /\ c.task = "none"
        /\ c.lock = (IF obs.armed THEN fc.lock ELSE NoConfig)
        BY CancelledFacts
  <2>2. Accept(f)
        BY <1>1, <1>3
  <2> HIDE DEF c
  <2>3. /\ i \in Flight /\ i.task = "none" /\ ~i.engaged /\ i.navHold = c.navHold /\ i.lock = c.lock
        BY <2>1, IdleFacts, IdleAside DEF Aside
  <2> HIDE DEF i
  <2>4. /\ f \in Flight /\ f.task = "none" /\ ~f.engaged /\ f.navHold = c.navHold /\ f.lock = c.lock
        BY <2>3, ClearFailsafeFacts, ClearFailsafeAside
  <2> HIDE DEF f
  <2>5. Guarded(f) /\ LockSame(Step(fc), f)
        BY <2>1, <2>4, StepGuarded, DisengagedGuarded DEF LandLast, LockSame, Busy
  <2> QED BY <2>2, <2>4, <2>5, AcceptRight
<1> QED BY <1>2, <1>3

LEMMA MotionRight ==
    ASSUME GuardInv, Motion
    PROVE  Right
<1> DEFINE k == CancelTask(Step(fc))
           c == ClearFailsafe(k)
           f == [c EXCEPT !.mode = "motion", !.engaged = TRUE]
<1>1. Accept(f) /\ obs.armed
      BY DEF Motion, Controllable
<1>2. k \in Flight /\ k.task = "none" /\ k.lock = fc.lock
      BY <1>1, CancelledFacts
<1> HIDE DEF k
<1>3. /\ c \in Flight /\ c.task = "none" /\ c.navHold = k.navHold /\ c.lock = fc.lock
      /\ ~c.failsafe /\ c.link = "off"
      BY <1>2, ClearFailsafeFacts, ClearFailsafeAside
<1> HIDE DEF c
<1>4. /\ f \in Flight /\ f.task = "none" /\ f.navHold = k.navHold /\ f.lock = fc.lock
      /\ ~f.failsafe /\ f.link = "off" /\ f.engaged
      BY <1>3, Members DEF Flight
<1> HIDE DEF f
<1>5. Guarded(f) /\ LockSame(Step(fc), f)
      BY <1>2, <1>4, StepGuarded, TasklessGuarded DEF Masked, LinkHeld, LockSame
<1> QED BY <1>1, <1>4, <1>5, AcceptRight

\* Steps that change no field of the invariant but the queue.
LEMMA KeptGuarded ==
    ASSUME NEW f, NEW g, Guarded(f), Fields(f, g), g.navHold = f.navHold,
           Aside(f, g), LandLast(g)
    PROVE  Guarded(g)
BY DEF Fields, Aside, Guarded, Core, Locked, Masked, BusyLinked, LinkHeld

LEMMA AnsweredGuarded ==
    ASSUME NEW f, NEW x \in Context, Fit(f), Guarded(f), NEW r \in Reply, r.kind # "land",
           Matches(f, r) => f.task # "land", obs.armed \in BOOLEAN
    PROVE  LET g == Answered(f, r, x) IN
           Guarded(g) /\ LockKept(f, g) /\ (g.engaged => f.engaged)
<1> DEFINE c == [f EXCEPT !.phase = "climbing", !.timer = "running"]
           g == Answered(f, r, x)
<1>1. f \in Flight
      BY DEF Fit
<1>2. CASE ~Matches(f, r)
      BY <1>2 DEF Answered, LockKept
<1>3. CASE Matches(f, r)
  <2>1. f.task \in Busy
        BY <1>1, <1>3, TaskCases DEF Matches, Busy
  <2>2. Manned(f) /\ f.lock # NoConfig /\ (f.task = "waypoint" => f.config = f.lock)
        BY <2>1, GuardedManned DEF Guarded
  <2>3. f.engaged
        BY <2>2 DEF Manned
  <2>4. \A land \in BOOLEAN : LET h == FailTask(f, land, x) IN Guarded(h) /\ LockKept(f, h)
        BY <1>1, <2>2, FailTaskGuarded
  <2>5. Outcome(f, EnsureArmed(f, x)) /\ Outcome(f, Ready(f, x))
        BY <1>1, <2>2, EnsureArmedOutcome, ReadyOutcome
  <2>6. Like(f, c) /\ Aside(f, c)
        BY <1>1 DEF Flight, Like, SameCalls, Aside
  <2>7. r.kind \in {"guided", "arm", "takeoff"}
        BY DEF Reply
  <2>8. (r.kind = "takeoff") \in BOOLEAN
        OBVIOUS
  <2>9. \/ g = FailTask(f, r.kind = "takeoff", x)
        \/ g \in {EnsureArmed(f, x), Ready(f, x), c}
        BY <1>3, <2>7 DEF Answered
  <2> HIDE DEF c, g
  <2>10. Outcome(f, c)
        BY <2>2, <2>6, MannedLike
  <2>11. g \in {EnsureArmed(f, x), Ready(f, x), c} => Outcome(f, g)
        BY <2>5, <2>10
  <2>12. Guarded(g) /\ LockKept(f, g)
    <3>1. CASE g = FailTask(f, r.kind = "takeoff", x)
          BY <2>4, <2>8, <3>1
    <3>2. CASE Outcome(f, g)
          BY <2>2, <3>2, OutcomeGuarded DEF Outcome
    <3> QED BY <2>9, <2>11, <3>1, <3>2
  <2> QED BY <2>3, <2>12 DEF g
<1> QED BY <1>2, <1>3

LEMMA LandAnsweredGuarded ==
    ASSUME NEW f, Fit(f), Guarded(f), NEW r \in Reply
    PROVE  LET g == LandAnswered(f, r) IN
           Guarded(g) /\ LockKept(f, g) /\ (g.engaged => f.engaged)
<1> DEFINE h == [f EXCEPT !.handle = FALSE]
           a == [h EXCEPT !.timer = "running", !.mode = "land"]
           e == Ended(Publish(h, "FAILED"))
           n == [e EXCEPT !.failsafe = @ /\ ~r.failsafe]
<1>1. f \in Flight /\ TaskEngaged(f) /\ LandApart(f)
      BY DEF Fit
<1>2. h \in Flight /\ Like(f, h) /\ h.mode = f.mode /\ Aside(f, h)
      BY <1>1 DEF Flight, Like, SameCalls, Aside
<1>3. LandAnswered(f, r) = IF ~r.current THEN f ELSE IF ~Matches(f, r) THEN h
                           ELSE IF r.ok THEN a ELSE n
      BY <1>1 DEF LandAnswered, Matches, Flight
<1>4. Matches(f, r) => h.task # "none"
      BY <1>2 DEF Matches, Like
<1> HIDE DEF h
<1>5. Guarded(h) /\ h.lock = f.lock /\ h.engaged = f.engaged
      BY <1>2, SameGuarded DEF Aside, Like
<1>6. h.task # "none" => Guarded(a) /\ a.lock = f.lock /\ a.engaged = f.engaged
  <2>1. HAVE h.task # "none"
  <2>2. /\ Like(h, a) /\ Aside(h, a) /\ a.mode = "land"
        BY <1>2 DEF Flight, Like, SameCalls, Aside
  <2>3. h.engaged => ~h.failsafe
    <3>1. h.task \in {"takeoff", "waypoint", "land"}
          BY <1>2, <2>1, TaskCases
    <3> QED BY <1>1, <1>2, <3>1 DEF TaskEngaged, LandApart, Like
  <2> HIDE DEF a
  <2> QED BY <1>5, <2>2, <2>3
          DEF Like, SameCalls, Aside, Guarded, Core, LandLast, Locked, Masked,
              BusyLinked, LinkHeld
<1>7. h.task # "none" => Guarded(n) /\ n.lock = f.lock /\ n.engaged = f.engaged
  <2>1. HAVE h.task # "none"
  <2>2. /\ e \in Flight /\ Guarded(e) /\ e.lock = h.lock /\ e.task = "none"
        /\ e.engaged = h.engaged
        BY <1>2, <1>5, <2>1, CompletedGuarded, Members
  <2> HIDE DEF e
  <2>3. /\ n.task = e.task /\ n.mode = e.mode /\ n.engaged = e.engaged /\ n.navHold = e.navHold
        /\ n.lock = e.lock /\ n.link = e.link /\ n.modeQueue = e.modeQueue
        /\ (n.failsafe => e.failsafe)
        BY <2>2 DEF Flight
  <2> HIDE DEF n
  <2> QED BY <1>5, <2>2, <2>3
          DEF Guarded, Core, LandLast, Locked, Masked, BusyLinked, LinkHeld, Busy
<1> HIDE DEF a, n
<1> QED BY <1>3, <1>4, <1>5, <1>6, <1>7 DEF LockKept

LEMMA ReceiveReplyRight ==
    ASSUME GuardInv, NEW r, ReceiveReply(r)
    PROVE  Right
<1> DEFINE s == Step(fc)
           rs == s.replies \ {r}
           f == [s EXCEPT !.replies = rs]
<1>1. PICK x \in Contexts(Gate) :
        fc' = IF r.kind = "land" THEN LandAnswered(f, r) ELSE Answered(f, r, x)
      BY DEF ReceiveReply
<1>2. r \in fc.replies /\ UNCHANGED <<obs, mission>> /\ Inv
      BY DEF ReceiveReply, GuardInv
<1>3. x \in Context /\ r \in Reply
      BY <1>2, ContextFacts, SeenTypes DEF Inv, TypeOK, Flight
<1>4. /\ s \in Flight /\ Fit(s) /\ Guarded(s) /\ HoldArmed(s) /\ obs.armed \in BOOLEAN
      /\ s.engaged = fc.engaged /\ s.lock = fc.lock
      BY StepGuarded
<1>5. Asked(s) = Asked(fc) /\ Like(fc, s)
      BY <1>2, StepFit
<1> HIDE DEF s
<1>6. rs \in SUBSET Reply /\ rs \subseteq s.replies
      BY <1>4 DEF Flight
<1> HIDE DEF rs
<1>7. /\ f \in Flight /\ Fields(s, f) /\ f.navHold = s.navHold /\ Aside(s, f)
      /\ f.modeQueue = s.modeQueue /\ f.calls = s.calls /\ f.replies = rs
      BY <1>4, <1>6 DEF Flight, Fields, Aside
<1> HIDE DEF f
<1>8. Asked(f) \subseteq Asked(s)
      BY <1>6, <1>7 DEF Asked
<1>9. Fit(f)
      BY <1>4, <1>7, <1>8, ShrunkFit DEF HoldArmed
<1>10. Guarded(f)
  <2>1. LandLast(f)
        BY <1>4, <1>7 DEF Guarded, Core, LandLast, Fields
  <2> QED BY <1>4, <1>7, <2>1, KeptGuarded
<1>11. Guarded(fc') /\ LockKept(f, fc') /\ (fc'.engaged => f.engaged)
  <2>1. CASE r.kind = "land"
        BY <1>1, <1>3, <1>9, <1>10, <2>1, LandAnsweredGuarded
  <2>2. CASE r.kind # "land"
    <3>1. r.cmd \in Asked(fc)
          BY <1>2, <2>2 DEF Asked
    <3>2. fc.task = "land" => fc.cmd # r.cmd
          BY <1>2, <3>1 DEF Inv, Fit, LandApart
    <3>3. Matches(f, r) => f.task # "land"
          BY <1>5, <1>7, <3>2 DEF Matches, Like, Fields
    <3> QED BY <1>1, <1>3, <1>4, <1>9, <1>10, <2>2, <3>3, AnsweredGuarded
  <2> QED BY <2>1, <2>2
<1>12. f.engaged = fc.engaged /\ f.lock = fc.lock
      BY <1>4, <1>7 DEF Fields, Aside
<1>13. LockSame(fc, fc') /\ EngageStep
      BY <1>11, <1>12 DEF LockKept, LockSame, EngageStep
<1> QED BY <1>2, <1>11, <1>13, CarryRight

LEMMA LandRetryRight ==
    ASSUME GuardInv, LandRetry
    PROVE  Right
<1> DEFINE s == Step(fc)
           g == [s EXCEPT !.handle = FALSE, !.attempt = "recent"]
           f == IF fc.handle THEN Superseded(g) ELSE g
<1>1. PICK x \in Contexts({{}}) :
        fc' = IF f.task = "land" THEN SendLand(f, x, TRUE) ELSE StartLand(f, x, TRUE)
      BY DEF LandRetry
<1>2. UNCHANGED <<obs, mission>> /\ obs.armed /\ Inv
      BY DEF LandRetry, GuardInv
<1>3. x \in Context
      BY <1>2, ContextFacts, SeenTypes
<1>4. /\ s \in Flight /\ Fit(s) /\ s.lock = fc.lock /\ s.engaged = fc.engaged
      BY StepGuarded
<1> HIDE DEF s
<1>5. /\ g \in Flight /\ Fields(s, g) /\ g.navHold = s.navHold /\ g.lock = s.lock
      BY <1>4, Members DEF Flight, Fields
<1> HIDE DEF g
<1>6. /\ f \in Flight /\ Fields(s, f) /\ f.navHold = s.navHold /\ f.lock = s.lock
      BY <1>5, SupersededFacts, SupersededAside DEF Fields, Aside
<1> HIDE DEF f
<1>7. f.engaged = fc.engaged /\ f.lock = fc.lock
      BY <1>4, <1>6 DEF Fields
<1>8. CASE f.task = "land"
  <2>1. f.cmd \in Cmd /\ ~f.engaged
        BY <1>4, <1>6, <1>8 DEF Fit, Named, LandApart, Fields
  <2>2. /\ fc'.task \in {"none", "land"} /\ LandLast(fc') /\ fc'.engaged = f.engaged
        /\ fc'.navHold = f.navHold /\ fc'.lock = f.lock
        BY <1>1, <1>6, <1>8, <2>1, SendLandEffect
  <2>3. Guarded(fc')
        BY <1>2, <2>1, <2>2, DisengagedGuarded DEF Busy
  <2> QED BY <1>2, <1>7, <2>1, <2>2, <2>3, CarryRight DEF LockSame, EngageStep
<1>9. CASE f.task # "land"
  <2>1. /\ fc' = StartLand(f, x, TRUE) /\ ~fc'.engaged
        BY <1>1, <1>3, <1>6, <1>9, StartLandEffect
  <2>2. Guarded(fc') /\ LockKept(f, fc')
        BY <1>3, <1>6, <1>7, <2>1, StartLandGuarded
  <2> QED BY <1>2, <1>7, <2>1, <2>2, CarryRight DEF LockKept, LockSame, EngageStep
<1> QED BY <1>8, <1>9

LEMMA DisarmedAside ==
    ASSUME NEW f \in Flight
    PROVE  Disarmed(f).lock = NoConfig
BY DEF Disarmed, Idle

\* The end of a flight is the end of everything that is guarded.
LEMMA StateRight ==
    ASSUME GuardInv, NEW connected \in BOOLEAN, State(connected)
    PROVE  Right
<1>1. /\ fc' = IF obs.armed /\ ~obs'.armed THEN Disarmed(Step(fc)) ELSE fc
      /\ mission' = mission
      BY DEF State
<1>2. CASE obs.armed /\ ~obs'.armed
  <2>1. /\ fc'.task = "none" /\ ~fc'.engaged /\ fc'.navHold = "off" /\ fc'.lock = NoConfig
        BY <1>1, <1>2, StepGuarded, DisarmedFacts, DisarmedAside
  <2>2. Guarded(fc)'
        BY <2>1 DEF Guarded, Core, LandLast, Locked, Masked, BusyLinked, LinkHeld, Busy
  <2> QED BY <1>2, <2>1, <2>2 DEF Right, LockStep, EngageStep
<1>3. CASE ~(obs.armed /\ ~obs'.armed)
  <2>1. fc' = fc /\ (~obs'.armed => ~obs.armed) /\ Guarded(fc)
        BY <1>1, <1>3 DEF GuardInv
  <2>2. Guarded(fc)'
        BY <1>1, <2>1
        DEF Guarded, Core, LandLast, Locked, Masked, BusyLinked, LinkHeld
  <2> QED BY <2>1, <2>2 DEF Right, LockStep, EngageStep
<1> QED BY <1>2, <1>3

LEMMA ElapseRight ==
    ASSUME GuardInv, NEW field \in {"timer", "link", "navHold"}, Elapse(field)
    PROVE  Right
<1> DEFINE t == [fc EXCEPT !.timer = "expired"]
           l == [fc EXCEPT !.link = "expired"]
           n == [fc EXCEPT !.navHold = "expired"]
<1>1. /\ fc \in Flight /\ Guarded(fc) /\ fc[field] = "running" /\ UNCHANGED <<obs, mission>>
      BY DEF Elapse, GuardInv, Inv, TypeOK
<1>2. fc' = [fc EXCEPT ![field] = "expired"]
      BY DEF Elapse
<1>3. /\ Like(fc, t) /\ t.mode = fc.mode /\ Aside(fc, t)
      /\ Like(fc, l) /\ l.mode = fc.mode /\ l.lock = fc.lock /\ l.config = fc.config
      /\ l.link = "expired"
      /\ Fields(fc, n) /\ Aside(fc, n) /\ n.modeQueue = fc.modeQueue /\ n.navHold = "expired"
      BY <1>1 DEF Flight, Like, SameCalls, Fields, Aside
<1>4. field = "timer" => fc' = t
      BY <1>2
<1>5. field = "link" => fc' = l /\ fc.link # "off"
      BY <1>1, <1>2
<1>6. field = "navHold" => fc' = n /\ fc.navHold # "off"
      BY <1>1, <1>2
<1> HIDE DEF t, l, n
<1>7. Guarded(t)
      BY <1>1, <1>3, SameGuarded DEF Aside
<1>8. fc.link # "off" => Guarded(l)
      BY <1>1, <1>3
      DEF Like, SameCalls, Guarded, Core, LandLast, Locked, Masked, BusyLinked, LinkHeld
<1>9. fc.navHold # "off" => Guarded(n)
      BY <1>1, <1>3
      DEF Fields, Aside, Guarded, Core, LandLast, Locked, Masked, BusyLinked, LinkHeld
<1>10. Guarded(fc') /\ fc'.lock = fc.lock /\ fc'.engaged = fc.engaged
      BY <1>3, <1>4, <1>5, <1>6, <1>7, <1>8, <1>9 DEF Like, Fields, Aside
<1> QED BY <1>1, <1>10, CarryRight DEF LockSame, EngageStep

LEMMA ElapseAttemptRight ==
    ASSUME GuardInv, ElapseAttempt
    PROVE  Right
<1> DEFINE g == [fc EXCEPT !.attempt = IF @ = "recent" THEN "due" ELSE "overdue"]
<1>1. fc \in Flight /\ Guarded(fc) /\ UNCHANGED <<obs, mission>> /\ fc' = g
      BY DEF ElapseAttempt, GuardInv, Inv, TypeOK
<1>2. Like(fc, g) /\ g.mode = fc.mode /\ Aside(fc, g)
      BY <1>1 DEF Flight, Like, SameCalls, Aside
<1> HIDE DEF g
<1>3. Guarded(g)
      BY <1>1, <1>2, SameGuarded DEF Aside
<1> QED BY <1>1, <1>2, <1>3, CarryRight DEF Like, Aside, LockSame, EngageStep

-----------------------------------------------------------------------------
(* The surroundings.                                                       *)

\* Whatever leaves the queue at its head leaves its last request alone.
LEMMA TailLast ==
    ASSUME NEW f \in Flight, LandLast(f), f.modeQueue # <<>>,
           NEW g, g.task = f.task, g.modeQueue = Tail(f.modeQueue)
    PROVE  LandLast(g)
<1> DEFINE q == f.modeQueue
           t == Tail(q)
<1>1. q \in Seq(ModeCall) /\ q # <<>>
      BY DEF Flight
<1>2. /\ Len(q) \in Nat /\ Len(q) >= 1 /\ Len(t) = Len(q) - 1
      /\ \A i \in 1..(Len(q) - 1) : t[i] = q[i + 1]
      BY <1>1
<1>3. t # <<>> => Len(t) \in 1..(Len(q) - 1)
      BY <1>1, <1>2
<1>4. t # <<>> => t[Len(t)] = q[Len(q)]
      BY <1>2, <1>3
<1> QED BY <1>4 DEF LandLast

\* Serving or losing calls and replies.
LEMMA ExternalRight ==
    ASSUME GuardInv, UNCHANGED <<obs, mission>>, NEW g, fc' = g, Fields(fc, g),
           g.navHold = fc.navHold, Aside(fc, g),
           \/ g.modeQueue = fc.modeQueue
           \/ fc.modeQueue # <<>> /\ g.modeQueue = Tail(fc.modeQueue)
    PROVE  Right
<1>1. fc \in Flight /\ Guarded(fc) /\ LandLast(fc)
      BY DEF GuardInv, Inv, TypeOK, Guarded, Core
<1>2. LandLast(g)
      BY <1>1, TailLast DEF Fields, LandLast
<1>3. Guarded(g)
      BY <1>1, <1>2, KeptGuarded
<1> QED BY <1>3, CarryRight DEF Fields, Aside, LockSame, EngageStep

LEMMA ServeModeRight ==
    ASSUME GuardInv, ServeMode
    PROVE  Right
<1>1. PICK ok \in Outcomes :
        fc' = [fc EXCEPT !.modeQueue = Tail(@),
                         !.replies = @ \cup {Answer(Head(fc.modeQueue), ok)}]
      BY DEF ServeMode
<1>2. fc.modeQueue # <<>> /\ UNCHANGED <<obs, mission>> /\ fc \in Flight
      BY DEF ServeMode, GuardInv, Inv, TypeOK
<1> DEFINE t == Tail(fc.modeQueue)
           rs == fc.replies \cup {Answer(Head(fc.modeQueue), ok)}
           g == [fc EXCEPT !.modeQueue = t, !.replies = rs]
<1>3. fc' = g
      BY <1>1
<1> HIDE DEF t, rs
<1>4. Fields(fc, g) /\ g.navHold = fc.navHold /\ Aside(fc, g) /\ g.modeQueue = t
      BY <1>2 DEF Flight, Fields, Aside
<1> HIDE DEF g
<1> QED BY <1>2, <1>3, <1>4, ExternalRight DEF t

LEMMA ServeCallRight ==
    ASSUME GuardInv, ServeCall
    PROVE  Right
<1>1. PICK c \in fc.calls, ok \in Outcomes :
        fc' = [fc EXCEPT !.calls = @ \ {c}, !.replies = @ \cup {Answer(c, ok)}]
      BY DEF ServeCall
<1>2. UNCHANGED <<obs, mission>> /\ fc \in Flight
      BY DEF ServeCall, GuardInv, Inv, TypeOK
<1> DEFINE cs == fc.calls \ {c}
           rs == fc.replies \cup {Answer(c, ok)}
           g == [fc EXCEPT !.calls = cs, !.replies = rs]
<1>3. fc' = g
      BY <1>1
<1> HIDE DEF cs, rs
<1>4. Fields(fc, g) /\ g.navHold = fc.navHold /\ Aside(fc, g) /\ g.modeQueue = fc.modeQueue
      BY <1>2 DEF Flight, Fields, Aside
<1> HIDE DEF g
<1> QED BY <1>2, <1>3, <1>4, ExternalRight

LEMMA LoseRight ==
    ASSUME GuardInv, Lose
    PROVE  Right
<1>1. fc \in Flight /\ UNCHANGED <<obs, mission>>
      BY DEF Lose, GuardInv, Inv, TypeOK
<1>2. \A t : LET g == [fc EXCEPT !.modeQueue = t] IN
      Fields(fc, g) /\ g.navHold = fc.navHold /\ Aside(fc, g) /\ g.modeQueue = t
      BY <1>1 DEF Flight, Fields, Aside
<1>3. \A cs : LET g == [fc EXCEPT !.calls = cs] IN
      Fields(fc, g) /\ g.navHold = fc.navHold /\ Aside(fc, g) /\ g.modeQueue = fc.modeQueue
      BY <1>1 DEF Flight, Fields, Aside
<1>4. \A rs : LET g == [fc EXCEPT !.replies = rs] IN
      Fields(fc, g) /\ g.navHold = fc.navHold /\ Aside(fc, g) /\ g.modeQueue = fc.modeQueue
      BY <1>1 DEF Flight, Fields, Aside
<1>5. CASE fc.modeQueue # <<>> /\ fc' = [fc EXCEPT !.modeQueue = Tail(@)]
      BY <1>1, <1>2, <1>5, ExternalRight
<1>6. ASSUME NEW c \in fc.calls, fc' = [fc EXCEPT !.calls = @ \ {c}]
      PROVE  Right
      BY <1>1, <1>3, <1>6, ExternalRight
<1>7. ASSUME NEW r \in fc.replies, fc' = [fc EXCEPT !.replies = @ \ {r}]
      PROVE  Right
      BY <1>1, <1>4, <1>7, ExternalRight
<1> QED BY <1>5, <1>6, <1>7 DEF Lose

\* What Odin reports ends a hold on the ground at most, where there is none.
LEMMA NavigationStatusRight ==
    ASSUME GuardInv, NavigationStatus
    PROVE  Right
<1> DEFINE g == [fc EXCEPT !.navHold = "off"]
<1>1. fc' = fc \/ (fc' = g /\ ~obs.armed)
      BY DEF NavigationStatus
<1>2. UNCHANGED <<obs, mission>> /\ fc \in Flight /\ HoldArmed(fc)
      BY DEF NavigationStatus, GuardInv, Inv, TypeOK, Fit
<1>3. CASE fc' = fc
  <2>1. Fields(fc, fc') /\ fc'.navHold = fc.navHold /\ Aside(fc, fc')
        BY <1>3 DEF Fields, Aside
  <2> QED BY <1>2, <1>3, <2>1, ExternalRight
<1>4. CASE fc' = g /\ ~obs.armed
  <2>1. /\ Fields(fc, g) /\ g.navHold = "off" /\ Aside(fc, g) /\ g.modeQueue = fc.modeQueue
        BY <1>2 DEF Flight, Fields, Aside
  <2>2. fc.navHold = "off"
        BY <1>2, <1>4 DEF HoldArmed
  <2> HIDE DEF g
  <2> QED BY <1>2, <1>4, <2>1, <2>2, ExternalRight
<1> QED BY <1>1, <1>3, <1>4

\* A switch of the navigation mode begins on the ground and leaves the flight alone.
LEMMA SetNavigationModeRight ==
    ASSUME GuardInv, SetNavigationMode
    PROVE  Right
<1> DEFINE s == Step(fc)
           g == [s EXCEPT !.accepted = TRUE]
<1>1. fc' = g /\ UNCHANGED <<obs, mission>>
      BY DEF SetNavigationMode
<1>2. /\ s \in Flight /\ Guarded(s) /\ s.engaged = fc.engaged /\ s.lock = fc.lock
      BY StepGuarded
<1> HIDE DEF s
<1>3. Like(s, g) /\ g.mode = s.mode /\ Aside(s, g)
      BY <1>2 DEF Flight, Like, SameCalls, Aside
<1> HIDE DEF g
<1>4. Guarded(g)
      BY <1>2, <1>3, SameGuarded DEF Aside
<1> QED BY <1>1, <1>2, <1>3, <1>4, CarryRight DEF Like, Aside, LockSame, EngageStep

\* Telemetry, thrust mode, localization, the lease and the FCU's own changes.
LEMMA SurroundingsRight ==
    ASSUME GuardInv, UNCHANGED <<fc, obs, mission>>
    PROVE  Right
<1>1. Fields(fc, fc') /\ fc'.navHold = fc.navHold /\ Aside(fc, fc')
      BY DEF Fields, Aside
<1> QED BY <1>1, ExternalRight

LEMMA GuardInit == Init => GuardInv
<1> SUFFICES ASSUME Init PROVE GuardInv
    OBVIOUS
<1>1. fc = Idle
      BY DEF Init
<1>2. Guarded(Idle)
      BY DEF Idle, Guarded, Core, LandLast, Locked, Masked, BusyLinked, LinkHeld, Busy
<1> QED BY <1>1, <1>2, InitInv DEF GuardInv

LEMMA NextRight ==
    ASSUME GuardInv, [Next]_vars
    PROVE  Right
<1>1. CASE Tick
      BY <1>1, TickRight
<1>2. CASE LandRetry
      BY <1>2, LandRetryRight
<1>3. CASE ObserveState
  <2>1. TRUE \in BOOLEAN /\ FALSE \in BOOLEAN
        OBVIOUS
  <2> QED BY <1>3, <2>1, StateRight DEF ObserveState
<1>4. CASE \E r \in fc.replies : ReceiveReply(r)
      BY <1>4, ReceiveReplyRight
<1>5. CASE Takeoff \/ Land \/ HoverCommand \/ Cancel \/ ExecuteWaypoints \/ Motion
      BY <1>5, TakeoffRight, LandRight, HoverCommandRight, CancelRight, ExecuteWaypointsRight,
         MotionRight
<1>6. CASE (\E field \in {"timer", "link", "navHold"} : Elapse(field)) \/ ElapseAttempt
      BY <1>6, ElapseRight, ElapseAttemptRight
<1>7. CASE Telemetry \/ ThrustMode \/ Localization \/ LeaseChange \/ FcuDisarms \/ Pilot
             \/ NavigationTf
      BY <1>7, SurroundingsRight
      DEF Telemetry, ThrustMode, Localization, LeaseChange, FcuDisarms, Pilot, NavigationTf
<1>8. CASE ServeMode \/ ServeCall \/ Lose
      BY <1>8, ServeModeRight, ServeCallRight, LoseRight
<1>9. CASE SetNavigationMode \/ NavigationStatus
      BY <1>9, SetNavigationModeRight, NavigationStatusRight
<1>10. CASE UNCHANGED vars
      BY <1>10, SurroundingsRight DEF vars
<1> QED BY <1>1, <1>2, <1>3, <1>4, <1>5, <1>6, <1>7, <1>8, <1>9, <1>10 DEF Next

LEMMA GuardNext == GuardInv /\ [Next]_vars => GuardInv'
BY NextInv, NextRight DEF GuardInv, Right

LEMMA GuardInvariance == Spec => []GuardInv
BY GuardInit, GuardNext, PTL DEF Spec

-----------------------------------------------------------------------------
(* The theorems.                                                           *)

(* While a LAND is active, the newest mode request on its way to the FCU   *)
(* is a LAND: whatever commands, replies and losses came before, no GUIDED *)
(* request is queued behind it.                                            *)
THEOREM NoGuidedBehindLand == Spec => []LandIsLast
<1>1. GuardInv => LandIsLast
      BY DEF GuardInv, Guarded, Core, LandLast, LandIsLast
<1> QED BY <1>1, GuardInvariance, PTL

(* A task flies with the configuration that is locked, and the lock of a   *)
(* task that failed before the vehicle was armed is gone.                  *)
THEOREM LocksFollowTasks == Spec => []LockFollowsTask
<1>1. GuardInv => LockFollowsTask
      BY DEF GuardInv, Guarded, Core, Locked, Busy, LockFollowsTask
<1> QED BY <1>1, GuardInvariance, PTL

(* In every frame, and whatever becomes of the localization, the one place *)
(* where the controller is engaged under the flag of an old failsafe       *)
(* request is the hold of navigation_tick; everywhere else                 *)
(* trigger_failsafe_land acts on the next reason to land.                  *)
THEOREM FailsafesNotMasked == Spec => []FailsafeNotMasked
<1>1. GuardInv => FailsafeNotMasked
      BY DEF GuardInv, Guarded, Core, Masked, FailsafeNotMasked
<1> QED BY <1>1, GuardInvariance, PTL

(* In flight no step changes the locked configuration: no command, no      *)
(* failed task and no cancelled one.                                       *)
THEOREM LocksStable == Spec => LockStable
<1>1. GuardInv /\ [Next]_vars
        => [obs.armed /\ obs'.armed /\ fc.lock # NoConfig => fc'.lock = fc.lock]_vars
      BY NextRight DEF Right, LockStep
<1> QED BY <1>1, GuardInvariance, PTL DEF Spec, LockStable

(* Without a live lease a control tick publishes attitudes only in the     *)
(* hold that the node enters by itself.                                    *)
THEOREM AttitudesAuthorized == Spec => AttitudeAuthorized
<1>1. GuardInv /\ [Next]_vars => [~lease /\ fc'.attitude /\ Tick => fc'.mode = "hold"]_vars
  <2> SUFFICES ASSUME GuardInv, ~lease, fc'.attitude, Tick
               PROVE  fc'.mode = "hold"
      OBVIOUS
  <2>1. PICK x \in Contexts(Seen) : fc' = ControlTick(Step(fc), x)
        BY DEF Tick
  <2>2. x \in Context /\ Sound(Step(fc), x)
        BY ContextFacts, SeenTypes DEF GuardInv
  <2>3. Guarded(Step(fc)) /\ ~Step(fc).attitude /\ obs.armed \in BOOLEAN
        BY StepGuarded
  <2> QED BY <2>1, <2>2, <2>3, TickAttitude
<1> QED BY <1>1, GuardInvariance, PTL DEF Spec, AttitudeAuthorized

(* Only an accepted command, or the hold after lost localization, engages  *)
(* the controller, whatever replies to abandoned calls still arrive.       *)
THEOREM OperatorsEngage == Spec => OnlyOperatorsEngage
<1>1. GuardInv /\ [Next]_vars
        => [~fc.engaged /\ fc'.engaged
              => fc'.accepted \/ fc.navHold # "off" \/ fc'.navHold = "running"]_vars
      BY NextRight DEF Right, EngageStep
<1> QED BY <1>1, GuardInvariance, PTL DEF Spec, OnlyOperatorsEngage

\* What a tick runs on.
LEMMA TickRuns ==
    ASSUME GuardInv, Tick, obs.armed
    PROVE  \E x \in Context :
             /\ fc' = ControlTick(Step(fc), x)
             /\ Sound(Step(fc), x) /\ Guarded(Step(fc)) /\ obs.armed = TRUE
             /\ Step(fc).engaged = fc.engaged /\ Step(fc).mode = fc.mode
             /\ Step(fc).failsafe = fc.failsafe
             /\ Step(fc).link = fc.link /\ Step(fc).navHold = fc.navHold
<1>1. PICK x \in Contexts(Seen) : fc' = ControlTick(Step(fc), x)
      BY DEF Tick
<1>2. x \in Context /\ Sound(Step(fc), x)
      BY ContextFacts, SeenTypes DEF GuardInv
<1> QED BY <1>1, <1>2, StepGuarded

(* A tick that finds an unhealthy input leaves a mode that publishes       *)
(* attitudes, whatever else the tick does, in every frame; the exception   *)
(* the property names, the localization hold under an old failsafe         *)
(* request, is the only one.                                               *)
THEOREM UnhealthyLeaves == Spec => UnhealthyLetsGo
<1>1. GuardInv /\ [Next]_vars
        => [obs.armed /\ fc.mode \in Raw /\ bad # {} /\ Tick
              => fc'.mode \notin Raw \/ (fc'.failsafe /\ fc'.navHold # "off")]_vars
  <2> SUFFICES ASSUME GuardInv, obs.armed, fc.mode \in Raw, bad # {}, Tick
               PROVE  fc'.mode \notin Raw \/ (fc'.failsafe /\ fc'.navHold # "off")
      OBVIOUS
  <2>1. fc.engaged
        BY DEF GuardInv, Inv, Fit, RawEngaged
  <2>2. Unhealthy
        BY DEF Unhealthy
  <2>3. CASE ~fc.failsafe
        BY <2>2, <2>3, TickRuns, TickUnhealthy
  <2>4. CASE fc.failsafe
        BY <2>1, <2>2, <2>4, TickRuns, TickMasked
  <2> QED BY <2>3, <2>4
<1> QED BY <1>1, GuardInvariance, PTL DEF Spec, UnhealthyLetsGo

\* trigger_failsafe_land would act on a new reason to land.
Unmasked == fc.engaged => ~fc.failsafe /\ fc.mode # "land"

(* The hold after a lost lease ends in a LAND as long as neither an old    *)
(* failsafe request nor mode LAND makes trigger_failsafe_land return early *)
(* while the controller is engaged: nothing else can lose that LAND.       *)
THEOREM OutagesLand == Spec /\ []Unmasked => OutageLands
<1>1. GuardInv /\ Unmasked /\ [Next]_vars
        => [fc.engaged /\ obs.armed /\ ~lease /\ fc.link = "expired" /\ Tick => ~fc'.engaged]_vars
  <2> SUFFICES ASSUME GuardInv, Unmasked, fc.engaged, obs.armed, ~lease, fc.link = "expired", Tick
               PROVE  ~fc'.engaged
      OBVIOUS
  <2>1. ~fc.failsafe /\ fc.mode # "land"
        BY DEF Unmasked
  <2> QED BY <2>1, TickRuns, TickOutage
<1> QED BY <1>1, GuardInvariance, PTL DEF Spec, OutageLands

(* The same for the hold after lost localization.                          *)
THEOREM NavTimeoutsLand == Spec /\ []Unmasked => NavTimeoutLands
<1>1. GuardInv /\ Unmasked /\ [Next]_vars
        => [fc.engaged /\ obs.armed /\ ~Located /\ fc.navHold = "expired" /\ Tick
              => ~fc'.engaged]_vars
  <2> SUFFICES ASSUME GuardInv, Unmasked, fc.engaged, obs.armed, ~Located,
                      fc.navHold = "expired", Tick
               PROVE  ~fc'.engaged
      OBVIOUS
  <2>1. ~fc.failsafe /\ fc.mode # "land"
        BY DEF Unmasked
  <2> QED BY <2>1, TickRuns, TickNavTimeout
<1> QED BY <1>1, GuardInvariance, PTL DEF Spec, NavTimeoutLands
=============================================================================
