------------------------- MODULE OnboardControlProofs -------------------------
(***************************************************************************)
(* Proofs about OnboardControl, for any set of identities and              *)
(* configurations, and for any missions: any frame, any commands, any      *)
(* faults.                                                                 *)
(*                                                                         *)
(* Every procedure of the node is an operator on the flight state, so the  *)
(* argument has one lemma per procedure: it takes a sound flight state to  *)
(* a sound flight state.  A handler is a composition of them.              *)
(***************************************************************************)
EXTENDS OnboardControl, SequenceTheorems, TLAPS

\* The commands that a reply to an outstanding GUIDED, arming or take-off
\* call may still wake up.
Asked(f) ==
    {c.cmd : c \in f.calls}
    \cup {r.cmd : r \in {s \in f.replies : s.kind # "land"}}
    \cup {f.modeQueue[i].cmd : i \in {j \in DOMAIN f.modeQueue : f.modeQueue[j].kind # "land"}}

(* The inductive invariant of the flight state.  A LAND is out of reach of *)
(* the replies to what was asked for before it; a task that flies is       *)
(* engaged, without failsafe request and not latched.                      *)
LandApart(f)   == f.task = "land" => f.mode = "land" /\ ~f.engaged /\ f.cmd \notin Asked(f)
TaskEngaged(f) == f.task \in {"takeoff", "waypoint"} => f.engaged /\ ~f.failsafe /\ ~f.latched
RawEngaged(f)  == f.mode \in Raw => f.engaged
Latched(f)     == f.latched => f.mode \notin {"takeoff", "motion", "waypoint"}
Named(f)       == f.task # "none" => f.cmd \in Cmd
HoldArmed(f)   == f.navHold # "off" => obs.armed

Fit(f) ==
    /\ f \in Flight
    /\ LandApart(f) /\ TaskEngaged(f) /\ RawEngaged(f) /\ Latched(f) /\ Named(f) /\ HoldArmed(f)

\* The identity for a command that may start in this step is not taken.
Unused(f, x) == x.new \notin Asked(f) /\ (f.task # "land" => f.cmd # x.new)

Sound(f, x) == Fit(f) /\ Unused(f, x)

SameCalls(f, g) == g.modeQueue = f.modeQueue /\ g.calls = f.calls /\ g.replies = f.replies

LEMMA SameAsked ==
    ASSUME NEW f, NEW g, SameCalls(f, g)
    PROVE  Asked(g) = Asked(f)
BY DEF SameCalls, Asked

-----------------------------------------------------------------------------
(* Types.  The sets of the fields stay closed: only Members looks inside.  *)

LEMMA Members ==
    /\ \A t \in {"none", "takeoff", "waypoint", "land"} : t \in Task
    /\ \A m \in {"idle", "takeoff", "land", "motion", "hover", "waypoint", "hold"} : m \in Mode
    /\ \A t \in {"off", "running", "expired"} : t \in Timer
    /\ \A p \in {"none", "prepare", "height", "requested", "climbing"} : p \in Phase
    /\ \A a \in {"recent", "due", "overdue"} : a \in Attempt
    /\ \A s \in {"SUCCEEDED", "FAILED", "CANCELLED"} : s \in Terminal
BY DEF Task, Mode, Timer, Phase, Attempt, Terminal

LEMMA TaskCases ==
    ASSUME NEW f \in Flight
    PROVE  f.task \in {"none", "takeoff", "waypoint", "land"}
BY DEF Flight, Task

LEMMA RawCases == \A m : m \in Raw <=> m \in {"motion", "hover", "waypoint", "hold"}
BY DEF Raw

-----------------------------------------------------------------------------
(* The small procedures: what they change, field by field.                 *)

LEMMA EndedFacts ==
    ASSUME NEW f \in Flight
    PROVE  LET g == Ended(f) IN
           /\ g \in Flight /\ SameCalls(f, g)
           /\ g.task = "none" /\ g.cmd = NoCmd /\ g.mode = f.mode /\ g.engaged = f.engaged
           /\ g.failsafe = f.failsafe /\ g.latched = f.latched /\ g.navHold = f.navHold
<1>1. Ended(f) \in Flight
      BY Members DEF Ended, Flight
<1> QED BY <1>1 DEF Ended, Flight, SameCalls

LEMMA PublishFacts ==
    ASSUME NEW f \in Flight, f.task # "none", NEW status \in Terminal
    PROVE  LET g == Publish(f, status) IN
           /\ g \in Flight /\ SameCalls(f, g)
           /\ g.task = f.task /\ g.cmd = f.cmd /\ g.mode = f.mode /\ g.engaged = f.engaged
           /\ g.failsafe = f.failsafe /\ g.latched = f.latched /\ g.navHold = f.navHold
<1>1. [task |-> f.task, status |-> status] \in Result
      BY DEF Result, Flight
<1>2. Publish(f, status) \in Flight
      BY <1>1 DEF Publish, Flight
<1> QED BY <1>2 DEF Publish, Flight, SameCalls

LEMMA UnlockedFacts ==
    ASSUME NEW f \in Flight
    PROVE  LET g == Unlocked(f) IN
           /\ g \in Flight /\ SameCalls(f, g)
           /\ g.task = f.task /\ g.cmd = f.cmd /\ g.mode = f.mode /\ g.engaged = f.engaged
           /\ g.failsafe = f.failsafe /\ g.latched = f.latched /\ g.navHold = f.navHold
<1>1. Unlocked(f) \in Flight
      BY DEF Unlocked, Flight
<1> QED BY <1>1 DEF Unlocked, Flight, SameCalls

\* A task that is cancelled or fails leaves nothing but its mode.
LEMMA CancelFacts ==
    ASSUME NEW f \in Flight
    PROVE  LET g == CancelTask(f) IN
           /\ g \in Flight /\ SameCalls(f, g)
           /\ g.task = "none" /\ g.cmd = NoCmd /\ g.mode = f.mode /\ g.engaged = f.engaged
           /\ g.failsafe = f.failsafe /\ g.latched = f.latched /\ g.navHold = f.navHold
<1> DEFINE p == IF f.task \in {"takeoff", "waypoint"} THEN Publish(f, "CANCELLED") ELSE f
<1>1. /\ p \in Flight /\ SameCalls(f, p)
      /\ p.mode = f.mode /\ p.engaged = f.engaged
      /\ p.failsafe = f.failsafe /\ p.latched = f.latched /\ p.navHold = f.navHold
      BY PublishFacts, Members DEF SameCalls
<1> HIDE DEF p
<1>2. CancelTask(f) = Unlocked(Ended(p))
      BY DEF CancelTask, p
<1> QED BY <1>1, <1>2, EndedFacts, UnlockedFacts DEF SameCalls

LEMMA ClearFailsafeFacts ==
    ASSUME NEW f \in Flight
    PROVE  LET g == ClearFailsafe(f) IN
           /\ g \in Flight /\ SameCalls(f, g)
           /\ g.task = f.task /\ g.cmd = f.cmd /\ g.mode = f.mode /\ g.engaged = f.engaged
           /\ ~g.failsafe /\ g.latched = f.latched /\ g.navHold = f.navHold
<1>1. ClearFailsafe(f) \in Flight
      BY Members DEF ClearFailsafe, Flight
<1> QED BY <1>1 DEF ClearFailsafe, Flight, SameCalls

LEMMA StepFacts ==
    ASSUME NEW f \in Flight
    PROVE  LET g == Step(f) IN
           /\ g \in Flight /\ SameCalls(f, g)
           /\ g.task = f.task /\ g.cmd = f.cmd /\ g.mode = f.mode /\ g.engaged = f.engaged
           /\ g.failsafe = f.failsafe /\ g.latched = f.latched /\ g.navHold = f.navHold
<1>1. Step(f) \in Flight
      BY DEF Step, Flight
<1> QED BY <1>1 DEF Step, Flight, SameCalls

LEMMA HoverFacts ==
    ASSUME NEW f \in Flight, NEW m \in Mode, obs.armed = TRUE
    PROVE  LET g == Hover(f, m) IN
           /\ g \in Flight /\ SameCalls(f, g)
           /\ g.task = f.task /\ g.cmd = f.cmd /\ g.mode = m /\ g.engaged
           /\ g.failsafe = f.failsafe /\ g.latched = f.latched /\ g.navHold = f.navHold
<1>1. Hover(f, m) \in Flight
      BY DEF Hover, Flight
<1> QED BY <1>1 DEF Hover, Flight, SameCalls

LEMMA StaleType ==
    ASSUME NEW c, c \in ModeCall \/ c \in Reply
    PROVE  /\ c \in ModeCall => Stale(c) \in ModeCall
           /\ c \in Reply => Stale(c) \in Reply
           /\ Stale(c).kind = c.kind /\ Stale(c).cmd = c.cmd
<1>1. c.current \in BOOLEAN
      BY DEF ModeCall, Reply
<1>2. c \in ModeCall => Stale(c) \in ModeCall
      BY <1>1 DEF Stale, ModeCall
<1>3. c \in Reply => Stale(c) \in Reply
      BY <1>1 DEF Stale, Reply
<1> QED BY <1>2, <1>3 DEF Stale, ModeCall, Reply

LEMMA SupersededFacts ==
    ASSUME NEW f \in Flight
    PROVE  LET g == Superseded(f) IN
           /\ g \in Flight /\ Asked(g) = Asked(f)
           /\ g.task = f.task /\ g.cmd = f.cmd /\ g.mode = f.mode /\ g.engaged = f.engaged
           /\ g.failsafe = f.failsafe /\ g.latched = f.latched /\ g.navHold = f.navHold
<1> DEFINE q == [i \in DOMAIN f.modeQueue |-> Stale(f.modeQueue[i])]
           rs == {Stale(r) : r \in f.replies}
<1>1. f.modeQueue \in Seq(ModeCall) /\ f.replies \subseteq Reply
      BY DEF Flight
<1>2. /\ DOMAIN f.modeQueue = 1..Len(f.modeQueue)
      /\ \A i \in DOMAIN f.modeQueue : f.modeQueue[i] \in ModeCall
      BY <1>1
<1>3. q \in Seq(ModeCall) /\ DOMAIN q = DOMAIN f.modeQueue
      BY <1>1, <1>2, StaleType
<1>4. rs \subseteq Reply
      BY <1>1, StaleType
<1>5. \A i \in DOMAIN f.modeQueue : q[i].kind = f.modeQueue[i].kind /\ q[i].cmd = f.modeQueue[i].cmd
      BY <1>2, StaleType
<1>6. {r.cmd : r \in {s \in rs : s.kind # "land"}} = {r.cmd : r \in {s \in f.replies : s.kind # "land"}}
      BY <1>1, StaleType
<1>7. {q[i].cmd : i \in {j \in DOMAIN q : q[j].kind # "land"}}
        = {f.modeQueue[i].cmd : i \in {j \in DOMAIN f.modeQueue : f.modeQueue[j].kind # "land"}}
      BY <1>3, <1>5
<1>8. Superseded(f) = [f EXCEPT !.modeQueue = q, !.replies = rs]
      BY DEF Superseded
<1> HIDE DEF q, rs
<1>9. Superseded(f) \in Flight
      BY <1>3, <1>4, <1>8 DEF Flight
<1>10. /\ Superseded(f).modeQueue = q /\ Superseded(f).replies = rs
       /\ Superseded(f).calls = f.calls
      BY <1>8 DEF Flight
<1>11. Asked(Superseded(f)) = Asked(f)
      BY <1>6, <1>7, <1>10 DEF Asked
<1> QED BY <1>8, <1>9, <1>11 DEF Flight

-----------------------------------------------------------------------------
(* LAND.  Whatever the node was doing, start_land ends sound, because it   *)
(* takes a fresh identity, the LAND mode, and disengages.                  *)

LEMMA SendLandFacts ==
    ASSUME NEW f \in Flight, NEW x \in Context, NEW failsafe \in BOOLEAN,
           f.task = "land", f.mode = "land", ~f.engaged, f.cmd \in Cmd, f.cmd \notin Asked(f),
           HoldArmed(f), x.new \notin Asked(f)
    PROVE  Sound(SendLand(f, x, failsafe), x)
<1> DEFINE a == [f EXCEPT !.attempt = IF f.latched THEN "recent" ELSE @]
           call == [kind |-> "land", cmd |-> f.cmd, failsafe |-> failsafe, current |-> TRUE]
<1>1. a \in Flight
      BY Members DEF Flight
<1>2. /\ SameCalls(f, a)
      /\ a.task = f.task /\ a.cmd = f.cmd /\ a.mode = f.mode /\ a.engaged = f.engaged
      /\ a.latched = f.latched /\ a.navHold = f.navHold
      BY DEF Flight, SameCalls
<1>3. Asked(a) = Asked(f)
      BY <1>2, SameAsked
<1>4. SendLand(f, x, failsafe) =
        IF "mode" \notin x.up
        THEN [Ended(Publish(a, "FAILED")) EXCEPT !.failsafe = @ /\ ~failsafe]
        ELSE [Superseded(a) EXCEPT !.modeQueue = Append(@, call), !.handle = @ \/ f.latched]
      BY DEF SendLand
<1> HIDE DEF a
<1>5. CASE "mode" \notin x.up
  <2> DEFINE e == Ended(Publish(a, "FAILED"))
             g == [e EXCEPT !.failsafe = @ /\ ~failsafe]
  <2>1. /\ e \in Flight /\ SameCalls(a, e)
        /\ e.task = "none" /\ e.cmd = NoCmd /\ e.mode = "land" /\ ~e.engaged
        /\ e.navHold = f.navHold
        BY <1>1, <1>2, PublishFacts, EndedFacts, Members DEF SameCalls
  <2> HIDE DEF e
  <2>2. /\ g \in Flight /\ SameCalls(a, g)
        /\ g.task = "none" /\ g.cmd = NoCmd /\ g.mode = "land" /\ ~g.engaged
        /\ g.navHold = f.navHold
        BY <2>1 DEF Flight, SameCalls
  <2>3. Asked(g) = Asked(f) /\ x.new # NoCmd
        BY <1>3, <2>2, SameAsked, OnboardAssumption DEF Context
  <2>4. SendLand(f, x, failsafe) = g
        BY <1>4, <1>5 DEF e
  <2> HIDE DEF g
  <2> QED BY <2>2, <2>3, <2>4, RawCases
          DEF Sound, Fit, Unused, LandApart, TaskEngaged, RawEngaged, Latched, Named, HoldArmed
<1>6. CASE "mode" \in x.up
  <2> DEFINE s == Superseded(a)
             q == Append(s.modeQueue, call)
             g == [s EXCEPT !.modeQueue = q, !.handle = @ \/ f.latched]
  <2>1. /\ s \in Flight /\ Asked(s) = Asked(f) /\ s.task = "land" /\ s.cmd = f.cmd
        /\ s.mode = "land" /\ ~s.engaged /\ s.navHold = f.navHold
        BY <1>1, <1>2, <1>3, SupersededFacts
  <2>2. call \in ModeCall /\ call.kind = "land"
        BY DEF ModeCall
  <2>3. s.modeQueue \in Seq(ModeCall)
        BY <2>1 DEF Flight
  <2> HIDE DEF s, call
  <2>4. /\ q \in Seq(ModeCall) /\ DOMAIN q = 1..(Len(s.modeQueue) + 1)
        /\ DOMAIN s.modeQueue = 1..Len(s.modeQueue) /\ Len(s.modeQueue) \in Nat
        /\ q[Len(s.modeQueue) + 1] = call
        /\ \A i \in 1..Len(s.modeQueue) : q[i] = s.modeQueue[i]
        BY <2>2, <2>3
  <2>5. {q[i].cmd : i \in {j \in DOMAIN q : q[j].kind # "land"}}
          = {s.modeQueue[i].cmd : i \in {j \in DOMAIN s.modeQueue : s.modeQueue[j].kind # "land"}}
        BY <2>2, <2>4
  <2> HIDE DEF q
  <2>6. /\ g \in Flight
        /\ g.modeQueue = q /\ g.calls = s.calls /\ g.replies = s.replies
        /\ g.task = "land" /\ g.cmd = f.cmd /\ g.mode = "land" /\ ~g.engaged
        /\ g.latched = s.latched /\ g.navHold = f.navHold
        BY <2>1, <2>4 DEF Flight
  <2>7. SendLand(f, x, failsafe) = g
        BY <1>4, <1>6 DEF s, q, call
  <2> HIDE DEF g
  <2>8. Asked(g) = Asked(s)
        BY <2>5, <2>6 DEF Asked
  <2> QED BY <2>1, <2>6, <2>7, <2>8, RawCases
          DEF Sound, Fit, Unused, LandApart, TaskEngaged, RawEngaged, Latched, Named, HoldArmed
<1> QED BY <1>5, <1>6

LEMMA StartLandSound ==
    ASSUME NEW f \in Flight, NEW x \in Context, NEW failsafe \in BOOLEAN,
           HoldArmed(f), x.new \notin Asked(f)
    PROVE  Sound(StartLand(f, x, failsafe), x)
<1> DEFINE c == CancelTask(f)
           h == IF failsafe THEN c ELSE ClearFailsafe(c)
           l == [h EXCEPT !.task = "land", !.cmd = x.new, !.timer = "running",
                          !.mode = "land", !.engaged = FALSE]
<1>1. h \in Flight /\ SameCalls(f, h) /\ h.latched = f.latched /\ h.navHold = f.navHold
      BY CancelFacts, ClearFailsafeFacts DEF SameCalls
<1>2. x.new \in Cmd
      BY DEF Context
<1> HIDE DEF h
<1>3. /\ l \in Flight /\ SameCalls(h, l)
      /\ l.task = "land" /\ l.cmd = x.new /\ l.mode = "land" /\ ~l.engaged
      /\ l.navHold = f.navHold
      BY <1>1, <1>2, Members DEF Flight, SameCalls
<1>4. Asked(l) = Asked(f)
      BY <1>1, <1>3, SameAsked DEF SameCalls
<1>5. StartLand(f, x, failsafe) = SendLand(l, x, failsafe)
      BY DEF StartLand, h
<1> HIDE DEF l
<1> QED BY <1>2, <1>3, <1>4, <1>5, SendLandFacts DEF HoldArmed

\* trigger_failsafe_land in a state that need not be sound but for its LAND.
LEMMA FailsafeLandSound ==
    ASSUME NEW f \in Flight, NEW x \in Context, HoldArmed(f), x.new \notin Asked(f),
           (f.failsafe \/ f.mode = "land") => Sound(f, x)
    PROVE  Sound(FailsafeLand(f, x), x)
<1> DEFINE g == [f EXCEPT !.failsafe = TRUE]
<1>1. g \in Flight /\ SameCalls(f, g) /\ g.navHold = f.navHold
      BY DEF Flight, SameCalls
<1>2. Asked(g) = Asked(f)
      BY <1>1, SameAsked
<1> HIDE DEF g
<1>3. Sound(StartLand(g, x, TRUE), x)
      BY <1>1, <1>2, StartLandSound DEF HoldArmed
<1> QED BY <1>3 DEF FailsafeLand, g

-----------------------------------------------------------------------------
(* Tasks that end.                                                         *)

\* A sound state whose task is over, in the mode it was in.
LEMMA FailedFacts ==
    ASSUME NEW f \in Flight, f.task # "none", NEW status \in Terminal
    PROVE  LET g == Unlocked(Ended(Publish(f, status))) IN
           /\ g \in Flight /\ SameCalls(f, g)
           /\ g.task = "none" /\ g.cmd = NoCmd /\ g.mode = f.mode /\ g.engaged = f.engaged
           /\ g.failsafe = f.failsafe /\ g.latched = f.latched /\ g.navHold = f.navHold
BY PublishFacts, EndedFacts, UnlockedFacts DEF SameCalls

\* Without a task, the mode decides.
LEMMA TasklessFit ==
    ASSUME NEW f \in Flight, f.task = "none", HoldArmed(f), RawEngaged(f), Latched(f)
    PROVE  Fit(f)
BY DEF Fit, LandApart, TaskEngaged, Named

LEMMA TasklessUnused ==
    ASSUME NEW f \in Flight, f.cmd = NoCmd, NEW x \in Context, x.new \notin Asked(f)
    PROVE  Unused(f, x)
BY OnboardAssumption DEF Unused, Context

LEMMA IdleFacts ==
    ASSUME NEW f \in Flight
    PROVE  LET g == [f EXCEPT !.mode = "idle", !.engaged = FALSE] IN
           /\ g \in Flight /\ SameCalls(f, g)
           /\ g.task = f.task /\ g.cmd = f.cmd /\ g.mode = "idle" /\ ~g.engaged
           /\ g.failsafe = f.failsafe /\ g.latched = f.latched /\ g.navHold = f.navHold
<1> DEFINE g == [f EXCEPT !.mode = "idle", !.engaged = FALSE]
<1>1. g \in Flight
      BY Members DEF Flight
<1> QED BY <1>1 DEF Flight, SameCalls

\* fail_active_task without LAND, after a command that may have used x.new.
LEMMA FailTaskFit ==
    ASSUME NEW f \in Flight, f.task # "none", NEW x, HoldArmed(f), obs.armed \in BOOLEAN
    PROVE  Fit(FailTask(f, FALSE, x))
<1> DEFINE g == Unlocked(Ended(Publish(f, "FAILED")))
<1>1. /\ g \in Flight /\ g.task = "none" /\ g.latched = f.latched /\ g.navHold = f.navHold
      BY FailedFacts, Members
<1> HIDE DEF g
<1>2. CASE obs.armed /\ Pose /\ Guided
  <2>1. FailTask(f, FALSE, x) = Hover(g, "hover")
        BY <1>2 DEF FailTask, g
  <2>2. /\ Hover(g, "hover") \in Flight /\ Hover(g, "hover").task = "none"
        /\ Hover(g, "hover").mode = "hover" /\ Hover(g, "hover").engaged
        /\ Hover(g, "hover").navHold = f.navHold
        BY <1>1, <1>2, HoverFacts, Members
  <2> QED BY <2>1, <2>2, TasklessFit DEF RawEngaged, Latched, HoldArmed
<1>3. CASE ~(obs.armed /\ Pose /\ Guided)
  <2>1. FailTask(f, FALSE, x) = [g EXCEPT !.mode = "idle", !.engaged = FALSE]
        BY <1>3 DEF FailTask, g
  <2> QED BY <1>1, <2>1, IdleFacts, TasklessFit, RawCases DEF RawEngaged, Latched, HoldArmed
<1> QED BY <1>2, <1>3

\* fail_active_task in a control tick.  The task may just have been latched.
LEMMA FailTaskSound ==
    ASSUME NEW f \in Flight, f.task \in {"takeoff", "waypoint"}, f.engaged, ~f.failsafe,
           ~f.latched \/ f.mode # "land", NEW x \in Context, NEW land \in BOOLEAN,
           HoldArmed(f), x.new \notin Asked(f), obs.armed \in BOOLEAN
    PROVE  Sound(FailTask(f, land, x), x)
<1> DEFINE g == Unlocked(Ended(Publish(f, "FAILED")))
<1>1. /\ g \in Flight /\ g.task = "none" /\ g.cmd = NoCmd /\ g.mode = f.mode
      /\ g.engaged = f.engaged /\ g.failsafe = f.failsafe
      /\ g.latched = f.latched /\ g.navHold = f.navHold /\ SameCalls(f, g)
      BY FailedFacts, Members
<1>2. Asked(g) = Asked(f) /\ Unused(g, x)
      BY <1>1, SameAsked, TasklessUnused
<1> HIDE DEF g
<1>3. CASE land /\ obs.armed
  <2>1. FailTask(f, land, x) = FailsafeLand(g, x)
        BY <1>3 DEF FailTask, g
  <2>2. g.mode = "land" => Sound(g, x)
        BY <1>1, <1>2, TasklessFit DEF Sound, RawEngaged, Latched, HoldArmed
  <2> QED BY <1>1, <1>2, <2>1, <2>2, FailsafeLandSound DEF HoldArmed
<1>4. CASE ~(land /\ obs.armed) /\ obs.armed /\ Pose /\ Guided
  <2> DEFINE h == Hover(g, "hover")
  <2>1. FailTask(f, land, x) = h
        BY <1>4 DEF FailTask, g
  <2>2. /\ h \in Flight /\ SameCalls(g, h) /\ h.task = g.task /\ h.mode = "hover"
        /\ h.engaged /\ h.cmd = g.cmd /\ h.navHold = g.navHold
    <3>1. obs.armed = TRUE /\ "hover" \in Mode
          BY <1>4, Members
    <3> QED BY <1>1, <3>1, HoverFacts
  <2> HIDE DEF h
  <2>3. Asked(h) = Asked(f)
        BY <1>2, <2>2, SameAsked
  <2> QED BY <1>1, <2>1, <2>2, <2>3, TasklessFit, TasklessUnused
          DEF Sound, RawEngaged, Latched, HoldArmed
<1>5. CASE ~(land /\ obs.armed) /\ ~(obs.armed /\ Pose /\ Guided)
  <2> DEFINE h == [g EXCEPT !.mode = "idle", !.engaged = FALSE]
  <2>1. FailTask(f, land, x) = h
        BY <1>5 DEF FailTask, g
  <2>2. /\ h \in Flight /\ SameCalls(g, h) /\ h.task = "none" /\ h.mode = "idle"
        /\ h.cmd = NoCmd /\ h.navHold = f.navHold
        BY <1>1, IdleFacts
  <2> HIDE DEF h
  <2>3. Asked(h) = Asked(f)
        BY <1>2, <2>2, SameAsked
  <2> QED BY <2>1, <2>2, <2>3, TasklessFit, TasklessUnused, RawCases
          DEF Sound, RawEngaged, Latched, HoldArmed
<1> QED BY <1>3, <1>4, <1>5

-----------------------------------------------------------------------------
(* Tasks that go on.  A busy task may do what it likes with its mode.      *)

Busy == {"takeoff", "waypoint"}

Like(f, g) ==
    /\ SameCalls(f, g)
    /\ g.task = f.task /\ g.cmd = f.cmd /\ g.engaged = f.engaged
    /\ g.failsafe = f.failsafe /\ g.latched = f.latched /\ g.navHold = f.navHold

LEMMA BusyFit ==
    ASSUME NEW f \in Flight, f.task \in Busy, f.engaged, ~f.failsafe, ~f.latched,
           f.cmd \in Cmd, HoldArmed(f)
    PROVE  Fit(f)
BY DEF Busy, Fit, LandApart, TaskEngaged, RawEngaged, Latched, Named

LEMMA BusyLike ==
    ASSUME NEW f, Fit(f), f.task \in Busy, NEW g \in Flight, Like(f, g)
    PROVE  Fit(g)
BY BusyFit DEF Busy, Like, Fit, TaskEngaged, Named, HoldArmed

LEMMA LikeFit ==
    ASSUME NEW f, Fit(f), NEW g \in Flight, Like(f, g), g.mode = f.mode
    PROVE  Fit(g)
BY SameAsked DEF Like, Fit, LandApart, TaskEngaged, RawEngaged, Latched, Named, HoldArmed

LEMMA LikeUnused ==
    ASSUME NEW f, NEW x, Unused(f, x), NEW g, Like(f, g)
    PROVE  Unused(g, x)
BY SameAsked DEF Like, Unused

LEMMA ActivateFacts ==
    ASSUME NEW f \in Flight
    PROVE  Activate(f) \in Flight /\ Like(f, Activate(f))
<1>1. Activate(f) \in Flight
      BY Members DEF Activate, Flight
<1> QED BY <1>1 DEF Activate, Flight, Like, SameCalls

LEMMA ReadyFacts ==
    ASSUME NEW f \in Flight, NEW x
    PROVE  Ready(f, x) \in Flight /\ Like(f, Ready(f, x))
<1> DEFINE t == [f EXCEPT !.phase = "height"]
           w == [f EXCEPT !.mode = "hover", !.pending = TRUE]
<1>1. t \in Flight /\ w \in Flight
      BY Members DEF Flight
<1>2. Like(f, t) /\ Like(f, w)
      BY DEF Flight, Like, SameCalls
<1>3. Ready(f, x) \in {t, w, Activate(f)}
      BY DEF Ready
<1> HIDE DEF t, w
<1> QED BY <1>1, <1>2, <1>3, ActivateFacts

LEMMA EnsureArmedFit ==
    ASSUME NEW f, Fit(f), f.task \in Busy, NEW x, obs.armed \in BOOLEAN
    PROVE  Fit(EnsureArmed(f, x))
<1> DEFINE g == [f EXCEPT !.calls = @ \cup {[kind |-> "arm", cmd |-> f.cmd]}]
<1>1. /\ f \in Flight /\ f.cmd \in Cmd /\ f.engaged /\ ~f.failsafe /\ ~f.latched
      /\ HoldArmed(f) /\ f.task # "none"
      BY DEF Fit, TaskEngaged, Named, Busy
<1>2. Fit(FailTask(f, FALSE, x))
      BY <1>1, FailTaskFit
<1>3. Fit(Ready(f, x))
      BY <1>1, ReadyFacts, BusyLike
<1>4. [kind |-> "arm", cmd |-> f.cmd] \in Call
      BY <1>1 DEF Call
<1>5. g \in Flight
      BY <1>1, <1>4 DEF Flight
<1>6. /\ g.task = f.task /\ g.cmd = f.cmd /\ g.engaged = f.engaged
      /\ g.failsafe = f.failsafe /\ g.latched = f.latched /\ g.navHold = f.navHold
      BY <1>1 DEF Flight
<1>7. EnsureArmed(f, x) \in {FailTask(f, FALSE, x), Ready(f, x), g}
      BY DEF EnsureArmed
<1> HIDE DEF g
<1>8. Fit(g)
      BY <1>1, <1>5, <1>6, BusyFit DEF HoldArmed
<1> QED BY <1>2, <1>3, <1>7, <1>8

LEMMA EnsureGuidedFit ==
    ASSUME NEW f, Fit(f), f.task \in Busy, NEW x, obs.armed \in BOOLEAN
    PROVE  Fit(EnsureGuided(f, x))
<1> DEFINE call == [kind |-> "guided", cmd |-> f.cmd, failsafe |-> FALSE, current |-> TRUE]
           g == [f EXCEPT !.modeQueue = Append(@, call)]
<1>1. /\ f \in Flight /\ f.cmd \in Cmd /\ f.engaged /\ ~f.failsafe /\ ~f.latched
      /\ HoldArmed(f) /\ f.task # "none" /\ f.modeQueue \in Seq(ModeCall)
      BY DEF Fit, TaskEngaged, Named, Busy, Flight
<1>2. Fit(FailTask(f, FALSE, x)) /\ Fit(EnsureArmed(f, x))
  <2>1. Fit(FailTask(f, FALSE, x))
        BY <1>1, FailTaskFit
  <2>2. Fit(EnsureArmed(f, x))
        BY EnsureArmedFit
  <2> QED BY <2>1, <2>2
<1>3. call \in ModeCall
      BY <1>1 DEF ModeCall
<1>4. EnsureGuided(f, x) \in {FailTask(f, FALSE, x), EnsureArmed(f, x), g}
      BY DEF EnsureGuided
<1> HIDE DEF call
<1>5. Append(f.modeQueue, call) \in Seq(ModeCall)
      BY <1>1, <1>3
<1>6. g \in Flight
      BY <1>1, <1>5 DEF Flight
<1>7. /\ g.task = f.task /\ g.cmd = f.cmd /\ g.engaged = f.engaged
      /\ g.failsafe = f.failsafe /\ g.latched = f.latched /\ g.navHold = f.navHold
      BY <1>1 DEF Flight
<1> HIDE DEF g
<1>8. Fit(g)
      BY <1>1, <1>6, <1>7, BusyFit DEF HoldArmed
<1> QED BY <1>2, <1>4, <1>8

LEMMA StartTakeoffFit ==
    ASSUME NEW f \in Flight, ~f.latched, HoldArmed(f), NEW x \in Context, NEW config \in Config,
           obs.armed \in BOOLEAN
    PROVE  Fit(StartTakeoff(f, config, x))
<1> DEFINE c == ClearFailsafe(CancelTask(f))
           t == [c EXCEPT !.task = "takeoff", !.cmd = x.new, !.timer = "running",
                          !.phase = "prepare", !.mode = "takeoff", !.engaged = TRUE]
           h == EnsureGuided(t, x)
           l == [h EXCEPT !.lock = config]
<1>1. c \in Flight /\ ~c.failsafe /\ c.latched = f.latched /\ c.navHold = f.navHold
      BY CancelFacts, ClearFailsafeFacts
<1> HIDE DEF c
<1>2. x.new \in Cmd
      BY DEF Context
<1>3. t \in Flight
      BY <1>1, <1>2, Members DEF Flight
<1>4. /\ t.task = "takeoff" /\ t.cmd = x.new /\ t.engaged /\ ~t.failsafe
      /\ t.latched = f.latched /\ t.navHold = f.navHold
      BY <1>1 DEF Flight
<1>5. StartTakeoff(f, config, x) = IF h.task = "takeoff" THEN l ELSE h
      BY DEF StartTakeoff, c
<1> HIDE DEF t
<1>6. Fit(t) /\ t.task \in Busy
      BY <1>2, <1>3, <1>4, BusyFit DEF HoldArmed, Busy
<1>7. Fit(h) /\ h \in Flight
      BY <1>6, EnsureGuidedFit DEF Fit
<1> HIDE DEF h
<1>8. l \in Flight /\ Like(h, l)
      BY <1>7 DEF Flight, Like, SameCalls
<1> HIDE DEF l
<1>9. h.task = "takeoff" => Fit(l)
      BY <1>7, <1>8, BusyLike DEF Busy
<1> QED BY <1>5, <1>7, <1>9

LEMMA StartWaypointsFit ==
    ASSUME NEW f \in Flight, ~f.latched, HoldArmed(f), NEW x \in Context, NEW config \in Config,
           obs.armed \in BOOLEAN
    PROVE  Fit(StartWaypoints(f, config, x))
<1> DEFINE c == ClearFailsafe(CancelTask(f))
           t == [c EXCEPT !.lock = config, !.task = "waypoint", !.cmd = x.new,
                          !.config = config, !.engaged = TRUE]
<1>1. c \in Flight /\ ~c.failsafe /\ c.latched = f.latched /\ c.navHold = f.navHold
      BY CancelFacts, ClearFailsafeFacts
<1> HIDE DEF c
<1>2. x.new \in Cmd
      BY DEF Context
<1>3. t \in Flight
      BY <1>1, <1>2, Members DEF Flight
<1>4. /\ t.task = "waypoint" /\ t.cmd = x.new /\ t.engaged /\ ~t.failsafe
      /\ t.latched = f.latched /\ t.navHold = f.navHold
      BY <1>1 DEF Flight
<1>5. StartWaypoints(f, config, x) = EnsureGuided(t, x)
      BY DEF StartWaypoints, c
<1> HIDE DEF t
<1>6. Fit(t) /\ t.task \in Busy
      BY <1>2, <1>3, <1>4, BusyFit DEF HoldArmed, Busy
<1> QED BY <1>5, <1>6, EnsureGuidedFit

-----------------------------------------------------------------------------
(* The stages of control_tick take sound states to sound states.           *)

LEMMA CancelSound ==
    ASSUME NEW f \in Flight, HoldArmed(f), RawEngaged(f), Latched(f),
           NEW x \in Context, x.new \notin Asked(f)
    PROVE  Sound(CancelTask(f), x)
<1> DEFINE g == CancelTask(f)
<1>1. /\ g \in Flight /\ SameCalls(f, g) /\ g.task = "none" /\ g.cmd = NoCmd
      /\ g.mode = f.mode /\ g.engaged = f.engaged
      /\ g.latched = f.latched /\ g.navHold = f.navHold
      BY CancelFacts
<1> HIDE DEF g
<1>2. Asked(g) = Asked(f)
      BY <1>1, SameAsked
<1>3. Fit(g)
      BY <1>1, TasklessFit DEF HoldArmed, RawEngaged, Latched
<1>4. Unused(g, x)
      BY <1>1, <1>2, TasklessUnused
<1> QED BY <1>3, <1>4 DEF Sound, g

LEMMA HoverSound ==
    ASSUME NEW f \in Flight, f.task # "land", TaskEngaged(f), Named(f), NEW x, Unused(f, x),
           NEW m \in {"hover", "hold"}, obs.armed = TRUE
    PROVE  Sound(Hover(f, m), x)
<1> DEFINE g == Hover(f, m)
<1>1. m \in Mode /\ m # "takeoff" /\ m # "motion" /\ m # "waypoint"
      BY Members
<1>2. /\ g \in Flight /\ SameCalls(f, g) /\ g.task = f.task /\ g.cmd = f.cmd
      /\ g.mode = m /\ g.engaged
      /\ g.failsafe = f.failsafe /\ g.latched = f.latched /\ g.navHold = f.navHold
      BY <1>1, HoverFacts
<1> HIDE DEF g
<1>3. Asked(g) = Asked(f)
      BY <1>2, SameAsked
<1>4. Fit(g)
      BY <1>1, <1>2 DEF Fit, LandApart, TaskEngaged, RawEngaged, Latched, Named, HoldArmed
<1>5. Unused(g, x)
      BY <1>2, <1>3 DEF Unused
<1> QED BY <1>4, <1>5 DEF Sound, g

LEMMA FailsafeSound ==
    ASSUME NEW f, NEW x \in Context, Sound(f, x)
    PROVE  Sound(FailsafeLand(f, x), x)
BY FailsafeLandSound DEF Sound, Fit, Unused

\* A field that nothing of this depends on.
LEMMA LikeSound ==
    ASSUME NEW f, NEW x, Sound(f, x), NEW g \in Flight, Like(f, g), g.mode = f.mode
    PROVE  Sound(g, x)
BY LikeFit, LikeUnused DEF Sound

LEMMA NavTickSound ==
    ASSUME NEW f, NEW x \in Context, Sound(f, x), obs.armed \in BOOLEAN
    PROVE  Sound(NavTick(f, x), x)
<1> DEFINE r == [f EXCEPT !.navHold = "off"]
           c == CancelTask(f)
           t == [c EXCEPT !.navHold = "running"]
<1>0. \/ NavTick(f, x) = f
      \/ f.task # "land" /\ f.navHold # "off" /\ NavTick(f, x) = Hover(r, "hover")
      \/ f.task # "land" /\ NavTick(f, x) = r
      \/ f.task # "land" /\ NavTick(f, x) = c
      \/ f.task # "land" /\ obs.armed = TRUE /\ NavTick(f, x) = Hover(t, "hold")
      \/ NavTick(f, x) = FailsafeLand(f, x)
      BY DEF NavTick
<1>1. CASE NavTick(f, x) = f
      BY <1>1
<1>2. CASE NavTick(f, x) = FailsafeLand(f, x)
      BY <1>2, FailsafeSound
<1>3. CASE f.task # "land"
  <2>2. f \in Flight /\ Fit(f) /\ Unused(f, x)
        BY DEF Sound, Fit
  <2>3. r \in Flight /\ SameCalls(f, r)
        BY <2>2, Members DEF Flight, SameCalls
  <2>4. /\ r.task = f.task /\ r.cmd = f.cmd /\ r.mode = f.mode /\ r.engaged = f.engaged
        /\ r.failsafe = f.failsafe /\ r.latched = f.latched /\ r.navHold = "off"
        BY <2>2 DEF Flight
  <2>5. Asked(r) = Asked(f)
        BY <2>3, SameAsked
  <2> HIDE DEF r
  <2>6. Sound(r, x)
        BY <2>2, <2>3, <2>4, <2>5
        DEF Sound, Fit, Unused, LandApart, TaskEngaged, RawEngaged, Latched, Named, HoldArmed
  <2>7. f.navHold # "off" => Sound(Hover(r, "hover"), x)
    <3>1. HAVE f.navHold # "off"
    <3>2. obs.armed = TRUE
          BY <2>2, <3>1 DEF Fit, HoldArmed
    <3>3. /\ r.task # "land" /\ TaskEngaged(r) /\ Named(r) /\ Unused(r, x)
          BY <1>3, <2>4, <2>6 DEF Sound, Fit
    <3> QED BY <2>3, <3>2, <3>3, HoverSound
  <2>9. HoldArmed(f) /\ RawEngaged(f) /\ Latched(f) /\ x.new \notin Asked(f)
        BY <2>2 DEF Fit, Unused
  <2>10. Sound(c, x)
        BY <2>2, <2>9, CancelSound
  <2>11. c \in Flight /\ c.task = "none" /\ c.cmd = NoCmd
        BY <2>2, CancelFacts
  <2> HIDE DEF c
  <2>12. t \in Flight /\ SameCalls(c, t)
        BY <2>11, Members DEF Flight, SameCalls
  <2>13. t.task = "none" /\ t.cmd = NoCmd
        BY <2>11 DEF Flight
  <2>14. Asked(t) = Asked(c)
        BY <2>12, SameAsked
  <2> HIDE DEF t
  <2>15. Unused(t, x)
        BY <2>10, <2>12, <2>13, <2>14, TasklessUnused DEF Sound, Unused
  <2>16. obs.armed = TRUE => Sound(Hover(t, "hold"), x)
    <3>1. HAVE obs.armed = TRUE
    <3>3. t.task # "land" /\ TaskEngaged(t) /\ Named(t)
          BY <2>13 DEF TaskEngaged, Named
    <3> QED BY <2>12, <2>15, <3>1, <3>3, HoverSound
  <2> QED BY <1>0, <1>1, <1>2, <2>6, <2>7, <2>10, <2>16
<1> QED BY <1>0, <1>1, <1>2, <1>3

LEMMA LinkLossHoldSound ==
    ASSUME NEW f, NEW x \in Context, Sound(f, x), obs.armed = TRUE
    PROVE  Sound(LinkLossHold(f, x), x)
<1> DEFINE c == CancelTask(f)
           g == [c EXCEPT !.link = "running"]
<1>1. f \in Flight /\ HoldArmed(f) /\ RawEngaged(f) /\ Latched(f) /\ x.new \notin Asked(f)
      BY DEF Sound, Fit, Unused
<1>2. Sound(c, x)
      BY <1>1, CancelSound
<1>3. c \in Flight /\ c.task = "none" /\ c.cmd = NoCmd
      BY <1>1, CancelFacts
<1>4. LinkLossHold(f, x) = IF Pose /\ Guided THEN Hover(g, "hold") ELSE FailsafeLand(g, x)
      BY DEF LinkLossHold
<1> HIDE DEF c
<1>5. g \in Flight /\ Like(c, g) /\ g.mode = c.mode
      BY <1>3, Members DEF Flight, Like, SameCalls
<1> HIDE DEF g
<1>6. Sound(g, x)
      BY <1>2, <1>5, LikeSound
<1>7. Sound(FailsafeLand(g, x), x)
      BY <1>6, FailsafeSound
<1>8. g.task # "land" /\ TaskEngaged(g) /\ Named(g) /\ Unused(g, x)
      BY <1>3, <1>5, <1>6 DEF Sound, Fit, Like
<1>9. Sound(Hover(g, "hold"), x)
      BY <1>5, <1>8, HoverSound
<1> QED BY <1>4, <1>7, <1>9

LEMMA SafetySound ==
    ASSUME NEW f, NEW x \in Context, Sound(f, x), obs.armed \in BOOLEAN
    PROVE  Sound(Safety(f, x), x)
<1> DEFINE e == Ended(f)
           i == [e EXCEPT !.mode = "idle", !.engaged = FALSE]
           o == [f EXCEPT !.link = "off"]
           g == IF f.link = "off" THEN LinkLossHold(f, x) ELSE f
<1>1. f \in Flight /\ HoldArmed(f) /\ x.new \notin Asked(f)
      BY DEF Sound, Fit, Unused
<1>2. Sound(i, x)
  <2>1. /\ e \in Flight /\ SameCalls(f, e) /\ e.task = "none" /\ e.cmd = NoCmd
        /\ e.navHold = f.navHold
        BY <1>1, EndedFacts
  <2> HIDE DEF e
  <2>2. /\ i \in Flight /\ SameCalls(e, i) /\ i.task = "none" /\ i.cmd = NoCmd
        /\ i.mode = "idle" /\ i.navHold = f.navHold
        BY <2>1, IdleFacts
  <2> HIDE DEF i
  <2>3. Asked(i) = Asked(f)
        BY <2>1, <2>2, SameAsked
  <2>4. Fit(i)
        BY <1>1, <2>2, TasklessFit, RawCases DEF HoldArmed, RawEngaged, Latched
  <2>5. Unused(i, x)
        BY <1>1, <2>2, <2>3, TasklessUnused
  <2> QED BY <2>4, <2>5 DEF Sound
<1>3. Sound(o, x)
  <2>1. o \in Flight /\ Like(f, o) /\ o.mode = f.mode
        BY <1>1, Members DEF Flight, Like, SameCalls
  <2> HIDE DEF o
  <2> QED BY <2>1, LikeSound
<1>4. Sound(FailsafeLand(f, x), x)
      BY FailsafeSound
<1>5. obs.armed => Sound(g, x)
  <2>1. HAVE obs.armed
  <2>2. obs.armed = TRUE
        BY <2>1
  <2> QED BY <2>2, LinkLossHoldSound
<1>6. Safety(f, x) =
        IF ~f.engaged \/ ~obs.armed THEN f
        ELSE IF f.mode \in Raw /\ Unhealthy THEN FailsafeLand(f, x)
        ELSE IF f.mode \in Raw /\ ~Guided THEN i
        ELSE IF lease THEN o
        ELSE IF g.link = "expired" THEN FailsafeLand(g, x) ELSE g
      BY DEF Safety
<1> HIDE DEF i, o, g
<1>7. obs.armed => Sound(FailsafeLand(g, x), x)
      BY <1>5, FailsafeSound
<1> QED BY <1>2, <1>3, <1>4, <1>5, <1>6, <1>7

LEMMA SendTakeoffSound ==
    ASSUME NEW f, NEW x \in Context, Sound(f, x), f.task = "takeoff", obs.armed \in BOOLEAN
    PROVE  Sound(SendTakeoff(f, x), x)
<1> DEFINE call == [kind |-> "takeoff", cmd |-> f.cmd]
           cs == f.calls \cup {call}
           g == [f EXCEPT !.phase = "requested", !.calls = cs]
<1>1. /\ f \in Flight /\ f.task \in {"takeoff", "waypoint"} /\ f.engaged /\ ~f.failsafe
      /\ ~f.latched /\ f.cmd \in Cmd /\ HoldArmed(f) /\ x.new \notin Asked(f) /\ f.cmd # x.new
      BY DEF Sound, Fit, Unused, TaskEngaged, Named
<1>2. Sound(FailTask(f, obs.armed, x), x) /\ Sound(FailTask(f, TRUE, x), x)
      BY <1>1, FailTaskSound
<1>3. call \in Call /\ call.cmd = f.cmd
      BY <1>1 DEF Call
<1>4. SendTakeoff(f, x) \in {FailTask(f, obs.armed, x), FailTask(f, TRUE, x), g}
      BY DEF SendTakeoff
<1> HIDE DEF call
<1>5. cs \in SUBSET Call /\ {c.cmd : c \in cs} = {c.cmd : c \in f.calls} \cup {f.cmd}
      BY <1>1, <1>3 DEF Flight
<1> HIDE DEF cs
<1>6. g \in Flight
      BY <1>1, <1>5, Members DEF Flight
<1>7. /\ g.task = f.task /\ g.cmd = f.cmd /\ g.engaged = f.engaged
      /\ g.failsafe = f.failsafe /\ g.latched = f.latched /\ g.navHold = f.navHold
      /\ g.calls = cs /\ g.replies = f.replies /\ g.modeQueue = f.modeQueue
      BY <1>1 DEF Flight
<1> HIDE DEF g
<1>8. Fit(g)
      BY <1>1, <1>6, <1>7, BusyFit DEF HoldArmed, Busy
<1>9. Asked(g) = Asked(f) \cup {f.cmd}
      BY <1>5, <1>7 DEF Asked
<1>10. Sound(g, x)
      BY <1>1, <1>7, <1>8, <1>9 DEF Sound, Unused
<1> QED BY <1>2, <1>4, <1>10

\* A task that succeeds, or whose confirmation time is over.
LEMMA CompletedFacts ==
    ASSUME NEW f, NEW x \in Context, Sound(f, x), f.task # "none", NEW status \in Terminal
    PROVE  LET g == Ended(Publish(f, status)) IN
           /\ Sound(g, x) /\ g.task = "none" /\ g.cmd = NoCmd
           /\ g.mode = f.mode /\ g.engaged = f.engaged
<1> DEFINE g == Ended(Publish(f, status))
<1>1. f \in Flight /\ Fit(f) /\ x.new \notin Asked(f)
      BY DEF Sound, Fit, Unused
<1>2. /\ g \in Flight /\ SameCalls(f, g) /\ g.task = "none" /\ g.cmd = NoCmd
      /\ g.mode = f.mode /\ g.engaged = f.engaged /\ g.failsafe = f.failsafe
      /\ g.latched = f.latched /\ g.navHold = f.navHold
      BY <1>1, PublishFacts, EndedFacts DEF SameCalls
<1> HIDE DEF g
<1>3. Asked(g) = Asked(f)
      BY <1>2, SameAsked
<1>4. Fit(g)
      BY <1>1, <1>2, TasklessFit DEF Fit, HoldArmed, RawEngaged, Latched
<1>5. Unused(g, x)
      BY <1>1, <1>2, <1>3, TasklessUnused
<1> QED BY <1>2, <1>4, <1>5 DEF Sound, g

LEMMA TakeoffTickSound ==
    ASSUME NEW f, NEW x \in Context, Sound(f, x), obs.armed \in BOOLEAN
    PROVE  Sound(TakeoffTick(f, x), x)
<1> DEFINE g == IF f.phase = "height" /\ obs.armed /\ "samples" \in x.seen
                THEN SendTakeoff(f, x) ELSE f
           e == Ended(Publish(g, "SUCCEEDED"))
<1>1. CASE f.task # "takeoff"
      BY <1>1 DEF TakeoffTick
<1>2. CASE f.task = "takeoff"
  <2>1. TakeoffTick(f, x) =
          IF g.task # "takeoff" THEN g
          ELSE IF g.phase = "climbing" /\ obs.armed /\ Pose /\ "height" \in x.seen
          THEN Hover(e, "hover")
          ELSE IF g.timer = "expired" THEN FailTask(g, TRUE, x) ELSE g
        BY <1>2 DEF TakeoffTick
  <2>2. Sound(g, x)
        BY <1>2, SendTakeoffSound
  <2> HIDE DEF g
  <2>3. g.task = "takeoff" /\ obs.armed => Sound(Hover(e, "hover"), x)
    <3>1. HAVE g.task = "takeoff" /\ obs.armed
    <3>2. Sound(e, x) /\ e.task = "none"
          BY <2>2, <3>1, CompletedFacts, Members
    <3> HIDE DEF e
    <3>3. e \in Flight /\ TaskEngaged(e) /\ Named(e) /\ Unused(e, x) /\ e.task # "land"
          BY <3>2 DEF Sound, Fit
    <3>4. obs.armed = TRUE
          BY <3>1
    <3> QED BY <3>3, <3>4, HoverSound
  <2>4. g.task = "takeoff" => Sound(FailTask(g, TRUE, x), x)
    <3>1. HAVE g.task = "takeoff"
    <3>2. /\ g \in Flight /\ g.task \in {"takeoff", "waypoint"} /\ g.engaged /\ ~g.failsafe
          /\ ~g.latched /\ HoldArmed(g) /\ x.new \notin Asked(g)
          BY <2>2, <3>1 DEF Sound, Fit, Unused, TaskEngaged
    <3> QED BY <3>2, FailTaskSound
  <2> QED BY <2>1, <2>2, <2>3, <2>4
<1> QED BY <1>1, <1>2

LEMMA LandTickSound ==
    ASSUME NEW f, NEW x \in Context, Sound(f, x)
    PROVE  Sound(LandTick(f), x)
BY CompletedFacts, Members DEF LandTick

LEMMA StartGateSound ==
    ASSUME NEW f, NEW x \in Context, Sound(f, x)
    PROVE  Sound(StartGate(f, x), x)
<1>1. f \in Flight
      BY DEF Sound, Fit
<1>2. f.task = "waypoint" => Sound(Activate(f), x)
      BY <1>1, ActivateFacts, BusyLike, LikeUnused DEF Sound, Busy
<1> QED BY <1>2 DEF StartGate

LEMMA ExecutorSound ==
    ASSUME NEW f, NEW x \in Context, Sound(f, x), obs.armed \in BOOLEAN
    PROVE  Sound(Executor(f, x), x)
<1> DEFINE l == [f EXCEPT !.latched = TRUE]
           e == Ended(Publish(f, "SUCCEEDED"))
           h == [e EXCEPT !.mode = "hover"]
<1>1. f \in Flight
      BY DEF Sound, Fit
<1>2. CASE f.mode # "waypoint" \/ f.task # "waypoint"
      BY <1>2 DEF Executor
<1>3. CASE f.mode = "waypoint" /\ f.task = "waypoint"
  <2>1. Executor(f, x) \in {FailTask(l, TRUE, x), h, f}
        BY <1>3 DEF Executor
  <2>2. Sound(FailTask(l, TRUE, x), x)
    <3>1. f.engaged /\ ~f.failsafe /\ HoldArmed(f) /\ x.new \notin Asked(f)
          BY <1>3 DEF Sound, Fit, Unused, TaskEngaged
    <3>2. l \in Flight /\ SameCalls(f, l)
          BY <1>1 DEF Flight, SameCalls
    <3>3. l.task = f.task /\ l.engaged = f.engaged /\ l.failsafe = f.failsafe
          /\ l.mode = f.mode /\ l.navHold = f.navHold
          BY <1>1 DEF Flight
    <3>4. Asked(l) = Asked(f)
          BY <3>2, SameAsked
    <3> HIDE DEF l
    <3>5. /\ l.task \in {"takeoff", "waypoint"} /\ l.engaged /\ ~l.failsafe /\ l.mode # "land"
          /\ HoldArmed(l) /\ x.new \notin Asked(l)
          BY <1>3, <3>1, <3>3, <3>4 DEF HoldArmed
    <3> QED BY <3>2, <3>5, FailTaskSound
  <2>3. Sound(h, x)
    <3>1. f.engaged /\ HoldArmed(f) /\ x.new \notin Asked(f) /\ f.task # "none"
          BY <1>3 DEF Sound, Fit, Unused, TaskEngaged
    <3>2. /\ Sound(e, x) /\ e.task = "none" /\ e.cmd = NoCmd /\ e.engaged = f.engaged
          BY <3>1, CompletedFacts, Members
    <3> HIDE DEF e
    <3>3. e \in Flight /\ HoldArmed(e) /\ x.new \notin Asked(e)
          BY <3>2 DEF Sound, Fit, Unused
    <3>4. h \in Flight /\ SameCalls(e, h)
          BY <3>3, Members DEF Flight, SameCalls
    <3>5. h.task = "none" /\ h.cmd = NoCmd /\ h.engaged = f.engaged /\ h.mode = "hover"
          /\ h.navHold = e.navHold
          BY <3>2, <3>3 DEF Flight
    <3>6. Asked(h) = Asked(e)
          BY <3>4, SameAsked
    <3> HIDE DEF h
    <3>7. Fit(h)
          BY <3>1, <3>3, <3>4, <3>5, TasklessFit DEF HoldArmed, RawEngaged, Latched
    <3>8. Unused(h, x)
          BY <3>3, <3>4, <3>5, <3>6, TasklessUnused
    <3> QED BY <3>7, <3>8 DEF Sound
  <2> QED BY <2>1, <2>2, <2>3
<1> QED BY <1>2, <1>3

LEMMA AttitudeSound ==
    ASSUME NEW f, NEW x \in Context, Sound(f, x)
    PROVE  Sound(Attitude(f, x), x)
<1> DEFINE g == [f EXCEPT !.attitude = TRUE]
<1>1. f \in Flight
      BY DEF Sound, Fit
<1>2. g \in Flight /\ Like(f, g) /\ g.mode = f.mode
      BY <1>1 DEF Flight, Like, SameCalls
<1>3. Attitude(f, x) \in {f, g, FailsafeLand(f, x)}
      BY DEF Attitude
<1> HIDE DEF g
<1>4. Sound(g, x) /\ Sound(FailsafeLand(f, x), x)
      BY <1>2, LikeSound, FailsafeSound
<1> QED BY <1>3, <1>4

LEMMA ControlTickSound ==
    ASSUME NEW f, NEW x \in Context, Sound(f, x), obs.armed \in BOOLEAN
    PROVE  Sound(ControlTick(f, x), x)
<1> DEFINE n == NavTick(f, x)
           s == Safety(n, x)
           t == TakeoffTick(s, x)
           l == LandTick(t)
           g == StartGate(l, x)
           e == Executor(g, x)
<1>1. ControlTick(f, x) = Attitude(e, x)
      BY DEF ControlTick
<1>2. Sound(n, x)
      BY NavTickSound
<1> HIDE DEF n
<1>3. Sound(s, x)
      BY <1>2, SafetySound
<1> HIDE DEF s
<1>4. Sound(t, x)
      BY <1>3, TakeoffTickSound
<1> HIDE DEF t
<1>5. Sound(l, x)
      BY <1>4, LandTickSound
<1> HIDE DEF l
<1>6. Sound(g, x)
      BY <1>5, StartGateSound
<1> HIDE DEF g
<1>7. Sound(e, x)
      BY <1>6, ExecutorSound
<1> HIDE DEF e
<1> QED BY <1>1, <1>7, AttitudeSound

-----------------------------------------------------------------------------
(* Replies, and calls on their way: what is asked for only shrinks.        *)

Fields(f, g) ==
    /\ g.task = f.task /\ g.cmd = f.cmd /\ g.mode = f.mode /\ g.engaged = f.engaged
    /\ g.failsafe = f.failsafe /\ g.latched = f.latched

LEMMA ShrunkFit ==
    ASSUME NEW f, Fit(f), NEW g \in Flight, Fields(f, g), Asked(g) \subseteq Asked(f), HoldArmed(g)
    PROVE  Fit(g)
BY DEF Fields, Fit, LandApart, TaskEngaged, RawEngaged, Latched, Named

LEMMA AnsweredFit ==
    ASSUME NEW f, NEW x \in Context, Sound(f, x), NEW r \in Reply, r.kind # "land",
           Matches(f, r) => f.task # "land", obs.armed \in BOOLEAN
    PROVE  Fit(Answered(f, r, x))
<1> DEFINE c == [f EXCEPT !.phase = "climbing", !.timer = "running"]
<1>1. f \in Flight /\ Fit(f)
      BY DEF Sound, Fit
<1>2. CASE ~Matches(f, r)
      BY <1>1, <1>2 DEF Answered
<1>3. CASE Matches(f, r)
  <2>1. f.task \in {"takeoff", "waypoint"}
        BY <1>1, <1>3, TaskCases DEF Matches
  <2>2. /\ f.engaged /\ ~f.failsafe /\ ~f.latched /\ HoldArmed(f) /\ x.new \notin Asked(f)
        /\ f.task \in Busy
        BY <2>1 DEF Sound, Fit, Unused, TaskEngaged, Busy
  <2>3. \A land \in BOOLEAN : Fit(FailTask(f, land, x))
        BY <1>1, <2>1, <2>2, FailTaskSound DEF Sound
  <2>4. Fit(EnsureArmed(f, x))
        BY <1>1, <2>2, EnsureArmedFit
  <2>5. Fit(Ready(f, x))
        BY <1>1, <2>2, ReadyFacts, BusyLike
  <2>6. c \in Flight /\ Like(f, c)
        BY <1>1, Members DEF Flight, Like, SameCalls
  <2>7. r.kind \in {"guided", "arm", "takeoff"}
        BY DEF Reply
  <2>8. (r.kind = "takeoff") \in BOOLEAN
        OBVIOUS
  <2>9. \/ Answered(f, r, x) = FailTask(f, r.kind = "takeoff", x)
        \/ Answered(f, r, x) \in {EnsureArmed(f, x), Ready(f, x), c}
        BY <1>3, <2>7 DEF Answered
  <2> HIDE DEF c
  <2>10. Fit(c)
        BY <1>1, <2>2, <2>6, BusyLike
  <2> QED BY <2>3, <2>4, <2>5, <2>8, <2>9, <2>10
<1> QED BY <1>2, <1>3

LEMMA LandAnsweredFit ==
    ASSUME NEW f, Fit(f), NEW r \in Reply
    PROVE  Fit(LandAnswered(f, r))
<1> DEFINE g == [f EXCEPT !.handle = FALSE]
           a == [g EXCEPT !.timer = "running", !.mode = "land"]
           e == Ended(Publish(g, "FAILED"))
           n == [e EXCEPT !.failsafe = @ /\ ~r.failsafe]
<1>1. f \in Flight
      BY DEF Fit
<1>2. g \in Flight /\ Like(f, g) /\ g.mode = f.mode
      BY <1>1 DEF Flight, Like, SameCalls
<1>3. LandAnswered(f, r) = IF ~r.current THEN f ELSE IF ~Matches(f, r) THEN g
                           ELSE IF r.ok THEN a ELSE n
      BY <1>1 DEF LandAnswered, Matches, Flight
<1> HIDE DEF g
<1>4. Fit(g)
      BY <1>2, LikeFit
<1>5. Fit(a)
  <2>1. a \in Flight
        BY <1>2, Members DEF Flight
  <2>2. Like(g, a) /\ a.mode = "land"
        BY <1>2 DEF Flight, Like, SameCalls
  <2> HIDE DEF a
  <2>3. Asked(a) = Asked(g)
        BY <2>2, SameAsked DEF Like
  <2> QED BY <1>4, <2>1, <2>2, <2>3, RawCases
          DEF Like, Fit, LandApart, TaskEngaged, RawEngaged, Latched, Named, HoldArmed
<1>6. g.task # "none" => Fit(n)
  <2>1. HAVE g.task # "none"
  <2>2. /\ e \in Flight /\ e.task = "none" /\ e.mode = g.mode /\ e.engaged = g.engaged
        /\ e.latched = g.latched /\ e.navHold = g.navHold
        BY <1>2, <2>1, PublishFacts, EndedFacts, Members
  <2> HIDE DEF e
  <2>3. n \in Flight
    <3>1. (e.failsafe /\ ~r.failsafe) \in BOOLEAN
          OBVIOUS
    <3>2. \A b \in BOOLEAN : [e EXCEPT !.failsafe = b] \in Flight
          BY <2>2 DEF Flight
    <3> QED BY <3>1, <3>2
  <2>4. /\ n.task = "none" /\ n.mode = g.mode /\ n.engaged = g.engaged
        /\ n.latched = g.latched /\ n.navHold = g.navHold
        BY <2>2 DEF Flight
  <2> HIDE DEF n
  <2> QED BY <1>4, <2>3, <2>4, TasklessFit DEF Fit, HoldArmed, RawEngaged, Latched
<1>7. Matches(f, r) => g.task # "none"
      BY <1>2 DEF Matches, Like
<1> HIDE DEF a, n
<1> QED BY <1>3, <1>4, <1>5, <1>6, <1>7

\* Disarming resets the flight state to that of a node that has just started,
\* but for the calls that are still out.
LEMMA DisarmedFacts ==
    ASSUME NEW f \in Flight
    PROVE  LET g == Disarmed(f) IN
           /\ g \in Flight /\ g.task = "none" /\ g.mode = "idle" /\ ~g.engaged
           /\ ~g.latched /\ g.navHold = "off"
<1> DEFINE p == IF f.task = "land" THEN Publish(f, "SUCCEEDED") ELSE f
           h == Superseded(p)
           g == [Idle EXCEPT !.results = h.results, !.attempt = h.attempt, !.calls = h.calls,
                             !.modeQueue = h.modeQueue, !.replies = h.replies]
<1>1. p \in Flight
      BY PublishFacts, Members
<1> HIDE DEF p
<1>2. h \in Flight
      BY <1>1, SupersededFacts
<1>3. Disarmed(f) = g
      BY DEF Disarmed, p, h
<1> HIDE DEF h
<1>4. /\ h.results \in SUBSET Result /\ h.attempt \in Attempt /\ h.calls \in SUBSET Call
      /\ h.modeQueue \in Seq(ModeCall) /\ h.replies \in SUBSET Reply
      BY <1>2 DEF Flight
<1>5. g \in Flight
      BY <1>4, Members DEF Idle, Flight
<1>6. g.task = "none" /\ g.mode = "idle" /\ ~g.engaged /\ ~g.latched /\ g.navHold = "off"
      BY DEF Idle
<1> QED BY <1>3, <1>5, <1>6

-----------------------------------------------------------------------------
(* The handlers.                                                           *)

Inv == TypeOK /\ Fit(fc)

\* The node and its calls move, the surroundings do not.
Rest == UNCHANGED <<obs, bad, lease, fcu, mission>> /\ nav' \in Navigation

LEMMA Carry ==
    ASSUME Inv, Fit(fc'), Rest
    PROVE  Inv'
BY DEF Inv, Rest, TypeOK, Fit, LandApart, TaskEngaged, RawEngaged, Latched, Named, HoldArmed

LEMMA StepFit ==
    ASSUME Inv
    PROVE  /\ Step(fc) \in Flight /\ Like(fc, Step(fc)) /\ Step(fc).mode = fc.mode
           /\ Fit(Step(fc)) /\ Asked(Step(fc)) = Asked(fc)
<1>1. fc \in Flight /\ Fit(fc)
      BY DEF Inv, Fit
<1>2. Step(fc) \in Flight /\ Like(fc, Step(fc)) /\ Step(fc).mode = fc.mode
      BY <1>1, StepFacts DEF Like
<1>3. Fit(Step(fc))
      BY <1>1, <1>2, LikeFit
<1> QED BY <1>2, <1>3, SameAsked DEF Like

LEMMA ContextFacts ==
    ASSUME Inv, NEW seen \in SUBSET SUBSET Event, NEW x \in Contexts(seen)
    PROVE  x \in Context /\ Unused(fc, x) /\ x.new \notin Asked(fc) /\ Sound(Step(fc), x)
<1>1. x.new \in Cmd \ InUse
  <2>1. x.new \in New
        BY DEF Contexts
  <2> QED BY <2>1 DEF New, Free
<1>2. x.up \in SUBSET Service /\ x.seen \in SUBSET Event
      BY DEF Contexts, ServicesUp
<1>3. x \in Context
      BY <1>1, <1>2 DEF Contexts, Context
<1>4. Asked(fc) \subseteq InUse /\ fc.cmd \in InUse
      BY DEF Asked, InUse
<1>5. Unused(fc, x)
      BY <1>1, <1>4 DEF Unused
<1> QED BY <1>1, <1>3, <1>4, <1>5, StepFit, LikeUnused DEF Sound

LEMMA SeenTypes ==
    /\ Seen \in SUBSET SUBSET Event
    /\ Gate \in SUBSET SUBSET Event /\ {{}} \in SUBSET SUBSET Event
<1>1. InFlight \in SUBSET Event
      BY DEF InFlight, Event
<1>2. Seen \in SUBSET SUBSET Event
      BY <1>1 DEF Seen, Event
<1> QED BY <1>2 DEF Gate, Event

LEMMA MissionConfigs ==
    ASSUME Inv
    PROVE  mission.configs \subseteq Config
BY OnboardAssumption DEF Inv, TypeOK, Mission

LEMMA AcceptFit ==
    ASSUME Inv, NEW f, Fit(f), Accept(f)
    PROVE  Inv'
<1> DEFINE g == [f EXCEPT !.accepted = TRUE]
<1>1. f \in Flight /\ fc' = g /\ Rest
      BY DEF Fit, Accept, Rest, Inv, TypeOK
<1>2. g \in Flight /\ Like(f, g) /\ g.mode = f.mode
      BY <1>1 DEF Flight, Like, SameCalls
<1> HIDE DEF g
<1>3. Fit(g)
      BY <1>2, LikeFit
<1> QED BY <1>1, <1>3, Carry

\* What an operator's command finds.
LEMMA StepState ==
    ASSUME Inv
    PROVE  /\ Step(fc) \in Flight /\ HoldArmed(Step(fc)) /\ Step(fc).latched = fc.latched
           /\ Step(fc).task = fc.task /\ obs.armed \in BOOLEAN
           /\ RawEngaged(Step(fc)) /\ Latched(Step(fc))
BY StepFit DEF Fit, Inv, TypeOK, Like

(* The fields of nav keep their types one by one. *)
LEMMA NavigationFields ==
    ASSUME NEW n \in Navigation
    PROVE  /\ n.id \in Known /\ n.armed \in SUBSET Known
           /\ n.ok \in BOOLEAN /\ n.fault \in BOOLEAN /\ n.switching \in BOOLEAN
           /\ \A i \in Known, b, c \in BOOLEAN :
                [n EXCEPT !.id = i, !.ok = b, !.fault = c] \in Navigation
           /\ \A b \in BOOLEAN : [n EXCEPT !.ok = b] \in Navigation
           /\ \A b \in BOOLEAN : [n EXCEPT !.switching = b] \in Navigation
           /\ \A a \in SUBSET Known : [n EXCEPT !.armed = a] \in Navigation
           /\ \A a \in SUBSET Known, b \in BOOLEAN :
                [n EXCEPT !.armed = a, !.fault = b] \in Navigation
BY DEF Navigation

LEMMA TickInv ==
    ASSUME Inv, Tick
    PROVE  Inv'
<1>1. PICK x \in Contexts(Seen) :
        /\ fc' = ControlTick(Step(fc), x)
        /\ nav' = [nav EXCEPT !.switching = @ /\ "failed" \notin x.seen]
      BY DEF Tick
<1>2. Rest
  <2>1. nav \in Navigation
        BY DEF Inv, TypeOK
  <2>2. (nav.switching /\ "failed" \notin x.seen) \in BOOLEAN
        OBVIOUS
  <2>3. nav' \in Navigation
        BY <1>1, <2>1, <2>2, NavigationFields
  <2> QED BY <2>3 DEF Tick, Rest
<1>3. x \in Context /\ Sound(Step(fc), x)
      BY ContextFacts, SeenTypes
<1>4. Fit(fc')
      BY <1>1, <1>3, StepState, ControlTickSound DEF Sound
<1> QED BY <1>2, <1>4, Carry

LEMMA TakeoffInv ==
    ASSUME Inv, Takeoff
    PROVE  Inv'
<1>1. PICK config \in mission.configs, x \in Contexts({{}}) :
        Accept(StartTakeoff(Step(fc), config, x))
      BY DEF Takeoff
<1>2. x \in Context /\ ~fc.latched /\ config \in Config
      BY ContextFacts, SeenTypes, MissionConfigs DEF Takeoff
<1>3. Fit(StartTakeoff(Step(fc), config, x))
      BY <1>2, StepState, StartTakeoffFit
<1> QED BY <1>1, <1>3, AcceptFit

LEMMA ExecuteWaypointsInv ==
    ASSUME Inv, ExecuteWaypoints
    PROVE  Inv'
<1>1. PICK config \in mission.configs, x \in Contexts(Gate) :
        Accept(StartWaypoints(Step(fc), config, x))
      BY DEF ExecuteWaypoints
<1>2. x \in Context /\ ~fc.latched /\ config \in Config
      BY ContextFacts, SeenTypes, MissionConfigs DEF ExecuteWaypoints, WaypointsReady
<1>3. Fit(StartWaypoints(Step(fc), config, x))
      BY <1>2, StepState, StartWaypointsFit
<1> QED BY <1>1, <1>3, AcceptFit

LEMMA LandInv ==
    ASSUME Inv, Land
    PROVE  Inv'
<1>1. PICK x \in Contexts({{}}) : Accept(StartLand(Step(fc), x, FALSE))
      BY DEF Land
<1>2. x \in Context /\ x.new \notin Asked(Step(fc))
      BY ContextFacts, SeenTypes, StepFit
<1>3. Fit(StartLand(Step(fc), x, FALSE))
      BY <1>2, StepState, StartLandSound DEF Sound
<1> QED BY <1>1, <1>3, AcceptFit

\* The end of hover and cancel in a vehicle that is in the node's hands.
LEMMA HoveringFit ==
    ASSUME Inv, obs.armed = TRUE
    PROVE  Fit(ClearFailsafe(Hover(CancelTask(Step(fc)), "hover")))
<1> DEFINE c == CancelTask(Step(fc))
           h == Hover(c, "hover")
           f == ClearFailsafe(h)
<1>1. c \in Flight /\ c.task = "none"
      BY StepState, CancelFacts
<1> HIDE DEF c
<1>2. h \in Flight /\ h.task = "none" /\ h.mode = "hover" /\ h.engaged
      BY <1>1, HoverFacts, Members
<1> HIDE DEF h
<1>3. f \in Flight /\ f.task = "none" /\ f.mode = "hover" /\ f.engaged
      BY <1>2, ClearFailsafeFacts
<1> QED BY <1>3, TasklessFit DEF RawEngaged, Latched, HoldArmed, c, h

LEMMA HoverCommandInv ==
    ASSUME Inv, HoverCommand
    PROVE  Inv'
<1>1. obs.armed = TRUE /\ Accept(ClearFailsafe(Hover(CancelTask(Step(fc)), "hover")))
      BY StepState DEF HoverCommand, Controllable
<1> QED BY <1>1, HoveringFit, AcceptFit

LEMMA CancelInv ==
    ASSUME Inv, Cancel
    PROVE  Inv'
<1> DEFINE c == CancelTask(Step(fc))
           i == [c EXCEPT !.mode = "idle", !.engaged = FALSE]
<1>1. Accept(ClearFailsafe(IF obs.armed /\ Guided /\ Pose THEN Hover(c, "hover") ELSE i))
      BY DEF Cancel
<1>2. c \in Flight /\ c.task = "none" /\ c.navHold = Step(fc).navHold
      BY StepState, CancelFacts
<1>3. obs.armed => Fit(ClearFailsafe(Hover(c, "hover")))
      BY HoveringFit, StepState
<1> HIDE DEF c
<1>4. i \in Flight /\ i.task = "none" /\ i.mode = "idle" /\ i.navHold = Step(fc).navHold
      BY <1>2, IdleFacts
<1> HIDE DEF i
<1>5. /\ ClearFailsafe(i) \in Flight /\ ClearFailsafe(i).task = "none"
      /\ ClearFailsafe(i).mode = "idle" /\ ClearFailsafe(i).navHold = Step(fc).navHold
      BY <1>4, ClearFailsafeFacts
<1>6. Fit(ClearFailsafe(i))
      BY <1>5, StepState, TasklessFit, RawCases DEF RawEngaged, Latched, HoldArmed
<1> QED BY <1>1, <1>3, <1>6, AcceptFit

LEMMA MotionInv ==
    ASSUME Inv, Motion
    PROVE  Inv'
<1> DEFINE c == ClearFailsafe(CancelTask(Step(fc)))
           f == [c EXCEPT !.mode = "motion", !.engaged = TRUE]
<1>1. Accept(f) /\ ~fc.latched
      BY DEF Motion
<1>2. /\ c \in Flight /\ c.task = "none" /\ ~c.latched /\ c.navHold = Step(fc).navHold
      BY <1>1, StepState, CancelFacts, ClearFailsafeFacts
<1> HIDE DEF c
<1>3. f \in Flight
      BY <1>2, Members DEF Flight
<1>4. f.task = "none" /\ f.mode = "motion" /\ f.engaged /\ ~f.latched
      /\ f.navHold = Step(fc).navHold
      BY <1>2 DEF Flight
<1> HIDE DEF f
<1>5. Fit(f)
      BY <1>3, <1>4, StepState, TasklessFit DEF RawEngaged, Latched, HoldArmed
<1> QED BY <1>1, <1>5, AcceptFit

LEMMA SetNavigationModeInv ==
    ASSUME Inv, SetNavigationMode
    PROVE  Inv'
<1> DEFINE s == Step(fc)
           g == [s EXCEPT !.accepted = TRUE]
<1>1. /\ fc' = g /\ nav' = [nav EXCEPT !.switching = TRUE]
      /\ nav \in Navigation /\ UNCHANGED <<obs, bad, lease, fcu, mission>>
      BY DEF SetNavigationMode, Inv, TypeOK
<1>2. Rest
      BY <1>1, NavigationFields DEF Rest
<1>3. s \in Flight /\ Fit(s)
      BY StepFit
<1> HIDE DEF s
<1>4. g \in Flight /\ Like(s, g) /\ g.mode = s.mode
      BY <1>3 DEF Flight, Like, SameCalls
<1> HIDE DEF g
<1>5. Fit(g)
      BY <1>3, <1>4, LikeFit
<1> QED BY <1>1, <1>2, <1>5, Carry

LEMMA ReceiveReplyInv ==
    ASSUME Inv, NEW r, ReceiveReply(r)
    PROVE  Inv'
<1> DEFINE s == Step(fc)
           rs == s.replies \ {r}
           f == [s EXCEPT !.replies = rs]
<1>1. /\ r \in fc.replies /\ Rest
      /\ \E x \in Contexts(Gate) :
           fc' = IF r.kind = "land" THEN LandAnswered(f, r) ELSE Answered(f, r, x)
      BY DEF ReceiveReply, Rest, Inv, TypeOK
<1>2. PICK x \in Contexts(Gate) :
        fc' = IF r.kind = "land" THEN LandAnswered(f, r) ELSE Answered(f, r, x)
      BY <1>1
<1>3. /\ s \in Flight /\ Fit(s) /\ Like(fc, s) /\ s.mode = fc.mode /\ Asked(s) = Asked(fc)
      /\ HoldArmed(s) /\ obs.armed \in BOOLEAN
      BY StepFit, StepState
<1>4. x \in Context /\ Unused(s, x) /\ x.new \notin Asked(s)
      BY ContextFacts, SeenTypes, <1>3, LikeUnused
<1>5. r \in Reply
      BY <1>1 DEF Inv, TypeOK, Flight
<1> HIDE DEF s
<1>6. rs \in SUBSET Reply /\ rs \subseteq s.replies
      BY <1>3 DEF Flight
<1> HIDE DEF rs
<1>7. /\ f \in Flight /\ Fields(s, f) /\ f.navHold = s.navHold
      /\ f.modeQueue = s.modeQueue /\ f.calls = s.calls /\ f.replies = rs
      BY <1>3, <1>6 DEF Flight, Fields
<1> HIDE DEF f
<1>8. Asked(f) \subseteq Asked(s)
      BY <1>6, <1>7 DEF Asked
<1>9. Fit(f)
      BY <1>3, <1>7, <1>8, ShrunkFit DEF HoldArmed
<1>10. Unused(f, x)
      BY <1>4, <1>7, <1>8 DEF Unused, Fields
<1>11. CASE r.kind = "land"
      BY <1>2, <1>1, <1>5, <1>9, <1>11, LandAnsweredFit, Carry
<1>12. CASE r.kind # "land"
  <2>1. r.cmd \in Asked(fc)
        BY <1>1, <1>12 DEF Asked
  <2>2. fc.task = "land" => fc.cmd # r.cmd
        BY <2>1 DEF Inv, Fit, LandApart
  <2>3. Matches(f, r) => f.task # "land"
        BY <1>3, <1>7, <2>2 DEF Matches, Like, Fields
  <2>4. Fit(Answered(f, r, x))
        BY <1>3, <1>4, <1>5, <1>9, <1>10, <1>12, <2>3, AnsweredFit DEF Sound
  <2> QED BY <1>1, <1>2, <1>12, <2>4, Carry
<1> QED BY <1>11, <1>12

LEMMA LandRetryInv ==
    ASSUME Inv, LandRetry
    PROVE  Inv'
<1> DEFINE s == Step(fc)
           g == [s EXCEPT !.handle = FALSE, !.attempt = "recent"]
           f == IF fc.handle THEN Superseded(g) ELSE g
<1>1. /\ Rest
      /\ \E x \in Contexts({{}}) :
           fc' = IF f.task = "land" THEN SendLand(f, x, TRUE) ELSE StartLand(f, x, TRUE)
      BY DEF LandRetry, Rest, Inv, TypeOK
<1>2. PICK x \in Contexts({{}}) :
        fc' = IF f.task = "land" THEN SendLand(f, x, TRUE) ELSE StartLand(f, x, TRUE)
      BY <1>1
<1>3. s \in Flight /\ Fit(s) /\ Asked(s) = Asked(fc)
      BY StepFit
<1>4. x \in Context /\ x.new \notin Asked(s)
      BY ContextFacts, SeenTypes, <1>3
<1> HIDE DEF s
<1>5. g \in Flight /\ SameCalls(s, g)
      BY <1>3, Members DEF Flight, SameCalls
<1>6. Fields(s, g) /\ g.navHold = s.navHold
      BY <1>3 DEF Flight, Fields
<1>7. Asked(g) = Asked(s)
      BY <1>5, SameAsked
<1> HIDE DEF g
<1>8. f \in Flight /\ Asked(f) = Asked(s) /\ Fields(s, f) /\ f.navHold = s.navHold
      BY <1>5, <1>6, <1>7, SupersededFacts DEF Fields
<1> HIDE DEF f
<1>9. Fit(f)
      BY <1>3, <1>8, ShrunkFit DEF HoldArmed, Fit
<1>10. HoldArmed(f) /\ x.new \notin Asked(f)
      BY <1>4, <1>8, <1>9 DEF Fit
<1>11. CASE f.task = "land"
  <2>1. f.mode = "land" /\ ~f.engaged /\ f.cmd \in Cmd /\ f.cmd \notin Asked(f)
        BY <1>9, <1>11 DEF Fit, LandApart, Named
  <2>2. Fit(SendLand(f, x, TRUE))
        BY <1>4, <1>8, <1>10, <1>11, <2>1, SendLandFacts DEF Sound
  <2> QED BY <1>1, <1>2, <1>11, <2>2, Carry
<1>12. CASE f.task # "land"
  <2>1. Fit(StartLand(f, x, TRUE))
        BY <1>4, <1>8, <1>10, StartLandSound DEF Sound
  <2> QED BY <1>1, <1>2, <1>12, <2>1, Carry
<1> QED BY <1>11, <1>12

\* Telemetry moves the hold's premise, obs.armed: disarming ends every hold.
LEMMA StateInv ==
    ASSUME Inv, NEW connected \in BOOLEAN, State(connected)
    PROVE  Inv'
<1>1. /\ obs' = IF connected THEN [connected |-> TRUE, armed |-> fcu.armed, mode |-> fcu.mode]
                ELSE [connected |-> FALSE, armed |-> FALSE, mode |-> "OTHER"]
      /\ bad' = IF connected THEN bad ELSE bad \cup {"thrust"}
      /\ fc' = IF obs.armed /\ ~obs'.armed THEN Disarmed(Step(fc)) ELSE fc
      /\ nav' = IF ~obs.armed /\ obs'.armed THEN [nav EXCEPT !.armed = {nav.id}]
                ELSE IF obs.armed /\ ~obs'.armed
                THEN [nav EXCEPT !.armed = {}, !.fault = FALSE] ELSE nav
      /\ UNCHANGED <<lease, fcu, mission>>
      BY DEF State
<1>2. fcu.armed \in BOOLEAN /\ fcu.mode \in FcuMode /\ "OTHER" \in FcuMode
      BY DEF Inv, TypeOK, FcuMode
<1>3. obs' \in [connected : BOOLEAN, armed : BOOLEAN, mode : FcuMode]
      BY <1>1, <1>2
<1>4. bad' \subseteq {"pose", "stream", "thrust"}
      BY <1>1 DEF Inv, TypeOK
<1>5. /\ lease' \in BOOLEAN /\ mission' \in Missions
      /\ fcu' \in [armed : BOOLEAN, mode : FcuMode]
      BY <1>1 DEF Inv, TypeOK
<1>7. nav' \in Navigation
  <2>1. nav \in Navigation
        BY DEF Inv, TypeOK
  <2>2. {nav.id} \in SUBSET Known /\ {} \in SUBSET Known /\ FALSE \in BOOLEAN
        BY <2>1, NavigationFields
  <2>3. /\ [nav EXCEPT !.armed = {nav.id}] \in Navigation
        /\ [nav EXCEPT !.armed = {}, !.fault = FALSE] \in Navigation
        BY <2>1, <2>2, NavigationFields
  <2> QED BY <1>1, <2>1, <2>3
<1>6. fc' \in Flight /\ Fit(fc)'
  <2>1. CASE obs.armed /\ ~obs'.armed
    <3>1. /\ fc' \in Flight /\ fc'.task = "none" /\ fc'.mode = "idle" /\ ~fc'.latched
          /\ fc'.navHold = "off"
          BY <1>1, <2>1, StepState, DisarmedFacts
    <3> QED BY <3>1, RawCases
            DEF Fit, LandApart, TaskEngaged, RawEngaged, Latched, Named, HoldArmed
  <2>2. CASE ~(obs.armed /\ ~obs'.armed)
    <3>1. fc' = fc /\ Fit(fc) /\ fc \in Flight
          BY <1>1, <2>2 DEF Inv, TypeOK
    <3>2. HoldArmed(fc)'
          BY <2>2, <3>1 DEF Fit, HoldArmed
    <3> QED BY <3>1, <3>2 DEF Fit, LandApart, TaskEngaged, RawEngaged, Latched, Named, Asked
  <2> QED BY <2>1, <2>2
<1> QED BY <1>3, <1>4, <1>5, <1>6, <1>7 DEF Inv, TypeOK

LEMMA ElapseInv ==
    ASSUME Inv, NEW field \in {"timer", "link", "navHold"}, Elapse(field)
    PROVE  Inv'
<1> DEFINE t == [fc EXCEPT !.timer = "expired"]
           l == [fc EXCEPT !.link = "expired"]
           n == [fc EXCEPT !.navHold = "expired"]
<1>1. Rest /\ fc \in Flight /\ Fit(fc) /\ fc[field] = "running"
      BY DEF Elapse, Rest, Inv, TypeOK
<1>2. fc' = [fc EXCEPT ![field] = "expired"]
      BY DEF Elapse
<1>3. t \in Flight /\ l \in Flight /\ n \in Flight
      BY <1>1, Members DEF Flight
<1>4. Like(fc, t) /\ Like(fc, l) /\ t.mode = fc.mode /\ l.mode = fc.mode
      BY <1>1 DEF Flight, Like, SameCalls
<1>5. Fields(fc, n) /\ SameCalls(fc, n)
      BY <1>1 DEF Flight, Fields, SameCalls
<1>6. field = "timer" => fc' = t
      BY <1>2
<1>7. field = "link" => fc' = l
      BY <1>2
<1>8. field = "navHold" => fc' = n /\ fc.navHold # "off"
      BY <1>1, <1>2
<1> HIDE DEF t, l, n
<1>9. Fit(t) /\ Fit(l)
      BY <1>1, <1>3, <1>4, LikeFit
<1>10. fc.navHold # "off" => Fit(n)
      BY <1>1, <1>3, <1>5, SameAsked, ShrunkFit DEF Fit, HoldArmed
<1>11. Fit(fc')
      BY <1>6, <1>7, <1>8, <1>9, <1>10
<1> QED BY <1>1, <1>11, Carry

LEMMA ElapseAttemptInv ==
    ASSUME Inv, ElapseAttempt
    PROVE  Inv'
<1> DEFINE g == [fc EXCEPT !.attempt = IF @ = "recent" THEN "due" ELSE "overdue"]
<1>1. Rest /\ fc \in Flight /\ Fit(fc) /\ fc' = g
      BY DEF ElapseAttempt, Rest, Inv, TypeOK
<1>2. g \in Flight /\ Like(fc, g) /\ g.mode = fc.mode
      BY <1>1, Members DEF Flight, Like, SameCalls
<1> HIDE DEF g
<1>3. Fit(g)
      BY <1>1, <1>2, LikeFit
<1> QED BY <1>1, <1>3, Carry

-----------------------------------------------------------------------------
(* The surroundings.                                                       *)

\* Serving or losing calls and replies leaves the node's own fields alone.
LEMMA ExternalInv ==
    ASSUME Inv, NEW g \in Flight, Fields(fc, g), g.navHold = fc.navHold,
           Asked(g) \subseteq Asked(fc)
    PROVE  Fit(g)
BY ShrunkFit DEF Inv, Fit, HoldArmed

LEMMA AnswerType ==
    ASSUME NEW c, c \in ModeCall \/ c \in Call, NEW ok \in BOOLEAN
    PROVE  Answer(c, ok) \in Reply /\ Answer(c, ok).kind = c.kind /\ Answer(c, ok).cmd = c.cmd
<1>1. CASE c \in ModeCall
  <2>1. /\ (c.kind = "land" /\ c.failsafe) \in BOOLEAN
        /\ (c.kind = "land" /\ c.current) \in BOOLEAN
        OBVIOUS
  <2> QED BY <1>1, <2>1 DEF Answer, ModeCall, Reply
<1>2. CASE c \in Call
  <2>1. /\ (c.kind = "land" /\ c.failsafe) \in BOOLEAN
        /\ (c.kind = "land" /\ c.current) \in BOOLEAN
        OBVIOUS
  <2> QED BY <1>2, <2>1 DEF Answer, Call, Reply
<1> QED BY <1>1, <1>2

\* The oldest set_mode call leaves the queue, and its reply, if any, takes
\* its place.
LEMMA TailAsked ==
    ASSUME NEW f \in Flight, f.modeQueue # <<>>, NEW g, g.modeQueue = Tail(f.modeQueue),
           g.calls = f.calls,
           \A r \in g.replies : r \in f.replies
              \/ (r.kind = Head(f.modeQueue).kind /\ r.cmd = Head(f.modeQueue).cmd)
    PROVE  Tail(f.modeQueue) \in Seq(ModeCall) /\ Asked(g) \subseteq Asked(f)
<1> DEFINE q == f.modeQueue
           t == Tail(q)
<1>1. q \in Seq(ModeCall) /\ q # <<>>
      BY DEF Flight
<1>2. /\ DOMAIN q = 1..Len(q) /\ Len(q) \in Nat /\ Len(q) >= 1 /\ Head(q) = q[1]
      /\ t \in Seq(ModeCall) /\ DOMAIN t = 1..(Len(q) - 1)
      /\ \A i \in 1..(Len(q) - 1) : t[i] = q[i + 1]
      BY <1>1
<1>3. g.modeQueue = t
      OBVIOUS
<1> HIDE DEF t
<1>4. \A i \in DOMAIN t : t[i].kind # "land" =>
        i + 1 \in DOMAIN q /\ q[i + 1].kind # "land" /\ q[i + 1].cmd = t[i].cmd
      BY <1>2
<1>5. {t[i].cmd : i \in {j \in DOMAIN t : t[j].kind # "land"}}
        \subseteq {q[i].cmd : i \in {j \in DOMAIN q : q[j].kind # "land"}}
      BY <1>4
<1>6. Head(q).kind # "land" =>
        Head(q).cmd \in {q[i].cmd : i \in {j \in DOMAIN q : q[j].kind # "land"}}
      BY <1>2
<1>7. {r.cmd : r \in {s \in g.replies : s.kind # "land"}}
        \subseteq {r.cmd : r \in {s \in f.replies : s.kind # "land"}}
                  \cup {q[i].cmd : i \in {j \in DOMAIN q : q[j].kind # "land"}}
      BY <1>6
<1>8. Asked(g) \subseteq Asked(f)
      BY <1>3, <1>5, <1>7 DEF Asked
<1> QED BY <1>2, <1>8 DEF t

LEMMA ServeModeInv ==
    ASSUME Inv, ServeMode
    PROVE  Inv'
<1> DEFINE c == Head(fc.modeQueue)
<1>1. PICK ok \in Outcomes :
        /\ fc' = [fc EXCEPT !.modeQueue = Tail(@), !.replies = @ \cup {Answer(c, ok)}]
        /\ fcu' = IF ~ok THEN fcu
                  ELSE [fcu EXCEPT !.mode = IF c.kind = "land" THEN "LAND" ELSE "GUIDED"]
      BY DEF ServeMode
<1>2. ok \in BOOLEAN
      BY DEF Outcomes
<1>3. /\ fc \in Flight /\ fc.modeQueue # <<>> /\ fc.modeQueue \in Seq(ModeCall)
      /\ fc.replies \subseteq Reply /\ UNCHANGED <<obs, bad, nav, lease, mission>>
      BY DEF ServeMode, Inv, TypeOK, Flight
<1>4. c \in ModeCall
      BY <1>3
<1> HIDE DEF c
<1>5. /\ Answer(c, ok) \in Reply /\ Answer(c, ok).kind = c.kind /\ Answer(c, ok).cmd = c.cmd
      BY <1>2, <1>4, AnswerType
<1> DEFINE a == Answer(c, ok)
           rs == fc.replies \cup {a}
           t == Tail(fc.modeQueue)
           g == [fc EXCEPT !.modeQueue = t, !.replies = rs]
<1>6. fc' = g
      BY <1>1
<1> HIDE DEF a
<1>7. rs \in SUBSET Reply /\ \A r \in rs : r \in fc.replies \/ (r.kind = c.kind /\ r.cmd = c.cmd)
      BY <1>3, <1>5 DEF a
<1> HIDE DEF rs, t
<1>8. /\ Fields(fc, g) /\ g.navHold = fc.navHold
      /\ g.modeQueue = t /\ g.calls = fc.calls /\ g.replies = rs
      BY <1>3 DEF Flight, Fields
<1>9. t \in Seq(ModeCall) /\ Asked(g) \subseteq Asked(fc)
  <2> HIDE DEF g
  <2> QED BY <1>3, <1>7, <1>8, TailAsked DEF c, t
<1>10. g \in Flight
      BY <1>3, <1>7, <1>9 DEF Flight
<1> HIDE DEF g
<1>11. Fit(g)
      BY <1>8, <1>9, <1>10, ExternalInv
<1>12. Fit(fc)'
      BY <1>3, <1>6, <1>11
      DEF Fit, LandApart, TaskEngaged, RawEngaged, Latched, Named, HoldArmed
<1>13. fcu' \in [armed : BOOLEAN, mode : FcuMode]
      BY <1>1 DEF Inv, TypeOK, FcuMode
<1> QED BY <1>3, <1>6, <1>10, <1>12, <1>13 DEF Inv, TypeOK

LEMMA ServeCallInv ==
    ASSUME Inv, ServeCall
    PROVE  Inv'
<1>1. PICK c \in fc.calls, ok \in Outcomes :
        /\ fc' = [fc EXCEPT !.calls = @ \ {c}, !.replies = @ \cup {Answer(c, ok)}]
        /\ fcu' = [fcu EXCEPT !.armed = @ \/ (ok /\ c.kind = "arm")]
      BY DEF ServeCall
<1>2. ok \in BOOLEAN
      BY DEF Outcomes
<1>3. /\ fc \in Flight /\ fc.calls \subseteq Call /\ fc.replies \subseteq Reply
      /\ UNCHANGED <<obs, bad, nav, lease, mission>>
      BY DEF ServeCall, Inv, TypeOK, Flight
<1>4. c \in Call /\ c.kind # "land"
      BY <1>3 DEF Call
<1> DEFINE a == Answer(c, ok)
           rs == fc.replies \cup {a}
           cs == fc.calls \ {c}
           g == [fc EXCEPT !.calls = cs, !.replies = rs]
<1>5. a \in Reply /\ a.kind = c.kind /\ a.cmd = c.cmd
      BY <1>2, <1>4, AnswerType
<1>6. fc' = g
      BY <1>1
<1> HIDE DEF a
<1>7. cs \in SUBSET Call /\ rs \in SUBSET Reply
      BY <1>3, <1>5
<1>8. /\ {d.cmd : d \in cs} \subseteq {d.cmd : d \in fc.calls}
      /\ {r.cmd : r \in {s \in rs : s.kind # "land"}}
           \subseteq {r.cmd : r \in {s \in fc.replies : s.kind # "land"}} \cup {d.cmd : d \in fc.calls}
      BY <1>5
<1> HIDE DEF rs, cs
<1>9. /\ Fields(fc, g) /\ g.navHold = fc.navHold
      /\ g.modeQueue = fc.modeQueue /\ g.calls = cs /\ g.replies = rs
      BY <1>3 DEF Flight, Fields
<1>10. g \in Flight
      BY <1>3, <1>7 DEF Flight
<1> HIDE DEF g
<1>11. Asked(g) \subseteq Asked(fc)
      BY <1>8, <1>9 DEF Asked
<1>12. Fit(g)
      BY <1>9, <1>10, <1>11, ExternalInv
<1>13. Fit(fc)'
      BY <1>3, <1>6, <1>12
      DEF Fit, LandApart, TaskEngaged, RawEngaged, Latched, Named, HoldArmed
<1>14. fcu' \in [armed : BOOLEAN, mode : FcuMode]
  <2>1. (fcu.armed \/ (ok /\ c.kind = "arm")) \in BOOLEAN
        OBVIOUS
  <2>2. \A b \in BOOLEAN : [fcu EXCEPT !.armed = b] \in [armed : BOOLEAN, mode : FcuMode]
        BY DEF Inv, TypeOK
  <2> QED BY <1>1, <2>1, <2>2
<1> QED BY <1>3, <1>6, <1>10, <1>13, <1>14 DEF Inv, TypeOK

LEMMA LoseInv ==
    ASSUME Inv, Lose
    PROVE  Inv'
<1>1. fc \in Flight /\ Rest
      BY DEF Lose, Rest, Inv, TypeOK
<1>2. CASE fc.modeQueue # <<>> /\ fc' = [fc EXCEPT !.modeQueue = Tail(@)]
  <2> DEFINE t == Tail(fc.modeQueue)
             g == [fc EXCEPT !.modeQueue = t]
  <2>1. fc' = g
        BY <1>2
  <2> HIDE DEF t
  <2>2. /\ Fields(fc, g) /\ g.navHold = fc.navHold
        /\ g.modeQueue = t /\ g.calls = fc.calls /\ g.replies = fc.replies
        BY <1>1 DEF Flight, Fields
  <2>3. t \in Seq(ModeCall) /\ Asked(g) \subseteq Asked(fc)
    <3> HIDE DEF g
    <3> QED BY <1>1, <1>2, <2>2, TailAsked DEF t
  <2>4. g \in Flight
        BY <1>1, <2>3 DEF Flight
  <2> HIDE DEF g
  <2> QED BY <1>1, <2>1, <2>2, <2>3, <2>4, ExternalInv, Carry
<1>3. ASSUME NEW c \in fc.calls, fc' = [fc EXCEPT !.calls = @ \ {c}]
      PROVE  Inv'
  <2> DEFINE cs == fc.calls \ {c}
             g == [fc EXCEPT !.calls = cs]
  <2>1. fc' = g
        BY <1>3
  <2>2. cs \in SUBSET Call /\ cs \subseteq fc.calls
        BY <1>1 DEF Flight
  <2> HIDE DEF cs
  <2>3. /\ Fields(fc, g) /\ g.navHold = fc.navHold
        /\ g.modeQueue = fc.modeQueue /\ g.calls = cs /\ g.replies = fc.replies
        BY <1>1 DEF Flight, Fields
  <2>4. g \in Flight
        BY <1>1, <2>2 DEF Flight
  <2> HIDE DEF g
  <2>5. Asked(g) \subseteq Asked(fc)
        BY <2>2, <2>3 DEF Asked
  <2> QED BY <1>1, <2>1, <2>3, <2>4, <2>5, ExternalInv, Carry
<1>4. ASSUME NEW r \in fc.replies, fc' = [fc EXCEPT !.replies = @ \ {r}]
      PROVE  Inv'
  <2> DEFINE rs == fc.replies \ {r}
             g == [fc EXCEPT !.replies = rs]
  <2>1. fc' = g
        BY <1>4
  <2>2. rs \in SUBSET Reply /\ rs \subseteq fc.replies
        BY <1>1 DEF Flight
  <2> HIDE DEF rs
  <2>3. /\ Fields(fc, g) /\ g.navHold = fc.navHold
        /\ g.modeQueue = fc.modeQueue /\ g.calls = fc.calls /\ g.replies = rs
        BY <1>1 DEF Flight, Fields
  <2>4. g \in Flight
        BY <1>1, <2>2 DEF Flight
  <2> HIDE DEF g
  <2>5. Asked(g) \subseteq Asked(fc)
        BY <2>2, <2>3 DEF Asked
  <2> QED BY <1>1, <2>1, <2>3, <2>4, <2>5, ExternalInv, Carry
<1> QED BY <1>2, <1>3, <1>4 DEF Lose

\* Telemetry, thrust mode, localization, the lease and the FCU's own changes.
LEMMA SurroundingsInv ==
    ASSUME Inv, UNCHANGED <<fc, obs, mission>>,
           bad' \subseteq {"pose", "stream", "thrust"}, nav' \in Navigation, lease' \in BOOLEAN,
           fcu' \in [armed : BOOLEAN, mode : FcuMode]
    PROVE  Inv'
BY DEF Inv, TypeOK, Fit, LandApart, TaskEngaged, RawEngaged, Latched, Named, HoldArmed, Asked

LEMMA EnvironmentInv ==
    ASSUME Inv,
           Telemetry \/ ThrustMode \/ Localization \/ NavigationTf \/ LeaseChange
             \/ FcuDisarms \/ Pilot
    PROVE  Inv'
<1>1. /\ bad \subseteq {"pose", "stream", "thrust"} /\ nav \in Navigation /\ lease \in BOOLEAN
      /\ fcu \in [armed : BOOLEAN, mode : FcuMode]
      BY DEF Inv, TypeOK
<1>2. CASE Telemetry
      BY <1>1, <1>2, SurroundingsInv DEF Telemetry
<1>3. CASE ThrustMode
      BY <1>1, <1>3, SurroundingsInv DEF ThrustMode
<1>4. CASE Localization
  <2>1. (~nav.ok) \in BOOLEAN
        OBVIOUS
  <2>2. nav' = [nav EXCEPT !.ok = ~nav.ok]
        BY <1>4 DEF Localization
  <2>3. nav' \in Navigation
        BY <1>1, <2>1, <2>2, NavigationFields
  <2> QED BY <1>1, <1>4, <2>3, SurroundingsInv DEF Localization
<1>5. CASE LeaseChange
  <2>1. (~lease) \in BOOLEAN
        OBVIOUS
  <2> QED BY <1>1, <1>5, <2>1, SurroundingsInv DEF LeaseChange
<1>6. CASE FcuDisarms
      BY <1>1, <1>6, SurroundingsInv DEF FcuDisarms
<1>7. CASE Pilot
      BY <1>1, <1>7, SurroundingsInv DEF Pilot
<1>8. CASE NavigationTf
  <2>1. PICK jump \in BOOLEAN :
          nav' = [nav EXCEPT !.id.frame = "map", !.ok = @ /\ ~jump,
                             !.fault = jump \/ (@ /\ (obs.armed \/ fc.task # "none"))]
        BY <1>8 DEF NavigationTf
  <2> DEFINE i == [nav.id EXCEPT !.frame = "map"]
             o == nav.ok /\ ~jump
             t == jump \/ (nav.fault /\ (obs.armed \/ fc.task # "none"))
  <2>2. nav' = [nav EXCEPT !.id = i, !.ok = o, !.fault = t]
        BY <1>1, <2>1 DEF Navigation
  <2>3. i \in Known
        BY <1>1, NavigationFields DEF Known, Frame
  <2>4. o \in BOOLEAN /\ t \in BOOLEAN
        OBVIOUS
  <2> HIDE DEF i, o, t
  <2>5. nav' \in Navigation
        BY <1>1, <2>2, <2>3, <2>4, NavigationFields
  <2> QED BY <1>1, <1>8, <2>5, SurroundingsInv DEF NavigationTf
<1> QED BY <1>2, <1>3, <1>4, <1>5, <1>6, <1>7, <1>8

\* A driver that comes back on the ground ends no hold that still counts.
LEMMA NavigationStatusInv ==
    ASSUME Inv, NavigationStatus
    PROVE  Inv'
<1>1. PICK id \in mission.odin \ {nav.id}, airborne \in {FALSE, fcu.armed} :
        LET flying == obs.armed \/ airborne \/ fc.task # "none" IN
        /\ nav' = [nav EXCEPT !.id = id, !.ok = FALSE,
                              !.fault = \/ IF Heard THEN flying ELSE @
                                        \/ nav.armed \ {id} # {}]
        /\ fc' = IF Heard /\ ~flying THEN [fc EXCEPT !.navHold = "off"] ELSE fc
      BY DEF NavigationStatus
<1> DEFINE t == (IF Heard THEN obs.armed \/ airborne \/ fc.task # "none" ELSE nav.fault)
                  \/ nav.armed \ {id} # {}
           g == [fc EXCEPT !.navHold = "off"]
<1>2. /\ fc \in Flight /\ Fit(fc) /\ nav \in Navigation /\ mission.odin \subseteq Identity
      /\ UNCHANGED <<obs, bad, lease, fcu, mission>>
      BY OnboardAssumption DEF NavigationStatus, Inv, TypeOK, Mission
<1>3. nav' = [nav EXCEPT !.id = id, !.ok = FALSE, !.fault = t]
      BY <1>1
<1>4. id \in Known
      BY <1>2 DEF Identity, Known
<1>5. t \in BOOLEAN
  <2>1. nav.fault \in BOOLEAN /\ obs.armed \in BOOLEAN /\ fcu.armed \in BOOLEAN
        BY <1>2, NavigationFields DEF Inv, TypeOK
  <2> QED BY <2>1
<1> HIDE DEF t
<1>6. Rest
      BY <1>2, <1>3, <1>4, <1>5, NavigationFields DEF Rest
<1>7. g \in Flight /\ Fields(fc, g) /\ SameCalls(fc, g) /\ g.navHold = "off"
      BY <1>2, Members DEF Flight, Fields, SameCalls
<1>8. fc' = fc \/ fc' = g
      BY <1>1
<1> HIDE DEF g
<1>9. Asked(g) \subseteq Asked(fc)
      BY <1>7, SameAsked
<1>10. Fit(g)
      BY <1>2, <1>7, <1>9
      DEF Fit, Fields, LandApart, TaskEngaged, RawEngaged, Latched, Named, HoldArmed
<1> QED BY <1>2, <1>6, <1>8, <1>10, Carry

-----------------------------------------------------------------------------
(* The theorems.                                                           *)

LEMMA InitInv == Init => Inv
<1> SUFFICES ASSUME Init PROVE Inv
    OBVIOUS
<1>1. fc = Idle
      BY DEF Init
<1>2. NoCmd \in Cmd \cup {NoCmd} /\ NoConfig \in Config \cup {NoConfig} /\ <<>> \in Seq(ModeCall)
      OBVIOUS
<1>3. Idle \in Flight
      BY <1>2, Members DEF Idle, Flight
<1>4. Idle.task = "none" /\ Idle.mode = "idle" /\ ~Idle.latched /\ Idle.navHold = "off"
      BY DEF Idle
<1>5. Fit(Idle)
      BY <1>3, <1>4, TasklessFit, RawCases DEF HoldArmed, RawEngaged, Latched
<1>6. /\ obs \in [connected : BOOLEAN, armed : BOOLEAN, mode : FcuMode]
      /\ bad \subseteq {"pose", "stream", "thrust"} /\ nav \in Navigation /\ lease \in BOOLEAN
      /\ fcu \in [armed : BOOLEAN, mode : FcuMode] /\ mission \in Missions
      BY DEF Init, FcuMode, Unlocated, Navigation, Known, Frame
<1> QED BY <1>1, <1>3, <1>5, <1>6 DEF Inv, TypeOK

LEMMA NextInv == Inv /\ [Next]_vars => Inv'
<1> SUFFICES ASSUME Inv, [Next]_vars PROVE Inv'
    OBVIOUS
<1>1. CASE Tick
      BY <1>1, TickInv
<1>2. CASE LandRetry
      BY <1>2, LandRetryInv
<1>3. CASE ObserveState
  <2>1. TRUE \in BOOLEAN /\ FALSE \in BOOLEAN
        OBVIOUS
  <2> QED BY <1>3, <2>1, StateInv DEF ObserveState
<1>4. CASE \E r \in fc.replies : ReceiveReply(r)
      BY <1>4, ReceiveReplyInv
<1>5. CASE Takeoff \/ Land \/ HoverCommand \/ Cancel \/ ExecuteWaypoints \/ Motion
             \/ SetNavigationMode
      BY <1>5, TakeoffInv, LandInv, HoverCommandInv, CancelInv, ExecuteWaypointsInv, MotionInv,
         SetNavigationModeInv
<1>6. CASE (\E field \in {"timer", "link", "navHold"} : Elapse(field)) \/ ElapseAttempt
      BY <1>6, ElapseInv, ElapseAttemptInv
<1>7. CASE \/ Telemetry \/ ThrustMode \/ Localization \/ NavigationTf \/ LeaseChange
           \/ FcuDisarms \/ Pilot \/ NavigationStatus
      BY <1>7, EnvironmentInv, NavigationStatusInv
<1>8. CASE ServeMode \/ ServeCall \/ Lose
      BY <1>8, ServeModeInv, ServeCallInv, LoseInv
<1>9. CASE UNCHANGED vars
      BY <1>9, SurroundingsInv DEF vars, Inv, TypeOK
<1> QED BY <1>1, <1>2, <1>3, <1>4, <1>5, <1>6, <1>7, <1>8, <1>9 DEF Next

LEMMA Invariance == Spec => []Inv
BY InitInv, NextInv, PTL DEF Spec

(* The variables keep their types: no handler mixes up tasks, modes or the *)
(* identities of commands, in any frame and whatever goes wrong.           *)
THEOREM TypeCorrect == Spec => []TypeOK
<1>1. Inv => TypeOK
      BY DEF Inv
<1> QED BY <1>1, Invariance, PTL

(* Every mode in which control_tick publishes attitude setpoints has the   *)
(* controller engaged, so enforce_safety never looks away from it.         *)
THEOREM RawModesSupervised == Spec => []RawSupervised
<1>1. Inv => RawSupervised
      BY DEF Inv, Fit, RawEngaged, RawSupervised
<1> QED BY <1>1, Invariance, PTL

(* No reply to an earlier call, no telemetry and no timer brings the       *)
(* controller back while a LAND is waiting for its confirmation.           *)
THEOREM LandsHandsOff == Spec => []LandHandsOff
<1>1. Inv => LandHandsOff
      BY DEF Inv, Fit, LandApart, LandHandsOff
<1> QED BY <1>1, Invariance, PTL

(* A take-off or waypoint task never flies without lease supervision.      *)
THEOREM TasksSupervised == Spec => []TaskSupervised
<1>1. Inv => TaskSupervised
      BY DEF Inv, Fit, TaskEngaged, TaskSupervised
<1> QED BY <1>1, Invariance, PTL

(* A latched avoidance LAND keeps every other task and every commanded     *)
(* mode out until the vehicle has disarmed.                                *)
THEOREM LatchKeepsOthersOut == Spec => []LatchHolds
<1>1. Inv => LatchHolds
  <2> SUFFICES ASSUME Inv, fc.latched
               PROVE  /\ fc.task \in {"none", "land"}
                      /\ fc.mode \notin {"takeoff", "motion", "waypoint"}
      BY DEF LatchHolds
  <2>1. fc \in Flight /\ TaskEngaged(fc) /\ Latched(fc)
        BY DEF Inv, Fit
  <2> QED BY <2>1, TaskCases DEF TaskEngaged, Latched
<1> QED BY <1>1, Invariance, PTL
=============================================================================
