-------------------------- MODULE ControlLeaseProofs --------------------------
(***************************************************************************)
(* Proofs about ControlLease, for any number of ground stations, messages  *)
(* and restarts, with replies that may be lost.                            *)
(***************************************************************************)
EXTENDS ControlLease, TLAPS

-----------------------------------------------------------------------------
(* Types.                                                                  *)

LEMMA GroundIsNotNoSource == NoSource \notin Ground
BY LeaseAssumption

(* What a round of _update_lease makes of a station before it acts. *)
LEMMA PolledType ==
    ASSUME NEW st \in Station, NEW rs
    PROVE  HintChecked(Answered(st, rs)) \in Station
<1>1. Answered(st, rs) \in Station
      BY DEF Answered, Surrendered, Acquired, Station
<1> QED BY <1>1 DEF HintChecked, Station

LEMMA SendType ==
    ASSUME TypeOK, NEW g \in Ground, NEW st \in Station, NEW k \in Kind, Send(g, st, k)
    PROVE  ground' \in [Ground -> Station] /\ net' \subseteq Message
<1>1. st.seq \in 0..MaxSeq /\ st.seq + 1 \in 1..MaxSeq /\ st.seq + 1 \in 0..MaxSeq
      BY LeaseAssumption DEF Send, Station
<1>2. [st EXCEPT !.seq = @ + 1, !.acquiring = @ \/ k = "acquire",
                 !.surrendering = @ \/ k = "release"] \in Station
      BY <1>1 DEF Station
<1>3. [kind |-> k, src |-> g, seq |-> st.seq + 1] \in Message
      BY <1>1 DEF Message
<1> QED BY <1>2, <1>3 DEF Send, Update, TypeOK

LEMMA BranchType ==
    ASSUME TypeOK, NEW g \in Ground, NEW st \in Station, Branch(g, st)
    PROVE  ground' \in [Ground -> Station] /\ net' \subseteq Message
<1>1. "release" \in Kind /\ "heartbeat" \in Kind /\ "acquire" \in Kind
      BY DEF Kind
<1>2. [st EXCEPT !.releasing = FALSE, !.hint = FALSE, !.hintDue = FALSE] \in Station
      BY DEF Station
<1>3. [st EXCEPT !.enabled = FALSE, !.releasing = FALSE, !.authority = FALSE,
                 !.hint = FALSE, !.hintDue = FALSE] \in Station
      BY DEF Station
<1>4. ASSUME NEW k \in Kind, Send(g, st, k)
      PROVE  ground' \in [Ground -> Station] /\ net' \subseteq Message
      BY <1>4, SendType
<1>5. CASE LeaseRelease(g, st)
      BY <1>1, <1>2, <1>4, <1>5 DEF LeaseRelease, Update, TypeOK
<1>6. CASE LeaseHeartbeat(g, st) \/ LeaseAcquire(g, st)
      BY <1>1, <1>4, <1>6 DEF LeaseHeartbeat, LeaseAcquire
<1>7. CASE LeaseWait(g, st) \/ EndpointConflict(g, st)
      BY <1>3, <1>7 DEF LeaseWait, EndpointConflict, Update, TypeOK
<1> QED BY <1>5, <1>6, <1>7 DEF Branch

LEMMA OnboardTypes ==
    ASSUME TypeOK, NEW m \in Message
    PROVE  Consumed(m) \in Onboard /\ Granted(m) \in Onboard /\ Freed(m) \in Onboard
<1>1. m.src \in Ground /\ m.seq \in 0..MaxSeq
      BY LeaseAssumption DEF Message
<1>2. Consumed(m) \in Onboard
      BY <1>1 DEF Consumed, Onboard, TypeOK
<1> QED BY <1>1, <1>2 DEF Granted, Freed, Onboard

LEMMA FreshOnboardType == FreshOnboard \in Onboard
BY LeaseAssumption DEF FreshOnboard, Onboard

LEMMA InitTypeOK == Init => TypeOK
<1> SUFFICES ASSUME Init PROVE TypeOK
    OBVIOUS
<1>1. ground \in [Ground -> Station]
      BY LeaseAssumption DEF Init, Station
<1> QED BY <1>1, FreshOnboardType, LeaseAssumption DEF Init, TypeOK, Report

LEMMA ReceiveType ==
    ASSUME TypeOK, NEW m \in net, Receive(m)
    PROVE  TypeOK'
<1>1. m \in Message /\ m.src \in Ground /\ m.seq \in 0..MaxSeq
      BY LeaseAssumption DEF TypeOK, Message
<1>2. ASSUME NEW ok \in BOOLEAN, Respond(m, ok) PROVE replies' \subseteq Reply
  <2>1. [src |-> m.src, release |-> m.kind = "release", granted |-> ok] \in Reply
        BY <1>1 DEF Reply
  <2> QED BY <1>2, <2>1 DEF Respond, TypeOK
<1>3. /\ (InOrder(m) /\ ~TakenByOther(m)) \in BOOLEAN
      /\ (InOrder(m) /\ Owns(m)) \in BOOLEAN
      BY DEF InOrder, TakenByOther, Owns
<1>4. onboard' \in Onboard
      BY <1>1, OnboardTypes DEF Receive, AcquireHandled, ReleaseHandled, HeartbeatHandled, TypeOK
<1>5. replies' \subseteq Reply
      BY <1>2, <1>3 DEF Receive, AcquireHandled, ReleaseHandled, HeartbeatHandled, TypeOK
<1>6. released' \in [Ground -> 0..MaxSeq]
      BY <1>1 DEF Receive, AcquireHandled, ReleaseHandled, HeartbeatHandled, TypeOK
<1> QED BY <1>4, <1>5, <1>6 DEF Receive, TypeOK

LEMMA UpdateLeaseType ==
    ASSUME TypeOK, NEW g \in Ground, UpdateLease(g)
    PROVE  TypeOK'
<1>1. PICK rs \in SUBSET {r \in replies : r.src = g} :
        /\ Branch(g, HintChecked(Answered(ground[g], rs)))
        /\ replies' = replies \ rs
        /\ UNCHANGED <<onboard, status, restarts, released>>
      BY DEF UpdateLease
<1>2. HintChecked(Answered(ground[g], rs)) \in Station
      BY PolledType DEF TypeOK
<1>3. ground' \in [Ground -> Station] /\ net' \subseteq Message
      BY <1>1, <1>2, BranchType
<1> QED BY <1>1, <1>3 DEF TypeOK

LEMMA StepTypeOK == TypeOK /\ [Next]_vars => TypeOK'
<1> SUFFICES ASSUME TypeOK, [Next]_vars PROVE TypeOK'
    OBVIOUS
<1>1. ASSUME NEW m \in net, Receive(m) PROVE TypeOK'
      BY <1>1, ReceiveType
<1>2. CASE Expire
      BY <1>2 DEF Expire, TypeOK, Onboard
<1>3. CASE PublishStatus
      BY <1>3 DEF PublishStatus, TypeOK, Report
<1>4. CASE Restart
      BY <1>4, FreshOnboardType, LeaseAssumption DEF Restart, TypeOK
<1>5. CASE LoseHeartbeat
      BY <1>5 DEF LoseHeartbeat, TypeOK
<1>6. ASSUME NEW g \in Ground, EnableControl(g) \/ ReleaseControl(g) \/ StatusStale(g) \/ HintDue(g)
      PROVE  TypeOK'
  <2>1. ground[g] \in Station
        BY DEF TypeOK
  <2>2. /\ [ground[g] EXCEPT !.enabled = TRUE, !.releasing = FALSE] \in Station
        /\ [ground[g] EXCEPT !.enabled = FALSE, !.releasing = TRUE] \in Station
        /\ [ground[g] EXCEPT !.online = FALSE, !.authority = FALSE] \in Station
        /\ [ground[g] EXCEPT !.hintDue = TRUE] \in Station
        BY <2>1 DEF Station
  <2>3. PICK st \in Station : GroundOnly(g, st)
        BY <1>6, <2>2 DEF EnableControl, ReleaseControl, StatusStale, HintDue
  <2> QED BY <2>3 DEF GroundOnly, Update, TypeOK
<1>7. ASSUME NEW g \in Ground, ReadStatus(g) PROVE TypeOK'
  <2>1. [ground[g] EXCEPT !.online = TRUE, !.authority = (status[g] = "held")] \in Station
        BY DEF TypeOK, Station
  <2>2. status' \in [Ground -> Report]
        BY <1>7 DEF ReadStatus, TypeOK, Report
  <2> QED BY <1>7, <2>1, <2>2 DEF ReadStatus, Update, TypeOK
<1>8. ASSUME NEW g \in Ground, UpdateLease(g) PROVE TypeOK'
      BY <1>8, UpdateLeaseType
<1>9. CASE UNCHANGED vars
      BY <1>9 DEF vars, TypeOK
<1> QED BY <1>1, <1>2, <1>3, <1>4, <1>5, <1>6, <1>7, <1>8, <1>9 DEF Next

(* The lease tables, the stations and the messages are well typed. *)
THEOREM TypeCorrect == Spec => []TypeOK
BY InitTypeOK, StepTypeOK, PTL DEF Spec

-----------------------------------------------------------------------------
(* What a message does to the lease.                                       *)

LEMMA Tables ==
    ASSUME TypeOK, NEW m \in net
    PROVE  /\ m \in Message /\ m.src \in Ground
           /\ Consumed(m).owner = onboard.owner /\ Consumed(m).live = onboard.live
           /\ Consumed(m).clock = onboard.clock
           /\ Granted(m).owner = m.src /\ Granted(m).live = TRUE /\ Granted(m).clock = m.src
           /\ Freed(m).owner = NoSource /\ Freed(m).live = FALSE /\ Freed(m).clock = NoSource
<1>1. m \in Message /\ m.src \in Ground
      BY DEF TypeOK, Message
<1>2. Consumed(m) \in Onboard
      BY <1>1, OnboardTypes
<1>3. Consumed(m).owner = onboard.owner /\ Consumed(m).live = onboard.live
      /\ Consumed(m).clock = onboard.clock
      BY DEF Consumed, TypeOK, Onboard
<1> QED BY <1>1, <1>2, <1>3 DEF Granted, Freed, Onboard

(* A message leaves owner, liveness and clock alone, or it is granted to   *)
(* the only source it may be granted to, or it frees its own lease.        *)
LEMMA ReceiveCases ==
    ASSUME TypeOK, NEW m \in net, Receive(m)
    PROVE  \/ onboard' \in {onboard, Consumed(m)}
           \/ onboard' = Granted(m) /\ InOrder(m) /\ ~TakenByOther(m)
           \/ onboard' = Freed(m) /\ InOrder(m) /\ Owns(m)
BY DEF Receive, AcquireHandled, ReleaseHandled, HeartbeatHandled, TakenByOther

(* Everything but a message, an expiry and a restart leaves the vehicle's  *)
(* tables alone.                                                           *)
LEMMA OnboardSteps ==
    ASSUME [Next]_vars
    PROVE  \/ \E m \in net : Receive(m)
           \/ Expire \/ Restart
           \/ UNCHANGED <<onboard, released>>
<1> SUFFICES ASSUME ~(\E m \in net : Receive(m)), ~Expire, ~Restart
             PROVE  UNCHANGED <<onboard, released>>
    OBVIOUS
<1>1. CASE PublishStatus \/ LoseHeartbeat
      BY <1>1 DEF PublishStatus, LoseHeartbeat
<1>2. ASSUME NEW g \in Ground,
             \/ EnableControl(g) \/ ReleaseControl(g) \/ ReadStatus(g)
             \/ StatusStale(g) \/ HintDue(g) \/ UpdateLease(g)
      PROVE  UNCHANGED <<onboard, released>>
      BY <1>2 DEF EnableControl, ReleaseControl, ReadStatus, StatusStale, HintDue, UpdateLease,
                  GroundOnly
<1>3. CASE UNCHANGED vars
      BY <1>3 DEF vars
<1> QED BY <1>1, <1>2, <1>3 DEF Next

-----------------------------------------------------------------------------
(* The lease tables implement LeaseAuthority: a granted message is a Hold, *)
(* a release or a restart a Drop, a passed deadline an Expire, all other   *)
(* steps leave the abstract lease alone.                                   *)

LEMMA StepSimulates == TypeOK /\ [Next]_vars => [Authority!Next]_(Authority!vars)
<1> SUFFICES ASSUME TypeOK, [Next]_vars PROVE [Authority!Next]_(Authority!vars)
    OBVIOUS
<1> USE DEF Authority!Next, Authority!vars
<1>1. ASSUME NEW m \in net, Receive(m) PROVE [Authority!Next]_(Authority!vars)
  <2>1. CASE onboard' \in {onboard, Consumed(m)}
        BY <2>1, Tables
  <2>2. CASE onboard' = Granted(m) /\ ~TakenByOther(m)
    <3>1. Authority!Hold(m.src)
          BY <2>2, Tables DEF Authority!Hold, TakenByOther, Owns
    <3> QED BY <3>1, Tables
  <2>3. CASE onboard' = Freed(m)
        BY <2>3, Tables DEF Authority!Drop
  <2> QED BY <1>1, <2>1, <2>2, <2>3, ReceiveCases
<1>2. CASE Expire
      BY <1>2 DEF Expire, Authority!Expire, TypeOK, Onboard
<1>3. CASE Restart
      BY <1>3 DEF Restart, FreshOnboard, Authority!Drop
<1>4. CASE UNCHANGED onboard
      BY <1>4
<1> QED BY <1>1, <1>2, <1>3, <1>4, OnboardSteps

(* on_acquire_control and on_heartbeat keep the promise of the abstract    *)
(* lease, for any number of stations, messages, restarts and lost replies. *)
THEOREM LeaseRefinement == Spec => ImplementsLeaseAuthority
<1>1. Init => Authority!Init
      BY DEF Init, FreshOnboard, Authority!Init
<1> QED BY <1>1, StepSimulates, TypeCorrect, PTL DEF Spec, ImplementsLeaseAuthority, Authority!Spec

(* on_acquire_control and the deadline: a lease that runs is run by a      *)
(* station; none runs without an owner.                                    *)
THEOREM RunningLeaseHasOwner == Spec => []Authority!LiveHasHolder
<1>1. Authority!Init => Authority!LiveHasHolder
      BY DEF Authority!Init, Authority!LiveHasHolder
<1>2. Authority!LiveHasHolder /\ [Authority!Next]_(Authority!vars) => Authority!LiveHasHolder'
      BY DEF Authority!LiveHasHolder, Authority!Next, Authority!vars, Authority!Hold,
             Authority!Drop, Authority!Expire
<1> QED BY <1>1, <1>2, LeaseRefinement, PTL DEF ImplementsLeaseAuthority, Authority!Spec

(* on_acquire_control and on_heartbeat never hand a lease from one station *)
(* to another while it runs: it has to run out or to be given up between.  *)
THEOREM NoRunningLeaseIsTaken == Spec => Authority!ExclusiveHandover
<1>1. [Authority!Next]_(Authority!vars)
      => [onboard.live /\ onboard.live' => onboard.owner' = onboard.owner]_(Authority!vars)
      BY DEF Authority!Next, Authority!vars, Authority!Hold, Authority!Drop, Authority!Expire
<1> QED BY <1>1, LeaseRefinement, PTL
        DEF ImplementsLeaseAuthority, Authority!Spec, Authority!ExclusiveHandover

(* The time base that dates the owner's commands is always the owner's.    *)
THEOREM ClockIsOwners == Spec => []ClockFollowsOwner
<1>1. Init => ClockFollowsOwner
      BY DEF Init, FreshOnboard, ClockFollowsOwner
<1>2. TypeOK /\ ClockFollowsOwner /\ [Next]_vars => ClockFollowsOwner'
  <2> SUFFICES ASSUME TypeOK, ClockFollowsOwner, [Next]_vars PROVE ClockFollowsOwner'
      OBVIOUS
  <2>1. ASSUME NEW m \in net, Receive(m) PROVE ClockFollowsOwner'
        BY <2>1, ReceiveCases, Tables DEF ClockFollowsOwner
  <2>2. CASE Expire
        BY <2>2 DEF Expire, ClockFollowsOwner, TypeOK, Onboard
  <2>3. CASE Restart
        BY <2>3 DEF Restart, FreshOnboard, ClockFollowsOwner
  <2> QED BY <2>1, <2>2, <2>3, OnboardSteps DEF ClockFollowsOwner
<1> QED BY <1>1, <1>2, TypeCorrect, PTL DEF Spec

-----------------------------------------------------------------------------
(* No old acquire ever brings a released lease back.  The argument is the  *)
(* one _update_lease relies on: a release waits for the acquire in flight, *)
(* so an acquire in flight is younger than every release of its station.   *)

IsAcquire(m) == m.kind = "acquire"

\* Sequence numbers are handed out in order.
Numbered ==
    /\ \A m \in net : m.seq <= ground[m.src].seq
    /\ \A g \in Ground : released[g] <= ground[g].seq

\* A station has at most one acquire under way: as a request or as a reply.
OneAcquire ==
    /\ \A m \in net : IsAcquire(m) =>
          /\ ground[m.src].acquiring
          /\ \A n \in net : IsAcquire(n) /\ n.src = m.src => n = m
          /\ \A r \in replies : r.src = m.src => r.release
    /\ \A r \in replies : ~r.release =>
          /\ ground[r.src].acquiring
          /\ \A q \in replies : ~q.release /\ q.src = r.src => q = r

AcquireIsNewest ==
    \A m \in net : IsAcquire(m) =>
        /\ released[m.src] < m.seq
        /\ \A n \in net : n.kind = "release" /\ n.src = m.src => n.seq < m.seq

LeaseInv == Numbered /\ OneAcquire /\ AcquireIsNewest /\ NoResurrection

\* What the steps of a station other than _update_lease leave alone.
LEMMA QuietStation ==
    ASSUME TypeOK, NEW g \in Ground,
           \/ EnableControl(g) \/ ReleaseControl(g) \/ ReadStatus(g)
           \/ StatusStale(g) \/ HintDue(g)
    PROVE  /\ \A h \in Ground : /\ ground'[h].seq = ground[h].seq
                               /\ ground'[h].acquiring = ground[h].acquiring
           /\ UNCHANGED <<onboard, net, replies, released>>
<1>1. ground[g] \in Station
      BY DEF TypeOK
<1> DEFINE enabled  == [ground[g] EXCEPT !.enabled = TRUE, !.releasing = FALSE]
           giving    == [ground[g] EXCEPT !.enabled = FALSE, !.releasing = TRUE]
           stale    == [ground[g] EXCEPT !.online = FALSE, !.authority = FALSE]
           due      == [ground[g] EXCEPT !.hintDue = TRUE]
           told     == [ground[g] EXCEPT !.online = TRUE, !.authority = (status[g] = "held")]
           same(s)  == s.seq = ground[g].seq /\ s.acquiring = ground[g].acquiring
<1>2. same(enabled) /\ same(giving) /\ same(stale) /\ same(due) /\ same(told)
      BY <1>1 DEF Station
<1>3. \/ Update(g, enabled) \/ Update(g, giving) \/ Update(g, stale)
      \/ Update(g, due) \/ Update(g, told)
      BY DEF EnableControl, ReleaseControl, ReadStatus, StatusStale, HintDue, GroundOnly
<1>4. UNCHANGED <<onboard, net, replies, released>>
      BY DEF EnableControl, ReleaseControl, ReadStatus, StatusStale, HintDue, GroundOnly
<1> HIDE DEF enabled, giving, stale, due, told
<1> QED BY <1>2, <1>3, <1>4 DEF Update, TypeOK

LEMMA PolledFields ==
    ASSUME NEW st \in Station, NEW rs
    PROVE  LET p == HintChecked(Answered(st, rs)) IN
           /\ p.seq = st.seq
           /\ p.acquiring = (st.acquiring /\ ~\E r \in rs : ~r.release)
BY DEF HintChecked, Answered, Surrendered, Acquired, Station

\* A round of _update_lease sends at most one message, under the next number.
LEMMA BranchEffect ==
    ASSUME TypeOK, NEW g \in Ground, NEW st \in Station, Branch(g, st)
    PROVE  /\ \A h \in Ground \ {g} : ground'[h] = ground[h]
           /\ \/ /\ net' = net
                 /\ ground'[g].seq = st.seq /\ ground'[g].acquiring = st.acquiring
              \/ \E k \in Kind :
                   /\ net' = net \cup {[kind |-> k, src |-> g, seq |-> st.seq + 1]}
                   /\ ground'[g].seq = st.seq + 1
                   /\ ground'[g].acquiring = (st.acquiring \/ k = "acquire")
                   /\ k \in {"acquire", "release"} => ~st.acquiring
<1> DEFINE sent(k) == /\ net' = net \cup {[kind |-> k, src |-> g, seq |-> st.seq + 1]}
                      /\ ground'[g].seq = st.seq + 1
                      /\ ground'[g].acquiring = (st.acquiring \/ k = "acquire")
<1>1. ASSUME NEW k \in Kind, Send(g, st, k)
      PROVE  (\A h \in Ground \ {g} : ground'[h] = ground[h]) /\ sent(k)
      BY <1>1 DEF Send, Update, TypeOK, Station
<1>2. "release" \in Kind /\ "heartbeat" \in Kind /\ "acquire" \in Kind
      BY DEF Kind
<1>3. CASE LeaseRelease(g, st) /\ Send(g, st, "release")
      BY <1>1, <1>2, <1>3 DEF LeaseRelease, MayRelease
<1>4. CASE LeaseHeartbeat(g, st)
      BY <1>1, <1>2, <1>4 DEF LeaseHeartbeat
<1>5. CASE LeaseAcquire(g, st)
      BY <1>1, <1>2, <1>5 DEF LeaseAcquire
<1>6. ASSUME NEW s, Update(g, s), UNCHANGED net, s.seq = st.seq, s.acquiring = st.acquiring
      PROVE  /\ \A h \in Ground \ {g} : ground'[h] = ground[h]
             /\ net' = net /\ ground'[g].seq = st.seq /\ ground'[g].acquiring = st.acquiring
      BY <1>6 DEF Update, TypeOK
<1> DEFINE done == [st EXCEPT !.releasing = FALSE, !.hint = FALSE, !.hintDue = FALSE]
           over == [st EXCEPT !.enabled = FALSE, !.releasing = FALSE, !.authority = FALSE,
                              !.hint = FALSE, !.hintDue = FALSE]
<1>7. /\ done.seq = st.seq /\ done.acquiring = st.acquiring
      /\ over.seq = st.seq /\ over.acquiring = st.acquiring
      BY DEF Station
<1> HIDE DEF sent
<1>8. CASE LeaseRelease(g, st) /\ ~Send(g, st, "release")
      BY <1>6, <1>7, <1>8 DEF LeaseRelease
<1>9. CASE LeaseWait(g, st) \/ EndpointConflict(g, st)
      BY <1>6, <1>7, <1>9 DEF LeaseWait, EndpointConflict
<1> QED BY <1>3, <1>4, <1>5, <1>8, <1>9 DEF Branch

LEMMA UpdateLeaseInv ==
    ASSUME TypeOK, LeaseInv, NEW g \in Ground, UpdateLease(g)
    PROVE  LeaseInv'
<1>1. PICK rs \in SUBSET {r \in replies : r.src = g} :
        /\ Branch(g, HintChecked(Answered(ground[g], rs)))
        /\ replies' = replies \ rs
        /\ UNCHANGED <<onboard, status, restarts, released>>
      BY DEF UpdateLease
<1> DEFINE st == HintChecked(Answered(ground[g], rs))
<1>2. st \in Station /\ ground[g] \in Station
      BY PolledType DEF TypeOK
<1>3. st.seq = ground[g].seq /\ st.acquiring = (ground[g].acquiring /\ ~\E r \in rs : ~r.release)
      BY <1>2, PolledFields
<1>4. ~st.acquiring =>
        /\ \A m \in net : IsAcquire(m) => m.src # g
        /\ \A r \in replies' : ~r.release => r.src # g
      BY <1>1, <1>3 DEF LeaseInv, OneAcquire
<1>5. /\ \A m \in net : m.src \in Ground /\ m.seq \in Nat
      /\ \A h \in Ground : ground[h].seq \in Nat /\ released[h] \in Nat
      /\ \A r \in replies : r.src \in Ground
      BY LeaseAssumption DEF TypeOK, Message, Station, Reply
<1> HIDE DEF st
<1>6. NoResurrection'
      BY <1>1 DEF LeaseInv, NoResurrection
<1>7. CASE /\ net' = net /\ \A h \in Ground \ {g} : ground'[h] = ground[h]
           /\ ground'[g].seq = st.seq /\ ground'[g].acquiring = st.acquiring
  <2>1. \A h \in Ground : ground'[h].seq = ground[h].seq
        BY <1>3, <1>7
  <2>2. \A h \in Ground : ground[h].acquiring =>
             \/ ground'[h].acquiring
             \/ h = g /\ ~st.acquiring
        BY <1>7
  <2>3. Numbered'
        BY <1>1, <1>5, <1>7, <2>1 DEF LeaseInv, Numbered
  <2>4. OneAcquire'
        BY <1>1, <1>4, <1>5, <1>7, <2>2 DEF LeaseInv, OneAcquire
  <2>5. AcquireIsNewest'
        BY <1>1, <1>7 DEF LeaseInv, AcquireIsNewest
  <2> QED BY <1>6, <2>3, <2>4, <2>5 DEF LeaseInv
<1>8. ASSUME NEW k \in Kind,
             net' = net \cup {[kind |-> k, src |-> g, seq |-> st.seq + 1]},
             \A h \in Ground \ {g} : ground'[h] = ground[h],
             ground'[g].seq = st.seq + 1,
             ground'[g].acquiring = (st.acquiring \/ k = "acquire"),
             k \in {"acquire", "release"} => ~st.acquiring
      PROVE  LeaseInv'
  <2> DEFINE new == [kind |-> k, src |-> g, seq |-> st.seq + 1]
  <2>1. new.kind = k /\ new.src = g /\ new.seq = ground[g].seq + 1
        BY <1>3
  <2>2. net' = net \cup {new}
        BY <1>8
  <2> HIDE DEF new
  <2>3. \A m \in net : m.src = g => m.seq < new.seq
        BY <1>5, <2>1 DEF LeaseInv, Numbered
  <2>4. released[g] < new.seq
        BY <1>5, <2>1 DEF LeaseInv, Numbered
  <2>5. Numbered'
        BY <1>1, <1>3, <1>5, <1>8, <2>1, <2>2 DEF LeaseInv, Numbered
  <2>6. \A h \in Ground : ground[h].acquiring =>
             ground'[h].acquiring \/ (h = g /\ ~st.acquiring)
        BY <1>8
  <2>7. OneAcquire'
        BY <1>1, <1>4, <1>5, <1>8, <2>1, <2>2, <2>6 DEF LeaseInv, OneAcquire, IsAcquire
  <2>8. AcquireIsNewest'
        BY <1>1, <1>4, <1>5, <1>8, <2>1, <2>2, <2>3, <2>4 DEF LeaseInv, AcquireIsNewest, IsAcquire
  <2> QED BY <1>6, <2>5, <2>7, <2>8 DEF LeaseInv
<1> QED BY <1>1, <1>2, <1>7, <1>8, BranchEffect DEF st

LEMMA ReceiveInv ==
    ASSUME TypeOK, LeaseInv, NEW m \in net, Receive(m)
    PROVE  LeaseInv'
<1>1. /\ m.src \in Ground /\ m.seq \in Nat /\ m.kind \in Kind
      /\ \A n \in net : n.src \in Ground /\ n.seq \in Nat
      /\ \A h \in Ground : /\ ground[h].seq \in Nat /\ released[h] \in Nat
                          /\ onboard.last[h] \in Nat
      BY LeaseAssumption DEF TypeOK, Message, Station, Onboard
<1>2. net' = net \ {m} /\ UNCHANGED ground
      BY DEF Receive
<1>3. /\ UNCHANGED released
      \/ /\ m.kind = "release" /\ released' = [released EXCEPT ![m.src] = m.seq]
         /\ onboard' = Freed(m)
      BY DEF Receive, AcquireHandled, ReleaseHandled, HeartbeatHandled
<1>4. Numbered'
      BY <1>1, <1>2, <1>3 DEF LeaseInv, Numbered, TypeOK
<1>5. OneAcquire'
  <2>1. CASE UNCHANGED replies
        BY <1>2, <2>1 DEF LeaseInv, OneAcquire
  <2>2. ASSUME NEW ok, Respond(m, ok) PROVE OneAcquire'
    <3> DEFINE new == [src |-> m.src, release |-> m.kind = "release", granted |-> ok]
    <3>1. new.src = m.src /\ new.release = (m.kind = "release") /\ replies' = replies \cup {new}
          BY <2>2 DEF Respond
    <3> HIDE DEF new
    <3>2. CASE m.kind = "release"
          BY <1>2, <3>1, <3>2 DEF LeaseInv, OneAcquire
    <3>3. CASE m.kind = "acquire"
          BY <1>2, <3>1, <3>3 DEF LeaseInv, OneAcquire, IsAcquire
    <3> QED BY <3>2, <3>3, <2>2, <2>1, <1>1 DEF Receive, AcquireHandled, ReleaseHandled, HeartbeatHandled
  <2> QED BY <2>1, <2>2 DEF Receive, AcquireHandled, ReleaseHandled, HeartbeatHandled
<1>6. AcquireIsNewest'
      BY <1>1, <1>2, <1>3 DEF LeaseInv, AcquireIsNewest, IsAcquire, TypeOK
<1>7. NoResurrection'
  <2>1. /\ \A g \in Ground : Consumed(m).last[g] = IF g = m.src THEN m.seq ELSE onboard.last[g]
        /\ Granted(m).last = Consumed(m).last
        BY <1>1 DEF Consumed, Granted, TypeOK, Onboard
  <2>2. CASE onboard' = onboard /\ UNCHANGED released
        BY <2>2 DEF LeaseInv, NoResurrection
  <2>3. ASSUME onboard' = Consumed(m), onboard.owner # m.src, UNCHANGED released
        PROVE  NoResurrection'
        BY <1>1, <2>1, <2>3, Tables DEF LeaseInv, NoResurrection
  <2>4. ASSUME onboard' = Granted(m), released[m.src] < m.seq, UNCHANGED released
        PROVE  NoResurrection'
        BY <1>1, <2>1, <2>4, Tables DEF NoResurrection
  <2>5. CASE onboard' = Freed(m)
        BY <2>5, Tables, GroundIsNotNoSource DEF NoResurrection
  <2>6. CASE AcquireHandled(m)
    <3>1. released[m.src] < m.seq
          BY <2>6 DEF LeaseInv, AcquireIsNewest, AcquireHandled, IsAcquire
    <3> QED BY <2>6, <3>1, <2>2, <2>3, <2>4 DEF AcquireHandled, TakenByOther, Owns
  <2>7. CASE ReleaseHandled(m)
        BY <2>7, <2>2, <2>3, <2>5 DEF ReleaseHandled, Owns
  <2>8. CASE HeartbeatHandled(m)
    <3>1. Owns(m) /\ InOrder(m) => released[m.src] < m.seq
          BY <1>1 DEF LeaseInv, NoResurrection, Owns, InOrder
    <3> QED BY <2>8, <3>1, <2>2, <2>4 DEF HeartbeatHandled
  <2> QED BY <2>6, <2>7, <2>8 DEF Receive
<1> QED BY <1>4, <1>5, <1>6, <1>7 DEF LeaseInv

LEMMA StepLeaseInv == TypeOK /\ LeaseInv /\ [Next]_vars => LeaseInv'
<1> SUFFICES ASSUME TypeOK, LeaseInv, [Next]_vars PROVE LeaseInv'
    OBVIOUS
<1> USE DEF LeaseInv, Numbered, OneAcquire, AcquireIsNewest, NoResurrection
<1>0. (\A m \in net : m.src \in Ground) /\ (\A r \in replies : r.src \in Ground)
      BY DEF TypeOK, Message, Reply
<1>1. ASSUME NEW m \in net, Receive(m) PROVE LeaseInv'
      BY <1>1, ReceiveInv
<1>2. CASE Expire
      BY <1>2 DEF Expire, TypeOK, Onboard
<1>3. CASE PublishStatus
      BY <1>3 DEF PublishStatus
<1>4. CASE Restart
  <2>1. net' \subseteq net /\ replies' \subseteq replies /\ UNCHANGED <<ground, released>>
        BY <1>4 DEF Restart
  <2>2. NoResurrection'
        BY <1>4, GroundIsNotNoSource DEF Restart, FreshOnboard
  <2> QED BY <2>1, <2>2
<1>5. CASE LoseHeartbeat
      BY <1>5 DEF LoseHeartbeat
<1>6. ASSUME NEW g \in Ground,
             \/ EnableControl(g) \/ ReleaseControl(g) \/ ReadStatus(g)
             \/ StatusStale(g) \/ HintDue(g)
      PROVE  LeaseInv'
      BY <1>0, <1>6, QuietStation
<1>7. ASSUME NEW g \in Ground, UpdateLease(g) PROVE LeaseInv'
      BY <1>7, UpdateLeaseInv
<1>8. CASE UNCHANGED vars
      BY <1>8 DEF vars
<1> QED BY <1>1, <1>2, <1>3, <1>4, <1>5, <1>6, <1>7, <1>8 DEF Next

(* A station that gave the lease back only has it again by a message it    *)
(* sent after that release, whatever was delayed, lost or restarted.       *)
THEOREM ReleasedStaysReleased == Spec => []NoResurrection
<1>1. Init => LeaseInv
      BY GroundIsNotNoSource DEF Init, FreshOnboard, LeaseInv, Numbered, OneAcquire,
         AcquireIsNewest, NoResurrection
<1>2. LeaseInv => NoResurrection
      BY DEF LeaseInv
<1> QED BY <1>1, <1>2, StepLeaseInv, TypeCorrect, PTL DEF Spec
=============================================================================
