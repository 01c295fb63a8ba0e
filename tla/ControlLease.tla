----------------------------- MODULE ControlLease -----------------------------
(***************************************************************************)
(* The control lease between ground stations and the vehicle.              *)
(*                                                                         *)
(* Vehicle side (onboard_control_node.cpp): the AcquireControl service,    *)
(* the ControlHeartbeat subscription and the lease deadline.  Ground side  *)
(* (ros_controller.py): _update_lease, which runs in every ground station  *)
(* and decides from the last status message, the last acquire reply and    *)
(* the operator's wishes whether to acquire, heartbeat or release.  Both   *)
(* sides speak the same interface version.                                 *)
(*                                                                         *)
(* Requests and heartbeats travel independently: any message in flight may *)
(* arrive next, a heartbeat may be lost, a status message may be old.      *)
(* Bounds: MaxSeq lease messages per source, MaxRestarts restarts of the   *)
(* vehicle's process.                                                      *)
(***************************************************************************)
EXTENDS Naturals, FiniteSets

CONSTANTS Ground,       \* the ground stations, one source id each
          NoSource,     \* the empty lease_owner_
          MaxSeq,       \* lease messages one ground station sends
          MaxRestarts,  \* restarts of onboard_control
          LossyReplies  \* TRUE when a restart may swallow a pending reply

ASSUME LeaseAssumption ==
    /\ NoSource \notin Ground
    /\ MaxSeq \in Nat
    /\ MaxRestarts \in Nat
    /\ LossyReplies \in BOOLEAN

VARIABLES
    onboard,   \* lease_owner_, lease active, last_lease_sequence_, clock source
    ground,    \* per station: the state of _update_lease and its snapshot
    net,       \* messages to the vehicle in flight
    replies,   \* AcquireControl responses in flight
    status,    \* per station: the ControlStatus on its way to it
    restarts,  \* restarts so far
    released   \* per station: sequence of its last release the vehicle granted

vars == <<onboard, ground, net, replies, status, restarts, released>>

Kind == {"acquire", "release", "heartbeat"}
Message == [kind : Kind, src : Ground, seq : 1..MaxSeq]
Reply == [src : Ground, release : BOOLEAN, granted : BOOLEAN]
\* "none": nothing new; otherwise whether the message says this source has control.
Report == {"none", "held", "free"}

Onboard == [owner : Ground \cup {NoSource}, live : BOOLEAN,
            last : [Ground -> 0..MaxSeq], clock : Ground \cup {NoSource}]
Station == [enabled : BOOLEAN,      \* _control_enabled
            releasing : BOOLEAN,    \* _release_requested
            seq : 0..MaxSeq,        \* _lease_sequence
            acquiring : BOOLEAN,    \* state["future"] is pending
            surrendering : BOOLEAN, \* state["release_future"] is pending
            hint : BOOLEAN,         \* state["granted_hint"]
            hintDue : BOOLEAN,      \* now >= state["grant_hint_deadline"]
            online : BOOLEAN,       \* snapshot.onboard_available
            authority : BOOLEAN]    \* snapshot.control_authority

TypeOK ==
    /\ onboard \in Onboard
    /\ ground \in [Ground -> Station]
    /\ net \subseteq Message
    /\ replies \subseteq Reply
    /\ status \in [Ground -> Report]
    /\ restarts \in 0..MaxRestarts
    /\ released \in [Ground -> 0..MaxSeq]

FreshOnboard == [owner |-> NoSource, live |-> FALSE,
                 last |-> [g \in Ground |-> 0], clock |-> NoSource]

Init ==
    /\ onboard = FreshOnboard
    /\ ground = [g \in Ground |->
         [enabled |-> FALSE, releasing |-> FALSE, seq |-> 0, acquiring |-> FALSE,
          surrendering |-> FALSE, hint |-> FALSE, hintDue |-> FALSE,
          online |-> FALSE, authority |-> FALSE]]
    /\ net = {} /\ replies = {}
    /\ status = [g \in Ground |-> "none"]
    /\ restarts = 0
    /\ released = [g \in Ground |-> 0]

-----------------------------------------------------------------------------
(* The vehicle.                                                            *)

Owns(m) == onboard.owner = m.src
InOrder(m) == m.seq > onboard.last[m.src]
\* Mutant: a running lease is there for the taking.
NeverTaken(m) == FALSE

TakenByOther(m) == onboard.live /\ ~Owns(m)

\* Mutant: the next number expected is stored in place of the last one seen.
ConsumedNext(m) == [onboard EXCEPT !.last[m.src] = m.seq + 1]

\* The lease table after m's sequence number has been consumed.
Consumed(m) == [onboard EXCEPT !.last[m.src] = m.seq]

Granted(m) == [Consumed(m) EXCEPT !.owner = m.src, !.live = TRUE, !.clock = m.src]

\* Mutant: a release leaves the sender's time base behind.
FreedButClock(m) == [Consumed(m) EXCEPT !.owner = NoSource, !.live = FALSE]

Freed(m) == [Consumed(m) EXCEPT !.owner = NoSource, !.live = FALSE, !.clock = NoSource]

Respond(m, ok) ==
    replies' = replies \cup {[src |-> m.src, release |-> m.kind = "release", granted |-> ok]}

(* on_acquire_control, release = false.  An out-of-order request consumes  *)
(* nothing; a request denied because another source holds the lease does.  *)
AcquireHandled(m) ==
    /\ m.kind = "acquire"
    /\ onboard' = IF ~InOrder(m) THEN onboard
                  ELSE IF TakenByOther(m) THEN Consumed(m) ELSE Granted(m)
    /\ Respond(m, InOrder(m) /\ ~TakenByOther(m))
    /\ UNCHANGED released

(* on_acquire_control, release = true: only the owner frees the lease, and *)
(* with it the time base of the source.                                    *)
ReleaseHandled(m) ==
    /\ m.kind = "release"
    /\ onboard' = IF ~InOrder(m) THEN onboard
                  ELSE IF ~Owns(m) THEN Consumed(m)
                  ELSE Freed(m)
    /\ Respond(m, InOrder(m) /\ Owns(m))
    /\ released' = IF InOrder(m) /\ Owns(m)
                   THEN [released EXCEPT ![m.src] = m.seq] ELSE released

(* on_heartbeat: the owner's next heartbeat prolongs the lease, and revives *)
(* it when it had expired without being taken.                              *)
HeartbeatHandled(m) ==
    /\ m.kind = "heartbeat"
    /\ onboard' = IF Owns(m) /\ InOrder(m) THEN Granted(m) ELSE onboard
    /\ UNCHANGED <<replies, released>>

Receive(m) ==
    /\ m \in net
    /\ net' = net \ {m}
    /\ AcquireHandled(m) \/ ReleaseHandled(m) \/ HeartbeatHandled(m)
    /\ UNCHANGED <<ground, status, restarts>>

\* lease_active_locked turns false when the deadline passes.
Expire ==
    /\ onboard.live
    /\ onboard' = [onboard EXCEPT !.live = FALSE]
    /\ UNCHANGED <<ground, net, replies, status, restarts, released>>

(* status_tick: every station is told who holds the lease.  A newer status *)
(* replaces one a station has not read yet.                                *)
PublishStatus ==
    /\ status' = [g \in Ground |->
                    IF onboard.live /\ onboard.owner = g THEN "held" ELSE "free"]
    /\ UNCHANGED <<onboard, ground, net, replies, restarts, released>>

(* The process restarts with empty tables.  What was in flight to it is    *)
(* lost or reaches the new process; a pending reply may be lost with it.   *)
Restart ==
    /\ restarts < MaxRestarts
    /\ restarts' = restarts + 1
    /\ onboard' = FreshOnboard
    /\ \E lost \in SUBSET net :
         /\ net' = net \ lost
         /\ ~LossyReplies => \A m \in lost : m.kind = "heartbeat"
    /\ replies' = IF LossyReplies THEN {} ELSE replies
    /\ UNCHANGED <<ground, status, released>>

LoseHeartbeat ==
    /\ \E m \in net : m.kind = "heartbeat" /\ net' = net \ {m}
    /\ UNCHANGED <<onboard, ground, replies, status, restarts, released>>

-----------------------------------------------------------------------------
(* A ground station.                                                       *)

Update(g, station) == ground' = [ground EXCEPT ![g] = station]

OwnsControl(st) == st.authority \/ st.hint

\* _next_lease_sequence and the message that carries the number.
Send(g, st, kind) ==
    /\ st.seq < MaxSeq
    /\ Update(g, [st EXCEPT !.seq = @ + 1,
                            !.acquiring = @ \/ kind = "acquire",
                            !.surrendering = @ \/ kind = "release"])
    /\ net' = net \cup {[kind |-> kind, src |-> g, seq |-> st.seq + 1]}

GroundOnly(g, station) ==
    /\ Update(g, station)
    /\ UNCHANGED <<onboard, net, replies, status, restarts, released>>

(* enable_control: the operator starts a control session. *)
EnableControl(g) ==
    /\ ~ground[g].enabled
    /\ GroundOnly(g, [ground[g] EXCEPT !.enabled = TRUE, !.releasing = FALSE])

(* release_control: a station that only observed asks for nothing. *)
ReleaseControl(g) ==
    /\ ground[g].enabled \/ ground[g].authority
    /\ ~ground[g].releasing
    /\ GroundOnly(g, [ground[g] EXCEPT !.enabled = FALSE, !.releasing = TRUE])

(* The status subscription, and its time-out: a stale status takes the     *)
(* authority away.                                                         *)
ReadStatus(g) ==
    /\ status[g] # "none"
    /\ status' = [status EXCEPT ![g] = "none"]
    /\ Update(g, [ground[g] EXCEPT !.online = TRUE, !.authority = (status[g] = "held")])
    /\ UNCHANGED <<onboard, net, replies, restarts, released>>

StatusStale(g) ==
    /\ ground[g].online
    /\ GroundOnly(g, [ground[g] EXCEPT !.online = FALSE, !.authority = FALSE])

\* The grant hint outlives its deadline of one second.
HintDue(g) ==
    /\ ground[g].hint /\ ~ground[g].hintDue
    /\ GroundOnly(g, [ground[g] EXCEPT !.hintDue = TRUE])

(* The parts of _update_lease, which is one step of the station's loop.    *)
(* First it reads the calls that are done: a finished release ends the     *)
(* release, a finished acquire becomes the hint.                           *)
Surrendered(st) ==
    [st EXCEPT !.surrendering = FALSE, !.releasing = FALSE, !.hint = FALSE, !.hintDue = FALSE]

Acquired(st, granted) ==
    [st EXCEPT !.acquiring = FALSE, !.hint = granted, !.hintDue = FALSE]

Answered(st, rs) ==
    LET a == IF \E r \in rs : r.release THEN Surrendered(st) ELSE st
    IN  IF \E r \in rs : ~r.release
        THEN Acquired(a, \E r \in rs : ~r.release /\ r.granted) ELSE a

\* Mutant: an unconfirmed hint is believed forever.
HintKept(st) == st

(* Then it drops a hint that the status has not confirmed in time. *)
HintChecked(st) ==
    IF st.hint /\ st.online /\ ~st.authority /\ st.hintDue
    THEN [st EXCEPT !.hint = FALSE, !.hintDue = FALSE] ELSE st

\* Mutant: the release does not wait for the acquire in flight.
MayReleaseEarly(st) == st.releasing /\ ~st.surrendering

MayRelease(st) == st.releasing /\ ~st.acquiring /\ ~st.surrendering

(* The release branch: a station that owns control sends a release; one    *)
(* that does not, or finds no service, is done at once.                    *)
LeaseRelease(g, st) ==
    /\ MayRelease(st)
    /\ \/ OwnsControl(st) /\ Send(g, st, "release")
       \/ /\ Update(g, [st EXCEPT !.releasing = FALSE, !.hint = FALSE, !.hintDue = FALSE])
          /\ UNCHANGED net

LeaseHeartbeat(g, st) ==
    /\ st.enabled /\ ~st.releasing /\ OwnsControl(st)
    /\ Send(g, st, "heartbeat")

LeaseAcquire(g, st) ==
    /\ st.enabled /\ ~st.releasing /\ ~OwnsControl(st)
    /\ st.online /\ ~st.acquiring
    /\ Send(g, st, "acquire")

\* Nothing is due yet, or a release waits for a call in flight.
LeaseWait(g, st) == ~MayRelease(st) /\ Update(g, st) /\ UNCHANGED net

(* Two publishers of the status were seen: the session is over, and        *)
(* nothing is released.                                                    *)
EndpointConflict(g, st) ==
    /\ Update(g, [st EXCEPT !.enabled = FALSE, !.releasing = FALSE, !.authority = FALSE,
                            !.hint = FALSE, !.hintDue = FALSE])
    /\ UNCHANGED net

Branch(g, st) ==
    \/ LeaseRelease(g, st) \/ LeaseHeartbeat(g, st) \/ LeaseAcquire(g, st)
    \/ LeaseWait(g, st)    \/ EndpointConflict(g, st)

(* _update_lease; rs are the replies that have arrived by now. *)
UpdateLease(g) ==
    \E rs \in SUBSET {r \in replies : r.src = g} :
        /\ Branch(g, HintChecked(Answered(ground[g], rs)))
        /\ replies' = replies \ rs
        /\ UNCHANGED <<onboard, status, restarts, released>>

Next ==
    \/ \E m \in net : Receive(m)
    \/ Expire \/ PublishStatus \/ Restart \/ LoseHeartbeat
    \/ \E g \in Ground :
         \/ EnableControl(g) \/ ReleaseControl(g)
         \/ ReadStatus(g) \/ StatusStale(g) \/ HintDue(g) \/ UpdateLease(g)

Spec == Init /\ [][Next]_vars

(* Rounds of the station's loop that get something done. *)
ReadReplies(g) == UpdateLease(g) /\ replies' # replies
DropHint(g) == UpdateLease(g) /\ HintChecked(ground[g]) # ground[g]
Ask(g) == UpdateLease(g) /\ \E m \in net' \ net : m.kind = "acquire"

(* Fairness.  The vehicle answers service calls and publishes its status   *)
(* on a timer, the middleware delivers both; the station's loop runs at    *)
(* 50 Hz, so it acts even when its status keeps going stale and coming     *)
(* back (strong fairness).  Nothing makes a heartbeat arrive, a lease last *)
(* or an operator act.                                                     *)
Fairness ==
    /\ WF_vars(PublishStatus)
    /\ \A g \in Ground :
         /\ WF_vars(\E m \in net : m.kind # "heartbeat" /\ m.src = g /\ Receive(m))
         /\ WF_vars(ReadStatus(g)) /\ WF_vars(HintDue(g)) /\ WF_vars(ReadReplies(g))
         /\ SF_vars(DropHint(g)) /\ SF_vars(Ask(g))

FairSpec == Spec /\ Fairness

-----------------------------------------------------------------------------
(* Properties.                                                             *)

(* The protocol keeps the abstract promise: the lease table implements     *)
(* LeaseAuthority, in particular a running lease never changes hands.      *)
Authority == INSTANCE LeaseAuthority
                 WITH Source <- Ground, holder <- onboard.owner, live <- onboard.live
ImplementsLeaseAuthority == Authority!Spec

(* A station that gave control back does not get it again from an old      *)
(* message: whoever owns the lease was granted it by a message it sent     *)
(* after the last release of its own the vehicle accepted, even when the   *)
(* sequence tables were emptied by a restart in between.                   *)
NoResurrection ==
    \A g \in Ground : onboard.owner = g => onboard.last[g] > released[g]

(* Commands of the owner are dated against the owner's own clock: the time *)
(* base validate_envelope compares with always belongs to the owner.       *)
ClockFollowsOwner == onboard.clock = onboard.owner

(* A station whose session is enabled gets authority again after lost      *)
(* heartbeats, an expiry or a restart of the vehicle's process, unless the *)
(* operator ends the session or the bound on its messages is used up.      *)
AuthorityRegained ==
    \A g \in Ground :
        (ground[g].enabled /\ ~ground[g].releasing /\ ~ground[g].authority)
          ~> (\/ ground[g].authority
              \/ ~ground[g].enabled \/ ground[g].releasing
              \/ ground[g].seq = MaxSeq)
=============================================================================
