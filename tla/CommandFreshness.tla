--------------------------- MODULE CommandFreshness ---------------------------
(***************************************************************************)
(* How onboard_control judges the age of a command without a common clock  *)
(* (validate_envelope, align_sender_clock).  Every heartbeat that is       *)
(* accepted pairs the sender's stamp with the receiver's steady clock; a   *)
(* command is dated by the time that has passed on both sides since then.  *)
(* A granted AcquireControl aligns the same way and counts as a heartbeat  *)
(* here.  The two clocks may differ by any constant amount, but a          *)
(* heartbeat that travelled long makes every later command look younger    *)
(* than it is.                                                             *)
(*                                                                         *)
(* Time is discrete and counted from the receiver's clock.  Assumed of the *)
(* network: a heartbeat that arrives at all travels at most MaxDelay; a    *)
(* command may travel for any time.  The sender's clock is not stepped.    *)
(* Bound: MaxTime (guard of Advance).                                      *)
(***************************************************************************)
EXTENDS Integers

CONSTANTS Ttl,       \* ttl_ms of a command
          Skew,      \* max_clock_skew_seconds_
          MaxDelay,  \* the longest a delivered heartbeat travels
          Offsets,   \* differences between the two clocks
          MaxTime    \* bound on the receiver's clock

ASSUME FreshnessAssumption ==
    /\ Ttl \in Nat /\ Skew \in Nat /\ MaxDelay \in Nat /\ MaxTime \in Nat
    /\ Offsets \subseteq Int

VARIABLES
    now,       \* SteadyClock::now()
    offset,    \* sender's clock minus the receiver's
    beats,     \* heartbeats in flight, as their sending times
    commands,  \* commands in flight, as their sending times
    lastBeat,  \* sending time of the last accepted heartbeat (its sequence)
    base,      \* sender_clock_stamp_ns_ and sender_clock_received_
    verdict    \* the last command judged: when sent, when judged, accepted?

vars == <<now, offset, beats, commands, lastBeat, base, verdict>>

Time == 0..MaxTime
NoBase == [set |-> FALSE, stamp |-> 0, received |-> 0]
NoVerdict == [judged |-> FALSE, sent |-> 0, at |-> 0, accepted |-> FALSE]

TypeOK ==
    /\ now \in Time
    /\ offset \in Offsets
    /\ beats \subseteq Time /\ commands \subseteq Time
    /\ lastBeat \in Time \cup {-1}
    /\ base \in [set : BOOLEAN, stamp : Int, received : Time]
    /\ verdict \in [judged : BOOLEAN, sent : Time, at : Time, accepted : BOOLEAN]

Init ==
    /\ now = 0 /\ offset \in Offsets
    /\ beats = {} /\ commands = {}
    /\ lastBeat = -1 /\ base = NoBase /\ verdict = NoVerdict

\* header.stamp of a message sent at the receiver's time t.
Stamp(t) == t + offset

Advance ==
    /\ now < MaxTime /\ now' = now + 1
    /\ UNCHANGED <<offset, beats, commands, lastBeat, base, verdict>>

SendHeartbeat ==
    /\ beats' = beats \cup {now}
    /\ UNCHANGED <<now, offset, commands, lastBeat, base, verdict>>

SendCommand ==
    /\ commands' = commands \cup {now}
    /\ UNCHANGED <<now, offset, beats, lastBeat, base, verdict>>

\* Mutant: the receiver's clock is taken to be the sender's.
AlignedToStamp(t) == [set |-> TRUE, stamp |-> Stamp(t), received |-> Stamp(t)]

\* align_sender_clock
Aligned(t) == [set |-> TRUE, stamp |-> Stamp(t), received |-> now]

(* on_heartbeat of the lease owner: out-of-order heartbeats are dropped,   *)
(* the others align the clock base (align_sender_clock).                   *)
Heartbeat(t) ==
    /\ t \in beats /\ now - t <= MaxDelay
    /\ beats' = beats \ {t}
    /\ IF t > lastBeat
       THEN /\ lastBeat' = t
            /\ base' = Aligned(t)
       ELSE UNCHANGED <<lastBeat, base>>
    /\ UNCHANGED <<now, offset, commands, verdict>>

\* age_seconds of a command whose header carries the given stamp.
Age(stamp) == (now - base.received) - (stamp - base.stamp)

\* Mutant: the tolerance for skewed clocks extends the time-to-live.
InWindowLate(stamp) == base.set /\ Age(stamp) >= -Skew /\ Age(stamp) <= Ttl + Skew

\* Mutant: no tolerance for a command that overtook a heartbeat.
InWindowStrict(stamp) == base.set /\ Age(stamp) >= 0 /\ Age(stamp) <= Ttl

InWindow(stamp) == base.set /\ Age(stamp) >= -Skew /\ Age(stamp) <= Ttl

(* validate_envelope on a command that arrives now. *)
Judge(t) ==
    /\ t \in commands /\ base.set
    /\ commands' = commands \ {t}
    /\ verdict' = [judged |-> TRUE, sent |-> t, at |-> now,
                   accepted |-> InWindow(Stamp(t))]
    /\ UNCHANGED <<now, offset, beats, lastBeat, base>>

Next ==
    \/ Advance \/ SendHeartbeat \/ SendCommand
    \/ \E t \in beats : Heartbeat(t)
    \/ \E t \in commands : Judge(t)

Spec == Init /\ [][Next]_vars

-----------------------------------------------------------------------------
TrueAge == verdict.at - verdict.sent

(* A command that is accepted was sent at most its time-to-live plus the   *)
(* delay of one heartbeat ago, whatever the offset between the clocks.     *)
NoStaleCommand == verdict.accepted => TrueAge <= Ttl + MaxDelay

(* A command within its time-to-live is refused only when it overtook the  *)
(* heartbeat delay by more than the tolerated skew: with MaxDelay <= Skew  *)
(* no live command is ever refused for its age.                            *)
NoFreshRefusal ==
    verdict.judged /\ ~verdict.accepted =>
        TrueAge > Ttl \/ TrueAge < MaxDelay - Skew

(* The base is never younger than the heartbeat it stands for and never    *)
(* older than one heartbeat delay; the messages in flight lie in the past. *)
BaseOffset ==
    base.set => LET delay == base.received - (base.stamp - offset)
                IN  delay >= 0 /\ delay <= MaxDelay

InFlightPast == \A t \in beats \cup commands : t <= now
=============================================================================
