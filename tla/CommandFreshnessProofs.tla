------------------------ MODULE CommandFreshnessProofs ------------------------
(***************************************************************************)
(* Proofs about CommandFreshness, for every time-to-live, tolerance,       *)
(* heartbeat delay and clock offset.  The inductive invariant adds to the  *)
(* types that the clock base is a heartbeat's delay behind (BaseOffset),   *)
(* that messages in flight were sent in the past, and what BaseOffset made *)
(* of the last command that was judged (Judged).                           *)
(***************************************************************************)
EXTENDS CommandFreshness, TLAPS

Judged == NoStaleCommand /\ NoFreshRefusal

Inv == TypeOK /\ BaseOffset /\ InFlightPast /\ Judged

LEMMA InitInv == Init => Inv
BY FreshnessAssumption
   DEF Init, Inv, TypeOK, BaseOffset, InFlightPast, Judged, NoStaleCommand,
       NoFreshRefusal, NoBase, NoVerdict, Time

LEMMA StepTypeOK == TypeOK /\ [Next]_vars => TypeOK'
<1> SUFFICES ASSUME TypeOK, [Next]_vars PROVE TypeOK'
    OBVIOUS
<1> USE FreshnessAssumption DEF TypeOK, Time
<1>1. CASE Advance
      BY <1>1 DEF Advance
<1>2. CASE SendHeartbeat
      BY <1>2 DEF SendHeartbeat
<1>3. CASE SendCommand
      BY <1>3 DEF SendCommand
<1>4. ASSUME NEW t \in beats, Heartbeat(t) PROVE TypeOK'
  <2>1. t \in Time /\ Stamp(t) \in Int
        BY DEF Stamp
  <2>2. Aligned(t) \in [set : BOOLEAN, stamp : Int, received : Time]
        BY <2>1 DEF Aligned
  <2>3. CASE t > lastBeat
        BY <1>4, <2>1, <2>2, <2>3 DEF Heartbeat
  <2>4. CASE ~(t > lastBeat)
        BY <1>4, <2>4 DEF Heartbeat
  <2> QED BY <2>3, <2>4
<1>5. ASSUME NEW t \in commands, Judge(t) PROVE TypeOK'
  <2>1. InWindow(Stamp(t)) \in BOOLEAN
        BY DEF InWindow
  <2>2. verdict' \in [judged : BOOLEAN, sent : Time, at : Time, accepted : BOOLEAN]
        BY <1>5, <2>1 DEF Judge
  <2> QED BY <1>5, <2>2 DEF Judge
<1>6. CASE UNCHANGED vars
      BY <1>6 DEF vars
<1> QED BY <1>1, <1>2, <1>3, <1>4, <1>5, <1>6 DEF Next

(* Whether a command is accepted says how old it really is, because the    *)
(* age the code computes differs from the true age by the base's delay.    *)
LEMMA JudgedRight ==
    ASSUME Inv, NEW t \in commands, Judge(t)
    PROVE  Judged'
<1> DEFINE delay == base.received - (base.stamp - offset)
<1>1. /\ t \in Int /\ now \in Int /\ offset \in Int
      /\ base.received \in Int /\ base.stamp \in Int
      BY FreshnessAssumption DEF Inv, TypeOK, Time
<1>2. delay \in Int /\ delay >= 0 /\ delay <= MaxDelay
      BY <1>1 DEF Inv, BaseOffset, Judge
<1>3. Age(Stamp(t)) = (now - t) - delay
      BY <1>1 DEF Age, Stamp
<1>4. /\ verdict'.judged /\ verdict'.sent = t /\ verdict'.at = now
      /\ verdict'.accepted = InWindow(Stamp(t))
      BY DEF Judge
<1>5. InWindow(Stamp(t)) <=> (now - t) - delay >= -Skew /\ (now - t) - delay <= Ttl
      BY <1>3 DEF InWindow, Judge
<1>6. verdict'.accepted => now - t <= Ttl + MaxDelay
      BY <1>1, <1>2, <1>4, <1>5, FreshnessAssumption
<1>7. ~verdict'.accepted => now - t > Ttl \/ now - t < MaxDelay - Skew
      BY <1>1, <1>2, <1>4, <1>5, FreshnessAssumption
<1> QED BY <1>4, <1>6, <1>7 DEF Judged, NoStaleCommand, NoFreshRefusal, TrueAge

LEMMA StepInv == Inv /\ [Next]_vars => Inv'
<1> SUFFICES ASSUME Inv, [Next]_vars PROVE Inv'
    OBVIOUS
<1>1. TypeOK'
      BY StepTypeOK DEF Inv
<1>2. UNCHANGED verdict => Judged'
      BY DEF Inv, Judged, NoStaleCommand, NoFreshRefusal, TrueAge
<1>3. UNCHANGED <<base, offset>> => BaseOffset'
      BY DEF Inv, BaseOffset
<1>4. CASE Advance
      BY <1>1, <1>2, <1>3, <1>4, FreshnessAssumption
      DEF Advance, Inv, InFlightPast, TypeOK, Time
<1>5. CASE SendHeartbeat \/ SendCommand
      BY <1>1, <1>2, <1>3, <1>5 DEF SendHeartbeat, SendCommand, Inv, InFlightPast, TypeOK, Time
<1>6. ASSUME NEW t \in beats, Heartbeat(t) PROVE Inv'
  <2>1. t \in Int /\ now \in Int /\ offset \in Int /\ t <= now
        BY FreshnessAssumption DEF Inv, TypeOK, Time, InFlightPast
  <2>2. BaseOffset'
        BY <1>3, <1>6, <2>1 DEF Heartbeat, Aligned, Stamp, BaseOffset
  <2> QED BY <1>1, <1>2, <1>6, <2>2 DEF Heartbeat, Inv, InFlightPast
<1>7. ASSUME NEW t \in commands, Judge(t) PROVE Inv'
      BY <1>1, <1>3, <1>7, JudgedRight DEF Judge, Inv, InFlightPast
<1>8. CASE UNCHANGED vars
      BY <1>1, <1>2, <1>3, <1>8 DEF vars, Inv, InFlightPast
<1> QED BY <1>4, <1>5, <1>6, <1>7, <1>8 DEF Next

LEMMA Invariance == Spec => []Inv
BY InitInv, StepInv, PTL DEF Spec

(* Every state of the freshness check is well typed. *)
THEOREM TypeCorrect == Spec => []TypeOK
<1>1. Inv => TypeOK
      BY DEF Inv
<1> QED BY <1>1, Invariance, PTL

(* validate_envelope never accepts a command older than its time-to-live   *)
(* plus one heartbeat delay, for all values of the constants.              *)
THEOREM StaleCommandsRefused == Spec => []NoStaleCommand
<1>1. Inv => NoStaleCommand
      BY DEF Inv, Judged
<1> QED BY <1>1, Invariance, PTL

(* validate_envelope refuses a command in its time-to-live only when it    *)
(* overtook the heartbeat delay by more than the tolerance.                *)
THEOREM FreshCommandsAccepted == Spec => []NoFreshRefusal
<1>1. Inv => NoFreshRefusal
      BY DEF Inv, Judged
<1> QED BY <1>1, Invariance, PTL
=============================================================================
