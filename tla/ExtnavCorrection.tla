--------------------------- MODULE ExtnavCorrection ---------------------------
(***************************************************************************)
(* The correction half of the extnav bridge (extnav_to_vision_pose.py; the *)
(* native bridge keeps the same order of checks): the Odin session, the    *)
(* active planar correction, its revision, the SetCorrection service and   *)
(* the status it publishes.                                                *)
(*                                                                         *)
(* A correction is known by the job it came from, so that two corrections  *)
(* are the same exactly when their jobs are: the service never sends two   *)
(* candidates under one application id.  Sessions are numbered in the      *)
(* order they begin, which is what their uuid suffix is for.               *)
(* A request that is lost is one that never arrives: nothing forces it to. *)
(* Bounds: MaxSessions sessions, MaxRevision revisions; Limits bounds what *)
(* may come together in one behaviour.                                     *)
(***************************************************************************)
EXTENDS Integers, Sequences

CONSTANTS MaxSessions, MaxRevision,
          MaxJobs,     \* candidates the service may build
          MaxSends,    \* requests the service may send
          MaxRestarts, \* restarts of the service
          Limits       \* what may happen together in one behaviour

ASSUME BridgeAssumption ==
    /\ MaxSessions \in Nat /\ MaxRevision \in Nat /\ MaxJobs \in Nat
    /\ MaxSends \in Nat /\ MaxRestarts \in Nat
    /\ \A l \in Limits : /\ l.sessions \in 0..MaxSessions
                         /\ l.restarts \in 0..MaxRestarts
                         /\ l.revisions \in 0..MaxRevision
                         /\ l.others \in BOOLEAN /\ l.reboots \in BOOLEAN
                         /\ l.fit \subseteq 1..MaxJobs

VARIABLES
    limit,     \* the bounds of this behaviour, one of Limits
    extnav,    \* session, revision and applied_job_id of the bridge
    sessions,  \* sessions begun so far
    requests,  \* SetCorrection requests in flight
    answers,   \* SetCorrection responses in flight
    effects    \* history: the sends that took effect, in order

bridgeVars == <<limit, extnav, sessions, requests, answers, effects>>

NoSession == 0   \* the empty odin_session_id
NoJob == 0       \* correction_valid is FALSE
OtherTool == -1  \* a correction that another client of SetCorrection wrote

Session == NoSession..MaxSessions
Job == 1..MaxJobs
Correction == Job \cup {NoJob, OtherTool}
Status == [session : Session, revision : 0..MaxRevision, correction : Correction]
\* send and against are history: the number of the send, and the correction its
\* jump was computed from.
Request == [send : 1..MaxSends, against : Correction,
            job : Job, session : Session, revision : 0..MaxRevision]
Response == [send : 1..MaxSends, ok : BOOLEAN, session : Session, revision : 0..MaxRevision]

BridgeTypeOK ==
    /\ limit \in Limits
    /\ extnav \in Status
    /\ sessions \in Session
    /\ requests \subseteq Request
    /\ answers \subseteq Response
    /\ effects \in Seq(1..MaxSends)

Identity == [session |-> NoSession, revision |-> 0, correction |-> NoJob]

BridgeInit ==
    /\ limit \in Limits
    /\ extnav = Identity
    /\ sessions = 0
    /\ requests = {} /\ answers = {}
    /\ effects = <<>>

\* Mutant: the revision moves even if there was nothing to invalidate.
AlwaysMoved(e) == [e EXCEPT !.revision = @ + 1, !.correction = NoJob]

(* _invalidate: back to identity; the revision moves only if a correction  *)
(* was active.                                                             *)
Invalidated(e) ==
    [e EXCEPT !.revision = IF e.correction = NoJob THEN @ ELSE @ + 1,
              !.correction = NoJob]

MayInvalidate == extnav.correction = NoJob \/ extnav.revision < limit.revisions

(* _odom_cb accepts the first sample, or one after a gap or a change of    *)
(* frame: a new session begins and the old correction ends with the old.   *)
BeginSession ==
    /\ sessions < limit.sessions /\ MayInvalidate
    /\ sessions' = sessions + 1
    /\ extnav' = [Invalidated(extnav) EXCEPT !.session = sessions + 1]
    /\ UNCHANGED <<limit, requests, answers, effects>>

(* The status timer finds the last sample too old, or a sample arrives in  *)
(* the wrong frame.                                                        *)
LoseOdin ==
    /\ extnav.session # NoSession /\ MayInvalidate
    /\ extnav' = [Invalidated(extnav) EXCEPT !.session = NoSession]
    /\ UNCHANGED <<limit, sessions, requests, answers, effects>>

(* A sample cannot be transformed: identity, within the same session. *)
TransformFails ==
    /\ extnav.correction # NoJob /\ extnav.revision < limit.revisions
    /\ extnav' = Invalidated(extnav)
    /\ UNCHANGED <<limit, sessions, requests, answers, effects>>

(* Another client clears or writes a correction: its request carries the   *)
(* revision and the session the bridge has.                                *)
OtherClientWrites ==
    /\ limit.others
    /\ extnav.revision < limit.revisions
    /\ \/ /\ extnav.correction # NoJob
          /\ extnav' = Invalidated(extnav)
       \/ /\ extnav.session # NoSession
          /\ extnav' = [extnav EXCEPT !.revision = @ + 1, !.correction = OtherTool]
    /\ UNCHANGED <<limit, sessions, requests, answers, effects>>

(* _set_correction: the same job, session and values are confirmed again   *)
(* whatever the revision; everything else needs the revision and the       *)
(* session of the request to be the bridge's own, and a candidate that     *)
(* meets the bridge's own limits (limit.fit): its quality, the number of   *)
(* its samples, and the length of its translation.                         *)
SameAsActive(r) == r.job = extnav.correction /\ r.session = extnav.session

\* Mutant: the revision of the request is not compared.
AcceptsAny(r) ==
    extnav.session # NoSession /\ r.session = extnav.session /\ r.job \in limit.fit

Accepts(r) == /\ r.revision = extnav.revision
              /\ extnav.session # NoSession
              /\ r.session = extnav.session
              /\ r.job \in limit.fit

\* A response nobody waits for any more is dropped.
Answer(r, ok, e, awaited) ==
    answers' = answers \cup
      (IF awaited THEN {[send |-> r.send, ok |-> ok, session |-> e.session,
                         revision |-> e.revision]} ELSE {})

SetCorrection(r, awaited) ==
    /\ requests' = requests \ {r}
    /\ IF ~SameAsActive(r) /\ Accepts(r)
       THEN LET e == [extnav EXCEPT !.revision = @ + 1, !.correction = r.job]
            IN /\ extnav.revision < limit.revisions
               /\ extnav' = e
               /\ Answer(r, TRUE, e, awaited)
               /\ effects' = Append(effects, r.send)
       ELSE /\ Answer(r, SameAsActive(r), extnav, awaited)
            /\ UNCHANGED <<extnav, effects>>
    /\ UNCHANGED <<limit, sessions>>

(* The process is restarted: its revision starts again from zero. *)
RestartBridge ==
    /\ limit.reboots
    /\ extnav # Identity
    /\ extnav' = Identity
    /\ UNCHANGED <<limit, sessions, requests, answers, effects>>

BridgeStep ==
    \/ BeginSession \/ LoseOdin \/ TransformFails \/ OtherClientWrites
    \/ RestartBridge
=============================================================================
