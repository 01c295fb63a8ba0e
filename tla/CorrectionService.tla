-------------------------- MODULE CorrectionService ---------------------------
(***************************************************************************)
(* The correction service (correction_service/node.py) against the extnav  *)
(* bridge: the calibration owner's lease, the one job that samples or      *)
(* applies in a thread of its own, the sliding window with its revision,   *)
(* the saved candidate, and the candidate whose application is unknown.    *)
(*                                                                         *)
(* A request that the service refuses changes nothing but the sequence     *)
(* number of its source, so only accepted requests are actions; the        *)
(* revisions they carry are then the current ones.  Every entry point runs *)
(* _expire_owner_locked first: an expired owner is dealt with by Expire    *)
(* before the request is decided.  Quality gates, ages and jump limits are *)
(* failures that may happen whenever the code evaluates them.              *)
(* Bounds: MaxJobs candidates, MaxSends requests to extnav, MaxWindow      *)
(* window revisions, MaxRestarts restarts of the service.                  *)
(***************************************************************************)
EXTENDS ExtnavCorrection

CONSTANTS Source,       \* the clients of the service, one source_id each
          Calibration,  \* those that are automatic calibrations
          NoSource,     \* the empty _automatic_owner
          Tag,          \* the tags of tag_pose.csv
          NoTag,        \* expected_tag_id -1
          MaxWindow

ASSUME ServiceAssumption ==
    /\ Calibration \subseteq Source /\ NoSource \notin Source
    /\ NoTag \notin Tag
    /\ MaxWindow \in Nat
    /\ \A l \in Limits : /\ l.jobs \in 0..MaxJobs
                         /\ l.clients \subseteq Source /\ l.tags \subseteq Tag

VARIABLES
    seen,      \* _extnav: the last status received
    owner,     \* _automatic_owner, _owner_releasing, _retired_owners, deadline passed
    job,       \* _job
    jobs,      \* job ids given out so far
    window,    \* _window, its keyframes, and _window_revision
    saved,     \* _saved_candidate
    pending,   \* _pending_candidate: an application in progress or unknown
    fault,     \* _resource_fault
    sent,      \* history: for every request sent, its series and the verdict on it
    restarts   \* restarts of the service so far

serviceVars == <<seen, owner, job, jobs, window, saved, pending, fault, sent, restarts>>
vars == <<bridgeVars, serviceVars>>

Keyframe == [tag : Tag, session : Session]

NoCandidate == [id |-> NoJob]
Candidate == [id : Job, session : Session, revision : 0..MaxRevision,
              base : 0..MaxWindow,       \* base_window_revision, or saved_window_revision
              saved : BOOLEAN,           \*   once it is saved
              series : 0..MaxSends,      \* history: the first send of its application
              keyframes : SUBSET Keyframe]

\* No thread, sampling or evaluating, candidate frozen, in _apply_to_extnav
\* before the request, waiting for the response, reconciling, outcome known,
\* finished with the thread still running.
Phase == {"idle", "gather", "frozen", "submit", "wait", "reconcile", "settle", "done"}
Verdict == {"open", "applied", "rejected", "unknown"}

NoWork == [phase |-> "idle"]
Over(s) == [phase |-> "done", source |-> s]
Work == [phase : Phase \ {"idle", "done"}, source : Source,
         tag : Tag \cup {NoTag},       \* expected_tag_id of a sampling job
         apply : BOOLEAN,
         stop : BOOLEAN,              \* stop_event, user_stop or failure_reason
         retry : BOOLEAN,             \* retrying_unknown
         candidate : Candidate,       \* with the session and the revisions it is based on
         against : Correction,        \* history: what its jump was computed from
         send : 0..MaxSends,          \* history: the request it sent
         verdict : Verdict,
         acked : -1..MaxRevision]     \* revision of the response, or of the status

TypeOK ==
    /\ BridgeTypeOK
    /\ seen \in Status
    /\ owner \in [source : Source \cup {NoSource}, releasing : BOOLEAN,
                  lapsed : BOOLEAN, retired : SUBSET Source]
    /\ job \in Work \cup {NoWork} \cup {Over(s) : s \in Source}
    /\ jobs \in 0..MaxJobs
    /\ window \in [keyframes : SUBSET Keyframe, revision : 0..MaxWindow]
    /\ saved \in Candidate \cup {NoCandidate}
    /\ pending \in Candidate \cup {NoCandidate}
    /\ fault \in BOOLEAN
    /\ sent \in Seq([series : 1..MaxSends, job : Job, verdict : Verdict])
    /\ restarts \in 0..MaxRestarts

NoOwner == [source |-> NoSource, releasing |-> FALSE, lapsed |-> FALSE, retired |-> {}]
EmptyWindow == [keyframes |-> {}, revision |-> 0]

ServiceInit ==
    /\ seen = Identity
    /\ owner = NoOwner
    /\ job = NoWork /\ jobs = 0
    /\ window = EmptyWindow
    /\ saved = NoCandidate /\ pending = NoCandidate
    /\ fault = FALSE
    /\ sent = <<>>
    /\ restarts = 0

Init == BridgeInit /\ ServiceInit

------------------------------------------------------------------------------
(* Helpers of the state. *)

Running == job # NoWork                                 \* _job_running_locked
Active == Running /\ job.phase # "done"                 \* job.active
Capturing == Running /\ job.phase \in {"gather", "frozen"}  \* _odom_capture_active

\* _extnav_ready_locked, unless the status is too old: where that matters it is a
\* failure that may happen at any evaluation.
Ready == seen.session # NoSession
SameBase(c) == seen.session = c.session /\ seen.revision = c.revision

\* _request_job_stop_locked, _fail_job_locked: an application already sent goes on.
Stopped(j) ==
    IF Running /\ j.phase \in {"gather", "frozen", "submit"}
    THEN [j EXCEPT !.stop = TRUE] ELSE j

\* _release_owner_locked: retire the owner and ask the job to stop; the owner is
\* cleared only when the thread has ended.
Released(o) ==
    IF Running
    THEN [o EXCEPT !.releasing = TRUE, !.lapsed = FALSE, !.retired = @ \cup {o.source}]
    ELSE [NoOwner EXCEPT !.retired = o.retired \cup {o.source}]
\* Mutant: the release leaves the job alone.
LeftRunning(o, j) == j
StoppedFor(o, j) == IF o.releasing THEN j ELSE Stopped(j)

\* _invalidate_window_locked.
Discard ==
    /\ window.revision + 1 < MaxWindow
    /\ window' = [keyframes |-> {}, revision |-> window.revision + 1]
    /\ saved' = NoCandidate
    /\ pending' = NoCandidate

\* _job_is_automatic_locked.
Automatic == job.source = owner.source \/ job.source \in owner.retired

\* Mutant: a release in progress is not looked at again.
OnlyLapse == owner.source # NoSource /\ owner.lapsed
ExpiryDue == owner.source # NoSource /\ (owner.lapsed \/ owner.releasing)
MayWrite(s) ==                                          \* _validate_owner_locked
    /\ ~ExpiryDue
    /\ owner.source \in {NoSource, s}
    /\ s \notin owner.retired

------------------------------------------------------------------------------
(* The extnav status and the odometry. *)

\* _on_extnav_status: a new session empties the window, even an empty one, an
\* outage only a window that has keyframes; both end an automatic calibration
\* and the job of another session.
ReceiveStatus ==
    LET changed == \/ seen.session # NoSession /\ extnav.session # seen.session
                   \/ \E k \in window.keyframes : extnav.session # k.session
        gone == extnav.session = NoSession
        foreign == Active /\ extnav.session # job.candidate.session
        j == IF foreign THEN Stopped(job) ELSE job
        release == owner.source # NoSource /\ (changed \/ gone)
    IN /\ seen' = extnav
       /\ IF changed \/ (gone /\ window.keyframes # {})
          THEN Discard
          ELSE UNCHANGED <<window, saved, pending>>
       /\ owner' = IF release THEN Released(owner) ELSE owner
       /\ job' = IF release THEN StoppedFor(owner, j) ELSE j
       /\ UNCHANGED <<bridgeVars, jobs, fault, sent, restarts>>

\* _on_odometry_fault: the odometry of the job fails; a header that goes back or
\* a frame that changes also empties the window.
OdometryFault(invalidate) ==
    /\ Capturing
    /\ job' = [job EXCEPT !.stop = TRUE]
    /\ IF invalidate
       THEN Discard
       ELSE UNCHANGED <<window, saved, pending>>
    /\ UNCHANGED <<bridgeVars, seen, owner, jobs, fault, sent, restarts>>

------------------------------------------------------------------------------
(* The lease of an automatic calibration. *)

\* Mutant: the ownership is granted beside a running job.
AcquireAtOnce(s) ==
    /\ MayWrite(s) /\ owner.source = NoSource
    /\ owner' = [owner EXCEPT !.source = s]
    /\ UNCHANGED <<bridgeVars, seen, job, jobs, window, saved, pending, fault, sent, restarts>>

\* _on_set_calibration_owner, acquire.  A renewal by the owner only keeps the
\* lease from lapsing.
Acquire(s) ==
    /\ MayWrite(s) /\ owner.source = NoSource
    /\ ~Running /\ pending = NoCandidate
    /\ owner' = [owner EXCEPT !.source = s]
    /\ UNCHANGED <<bridgeVars, seen, job, jobs, window, saved, pending, fault, sent, restarts>>

\* The same, release: the source never comes back, whoever owns at the moment.
Release(s) ==
    /\ ~owner.lapsed
    /\ LET o == [owner EXCEPT !.retired = @ \cup {s}]
           mine == owner.source = s
       IN /\ owner' = IF mine THEN Released(o) ELSE o
          /\ job' = IF mine THEN StoppedFor(owner, job) ELSE job
    /\ UNCHANGED <<bridgeVars, seen, jobs, window, saved, pending, fault, sent, restarts>>

\* CALIBRATION_OWNER_LEASE_SECONDS pass without a renewal.
LeaseLapses ==
    /\ owner.source # NoSource /\ ~owner.releasing /\ ~owner.lapsed
    /\ owner' = [owner EXCEPT !.lapsed = TRUE]
    /\ UNCHANGED <<bridgeVars, seen, job, jobs, window, saved, pending, fault, sent, restarts>>

\* _expire_owner_locked, from the status timer and from every entry point.
Expire ==
    /\ ExpiryDue
    /\ owner' = Released(owner)
    /\ job' = StoppedFor(owner, job)
    /\ UNCHANGED <<bridgeVars, seen, jobs, window, saved, pending, fault, sent, restarts>>

------------------------------------------------------------------------------
(* Requests that start, stop and clear. *)

\* _validate_common_request_locked, the revisions of the request being current.
Admits(s) == MayWrite(s) /\ ~Running /\ pending = NoCandidate /\ ~fault

Begin(s, tag, apply, retry, c) ==
    job' = [phase |-> "gather", source |-> s, tag |-> tag, apply |-> apply,
            stop |-> FALSE, retry |-> retry, candidate |-> c, against |-> NoJob,
            send |-> 0, verdict |-> "open", acked |-> -1]

\* _on_start: FIRST on an empty window, NEXT on one of the same session with
\* another tag.
Start(s, tag, apply) ==
    /\ Admits(s) /\ Ready
    /\ jobs < limit.jobs /\ window.revision < MaxWindow
    /\ \A k \in window.keyframes : k.session = seen.session /\ k.tag # tag
    /\ jobs' = jobs + 1
    /\ Begin(s, tag, apply, FALSE,
             [id |-> jobs + 1, session |-> seen.session, revision |-> seen.revision,
              base |-> window.revision, saved |-> FALSE, series |-> 0,
              keyframes |-> {}])
    /\ UNCHANGED <<bridgeVars, seen, owner, window, saved, pending, fault, sent, restarts>>

\* _on_stop.
Stop(s) ==
    /\ MayWrite(s) /\ Active
    /\ job' = Stopped(job)
    /\ UNCHANGED <<bridgeVars, seen, owner, jobs, window, saved, pending, fault, sent, restarts>>

\* _on_clear_window, and _on_configure_tags when it saves a new geometry.
ClearWindow(s) ==
    /\ Admits(s)
    /\ Discard
    /\ UNCHANGED <<bridgeVars, seen, owner, job, jobs, fault, sent, restarts>>

\* Mutant: an unknown application is sent again upon whatever revision is there.
AnyRevision(c) == TRUE

\* A candidate of an older revision may be retried only when extnav already shows
\* its correction.
NotOverwritten(c) == seen.revision # c.revision => seen.correction = c.id

\* _on_apply_saved: the pending candidate if there is one, else the saved one.
Chosen == IF pending # NoCandidate THEN pending ELSE saved
ApplySaved(s) ==
    LET c == Chosen
        retry == pending # NoCandidate
    IN /\ MayWrite(s) /\ ~Running /\ ~fault /\ Ready
       /\ window.revision < MaxWindow
       /\ c # NoCandidate
       /\ c.session = seen.session
       /\ c.base = window.revision
       /\ retry => NotOverwritten(c)
       /\ Begin(s, NoTag, TRUE, retry, [c EXCEPT !.revision = seen.revision])
       /\ UNCHANGED <<bridgeVars, seen, owner, jobs, window, saved, pending, fault, sent, restarts>>

------------------------------------------------------------------------------
(* The thread of the job: gather, freeze a candidate, release the captures. *)

CanApply(c) == Ready /\ SameBase(c)        \* _evaluate_candidate_apply_locked

\* Mutant: the window is committed without its revision and session.
CommitAnyway(c) == Ready
\* _commit_new_window_locked.
CanCommit(c) == window.revision = c.base /\ Ready /\ seen.session = c.session
Commit(c, revision) ==
    /\ window' = [keyframes |-> c.keyframes, revision |-> window.revision + 1]
    /\ saved' = [c EXCEPT !.saved = TRUE, !.base = window.revision + 1,
                          !.revision = revision]

Finish == job' = Over(job.source)

\* _freeze_candidate_locked, or the evaluation of a saved candidate: the jump is
\* computed from the correction seen now.  A stop that comes after the last
\* _raise_if_stopping does not prevent it.
Measured(c) ==
    IF job.tag = NoTag THEN c
    ELSE [c EXCEPT !.keyframes = window.keyframes \cup
                                   {[tag |-> job.tag, session |-> c.session]}]
Freeze ==
    /\ Running /\ job.phase = "gather"
    /\ job.apply => CanApply(job.candidate)
    /\ job' = [job EXCEPT !.phase = "frozen", !.tag = NoTag, !.against = seen.correction,
                          !.candidate = Measured(@)]
    /\ UNCHANGED <<bridgeVars, seen, owner, jobs, window, saved, pending, fault, sent, restarts>>

\* No image, no tag, no convergence, no fresh odometry, a stop, a gate not met.
GatherFails ==
    /\ Running /\ job.phase = "gather"
    /\ Finish
    /\ UNCHANGED <<bridgeVars, seen, owner, jobs, window, saved, pending, fault, sent, restarts>>

\* The camera or a subscription cannot be released: latched until a restart.
ReleaseFails ==
    /\ Capturing
    /\ fault' = TRUE
    /\ Finish
    /\ UNCHANGED <<bridgeVars, seen, owner, jobs, window, saved, pending, sent, restarts>>

\* _save_dry_run_and_finalize.
SaveDryRun ==
    /\ Running /\ job.phase = "frozen" /\ ~job.apply
    /\ ~owner.lapsed
    /\ \/ CanCommit(job.candidate) /\ ~job.stop /\ Commit(job.candidate, seen.revision)
       \/ UNCHANGED <<window, saved>>
    /\ Finish
    /\ UNCHANGED <<bridgeVars, seen, owner, jobs, pending, fault, sent, restarts>>

\* _apply_and_finalize, before _apply_to_extnav: the latch is closed first.
Submit ==
    /\ Running /\ job.phase = "frozen" /\ job.apply
    /\ pending' = job.candidate
    /\ job' = [job EXCEPT !.phase = "submit"]
    /\ UNCHANGED <<bridgeVars, seen, owner, jobs, window, saved, fault, sent, restarts>>

------------------------------------------------------------------------------
(* _apply_to_extnav and _reconcile_application. *)

Settle(verdict, revision) ==
    job' = [job EXCEPT !.phase = "settle", !.stop = FALSE, !.verdict = verdict,
                       !.acked = revision]

\* Mutant: the refusal of a retry counts as a refusal.
PlainRefusal == "rejected"

\* A refusal proves nothing about the earlier request of a retry.
Refusal == IF job.retry THEN "unknown" ELSE "rejected"

\* The checks under the lock that also decides stops and releases.
MaySend == /\ ~job.stop
           /\ CanApply(job.candidate)
           /\ window.revision = job.candidate.base

\* Before or at the send: the service is not found, or a check fails.
Withhold ==
    /\ Running /\ job.phase = "submit"
    /\ Settle(Refusal, -1)
    /\ UNCHANGED <<bridgeVars, seen, owner, jobs, window, saved, pending, fault, sent, restarts>>

\* call_async; an exception leaves open whether the request went out.
Send(raised) ==
    LET n == Len(sent) + 1
        k == IF job.retry THEN job.candidate.series ELSE n
        c == [job.candidate EXCEPT !.series = k]
        r == [send |-> n, against |-> job.against,
              job |-> c.id, session |-> c.session, revision |-> c.revision]
    IN /\ Running /\ job.phase = "submit"
       /\ ~owner.lapsed
       /\ MaySend
       /\ n <= MaxSends
       /\ requests' \in {requests \cup {r}} \cup (IF raised THEN {requests} ELSE {})
       /\ sent' = Append(sent, [series |-> k, job |-> c.id, verdict |-> "open"])
       /\ job' = [job EXCEPT !.candidate = c, !.send = n,
                    !.phase = IF raised THEN "settle" ELSE "wait",
                    !.verdict = IF raised THEN "unknown" ELSE "open"]
       /\ UNCHANGED <<limit, extnav, sessions, answers, effects,
                      seen, owner, jobs, window, saved, pending, fault, restarts>>

\* The response in time.  An automatic job also wants to see the status.
ReceiveAnswer(a) ==
    /\ Running /\ job.phase = "wait" /\ a.send = job.send
    /\ answers' = answers \ {a}
    /\ IF a.ok /\ a.session = job.candidate.session /\ a.revision >= job.candidate.revision
       THEN IF Automatic
            THEN job' = [job EXCEPT !.phase = "reconcile", !.acked = a.revision]
            ELSE Settle("applied", a.revision)
       ELSE Settle(Refusal, -1)
    /\ UNCHANGED <<limit, extnav, sessions, requests, effects,
                   seen, owner, jobs, window, saved, pending, fault, sent, restarts>>

\* extnav_apply_seconds pass, or the response is an exception.
AnswerTimesOut ==
    /\ Running /\ job.phase = "wait"
    /\ job' = [job EXCEPT !.phase = "reconcile"]
    /\ answers' = {}
    /\ UNCHANGED <<limit, extnav, sessions, requests, effects,
                   seen, owner, jobs, window, saved, pending, fault, sent, restarts>>

\* _application_matches_extnav_locked.
Matches(c) == /\ Ready /\ seen.session = c.session
              /\ seen.correction = c.id
              /\ seen.revision > c.revision

\* The status proves the application.
Confirm ==
    /\ Running /\ job.phase = "reconcile"
    /\ Matches(job.candidate)
    /\ job.acked # -1 => seen.revision = job.acked
    /\ Settle("applied", seen.revision)
    /\ UNCHANGED <<bridgeVars, seen, owner, jobs, window, saved, pending, fault, sent, restarts>>

\* extnav_reconcile_seconds pass: applied if there was a response, else unknown.
ReconcileTimesOut ==
    /\ Running /\ job.phase = "reconcile"
    /\ Settle(IF job.acked = -1 THEN "unknown" ELSE "applied", job.acked)
    /\ UNCHANGED <<bridgeVars, seen, owner, jobs, window, saved, pending, fault, sent, restarts>>

\* _apply_and_finalize, after _apply_to_extnav: save the window, put a rejected
\* candidate back, or latch the unknown one.
Account ==
    LET c == job.candidate
    IN /\ Running /\ job.phase = "settle"
       /\ sent' = IF job.send = 0 THEN sent ELSE [sent EXCEPT ![job.send].verdict = job.verdict]
       /\ CASE job.verdict = "applied" ->
                 /\ pending' = NoCandidate
                 /\ IF c.saved
                    THEN /\ saved' = [c EXCEPT !.base = window.revision, !.revision = job.acked]
                         /\ UNCHANGED window
                    ELSE \/ CanCommit(c) /\ Commit(c, job.acked)
                         \/ UNCHANGED <<window, saved>>
            [] job.verdict = "rejected" ->
                 /\ pending' = NoCandidate
                 /\ saved' = IF pending # NoCandidate /\ c.saved THEN pending ELSE saved
                 /\ UNCHANGED window
            [] job.verdict = "unknown" ->
                 /\ pending' = c
                 /\ saved' = IF c.saved THEN c ELSE saved
                 /\ UNCHANGED window
       /\ Finish
       /\ UNCHANGED <<bridgeVars, seen, owner, jobs, fault, restarts>>

\* _finish_job has published the result and the thread returns.
ThreadEnds ==
    /\ Running /\ job.phase = "done"
    /\ job' = NoWork
    /\ UNCHANGED <<bridgeVars, seen, owner, jobs, window, saved, pending, fault, sent, restarts>>

\* A new process: a new service instance with an empty window; requests already
\* sent are still on their way.
Restart ==
    /\ restarts < limit.restarts
    /\ restarts' = restarts + 1
    /\ answers' = {}
    /\ seen' = Identity
    /\ owner' = NoOwner
    /\ job' = NoWork
    /\ window' = EmptyWindow
    /\ saved' = NoCandidate /\ pending' = NoCandidate
    /\ fault' = FALSE
    /\ UNCHANGED <<limit, extnav, sessions, requests, effects, jobs, sent>>

------------------------------------------------------------------------------
\* A panel never asks for the ownership; a calibration writes only as the owner.
Client ==
    \/ \E s \in Calibration \cap limit.clients : Acquire(s) \/ Release(s)
    \/ \E s \in limit.clients :
         /\ s \in Calibration => owner.source = s
         /\ \/ Stop(s) \/ ClearWindow(s) \/ ApplySaved(s)
            \/ \E tag \in limit.tags, apply \in BOOLEAN : Start(s, tag, apply)

Thread ==
    \/ Freeze \/ GatherFails \/ ReleaseFails \/ SaveDryRun \/ Submit
    \/ Withhold \/ (\E raised \in BOOLEAN : Send(raised))
    \/ (\E a \in answers : ReceiveAnswer(a)) \/ AnswerTimesOut
    \/ Confirm \/ ReconcileTimesOut \/ Account \/ ThreadEnds

Awaited(r) == Running /\ job.phase = "wait" /\ job.send = r.send

Next ==
    \/ /\ BridgeStep \/ \E r \in requests : SetCorrection(r, Awaited(r))
       /\ UNCHANGED serviceVars
    \/ ReceiveStatus \/ (\E i \in BOOLEAN : OdometryFault(i))
    \/ LeaseLapses \/ Expire
    \/ Client \/ Thread \/ Restart

\* Every wait of the thread is bounded by a timeout, and the status timer of the
\* node runs _expire_owner_locked every 0.25 s.
Fairness == WF_vars(Thread) /\ WF_vars(Expire)

Spec == Init /\ [][Next]_vars /\ Fairness

------------------------------------------------------------------------------
(* Properties. *)

(* The jump that _evaluate_candidate_apply_locked limits is the jump that  *)
(* takes effect: a correction replaces exactly the one its jump was        *)
(* computed from, however long the request was on its way, whoever wrote   *)
(* in between and whatever was restarted.                                  *)
JumpChecked ==
    [][effects' # effects =>
         \A r \in requests \ requests' : r.against = extnav.correction]_vars

(* The verdict on a request is never false, whatever was lost or late:     *)
(* what is accounted as applied took effect, what is accounted as rejected *)
(* did not, in none of its requests, and never will.                       *)
AccountsAreTrue ==
    \A n \in DOMAIN sent :
        /\ sent[n].verdict = "applied" =>
              \E i \in DOMAIN effects : sent[effects[i]].job = sent[n].job
        /\ sent[n].verdict = "rejected" =>
              \A i \in DOMAIN effects : sent[effects[i]].series # sent[n].series

(* While an automatic calibration owns the service, the thread that runs   *)
(* is its own: a panel's job neither starts under it nor outlives into it. *)
OwnerExclusive == owner.source # NoSource /\ Running => job.source = owner.source

(* Once the owner's lease has lapsed or its release has been asked for,    *)
(* its job no longer sends an application.                                 *)
NoSendAfterRelease ==
    [][Len(sent') > Len(sent) => ~owner.lapsed /\ ~owner.releasing]_vars

(* The keyframes of the window are of the one session the service sees now *)
(* and of different tags: a job that began before a session changed cannot *)
(* put its keyframe into the window afterwards.                            *)
WindowOfOneSession ==
    /\ \A k \in window.keyframes : k.session = seen.session
    /\ \A k, l \in window.keyframes : k.tag = l.tag => k = l

(* An application takes effect at most once however often it is retried.   *)
InForce == IF extnav.correction \in Job THEN sent[effects[Len(effects)]].series ELSE 0
Register == INSTANCE CorrectionRegister WITH
    Application <- 1..MaxSends, None <- 0, active <- InForce,
    spent <- {sent[effects[i]].series : i \in DOMAIN effects}
ImplementsRegister == Register!Spec

(* An owner whose lease lapsed or that was asked to release is rid of its  *)
(* job and of the ownership in the end, so that others can write again.    *)
OwnerLetsGo == owner.lapsed \/ owner.releasing ~> owner.source = NoSource
=============================================================================
