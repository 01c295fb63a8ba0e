------------------------ MODULE CorrectionServiceProofs ------------------------
(***************************************************************************)
(* Proofs about CorrectionService, for any clients, calibrations and tags, *)
(* any numbers of sessions, revisions, candidates, requests and restarts,  *)
(* and for whatever may happen together in one behaviour.                  *)
(*                                                                         *)
(* The invariant has layers, each proved with the help of the ones below:  *)
(* types, ownership, windows, views of the bridge, applications, accounts. *)
(***************************************************************************)
EXTENDS CorrectionService, SequenceTheorems, TLAPS

-----------------------------------------------------------------------------
(* The strengthening, layer by layer.                                      *)

Unsent == {"gather", "frozen", "submit"}
AtBridge == {"wait", "reconcile"}

\* The job works for the application of its candidate's series, of which a request
\* may have been sent.
Claiming == /\ Running /\ job.phase # "done"
            /\ \/ job.retry
               \/ job.phase \in AtBridge
               \/ job.phase = "settle" /\ job.verdict = "unknown"
\* pending is an application whose outcome is unknown, and not the one in progress.
Latched == /\ pending # NoCandidate
           /\ job.phase \notin {"submit", "wait", "reconcile", "settle"}

SeriesInv ==
    /\ Claiming => job.candidate.series # 0
    /\ Latched => pending.series # 0

BaseInv == Active => job.candidate.base < MaxWindow

SettleInv ==
    job.phase = "settle" => /\ job.verdict # "open"
                            /\ job.verdict = "applied" => job.acked # -1

OwnerInv ==
    /\ OwnerExclusive
    /\ owner.releasing => owner.source # NoSource
    /\ owner.releasing /\ job.phase \in Unsent => job.stop

\* The keyframes of a set belong to session s, and no two have the same tag.
OneSession(K, s) ==
    /\ \A k \in K : k.session = s
    /\ \A k, l \in K : k.tag = l.tag => k = l

WindowInv ==
    /\ WindowOfOneSession
    /\ Active => OneSession(job.candidate.keyframes, job.candidate.session)
    /\ saved # NoCandidate => OneSession(saved.keyframes, saved.session)
    /\ pending # NoCandidate => OneSession(pending.keyframes, pending.session)
    /\ job.phase = "gather" =>
          (job.tag # NoTag =>
              \A k \in window.keyframes : k.session = job.candidate.session /\ k.tag # job.tag)

\* A revision of session s that was read from the bridge at some time, and the
\* correction it had.
Older(s, v) == /\ s <= sessions
               /\ s = extnav.session /\ s # NoSession => v <= extnav.revision
Read(s, v, x) == /\ Older(s, v)
                 /\ s = extnav.session /\ s # NoSession /\ v = extnav.revision =>
                       x = extnav.correction

ViewInv ==
    /\ extnav.session <= sessions
    /\ Read(seen.session, seen.revision, seen.correction)
    /\ \A r \in requests : Read(r.session, r.revision, r.against)
    /\ Active => Older(job.candidate.session, job.candidate.revision)
    /\ job.phase = "submit" \/ (job.phase = "frozen" /\ job.apply) =>
          Read(job.candidate.session, job.candidate.revision, job.against)
    /\ pending # NoCandidate => Older(pending.session, pending.revision)

\* The series that have taken effect.
Spent == {sent[effects[i]].series : i \in DOMAIN effects}

\* A request of series a for job j under revision v of session s would not take
\* effect a second time.
Passed(a, s, v, j) ==
    a \in Spent =>
        (s = extnav.session /\ s # NoSession =>
            v < extnav.revision \/ (v = extnav.revision /\ extnav.correction = j))

OnceInv ==
    /\ \A n \in DOMAIN sent : sent[n].series <= n
    /\ \A i \in DOMAIN effects : effects[i] \in DOMAIN sent
    /\ extnav.correction \in Job => effects # <<>>
    /\ \A r \in requests : /\ r.send \in DOMAIN sent
                           /\ Passed(sent[r.send].series, r.session, r.revision, r.job)
    /\ Claiming => /\ job.candidate.series <= Len(sent)
                   /\ Passed(job.candidate.series, job.candidate.session,
                             job.candidate.revision, job.candidate.id)
    /\ Latched => /\ pending.series <= Len(sent)
                  /\ Passed(pending.series, pending.session, pending.revision, pending.id)

\* The jobs whose candidate has taken effect, the sends that did, those that did or
\* still may, and the series of the sends accounted as rejected.
Effective == {sent[effects[i]].job : i \in DOMAIN effects}
Landed == {effects[i] : i \in DOMAIN effects}
Possible == Landed \cup {r.send : r \in requests}
Rejected == {sent[n].series : n \in {m \in DOMAIN sent : sent[m].verdict = "rejected"}}

EffectInv ==
    /\ \A n \in DOMAIN sent : sent[n].verdict = "applied" => sent[n].job \in Effective
    /\ extnav.correction \in Job => extnav.correction \in Effective
    /\ seen.correction \in Job => seen.correction \in Effective

RejectInv ==
    /\ Spent \cap Rejected = {}
    /\ \A r \in requests : sent[r.send].series \notin Rejected
    /\ Claiming => job.candidate.series \notin Rejected
    /\ Latched => pending.series \notin Rejected

FlightInv ==
    /\ \A r \in requests : /\ r.session # NoSession /\ sent[r.send].job = r.job
                           /\ r.send \notin Landed
                           /\ \A q \in requests : q.send = r.send => q = r
    /\ \A a \in answers : /\ a.send \in DOMAIN sent
                          /\ a.ok => sent[a.send].job \in Effective
                          /\ ~a.ok => a.send \notin Possible

\* What is on its way for the job that waits is about its candidate.
WaitInv ==
    job.phase = "wait" =>
        /\ \A r \in requests : r.send = job.send =>
              r.session = job.candidate.session /\ r.revision = job.candidate.revision
        /\ \A a \in answers : a.send = job.send /\ a.ok =>
              a.session = job.candidate.session /\ a.revision >= job.candidate.revision

JobInv ==
    /\ job.phase \in Unsent => job.send = 0 /\ job.acked = -1
    /\ job.phase \in AtBridge =>
          job.send # 0 /\ (job.acked # -1 => job.candidate.id \in Effective)
    /\ job.phase \in AtBridge \/ (job.phase = "settle" /\ job.send # 0) =>
          /\ job.send = Len(sent)
          /\ sent[job.send].job = job.candidate.id
          /\ ~job.retry => sent[job.send].series = job.send
    /\ job.phase = "settle" =>
          /\ job.verdict = "applied" => job.candidate.id \in Effective
          /\ job.verdict = "rejected" => ~job.retry /\ (job.send # 0 => job.send \notin Possible)

AccountInv == EffectInv /\ RejectInv /\ FlightInv /\ WaitInv /\ JobInv

-----------------------------------------------------------------------------
(* Types.                                                                  *)

TypeInv == TypeOK /\ SeriesInv /\ BaseInv /\ SettleInv

LEMMA LimitTypes ==
    ASSUME TypeOK
    PROVE  /\ limit.sessions \in 0..MaxSessions /\ limit.revisions \in 0..MaxRevision
           /\ limit.jobs \in 0..MaxJobs /\ limit.restarts \in 0..MaxRestarts
           /\ limit.clients \subseteq Source /\ limit.tags \subseteq Tag
           /\ MaxSessions \in Nat /\ MaxRevision \in Nat /\ MaxJobs \in Nat
           /\ MaxSends \in Nat /\ MaxRestarts \in Nat /\ MaxWindow \in Nat
BY BridgeAssumption, ServiceAssumption DEF TypeOK, BridgeTypeOK

(* A job that is at work is a record of Work; the others have a phase only. *)
LEMMA Shape ==
    ASSUME TypeOK
    PROVE  /\ Running <=> job.phase # "idle"
           /\ Active <=> job.phase \notin {"idle", "done"}
           /\ Active => job \in Work
           /\ Running => job.source \in Source
           /\ job.phase \in Phase
<1>1. CASE job \in Work
      BY <1>1 DEF Running, Active, Work, NoWork, Phase
<1>2. CASE job = NoWork
      BY <1>2 DEF Running, Active, NoWork, Phase
<1>3. ASSUME NEW s \in Source, job = Over(s) PROVE job.phase = "done" /\ job.source = s /\ Running
      BY <1>3 DEF Running, Over, NoWork
<1>4. CASE job \in {Over(s) : s \in Source}
      BY <1>3, <1>4 DEF Running, Active, Phase
<1> QED BY <1>1, <1>2, <1>4 DEF TypeOK

LEMMA StoppedType ==
    ASSUME TypeOK, NEW j, j = job \/ j = Stopped(job)
    PROVE  /\ Stopped(j) \in Work \cup {NoWork} \cup {Over(s) : s \in Source}
           /\ Stopped(j).phase = job.phase
           /\ job.phase \notin Unsent => Stopped(j) = job
           /\ job.phase \in Unsent =>
                 /\ Stopped(j) \in Work /\ Stopped(j).stop
                 /\ Stopped(j) = [job EXCEPT !.stop = TRUE]
<1>1. Unsent \cap {"idle", "done"} = {}
      BY DEF Unsent
<1>2. CASE job.phase \notin Unsent
      BY <1>2 DEF Stopped, Unsent, TypeOK
<1>3. CASE job.phase \in Unsent
  <2>1. job \in Work /\ Running
        BY <1>1, <1>3, Shape
  <2>2. [job EXCEPT !.stop = TRUE] \in Work
        BY <2>1 DEF Work
  <2>3. Stopped(job) = [job EXCEPT !.stop = TRUE]
        BY <2>1, <1>3 DEF Stopped, Unsent
  <2>4. [[job EXCEPT !.stop = TRUE] EXCEPT !.stop = TRUE] = [job EXCEPT !.stop = TRUE]
        BY <2>1 DEF Work
  <2> QED BY <2>1, <2>2, <2>3, <2>4, <1>3 DEF Stopped, Unsent, Work
<1> QED BY <1>2, <1>3

LEMMA InvalidatedType ==
    ASSUME TypeOK, MayInvalidate
    PROVE  /\ Invalidated(extnav) \in Status
           /\ Invalidated(extnav).session = extnav.session
           /\ Invalidated(extnav).correction = NoJob
           /\ extnav.correction = NoJob => Invalidated(extnav).revision = extnav.revision
           /\ extnav.correction # NoJob => Invalidated(extnav).revision = extnav.revision + 1
<1>1. NoJob \in Correction
      BY DEF Correction, NoJob
<1>2. extnav \in Status
      BY DEF TypeOK, BridgeTypeOK
<1>3. extnav.correction # NoJob => extnav.revision + 1 \in 0..MaxRevision
      BY <1>2, LimitTypes DEF MayInvalidate, Status
<1> QED BY <1>1, <1>2, <1>3 DEF Invalidated, Status

LEMMA BridgeTypes ==
    ASSUME TypeOK, BridgeStep \/ \E r \in requests : SetCorrection(r, Awaited(r))
    PROVE  BridgeTypeOK'
<1>a. /\ extnav \in Status /\ extnav.revision \in 0..MaxRevision
      /\ limit.revisions \in 0..MaxRevision /\ MaxRevision \in Nat
      BY LimitTypes DEF TypeOK, BridgeTypeOK, Status
<1>b. extnav.revision < limit.revisions => extnav.revision + 1 \in 0..MaxRevision
      BY <1>a
<1>c. sessions < limit.sessions => sessions + 1 \in Session
  <2>1. sessions \in 0..MaxSessions /\ limit.sessions \in 0..MaxSessions /\ MaxSessions \in Nat
        BY LimitTypes DEF TypeOK, BridgeTypeOK, Session, NoSession
  <2> QED BY <2>1 DEF Session, NoSession
<1> USE DEF TypeOK, BridgeTypeOK
<1>0. /\ NoSession \in Session /\ NoJob \in Correction /\ OtherTool \in Correction
      /\ 0 \in 0..MaxRevision /\ Job \subseteq Correction
      BY LimitTypes DEF NoSession, Session, NoJob, OtherTool, Correction
<1>1. CASE BeginSession
  <2>1. sessions + 1 \in Session
        BY <1>1, <1>c DEF BeginSession
  <2>2. [Invalidated(extnav) EXCEPT !.session = sessions + 1] \in Status
        BY <1>1, <2>1, InvalidatedType DEF BeginSession, Status
  <2> QED BY <1>1, <2>1, <2>2 DEF BeginSession
<1>2. CASE LoseOdin
  <2>1. [Invalidated(extnav) EXCEPT !.session = NoSession] \in Status
        BY <1>0, <1>2, InvalidatedType DEF LoseOdin, Status
  <2> QED BY <1>2, <2>1 DEF LoseOdin
<1>3. CASE TransformFails
      BY <1>3, InvalidatedType DEF TransformFails, MayInvalidate
<1>4. CASE OtherClientWrites
  <2>0. extnav.revision < limit.revisions
        BY <1>4 DEF OtherClientWrites
  <2>1. extnav.revision + 1 \in 0..MaxRevision
        BY <1>b, <2>0
  <2>2. [extnav EXCEPT !.revision = @ + 1, !.correction = OtherTool] \in Status
        BY <1>0, <2>1 DEF Status
  <2> QED BY <1>4, <2>2, InvalidatedType DEF OtherClientWrites, MayInvalidate
<1>5. CASE RestartBridge
      BY <1>0, <1>5 DEF RestartBridge, Identity, Status
<1>6. ASSUME NEW r \in requests, SetCorrection(r, Awaited(r)) PROVE BridgeTypeOK'
  <2>1. /\ r \in Request /\ r.send \in 1..MaxSends /\ r.job \in Correction
        BY <1>0 DEF Request
  <2>2. ASSUME NEW ok \in BOOLEAN, NEW e \in Status, Answer(r, ok, e, Awaited(r))
        PROVE  answers' \subseteq Response
    <3>1. [send |-> r.send, ok |-> ok, session |-> e.session, revision |-> e.revision] \in Response
          BY <2>1, <2>2 DEF Response, Status
    <3> QED BY <2>2, <3>1 DEF Answer
  <2>3. CASE ~SameAsActive(r) /\ Accepts(r)
    <3>0. extnav.revision < limit.revisions
          BY <1>6, <2>3 DEF SetCorrection
    <3>1. extnav.revision + 1 \in 0..MaxRevision
          BY <1>b, <3>0
    <3>2. [extnav EXCEPT !.revision = @ + 1, !.correction = r.job] \in Status
          BY <2>1, <3>1 DEF Status
    <3>3. Append(effects, r.send) \in Seq(1..MaxSends)
          BY <2>1
    <3> QED BY <1>6, <2>2, <2>3, <3>2, <3>3 DEF SetCorrection
  <2>4. CASE ~(~SameAsActive(r) /\ Accepts(r))
    <3>1. SameAsActive(r) \in BOOLEAN
          BY DEF SameAsActive
    <3> QED BY <1>6, <2>2, <2>4, <3>1 DEF SetCorrection
  <2> QED BY <2>3, <2>4
<1> QED BY <1>1, <1>2, <1>3, <1>4, <1>5, <1>6 DEF BridgeStep

\* What a job is set to while it runs.
LEMMA JobSteps ==
    ASSUME TypeOK, job \in Work
    PROVE  /\ [job EXCEPT !.stop = TRUE] \in Work
           /\ \A p \in Phase \ {"idle", "done"} : [job EXCEPT !.phase = p] \in Work
           /\ \A v \in Verdict, n \in -1..MaxRevision :
                 [job EXCEPT !.phase = "settle", !.stop = FALSE, !.verdict = v, !.acked = n] \in Work
           /\ \A n \in -1..MaxRevision : [job EXCEPT !.phase = "reconcile", !.acked = n] \in Work
<1>1. {"settle", "reconcile"} \subseteq Phase \ {"idle", "done"}
      BY DEF Phase
<1> QED BY <1>1 DEF Work

LEMMA OverType ==
    ASSUME TypeOK, Running
    PROVE  Over(job.source) \in Work \cup {NoWork} \cup {Over(s) : s \in Source}
BY Shape

\* A finished job claims nothing and needs nothing.
LEMMA FinishFacts ==
    ASSUME Finish
    PROVE  /\ job'.phase = "done" /\ job'.source = job.source
           /\ ~Claiming' /\ BaseInv' /\ SettleInv' /\ Running'
           /\ Latched' <=> pending' # NoCandidate'
BY DEF Finish, Over, Claiming, BaseInv, SettleInv, Active, Running, Latched, NoWork, NoCandidate

LEMMA ReleasedType ==
    ASSUME TypeOK, NEW o, o \in [source : Source \cup {NoSource}, releasing : BOOLEAN,
                                 lapsed : BOOLEAN, retired : SUBSET Source],
           o.source \in Source
    PROVE  Released(o) \in [source : Source \cup {NoSource}, releasing : BOOLEAN,
                            lapsed : BOOLEAN, retired : SUBSET Source]
BY DEF Released, NoOwner

LEMMA DiscardType ==
    ASSUME TypeOK, Discard
    PROVE  /\ window' \in [keyframes : SUBSET Keyframe, revision : 0..MaxWindow]
           /\ saved' = NoCandidate /\ pending' = NoCandidate
           /\ ~Latched'
<1>1. window.revision + 1 \in 0..MaxWindow
      BY LimitTypes DEF Discard, TypeOK
<1> QED BY <1>1 DEF Discard, Latched, NoCandidate

\* The parts of TypeInv that a step of one of the callbacks may disturb.
LEMMA CallbackTypes ==
    ASSUME TypeInv, UNCHANGED <<bridgeVars, jobs, fault, sent, restarts>>,
           seen' \in Status,
           owner' \in [source : Source \cup {NoSource}, releasing : BOOLEAN,
                       lapsed : BOOLEAN, retired : SUBSET Source],
           job' = job \/ job' = Stopped(job) \/ job' = Stopped(Stopped(job)),
           Discard \/ UNCHANGED <<window, saved, pending>>
    PROVE  TypeInv'
<1> USE DEF TypeInv
<1>1. /\ job' \in Work \cup {NoWork} \cup {Over(s) : s \in Source}
      /\ job' = job \/ (job \in Work /\ job' = [job EXCEPT !.stop = TRUE])
      BY Shape, StoppedType DEF TypeOK, Unsent
<1>2. TypeOK'
      BY <1>1, DiscardType DEF TypeOK, BridgeTypeOK, bridgeVars
<1>3. /\ job'.phase = job.phase /\ (Claiming' <=> Claiming) /\ (Active' <=> Active)
      /\ job \in Work => job'.candidate = job.candidate
      BY <1>1, Shape DEF Claiming, Running, Active, Work, NoWork
<1>4. BaseInv'
      BY <1>1, <1>3, Shape DEF BaseInv, Active
<1>5. Claiming' => job'.candidate.series # 0
      BY <1>1, <1>3, Shape DEF SeriesInv, Claiming, Active
<1>7. SettleInv'
      BY <1>1, <1>3 DEF SettleInv, Work
<1>6. Latched' => pending'.series # 0
      BY <1>3, DiscardType DEF SeriesInv, Latched, NoCandidate
<1> QED BY <1>2, <1>4, <1>5, <1>6, <1>7 DEF SeriesInv

LEMMA OwnerTypes ==
    ASSUME TypeInv,
           \/ ReceiveStatus \/ (\E i \in BOOLEAN : OdometryFault(i)) \/ LeaseLapses \/ Expire
           \/ \E s \in Source : Acquire(s) \/ Release(s) \/ Stop(s)
    PROVE  TypeInv'
<1> DEFINE Owners == [source : Source \cup {NoSource}, releasing : BOOLEAN,
                      lapsed : BOOLEAN, retired : SUBSET Source]
<1>0. TypeOK /\ owner \in Owners /\ extnav \in Status /\ seen \in Status
      BY DEF TypeInv, TypeOK, BridgeTypeOK
<1>1. CASE ReceiveStatus
  <2>1. owner.source # NoSource => owner.source \in Source /\ Released(owner) \in Owners
        BY <1>0, ReleasedType
  <2>2. owner' \in Owners
        BY <1>0, <1>1, <2>1 DEF ReceiveStatus
  <2>3. job' = job \/ job' = Stopped(job) \/ job' = Stopped(Stopped(job))
        BY <1>1 DEF ReceiveStatus, StoppedFor
  <2>4. /\ seen' \in Status /\ UNCHANGED <<bridgeVars, jobs, fault, sent, restarts>>
        /\ Discard \/ UNCHANGED <<window, saved, pending>>
        BY <1>0, <1>1 DEF ReceiveStatus
  <2> QED BY <2>2, <2>3, <2>4, CallbackTypes
<1>2. ASSUME NEW i \in BOOLEAN, OdometryFault(i) PROVE TypeInv'
  <2>1. job' = Stopped(job)
        BY <1>2 DEF OdometryFault, Capturing, Stopped
  <2> QED BY <1>0, <1>2, <2>1, CallbackTypes DEF OdometryFault
<1>3. CASE LeaseLapses
  <2>1. owner' \in Owners
        BY <1>0, <1>3 DEF LeaseLapses
  <2> QED BY <1>0, <1>3, <2>1, CallbackTypes DEF LeaseLapses
<1>4. CASE Expire
  <2>1. owner' \in Owners
        BY <1>0, <1>4, ReleasedType DEF Expire, ExpiryDue
  <2> QED BY <1>0, <1>4, <2>1, CallbackTypes DEF Expire, StoppedFor
<1>5. ASSUME NEW s \in Source, Acquire(s) PROVE TypeInv'
  <2>1. owner' \in Owners
        BY <1>0, <1>5 DEF Acquire
  <2> QED BY <1>0, <1>5, <2>1, CallbackTypes DEF Acquire
<1>6. ASSUME NEW s \in Source, Release(s) PROVE TypeInv'
  <2>1. [owner EXCEPT !.retired = @ \cup {s}] \in Owners
        BY <1>0
  <2>2. owner' \in Owners
        BY <1>0, <1>6, <2>1, ReleasedType DEF Release
  <2> QED BY <1>0, <1>6, <2>2, CallbackTypes DEF Release, StoppedFor
<1>7. ASSUME NEW s \in Source, Stop(s) PROVE TypeInv'
      BY <1>0, <1>7, CallbackTypes DEF Stop
<1> QED BY <1>1, <1>2, <1>3, <1>4, <1>5, <1>6, <1>7

LEMMA RequestTypes ==
    ASSUME TypeInv, NEW s \in Source,
           \/ \E tag \in Tag, apply \in BOOLEAN : Start(s, tag, apply)
           \/ ClearWindow(s) \/ ApplySaved(s)
    PROVE  TypeInv'
<1> USE DEF TypeInv
<1>0. /\ seen \in Status /\ window.revision \in 0..MaxWindow
      /\ saved \in Candidate \cup {NoCandidate} /\ pending \in Candidate \cup {NoCandidate}
      BY DEF TypeOK
<1>1. ASSUME NEW retry \in BOOLEAN, NEW c \in Candidate, NEW t \in Tag \cup {NoTag},
             NEW a \in BOOLEAN, Begin(s, t, a, retry, c)
      PROVE  /\ job' \in Work /\ job'.phase = "gather" /\ job'.retry = retry /\ SettleInv'
             /\ job'.candidate = c /\ Active' /\ (Claiming' <=> retry)
             /\ Latched' <=> (pending # NoCandidate)'
  <2>1. /\ "gather" \in Phase \ {"idle", "done"} /\ "open" \in Verdict
        /\ NoJob \in Correction /\ 0 \in 0..MaxSends /\ -1 \in -1..MaxRevision
        BY LimitTypes DEF Phase, Verdict, NoJob, Correction
  <2>2. job' \in Work
        BY <1>1, <2>1 DEF Begin, Work
  <2> QED BY <1>1, <2>2 DEF Begin, Claiming, Active, Running, Latched, AtBridge, NoWork, NoCandidate, SettleInv
<1>2. ASSUME NEW tag \in Tag, NEW apply \in BOOLEAN, Start(s, tag, apply) PROVE TypeInv'
  <2> DEFINE c == [id |-> jobs + 1, session |-> seen.session, revision |-> seen.revision,
                   base |-> window.revision, saved |-> FALSE, series |-> 0, keyframes |-> {}]
  <2>1. jobs + 1 \in Job /\ jobs + 1 \in 0..MaxJobs
        BY <1>2, LimitTypes DEF Start, Job, TypeOK
  <2>2. c \in Candidate
        BY <1>0, <2>1, LimitTypes DEF Candidate, Status
  <2>3. Begin(s, tag, apply, FALSE, c) /\ window.revision < MaxWindow
        BY <1>2 DEF Start
  <2>4. /\ job' \in Work /\ job'.candidate = c /\ ~Claiming' /\ Active' /\ SettleInv'
        /\ ~Latched'
        BY <1>1, <1>2, <2>2, <2>3 DEF Start, Admits, NoCandidate
  <2>5. TypeOK'
        BY <1>2, <2>1, <2>4 DEF Start, TypeOK, BridgeTypeOK, bridgeVars
  <2> QED BY <2>3, <2>4, <2>5 DEF SeriesInv, BaseInv
<1>3. CASE ClearWindow(s)
  <2>1. TypeOK'
        BY <1>3, DiscardType DEF ClearWindow, TypeOK, BridgeTypeOK, bridgeVars
  <2>2. UNCHANGED job /\ ~Latched'
        BY <1>3, DiscardType DEF ClearWindow
  <2> QED BY <2>1, <2>2 DEF SeriesInv, BaseInv, SettleInv, Claiming, Active, Running
<1>4. CASE ApplySaved(s)
  <2> DEFINE c == Chosen
             d == [c EXCEPT !.revision = seen.revision]
             retry == pending # NoCandidate
  <2>1. c \in Candidate /\ window.revision < MaxWindow /\ c.base = window.revision
        BY <1>0, <1>4 DEF ApplySaved, Chosen
  <2>2. /\ d \in Candidate /\ d.base = c.base /\ d.series = c.series
        BY <1>0, <2>1 DEF Candidate, Status
  <2>3. Begin(s, NoTag, TRUE, retry, d) /\ UNCHANGED <<bridgeVars, seen, owner, jobs, window, saved,
                                                      pending, fault, sent, restarts>>
        BY <1>4 DEF ApplySaved
  <2>4. /\ job' \in Work /\ job'.candidate = d /\ (Claiming' <=> retry) /\ SettleInv'
        /\ (Latched' <=> retry)
        BY <1>1, <2>2, <2>3 DEF NoCandidate
  <2>5. TypeOK'
        BY <2>3, <2>4 DEF TypeOK, BridgeTypeOK, bridgeVars
  <2>6. Latched <=> retry
        BY <1>4 DEF ApplySaved, Latched, Running, NoWork
  <2>7. retry => c = pending /\ c.series # 0
        BY <2>6 DEF SeriesInv, Chosen
  <2> QED BY <2>1, <2>2, <2>3, <2>4, <2>5, <2>6, <2>7 DEF SeriesInv, BaseInv
<1> QED BY <1>2, <1>3, <1>4

LEMMA CommitTypes ==
    ASSUME TypeOK, NEW c \in Candidate, c.base < MaxWindow, CanCommit(c),
           NEW v \in 0..MaxRevision, Commit(c, v)
    PROVE  /\ window' \in [keyframes : SUBSET Keyframe, revision : 0..MaxWindow]
           /\ saved' \in Candidate
<1>1. window.revision \in 0..MaxWindow /\ window.revision + 1 \in 0..MaxWindow
      BY LimitTypes DEF CanCommit, TypeOK
<1> QED BY <1>1 DEF Commit, Candidate

LEMMA GatherTypes ==
    ASSUME TypeInv, Freeze \/ GatherFails \/ ReleaseFails \/ SaveDryRun \/ Submit
    PROVE  TypeInv'
<1> USE DEF TypeInv
<1>0. /\ Running /\ Active /\ job \in Work /\ job.candidate \in Candidate
      /\ job.candidate.base < MaxWindow
      /\ job.phase \in {"gather", "frozen"}
      /\ Latched <=> pending # NoCandidate
      /\ Claiming <=> job.retry
  <2>1. Running /\ job.phase \in {"gather", "frozen"}
        BY DEF Freeze, GatherFails, ReleaseFails, Capturing, SaveDryRun, Submit
  <2>2. Active /\ job \in Work
        BY <2>1, Shape
  <2>3. Latched <=> pending # NoCandidate
        BY <2>1 DEF Latched
  <2>4. Claiming <=> job.retry
        BY <2>1 DEF Claiming, AtBridge
  <2> QED BY <2>1, <2>2, <2>3, <2>4 DEF Work, BaseInv
<1>1. CASE Freeze
  <2>1. Measured(job.candidate) \in Candidate /\ Measured(job.candidate).base = job.candidate.base
        /\ Measured(job.candidate).series = job.candidate.series
    <3>1. job.tag # NoTag => [tag |-> job.tag, session |-> job.candidate.session] \in Keyframe
          BY <1>0 DEF Work, Candidate, Keyframe
    <3>2. window.keyframes \in SUBSET Keyframe
          BY DEF TypeOK
    <3> QED BY <1>0, <3>1, <3>2 DEF Measured, Candidate
  <2>2. /\ seen.correction \in Correction /\ "frozen" \in Phase \ {"idle", "done"}
        BY DEF TypeOK, Status, Phase
  <2>3. job' = [job EXCEPT !.phase = "frozen", !.tag = NoTag, !.against = seen.correction,
                           !.candidate = Measured(job.candidate)]
        BY <1>1 DEF Freeze
  <2>4. job' \in Work /\ job'.phase = "frozen" /\ job'.retry = job.retry
        /\ job'.candidate = Measured(job.candidate)
        BY <1>0, <2>1, <2>2, <2>3 DEF Work
  <2>5. TypeOK'
        BY <1>1, <2>4 DEF Freeze, TypeOK, BridgeTypeOK, bridgeVars
  <2>6. /\ (Claiming' <=> job.retry) /\ SettleInv'
        /\ Latched' <=> pending # NoCandidate
        BY <1>1, <2>4 DEF Freeze, Claiming, Latched, Running, NoWork, AtBridge, NoCandidate, SettleInv
  <2> QED BY <1>0, <1>1, <2>1, <2>4, <2>5, <2>6 DEF SeriesInv, BaseInv, Freeze
<1>2. ASSUME Finish, window' \in [keyframes : SUBSET Keyframe, revision : 0..MaxWindow],
             saved' \in Candidate \cup {NoCandidate}, fault' \in BOOLEAN,
             UNCHANGED <<bridgeVars, seen, owner, jobs, pending, sent, restarts>>
      PROVE  TypeInv'
  <2>1. TypeOK'
        BY <1>0, <1>2, OverType DEF Finish, TypeOK, BridgeTypeOK, bridgeVars
  <2>2. Latched' => pending'.series # 0
        BY <1>0, <1>2, FinishFacts DEF SeriesInv, NoCandidate
  <2> QED BY <1>2, <2>1, <2>2, FinishFacts DEF SeriesInv
<1>3. CASE GatherFails
      BY <1>2, <1>3 DEF GatherFails, TypeOK
<1>4. CASE ReleaseFails
      BY <1>2, <1>4 DEF ReleaseFails, TypeOK
<1>5. CASE SaveDryRun
  <2>1. ASSUME CanCommit(job.candidate), Commit(job.candidate, seen.revision)
        PROVE  /\ window' \in [keyframes : SUBSET Keyframe, revision : 0..MaxWindow]
               /\ saved' \in Candidate \cup {NoCandidate}
        BY <1>0, <2>1, CommitTypes DEF TypeOK, Status
  <2> QED BY <1>2, <1>5, <2>1 DEF SaveDryRun, TypeOK
<1>6. CASE Submit
  <2>1. job' \in Work /\ job'.phase = "submit" /\ job'.candidate = job.candidate
        /\ job'.retry = job.retry
    <3>1. "submit" \in Phase \ {"idle", "done"}
          BY DEF Phase
    <3>2. job' = [job EXCEPT !.phase = "submit"] /\ job' \in Work
          BY <1>0, <1>6, <3>1, JobSteps DEF Submit
    <3> QED BY <1>0, <3>2 DEF Work
  <2>2. TypeOK'
        BY <1>0, <1>6, <2>1 DEF Submit, TypeOK, BridgeTypeOK, bridgeVars
  <2>3. (Claiming' <=> job.retry) /\ ~Latched' /\ SettleInv'
        BY <2>1 DEF Claiming, Latched, Running, NoWork, AtBridge, SettleInv
  <2> QED BY <1>0, <1>6, <2>1, <2>2, <2>3 DEF SeriesInv, BaseInv, Submit
<1> QED BY <1>1, <1>3, <1>4, <1>5, <1>6

\* Between the submission and the account nothing but the job and the bridge change.
LEMMA ApplyTypes ==
    ASSUME TypeInv,
           \/ Withhold \/ (\E raised \in BOOLEAN : Send(raised))
           \/ (\E a \in answers : ReceiveAnswer(a)) \/ AnswerTimesOut
           \/ Confirm \/ ReconcileTimesOut
    PROVE  TypeInv'
<1> USE DEF TypeInv
<1>0. /\ Running /\ Active /\ job \in Work /\ job.candidate \in Candidate
      /\ job.candidate.base < MaxWindow /\ job.acked \in -1..MaxRevision
      /\ job.phase \in {"submit", "wait", "reconcile"}
      /\ (job.phase # "submit" \/ job.retry) => job.candidate.series # 0
      /\ job.retry \in BOOLEAN
  <2>1. Running /\ job.phase \in {"submit", "wait", "reconcile"}
        BY DEF Withhold, Send, ReceiveAnswer, AnswerTimesOut, Confirm, ReconcileTimesOut
  <2>2. Active /\ job \in Work
        BY <2>1, Shape
  <2>3. (job.phase # "submit" \/ job.retry) => job.candidate.series # 0
        BY <2>1 DEF SeriesInv, Claiming, AtBridge
  <2> QED BY <2>1, <2>2, <2>3 DEF Work, BaseInv
<1>1. ASSUME UNCHANGED <<limit, extnav, sessions, effects, seen, owner, jobs, window, saved,
                         pending, fault, restarts>>,
             requests' \subseteq Request, answers' \subseteq Response,
             sent' \in Seq([series : 1..MaxSends, job : Job, verdict : Verdict]),
             job' \in Work, job'.candidate.base = job.candidate.base,
             job'.phase \in {"wait", "reconcile", "settle"}, SettleInv',
             job'.candidate.series # 0 \/
               (job'.phase = "settle" /\ ~job'.retry /\ job'.verdict # "unknown")
      PROVE  TypeInv'
  <2>1. TypeOK'
        BY <1>1 DEF TypeOK, BridgeTypeOK
  <2>2. ~Latched'
        BY <1>1 DEF Latched
  <2>3. Claiming' => job'.candidate.series # 0
        BY <1>1 DEF Claiming, AtBridge
  <2>4. BaseInv'
        BY <1>0, <1>1 DEF BaseInv
  <2> QED BY <1>1, <2>1, <2>2, <2>3, <2>4 DEF SeriesInv
<1>2. ASSUME NEW v \in Verdict, NEW n \in -1..MaxRevision, Settle(v, n),
             job.candidate.series # 0 \/ v # "unknown", v # "open", v = "applied" => n # -1
      PROVE  /\ job' \in Work /\ job'.candidate = job.candidate
             /\ job'.phase = "settle" /\ SettleInv'
             /\ job'.candidate.series # 0 \/
                  (job'.phase = "settle" /\ ~job'.retry /\ job'.verdict # "unknown")
  <2>1. job' \in Work
        BY <1>0, <1>2, JobSteps DEF Settle
  <2> QED BY <1>0, <1>2, <2>1 DEF Settle, Work, SettleInv
<1>3. /\ Refusal \in Verdict \ {"open", "applied"} /\ -1 \in -1..MaxRevision
      /\ job.candidate.series # 0 \/ Refusal # "unknown"
      /\ {"applied", "unknown"} \subseteq Verdict
      BY <1>0, LimitTypes DEF Refusal, Verdict
<1>4. /\ requests \subseteq Request /\ answers \subseteq Response
      /\ sent \in Seq([series : 1..MaxSends, job : Job, verdict : Verdict])
      /\ MaxSends \in Nat /\ seen \in Status /\ job.candidate.series \in 0..MaxSends
      /\ Len(sent) \in Nat /\ job.against \in Correction
  <2>1. /\ requests \subseteq Request /\ answers \subseteq Response
        /\ sent \in Seq([series : 1..MaxSends, job : Job, verdict : Verdict])
        /\ MaxSends \in Nat /\ seen \in Status
        BY LimitTypes DEF TypeOK, BridgeTypeOK
  <2>2. job.candidate.series \in 0..MaxSends /\ job.against \in Correction
        BY <1>0 DEF Candidate, Work
  <2> QED BY <2>1, <2>2
<1>5. CASE Withhold
      BY <1>1, <1>2, <1>3, <1>4, <1>5 DEF Withhold, bridgeVars
<1>6. ASSUME NEW raised \in BOOLEAN, Send(raised) PROVE TypeInv'
  <2> DEFINE n == Len(sent) + 1
             k == IF job.retry THEN job.candidate.series ELSE n
             c == [job.candidate EXCEPT !.series = k]
             r == [send |-> n, against |-> job.against,
                   job |-> c.id, session |-> c.session, revision |-> c.revision]
  <2>1. job.phase = "submit" /\ n <= MaxSends
        BY <1>6 DEF Send
  <2>2. n \in 1..MaxSends /\ n \in 0..MaxSends /\ k \in 1..MaxSends /\ k \in 0..MaxSends
        BY <1>0, <1>4, <2>1
  <2>3. c \in Candidate /\ c.series = k /\ c.base = job.candidate.base
        BY <1>0, <2>2 DEF Candidate
  <2>4. r \in Request
        BY <1>4, <2>2, <2>3 DEF Request, Candidate
  <2>5. requests' \subseteq Request
        BY <1>4, <1>6, <2>4 DEF Send
  <2>6. [series |-> k, job |-> c.id, verdict |-> "open"] \in
            [series : 1..MaxSends, job : Job, verdict : Verdict]
        BY <2>2, <2>3 DEF Verdict, Candidate
  <2>7. sent' \in Seq([series : 1..MaxSends, job : Job, verdict : Verdict])
    <3>1. sent' = Append(sent, [series |-> k, job |-> c.id, verdict |-> "open"])
          BY <1>6 DEF Send
    <3> QED BY <1>4, <2>6, <3>1
  <2>8. job' = [job EXCEPT !.candidate = c, !.send = n,
                    !.phase = IF raised THEN "settle" ELSE "wait",
                    !.verdict = IF raised THEN "unknown" ELSE "open"]
        BY <1>6 DEF Send
  <2>9. /\ job' \in Work /\ job'.candidate = c /\ job'.phase \in {"wait", "settle"} /\ SettleInv'
        BY <1>0, <2>2, <2>3, <2>8 DEF Work, Phase, Verdict, SettleInv
  <2>10. UNCHANGED <<limit, extnav, sessions, answers, effects, seen, owner, jobs, window, saved,
                     pending, fault, restarts>>
        BY <1>6 DEF Send
  <2>11. c.series # 0
        BY <2>2, <2>3
  <2> HIDE DEF c
  <2> QED BY <1>1, <1>4, <2>3, <2>5, <2>7, <2>9, <2>10, <2>11
<1>7. ASSUME NEW a \in answers, ReceiveAnswer(a) PROVE TypeInv'
  <2>1. a.revision \in -1..MaxRevision /\ a.revision # -1 /\ answers' \subseteq Response
    <3>1. a.revision \in 0..MaxRevision
          BY <1>4 DEF Response
    <3>2. answers' = answers \ {a}
          BY <1>7 DEF ReceiveAnswer
    <3> QED BY <1>4, <3>1, <3>2, LimitTypes
  <2>2. /\ job.phase = "wait" /\ job.candidate.series # 0
        BY <1>0, <1>7 DEF ReceiveAnswer
  <2>3. \/ job' = [job EXCEPT !.phase = "reconcile", !.acked = a.revision]
        \/ Settle("applied", a.revision) \/ Settle(Refusal, -1)
        BY <1>7 DEF ReceiveAnswer
  <2>4. CASE job' = [job EXCEPT !.phase = "reconcile", !.acked = a.revision]
    <3>1. job' \in Work
          BY <1>0, <2>1, <2>4, JobSteps
    <3>2. job'.candidate = job.candidate /\ job'.phase = "reconcile" /\ SettleInv'
          BY <1>0, <2>4 DEF Work, SettleInv
    <3> QED BY <1>1, <1>4, <1>7, <2>1, <2>2, <3>1, <3>2 DEF ReceiveAnswer
  <2>5. CASE Settle("applied", a.revision) \/ Settle(Refusal, -1)
        BY <1>1, <1>2, <1>3, <1>4, <1>7, <2>1, <2>5 DEF ReceiveAnswer
  <2> QED BY <2>3, <2>4, <2>5
<1>8. CASE AnswerTimesOut
  <2>1. job' \in Work /\ job'.candidate = job.candidate /\ job'.phase = "reconcile" /\ SettleInv'
    <3>1. job' = [job EXCEPT !.phase = "reconcile"] /\ "reconcile" \in Phase \ {"idle", "done"}
          BY <1>8 DEF AnswerTimesOut, Phase
    <3>2. job' \in Work
          BY <1>0, <3>1, JobSteps
    <3> QED BY <1>0, <3>1, <3>2 DEF Work, SettleInv
  <2> QED BY <1>0, <1>1, <1>4, <1>8, <2>1 DEF AnswerTimesOut
<1>9. CASE Confirm
  <2>1. seen.revision \in -1..MaxRevision /\ seen.revision # -1
        BY <1>4, LimitTypes DEF Status
  <2> QED BY <1>0, <1>1, <1>2, <1>3, <1>4, <1>9, <2>1 DEF Confirm, bridgeVars
<1>10. CASE ReconcileTimesOut
  <2>1. job.candidate.series # 0
        BY <1>0, <1>10 DEF ReconcileTimesOut
  <2>2. \/ job.acked = -1 /\ Settle("unknown", job.acked)
        \/ job.acked # -1 /\ Settle("applied", job.acked)
        BY <1>10 DEF ReconcileTimesOut
  <2>3. /\ job' \in Work /\ job'.candidate = job.candidate /\ job'.phase = "settle" /\ SettleInv'
        BY <1>0, <1>2, <1>3, <2>1, <2>2
  <2> QED BY <1>0, <1>1, <1>4, <1>10, <2>1, <2>3 DEF ReconcileTimesOut, bridgeVars
<1> QED BY <1>5, <1>6, <1>7, <1>8, <1>9, <1>10

LEMMA EndTypes ==
    ASSUME TypeInv, Account \/ ThreadEnds \/ Restart
    PROVE  TypeInv'
<1> USE DEF TypeInv
<1>1. CASE Account
  <2> DEFINE c == job.candidate
  <2>1. /\ Running /\ job.phase = "settle" /\ job \in Work /\ c \in Candidate
        /\ c.base < MaxWindow /\ job.verdict \in Verdict /\ job.acked \in -1..MaxRevision
        /\ job.verdict = "unknown" => c.series # 0
    <3>1. Running /\ job.phase = "settle"
          BY <1>1 DEF Account
    <3>2. Active /\ job \in Work
          BY <3>1, Shape
    <3> QED BY <3>1, <3>2 DEF Work, BaseInv, SeriesInv, Claiming
  <2>2. sent' \in Seq([series : 1..MaxSends, job : Job, verdict : Verdict])
    <3> DEFINE E == [series : 1..MaxSends, job : Job, verdict : Verdict]
    <3>1. sent \in Seq(E)
          BY DEF TypeOK
    <3>0. sent' = sent \/ sent' = [sent EXCEPT ![job.send].verdict = job.verdict]
          BY <1>1 DEF Account
    <3> HIDE DEF E
    <3>2. CASE job.send \in DOMAIN sent
      <4>1. [sent[job.send] EXCEPT !.verdict = job.verdict] \in E
        <5>1. sent[job.send] \in E
              BY <3>1, <3>2, ElementOfSeq
        <5> QED BY <2>1, <5>1 DEF E
      <4>2. [sent EXCEPT ![job.send] = [sent[job.send] EXCEPT !.verdict = job.verdict]] \in Seq(E)
            BY <3>1, <3>2, <4>1, ExceptSeq
      <4> QED BY <3>0, <3>1, <4>2 DEF E
    <3>3. CASE job.send \notin DOMAIN sent
      <4>1. [sent EXCEPT ![job.send].verdict = job.verdict] = sent
            BY <3>1, <3>3
      <4> QED BY <3>0, <3>1, <4>1 DEF E
    <3> QED BY <3>2, <3>3 DEF E
  <2>3. ASSUME window' \in [keyframes : SUBSET Keyframe, revision : 0..MaxWindow],
               saved' \in Candidate \cup {NoCandidate}, pending' \in Candidate \cup {NoCandidate},
               pending' # NoCandidate => pending'.series # 0
        PROVE  TypeInv'
    <3>1. Finish /\ UNCHANGED <<bridgeVars, seen, owner, jobs, fault, restarts>>
          BY <1>1 DEF Account
    <3>2. TypeOK'
          BY <2>1, <2>2, <2>3, <3>1, OverType DEF Finish, TypeOK, BridgeTypeOK, bridgeVars
    <3> QED BY <2>3, <3>1, <3>2, FinishFacts DEF SeriesInv, NoCandidate
  <2>4. /\ window \in [keyframes : SUBSET Keyframe, revision : 0..MaxWindow]
        /\ saved \in Candidate \cup {NoCandidate} /\ pending \in Candidate \cup {NoCandidate}
        BY DEF TypeOK
  <2>5. CASE job.verdict = "applied"
    <3>1. pending' = NoCandidate
          BY <1>1, <2>5 DEF Account
    <3>2. CASE c.saved
      <4>1. /\ UNCHANGED window
            /\ saved' = [c EXCEPT !.base = window.revision, !.revision = job.acked]
            BY <1>1, <2>5, <3>2 DEF Account
      <4>2. job.acked \in 0..MaxRevision
            BY <2>1, <2>5 DEF SettleInv
      <4>3. saved' \in Candidate
            BY <2>1, <2>4, <4>1, <4>2 DEF Candidate
      <4> QED BY <2>3, <2>4, <3>1, <4>1, <4>3
    <3>3. CASE ~c.saved
          BY <1>1, <2>1, <2>3, <2>4, <2>5, <3>1, <3>3, CommitTypes DEF Account, SettleInv
    <3> QED BY <3>2, <3>3
  <2>6. CASE job.verdict = "rejected"
        BY <1>1, <2>3, <2>4, <2>6 DEF Account
  <2>7. CASE job.verdict = "unknown"
        BY <1>1, <2>1, <2>3, <2>4, <2>7 DEF Account
  <2>8. CASE job.verdict = "open"
        BY <2>1, <2>8 DEF SettleInv
  <2> QED BY <2>1, <2>5, <2>6, <2>7, <2>8 DEF Verdict
<1>2. CASE ThreadEnds
  <2>1. job.phase = "done" /\ job' = NoWork
        BY <1>2 DEF ThreadEnds
  <2>2. job'.phase = "idle" /\ ~Running'
        BY <2>1 DEF NoWork, Running
  <2>3. TypeOK'
        BY <1>2 DEF ThreadEnds, TypeOK, BridgeTypeOK, bridgeVars
  <2> QED BY <1>2, <2>1, <2>2, <2>3
          DEF ThreadEnds, SeriesInv, BaseInv, SettleInv, Claiming, Active, Latched, NoCandidate
<1>3. CASE Restart
  <2>1. job'.phase = "idle" /\ ~Running' /\ pending' = NoCandidate'
        BY <1>3 DEF Restart, NoWork, Running, NoCandidate
  <2>2. Identity \in Status /\ NoOwner \in [source : Source \cup {NoSource}, releasing : BOOLEAN,
                                             lapsed : BOOLEAN, retired : SUBSET Source]
        BY LimitTypes DEF Identity, Status, NoOwner, Session, NoSession, NoJob, Correction
  <2>3. EmptyWindow \in [keyframes : SUBSET Keyframe, revision : 0..MaxWindow]
        BY LimitTypes DEF EmptyWindow
  <2>4. restarts + 1 \in 0..MaxRestarts
        BY <1>3, LimitTypes DEF Restart, TypeOK
  <2>5. TypeOK'
        BY <1>3, <2>2, <2>3, <2>4 DEF Restart, TypeOK, BridgeTypeOK
  <2> QED BY <2>1, <2>5 DEF SeriesInv, BaseInv, SettleInv, Claiming, Active, Latched
<1> QED BY <1>1, <1>2, <1>3

LEMMA InitTypes == Init => TypeInv
<1> SUFFICES ASSUME Init PROVE TypeInv
    OBVIOUS
<1>1. Identity \in Status /\ NoOwner \in [source : Source \cup {NoSource}, releasing : BOOLEAN,
                                          lapsed : BOOLEAN, retired : SUBSET Source]
      BY BridgeAssumption DEF Identity, Status, NoOwner, Session, NoSession, NoJob, Correction
<1>2. EmptyWindow \in [keyframes : SUBSET Keyframe, revision : 0..MaxWindow]
      BY ServiceAssumption DEF EmptyWindow
<1>3. <<>> \in Seq(1..MaxSends)
      /\ <<>> \in Seq([series : 1..MaxSends, job : Job, verdict : Verdict])
      OBVIOUS
<1>4. BridgeTypeOK
      BY <1>1, <1>3, BridgeAssumption DEF Init, BridgeInit, BridgeTypeOK, Session, NoSession
<1>5. TypeOK
  <2>1. 0 \in 0..MaxJobs /\ 0 \in 0..MaxRestarts
        BY BridgeAssumption
  <2>2. /\ seen = Identity /\ owner = NoOwner /\ job = NoWork /\ jobs = 0
        /\ window = EmptyWindow /\ saved = NoCandidate /\ pending = NoCandidate
        /\ fault = FALSE /\ sent = <<>> /\ restarts = 0
        BY DEF Init, ServiceInit
  <2> QED BY <1>1, <1>2, <1>3, <1>4, <2>1, <2>2 DEF TypeOK
<1>6. job.phase = "idle" /\ ~Running /\ pending = NoCandidate
      BY DEF Init, ServiceInit, NoWork, Running
<1> QED BY <1>5, <1>6 DEF TypeInv, SeriesInv, BaseInv, SettleInv, Claiming, Active, Latched

\* The steps of the bridge leave the service alone.
LEMMA BridgeKeeps ==
    ASSUME TypeInv, BridgeStep \/ \E r \in requests : SetCorrection(r, Awaited(r)),
           UNCHANGED serviceVars
    PROVE  TypeInv'
<1>1. TypeOK'
      BY BridgeTypes DEF TypeInv, TypeOK, serviceVars
<1> QED BY <1>1 DEF TypeInv, SeriesInv, BaseInv, SettleInv, Claiming, Active, Running, Latched,
                    NoCandidate, serviceVars

\* The steps that Next is made of.
BridgeMoves == /\ BridgeStep \/ \E r \in requests : SetCorrection(r, Awaited(r))
               /\ UNCHANGED serviceVars
Callbacks == ReceiveStatus \/ (\E i \in BOOLEAN : OdometryFault(i)) \/ LeaseLapses \/ Expire
Claims == \E s \in Source : Acquire(s) \/ Release(s) \/ Stop(s)
Writes == \E s \in Source : \/ \E tag \in Tag, apply \in BOOLEAN : Start(s, tag, apply)
                            \/ ClearWindow(s) \/ ApplySaved(s)
Gathers == Freeze \/ GatherFails \/ ReleaseFails \/ SaveDryRun \/ Submit
Applies == \/ Withhold \/ (\E raised \in BOOLEAN : Send(raised))
           \/ (\E a \in answers : ReceiveAnswer(a)) \/ AnswerTimesOut
           \/ Confirm \/ ReconcileTimesOut

LEMMA NextCases ==
    ASSUME TypeOK, Next
    PROVE  \/ BridgeMoves \/ Callbacks \/ Claims \/ Writes
           \/ Gathers \/ Applies \/ Account \/ ThreadEnds \/ Restart
<1>1. limit.clients \subseteq Source /\ limit.tags \subseteq Tag
      BY LimitTypes
<1>2. CASE Client
      BY <1>1, <1>2 DEF Client, Claims, Writes
<1>3. CASE Thread
      BY <1>3 DEF Thread, Gathers, Applies
<1> QED BY <1>2, <1>3 DEF Next, BridgeMoves, Callbacks

LEMMA TypeStep == TypeInv /\ [Next]_vars => TypeInv'
<1> SUFFICES ASSUME TypeInv, [Next]_vars PROVE TypeInv'
    OBVIOUS
<1>1. CASE UNCHANGED vars
  <2>1. TypeOK'
        BY <1>1 DEF vars, bridgeVars, serviceVars, TypeInv, TypeOK, BridgeTypeOK
  <2> QED BY <1>1, <2>1 DEF vars, serviceVars, TypeInv, SeriesInv, BaseInv, SettleInv,
                            Claiming, Active, Running, Latched
<1>2. CASE Next
  <2>1. CASE BridgeMoves
        BY <2>1, BridgeKeeps DEF BridgeMoves
  <2>2. CASE Callbacks \/ Claims
        BY <2>2, OwnerTypes DEF Callbacks, Claims
  <2>3. CASE Writes
        BY <2>3, RequestTypes DEF Writes
  <2>4. CASE Gathers
        BY <2>4, GatherTypes DEF Gathers
  <2>5. CASE Applies
        BY <2>5, ApplyTypes DEF Applies
  <2>6. CASE Account \/ ThreadEnds \/ Restart
        BY <2>6, EndTypes
  <2> QED BY <1>2, <2>1, <2>2, <2>3, <2>4, <2>5, <2>6, NextCases DEF TypeInv
<1> QED BY <1>1, <1>2

(* Type correctness: sessions, revisions, candidates, keyframes, requests  *)
(* and the job keep their types through every callback, request and step   *)
(* of the thread, for any clients and bounds.                              *)
THEOREM TypeCorrect == Spec => []TypeOK
<1>1. TypeInv => TypeOK
      BY DEF TypeInv
<1> QED BY <1>1, InitTypes, TypeStep, PTL DEF Spec

-----------------------------------------------------------------------------
(* Ownership.                                                              *)

LEMMA StoppedFacts ==
    ASSUME TypeInv, NEW j, j \in {job, Stopped(job), Stopped(Stopped(job))}
    PROVE  /\ j.phase = job.phase /\ (j # NoWork <=> Running)
           /\ Running => j.source = job.source
           /\ j = job \/ (job \in Work /\ j = [job EXCEPT !.stop = TRUE])
<1>1. TypeOK
      BY DEF TypeInv
<1>2. j = job \/ (job.phase \in Unsent /\ job \in Work /\ j = [job EXCEPT !.stop = TRUE])
      BY <1>1, StoppedType, Shape DEF Unsent
<1>3. CASE j = job
      BY <1>3 DEF Running
<1>4. CASE job.phase \in Unsent /\ job \in Work /\ j = [job EXCEPT !.stop = TRUE]
  <2>1. j.phase = job.phase /\ j.source = job.source
        BY <1>4 DEF Work
  <2>2. Running
        BY <1>1, <1>4, Shape DEF Unsent
  <2>3. j # NoWork
        BY <1>4, <2>1 DEF NoWork, Unsent
  <2> QED BY <1>4, <2>1, <2>2, <2>3
<1> QED BY <1>2, <1>3, <1>4

\* An owner that is asked to let go stops its job, or has none.
LEMMA ReleasedOwner ==
    ASSUME TypeInv, OwnerInv, NEW o, o \in {owner, [owner EXCEPT !.retired = o.retired]},
           owner.source # NoSource,
           NEW j, j \in {job, Stopped(job)},
           owner' = Released(o), job' = StoppedFor(owner, j)
    PROVE  OwnerInv'
<1>1. /\ TypeOK /\ o.source = owner.source
      BY DEF TypeInv, TypeOK
<1>2. job' \in {job, Stopped(job), Stopped(Stopped(job))}
      BY DEF StoppedFor
<1>3. /\ job'.phase = job.phase /\ (Running' <=> Running)
      /\ Running => job'.source = job.source
      BY <1>2, StoppedFacts DEF Running
<1>4. CASE Running
  <2>1. owner'.source = owner.source
        BY <1>1, <1>4 DEF Released, TypeOK
  <2>2. job.phase \in Unsent => job'.stop
    <3>1. ASSUME owner.releasing, job.phase \in Unsent PROVE job'.stop
      <4>1. job.stop /\ job' \in {job, Stopped(job)}
            BY <3>1 DEF OwnerInv, StoppedFor
      <4> QED BY <1>1, <3>1, <4>1, StoppedType
    <3>2. ASSUME ~owner.releasing, job.phase \in Unsent PROVE job'.stop
          BY <1>1, <3>2, StoppedType DEF StoppedFor
    <3> QED BY <3>1, <3>2
  <2> QED BY <1>1, <1>3, <1>4, <2>1, <2>2 DEF OwnerInv, OwnerExclusive
<1>5. CASE ~Running
  <2>1. owner'.source = NoSource /\ owner'.releasing = FALSE
        BY <1>5 DEF Released, NoOwner
  <2> QED BY <2>1 DEF OwnerInv, OwnerExclusive
<1> QED BY <1>4, <1>5

LEMMA OwnerInit == Init => OwnerInv
BY DEF Init, ServiceInit, OwnerInv, OwnerExclusive, NoOwner

\* The job may go on or end; its source and the ownership stay.
LEMMA OwnerKeeps ==
    ASSUME OwnerInv, UNCHANGED owner, Running, Running' => job'.source = job.source,
           job'.phase \in Unsent => job.phase \in Unsent /\ (job.stop => job'.stop)
    PROVE  OwnerInv'
BY DEF OwnerInv, OwnerExclusive

LEMMA OwnerStep == TypeInv /\ OwnerInv /\ [Next]_vars => OwnerInv'
<1> SUFFICES ASSUME TypeInv, OwnerInv, [Next]_vars PROVE OwnerInv'
    OBVIOUS
<1>0. /\ TypeOK /\ owner \in [source : Source \cup {NoSource}, releasing : BOOLEAN,
                              lapsed : BOOLEAN, retired : SUBSET Source]
      /\ NoSource \notin Source
      BY ServiceAssumption DEF TypeInv, TypeOK
<1>1. ASSUME UNCHANGED owner, UNCHANGED job PROVE OwnerInv'
      BY <1>1 DEF OwnerInv, OwnerExclusive, Running
<1>2. ASSUME UNCHANGED owner, job' = Stopped(job) PROVE OwnerInv'
  <2>1. /\ job'.phase = job.phase /\ (Running' <=> Running)
        /\ Running => job'.source = job.source
        BY <1>2, StoppedFacts DEF Running
  <2>2. job.phase \in Unsent /\ job.stop => job'.stop
        BY <1>0, <1>2, StoppedType
  <2>3. OwnerExclusive'
        BY <1>2, <2>1 DEF OwnerInv, OwnerExclusive
  <2>4. owner.releasing /\ job'.phase \in Unsent => job'.stop
        BY <2>1, <2>2 DEF OwnerInv
  <2> QED BY <1>2, <2>3, <2>4 DEF OwnerInv
<1>3. CASE UNCHANGED vars
      BY <1>1, <1>3 DEF vars, serviceVars
<1>4. CASE BridgeMoves
      BY <1>1, <1>4 DEF BridgeMoves, serviceVars
<1>5. CASE Callbacks
  <2>1. CASE ReceiveStatus
    <3> DEFINE changed == \/ seen.session # NoSession /\ extnav.session # seen.session
                          \/ \E k \in window.keyframes : extnav.session # k.session
               release == owner.source # NoSource /\ (changed \/ extnav.session = NoSession)
               foreign == Active /\ extnav.session # job.candidate.session
               j == IF foreign THEN Stopped(job) ELSE job
    <3>1. /\ owner' = IF release THEN Released(owner) ELSE owner
          /\ job' = IF release THEN StoppedFor(owner, j) ELSE j
          BY <2>1 DEF ReceiveStatus
    <3>2. j \in {job, Stopped(job)}
          OBVIOUS
    <3> HIDE DEF j
    <3>3. CASE release
          BY <3>1, <3>2, <3>3, ReleasedOwner
    <3>4. CASE ~release
          BY <1>1, <1>2, <3>1, <3>2, <3>4
    <3> QED BY <3>3, <3>4
  <2>2. ASSUME NEW i \in BOOLEAN, OdometryFault(i) PROVE OwnerInv'
    <3>1. job' = Stopped(job)
          BY <2>2 DEF OdometryFault, Capturing, Stopped
    <3> QED BY <1>2, <2>2, <3>1 DEF OdometryFault
  <2>3. CASE LeaseLapses
    <3>1. UNCHANGED job /\ owner' = [owner EXCEPT !.lapsed = TRUE]
          BY <2>3 DEF LeaseLapses
    <3>2. owner'.source = owner.source /\ owner'.releasing = owner.releasing
          BY <1>0, <3>1
    <3> QED BY <3>1, <3>2 DEF OwnerInv, OwnerExclusive, Running
  <2>4. CASE Expire
        BY <2>4, ReleasedOwner DEF Expire, ExpiryDue
  <2> QED BY <1>5, <2>1, <2>2, <2>3, <2>4 DEF Callbacks
<1>6. CASE Claims
  <2>1. ASSUME NEW s \in Source, Acquire(s) PROVE OwnerInv'
    <3>1. /\ ~Running /\ UNCHANGED job /\ owner.source = NoSource
          /\ owner' = [owner EXCEPT !.source = s]
          BY <2>1 DEF Acquire
    <3>2. ~owner'.releasing
          BY <1>0, <3>1 DEF OwnerInv
    <3> QED BY <3>1, <3>2 DEF OwnerInv, OwnerExclusive, Running
  <2>2. ASSUME NEW s \in Source, Release(s) PROVE OwnerInv'
    <3> DEFINE o == [owner EXCEPT !.retired = @ \cup {s}]
    <3>1. CASE owner.source = s
      <4>1. owner' = Released(o) /\ job' = StoppedFor(owner, job)
            BY <2>2, <3>1 DEF Release
      <4>2. o = [owner EXCEPT !.retired = o.retired] /\ owner.source # NoSource
            BY <1>0, <3>1
      <4> HIDE DEF o
      <4> QED BY <4>1, <4>2, ReleasedOwner
    <3>2. CASE owner.source # s
      <4>1. owner' = o /\ UNCHANGED job
            BY <2>2, <3>2 DEF Release
      <4>2. owner'.source = owner.source /\ owner'.releasing = owner.releasing
            BY <1>0, <4>1
      <4> QED BY <4>1, <4>2 DEF OwnerInv, OwnerExclusive, Running
    <3> QED BY <3>1, <3>2
  <2>3. ASSUME NEW s \in Source, Stop(s) PROVE OwnerInv'
        BY <1>2, <2>3 DEF Stop
  <2> QED BY <1>6, <2>1, <2>2, <2>3 DEF Claims
<1>7. CASE Writes
  <2>1. ASSUME NEW s \in Source, MayWrite(s), UNCHANGED owner, job'.source = s
        PROVE  OwnerInv'
        BY <1>0, <2>1 DEF OwnerInv, OwnerExclusive, MayWrite, ExpiryDue
  <2>2. ASSUME NEW s \in Source, NEW tag \in Tag, NEW apply \in BOOLEAN, Start(s, tag, apply)
        PROVE  OwnerInv'
        BY <2>1, <2>2 DEF Start, Admits, Begin
  <2>3. ASSUME NEW s \in Source, ClearWindow(s) PROVE OwnerInv'
        BY <1>1, <2>3 DEF ClearWindow
  <2>4. ASSUME NEW s \in Source, ApplySaved(s) PROVE OwnerInv'
    <3>1. job'.source = s
          BY <2>4 DEF ApplySaved, Begin
    <3> QED BY <2>1, <2>4, <3>1 DEF ApplySaved
  <2> QED BY <1>7, <2>2, <2>3, <2>4 DEF Writes
<1>8. CASE Gathers
  <2>1. /\ Running /\ job \in Work /\ job.phase \in Unsent /\ UNCHANGED owner
    <3>1. Running /\ job.phase \in {"gather", "frozen"} /\ UNCHANGED owner
          BY <1>8 DEF Gathers, Freeze, GatherFails, ReleaseFails, Capturing, SaveDryRun, Submit
    <3> QED BY <1>0, <3>1, Shape DEF Unsent
  <2>2. CASE Finish
        BY <2>1, <2>2, FinishFacts, OwnerKeeps DEF Unsent
  <2>3. CASE Freeze \/ Submit
    <3>1. job'.source = job.source /\ job'.stop = job.stop
          BY <2>1, <2>3 DEF Freeze, Submit, Work
    <3> QED BY <2>1, <3>1, OwnerKeeps
  <2> QED BY <1>8, <2>2, <2>3 DEF Gathers, GatherFails, ReleaseFails, SaveDryRun
<1>9. CASE Applies
  <2>1. Running /\ job \in Work /\ UNCHANGED owner
    <3>1. Running /\ job.phase \in {"submit", "wait", "reconcile"} /\ UNCHANGED owner
          BY <1>9 DEF Applies, Withhold, Send, ReceiveAnswer, AnswerTimesOut, Confirm, ReconcileTimesOut
    <3> QED BY <1>0, <3>1, Shape
  <2>2. job'.source = job.source /\ job'.phase \notin Unsent
    <3>1. ASSUME NEW v, NEW n, Settle(v, n) PROVE job'.source = job.source /\ job'.phase \notin Unsent
          BY <2>1, <3>1 DEF Settle, Work, Unsent
    <3>2. CASE Withhold \/ Confirm \/ ReconcileTimesOut
          BY <3>1, <3>2 DEF Withhold, Confirm, ReconcileTimesOut
    <3>3. ASSUME NEW raised \in BOOLEAN, Send(raised)
          PROVE  job'.source = job.source /\ job'.phase \notin Unsent
          BY <2>1, <3>3 DEF Send, Work, Unsent
    <3>4. ASSUME NEW a \in answers, ReceiveAnswer(a)
          PROVE  job'.source = job.source /\ job'.phase \notin Unsent
      <4>1. \/ job' = [job EXCEPT !.phase = "reconcile", !.acked = a.revision]
            \/ Settle("applied", a.revision) \/ Settle(Refusal, -1)
            BY <3>4 DEF ReceiveAnswer
      <4> QED BY <2>1, <3>1, <4>1 DEF Work, Unsent
    <3>5. CASE AnswerTimesOut
          BY <2>1, <3>5 DEF AnswerTimesOut, Work, Unsent
    <3> QED BY <1>9, <3>2, <3>3, <3>4, <3>5 DEF Applies
  <2> QED BY <2>1, <2>2, OwnerKeeps
<1>10. CASE Account
      BY <1>10, FinishFacts, OwnerKeeps DEF Account, Unsent
<1>11. CASE ThreadEnds
      BY <1>11 DEF ThreadEnds, NoWork, OwnerInv, OwnerExclusive, Running, Unsent
<1>12. CASE Restart
      BY <1>12 DEF Restart, NoOwner, OwnerInv, OwnerExclusive
<1> QED BY <1>0, <1>3, <1>4, <1>5, <1>6, <1>7, <1>8, <1>9, <1>10, <1>11, <1>12, NextCases

(* _on_start, _on_apply_saved and _release_owner_locked: while a           *)
(* calibration owns the service, the thread that runs is its own.          *)
THEOREM OwnersJobOnly == Spec => []OwnerExclusive
<1>1. OwnerInv => OwnerExclusive
      BY DEF OwnerInv
<1> QED BY <1>1, InitTypes, TypeStep, OwnerInit, OwnerStep, PTL DEF Spec

(* _apply_to_extnav: once the owner's lease has lapsed or its release has  *)
(* been asked for, its job sends no application.                           *)
THEOREM NothingSentAfterRelease == Spec => NoSendAfterRelease
<1>1. TypeInv /\ OwnerInv /\ [Next]_vars
        => [Len(sent') > Len(sent) => ~owner.lapsed /\ ~owner.releasing]_vars
  <2> SUFFICES ASSUME TypeInv, OwnerInv, Next, Len(sent') > Len(sent)
               PROVE  ~owner.lapsed /\ ~owner.releasing
      OBVIOUS
  <2>1. TypeOK /\ sent \in Seq([series : 1..MaxSends, job : Job, verdict : Verdict])
        /\ Len(sent) \in Nat
        BY DEF TypeInv, TypeOK
  <2>2. ASSUME UNCHANGED sent PROVE FALSE
        BY <2>1, <2>2
  <2>3. CASE Account
    <3>1. sent' = sent \/ sent' = [sent EXCEPT ![job.send].verdict = job.verdict]
          BY <2>3 DEF Account
    <3>2. Len(sent') = Len(sent)
          BY <2>1, <3>1
    <3> QED BY <2>1, <3>2
  <2>4. ASSUME NEW raised \in BOOLEAN, Send(raised)
        PROVE  ~owner.lapsed /\ ~owner.releasing
        BY <2>4 DEF Send, MaySend, OwnerInv, Unsent
  <2>5. CASE BridgeMoves \/ Callbacks \/ Claims \/ Writes \/ Gathers \/ ThreadEnds \/ Restart
    <3>1. UNCHANGED sent
          BY <2>5 DEF BridgeMoves, serviceVars, Callbacks, ReceiveStatus, OdometryFault, LeaseLapses,
                      Expire, Claims, Acquire, Release, Stop, Writes, Start, ClearWindow, ApplySaved,
                      Gathers, Freeze, GatherFails, ReleaseFails, SaveDryRun, Submit, ThreadEnds,
                      Restart
    <3> QED BY <2>2, <3>1
  <2>6. CASE Applies
    <3>1. \/ \E raised \in BOOLEAN : Send(raised)
          \/ UNCHANGED sent
          BY <2>6 DEF Applies, Withhold, ReceiveAnswer, AnswerTimesOut, Confirm, ReconcileTimesOut
    <3> QED BY <2>2, <2>4, <3>1
  <2> QED BY <2>1, <2>3, <2>5, <2>6, NextCases
<1> QED BY <1>1, InitTypes, TypeStep, OwnerInit, OwnerStep, PTL DEF Spec, NoSendAfterRelease

\* While it applies, the job keeps its candidate but for the series.
Onward == /\ job'.phase \in {"wait", "reconcile", "settle"}
          /\ job'.source = job.source /\ job'.retry = job.retry
          /\ job'.candidate.id = job.candidate.id
          /\ job'.candidate.session = job.candidate.session
          /\ job'.candidate.revision = job.candidate.revision
          /\ job'.candidate.keyframes = job.candidate.keyframes

LEMMA AppliesOnward ==
    ASSUME Applies, job \in Work
    PROVE  Onward
<1>0. job.candidate \in Candidate
      BY DEF Work
<1>3. \A v, n : Settle(v, n) => Onward
      BY DEF Settle, Work, Onward
<1>4. CASE Withhold
      BY <1>3, <1>4 DEF Withhold
<1>8. CASE Confirm \/ ReconcileTimesOut
      BY <1>3, <1>8 DEF Confirm, ReconcileTimesOut
<1>5. ASSUME NEW raised \in BOOLEAN, Send(raised) PROVE Onward
  <2> DEFINE n == Len(sent) + 1
             k == IF job.retry THEN job.candidate.series ELSE n
             c == [job.candidate EXCEPT !.series = k]
  <2>1. job' = [job EXCEPT !.candidate = c, !.send = n,
                    !.phase = IF raised THEN "settle" ELSE "wait",
                    !.verdict = IF raised THEN "unknown" ELSE "open"]
        BY <1>5 DEF Send
  <2>2. /\ c.id = job.candidate.id /\ c.session = job.candidate.session
        /\ c.revision = job.candidate.revision /\ c.keyframes = job.candidate.keyframes
        BY <1>0 DEF Candidate
  <2> HIDE DEF c
  <2>3. /\ job'.candidate = c /\ job'.phase \in {"wait", "settle"} /\ job'.source = job.source
        /\ job'.retry = job.retry
        BY <2>1 DEF Work
  <2> QED BY <2>2, <2>3 DEF Onward
<1>6. ASSUME NEW a \in answers, ReceiveAnswer(a) PROVE Onward
  <2>1. \/ job' = [job EXCEPT !.phase = "reconcile", !.acked = a.revision]
        \/ Settle("applied", a.revision) \/ Settle(Refusal, -1)
        BY <1>6 DEF ReceiveAnswer
  <2> QED BY <1>3, <2>1 DEF Work, Onward
<1>7. CASE AnswerTimesOut
  <2>1. job' = [job EXCEPT !.phase = "reconcile"]
        BY <1>7 DEF AnswerTimesOut
  <2> QED BY <2>1 DEF Work, Onward
<1> QED BY <1>4, <1>5, <1>6, <1>7, <1>8 DEF Applies

-----------------------------------------------------------------------------
(* Windows.                                                                *)

LEMMA WindowInit == Init => WindowInv
<1> SUFFICES ASSUME Init PROVE WindowInv
    OBVIOUS
<1>1. window.keyframes = {} /\ job.phase = "idle" /\ ~Active
      BY DEF Init, ServiceInit, EmptyWindow, NoWork, Active, Running
<1> QED BY <1>1 DEF Init, ServiceInit, WindowInv, WindowOfOneSession

\* A callback empties the window, or leaves one of the session that is seen.
LEMMA WindowCallback ==
    ASSUME TypeInv, WindowInv, job' \in {job, Stopped(job), Stopped(Stopped(job))},
           \/ Discard
           \/ /\ UNCHANGED <<window, saved, pending>>
              /\ \A k \in window.keyframes : k.session = seen'.session
    PROVE  WindowInv'
<1>1. /\ job'.phase = job.phase /\ (Active' <=> Active)
      /\ Active => job'.candidate = job.candidate /\ job'.tag = job.tag
  <2>1. job'.phase = job.phase /\ (Running' <=> Running)
        BY StoppedFacts DEF Running
  <2>2. job \in Work => job'.candidate = job.candidate /\ job'.tag = job.tag
        BY StoppedFacts DEF Work
  <2> QED BY <2>1, <2>2, Shape DEF Active, TypeInv
<1>2. job'.phase = "gather" => Active
      BY <1>1, Shape DEF TypeInv
<1>3. CASE Discard
  <2>1. window'.keyframes = {} /\ saved' = NoCandidate' /\ pending' = NoCandidate'
        BY <1>3 DEF Discard, NoCandidate
  <2> QED BY <1>1, <1>2, <2>1 DEF WindowInv, WindowOfOneSession, OneSession
<1>4. CASE /\ UNCHANGED <<window, saved, pending>>
           /\ \A k \in window.keyframes : k.session = seen'.session
      BY <1>1, <1>2, <1>4 DEF WindowInv, WindowOfOneSession, OneSession, NoCandidate
<1> QED BY <1>3, <1>4

\* The thread: its window, its candidates and its end.
LEMMA WindowThread ==
    ASSUME WindowInv, UNCHANGED seen,
           UNCHANGED window \/ OneSession(window'.keyframes, seen.session),
           saved' = saved \/ saved' = NoCandidate \/ OneSession(saved'.keyframes, saved'.session),
           pending' = pending \/ pending' = NoCandidate
             \/ OneSession(pending'.keyframes, pending'.session),
           Active' => OneSession(job'.candidate.keyframes, job'.candidate.session),
           job'.phase # "gather"
    PROVE  WindowInv'
BY DEF WindowInv, WindowOfOneSession, OneSession, NoCandidate

LEMMA WindowStep == TypeInv /\ WindowInv /\ [Next]_vars => WindowInv'
<1> SUFFICES ASSUME TypeInv, WindowInv, [Next]_vars PROVE WindowInv'
    OBVIOUS
<1>0. TypeOK
      BY DEF TypeInv
<1>a. \A k \in window.keyframes : k.session = seen.session
      BY DEF WindowInv, WindowOfOneSession
<1>1. CASE UNCHANGED vars \/ BridgeMoves
  <2>1. UNCHANGED serviceVars
        BY <1>1 DEF vars, BridgeMoves
  <2> QED BY <2>1 DEF serviceVars, WindowInv, WindowOfOneSession, OneSession, Active, Running,
                      NoCandidate
<1>2. CASE Callbacks
  <2>1. CASE ReceiveStatus
    <3>1. job' \in {job, Stopped(job), Stopped(Stopped(job))} /\ seen' = extnav
          BY <2>1 DEF ReceiveStatus, StoppedFor
    <3>2. \/ Discard
          \/ /\ UNCHANGED <<window, saved, pending>>
             /\ \A k \in window.keyframes : k.session = extnav.session
          BY <2>1 DEF ReceiveStatus
    <3> QED BY <3>1, <3>2, WindowCallback
  <2>2. ASSUME NEW i \in BOOLEAN, OdometryFault(i) PROVE WindowInv'
    <3>1. job' = Stopped(job) /\ UNCHANGED seen
          BY <2>2 DEF OdometryFault, Capturing, Stopped
    <3>2. Discard \/ UNCHANGED <<window, saved, pending>>
          BY <2>2 DEF OdometryFault
    <3> QED BY <1>a, <3>1, <3>2, WindowCallback
  <2>3. CASE LeaseLapses
        BY <1>a, <2>3, WindowCallback DEF LeaseLapses
  <2>4. CASE Expire
        BY <1>a, <2>4, WindowCallback DEF Expire, StoppedFor
  <2> QED BY <1>2, <2>1, <2>2, <2>3, <2>4 DEF Callbacks
<1>3. CASE Claims
      BY <1>a, <1>3, WindowCallback DEF Claims, Acquire, Release, Stop, StoppedFor
<1>4. CASE Writes
  <2>1. ASSUME NEW s \in Source, NEW tag \in Tag, NEW apply \in BOOLEAN, Start(s, tag, apply)
        PROVE  WindowInv'
    <3>1. /\ UNCHANGED <<seen, window, saved, pending>>
          /\ \A k \in window.keyframes : k.session = seen.session /\ k.tag # tag
          BY <2>1 DEF Start
    <3>2. /\ job'.tag = tag /\ job'.candidate.keyframes = {}
          /\ job'.candidate.session = seen.session
          BY <2>1 DEF Start, Begin
    <3> QED BY <3>1, <3>2 DEF WindowInv, WindowOfOneSession, OneSession, NoCandidate
  <2>2. ASSUME NEW s \in Source, ClearWindow(s) PROVE WindowInv'
        BY <2>2, WindowCallback DEF ClearWindow
  <2>3. ASSUME NEW s \in Source, ApplySaved(s) PROVE WindowInv'
    <3> DEFINE d == [Chosen EXCEPT !.revision = seen.revision]
    <3>1. /\ UNCHANGED <<seen, window, saved, pending>>
          /\ Chosen # NoCandidate
          /\ Begin(s, NoTag, TRUE, pending # NoCandidate, d)
          BY <2>3 DEF ApplySaved
    <3>2. Chosen \in Candidate /\ OneSession(Chosen.keyframes, Chosen.session)
          BY <1>0, <3>1 DEF Chosen, WindowInv, TypeOK
    <3>3. d.keyframes = Chosen.keyframes /\ d.session = Chosen.session
          BY <3>2 DEF Candidate
    <3> HIDE DEF d
    <3>4. job'.tag = NoTag /\ job'.candidate = d
          BY <3>1 DEF Begin
    <3> QED BY <3>1, <3>2, <3>3, <3>4 DEF WindowInv, WindowOfOneSession, OneSession, NoCandidate
  <2> QED BY <1>4, <2>1, <2>2, <2>3 DEF Writes
<1>5. ASSUME Active PROVE /\ job \in Work /\ job.candidate \in Candidate
                          /\ OneSession(job.candidate.keyframes, job.candidate.session)
      BY <1>0, <1>5, Shape DEF WindowInv, Work
<1>6. ASSUME NEW c \in Candidate, OneSession(c.keyframes, c.session), NEW v,
             CanCommit(c), Commit(c, v)
      PROVE  /\ OneSession(window'.keyframes, seen.session)
             /\ OneSession(saved'.keyframes, saved'.session)
  <2>1. window'.keyframes = c.keyframes /\ c.session = seen.session
        BY <1>6 DEF Commit, CanCommit
  <2>2. saved'.keyframes = c.keyframes /\ saved'.session = c.session
        BY <1>6 DEF Commit, Candidate
  <2> QED BY <1>6, <2>1, <2>2 DEF OneSession
<1>7. CASE Gathers
  <2>1. Active /\ UNCHANGED seen
    <3>1. Running /\ job.phase \in {"gather", "frozen"} /\ UNCHANGED seen
          BY <1>7 DEF Gathers, Freeze, GatherFails, ReleaseFails, Capturing, SaveDryRun, Submit
    <3> QED BY <1>0, <3>1, Shape
  <2>2. CASE Freeze
    <3> DEFINE c == job.candidate
    <3>1. /\ job' = [job EXCEPT !.phase = "frozen", !.tag = NoTag, !.against = seen.correction,
                                !.candidate = Measured(c)]
          /\ job.phase = "gather" /\ UNCHANGED <<window, saved, pending>>
          BY <2>2 DEF Freeze
    <3>2. OneSession(Measured(c).keyframes, Measured(c).session)
      <4>1. CASE job.tag = NoTag
            BY <1>5, <2>1, <4>1 DEF Measured
      <4>2. CASE job.tag # NoTag
        <5>1. /\ Measured(c).keyframes = window.keyframes \cup {[tag |-> job.tag, session |-> c.session]}
              /\ Measured(c).session = c.session
              BY <1>5, <2>1, <4>2 DEF Measured, Candidate
        <5>2. \A k \in window.keyframes : k.session = c.session /\ k.tag # job.tag
              BY <3>1, <4>2 DEF WindowInv
        <5>3. \A k, l \in window.keyframes : k.tag = l.tag => k = l
              BY DEF WindowInv, WindowOfOneSession
        <5> QED BY <5>1, <5>2, <5>3 DEF OneSession
      <4> QED BY <4>1, <4>2
    <3>3. job'.phase = "frozen" /\ job'.candidate = Measured(c)
          BY <1>5, <2>1, <3>1 DEF Work
    <3> QED BY <2>1, <3>1, <3>2, <3>3, WindowThread
  <2>3. CASE GatherFails \/ ReleaseFails
    <3>1. Finish /\ UNCHANGED <<window, saved, pending>>
          BY <2>3 DEF GatherFails, ReleaseFails
    <3> QED BY <2>1, <3>1, FinishFacts, WindowThread DEF Active
  <2>4. CASE SaveDryRun
    <3>1. Finish /\ UNCHANGED pending
          BY <2>4 DEF SaveDryRun
    <3>2. \/ CanCommit(job.candidate) /\ Commit(job.candidate, seen.revision)
          \/ UNCHANGED <<window, saved>>
          BY <2>4 DEF SaveDryRun
    <3>3. ~Active' /\ job'.phase # "gather"
          BY <3>1, FinishFacts DEF Active
    <3> QED BY <1>5, <1>6, <2>1, <3>1, <3>2, <3>3, WindowThread
  <2>5. CASE Submit
    <3>1. /\ UNCHANGED <<window, saved>> /\ pending' = job.candidate
          /\ job' = [job EXCEPT !.phase = "submit"]
          BY <2>5 DEF Submit
    <3>2. job'.phase = "submit" /\ job'.candidate = job.candidate
          BY <1>5, <2>1, <3>1 DEF Work
    <3> QED BY <1>5, <2>1, <3>1, <3>2, WindowThread
  <2> QED BY <1>7, <2>2, <2>3, <2>4, <2>5 DEF Gathers
<1>8. CASE Applies
  <2>1. /\ Active /\ UNCHANGED <<seen, window, saved, pending>> /\ job.phase # "gather"
    <3>1. /\ Running /\ job.phase \in {"submit", "wait", "reconcile"}
          /\ UNCHANGED <<seen, window, saved, pending>>
          BY <1>8 DEF Applies, Withhold, Send, ReceiveAnswer, AnswerTimesOut, Confirm, ReconcileTimesOut
    <3> QED BY <1>0, <3>1, Shape
  <2>2. Onward
        BY <1>5, <1>8, <2>1, AppliesOnward
  <2>3. job'.phase # "gather" /\ OneSession(job'.candidate.keyframes, job'.candidate.session)
        BY <1>5, <2>1, <2>2 DEF Onward
  <2> QED BY <2>1, <2>2, <2>3, WindowThread
<1>9. CASE Account
  <2>1. /\ Active /\ Finish /\ UNCHANGED seen
    <3>1. Running /\ job.phase = "settle" /\ Finish /\ UNCHANGED seen
          BY <1>9 DEF Account
    <3> QED BY <1>0, <3>1, Shape
  <2>2. ~Active' /\ job'.phase # "gather"
        BY <2>1, FinishFacts DEF Active
  <2>3. /\ pending' \in {pending, NoCandidate, job.candidate}
        /\ \/ UNCHANGED window
           \/ CanCommit(job.candidate) /\ Commit(job.candidate, job.acked)
        /\ \/ saved' \in {saved, pending, job.candidate}
           \/ saved' = [job.candidate EXCEPT !.base = window.revision, !.revision = job.acked]
           \/ CanCommit(job.candidate) /\ Commit(job.candidate, job.acked)
    <3>1. job.verdict \in {"applied", "rejected", "unknown"}
          BY <1>5, <1>9, <2>1 DEF Account, TypeInv, SettleInv, Work, Verdict
    <3>2. CASE job.verdict = "applied"
          BY <1>9, <3>2 DEF Account
    <3>3. CASE job.verdict = "rejected"
          BY <1>9, <3>3 DEF Account
    <3>4. CASE job.verdict = "unknown"
          BY <1>9, <3>4 DEF Account
    <3> QED BY <3>1, <3>2, <3>3, <3>4
  <2>4. ASSUME saved' = [job.candidate EXCEPT !.base = window.revision, !.revision = job.acked]
        PROVE  OneSession(saved'.keyframes, saved'.session)
        BY <1>5, <2>1, <2>4 DEF Candidate
  <2>5. saved' = saved \/ saved' = NoCandidate \/ OneSession(saved'.keyframes, saved'.session)
        BY <1>5, <1>6, <2>1, <2>3, <2>4 DEF WindowInv
  <2> QED BY <1>5, <1>6, <2>1, <2>2, <2>3, <2>5, WindowThread
<1>10. CASE ThreadEnds
  <2>1. job'.phase # "gather" /\ ~Active' /\ UNCHANGED <<seen, window, saved, pending>>
        BY <1>10 DEF ThreadEnds, NoWork, Active, Running
  <2> QED BY <2>1, WindowThread
<1>11. CASE Restart
  <2>1. window'.keyframes = {} /\ job'.phase = "idle" /\ ~Active'
        /\ saved' = NoCandidate' /\ pending' = NoCandidate'
        BY <1>11 DEF Restart, EmptyWindow, NoWork, Active, Running, NoCandidate
  <2> QED BY <2>1 DEF WindowInv, WindowOfOneSession
<1> QED BY <1>0, <1>1, <1>2, <1>3, <1>4, <1>7, <1>8, <1>9, <1>10, <1>11, NextCases

(* _commit_new_window_locked and _on_extnav_status: the window has the     *)
(* keyframes of one session, each of another tag, whatever sessions began  *)
(* while the job sampled, applied or waited.                               *)
THEOREM OneSessionInWindow == Spec => []WindowOfOneSession
<1>1. WindowInv => WindowOfOneSession
      BY DEF WindowInv
<1> QED BY <1>1, InitTypes, TypeStep, WindowInit, WindowStep, PTL DEF Spec

-----------------------------------------------------------------------------
(* Views of the bridge.                                                    *)

\* A step of the bridge ends its session, begins another, raises its revision, or
\* changes nothing of the three.
LEMMA BridgeMoved ==
    ASSUME TypeOK, BridgeMoves
    PROVE  /\ sessions \in Nat /\ sessions' \in Nat /\ sessions <= sessions'
           /\ extnav \in Status /\ requests' \subseteq requests
           /\ \/ UNCHANGED extnav
              \/ extnav'.session = NoSession
              \/ extnav'.session = sessions + 1 /\ sessions' = sessions + 1
              \/ extnav'.session = extnav.session /\ extnav'.revision = extnav.revision + 1
<1>0. /\ extnav \in Status /\ sessions \in Nat /\ NoSession = 0
      BY LimitTypes DEF TypeOK, BridgeTypeOK, Session, NoSession
<1>1. CASE BeginSession
      BY <1>0, <1>1, InvalidatedType DEF BeginSession, Status
<1>2. CASE LoseOdin
      BY <1>0, <1>2, InvalidatedType DEF LoseOdin, Status
<1>3. CASE TransformFails
      BY <1>0, <1>3, InvalidatedType DEF TransformFails, MayInvalidate
<1>4. CASE OtherClientWrites
  <2>1. extnav.correction # NoJob /\ extnav' = Invalidated(extnav) =>
            extnav'.session = extnav.session /\ extnav'.revision = extnav.revision + 1
        BY <1>4, InvalidatedType DEF OtherClientWrites, MayInvalidate
  <2>2. extnav' = [extnav EXCEPT !.revision = @ + 1, !.correction = OtherTool] =>
            extnav'.session = extnav.session /\ extnav'.revision = extnav.revision + 1
        BY <1>0 DEF Status
  <2> QED BY <1>0, <1>4, <2>1, <2>2 DEF OtherClientWrites
<1>5. CASE RestartBridge
      BY <1>0, <1>5 DEF RestartBridge, Identity
<1>6. ASSUME NEW r \in requests, SetCorrection(r, Awaited(r))
      PROVE  /\ UNCHANGED sessions /\ requests' \subseteq requests
             /\ \/ UNCHANGED extnav
                \/ extnav'.session = extnav.session /\ extnav'.revision = extnav.revision + 1
      BY <1>0, <1>6 DEF SetCorrection, Status
<1> QED BY <1>0, <1>1, <1>2, <1>3, <1>4, <1>5, <1>6 DEF BridgeMoves, BridgeStep

\* What was read once stays read.
LEMMA ReadKept ==
    ASSUME TypeOK, BridgeMoves \/ UNCHANGED <<extnav, sessions>>,
           NEW s \in Session, NEW v \in Nat, NEW x
    PROVE  /\ Older(s, v) => Older(s, v)'
           /\ Read(s, v, x) => Read(s, v, x)'
<1>1. s \in Nat /\ extnav \in Status
      BY LimitTypes DEF Session, NoSession, TypeOK, BridgeTypeOK
<1>2. CASE UNCHANGED <<extnav, sessions>>
      BY <1>2 DEF Older, Read
<1>3. CASE BridgeMoves
  <2>1. extnav.revision \in Nat
        BY <1>1 DEF Status
  <2> QED BY <1>1, <1>3, <2>1, BridgeMoved DEF Older, Read
<1> QED BY <1>2, <1>3

LEMMA ViewInit == Init => ViewInv
<1> SUFFICES ASSUME Init PROVE ViewInv
    OBVIOUS
<1>1. job.phase = "idle" /\ ~Active /\ requests = {} /\ pending = NoCandidate
      BY DEF Init, BridgeInit, ServiceInit, NoWork, Active, Running
<1>2. extnav.session = 0 /\ seen.session = 0 /\ sessions = 0
      BY DEF Init, BridgeInit, ServiceInit, Identity, NoSession
<1> QED BY <1>1, <1>2 DEF ViewInv, Read, Older, NoSession

\* A step of the service: it may read the status, and keeps what was read.
LEMMA ViewKept ==
    ASSUME ViewInv, UNCHANGED <<extnav, sessions>>,
           seen' = seen \/ seen' = extnav \/ seen' = Identity,
           \A r \in requests' : r \in requests \/ Read(r.session, r.revision, r.against),
           Active' => Older(job'.candidate.session, job'.candidate.revision),
           job'.phase = "submit" \/ (job'.phase = "frozen" /\ job'.apply) =>
               Read(job'.candidate.session, job'.candidate.revision, job'.against),
           pending' = pending \/ pending' = NoCandidate \/ Older(pending'.session, pending'.revision),
           TypeOK
    PROVE  ViewInv'
<1>0. extnav.session <= sessions /\ extnav.revision <= extnav.revision /\ 0 <= sessions
      BY LimitTypes DEF ViewInv, TypeOK, BridgeTypeOK, Status, Session, NoSession
<1>1. Read(seen.session, seen.revision, seen.correction)'
  <2>1. CASE seen' = seen
        BY <2>1 DEF ViewInv, Read, Older
  <2>2. CASE seen' = extnav
        BY <1>0, <2>2 DEF Read, Older
  <2>3. CASE seen' = Identity
        BY <1>0, <2>3 DEF Read, Older, Identity, NoSession
  <2> QED BY <2>1, <2>2, <2>3
<1>2. (\A r \in requests : Read(r.session, r.revision, r.against))'
      BY DEF ViewInv, Read, Older
<1>3. Active' => Older(job.candidate.session, job.candidate.revision)'
      BY DEF Older
<1>4. (job.phase = "submit" \/ (job.phase = "frozen" /\ job.apply))' =>
          Read(job.candidate.session, job.candidate.revision, job.against)'
      BY DEF Read, Older
<1>5. (pending # NoCandidate)' => Older(pending.session, pending.revision)'
      BY DEF ViewInv, Older, NoCandidate
<1> QED BY <1>0, <1>1, <1>2, <1>3, <1>4, <1>5 DEF ViewInv

\* A callback or a stop leaves the job where it is.
LEMMA ViewCallback ==
    ASSUME TypeInv, ViewInv, UNCHANGED <<extnav, sessions, requests>>,
           seen' = seen \/ seen' = extnav,
           job' \in {job, Stopped(job), Stopped(Stopped(job))},
           pending' = pending \/ pending' = NoCandidate
    PROVE  ViewInv'
<1>1. job'.phase = job.phase /\ (Running' <=> Running) /\ TypeOK
      BY StoppedFacts DEF TypeInv, Running
<1>2. Active' <=> Active
      BY <1>1 DEF Active
<1>3. job \in Work => /\ job'.candidate = job.candidate /\ job'.apply = job.apply
                      /\ job'.against = job.against
      BY StoppedFacts DEF Work
<1>4. Active => job \in Work
      BY <1>1, Shape
<1>5. job.phase \in {"submit", "frozen"} => Active
      BY <1>1, Shape
<1>6. Active' => Older(job'.candidate.session, job'.candidate.revision)
      BY <1>2, <1>3, <1>4 DEF ViewInv
<1>7. job'.phase = "submit" \/ (job'.phase = "frozen" /\ job'.apply) =>
          Read(job'.candidate.session, job'.candidate.revision, job'.against)
      BY <1>1, <1>3, <1>4, <1>5 DEF ViewInv
<1> QED BY <1>1, <1>6, <1>7, ViewKept

LEMMA ViewStep == TypeInv /\ ViewInv /\ [Next]_vars => ViewInv'
<1> SUFFICES ASSUME TypeInv, ViewInv, [Next]_vars PROVE ViewInv'
    OBVIOUS
<1>0. TypeOK
      BY DEF TypeInv
<1>1. CASE UNCHANGED vars
      BY <1>1, <1>0, ViewCallback DEF vars, bridgeVars, serviceVars
<1>2. CASE BridgeMoves
  <2>1. /\ \A r \in requests : r.session \in Session /\ r.revision \in Nat
        /\ seen.session \in Session /\ seen.revision \in Nat
        /\ Active => job.candidate.session \in Session /\ job.candidate.revision \in Nat
        /\ pending # NoCandidate => pending.session \in Session /\ pending.revision \in Nat
    <3>1. Active => job.candidate \in Candidate
          BY <1>0, Shape DEF Work
    <3> QED BY <1>0, <3>1 DEF TypeOK, BridgeTypeOK, Request, Status, Candidate
  <2>2. UNCHANGED serviceVars /\ requests' \subseteq requests
        BY <1>0, <1>2, BridgeMoved DEF BridgeMoves
  <2>3. (extnav.session <= sessions)'
    <3>1. extnav.session \in Nat /\ sessions \in Nat /\ sessions' \in Nat /\ sessions <= sessions'
          BY <1>0, <1>2, BridgeMoved DEF Status, Session, NoSession
    <3> QED BY <1>0, <1>2, <3>1, BridgeMoved DEF ViewInv, NoSession
  <2>4. Read(seen.session, seen.revision, seen.correction)'
        BY <1>0, <1>2, <2>1, <2>2, ReadKept DEF ViewInv, serviceVars
  <2>5. (\A r \in requests : Read(r.session, r.revision, r.against))'
        BY <1>0, <1>2, <2>1, <2>2, ReadKept DEF ViewInv
  <2>6. (Active => Older(job.candidate.session, job.candidate.revision))'
        BY <1>0, <1>2, <2>1, <2>2, ReadKept DEF ViewInv, serviceVars, Active, Running
  <2>7. job.phase \in {"submit", "frozen"} => Active
        BY <1>0, Shape
  <2>8. (job.phase = "submit" \/ (job.phase = "frozen" /\ job.apply) =>
            Read(job.candidate.session, job.candidate.revision, job.against))'
        BY <1>0, <1>2, <2>1, <2>2, <2>7, ReadKept DEF ViewInv, serviceVars
  <2>9. (pending # NoCandidate => Older(pending.session, pending.revision))'
        BY <1>0, <1>2, <2>1, <2>2, ReadKept DEF ViewInv, serviceVars, NoCandidate
  <2> QED BY <2>3, <2>4, <2>5, <2>6, <2>8, <2>9 DEF ViewInv
<1>3. CASE Callbacks
  <2>1. UNCHANGED bridgeVars /\ (seen' = seen \/ seen' = extnav)
        BY <1>3 DEF Callbacks, ReceiveStatus, OdometryFault, LeaseLapses, Expire
  <2>2. pending' = pending \/ pending' = NoCandidate
        BY <1>3 DEF Callbacks, ReceiveStatus, OdometryFault, LeaseLapses, Expire, Discard
  <2>3. job' \in {job, Stopped(job), Stopped(Stopped(job))}
    <3>1. CASE \E i \in BOOLEAN : OdometryFault(i)
          BY <3>1 DEF OdometryFault, Capturing, Stopped
    <3>2. CASE ReceiveStatus \/ LeaseLapses \/ Expire
          BY <3>2 DEF ReceiveStatus, LeaseLapses, Expire, StoppedFor
    <3> QED BY <1>3, <3>1, <3>2 DEF Callbacks
  <2> QED BY <2>1, <2>2, <2>3, ViewCallback DEF bridgeVars
<1>4. CASE Claims
      BY <1>4, ViewCallback DEF Claims, Acquire, Release, Stop, StoppedFor, bridgeVars
<1>5. CASE Writes
  <2>1. ASSUME NEW s \in Source, NEW tag \in Tag, NEW apply \in BOOLEAN, Start(s, tag, apply)
        PROVE  ViewInv'
    <3>1. UNCHANGED <<extnav, sessions, requests, seen, pending>>
          BY <2>1 DEF Start, bridgeVars
    <3>2. /\ job'.phase = "gather" /\ job'.candidate.session = seen.session
          /\ job'.candidate.revision = seen.revision
          BY <2>1 DEF Start, Begin
    <3> QED BY <1>0, <3>1, <3>2, ViewKept DEF ViewInv, Read
  <2>2. ASSUME NEW s \in Source, ClearWindow(s) PROVE ViewInv'
        BY <2>2, ViewCallback DEF ClearWindow, Discard, bridgeVars
  <2>3. ASSUME NEW s \in Source, ApplySaved(s) PROVE ViewInv'
    <3> DEFINE d == [Chosen EXCEPT !.revision = seen.revision]
    <3>1. /\ UNCHANGED <<extnav, sessions, requests, seen, pending>>
          /\ Chosen # NoCandidate /\ Chosen.session = seen.session
          /\ Begin(s, NoTag, TRUE, pending # NoCandidate, d)
          BY <2>3 DEF ApplySaved, bridgeVars
    <3>2. Chosen \in Candidate
          BY <1>0, <3>1 DEF Chosen, TypeOK
    <3>3. d.session = seen.session /\ d.revision = seen.revision
          BY <3>1, <3>2 DEF Candidate
    <3> HIDE DEF d
    <3>4. job'.phase = "gather" /\ job'.candidate = d
          BY <3>1 DEF Begin
    <3> QED BY <1>0, <3>1, <3>3, <3>4, ViewKept DEF ViewInv, Read
  <2> QED BY <1>5, <2>1, <2>2, <2>3 DEF Writes
<1>6. ASSUME Active
      PROVE  /\ job \in Work /\ job.candidate \in Candidate
             /\ Older(job.candidate.session, job.candidate.revision)
      BY <1>0, <1>6, Shape DEF ViewInv, Work
<1>7. CASE Gathers
  <2>1. /\ Active /\ UNCHANGED bridgeVars /\ UNCHANGED seen
    <3>1. Running /\ job.phase \in {"gather", "frozen"} /\ UNCHANGED bridgeVars /\ UNCHANGED seen
          BY <1>7 DEF Gathers, Freeze, GatherFails, ReleaseFails, Capturing, SaveDryRun, Submit
    <3> QED BY <1>0, <3>1, Shape
  <2>2. CASE Freeze
    <3>1. /\ job' = [job EXCEPT !.phase = "frozen", !.tag = NoTag, !.against = seen.correction,
                                !.candidate = Measured(job.candidate)]
          /\ job.apply => CanApply(job.candidate)
          /\ UNCHANGED pending
          BY <2>2 DEF Freeze
    <3>2. /\ Measured(job.candidate).session = job.candidate.session
          /\ Measured(job.candidate).revision = job.candidate.revision
          BY <1>6, <2>1 DEF Measured, Candidate
    <3>3. /\ job'.phase = "frozen" /\ job'.apply = job.apply /\ job'.against = seen.correction
          /\ job'.candidate = Measured(job.candidate)
          BY <1>6, <2>1, <3>1 DEF Work
    <3>4. job.apply => Read(job.candidate.session, job.candidate.revision, seen.correction)
          BY <3>1 DEF CanApply, SameBase, ViewInv
    <3> QED BY <1>0, <1>6, <2>1, <3>1, <3>2, <3>3, <3>4, ViewKept DEF bridgeVars
  <2>3. CASE Submit
    <3>1. /\ job' = [job EXCEPT !.phase = "submit"] /\ pending' = job.candidate
          /\ job.phase = "frozen" /\ job.apply
          BY <2>3 DEF Submit
    <3>2. /\ job'.phase = "submit" /\ job'.candidate = job.candidate
          /\ job'.against = job.against
          BY <1>6, <2>1, <3>1 DEF Work
    <3>3. Read(job.candidate.session, job.candidate.revision, job.against)
          BY <3>1 DEF ViewInv
    <3> QED BY <1>0, <1>6, <2>1, <3>1, <3>2, <3>3, ViewKept DEF bridgeVars
  <2>4. CASE GatherFails \/ ReleaseFails \/ SaveDryRun
    <3>1. Finish /\ UNCHANGED pending
          BY <2>4 DEF GatherFails, ReleaseFails, SaveDryRun
    <3>2. ~Active' /\ job'.phase = "done"
          BY <3>1, FinishFacts DEF Active
    <3> QED BY <1>0, <2>1, <3>1, <3>2, ViewKept DEF bridgeVars
  <2> QED BY <1>7, <2>2, <2>3, <2>4 DEF Gathers
<1>8. CASE Applies
  <2>1. /\ Active /\ UNCHANGED <<extnav, sessions, seen, pending>>
    <3>1. /\ Running /\ job.phase \in {"submit", "wait", "reconcile"}
          /\ UNCHANGED <<extnav, sessions, seen, pending>>
          BY <1>8 DEF Applies, Withhold, Send, ReceiveAnswer, AnswerTimesOut, Confirm,
                      ReconcileTimesOut, bridgeVars
    <3> QED BY <1>0, <3>1, Shape
  <2>2. Onward
        BY <1>6, <1>8, <2>1, AppliesOnward
  <2>3. /\ job'.phase \notin {"submit", "frozen"}
        /\ Older(job'.candidate.session, job'.candidate.revision)
        BY <1>6, <2>1, <2>2 DEF Onward
  <2>4. \A r \in requests' : r \in requests \/ Read(r.session, r.revision, r.against)
    <3>1. ASSUME NEW raised \in BOOLEAN, Send(raised) PROVE <2>4
      <4> DEFINE n == Len(sent) + 1
                 k == IF job.retry THEN job.candidate.series ELSE n
                 c == [job.candidate EXCEPT !.series = k]
                 q == [send |-> n, against |-> job.against,
                       job |-> c.id, session |-> c.session, revision |-> c.revision]
      <4>1. /\ requests' \subseteq requests \cup {q} /\ job.phase = "submit"
            BY <3>1 DEF Send
      <4>2. /\ q.session = job.candidate.session /\ q.revision = job.candidate.revision
            /\ q.against = job.against
            BY <1>6, <2>1 DEF Candidate
      <4>3. Read(job.candidate.session, job.candidate.revision, job.against)
            BY <4>1 DEF ViewInv
      <4> HIDE DEF q
      <4> QED BY <4>1, <4>2, <4>3
    <3>2. UNCHANGED requests \/ \E raised \in BOOLEAN : Send(raised)
          BY <1>8 DEF Applies, Withhold, ReceiveAnswer, AnswerTimesOut, Confirm,
                      ReconcileTimesOut, bridgeVars
    <3> QED BY <3>1, <3>2
  <2> QED BY <1>0, <2>1, <2>3, <2>4, ViewKept
<1>9. CASE Account
  <2>1. /\ Active /\ Finish /\ UNCHANGED bridgeVars /\ UNCHANGED seen
    <3>1. Running /\ job.phase = "settle" /\ Finish /\ UNCHANGED bridgeVars /\ UNCHANGED seen
          BY <1>9 DEF Account
    <3> QED BY <1>0, <3>1, Shape
  <2>2. ~Active' /\ job'.phase = "done"
        BY <2>1, FinishFacts DEF Active
  <2>3. pending' \in {NoCandidate, job.candidate}
    <3>1. job.verdict \in {"applied", "rejected", "unknown"}
          BY <1>6, <1>9, <2>1 DEF Account, TypeInv, SettleInv, Work, Verdict
    <3> QED BY <1>9, <3>1 DEF Account
  <2> QED BY <1>0, <1>6, <2>1, <2>2, <2>3, ViewKept DEF bridgeVars
<1>10. CASE ThreadEnds
  <2>1. job'.phase = "idle" /\ ~Active' /\ UNCHANGED <<bridgeVars, seen, pending>>
        BY <1>10 DEF ThreadEnds, NoWork, Active, Running
  <2> QED BY <1>0, <2>1, ViewKept DEF bridgeVars
<1>11. CASE Restart
  <2>1. /\ job'.phase = "idle" /\ ~Active' /\ UNCHANGED <<extnav, sessions, requests>>
        /\ seen' = Identity /\ pending' = NoCandidate
        BY <1>11 DEF Restart, NoWork, Active, Running
  <2> QED BY <1>0, <2>1, ViewKept
<1> QED BY <1>0, <1>1, <1>2, <1>3, <1>4, <1>5, <1>7, <1>8, <1>9, <1>10, <1>11, NextCases

(* _set_correction and _evaluate_candidate_apply_locked: whatever happens  *)
(* between the evaluation of a jump and its arrival at extnav, it takes    *)
(* effect only upon the correction it was computed from.                   *)
THEOREM JumpsAreChecked == Spec => JumpChecked
<1>1. TypeInv /\ ViewInv /\ [Next]_vars =>
          [effects' # effects => \A r \in requests \ requests' : r.against = extnav.correction]_vars
  <2> SUFFICES ASSUME TypeInv, ViewInv, Next, effects' # effects, NEW r \in requests \ requests'
               PROVE  r.against = extnav.correction
      BY DEF vars, bridgeVars
  <2>0. TypeOK
        BY DEF TypeInv
  <2>1. CASE BridgeMoves
    <3>1. PICK q \in requests : SetCorrection(q, Awaited(q))
          BY <2>1 DEF BridgeMoves, BridgeStep, BeginSession, LoseOdin, TransformFails,
                      OtherClientWrites, RestartBridge
    <3>2. r = q /\ Accepts(q)
          BY <3>1 DEF SetCorrection
    <3> QED BY <3>2 DEF Accepts, ViewInv, Read
  <2>2. CASE Callbacks \/ Claims \/ Writes \/ Gathers \/ Account \/ ThreadEnds \/ Restart
        BY <2>2 DEF Callbacks, ReceiveStatus, OdometryFault, LeaseLapses, Expire, Claims, Acquire,
                    Release, Stop, Writes, Start, ClearWindow, ApplySaved, Gathers, Freeze,
                    GatherFails, ReleaseFails, SaveDryRun, Submit, Account, ThreadEnds, Restart,
                    bridgeVars
  <2>3. CASE Applies
        BY <2>3 DEF Applies, Withhold, Send, ReceiveAnswer, AnswerTimesOut, Confirm,
                    ReconcileTimesOut, bridgeVars
  <2> QED BY <2>0, <2>1, <2>2, <2>3, NextCases
<1> QED BY <1>1, InitTypes, TypeStep, ViewInit, ViewStep, PTL DEF Spec, JumpChecked

-----------------------------------------------------------------------------
(* Applications.                                                           *)

\* The sends so far keep their series.
Continued == /\ \A n \in DOMAIN sent : n \in DOMAIN sent' /\ sent'[n].series = sent[n].series
             /\ \A n \in DOMAIN sent' : sent'[n].series <= n

LEMMA SentTypes ==
    ASSUME TypeOK
    PROVE  /\ Len(sent) \in Nat /\ DOMAIN sent = 1..Len(sent)
           /\ \A n \in DOMAIN sent : /\ sent[n].series \in 1..MaxSends /\ sent[n].job \in Job
                                     /\ sent[n].verdict \in Verdict
           /\ Len(effects) \in Nat /\ DOMAIN effects = 1..Len(effects)
           /\ \A i \in DOMAIN effects : effects[i] \in 1..MaxSends
<1>1. sent \in Seq([series : 1..MaxSends, job : Job, verdict : Verdict])
      BY DEF TypeOK
<1>2. effects \in Seq(1..MaxSends)
      BY DEF TypeOK, BridgeTypeOK
<1>3. /\ Len(sent) \in Nat /\ DOMAIN sent = 1..Len(sent)
      /\ Len(effects) \in Nat /\ DOMAIN effects = 1..Len(effects)
      BY <1>1, <1>2, LenProperties
<1>4. \A n \in DOMAIN sent : sent[n] \in [series : 1..MaxSends, job : Job, verdict : Verdict]
      BY <1>1, <1>3, ElementOfSeq
<1>5. \A i \in DOMAIN effects : effects[i] \in 1..MaxSends
      BY <1>2, <1>3, ElementOfSeq
<1> QED BY <1>3, <1>4, <1>5

LEMMA SpentKept ==
    ASSUME OnceInv, UNCHANGED effects, Continued
    PROVE  Spent' = Spent
<1>1. \A i \in DOMAIN effects : sent'[effects[i]].series = sent[effects[i]].series
      BY DEF OnceInv, Continued
<1> QED BY <1>1 DEF Spent

\* A step of the service: it may send once more, and claims what it may claim.
LEMMA OnceKept ==
    ASSUME OnceInv, UNCHANGED <<extnav, effects>>, Continued,
           \A r \in requests' : \/ r \in requests
                                \/ /\ r.send \in DOMAIN sent'
                                   /\ Passed(sent'[r.send].series, r.session, r.revision, r.job),
           Claiming' => /\ job'.candidate.series <= Len(sent')
                        /\ Passed(job'.candidate.series, job'.candidate.session,
                                  job'.candidate.revision, job'.candidate.id),
           Latched' => /\ pending'.series <= Len(sent')
                       /\ Passed(pending'.series, pending'.session, pending'.revision, pending'.id)
    PROVE  OnceInv'
<1>1. Spent' = Spent
      BY SpentKept
<1>2. \A i \in DOMAIN effects' : effects'[i] \in DOMAIN sent'
      BY DEF OnceInv, Continued
<1>3. (\A r \in requests : /\ r.send \in DOMAIN sent
                           /\ Passed(sent[r.send].series, r.session, r.revision, r.job))'
      BY <1>1 DEF OnceInv, Continued, Passed
<1>4. (Claiming => /\ job.candidate.series <= Len(sent)
                   /\ Passed(job.candidate.series, job.candidate.session,
                             job.candidate.revision, job.candidate.id))'
      BY <1>1 DEF Passed
<1>5. (Latched => /\ pending.series <= Len(sent)
                  /\ Passed(pending.series, pending.session, pending.revision, pending.id))'
      BY <1>1 DEF Passed
<1>6. (extnav.correction \in Job => effects # <<>>)' /\ (\A n \in DOMAIN sent : sent[n].series <= n)'
      BY DEF OnceInv, Continued
<1> QED BY <1>2, <1>3, <1>4, <1>5, <1>6 DEF OnceInv

\* Nothing is sent, and what is claimed was claimed before.
LEMMA OnceStays ==
    ASSUME OnceInv, UNCHANGED <<extnav, effects, sent>>, requests' \subseteq requests,
           Claiming' => /\ Claiming
                        /\ job'.candidate.series = job.candidate.series
                        /\ job'.candidate.session = job.candidate.session
                        /\ job'.candidate.revision = job.candidate.revision
                        /\ job'.candidate.id = job.candidate.id,
           Latched' => Latched /\ UNCHANGED pending
    PROVE  OnceInv'
<1>1. Continued
      BY DEF OnceInv, Continued
<1> QED BY <1>1, OnceKept DEF OnceInv

LEMMA OnceInit == Init => OnceInv
<1> SUFFICES ASSUME Init PROVE OnceInv
    OBVIOUS
<1>1. /\ job.phase = "idle" /\ ~Running /\ requests = {} /\ pending = NoCandidate
      /\ sent = <<>> /\ effects = <<>> /\ extnav.correction = 0
      BY DEF Init, BridgeInit, ServiceInit, NoWork, Running, Identity, NoJob
<1>2. ~Claiming /\ ~Latched /\ extnav.correction \notin Job
      BY <1>1, BridgeAssumption DEF Claiming, Latched, Job
<1> QED BY <1>1, <1>2 DEF OnceInv

\* What may be asked of the bridge is asked in vain once it has taken effect.
LEMMA PassedKept ==
    ASSUME TypeOK, BridgeMoves, NEW s \in Session, NEW v \in Nat, Older(s, v), NEW j,
           NEW a, a \in Spent' => a \in Spent \/ extnav'.revision = extnav.revision + 1,
           Passed(a, s, v, j)
    PROVE  Passed(a, s, v, j)'
<1>1. /\ extnav.revision \in Nat /\ s \in Nat /\ sessions \in Nat
      BY LimitTypes DEF TypeOK, BridgeTypeOK, Status, Session, NoSession
<1>2. CASE UNCHANGED extnav
      BY <1>1, <1>2 DEF Passed
<1>3. CASE extnav'.session = NoSession \/ extnav'.session = sessions + 1
      BY <1>1, <1>3 DEF Passed, Older
<1>4. CASE extnav'.session = extnav.session /\ extnav'.revision = extnav.revision + 1
      BY <1>1, <1>4 DEF Passed, Older
<1> QED BY <1>2, <1>3, <1>4, BridgeMoved

\* The only step of the bridge that has an effect: a request whose application has
\* had none.
LEMMA EffectNew ==
    ASSUME TypeOK, OnceInv, NEW r \in requests, ~SameAsActive(r), Accepts(r)
    PROVE  sent[r.send].series \notin Spent
<1>1. Passed(sent[r.send].series, r.session, r.revision, r.job)
      BY DEF OnceInv
<1>2. extnav.revision \in Nat
      BY DEF TypeOK, BridgeTypeOK, Status
<1> QED BY <1>1, <1>2 DEF Passed, Accepts, SameAsActive

\* A step of the bridge has an effect when it accepts a request, and gives a
\* correction no other way.
LEMMA EffectStep ==
    ASSUME TypeOK, BridgeMoves
    PROVE  \/ /\ UNCHANGED effects
              /\ extnav'.correction \in Job => extnav'.correction = extnav.correction
           \/ \E r \in requests : /\ ~SameAsActive(r) /\ Accepts(r)
                                  /\ effects' = Append(effects, r.send)
                                  /\ extnav'.revision = extnav.revision + 1
                                  /\ extnav'.correction = r.job
<1>0. extnav \in Status /\ NoJob \notin Job /\ OtherTool \notin Job
      BY LimitTypes DEF TypeOK, BridgeTypeOK, NoJob, OtherTool, Job
<1>1. CASE BeginSession
  <2>1. Invalidated(extnav).correction = NoJob /\ Invalidated(extnav) \in Status
        BY <1>1, InvalidatedType DEF BeginSession
  <2>2. extnav'.correction = NoJob /\ UNCHANGED effects
        BY <1>1, <2>1 DEF BeginSession, Status
  <2> QED BY <1>0, <2>2
<1>2. CASE LoseOdin
  <2>1. Invalidated(extnav).correction = NoJob /\ Invalidated(extnav) \in Status
        BY <1>2, InvalidatedType DEF LoseOdin
  <2>2. extnav'.correction = NoJob /\ UNCHANGED effects
        BY <1>2, <2>1 DEF LoseOdin, Status
  <2> QED BY <1>0, <2>2
<1>3. CASE TransformFails
      BY <1>0, <1>3, InvalidatedType DEF TransformFails, MayInvalidate
<1>4. CASE OtherClientWrites
  <2>1. extnav.revision < limit.revisions => Invalidated(extnav).correction = NoJob
        BY InvalidatedType DEF MayInvalidate
  <2>2. [extnav EXCEPT !.revision = @ + 1, !.correction = OtherTool].correction = OtherTool
        BY <1>0 DEF Status
  <2> QED BY <1>0, <1>4, <2>1, <2>2 DEF OtherClientWrites
<1>5. CASE RestartBridge
      BY <1>0, <1>5 DEF RestartBridge, Identity
<1>6. ASSUME NEW r \in requests, SetCorrection(r, Awaited(r))
      PROVE  \/ UNCHANGED <<effects, extnav>>
             \/ /\ ~SameAsActive(r) /\ Accepts(r)
                /\ effects' = Append(effects, r.send)
                /\ extnav'.revision = extnav.revision + 1
                /\ extnav'.correction = r.job
      BY <1>0, <1>6 DEF SetCorrection, Status
<1> QED BY <1>1, <1>2, <1>3, <1>4, <1>5, <1>6 DEF BridgeMoves, BridgeStep

\* An effect adds the series of its send.
LEMMA SpentGrows ==
    ASSUME TypeOK, OnceInv, NEW r \in requests, effects' = Append(effects, r.send), UNCHANGED sent
    PROVE  /\ Spent' = Spent \cup {sent[r.send].series}
           /\ DOMAIN effects' = 1..Len(effects')
           /\ Len(effects') = Len(effects) + 1 /\ effects'[Len(effects')] = r.send
           /\ \A i \in DOMAIN effects' : effects'[i] \in DOMAIN sent
<1>1. /\ Len(effects) \in Nat /\ DOMAIN effects = 1..Len(effects) /\ effects \in Seq(1..MaxSends)
      BY SentTypes DEF TypeOK, BridgeTypeOK
<1>2. r.send \in DOMAIN sent /\ r.send \in 1..MaxSends
      BY DEF OnceInv, TypeOK, BridgeTypeOK, Request
<1>3. /\ Len(effects') = Len(effects) + 1 /\ DOMAIN effects' = 1..(Len(effects) + 1)
      /\ \A i \in 1..Len(effects) : effects'[i] = effects[i]
      /\ effects'[Len(effects) + 1] = r.send
      BY <1>1, <1>2, AppendProperties
<1>4. \A i \in DOMAIN effects' : i \in DOMAIN effects \/ i = Len(effects) + 1
      BY <1>1, <1>3
<1>5. DOMAIN effects \subseteq DOMAIN effects' /\ Len(effects) + 1 \in DOMAIN effects'
      BY <1>1, <1>3
<1>6. Spent' = Spent \cup {sent[r.send].series}
  <2>1. \A a \in Spent' : a \in Spent \/ a = sent[r.send].series
        BY <1>1, <1>3, <1>4 DEF Spent
  <2>2. \A a \in Spent : a \in Spent'
        BY <1>1, <1>3, <1>5 DEF Spent
  <2>3. sent[r.send].series \in Spent'
        BY <1>3, <1>5 DEF Spent
  <2> QED BY <2>1, <2>2, <2>3
<1>7. \A i \in DOMAIN effects' : effects'[i] \in DOMAIN sent
      BY <1>1, <1>2, <1>3, <1>4 DEF OnceInv
<1> QED BY <1>3, <1>6, <1>7

LEMMA BridgeOnce ==
    ASSUME TypeInv, ViewInv, OnceInv, BridgeMoves
    PROVE  OnceInv'
<1>0. TypeOK
      BY DEF TypeInv
<1>1. /\ requests' \subseteq requests
      /\ UNCHANGED <<sent, job, pending>>
      BY <1>0, BridgeMoved DEF BridgeMoves, serviceVars
<1>2. \A a : a \in Spent' => a \in Spent \/ extnav'.revision = extnav.revision + 1
  <2>1. UNCHANGED effects => Spent' = Spent
        BY <1>1 DEF Spent
  <2> QED BY <1>0, <2>1, EffectStep
<1>3. (\A i \in DOMAIN effects : effects[i] \in DOMAIN sent)'
  <2>1. CASE UNCHANGED effects
        BY <1>1, <2>1 DEF OnceInv
  <2>2. ASSUME NEW r \in requests, effects' = Append(effects, r.send)
        PROVE  (\A i \in DOMAIN effects : effects[i] \in DOMAIN sent)'
        BY <1>0, <1>1, <2>2, SpentGrows
  <2> QED BY <1>0, <2>1, <2>2, EffectStep
<1>4. (extnav.correction \in Job => effects # <<>>)'
  <2>1. ASSUME NEW r \in requests, effects' = Append(effects, r.send) PROVE effects' # <<>>
    <3>1. Len(effects') = Len(effects) + 1 /\ Len(effects) \in Nat
          BY <1>0, <1>1, <2>1, SpentGrows, SentTypes
    <3>2. Len(effects') # 0
          BY <3>1
    <3> QED BY <3>2
  <2> QED BY <1>0, <2>1, EffectStep DEF OnceInv
<1>5. ASSUME NEW a, NEW c, c \in Candidate, Older(c.session, c.revision),
             Passed(a, c.session, c.revision, c.id)
      PROVE  Passed(a, c.session, c.revision, c.id)'
  <2>1. c.session \in Session /\ c.revision \in Nat
        BY <1>5 DEF Candidate
  <2>2. \A j : \A s \in Session, v \in Nat : Older(s, v) /\ Passed(a, s, v, j) => Passed(a, s, v, j)'
        BY <1>0, <1>2, PassedKept
  <2> QED BY <1>5, <2>1, <2>2
<1>6. (\A r \in requests : /\ r.send \in DOMAIN sent
                           /\ Passed(sent[r.send].series, r.session, r.revision, r.job))'
  <2> SUFFICES ASSUME NEW r \in requests'
               PROVE  /\ r.send \in DOMAIN sent
                      /\ Passed(sent[r.send].series, r.session, r.revision, r.job)'
      BY <1>1 DEF Passed
  <2>1. /\ r \in requests /\ r.session \in Session /\ r.revision \in Nat
        /\ Older(r.session, r.revision)
        BY <1>0, <1>1 DEF TypeOK, BridgeTypeOK, Request, ViewInv, Read
  <2>2. r.send \in DOMAIN sent /\ Passed(sent[r.send].series, r.session, r.revision, r.job)
        BY <2>1 DEF OnceInv
  <2> QED BY <1>0, <1>1, <1>2, <2>1, <2>2, PassedKept
<1>7. (Claiming => /\ job.candidate.series <= Len(sent)
                   /\ Passed(job.candidate.series, job.candidate.session,
                             job.candidate.revision, job.candidate.id))'
  <2>1. Claiming => /\ job.candidate \in Candidate
                    /\ Older(job.candidate.session, job.candidate.revision)
    <3>1. Claiming => Active
          BY DEF Claiming, Active
    <3> QED BY <1>0, <3>1, Shape DEF Work, ViewInv
  <2>2. (Claiming' <=> Claiming)
        BY <1>1 DEF Claiming, Running
  <2>3. Claiming => Passed(job.candidate.series, job.candidate.session,
                           job.candidate.revision, job.candidate.id)'
        BY <1>1, <1>5, <2>1 DEF OnceInv, Passed
  <2> QED BY <1>1, <2>2, <2>3 DEF OnceInv, Passed
<1>8. (Latched => /\ pending.series <= Len(sent)
                  /\ Passed(pending.series, pending.session, pending.revision, pending.id))'
  <2>1. Latched => pending \in Candidate /\ Older(pending.session, pending.revision)
        BY <1>0 DEF Latched, TypeOK, ViewInv
  <2>2. Latched' <=> Latched
        BY <1>1 DEF Latched, NoCandidate
  <2>3. Latched => Passed(pending.series, pending.session, pending.revision, pending.id)'
        BY <1>1, <1>5, <2>1 DEF OnceInv, Passed
  <2> QED BY <1>1, <2>2, <2>3 DEF OnceInv, Passed
<1> QED BY <1>1, <1>3, <1>4, <1>6, <1>7, <1>8 DEF OnceInv

\* The account writes a verdict, and nothing else about the sends.
LEMMA AccountKeeps ==
    ASSUME TypeOK, OnceInv, Account
    PROVE  /\ Continued /\ Len(sent') = Len(sent) /\ DOMAIN sent' = DOMAIN sent
           /\ \A n \in DOMAIN sent :
                 /\ sent'[n].series = sent[n].series /\ sent'[n].job = sent[n].job
                 /\ sent'[n].verdict = IF job.send # 0 /\ n = job.send THEN job.verdict
                                       ELSE sent[n].verdict
<1> DEFINE E == [series : 1..MaxSends, job : Job, verdict : Verdict]
<1>1. sent \in Seq(E) /\ \A n \in DOMAIN sent : sent[n] \in E
  <2>1. sent \in Seq(E)
        BY DEF TypeOK
  <2> HIDE DEF E
  <2> QED BY <2>1, ElementOfSeq
<1>2. sent' = IF job.send = 0 THEN sent ELSE [sent EXCEPT ![job.send].verdict = job.verdict]
      BY DEF Account
<1>3. Len(sent') = Len(sent) /\ DOMAIN sent' = DOMAIN sent
      BY <1>1, <1>2
<1>4. ASSUME NEW n \in DOMAIN sent
      PROVE  /\ sent'[n].series = sent[n].series /\ sent'[n].job = sent[n].job
             /\ sent'[n].verdict = IF job.send # 0 /\ n = job.send THEN job.verdict
                                   ELSE sent[n].verdict
  <2>1. CASE job.send # 0 /\ n = job.send
    <3>1. sent'[n] = [sent[n] EXCEPT !.verdict = job.verdict]
          BY <1>1, <1>2, <2>1
    <3>2. sent[n] \in E
          BY <1>1
    <3> QED BY <2>1, <3>1, <3>2
  <2>2. CASE ~(job.send # 0 /\ n = job.send)
    <3>1. sent'[n] = sent[n]
          BY <1>1, <1>2, <2>2
    <3> QED BY <2>2, <3>1
  <2> QED BY <2>1, <2>2
<1>5. Continued
      BY <1>3, <1>4 DEF Continued, OnceInv
<1> QED BY <1>3, <1>4, <1>5

\* A callback or a stop claims nothing new.
LEMMA OnceCallback ==
    ASSUME TypeInv, OnceInv, UNCHANGED <<extnav, effects, sent, requests>>,
           job' \in {job, Stopped(job), Stopped(Stopped(job))},
           pending' = pending \/ pending' = NoCandidate
    PROVE  OnceInv'
<1>1. job'.phase = job.phase /\ (Running' <=> Running) /\ TypeOK
      BY StoppedFacts DEF TypeInv, Running
<1>2. job \in Work => /\ job'.candidate = job.candidate /\ job'.retry = job.retry
                      /\ job'.verdict = job.verdict
      BY StoppedFacts DEF Work
<1>3. Claiming' => Running /\ job.phase # "done"
      BY <1>1 DEF Claiming
<1>4. Claiming' => job \in Work
      BY <1>1, <1>3, Shape DEF Active
<1>5. Claiming' => Claiming /\ job'.candidate = job.candidate
      BY <1>1, <1>2, <1>4 DEF Claiming
<1>6. Latched' => Latched /\ UNCHANGED pending
      BY <1>1 DEF Latched, NoCandidate
<1> QED BY <1>5, <1>6, OnceStays

LEMMA OnceStep == TypeInv /\ ViewInv /\ OnceInv /\ [Next]_vars => OnceInv'
<1> SUFFICES ASSUME TypeInv, ViewInv, OnceInv, [Next]_vars PROVE OnceInv'
    OBVIOUS
<1>0. TypeOK
      BY DEF TypeInv
<1>1. CASE UNCHANGED vars
      BY <1>1, OnceCallback DEF vars, bridgeVars, serviceVars
<1>2. CASE BridgeMoves
      BY <1>2, BridgeOnce
<1>3. CASE Callbacks
  <2>1. UNCHANGED bridgeVars /\ UNCHANGED sent
        BY <1>3 DEF Callbacks, ReceiveStatus, OdometryFault, LeaseLapses, Expire
  <2>2. pending' = pending \/ pending' = NoCandidate
        BY <1>3 DEF Callbacks, ReceiveStatus, OdometryFault, LeaseLapses, Expire, Discard
  <2>3. job' \in {job, Stopped(job), Stopped(Stopped(job))}
    <3>1. CASE \E i \in BOOLEAN : OdometryFault(i)
          BY <3>1 DEF OdometryFault, Capturing, Stopped
    <3>2. CASE ReceiveStatus \/ LeaseLapses \/ Expire
          BY <3>2 DEF ReceiveStatus, LeaseLapses, Expire, StoppedFor
    <3> QED BY <1>3, <3>1, <3>2 DEF Callbacks
  <2> QED BY <2>1, <2>2, <2>3, OnceCallback DEF bridgeVars
<1>4. CASE Claims
      BY <1>4, OnceCallback DEF Claims, Acquire, Release, Stop, StoppedFor, bridgeVars
<1>5. CASE Writes
  <2>1. ASSUME NEW s \in Source, NEW tag \in Tag, NEW apply \in BOOLEAN, Start(s, tag, apply)
        PROVE  OnceInv'
    <3>1. /\ UNCHANGED <<extnav, effects, sent, requests, pending>> /\ pending = NoCandidate
          /\ job'.phase = "gather" /\ ~job'.retry
          BY <2>1 DEF Start, Begin, Admits, bridgeVars
    <3>2. ~Claiming' /\ ~Latched'
          BY <3>1 DEF Claiming, Latched, AtBridge, NoCandidate
    <3> QED BY <3>1, <3>2, OnceStays
  <2>2. ASSUME NEW s \in Source, ClearWindow(s) PROVE OnceInv'
        BY <2>2, OnceCallback DEF ClearWindow, Discard, bridgeVars
  <2>3. ASSUME NEW s \in Source, ApplySaved(s) PROVE OnceInv'
    <3> DEFINE d == [Chosen EXCEPT !.revision = seen.revision]
    <3>1. /\ UNCHANGED <<extnav, effects, sent, requests, pending>>
          /\ Chosen # NoCandidate /\ Chosen.session = seen.session
          /\ pending # NoCandidate => NotOverwritten(pending)
          /\ Begin(s, NoTag, TRUE, pending # NoCandidate, d)
          /\ ~Running
          BY <2>3 DEF ApplySaved, bridgeVars, Chosen
    <3>2. Chosen \in Candidate
          BY <1>0, <3>1 DEF Chosen, TypeOK
    <3>3. /\ d.session = seen.session /\ d.revision = seen.revision
          /\ d.series = Chosen.series /\ d.id = Chosen.id
          BY <3>1, <3>2 DEF Candidate
    <3> HIDE DEF d
    <3>4. /\ job'.phase = "gather" /\ job'.candidate = d /\ job'.retry = (pending # NoCandidate)
          BY <3>1 DEF Begin
    <3>5. Claiming' => pending # NoCandidate
          BY <3>4 DEF Claiming, AtBridge
    <3>6. pending # NoCandidate => Latched /\ Chosen = pending
          BY <3>1 DEF Latched, Running, NoWork, Chosen
    <3>7. Latched' => Latched
          BY <3>1, <3>6 DEF Latched, NoCandidate
    <3>8. ASSUME pending # NoCandidate
          PROVE  /\ d.series <= Len(sent)
                 /\ Passed(d.series, d.session, d.revision, d.id)
      <4>1. /\ pending.series <= Len(sent)
            /\ Passed(pending.series, pending.session, pending.revision, pending.id)
            BY <3>6, <3>8 DEF OnceInv
      <4>2. /\ d.series = pending.series /\ d.id = pending.id /\ d.session = pending.session
            /\ d.session = seen.session /\ d.revision = seen.revision
            BY <3>1, <3>3, <3>6, <3>8
      <4>3. seen.revision = pending.revision \/ seen.correction = pending.id
            BY <3>1, <3>8 DEF NotOverwritten
      <4>4. Read(seen.session, seen.revision, seen.correction)
            BY DEF ViewInv
      <4>5. extnav.revision \in Nat /\ seen.revision \in Nat
            BY <1>0 DEF TypeOK, BridgeTypeOK, Status
      <4>6. CASE seen.revision = pending.revision
            BY <4>1, <4>2, <4>6
      <4>7. CASE seen.correction = pending.id
            BY <4>1, <4>2, <4>4, <4>5, <4>7 DEF Passed, Read, Older
      <4> QED BY <4>3, <4>6, <4>7
    <3>9. Continued
          BY <3>1 DEF OnceInv, Continued
    <3> QED BY <3>1, <3>4, <3>5, <3>7, <3>8, <3>9, OnceKept DEF OnceInv
  <2> QED BY <1>5, <2>1, <2>2, <2>3 DEF Writes
<1>6. ASSUME Active PROVE job \in Work /\ job.candidate \in Candidate
      BY <1>0, <1>6, Shape DEF Work
<1>7. CASE Gathers
  <2>1. /\ Active /\ UNCHANGED <<extnav, effects, sent, requests>>
        /\ job.phase \in {"gather", "frozen"} /\ Running
    <3>1. Running /\ job.phase \in {"gather", "frozen"} /\ UNCHANGED bridgeVars /\ UNCHANGED sent
          BY <1>7 DEF Gathers, Freeze, GatherFails, ReleaseFails, Capturing, SaveDryRun, Submit
    <3> QED BY <1>0, <3>1, Shape DEF bridgeVars
  <2>2. (Claiming <=> job.retry) /\ (Latched <=> pending # NoCandidate)
        BY <2>1 DEF Claiming, Latched, AtBridge
  <2>3. CASE Freeze
    <3>1. /\ job' = [job EXCEPT !.phase = "frozen", !.tag = NoTag, !.against = seen.correction,
                                !.candidate = Measured(job.candidate)]
          /\ UNCHANGED pending
          BY <2>3 DEF Freeze
    <3>2. /\ Measured(job.candidate).session = job.candidate.session
          /\ Measured(job.candidate).revision = job.candidate.revision
          /\ Measured(job.candidate).series = job.candidate.series
          /\ Measured(job.candidate).id = job.candidate.id
          BY <1>6, <2>1 DEF Measured, Candidate
    <3>3. /\ job'.phase = "frozen" /\ job'.retry = job.retry
          /\ job'.candidate = Measured(job.candidate)
          BY <1>6, <2>1, <3>1 DEF Work
    <3>4. (Claiming' => Claiming) /\ (Latched' => Latched)
          BY <2>2, <3>1, <3>3 DEF Claiming, Latched, AtBridge, NoCandidate
    <3> QED BY <2>1, <3>1, <3>2, <3>3, <3>4, OnceStays
  <2>4. CASE Submit
    <3>1. job' = [job EXCEPT !.phase = "submit"]
          BY <2>4 DEF Submit
    <3>2. /\ job'.phase = "submit" /\ job'.candidate = job.candidate /\ job'.retry = job.retry
          BY <1>6, <2>1, <3>1 DEF Work
    <3>3. (Claiming' => Claiming) /\ ~Latched'
          BY <2>2, <3>2 DEF Claiming, Latched, AtBridge
    <3> QED BY <2>1, <3>2, <3>3, OnceStays
  <2>5. CASE GatherFails \/ ReleaseFails \/ SaveDryRun
    <3>1. Finish /\ UNCHANGED pending
          BY <2>5 DEF GatherFails, ReleaseFails, SaveDryRun
    <3>2. ~Claiming' /\ (Latched' => Latched)
          BY <2>2, <3>1, FinishFacts DEF NoCandidate
    <3> QED BY <2>1, <3>1, <3>2, OnceStays
  <2> QED BY <1>7, <2>3, <2>4, <2>5 DEF Gathers
<1>8. CASE Applies
  <2>1. /\ Active /\ Running /\ UNCHANGED <<extnav, effects>>
        /\ job.phase \in {"submit", "wait", "reconcile"}
    <3>1. /\ Running /\ job.phase \in {"submit", "wait", "reconcile"}
          /\ UNCHANGED <<extnav, effects>>
          BY <1>8 DEF Applies, Withhold, Send, ReceiveAnswer, AnswerTimesOut, Confirm,
                      ReconcileTimesOut, bridgeVars
    <3> QED BY <1>0, <3>1, Shape
  <2>2. Onward
        BY <1>6, <1>8, <2>1, AppliesOnward
  <2>3. ~Latched'
        BY <2>2 DEF Onward, Latched
  <2>4. ASSUME NEW raised \in BOOLEAN, Send(raised) PROVE OnceInv'
    <3> DEFINE n == Len(sent) + 1
               k == IF job.retry THEN job.candidate.series ELSE n
               c == [job.candidate EXCEPT !.series = k]
               q == [send |-> n, against |-> job.against,
                     job |-> c.id, session |-> c.session, revision |-> c.revision]
               e == [series |-> k, job |-> c.id, verdict |-> "open"]
    <3>1. /\ requests' \subseteq requests \cup {q} /\ job.phase = "submit"
          /\ sent' = Append(sent, e) /\ n <= MaxSends
          /\ job' = [job EXCEPT !.candidate = c, !.send = n,
                        !.phase = IF raised THEN "settle" ELSE "wait",
                        !.verdict = IF raised THEN "unknown" ELSE "open"]
          BY <2>4 DEF Send
    <3>2. /\ c.id = job.candidate.id /\ c.session = job.candidate.session
          /\ c.revision = job.candidate.revision /\ c.series = k /\ c \in Candidate
      <4>1. k \in 0..MaxSends
        <5>1. job.candidate.series \in 0..MaxSends
              BY <1>6, <2>1 DEF Candidate
        <5>2. n \in 0..MaxSends
              BY <1>0, <3>1, SentTypes, LimitTypes
        <5> QED BY <5>1, <5>2
      <4> QED BY <1>6, <2>1, <4>1 DEF Candidate
    <3>3. /\ q.send = n /\ q.job = c.id /\ q.session = c.session /\ q.revision = c.revision
          OBVIOUS
    <3>4. e.series = k
          OBVIOUS
    <3>a. n = Len(sent) + 1 /\ k = IF job.retry THEN job.candidate.series ELSE n
          OBVIOUS
    <3>5. Spent \subseteq {sent[m].series : m \in DOMAIN sent}
          BY DEF OnceInv, Spent
    <3> HIDE DEF c, q, e, n, k
    <3>6. /\ Len(sent) \in Nat /\ n \in Nat /\ n = Len(sent) + 1 /\ DOMAIN sent = 1..Len(sent)
          /\ \A m \in DOMAIN sent : m \in Nat /\ sent[m].series \in Nat /\ sent[m].series <= m
          BY <1>0, <3>a, SentTypes DEF OnceInv
    <3>7. k <= n
      <4>1. job.retry => Claiming
            BY <2>1 DEF Claiming
      <4>2. job.retry => job.candidate.series <= Len(sent) /\ job.candidate.series \in Nat
            BY <1>6, <2>1, <4>1 DEF OnceInv, Candidate
      <4> QED BY <3>6, <3>a, <4>2
    <3>8. Passed(k, c.session, c.revision, c.id)
      <4>1. CASE job.retry
        <5>1. Claiming /\ k = job.candidate.series
              BY <2>1, <3>a, <4>1 DEF Claiming
        <5> QED BY <3>2, <5>1 DEF OnceInv
      <4>2. CASE ~job.retry
        <5>1. \A m \in DOMAIN sent : sent[m].series # n
              BY <3>6
        <5>2. k \notin Spent
              BY <3>5, <3>a, <4>2, <5>1
        <5> QED BY <5>2 DEF Passed
      <4> QED BY <4>1, <4>2
    <3>9. /\ Len(sent') = n /\ DOMAIN sent' = 1..n
          /\ \A m \in 1..Len(sent) : sent'[m] = sent[m]
          /\ sent'[n] = e
      <4>1. sent \in Seq([series : 1..MaxSends, job : Job, verdict : Verdict])
            BY <1>0 DEF TypeOK
      <4> QED BY <3>1, <3>6, <4>1
    <3>10. Continued
      <4>1. \A m \in DOMAIN sent : m \in DOMAIN sent' /\ sent'[m].series = sent[m].series
            BY <3>6, <3>9
      <4>2. \A m \in DOMAIN sent' : sent'[m].series <= m
        <5>1. \A m \in DOMAIN sent' : m \in DOMAIN sent \/ m = n
              BY <3>6, <3>9
        <5> QED BY <3>4, <3>6, <3>7, <3>9, <4>1, <5>1
      <4> QED BY <4>1, <4>2 DEF Continued
    <3>11. /\ n \in DOMAIN sent' /\ sent'[n].series = k
           BY <3>4, <3>6, <3>9
    <3>12. job'.candidate = c
           BY <1>6, <2>1, <3>1 DEF Work
    <3>13. \A r \in requests' : \/ r \in requests
                                \/ /\ r.send \in DOMAIN sent'
                                   /\ Passed(sent'[r.send].series, r.session, r.revision, r.job)
           BY <3>1, <3>3, <3>8, <3>11
    <3> QED BY <2>1, <2>3, <3>2, <3>7, <3>8, <3>9, <3>10, <3>12, <3>13, OnceKept
  <2>5. CASE UNCHANGED sent
    <3>1. requests' \subseteq requests
      <4>1. ASSUME NEW raised \in BOOLEAN, Send(raised) PROVE FALSE
        <5>1. /\ Len(sent') = Len(sent) + 1 /\ Len(sent) \in Nat
              BY <1>0, <4>1, SentTypes DEF Send, TypeOK
        <5> QED BY <2>5, <5>1
      <4> QED BY <1>8, <4>1 DEF Applies, Withhold, ReceiveAnswer, AnswerTimesOut, Confirm,
                                ReconcileTimesOut, bridgeVars
    <3>2. Claiming' => Claiming /\ job'.candidate.series = job.candidate.series
      <4>1. \A v, w : Settle(v, w) => /\ job'.candidate = job.candidate
                                      /\ job'.verdict = v /\ job'.phase = "settle"
            BY <1>6, <2>1 DEF Settle, Work
      <4>2. Refusal = "unknown" => job.retry
            BY DEF Refusal
      <4>3. CASE Withhold
        <5>1. /\ job'.candidate = job.candidate /\ job'.verdict = Refusal
              /\ job'.phase = "settle" /\ job.phase = "submit"
          <6>1. Settle(Refusal, -1) /\ job.phase = "submit"
                BY <4>3 DEF Withhold
          <6> QED BY <4>1, <6>1
        <5>2. job'.retry = job.retry
              BY <2>2 DEF Onward
        <5>3. Claiming' => job.retry
          <6>1. Claiming' => job'.phase = "submit" \/ job'.retry \/ job'.verdict = "unknown"
                             \/ job'.phase \in AtBridge
                BY DEF Claiming
          <6> QED BY <4>2, <5>1, <5>2 DEF Claiming, AtBridge
        <5>4. job.retry => Claiming
              BY <2>1, <5>1 DEF Claiming
        <5> QED BY <5>1, <5>3, <5>4
      <4>4. CASE \E a \in answers : ReceiveAnswer(a)
        <5>1. job.phase = "wait" /\ job'.candidate = job.candidate
          <6>1. PICK a \in answers : ReceiveAnswer(a)
                BY <4>4
          <6>2. \/ job' = [job EXCEPT !.phase = "reconcile", !.acked = a.revision]
                \/ Settle("applied", a.revision) \/ Settle(Refusal, -1)
                BY <6>1 DEF ReceiveAnswer
          <6>3. [job EXCEPT !.phase = "reconcile", !.acked = a.revision].candidate = job.candidate
                BY <1>6, <2>1 DEF Work
          <6> QED BY <4>1, <6>1, <6>2, <6>3 DEF ReceiveAnswer
        <5> QED BY <2>1, <5>1 DEF Claiming, AtBridge
      <4>5. CASE AnswerTimesOut
        <5>1. job' = [job EXCEPT !.phase = "reconcile"] /\ job.phase = "wait"
              BY <4>5 DEF AnswerTimesOut
        <5>2. job'.candidate = job.candidate
              BY <1>6, <2>1, <5>1 DEF Work
        <5> QED BY <2>1, <5>1, <5>2 DEF Claiming, AtBridge
      <4>6. CASE Confirm \/ ReconcileTimesOut
        <5>1. job.phase = "reconcile" /\ job'.candidate = job.candidate
              BY <4>1, <4>6 DEF Confirm, ReconcileTimesOut
        <5> QED BY <2>1, <5>1 DEF Claiming, AtBridge
      <4>7. ASSUME NEW raised \in BOOLEAN, Send(raised) PROVE FALSE
        <5>1. /\ Len(sent') = Len(sent) + 1 /\ Len(sent) \in Nat
              BY <1>0, <4>7, SentTypes DEF Send, TypeOK
        <5> QED BY <2>5, <5>1
      <4> QED BY <1>8, <4>3, <4>4, <4>5, <4>6, <4>7 DEF Applies
    <3> QED BY <2>1, <2>2, <2>3, <2>5, <3>1, <3>2, OnceStays DEF Onward
  <2>6. UNCHANGED sent \/ \E raised \in BOOLEAN : Send(raised)
        BY <1>8 DEF Applies, Withhold, ReceiveAnswer, AnswerTimesOut, Confirm, ReconcileTimesOut
  <2> QED BY <2>4, <2>5, <2>6
<1>9. CASE Account
  <2>1. /\ Active /\ Running /\ job.phase = "settle" /\ Finish
        /\ UNCHANGED <<extnav, effects, requests>>
    <3>1. Running /\ job.phase = "settle" /\ Finish /\ UNCHANGED bridgeVars
          BY <1>9 DEF Account
    <3> QED BY <1>0, <3>1, Shape DEF bridgeVars
  <2>2. ~Claiming' /\ (Latched' <=> pending' # NoCandidate)
        BY <2>1, FinishFacts DEF NoCandidate
  <2>3. pending' # NoCandidate => pending' = job.candidate /\ Claiming
    <3>1. job.verdict \in {"applied", "rejected", "unknown"}
          BY <1>0, <1>6, <2>1 DEF TypeInv, SettleInv, Work, Verdict
    <3>2. job.verdict = "unknown" => Claiming
          BY <2>1 DEF Claiming
    <3> QED BY <1>9, <3>1, <3>2 DEF Account
  <2>4. Continued /\ Len(sent') = Len(sent)
        BY <1>0, <1>9, AccountKeeps
  <2>5. ASSUME pending' # NoCandidate
        PROVE  /\ pending'.series <= Len(sent)
               /\ Passed(pending'.series, pending'.session, pending'.revision, pending'.id)
        BY <2>3, <2>5 DEF OnceInv
  <2> QED BY <2>1, <2>2, <2>4, <2>5, OnceKept
<1>10. CASE ThreadEnds
  <2>1. /\ ~Running' /\ UNCHANGED <<extnav, effects, sent, requests, pending>>
        /\ job.phase = "done"
        BY <1>10 DEF ThreadEnds, Running, bridgeVars
  <2>2. ~Claiming' /\ (Latched' => Latched)
        BY <2>1 DEF Claiming, Latched, NoCandidate
  <2> QED BY <2>1, <2>2, OnceStays
<1>11. CASE Restart
  <2>1. /\ ~Running' /\ pending' = NoCandidate' /\ UNCHANGED <<extnav, effects, sent, requests>>
        BY <1>11 DEF Restart, Running, NoCandidate
  <2>2. ~Claiming' /\ ~Latched'
        BY <2>1 DEF Claiming, Latched
  <2> QED BY <2>1, <2>2, OnceStays
<1> QED BY <1>0, <1>1, <1>2, <1>3, <1>4, <1>5, <1>7, <1>8, <1>9, <1>10, <1>11, NextCases

\* A step that is not the bridge's lets every send be what it was but for its verdict.
LEMMA SentStays ==
    ASSUME TypeInv, OnceInv, [Next]_vars, ~BridgeMoves
    PROVE  /\ UNCHANGED <<extnav, effects>>
           /\ \A n \in DOMAIN sent : /\ n \in DOMAIN sent'
                                     /\ sent'[n].series = sent[n].series
                                     /\ sent'[n].job = sent[n].job
<1>0. TypeOK
      BY DEF TypeInv
<1>1. CASE UNCHANGED vars
      BY <1>1 DEF vars, bridgeVars, serviceVars
<1>2. CASE Callbacks
      BY <1>2 DEF Callbacks, ReceiveStatus, OdometryFault, LeaseLapses, Expire, bridgeVars
<1>3. CASE Claims
      BY <1>3 DEF Claims, Acquire, Release, Stop, bridgeVars
<1>4. CASE Writes
      BY <1>4 DEF Writes, Start, ClearWindow, ApplySaved, bridgeVars
<1>5. CASE Gathers
      BY <1>5 DEF Gathers, Freeze, GatherFails, ReleaseFails, SaveDryRun, Submit, bridgeVars
<1>6. CASE Applies
  <2>1. ASSUME NEW raised \in BOOLEAN, Send(raised)
        PROVE  /\ UNCHANGED <<extnav, effects>>
               /\ \A n \in DOMAIN sent : n \in DOMAIN sent' /\ sent'[n] = sent[n]
    <3>1. sent \in Seq([series : 1..MaxSends, job : Job, verdict : Verdict])
          BY <1>0 DEF TypeOK
    <3>2. /\ UNCHANGED <<extnav, effects>>
          /\ sent' = Append(sent, [series |-> IF job.retry THEN job.candidate.series
                                              ELSE Len(sent) + 1,
                                   job |-> [job.candidate EXCEPT !.series =
                                              IF job.retry THEN job.candidate.series
                                              ELSE Len(sent) + 1].id,
                                   verdict |-> "open"])
          BY <2>1 DEF Send
    <3>3. /\ DOMAIN sent' = 1..(Len(sent) + 1) /\ DOMAIN sent = 1..Len(sent)
          /\ Len(sent) \in Nat /\ \A n \in 1..Len(sent) : sent'[n] = sent[n]
          BY <3>1, <3>2
    <3> QED BY <3>2, <3>3
  <2>2. CASE \E raised \in BOOLEAN : Send(raised)
        BY <2>1, <2>2
  <2>3. CASE ~ \E raised \in BOOLEAN : Send(raised)
        BY <1>6, <2>3 DEF Applies, Withhold, ReceiveAnswer, AnswerTimesOut, Confirm,
                          ReconcileTimesOut, bridgeVars
  <2> QED BY <2>2, <2>3
<1>7. CASE Account
  <2>1. UNCHANGED <<extnav, effects>>
        BY <1>7 DEF Account, bridgeVars
  <2> QED BY <1>0, <1>7, <2>1, AccountKeeps
<1>8. CASE ThreadEnds \/ Restart
      BY <1>8 DEF ThreadEnds, Restart, bridgeVars
<1> QED BY <1>0, <1>1, <1>2, <1>3, <1>4, <1>5, <1>6, <1>7, <1>8, NextCases

\* The correction of a job is that of the effect before.
LEMMA InForceTypes ==
    ASSUME TypeOK, OnceInv, extnav.correction \in Job
    PROVE  Len(effects) \in DOMAIN effects /\ effects[Len(effects)] \in DOMAIN sent
<1>1. effects # <<>> /\ effects \in Seq(1..MaxSends)
      BY DEF OnceInv, TypeOK, BridgeTypeOK
<1>2. Len(effects) \in DOMAIN effects
      BY <1>1, EmptySeq, LenProperties
<1> QED BY <1>2 DEF OnceInv

(* ImplementsRegister: _set_correction of the bridge, with everything that *)
(* lies before it, lets each application take effect at most once, and     *)
(* only that or a fallback changes the correction in force.                *)
THEOREM RegisterRefinement == Spec => ImplementsRegister
<1>1. Init => Register!Init
  <2> SUFFICES ASSUME Init PROVE Register!Init
      OBVIOUS
  <2>1. effects = <<>> /\ extnav.correction = 0 /\ extnav.correction \notin Job
        BY BridgeAssumption DEF Init, BridgeInit, Identity, NoJob, Job
  <2>2. InForce = 0
        BY <2>1 DEF InForce
  <2>3. {sent[effects[i]].series : i \in DOMAIN effects} = {}
        BY <2>1
  <2> QED BY <2>2, <2>3 DEF Register!Init
<1>2. /\ TypeInv /\ OnceInv /\ OnceInv'
      /\ [Next]_vars
      => [Register!Next]_(Register!vars)
  <2> SUFFICES ASSUME TypeInv, OnceInv, OnceInv', [Next]_vars
               PROVE  \/ Register!Next
                      \/ InForce' = InForce /\ Spent' = Spent
      BY DEF Register!vars, Spent
  <2>0. TypeOK
        BY DEF TypeInv
  <2>1. CASE ~BridgeMoves
    <3>1. Continued /\ UNCHANGED <<extnav, effects>>
          BY <2>1, SentStays DEF Continued, OnceInv
    <3>2. Spent' = Spent
          BY <3>1, SpentKept
    <3>3. InForce' = InForce
      <4>1. CASE extnav.correction \in Job
        <5>1. effects[Len(effects)] \in DOMAIN sent
              BY <2>0, <4>1, InForceTypes
        <5> QED BY <3>1, <4>1, <5>1 DEF InForce, Continued
      <4>2. CASE extnav.correction \notin Job
            BY <3>1, <4>2 DEF InForce
      <4> QED BY <4>1, <4>2
    <3> QED BY <3>2, <3>3
  <2>2. CASE BridgeMoves
    <3>1. UNCHANGED sent
          BY <2>0, <2>2, BridgeMoved DEF BridgeMoves, serviceVars
    <3>2. CASE UNCHANGED effects
      <4>1. Spent' = Spent
            BY <3>1, <3>2 DEF Spent
      <4>2. CASE extnav'.correction = extnav.correction
            BY <3>1, <3>2, <4>1, <4>2 DEF InForce
      <4>3. CASE extnav'.correction \notin Job
            BY <4>1, <4>3 DEF InForce, Register!Next, Register!Drop, Spent
      <4>4. UNCHANGED effects /\ extnav'.correction \in Job
              => extnav'.correction = extnav.correction
        <5>1. ASSUME NEW r \in requests, effects' = Append(effects, r.send) PROVE FALSE
          <6>1. Len(effects') = Len(effects) + 1 /\ Len(effects) \in Nat
                BY <2>0, <3>1, <5>1, SpentGrows, SentTypes
          <6> QED BY <3>2, <6>1
        <5> QED BY <2>0, <2>2, <5>1, EffectStep
      <4> QED BY <3>2, <4>2, <4>3, <4>4
    <3>3. ASSUME NEW r \in requests, ~SameAsActive(r), Accepts(r),
                 effects' = Append(effects, r.send), extnav'.correction = r.job
          PROVE  Register!TakeEffect(sent[r.send].series) /\ sent[r.send].series \in 1..MaxSends
      <4>1. r.job \in Job /\ r.send \in DOMAIN sent /\ sent[r.send].series \in 1..MaxSends
            BY <2>0, SentTypes DEF TypeOK, BridgeTypeOK, Request, OnceInv
      <4>2. sent[r.send].series \notin Spent
            BY <2>0, <3>3, EffectNew
      <4>3. /\ Spent' = Spent \cup {sent[r.send].series}
            /\ effects'[Len(effects')] = r.send
            BY <2>0, <3>1, <3>3, SpentGrows
      <4>4. InForce' = sent[r.send].series
            BY <3>1, <3>3, <4>1, <4>3 DEF InForce
      <4> QED BY <4>1, <4>2, <4>3, <4>4 DEF Register!TakeEffect, Spent
    <3>4. CASE \E r \in requests : /\ ~SameAsActive(r) /\ Accepts(r)
                                    /\ effects' = Append(effects, r.send)
                                    /\ extnav'.correction = r.job
      <4>1. PICK r \in requests : /\ ~SameAsActive(r) /\ Accepts(r)
                                  /\ effects' = Append(effects, r.send)
                                  /\ extnav'.correction = r.job
            BY <3>4
      <4>2. Register!TakeEffect(sent[r.send].series) /\ sent[r.send].series \in 1..MaxSends
            BY <3>3, <4>1
      <4> QED BY <4>2 DEF Register!Next, Register!TakeEffect
    <3> QED BY <2>0, <2>2, <3>2, <3>4, EffectStep
  <2> QED BY <2>1, <2>2
<1> QED BY <1>1, <1>2, InitTypes, TypeStep, ViewInit, ViewStep, OnceInit, OnceStep, PTL
        DEF Spec, ImplementsRegister, Register!Spec

(* _set_correction and everything that may retry it: an application that   *)
(* was replaced or dropped does not come back into force.                  *)
THEOREM NothingRevives == Spec => Register!NoRevival
<1>1. [Register!Next]_(Register!vars)
      => [InForce' # InForce => InForce' = 0 \/ InForce' \notin Spent]_(Register!vars)
      BY DEF Register!Next, Register!vars, Register!TakeEffect, Register!Drop, Spent
<1> QED BY <1>1, RegisterRefinement, PTL
        DEF ImplementsRegister, Register!Spec, Register!NoRevival, Spent

-----------------------------------------------------------------------------
(* Accounts.                                                               *)

LEMMA AccountInit == Init => AccountInv
<1> SUFFICES ASSUME Init PROVE AccountInv
    OBVIOUS
<1>1. /\ job.phase = "idle" /\ ~Running /\ requests = {} /\ answers = {} /\ pending = NoCandidate
      /\ sent = <<>> /\ effects = <<>> /\ extnav.correction = 0 /\ seen.correction = 0
      BY DEF Init, BridgeInit, ServiceInit, NoWork, Running, Identity, NoJob
<1>2. ~Claiming /\ ~Latched /\ 0 \notin Job /\ Spent = {}
      BY <1>1, BridgeAssumption DEF Claiming, Latched, Job, Spent
<1> QED BY <1>1, <1>2 DEF AccountInv, EffectInv, RejectInv, FlightInv, WaitInv, JobInv,
                          Unsent, AtBridge

LEMMA AccountsTrue ==
    ASSUME TypeOK, OnceInv, AccountInv
    PROVE  AccountsAreTrue
<1> SUFFICES ASSUME NEW n \in DOMAIN sent
             PROVE  /\ sent[n].verdict = "applied" =>
                          \E i \in DOMAIN effects : sent[effects[i]].job = sent[n].job
                    /\ sent[n].verdict = "rejected" =>
                          \A i \in DOMAIN effects : sent[effects[i]].series # sent[n].series
    BY DEF AccountsAreTrue
<1>1. sent[n].verdict = "applied" => sent[n].job \in Effective
      BY DEF AccountInv, EffectInv
<1>2. sent[n].verdict = "rejected" => sent[n].series \in Rejected
      BY DEF Rejected
<1>3. Spent \cap Rejected = {}
      BY DEF AccountInv, RejectInv
<1> QED BY <1>1, <1>2, <1>3 DEF Effective, Spent

\* A step of the bridge answers a request, or leaves the requests alone.
LEMMA BridgeFacts ==
    ASSUME TypeOK, BridgeMoves
    PROVE  \/ /\ UNCHANGED <<requests, answers, effects>>
              /\ extnav'.correction \in Job => extnav'.correction = extnav.correction
           \/ \E r \in requests : SetCorrection(r, Awaited(r))
<1>1. CASE BridgeStep
  <2>1. UNCHANGED <<requests, answers, effects>>
        BY <1>1 DEF BridgeStep, BeginSession, LoseOdin, TransformFails, OtherClientWrites,
                    RestartBridge
  <2>2. ASSUME NEW r \in requests, effects' = Append(effects, r.send) PROVE FALSE
    <3>1. effects \in Seq(1..MaxSends) /\ r.send \in 1..MaxSends
          BY DEF TypeOK, BridgeTypeOK, Request
    <3>2. Len(effects') = Len(effects) + 1 /\ Len(effects) \in Nat
          BY <2>2, <3>1, AppendProperties, LenProperties
    <3> QED BY <2>1, <3>2
  <2> QED BY <2>1, <2>2, EffectStep
<1> QED BY <1>1 DEF BridgeMoves

\* The requests, the effects and the sends stay, whatever becomes of the job.
LEMMA SetsStay ==
    ASSUME UNCHANGED <<effects, sent, requests>>
    PROVE  /\ Effective' = Effective /\ Landed' = Landed /\ Possible' = Possible
           /\ Rejected' = Rejected /\ Spent' = Spent
BY DEF Effective, Landed, Possible, Rejected, Spent

LEMMA AccountStays ==
    ASSUME AccountInv, UNCHANGED <<extnav, effects, sent, requests>>, answers' \subseteq answers,
           seen'.correction \in {seen.correction, extnav.correction, NoJob},
           Claiming' => \/ Claiming /\ job'.candidate.series = job.candidate.series
                        \/ Latched /\ job'.candidate.series = pending.series,
           Latched' => \/ Latched /\ UNCHANGED pending
                       \/ Claiming /\ pending'.series = job.candidate.series,
           job'.phase = "wait" => /\ job.phase = "wait" /\ job'.send = job.send
                                  /\ job'.candidate = job.candidate,
           JobInv'
    PROVE  AccountInv'
<1>0. /\ Effective' = Effective /\ Landed' = Landed /\ Possible' = Possible
      /\ Rejected' = Rejected /\ Spent' = Spent /\ NoJob \notin Job
      BY SetsStay DEF NoJob, Job
<1>1. EffectInv'
      BY <1>0 DEF AccountInv, EffectInv
<1>2. RejectInv'
      BY <1>0 DEF AccountInv, RejectInv
<1>3. FlightInv'
      BY <1>0 DEF AccountInv, FlightInv
<1>4. WaitInv'
      BY DEF AccountInv, WaitInv
<1> QED BY <1>1, <1>2, <1>3, <1>4 DEF AccountInv

\* What an effect does to the sets.
LEMMA SetsOfEffect ==
    ASSUME TypeOK, OnceInv, NEW r \in requests, effects' = Append(effects, r.send),
           requests' = requests \ {r}, UNCHANGED sent, sent[r.send].job = r.job
    PROVE  /\ Effective' = Effective \cup {r.job} /\ Landed' = Landed \cup {r.send}
           /\ Possible' \subseteq Possible /\ Rejected' = Rejected
<1>1. /\ Len(effects) \in Nat /\ DOMAIN effects = 1..Len(effects) /\ effects \in Seq(1..MaxSends)
      /\ r.send \in 1..MaxSends
      BY SentTypes DEF TypeOK, BridgeTypeOK, Request
<1>2. /\ Len(effects') = Len(effects) + 1 /\ DOMAIN effects' = 1..(Len(effects) + 1)
      /\ \A i \in 1..Len(effects) : effects'[i] = effects[i]
      /\ effects'[Len(effects) + 1] = r.send
      BY <1>1, AppendProperties
<1>3. \A i \in DOMAIN effects' : i \in DOMAIN effects \/ i = Len(effects) + 1
      BY <1>1, <1>2
<1>4. DOMAIN effects \subseteq DOMAIN effects' /\ Len(effects) + 1 \in DOMAIN effects'
      BY <1>1, <1>2
<1>5. Landed' = Landed \cup {r.send}
  <2>1. \A n \in Landed' : n \in Landed \/ n = r.send
        BY <1>1, <1>2, <1>3 DEF Landed
  <2>2. \A n \in Landed : n \in Landed'
        BY <1>1, <1>2, <1>4 DEF Landed
  <2>3. r.send \in Landed'
        BY <1>2, <1>4 DEF Landed
  <2> QED BY <2>1, <2>2, <2>3
<1>6. Effective' = Effective \cup {r.job}
  <2>1. \A j \in Effective' : j \in Effective \/ j = r.job
        BY <1>1, <1>2, <1>3 DEF Effective
  <2>2. \A j \in Effective : j \in Effective'
        BY <1>1, <1>2, <1>4 DEF Effective
  <2>3. r.job \in Effective'
        BY <1>2, <1>4 DEF Effective
  <2> QED BY <2>1, <2>2, <2>3
<1>7. Possible' \subseteq Possible
      BY <1>5 DEF Possible
<1>8. Rejected' = Rejected
      BY DEF Rejected
<1> QED BY <1>5, <1>6, <1>7, <1>8

\* The answer that a request gets.
LEMMA AnswerFacts ==
    ASSUME TypeOK, NEW r \in requests, SetCorrection(r, Awaited(r))
    PROVE  /\ requests' = requests \ {r}
           /\ \/ /\ ~SameAsActive(r) /\ Accepts(r)
                 /\ effects' = Append(effects, r.send) /\ extnav'.correction = r.job
                 /\ \A a \in answers' : \/ a \in answers
                                        \/ /\ a.send = r.send /\ a.ok
                                           /\ a.session = r.session
                                           /\ a.revision = r.revision + 1
              \/ /\ UNCHANGED <<extnav, effects>>
                 /\ \A a \in answers' : \/ a \in answers
                                        \/ /\ a.send = r.send /\ a.ok = SameAsActive(r)
                                           /\ a.session = extnav.session
                                           /\ a.revision = extnav.revision
<1>1. extnav \in Status
      BY DEF TypeOK, BridgeTypeOK
<1>2. ASSUME NEW ok, NEW e, Answer(r, ok, e, Awaited(r)), NEW a \in answers', a \notin answers
      PROVE  a.send = r.send /\ a.ok = ok /\ a.session = e.session /\ a.revision = e.revision
      BY <1>2 DEF Answer
<1>3. CASE ~SameAsActive(r) /\ Accepts(r)
  <2> DEFINE e == [extnav EXCEPT !.revision = extnav.revision + 1, !.correction = r.job]
  <2>1. /\ requests' = requests \ {r} /\ extnav' = e /\ Answer(r, TRUE, e, Awaited(r))
        /\ effects' = Append(effects, r.send)
        BY <1>3 DEF SetCorrection
  <2>2. /\ e.session = r.session /\ e.revision = r.revision + 1 /\ e.correction = r.job
        BY <1>1, <1>3 DEF Status, Accepts
  <2> HIDE DEF e
  <2>3. ASSUME NEW a \in answers', a \notin answers
        PROVE  a.send = r.send /\ a.ok = TRUE /\ a.session = e.session /\ a.revision = e.revision
        BY <1>2, <2>1, <2>3
  <2> QED BY <1>3, <2>1, <2>2, <2>3
<1>4. CASE ~(~SameAsActive(r) /\ Accepts(r))
  <2>1. /\ requests' = requests \ {r} /\ UNCHANGED <<extnav, effects>>
        /\ Answer(r, SameAsActive(r), extnav, Awaited(r))
        BY <1>4 DEF SetCorrection
  <2> QED BY <1>2, <2>1
<1> QED BY <1>3, <1>4

LEMMA BridgeAccounts ==
    ASSUME TypeInv, ViewInv, OnceInv, OnceInv', AccountInv, BridgeMoves
    PROVE  AccountInv'
<1>0. TypeOK /\ UNCHANGED <<sent, job, pending, seen>>
      BY DEF TypeInv, BridgeMoves, serviceVars
<1>1. (Claiming' <=> Claiming) /\ (Latched' <=> Latched)
      BY <1>0 DEF Claiming, Running, Latched, NoCandidate
<1>2. CASE /\ UNCHANGED <<requests, answers, effects>>
           /\ extnav'.correction \in Job => extnav'.correction = extnav.correction
  <2>1. /\ Effective' = Effective /\ Landed' = Landed /\ Possible' = Possible
        /\ Rejected' = Rejected /\ Spent' = Spent
        BY <1>0, <1>2, SetsStay
  <2>2. EffectInv'
        BY <1>0, <1>2, <2>1 DEF AccountInv, EffectInv
  <2>3. RejectInv'
        BY <1>0, <1>1, <1>2, <2>1 DEF AccountInv, RejectInv
  <2>4. FlightInv'
        BY <1>0, <1>2, <2>1 DEF AccountInv, FlightInv
  <2>5. WaitInv'
        BY <1>0, <1>2 DEF AccountInv, WaitInv
  <2>6. JobInv'
        BY <1>0, <2>1 DEF AccountInv, JobInv
  <2> QED BY <2>2, <2>3, <2>4, <2>5, <2>6 DEF AccountInv
<1>3. ASSUME NEW r \in requests, SetCorrection(r, Awaited(r)) PROVE AccountInv'
  <2>0. /\ r.session # NoSession /\ sent[r.send].job = r.job /\ r.send \notin Landed
        /\ r.send \in DOMAIN sent /\ r.session \in Session /\ r.revision \in Nat
        /\ \A q \in requests : q.send = r.send => q = r
        BY <1>0 DEF AccountInv, FlightInv, OnceInv, TypeOK, BridgeTypeOK, Request
  <2>1. requests' = requests \ {r}
        BY <1>0, <1>3, AnswerFacts
  <2>2. /\ Effective \subseteq Effective' /\ Possible' \subseteq Possible
        /\ Landed' \subseteq Landed \cup {r.send} /\ Rejected' = Rejected
        /\ extnav'.correction \in Job => extnav'.correction \in Effective'
        /\ Spent' \subseteq Spent \cup {sent[r.send].series}
    <3>1. CASE effects' = Append(effects, r.send) /\ extnav'.correction = r.job
      <4>1. Spent' = Spent \cup {sent[r.send].series}
            BY <1>0, <3>1, SpentGrows
      <4> QED BY <1>0, <2>0, <2>1, <3>1, <4>1, SetsOfEffect
    <3>2. CASE UNCHANGED <<extnav, effects>>
      <4>1. /\ Effective' = Effective /\ Landed' = Landed /\ Rejected' = Rejected /\ Spent' = Spent
            BY <1>0, <3>2 DEF Effective, Landed, Rejected, Spent
      <4>2. Possible' \subseteq Possible
            BY <2>1, <4>1 DEF Possible
      <4> QED BY <3>2, <4>1, <4>2 DEF AccountInv, EffectInv
    <3> QED BY <1>0, <1>3, <3>1, <3>2, AnswerFacts
  <2>3. \A a \in answers' : \/ a \in answers
                            \/ /\ a.send = r.send
                               /\ a.ok => r.job \in Effective' /\ a.session = r.session
                                          /\ a.revision >= r.revision
                               /\ ~a.ok => r.send \notin Possible'
    <3>1. CASE /\ effects' = Append(effects, r.send)
               /\ \A a \in answers' : \/ a \in answers
                                      \/ /\ a.send = r.send /\ a.ok
                                         /\ a.session = r.session
                                         /\ a.revision = r.revision + 1
      <4>1. r.job \in Effective'
            BY <1>0, <2>0, <2>1, <3>1, SetsOfEffect
      <4> QED BY <2>0, <3>1, <4>1
    <3>2. CASE /\ UNCHANGED <<extnav, effects>>
               /\ \A a \in answers' : \/ a \in answers
                                      \/ /\ a.send = r.send /\ a.ok = SameAsActive(r)
                                         /\ a.session = extnav.session
                                         /\ a.revision = extnav.revision
      <4>1. SameAsActive(r) => /\ r.job \in Effective' /\ extnav.session = r.session
                               /\ extnav.revision >= r.revision
        <5>1. r.job \in Job /\ extnav.revision \in Nat
              BY <1>0 DEF TypeOK, BridgeTypeOK, Request, Status
        <5>2. Older(r.session, r.revision)
              BY DEF ViewInv, Read
        <5>3. Effective' = Effective
              BY <1>0, <3>2 DEF Effective
        <5> QED BY <2>0, <5>1, <5>2, <5>3 DEF SameAsActive, Older, AccountInv, EffectInv
      <4>2. r.send \notin Possible'
        <5>1. Landed' = Landed
              BY <3>2 DEF Landed
        <5> QED BY <2>0, <2>1, <5>1 DEF Possible
      <4> QED BY <3>2, <4>1, <4>2
    <3> QED BY <1>0, <1>3, <3>1, <3>2, AnswerFacts
  <2>4. EffectInv'
        BY <1>0, <2>2 DEF AccountInv, EffectInv
  <2>5. RejectInv'
        BY <1>0, <1>1, <2>1, <2>2 DEF AccountInv, RejectInv
  <2>6. FlightInv'
    <3>1. \A q \in requests' : /\ q.session # NoSession /\ sent[q.send].job = q.job
                               /\ q.send \notin Landed'
                               /\ \A p \in requests' : p.send = q.send => p = q
          BY <2>0, <2>1, <2>2 DEF AccountInv, FlightInv
    <3>2. \A a \in answers' : /\ a.send \in DOMAIN sent
                              /\ a.ok => sent[a.send].job \in Effective'
                              /\ ~a.ok => a.send \notin Possible'
          BY <2>0, <2>2, <2>3 DEF AccountInv, FlightInv
    <3> QED BY <1>0, <3>1, <3>2 DEF FlightInv
  <2>7. WaitInv'
    <3>1. CASE job.phase = "wait"
      <4>1. \A q \in requests' : q.send = job.send =>
                q.session = job.candidate.session /\ q.revision = job.candidate.revision
            BY <2>1, <3>1 DEF AccountInv, WaitInv
      <4>2. \A a \in answers' : a.send = job.send /\ a.ok =>
                a.session = job.candidate.session /\ a.revision >= job.candidate.revision
            BY <2>3, <3>1 DEF AccountInv, WaitInv
      <4> QED BY <1>0, <4>1, <4>2 DEF WaitInv
    <3>2. CASE job.phase # "wait"
          BY <1>0, <3>2 DEF WaitInv
    <3> QED BY <3>1, <3>2
  <2>8. JobInv'
        BY <1>0, <2>2 DEF AccountInv, JobInv
  <2> QED BY <2>4, <2>5, <2>6, <2>7, <2>8 DEF AccountInv
<1> QED BY <1>0, <1>2, <1>3, BridgeFacts

LEMMA SendFacts ==
    ASSUME TypeOK, job \in Work, NEW raised \in BOOLEAN, Send(raised)
    PROVE  /\ Len(sent) \in Nat /\ DOMAIN sent = 1..Len(sent)
           /\ Len(sent') = Len(sent) + 1 /\ DOMAIN sent' = 1..(Len(sent) + 1)
           /\ \A m \in 1..Len(sent) : sent'[m] = sent[m]
           /\ sent'[Len(sent) + 1].job = job.candidate.id
           /\ sent'[Len(sent) + 1].verdict = "open"
           /\ sent'[Len(sent) + 1].series = job'.candidate.series
           /\ job'.candidate.series = IF job.retry THEN job.candidate.series ELSE Len(sent) + 1
           /\ \E r : /\ requests' \in {requests, requests \cup {r}}
                     /\ r.send = Len(sent) + 1 /\ r.job = job.candidate.id
                     /\ r.session = job.candidate.session /\ r.session # NoSession
                     /\ r.revision = job.candidate.revision
           /\ UNCHANGED <<extnav, answers, effects, seen, pending>>
           /\ job.phase = "submit" /\ Running
           /\ job'.send = Len(sent) + 1 /\ job'.acked = job.acked
           /\ job'.phase = (IF raised THEN "settle" ELSE "wait")
           /\ job'.verdict = (IF raised THEN "unknown" ELSE "open")
<1> DEFINE n == Len(sent) + 1
           k == IF job.retry THEN job.candidate.series ELSE n
           c == [job.candidate EXCEPT !.series = k]
           r == [send |-> n, against |-> job.against,
                 job |-> c.id, session |-> c.session, revision |-> c.revision]
           e == [series |-> k, job |-> c.id, verdict |-> "open"]
<1>1. /\ requests' \in {requests \cup {r}} \cup (IF raised THEN {requests} ELSE {})
      /\ sent' = Append(sent, e)
      /\ job' = [job EXCEPT !.candidate = c, !.send = n,
                        !.phase = IF raised THEN "settle" ELSE "wait",
                        !.verdict = IF raised THEN "unknown" ELSE "open"]
      /\ UNCHANGED <<extnav, answers, effects, seen, pending>>
      /\ job.phase = "submit" /\ Running
      BY DEF Send
<1>2. Ready /\ SameBase(job.candidate)
      BY DEF Send, MaySend, CanApply
<1>3. /\ c.id = job.candidate.id /\ c.session = job.candidate.session
      /\ c.revision = job.candidate.revision /\ c.series = k
      BY DEF Work, Candidate
<1>4. /\ r.send = n /\ r.job = c.id /\ r.session = c.session /\ r.revision = c.revision
      /\ e.series = k /\ e.job = c.id /\ e.verdict = "open"
      OBVIOUS
<1>k. k = IF job.retry THEN job.candidate.series ELSE n
      OBVIOUS
<1>n. n = Len(sent) + 1
      OBVIOUS
<1> HIDE DEF c, r, e, k, n
<1>5. /\ job'.candidate = c /\ job'.send = n /\ job'.acked = job.acked
      /\ job'.phase = (IF raised THEN "settle" ELSE "wait")
      /\ job'.verdict = (IF raised THEN "unknown" ELSE "open")
      BY <1>1 DEF Work
<1>6. /\ Len(sent) \in Nat /\ DOMAIN sent = 1..Len(sent) /\ Len(sent') = n
      /\ DOMAIN sent' = 1..n /\ sent'[n] = e
      /\ \A m \in 1..Len(sent) : sent'[m] = sent[m]
  <2>1. sent \in Seq([series : 1..MaxSends, job : Job, verdict : Verdict])
        BY DEF TypeOK
  <2> QED BY <1>1, <1>n, <2>1
<1>7. r.session # NoSession
      BY <1>2, <1>3, <1>4 DEF Ready, SameBase
<1>8. \E q : /\ requests' \in {requests, requests \cup {q}}
             /\ q.send = n /\ q.job = job.candidate.id
             /\ q.session = job.candidate.session /\ q.session # NoSession
             /\ q.revision = job.candidate.revision
  <2>1. requests' \in {requests, requests \cup {r}}
        BY <1>1
  <2> QED BY <1>3, <1>4, <1>7, <2>1
<1>9. /\ sent'[n].job = job.candidate.id /\ sent'[n].verdict = "open"
      /\ sent'[n].series = job'.candidate.series
      /\ job'.candidate.series = k
      BY <1>3, <1>4, <1>5, <1>6
<1> QED BY <1>1, <1>5, <1>6, <1>8, <1>9, <1>k, <1>n

LEMMA SendAccounts ==
    ASSUME TypeInv, OnceInv, AccountInv, job \in Work, NEW raised \in BOOLEAN, Send(raised)
    PROVE  AccountInv'
<1> DEFINE n == Len(sent) + 1
           k == job'.candidate.series
<1>n. n = Len(sent) + 1
      OBVIOUS
<1>k. k = job'.candidate.series
      OBVIOUS
<1> HIDE DEF n, k
<1>0. TypeOK
      BY DEF TypeInv
<1>1. /\ Len(sent) \in Nat /\ DOMAIN sent = 1..Len(sent) /\ Len(sent') = n /\ DOMAIN sent' = 1..n
      /\ \A m \in 1..Len(sent) : sent'[m] = sent[m]
      /\ sent'[n].job = job.candidate.id /\ sent'[n].verdict = "open" /\ sent'[n].series = k
      /\ k = IF job.retry THEN job.candidate.series ELSE n
      /\ UNCHANGED <<extnav, answers, effects, seen, pending>>
      /\ job.phase = "submit" /\ Running
      /\ job'.send = n /\ job'.acked = job.acked
      /\ job'.phase = (IF raised THEN "settle" ELSE "wait")
      /\ job'.verdict = (IF raised THEN "unknown" ELSE "open")
      BY <1>0, <1>k, <1>n, SendFacts
<1>2. PICK r : /\ requests' \in {requests, requests \cup {r}}
               /\ r.send = n /\ r.job = job.candidate.id
               /\ r.session = job.candidate.session /\ r.session # NoSession
               /\ r.revision = job.candidate.revision
      BY <1>0, <1>n, SendFacts
<1>3. /\ job'.candidate.id = job.candidate.id /\ job'.retry = job.retry
      /\ job'.candidate.session = job.candidate.session
      /\ job'.candidate.revision = job.candidate.revision
      BY AppliesOnward DEF Applies, Onward
<1>4. /\ \A i \in DOMAIN effects : effects[i] \in DOMAIN sent /\ effects[i] # n
      /\ \A m \in DOMAIN sent : m \in Nat /\ m # n /\ m \in DOMAIN sent' /\ sent'[m] = sent[m]
      /\ \A m \in DOMAIN sent' : m \in DOMAIN sent \/ m = n
      BY <1>1, <1>n DEF OnceInv
<1>5. Effective' = Effective /\ Landed' = Landed /\ Spent' = Spent
      BY <1>1, <1>4 DEF Effective, Landed, Spent
<1>6. Rejected' = Rejected
      BY <1>1, <1>4 DEF Rejected
<1>7. k \notin Rejected
  <2>1. CASE job.retry
    <3>1. Claiming
          BY <1>1, <2>1 DEF Claiming
    <3> QED BY <1>1, <2>1, <3>1 DEF AccountInv, RejectInv
  <2>2. CASE ~job.retry
    <3>1. \A m \in DOMAIN sent : sent[m].series \in Nat /\ sent[m].series <= m /\ m < n
          BY <1>0, <1>1, <1>n, SentTypes DEF OnceInv
    <3> QED BY <1>1, <1>4, <2>2, <3>1 DEF Rejected
  <2> QED BY <2>1, <2>2
<1>8. \A q \in requests : q.send \in DOMAIN sent /\ q.send # n
      BY <1>4 DEF OnceInv
<1>9. \A a \in answers : a.send \in DOMAIN sent /\ a.send # n
      BY <1>4 DEF AccountInv, FlightInv
<1>10. EffectInv'
  <2>1. \A m \in DOMAIN sent' : sent'[m].verdict = "applied" => sent'[m].job \in Effective'
        BY <1>1, <1>4, <1>5 DEF AccountInv, EffectInv
  <2> QED BY <1>1, <1>5, <2>1 DEF AccountInv, EffectInv
<1>11. RejectInv'
  <2>1. \A q \in requests' : sent'[q.send].series \notin Rejected'
        BY <1>1, <1>2, <1>4, <1>6, <1>7, <1>8 DEF AccountInv, RejectInv
  <2>2. ~Latched'
        BY <1>1 DEF Latched
  <2> QED BY <1>5, <1>6, <1>7, <1>k, <2>1, <2>2 DEF AccountInv, RejectInv
<1>12. FlightInv'
  <2>1. \A q \in requests' : /\ q.session # NoSession /\ sent'[q.send].job = q.job
                             /\ q.send \notin Landed'
    <3>1. n \notin Landed'
          BY <1>4, <1>5 DEF Landed
    <3> QED BY <1>1, <1>2, <1>4, <1>5, <1>8, <3>1 DEF AccountInv, FlightInv
  <2>2. \A q, p \in requests' : p.send = q.send => p = q
        BY <1>2, <1>8 DEF AccountInv, FlightInv
  <2>3. \A a \in answers' : /\ a.send \in DOMAIN sent'
                            /\ a.ok => sent'[a.send].job \in Effective'
        BY <1>1, <1>4, <1>5, <1>9 DEF AccountInv, FlightInv
  <2>4. \A a \in answers' : ~a.ok => a.send \notin Possible'
    <3>1. Possible' \subseteq Possible \cup {n}
          BY <1>2, <1>5 DEF Possible
    <3> QED BY <1>1, <1>9, <3>1 DEF AccountInv, FlightInv
  <2> QED BY <2>1, <2>2, <2>3, <2>4 DEF FlightInv
<1>13. WaitInv'
      BY <1>1, <1>2, <1>3, <1>8, <1>9 DEF WaitInv
<1>14. JobInv'
  <2>1. job.acked = -1
        BY <1>1 DEF AccountInv, JobInv, Unsent
  <2>2. n # 0 /\ sent'[job'.send].job = job'.candidate.id
        /\ (~job'.retry => sent'[job'.send].series = job'.send)
        BY <1>1, <1>3, <1>n
  <2> QED BY <1>1, <2>1, <2>2 DEF JobInv, Unsent, AtBridge
<1> QED BY <1>10, <1>11, <1>12, <1>13, <1>14 DEF AccountInv

LEMMA AccountAccounts ==
    ASSUME TypeInv, OnceInv, AccountInv, Account
    PROVE  AccountInv'
<1>0. TypeOK
      BY DEF TypeInv
<1>1. /\ Running /\ job.phase = "settle" /\ Finish
      /\ UNCHANGED <<extnav, answers, effects, requests, seen>>
      BY DEF Account, bridgeVars
<1>2. /\ DOMAIN sent' = DOMAIN sent
      /\ \A n \in DOMAIN sent :
            /\ sent'[n].series = sent[n].series /\ sent'[n].job = sent[n].job
            /\ sent'[n].verdict = IF job.send # 0 /\ n = job.send THEN job.verdict
                                  ELSE sent[n].verdict
      BY <1>0, AccountKeeps
<1>3. /\ \A i \in DOMAIN effects : effects[i] \in DOMAIN sent
      /\ \A q \in requests : q.send \in DOMAIN sent
      BY DEF OnceInv
<1>4. /\ Effective' = Effective /\ Landed' = Landed /\ Possible' = Possible /\ Spent' = Spent
      BY <1>1, <1>2, <1>3 DEF Effective, Landed, Possible, Spent
<1>5. ~Claiming' /\ job'.phase = "done" /\ (Latched' <=> pending' # NoCandidate')
      BY <1>1, FinishFacts
<1>6. job.verdict \in {"applied", "rejected", "unknown"}
  <2>1. job.verdict \in Verdict
        BY <1>0, <1>1, Shape DEF Work
  <2> QED BY <1>1, <2>1 DEF TypeInv, SettleInv, Verdict
<1>7. EffectInv'
  <2>1. \A n \in DOMAIN sent : sent'[n].verdict = "applied" => sent[n].job \in Effective
        BY <1>1, <1>2 DEF AccountInv, EffectInv, JobInv
  <2> QED BY <1>1, <1>2, <1>4, <2>1 DEF AccountInv, EffectInv
<1>8. RejectInv'
  <2>1. CASE job.send # 0 /\ job.verdict = "rejected"
    <3>1. /\ job.send = Len(sent) /\ sent[job.send].series = job.send
          /\ job.send \notin Possible
          BY <1>1, <2>1 DEF AccountInv, JobInv
    <3>2. Rejected' \subseteq Rejected \cup {job.send}
          BY <1>2, <3>1 DEF Rejected
    <3>3. \A m \in DOMAIN sent : sent[m].series = job.send => m = job.send
      <4>1. \A m \in DOMAIN sent : m \in Nat /\ sent[m].series \in Nat /\ sent[m].series <= m
                                   /\ m <= job.send /\ job.send \in Nat
            BY <1>0, <3>1, SentTypes DEF OnceInv
      <4> QED BY <4>1
    <3>4. job.send \notin Spent
          BY <1>3, <3>1, <3>3 DEF Spent, Possible, Landed
    <3>5. \A q \in requests : sent[q.send].series # job.send
          BY <1>3, <3>1, <3>3 DEF Possible
    <3>6. ~Latched'
          BY <1>5, <2>1 DEF Account, NoCandidate
    <3>7. \A q \in requests' : sent'[q.send].series \notin Rejected'
          BY <1>1, <1>2, <1>3, <3>2, <3>5 DEF AccountInv, RejectInv
    <3>8. Spent' \cap Rejected' = {}
          BY <1>4, <3>2, <3>4 DEF AccountInv, RejectInv
    <3> QED BY <1>5, <3>6, <3>7, <3>8 DEF RejectInv
  <2>2. CASE ~(job.send # 0 /\ job.verdict = "rejected")
    <3>1. Rejected' \subseteq Rejected
          BY <1>2, <2>2 DEF Rejected
    <3>2. Latched' => pending'.series \notin Rejected
      <4>1. job.verdict # "unknown" => pending' = NoCandidate
            BY <1>6 DEF Account
      <4>2. job.verdict = "unknown" => pending' = job.candidate
            BY DEF Account
      <4>3. job.verdict = "unknown" => Claiming
            BY <1>1 DEF Claiming
      <4> QED BY <1>5, <4>1, <4>2, <4>3 DEF AccountInv, RejectInv, NoCandidate
    <3>3. \A q \in requests' : sent'[q.send].series \notin Rejected'
          BY <1>1, <1>2, <1>3, <3>1 DEF AccountInv, RejectInv
    <3>4. Spent' \cap Rejected' = {}
          BY <1>4, <3>1 DEF AccountInv, RejectInv
    <3> QED BY <1>5, <3>1, <3>2, <3>3, <3>4 DEF RejectInv
  <2> QED BY <2>1, <2>2
<1>9. FlightInv'
  <2>1. \A q \in requests : sent'[q.send].job = sent[q.send].job
        BY <1>2, <1>3
  <2>2. \A a \in answers : /\ a.send \in DOMAIN sent' /\ sent'[a.send].job = sent[a.send].job
        BY <1>2 DEF AccountInv, FlightInv
  <2> QED BY <1>1, <1>4, <2>1, <2>2 DEF AccountInv, FlightInv
<1>10. WaitInv' /\ JobInv'
      BY <1>5 DEF WaitInv, JobInv, Unsent, AtBridge
<1> QED BY <1>7, <1>8, <1>9, <1>10 DEF AccountInv

\* A callback or a stop changes nothing that is accounted for.
LEMMA AccountCallback ==
    ASSUME TypeInv, AccountInv, UNCHANGED <<extnav, effects, sent, requests, answers>>,
           job' \in {job, Stopped(job), Stopped(Stopped(job))},
           seen'.correction \in {seen.correction, extnav.correction},
           pending' = pending \/ pending' = NoCandidate
    PROVE  AccountInv'
<1>1. /\ job'.phase = job.phase /\ (Running' <=> Running)
      /\ job' = job \/ (job \in Work /\ job' = [job EXCEPT !.stop = TRUE])
      BY StoppedFacts DEF TypeInv, Running
<1>2. job' = job \/ /\ job'.candidate = job.candidate /\ job'.retry = job.retry
                    /\ job'.verdict = job.verdict /\ job'.send = job.send
                    /\ job'.acked = job.acked
      BY <1>1 DEF Work
<1>3. (Claiming' => Claiming /\ job'.candidate = job.candidate) /\ (Latched' => Latched /\ UNCHANGED pending)
      BY <1>1, <1>2 DEF Claiming, Latched, NoCandidate
<1>4. JobInv'
  <2>1. Effective' = Effective /\ Possible' = Possible
        BY SetsStay
  <2>2. CASE job' = job
        BY <2>1, <2>2 DEF AccountInv, JobInv
  <2>3. CASE job' # job
        BY <1>1, <1>2, <2>1, <2>3 DEF AccountInv, JobInv
  <2> QED BY <2>2, <2>3
<1> QED BY <1>1, <1>2, <1>3, <1>4, AccountStays

\* The job is over, or there is none.
LEMMA AccountOver ==
    ASSUME AccountInv, UNCHANGED <<extnav, effects, sent, requests>>, answers' \subseteq answers,
           seen' = seen \/ seen' = Identity,
           job' = NoWork \/ job'.phase = "done",
           Latched' => Latched /\ UNCHANGED pending
    PROVE  AccountInv'
<1>1. ~Claiming'
      BY DEF Claiming, Running, NoWork, AtBridge
<1>2. JobInv'
      BY DEF JobInv, Unsent, AtBridge, NoWork
<1>3. job'.phase # "wait"
      BY DEF NoWork
<1> QED BY <1>1, <1>2, <1>3, AccountStays DEF Identity

LEMMA AccountStep ==
    TypeInv /\ ViewInv /\ OnceInv /\ OnceInv' /\ AccountInv /\ [Next]_vars => AccountInv'
<1> SUFFICES ASSUME TypeInv, ViewInv, OnceInv, OnceInv', AccountInv, [Next]_vars
             PROVE  AccountInv'
    OBVIOUS
<1>0. TypeOK
      BY DEF TypeInv
<1>1. CASE UNCHANGED vars
      BY <1>1, AccountCallback DEF vars, bridgeVars, serviceVars
<1>2. CASE BridgeMoves
      BY <1>2, BridgeAccounts
<1>3. CASE Callbacks
  <2>1. UNCHANGED bridgeVars /\ UNCHANGED sent
        BY <1>3 DEF Callbacks, ReceiveStatus, OdometryFault, LeaseLapses, Expire
  <2>2. pending' = pending \/ pending' = NoCandidate
        BY <1>3 DEF Callbacks, ReceiveStatus, OdometryFault, LeaseLapses, Expire, Discard
  <2>3. seen'.correction \in {seen.correction, extnav.correction}
        BY <1>3 DEF Callbacks, ReceiveStatus, OdometryFault, LeaseLapses, Expire
  <2>4. job' \in {job, Stopped(job), Stopped(Stopped(job))}
    <3>1. CASE \E i \in BOOLEAN : OdometryFault(i)
          BY <3>1 DEF OdometryFault, Capturing, Stopped
    <3>2. CASE ReceiveStatus \/ LeaseLapses \/ Expire
          BY <3>2 DEF ReceiveStatus, LeaseLapses, Expire, StoppedFor
    <3> QED BY <1>3, <3>1, <3>2 DEF Callbacks
  <2> QED BY <2>1, <2>2, <2>3, <2>4, AccountCallback DEF bridgeVars
<1>4. CASE Claims
      BY <1>4, AccountCallback DEF Claims, Acquire, Release, Stop, StoppedFor, bridgeVars
<1>5. CASE Writes
  <2>1. ASSUME NEW s \in Source, ClearWindow(s) PROVE AccountInv'
        BY <2>1, AccountCallback DEF ClearWindow, Discard, bridgeVars
  <2>2. ASSUME NEW s \in Source, NEW tag, NEW apply, NEW retry, NEW c,
               Begin(s, tag, apply, retry, c),
               UNCHANGED <<extnav, effects, sent, requests, answers, seen, pending>>, ~Running,
               retry => pending # NoCandidate /\ c.series = pending.series
        PROVE  AccountInv'
    <3>1. /\ job'.phase = "gather" /\ job'.send = 0 /\ job'.acked = -1
          /\ job'.retry = retry /\ job'.candidate = c
          BY <2>2 DEF Begin
    <3>2. JobInv'
          BY <3>1 DEF JobInv, Unsent, AtBridge
    <3>3. pending # NoCandidate => Latched
          BY <2>2 DEF Latched, Running, NoWork
    <3>4. /\ Claiming' => Latched /\ job'.candidate.series = pending.series
          /\ Latched' => Latched
          BY <2>2, <3>1, <3>3 DEF Claiming, AtBridge, Latched, NoCandidate
    <3> QED BY <2>2, <3>1, <3>2, <3>4, AccountStays
  <2>3. ASSUME NEW s \in Source, NEW tag \in Tag, NEW apply \in BOOLEAN, Start(s, tag, apply)
        PROVE  AccountInv'
    <3>1. /\ UNCHANGED <<extnav, effects, sent, requests, answers, seen, pending>> /\ ~Running
          /\ \E c : Begin(s, tag, apply, FALSE, c)
          BY <2>3 DEF Start, Admits, bridgeVars
    <3> QED BY <2>2, <3>1
  <2>4. ASSUME NEW s \in Source, ApplySaved(s) PROVE AccountInv'
    <3> DEFINE d == [Chosen EXCEPT !.revision = seen.revision]
    <3>1. /\ UNCHANGED <<extnav, effects, sent, requests, answers, seen, pending>>
          /\ Chosen # NoCandidate
          /\ Begin(s, NoTag, TRUE, pending # NoCandidate, d)
          /\ ~Running
          BY <2>4 DEF ApplySaved, bridgeVars, Chosen
    <3>2. Chosen \in Candidate
          BY <1>0, <3>1 DEF Chosen, TypeOK
    <3>3. d.series = Chosen.series
          BY <3>2 DEF Candidate
    <3> HIDE DEF d
    <3> QED BY <2>2, <3>1, <3>3 DEF Chosen
  <2> QED BY <1>5, <2>1, <2>3, <2>4 DEF Writes
<1>6. ASSUME Active PROVE job \in Work /\ job.candidate \in Candidate
      BY <1>0, <1>6, Shape DEF Work
<1>7. CASE Gathers
  <2>1. /\ Active /\ UNCHANGED <<extnav, effects, sent, requests, answers, seen>>
        /\ job.phase \in {"gather", "frozen"} /\ Running
    <3>1. /\ Running /\ job.phase \in {"gather", "frozen"}
          /\ UNCHANGED bridgeVars /\ UNCHANGED <<sent, seen>>
          BY <1>7 DEF Gathers, Freeze, GatherFails, ReleaseFails, Capturing, SaveDryRun, Submit
    <3> QED BY <1>0, <3>1, Shape DEF bridgeVars
  <2>2. (Claiming <=> job.retry) /\ (Latched <=> pending # NoCandidate)
        BY <2>1 DEF Claiming, Latched, AtBridge
  <2>3. job.send = 0 /\ job.acked = -1
        BY <2>1 DEF AccountInv, JobInv, Unsent
  <2>4. ASSUME job'.phase \in {"frozen", "submit"}, job'.send = job.send, job'.acked = job.acked,
               job'.retry = job.retry, job'.candidate.series = job.candidate.series,
               Latched' => UNCHANGED pending
        PROVE  AccountInv'
    <3>1. JobInv'
          BY <2>3, <2>4 DEF JobInv, Unsent, AtBridge
    <3>2. Claiming' => Claiming
          BY <2>2, <2>4 DEF Claiming, AtBridge
    <3>3. Latched' => Latched
          BY <2>2, <2>4 DEF Latched, NoCandidate
    <3> QED BY <2>1, <2>4, <3>1, <3>2, <3>3, AccountStays
  <2>5. CASE Freeze
    <3>1. /\ job' = [job EXCEPT !.phase = "frozen", !.tag = NoTag, !.against = seen.correction,
                                !.candidate = Measured(job.candidate)]
          /\ UNCHANGED pending
          BY <2>5 DEF Freeze
    <3>2. Measured(job.candidate).series = job.candidate.series
          BY <1>6, <2>1 DEF Measured, Candidate
    <3>3. /\ job'.phase = "frozen" /\ job'.retry = job.retry /\ job'.send = job.send
          /\ job'.acked = job.acked /\ job'.candidate = Measured(job.candidate)
          BY <1>6, <2>1, <3>1 DEF Work
    <3> QED BY <2>4, <3>1, <3>2, <3>3
  <2>6. CASE Submit
    <3>1. job' = [job EXCEPT !.phase = "submit"]
          BY <2>6 DEF Submit
    <3>2. /\ job'.phase = "submit" /\ job'.candidate = job.candidate /\ job'.retry = job.retry
          /\ job'.send = job.send /\ job'.acked = job.acked
          BY <1>6, <2>1, <3>1 DEF Work
    <3>3. ~Latched'
          BY <3>2 DEF Latched
    <3> QED BY <2>4, <3>2, <3>3
  <2>7. CASE GatherFails \/ ReleaseFails \/ SaveDryRun
    <3>1. Finish /\ UNCHANGED pending
          BY <2>7 DEF GatherFails, ReleaseFails, SaveDryRun
    <3>2. job'.phase = "done" /\ (Latched' => Latched)
          BY <2>2, <3>1, FinishFacts DEF NoCandidate
    <3> QED BY <2>1, <3>1, <3>2, AccountOver
  <2> QED BY <1>7, <2>5, <2>6, <2>7 DEF Gathers
<1>8. CASE Applies
  <2>1. /\ Active /\ Running /\ job.phase \in {"submit", "wait", "reconcile"}
        /\ UNCHANGED <<extnav, effects, seen, pending>>
    <3>1. /\ Running /\ job.phase \in {"submit", "wait", "reconcile"}
          /\ UNCHANGED <<extnav, effects, seen, pending>>
          BY <1>8 DEF Applies, Withhold, Send, ReceiveAnswer, AnswerTimesOut, Confirm,
                      ReconcileTimesOut, bridgeVars
    <3> QED BY <1>0, <3>1, Shape
  <2>2. job \in Work
        BY <1>6, <2>1
  <2>3. CASE \E raised \in BOOLEAN : Send(raised)
        BY <2>2, <2>3, SendAccounts
  <2>4. ASSUME UNCHANGED <<sent, requests>>, answers' \subseteq answers,
               job'.candidate = job.candidate, job'.retry = job.retry, job'.send = job.send,
               \/ /\ job'.phase = "reconcile" /\ job.phase = "wait" /\ job'.verdict = job.verdict
                  /\ job'.acked # -1 => job.candidate.id \in Effective
               \/ /\ job'.phase = "settle"
                  /\ job'.verdict = "applied" => job.candidate.id \in Effective
                  /\ job'.verdict = "rejected" =>
                        ~job.retry /\ (job.send # 0 => job.send \notin Possible)
                  /\ job'.verdict = "unknown" => job.retry \/ job.phase = "reconcile"
        PROVE  AccountInv'
    <3>1. Effective' = Effective /\ Possible' = Possible
          BY <2>1, <2>4, SetsStay
    <3>2. Claiming' => Claiming
          BY <2>1, <2>4 DEF Claiming, AtBridge
    <3>3. ~Latched'
          BY <2>4 DEF Latched
    <3>4. job.send # 0 => job.phase \in AtBridge
          BY <2>1 DEF AccountInv, JobInv, Unsent, AtBridge
    <3>5. job.phase \in AtBridge => job.send # 0
          BY DEF AccountInv, JobInv
    <3>6. job.send # 0 => /\ job.send = Len(sent) /\ sent[job.send].job = job.candidate.id
                          /\ ~job.retry => sent[job.send].series = job.send
          BY <3>4 DEF AccountInv, JobInv
    <3>7. JobInv'
      <4>1. CASE job'.phase = "reconcile"
            BY <2>4, <3>1, <3>5, <3>6, <4>1 DEF JobInv, Unsent, AtBridge
      <4>2. CASE job'.phase = "settle"
            BY <2>4, <3>1, <3>6, <4>2 DEF JobInv, Unsent, AtBridge
      <4> QED BY <2>4, <4>1, <4>2
    <3> QED BY <2>1, <2>4, <3>2, <3>3, <3>7, AccountStays
  <2>5. ASSUME NEW v, NEW w, Settle(v, w)
        PROVE  /\ job'.candidate = job.candidate /\ job'.retry = job.retry
               /\ job'.send = job.send /\ job'.phase = "settle" /\ job'.verdict = v
        BY <2>2, <2>5 DEF Settle, Work
  <2>6. /\ Refusal = "rejected" => ~job.retry
        /\ Refusal = "unknown" => job.retry
        /\ Refusal # "applied"
        BY DEF Refusal
  <2>7. CASE Withhold
    <3>1. /\ Settle(Refusal, -1) /\ job.phase = "submit"
          /\ UNCHANGED <<sent, requests, answers>>
          BY <2>7 DEF Withhold, bridgeVars
    <3>2. job.send = 0
          BY <3>1 DEF AccountInv, JobInv, Unsent
    <3> QED BY <2>4, <2>5, <2>6, <3>1, <3>2
  <2>8. CASE \E a \in answers : ReceiveAnswer(a)
    <3>1. PICK a \in answers : ReceiveAnswer(a)
          BY <2>8
    <3>2. /\ job.phase = "wait" /\ a.send = job.send
          /\ UNCHANGED <<sent, requests>> /\ answers' \subseteq answers
          BY <3>1 DEF ReceiveAnswer
    <3>3. a.ok => job.candidate.id \in Effective
          BY <3>2 DEF AccountInv, FlightInv, JobInv, AtBridge
    <3>4. ~a.ok => job.send \notin Possible
          BY <3>2 DEF AccountInv, FlightInv
    <3>5. a.ok => a.session = job.candidate.session /\ a.revision >= job.candidate.revision
          BY <3>2 DEF AccountInv, WaitInv
    <3>6. CASE job' = [job EXCEPT !.phase = "reconcile", !.acked = a.revision] /\ a.ok
      <4>1. /\ job'.candidate = job.candidate /\ job'.retry = job.retry /\ job'.send = job.send
            /\ job'.phase = "reconcile" /\ job'.verdict = job.verdict
            BY <2>2, <3>6 DEF Work
      <4> QED BY <2>4, <3>2, <3>3, <3>6, <4>1
    <3>7. CASE Settle("applied", a.revision) /\ a.ok
          BY <2>4, <2>5, <3>2, <3>3, <3>7
    <3>8. CASE Settle(Refusal, -1) /\ ~a.ok
          BY <2>4, <2>5, <2>6, <3>2, <3>4, <3>8
    <3> QED BY <3>1, <3>5, <3>6, <3>7, <3>8 DEF ReceiveAnswer
  <2>9. CASE AnswerTimesOut
    <3>1. /\ job' = [job EXCEPT !.phase = "reconcile"] /\ job.phase = "wait"
          /\ UNCHANGED <<sent, requests>> /\ answers' \subseteq answers
          BY <2>9 DEF AnswerTimesOut
    <3>2. /\ job'.candidate = job.candidate /\ job'.retry = job.retry /\ job'.send = job.send
          /\ job'.phase = "reconcile" /\ job'.verdict = job.verdict /\ job'.acked = job.acked
          BY <2>2, <3>1 DEF Work
    <3>3. job.acked # -1 => job.candidate.id \in Effective
          BY <3>1 DEF AccountInv, JobInv, AtBridge
    <3> QED BY <2>4, <3>1, <3>2, <3>3
  <2>10. CASE Confirm
    <3>1. /\ job.phase = "reconcile" /\ Settle("applied", seen.revision)
          /\ seen.correction = job.candidate.id /\ UNCHANGED <<sent, requests, answers>>
          BY <2>10 DEF Confirm, Matches, bridgeVars
    <3>2. job.candidate.id \in Job
          BY <1>6, <2>1 DEF Candidate
    <3>3. job.candidate.id \in Effective
          BY <3>1, <3>2 DEF AccountInv, EffectInv
    <3> QED BY <2>4, <2>5, <3>1, <3>3
  <2>11. CASE ReconcileTimesOut
    <3>1. /\ job.phase = "reconcile"
          /\ Settle(IF job.acked = -1 THEN "unknown" ELSE "applied", job.acked)
          /\ UNCHANGED <<sent, requests, answers>>
          BY <2>11 DEF ReconcileTimesOut, bridgeVars
    <3>2. job.acked # -1 => job.candidate.id \in Effective
          BY <3>1 DEF AccountInv, JobInv, AtBridge
    <3>3. CASE job.acked = -1
          BY <2>4, <2>5, <3>1, <3>3
    <3>4. CASE job.acked # -1
          BY <2>4, <2>5, <3>1, <3>2, <3>4
    <3> QED BY <3>3, <3>4
  <2> QED BY <1>8, <2>3, <2>7, <2>8, <2>9, <2>10, <2>11 DEF Applies
<1>9. CASE Account
      BY <1>9, AccountAccounts
<1>10. CASE ThreadEnds
  <2>1. /\ job' = NoWork /\ job.phase = "done"
        /\ UNCHANGED <<extnav, effects, sent, requests, answers, seen, pending>>
        BY <1>10 DEF ThreadEnds, bridgeVars
  <2>2. Latched' => Latched
        BY <2>1 DEF Latched, NoCandidate
  <2> QED BY <2>1, <2>2, AccountOver
<1>11. CASE Restart
  <2>1. /\ job' = NoWork /\ pending' = NoCandidate /\ answers' = {} /\ seen' = Identity
        /\ UNCHANGED <<extnav, effects, sent, requests>>
        BY <1>11 DEF Restart
  <2>2. ~Latched'
        BY <2>1 DEF Latched, NoCandidate
  <2> QED BY <2>1, <2>2, AccountOver
<1> QED BY <1>0, <1>1, <1>2, <1>3, <1>4, <1>5, <1>7, <1>8, <1>9, <1>10, <1>11, NextCases

(* AccountsAreTrue: what _apply_and_finalize accounts as applied did take  *)
(* effect at the bridge, and what it accounts as rejected never did in any *)
(* of its requests, whatever was late, lost, retried or restarted.         *)
THEOREM AccountsHold == Spec => []AccountsAreTrue
<1>1. TypeInv /\ OnceInv /\ AccountInv => AccountsAreTrue
      BY AccountsTrue DEF TypeInv
<1> QED BY <1>1, InitTypes, TypeStep, ViewInit, ViewStep, OnceInit, OnceStep,
           AccountInit, AccountStep, PTL DEF Spec
=============================================================================
