------------------------- MODULE UpstreamTellingProofs -------------------------
(***************************************************************************)
(* What the projector of UpstreamMission tells of a mission, and when.  A  *)
(* story is the sequence of the events accepted so far followed by those   *)
(* that the handler under way has put into out.  The module states the     *)
(* invariant Honest, which relates the story, the missions the projector   *)
(* holds, the results under way and what the vehicle has done, and proves  *)
(* of each method of the projector that it continues the story truthfully. *)
(* It stands on Sound and Ordered of UpstreamMissionProofs.                *)
(***************************************************************************)
EXTENDS UpstreamMissionProofs

(***************************************************************************)
(* The story.                                                              *)
(***************************************************************************)
\* What one event of the story says is so.
True08(e) == e.mission \in flights.landed
True09(e) ==
    /\ <<e.mission, e.point>> \in flights.reached /\ e.point \notin limit.plain
    /\ Simulated \/ media[e.mission].photo[e.point] = "ready"
Is(e) == (e.status = "08" => True08(e)) /\ (e.status = "09" => True09(e))

\* An event d may be told before e.
Before(d, e) ==
    /\ d.status = "08" /\ e.status = "08" => d.mission < e.mission
    /\ d.status = "09" /\ e.status = "09" /\ d.mission = e.mission => d.point < e.point

Tale(s) ==
    \A i \in 1..Len(s) : /\ Is(s[i])
                         /\ \A j \in 1..(i - 1) : Before(s[j], s[i])

\* Of ticket t the story has told no point beyond p; it has told no delivery from t on.
Upto(s, t, p) == \A i \in 1..Len(s) : s[i].status = "09" /\ s[i].mission = t => s[i].point <= p
Past(s, t) == \A i \in 1..Len(s) : s[i].status = "08" => s[i].mission < t

(***************************************************************************)
(* The missions the projector holds.                                       *)
(***************************************************************************)
\* Every point up to the one it has heard of has been reached, none beyond it is reported.
Visited(m) == \A i \in 1..m.reached : <<m.ticket, i>> \in flights.reached
Held(m, s) == Visited(m) /\ Upto(s, m.ticket, m.reported)

Rising(q) == \A i, j \in 1..Len(q) : i < j => q[i].ticket < q[j].ticket
Under(q, t) == \A i \in 1..Len(q) : q[i].ticket < t

\* Those that have landed wait in the order of their flights, behind those that only lack photos.
Landings(photos, waiting, s) ==
    /\ Rising(photos) /\ Rising(waiting)
    /\ \A i \in 1..Len(photos) : Held(photos[i], s)
    /\ \A i \in 1..Len(waiting) :
           /\ Held(waiting[i], s) /\ waiting[i].ticket \in flights.landed
           /\ Past(s, waiting[i].ticket) /\ Under(photos, waiting[i].ticket)

\* The mission that flies is newer than all of them; what it claims, the vehicle has done.
Claims(m, o) ==
    m.kind = "inspection" =>
        /\ o[m.ticket].command # NoCommand
        /\ m.flown => m.ticket \in flights.done /\ o[m.ticket].name = "waypoints"
        /\ m.landed => m.ticket \in flights.landed
Newest(m, photos, waiting, o, s) ==
    m.kind # "none" =>
        /\ Under(photos, m.ticket) /\ Under(waiting, m.ticket)
        /\ Held(m, s) /\ Past(s, m.ticket) /\ Claims(m, o)

(***************************************************************************)
(* The results under way: successes come in the order of their tickets,    *)
(* and after that of the mission that has flown.                           *)
(***************************************************************************)
Win(r) == r.ok /\ r.final /\ r.name # "clear_abnormal"
Later(q, t) == \A i \in 1..Len(q) : Win(q[i]) => t < q[i].ticket
Coming(q, m) ==
    /\ \A i, j \in 1..Len(q) : i < j /\ Win(q[i]) /\ Win(q[j]) => q[i].ticket < q[j].ticket
    /\ m.kind = "inspection" /\ m.flown => Later(q, m.ticket)

Kinded(q) == q.kind = "inspection" => q.command # NoCommand

\* The story s and the missions held; the station c, after the events of a.
Speaks(s, photos, waiting, m, o) ==
    Tale(s) /\ Landings(photos, waiting, s) /\ Newest(m, photos, waiting, o, s)
Telling(c, a) ==
    Speaks(a \o c.out, c.photos, c.waiting, c.mission, c.orders) /\ Kinded(c.seq)
Sincere(c, a) == Telling(c, a) /\ Coming(c.results, c.mission) /\ NoCommand \notin c.parked

(***************************************************************************)
(* What the vehicle and the camera have done.                              *)
(***************************************************************************)
\* The flights: a landing counts for every mission flown before it, a mission that succeeded
\* has reached all its points, and points are reached one after the other.
Chronicle(o) ==
    /\ \A t \in flights.landed : t \in flights.done /\ o[t].name = "waypoints"
    /\ \A w, r \in flights.done :
           w < r /\ o[w].name = "waypoints" /\ o[r].name = "land" => w \in flights.landed
    /\ \A w \in flights.done :
           o[w].name = "waypoints" /\ o[w].command # NoCommand
           => \A i \in 1..limit.points : <<w, i>> \in flights.reached
    /\ \A p \in flights.reached : \A i \in 1..p[2] : <<p[1], i>> \in flights.reached

\* The vehicle flies the newest ticket that anything was done for.
Pilot(o) ==
    /\ veh.ticket <= veh.last /\ \A t \in flights.done : t <= veh.ticket
    /\ veh.task # "none" => veh.ticket \notin flights.done /\ o[veh.ticket].name = veh.task
    /\ veh.task = "waypoints" =>
           \A i \in 1..(veh.point - 1) : <<veh.ticket, i>> \in flights.reached

\* A status shows points that have been reached: the last one, and those taken before a dialog.
Observable(s) ==
    s.mode = "waypoint" => \A i \in 1..(s.point - 1) : <<s.ticket, i>> \in flights.reached
Glanced(frames) == \A i \in 1..Len(frames) : frames[i].seen = snap \/ Observable(frames[i].seen)
Watched == Observable(snap) /\ Glanced(gcs.frames)

\* Only a captured photo can settle.
Filed == \A t \in Ticket : \A i \in Point :
             media[t].photo[i] # "pending" => i \in media[t].caught

World == Chronicle(gcs.orders) /\ Pilot(gcs.orders) /\ Watched /\ Filed
Honest == Sincere(gcs, accepted) /\ World

(***************************************************************************)
(* Sequences: what Within keeps, and what FlattenSeq joins.                *)
(***************************************************************************)
LEMMA ConcatAt ==
    ASSUME NEW A, NEW s \in Seq(A), NEW t \in Seq(A)
    PROVE  /\ s \o t \in Seq(A) /\ Len(s \o t) = Len(s) + Len(t)
           /\ Len(s) \in Nat /\ Len(t) \in Nat
           /\ \A i \in 1..Len(s) : (s \o t)[i] = s[i]
           /\ \A i \in 1..Len(t) : (s \o t)[Len(s) + i] = t[i]
           /\ \A i \in 1..Len(s \o t) :
                  i \in 1..Len(s) \/ \E k \in 1..Len(t) : i = Len(s) + k
<1>1. Len(s) \in Nat /\ Len(t) \in Nat
      BY LenProperties
<1>2. /\ s \o t \in Seq(A) /\ Len(s \o t) = Len(s) + Len(t)
      /\ \A i \in 1..(Len(s) + Len(t)) :
             (s \o t)[i] = IF i <= Len(s) THEN s[i] ELSE t[i - Len(s)]
      BY ConcatProperties
<1>3. ASSUME NEW i \in 1..Len(t) PROVE (s \o t)[Len(s) + i] = t[i]
  <2>1. Len(s) + i \in 1..(Len(s) + Len(t)) /\ ~(Len(s) + i <= Len(s)) /\ (Len(s) + i) - Len(s) = i
        BY <1>1
  <2> QED BY <1>2, <2>1
<1>4. ASSUME NEW i \in 1..Len(s \o t), i \notin 1..Len(s)
      PROVE  \E k \in 1..Len(t) : i = Len(s) + k
  <2>1. i - Len(s) \in 1..Len(t) /\ i = Len(s) + (i - Len(s))
        BY <1>1, <1>2, <1>4
  <2> QED BY <2>1
<1> QED BY <1>1, <1>2, <1>3, <1>4

LEMMA AppendAt ==
    ASSUME NEW A, NEW s \in Seq(A), NEW e \in A
    PROVE  /\ Append(s, e) \in Seq(A) /\ Len(s) \in Nat /\ Len(Append(s, e)) = Len(s) + 1
           /\ \A i \in 1..Len(s) : Append(s, e)[i] = s[i]
           /\ Append(s, e)[Len(s) + 1] = e
BY AppendProperties, LenProperties

\* What is kept was there, and what was there and is wanted is kept.
LEMMA WithinFrom ==
    ASSUME NEW A, NEW T
    PROVE  \A s \in Seq(A) :
               /\ \A i \in 1..Len(Within(s, T)) : \E x \in 1..Len(s) : s[x] = Within(s, T)[i]
               /\ \A x \in 1..Len(s) :
                      s[x] \in T => \E i \in 1..Len(Within(s, T)) : Within(s, T)[i] = s[x]
<1> DEFINE From(s, w) == \A i \in 1..Len(w) : \E x \in 1..Len(s) : s[x] = w[i]
           Onto(s, w) == \A x \in 1..Len(s) : s[x] \in T => \E i \in 1..Len(w) : w[i] = s[x]
           P == {s \in Seq(A) : From(s, Within(s, T)) /\ Onto(s, Within(s, T))}
<1>1. <<>> \in P
  <2>1. Within(<<>>, T) = <<>> /\ <<>> \in Seq(A) /\ Len(<<>>) = 0
        BY WithinEmpty, EmptySeq
  <2>2. From(<<>>, <<>>) /\ Onto(<<>>, <<>>)
        BY <2>1
  <2> HIDE DEF From, Onto
  <2> QED BY <2>1, <2>2
<1>2. \A s \in Seq(A), e \in A : s \in P => Append(s, e) \in P
  <2> SUFFICES ASSUME NEW s \in Seq(A), NEW e \in A, s \in P PROVE Append(s, e) \in P
      OBVIOUS
  <2> DEFINE w == Within(s, T)
             t == Append(s, e)
             v == Append(w, e)
  <2>1. w \in Seq(A) /\ From(s, w) /\ Onto(s, w)
    <3> HIDE DEF From, Onto
    <3> QED BY WithinSeq
  <2>2. Within(t, T) = IF e \in T THEN v ELSE w
        BY WithinAppend
  <2> HIDE DEF w
  <2>3. /\ t \in Seq(A) /\ Len(s) \in Nat /\ Len(t) = Len(s) + 1 /\ t[Len(s) + 1] = e
        /\ \A i \in 1..Len(s) : t[i] = s[i]
        BY AppendAt
  <2>4. /\ Len(w) \in Nat /\ Len(v) = Len(w) + 1 /\ v[Len(w) + 1] = e
        /\ \A i \in 1..Len(w) : v[i] = w[i]
        BY <2>1, AppendAt
  <2> HIDE DEF t, v
  <2>5. From(t, w)
        BY <2>1, <2>3
  <2>6. From(t, v)
    <3> SUFFICES ASSUME NEW i \in 1..Len(v) PROVE \E x \in 1..Len(t) : t[x] = v[i]
        OBVIOUS
    <3>1. CASE i = Len(w) + 1
      <4>1. Len(s) + 1 \in 1..Len(t)
            BY <2>3
      <4> QED BY <2>3, <2>4, <3>1, <4>1
    <3>2. CASE i # Len(w) + 1
      <4>1. i \in 1..Len(w)
            BY <2>4, <3>2
      <4> QED BY <2>4, <2>5, <4>1
    <3> QED BY <3>1, <3>2
  <2>7. e \notin T => Onto(t, w)
    <3> SUFFICES ASSUME e \notin T, NEW x \in 1..Len(t), t[x] \in T
                 PROVE  \E i \in 1..Len(w) : w[i] = t[x]
        OBVIOUS
    <3>1. x \in 1..Len(s)
          BY <2>3
    <3> QED BY <2>1, <2>3, <3>1
  <2>8. Onto(t, v)
    <3> SUFFICES ASSUME NEW x \in 1..Len(t), t[x] \in T
                 PROVE  \E i \in 1..Len(v) : v[i] = t[x]
        OBVIOUS
    <3>1. CASE x = Len(s) + 1
      <4>1. Len(w) + 1 \in 1..Len(v)
            BY <2>4
      <4> QED BY <2>3, <2>4, <3>1, <4>1
    <3>2. CASE x # Len(s) + 1
      <4>1. x \in 1..Len(s)
            BY <2>3, <3>2
      <4>2. PICK i \in 1..Len(w) : w[i] = s[x]
            BY <2>1, <2>3, <4>1
      <4>3. i \in 1..Len(v) /\ v[i] = w[i]
            BY <2>4
      <4> QED BY <2>3, <4>1, <4>2, <4>3
    <3> QED BY <3>1, <3>2
  <2> HIDE DEF From, Onto
  <2>9. From(t, Within(t, T)) /\ Onto(t, Within(t, T))
        BY <2>2, <2>5, <2>6, <2>7, <2>8
  <2> QED BY <2>3, <2>9 DEF t
<1> HIDE DEF P
<1>3. \A s \in Seq(A) : s \in P
      BY <1>1, <1>2, SeqInduction
<1> QED BY <1>3 DEF P

\* What is kept is kept in its order.
LEMMA WithinPairs ==
    ASSUME NEW A, NEW T
    PROVE  \A s \in Seq(A) : \A i, j \in 1..Len(Within(s, T)) :
               i < j => \E x, y \in 1..Len(s) : /\ x < y /\ s[x] = Within(s, T)[i]
                                                /\ s[y] = Within(s, T)[j]
<1> DEFINE Order2(s, w) == \A i, j \in 1..Len(w) :
               i < j => \E x, y \in 1..Len(s) : x < y /\ s[x] = w[i] /\ s[y] = w[j]
           P == {s \in Seq(A) : Order2(s, Within(s, T))}
<1>1. <<>> \in P
  <2>1. Within(<<>>, T) = <<>> /\ <<>> \in Seq(A) /\ Len(<<>>) = 0
        BY WithinEmpty, EmptySeq
  <2>2. Order2(<<>>, <<>>)
        BY <2>1
  <2> HIDE DEF Order2
  <2> QED BY <2>1, <2>2
<1>2. \A s \in Seq(A), e \in A : s \in P => Append(s, e) \in P
  <2> SUFFICES ASSUME NEW s \in Seq(A), NEW e \in A, s \in P PROVE Append(s, e) \in P
      OBVIOUS
  <2> DEFINE w == Within(s, T)
             t == Append(s, e)
             v == Append(w, e)
  <2>1. w \in Seq(A) /\ Order2(s, w) /\ \A i \in 1..Len(w) : \E x \in 1..Len(s) : s[x] = w[i]
    <3> HIDE DEF Order2
    <3> QED BY WithinSeq, WithinFrom
  <2>2. Within(t, T) = IF e \in T THEN v ELSE w
        BY WithinAppend
  <2> HIDE DEF w
  <2>3. /\ t \in Seq(A) /\ Len(s) \in Nat /\ Len(t) = Len(s) + 1 /\ t[Len(s) + 1] = e
        /\ \A i \in 1..Len(s) : t[i] = s[i]
        BY AppendAt
  <2>4. /\ Len(w) \in Nat /\ Len(v) = Len(w) + 1 /\ v[Len(w) + 1] = e
        /\ \A i \in 1..Len(w) : v[i] = w[i]
        BY <2>1, AppendAt
  <2> HIDE DEF t, v
  <2>5. Order2(t, w)
    <3> SUFFICES ASSUME NEW i \in 1..Len(w), NEW j \in 1..Len(w), i < j
                 PROVE  \E x, y \in 1..Len(t) : x < y /\ t[x] = w[i] /\ t[y] = w[j]
        OBVIOUS
    <3>1. PICK x \in 1..Len(s), y \in 1..Len(s) : x < y /\ s[x] = w[i] /\ s[y] = w[j]
          BY <2>1
    <3>2. x \in 1..Len(t) /\ y \in 1..Len(t) /\ t[x] = s[x] /\ t[y] = s[y]
          BY <2>3
    <3> QED BY <3>1, <3>2
  <2>6. Order2(t, v)
    <3> SUFFICES ASSUME NEW i \in 1..Len(v), NEW j \in 1..Len(v), i < j
                 PROVE  \E x, y \in 1..Len(t) : x < y /\ t[x] = v[i] /\ t[y] = v[j]
        OBVIOUS
    <3>0. i \in 1..Len(w) /\ v[i] = w[i]
          BY <2>4
    <3>1. CASE j = Len(w) + 1
      <4>1. PICK x \in 1..Len(s) : s[x] = w[i]
            BY <2>1, <3>0
      <4>2. x \in 1..Len(t) /\ Len(s) + 1 \in 1..Len(t) /\ x < Len(s) + 1 /\ t[x] = s[x]
            BY <2>3
      <4> QED BY <2>3, <2>4, <3>0, <3>1, <4>1, <4>2
    <3>2. CASE j # Len(w) + 1
      <4>1. j \in 1..Len(w) /\ v[j] = w[j]
            BY <2>4, <3>2
      <4> HIDE DEF Order2
      <4> QED BY <2>5, <3>0, <4>1 DEF Order2
    <3> QED BY <3>1, <3>2
  <2> HIDE DEF Order2
  <2>7. Order2(t, Within(t, T))
        BY <2>2, <2>5, <2>6
  <2> QED BY <2>3, <2>7 DEF t
<1> HIDE DEF P
<1>3. \A s \in Seq(A) : s \in P
      BY <1>1, <1>2, SeqInduction
<1> QED BY <1>3 DEF P

(***************************************************************************)
(* A story is continued.                                                   *)
(***************************************************************************)
\* All of s may be told before e.
After(s, e) == \A i \in 1..Len(s) : Before(s[i], e)

LEMMA JoinAt ==
    ASSUME NEW A
    PROVE  \A s, v \in Seq(A) :
               /\ Len(s \o v) = Len(s) + Len(v) /\ Len(s) \in Nat /\ Len(v) \in Nat
               /\ \A i \in 1..Len(s) : (s \o v)[i] = s[i]
               /\ \A i \in 1..Len(v) : (s \o v)[Len(s) + i] = v[i]
               /\ \A i \in 1..Len(s \o v) :
                      i \in 1..Len(s) \/ \E k \in 1..Len(v) : i = Len(s) + k
<1> TAKE s, v \in Seq(A)
<1> QED BY ConcatAt

LEMMA TaleConcat ==
    ASSUME NEW A, NEW s \in Seq(A), NEW v \in Seq(A), Tale(s), Tale(v),
           \A k \in 1..Len(v) : After(s, v[k])
    PROVE  Tale(s \o v)
<1> DEFINE u == s \o v
<1>1. /\ Len(u) = Len(s) + Len(v) /\ Len(s) \in Nat /\ Len(v) \in Nat
      /\ \A i \in 1..Len(s) : u[i] = s[i]
      /\ \A i \in 1..Len(v) : u[Len(s) + i] = v[i]
      /\ \A i \in 1..Len(u) : i \in 1..Len(s) \/ \E k \in 1..Len(v) : i = Len(s) + k
      BY JoinAt
<1> HIDE DEF u
<1>2. ASSUME NEW i \in 1..Len(u)
      PROVE  Is(u[i]) /\ \A j \in 1..(i - 1) : Before(u[j], u[i])
  <2>1. CASE i \in 1..Len(s)
    <3>1. Is(s[i]) /\ \A j \in 1..(i - 1) : Before(s[j], s[i])
          BY <2>1 DEF Tale
    <3>2. \A j \in 1..(i - 1) : j \in 1..Len(s)
          BY <1>1, <2>1
    <3> QED BY <1>1, <2>1, <3>1, <3>2
  <2>2. CASE \E k \in 1..Len(v) : i = Len(s) + k
    <3>1. PICK k \in 1..Len(v) : i = Len(s) + k
          BY <2>2
    <3>2. Is(v[k]) /\ (\A j \in 1..(k - 1) : Before(v[j], v[k])) /\ u[i] = v[k]
          BY <1>1, <3>1 DEF Tale
    <3>3. \A j \in 1..Len(s) : Before(s[j], v[k])
          BY DEF After
    <3>4. ASSUME NEW j \in 1..(i - 1) PROVE Before(u[j], u[i])
      <4>1. CASE j \in 1..Len(s)
            BY <1>1, <3>2, <3>3, <4>1
      <4>2. CASE j \notin 1..Len(s)
        <5>1. j - Len(s) \in 1..(k - 1) /\ j - Len(s) \in 1..Len(v) /\ j = Len(s) + (j - Len(s))
              BY <1>1, <3>1, <4>2
        <5>2. u[Len(s) + (j - Len(s))] = v[j - Len(s)]
              BY <1>1, <5>1
        <5> QED BY <3>2, <5>1, <5>2
      <4> QED BY <4>1, <4>2
    <3> QED BY <3>2, <3>4
  <2> QED BY <1>1, <2>1, <2>2
<1> QED BY <1>2 DEF Tale, u

LEMMA MarksConcat ==
    ASSUME NEW A, NEW s \in Seq(A), NEW v \in Seq(A)
    PROVE  /\ \A t, p : Upto(s \o v, t, p) <=> Upto(s, t, p) /\ Upto(v, t, p)
           /\ \A t : Past(s \o v, t) <=> Past(s, t) /\ Past(v, t)
           /\ \A e : After(s \o v, e) <=> After(s, e) /\ After(v, e)
<1> DEFINE u == s \o v
<1>1. /\ Len(u) = Len(s) + Len(v) /\ Len(s) \in Nat /\ Len(v) \in Nat
      /\ \A i \in 1..Len(s) : u[i] = s[i]
      /\ \A i \in 1..Len(v) : u[Len(s) + i] = v[i]
      /\ \A i \in 1..Len(u) : i \in 1..Len(s) \/ \E k \in 1..Len(v) : i = Len(s) + k
      BY ConcatAt
<1>2. /\ \A i \in 1..Len(s) : i \in 1..Len(u)
      /\ \A i \in 1..Len(v) : Len(s) + i \in 1..Len(u)
      BY <1>1
<1> HIDE DEF u
<1>3. \A t, p : Upto(u, t, p) <=> Upto(s, t, p) /\ Upto(v, t, p)
      BY <1>1, <1>2 DEF Upto
<1>4. \A t : Past(u, t) <=> Past(s, t) /\ Past(v, t)
      BY <1>1, <1>2 DEF Past
<1>5. \A e : After(u, e) <=> After(s, e) /\ After(v, e)
      BY <1>1, <1>2 DEF After
<1> QED BY <1>3, <1>4, <1>5 DEF u

\* The photos of one mission: those between what was and what is reported.
Photos(v, t, p, q) ==
    \A k \in 1..Len(v) : v[k].status = "09" /\ v[k].mission = t /\ p < v[k].point /\ v[k].point <= q

LEMMA PhotosTold ==
    ASSUME NEW n \in Nat, Env, NEW m \in Missions(n), m.kind # "none", Visited(m)
    PROVE  /\ PointEvents(m) \in Seq(Events(n)) /\ Tale(PointEvents(m))
           /\ Photos(PointEvents(m), m.ticket, m.reported, PointsReported(m).reported)
<1> DEFINE k == PointsReported(m).reported - m.reported
           new == [i \in 1..k |-> m.reported + i]
           T == {i \in Point : Photo(m, i) = "ready"}
           ready == Within(new, T)
           events == [j \in DOMAIN ready |-> EventOf(m.no, "09", m.ticket, ready[j])]
<1>1. /\ m.reported \in 0..MaxPoints /\ m.reached \in 0..MaxPoints /\ MaxPoints \in Nat
      /\ PointsReported(m).reported \in 0..MaxPoints
      /\ m.reported <= PointsReported(m).reported /\ PointsReported(m).reported <= m.reached
  <2>1. PointsReported(m) \in Missions(n)
        BY PointsReportedType
  <2> QED BY <2>1, PointsReportedType, ProjectorAssumption DEF Missions
<1> DEFINE q == PointsReported(m).reported
<1>2. k \in Nat /\ m.reported + k = q
      BY <1>1
<1>3. PointEvents(m) = events
      BY DEF PointEvents
<1> HIDE DEF k
<1>4. \A i \in 1..k : /\ m.reported + i \in Point /\ new[i] = m.reported + i
                      /\ m.reported < new[i] /\ new[i] <= q
      BY <1>1, <1>2 DEF Point
<1>5. new = [i \in 1..k |-> new[i]] /\ \A i \in 1..k : new[i] \in Point
      BY <1>4
<1>6. \A i, j \in 1..k : i < j => new[i] < new[j]
      BY <1>1, <1>2
<1> HIDE DEF new, T, q
<1>7. new \in Seq(Point) /\ Len(new) = k
      BY <1>2, <1>5, MapSeq
<1>8. ready \in Seq(Point)
      BY <1>7, WithinSeq
<1>9. \A i \in 1..Len(ready) : \E x \in 1..Len(new) : new[x] = ready[i]
  <2>1. \A s \in Seq(Point) : \A i \in 1..Len(Within(s, T)) :
            \E x \in 1..Len(s) : s[x] = Within(s, T)[i]
        BY WithinFrom
  <2> QED BY <1>7, <2>1
<1>18. \A i, j \in 1..Len(ready) :
           i < j => \E x, y \in 1..Len(new) : x < y /\ new[x] = ready[i] /\ new[y] = ready[j]
  <2>1. \A s \in Seq(Point) : \A i, j \in 1..Len(Within(s, T)) :
            i < j => \E x, y \in 1..Len(s) : /\ x < y /\ s[x] = Within(s, T)[i]
                                             /\ s[y] = Within(s, T)[j]
        BY WithinPairs
  <2> QED BY <1>7, <2>1
<1>10. ready \in Seq(Point \cap T)
       BY <1>7, WithinType
<1> HIDE DEF ready
<1>11. /\ Len(ready) \in Nat /\ DOMAIN ready = 1..Len(ready)
       /\ \A j \in 1..Len(ready) : ready[j] \in Point /\ ready[j] \in T
       BY <1>10, LenProperties, ElementOfSeq
<1>12. \A j \in 1..Len(ready) : m.reported < ready[j] /\ ready[j] <= q
       BY <1>4, <1>7, <1>9
<1>13. \A i, j \in 1..Len(ready) : i < j => ready[i] < ready[j]
       BY <1>6, <1>7, <1>18
<1>14. Len(events) = Len(ready) /\ \A j \in 1..Len(ready) :
           /\ events[j].status = "09" /\ events[j].mission = m.ticket
           /\ events[j].point = ready[j]
  <2>1. events \in Seq(Events(n)) /\ DOMAIN events = 1..Len(ready)
        BY <1>3, <1>11, PointEventsType
  <2>2. Len(events) = Len(ready)
        BY <1>11, <2>1, LenProperties
  <2> QED BY <1>11, <2>2 DEF EventOf
<1> HIDE DEF events
<1>15. \A j \in 1..Len(ready) :
           /\ <<m.ticket, ready[j]>> \in flights.reached /\ ready[j] \notin limit.plain
           /\ Simulated \/ media[m.ticket].photo[ready[j]] = "ready"
  <2> TAKE j \in 1..Len(ready)
  <2>1. ready[j] \in 1..m.reached
        BY <1>1, <1>11, <1>12 DEF q, Point
  <2>2. <<m.ticket, ready[j]>> \in flights.reached
        BY <2>1 DEF Visited
  <2>3. Photo(m, ready[j]) = "ready"
        BY <1>11 DEF T
  <2> QED BY <2>2, <2>3 DEF Photo, Simulated
<1>16. Tale(events)
  <2>1. ASSUME NEW i \in 1..Len(events)
        PROVE  Is(events[i]) /\ \A j \in 1..(i - 1) : Before(events[j], events[i])
    <3>1. Is(events[i])
          BY <1>14, <1>15 DEF Is, True09
    <3>2. ASSUME NEW j \in 1..(i - 1) PROVE Before(events[j], events[i])
      <4>1. j \in 1..Len(ready) /\ i \in 1..Len(ready) /\ j < i
            BY <1>11, <1>14
      <4> QED BY <1>13, <1>14, <4>1 DEF Before
    <3> QED BY <3>1, <3>2
  <2> QED BY <2>1 DEF Tale
<1>17. Photos(events, m.ticket, m.reported, q)
       BY <1>12, <1>14 DEF Photos
<1> QED BY <1>3, <1>16, <1>17, PointEventsType DEF q

(***************************************************************************)
(* Joined batches.                                                         *)
(***************************************************************************)
LEMMA ConcatThree ==
    ASSUME NEW A
    PROVE  \A x, y, z \in Seq(A) : (x \o y) \o z = x \o (y \o z)
<1> TAKE x, y, z \in Seq(A)
<1> QED BY ConcatAssociative

LEMMA FlattenFrom ==
    ASSUME NEW A, NEW s \in Seq(Seq(A)), NEW b \in Seq(A), NEW T, b \in T[0],
           \A k \in 0..(Len(s) - 1) : \A t \in Seq(A) : t \in T[k] => t \o s[k + 1] \in T[k + 1]
    PROVE  b \o FlattenSeq(s) \in T[Len(s)]
<1>0. Len(s) \in Nat /\ \A i \in 1..Len(s) : s[i] \in Seq(A)
      BY LenProperties, ElementOfSeq
<1>c. \A x, y, z \in Seq(A) : (x \o y) \o z = x \o (y \o z)
      BY ConcatThree
<1>1. CASE Len(s) = 0
  <2>1. s = <<>>
        BY <1>1, EmptySeq
  <2>2. FlattenSeq(s) = <<>>
        BY <1>1, <2>1 DEF FlattenSeq
  <2>3. b \o FlattenSeq(s) = b
        BY <2>2, ConcatEmptySeq
  <2> QED BY <1>1, <2>3
<1>2. CASE Len(s) # 0
  <2>1. PICK f : /\ f = [i \in 1..Len(s) |-> IF i = 1 THEN s[i] ELSE f[i - 1] \o s[i]]
                 /\ FlattenSeq(s) = f[Len(s)]
        BY <1>0, <1>2, FlattenRecursion
  <2>2. \A i \in 1..Len(s) : f[i] = IF i = 1 THEN s[i] ELSE f[i - 1] \o s[i]
        BY <2>1, Zenon
  <2> DEFINE S == {n \in Nat : n \in 1..Len(s) => f[n] \in Seq(A) /\ b \o f[n] \in T[n]}
  <2>3. 0 \in S
        OBVIOUS
  <2>4. \A n \in Nat : n \in S => n + 1 \in S
    <3> SUFFICES ASSUME NEW n \in Nat, n \in S PROVE n + 1 \in S
        OBVIOUS
    <3>0. n + 1 \in Nat /\ (n \in 1..Len(s) => f[n] \in Seq(A) /\ b \o f[n] \in T[n])
        OBVIOUS
    <3> SUFFICES ASSUME n + 1 \in 1..Len(s)
                 PROVE  f[n + 1] \in Seq(A) /\ b \o f[n + 1] \in T[n + 1]
        BY <3>0
    <3>1. f[n + 1] = IF n + 1 = 1 THEN s[n + 1] ELSE f[(n + 1) - 1] \o s[n + 1]
          BY <2>2
    <3>2. s[n + 1] \in Seq(A) /\ n \in 0..(Len(s) - 1)
          BY <1>0
    <3>3. CASE n = 0
      <4>1. f[n + 1] = s[n + 1]
            BY <3>1, <3>3
      <4>2. b \o s[n + 1] \in T[n + 1]
            BY <3>2, <3>3
      <4> QED BY <3>2, <4>1, <4>2
    <3>4. CASE n # 0
      <4>1. f[n] \in Seq(A) /\ b \o f[n] \in T[n] /\ (n + 1) - 1 = n
            BY <1>0, <3>0, <3>4
      <4>2. f[n + 1] = f[n] \o s[n + 1]
        <5>1. n + 1 # 1
              BY <3>4
        <5>2. f[n + 1] = f[(n + 1) - 1] \o s[n + 1]
              BY <3>1, <5>1, Zenon
        <5> QED BY <4>1, <5>2, Zenon
      <4>3. f[n] \o s[n + 1] \in Seq(A) /\ b \o f[n] \in Seq(A)
            BY <3>2, <4>1, ConcatProperties
      <4>4. (b \o f[n]) \o s[n + 1] \in T[n + 1]
            BY <3>2, <4>1, <4>3
      <4>5. (b \o f[n]) \o s[n + 1] = b \o (f[n] \o s[n + 1])
            BY <1>c, <3>2, <4>1, Zenon
      <4> QED BY <4>2, <4>3, <4>4, <4>5
    <3> QED BY <3>3, <3>4
  <2> HIDE DEF S
  <2>5. Len(s) \in S
        BY <1>0, <2>3, <2>4, Induction
  <2> QED BY <1>0, <1>2, <2>1, <2>5 DEF S
<1> QED BY <1>1, <1>2

\* What a continuation of s by the photos of one mission tells.
LEMMA PhotosContinue ==
    ASSUME NEW n \in Nat, Env, NEW m \in Missions(n), m.kind # "none", NEW s \in Seq(Events(n)),
           Tale(s), Held(m, s)
    PROVE  LET u == s \o PointEvents(m)
           IN  /\ u \in Seq(Events(n)) /\ Tale(u) /\ Upto(u, m.ticket, PointsReported(m).reported)
               /\ \A t, p : t # m.ticket /\ Upto(s, t, p) => Upto(u, t, p)
               /\ \A t : Past(s, t) => Past(u, t)
<1> DEFINE v == PointEvents(m)
           q == PointsReported(m).reported
           u == s \o v
<1>1. v \in Seq(Events(n)) /\ Tale(v) /\ Photos(v, m.ticket, m.reported, q)
      BY PhotosTold DEF Held
<1>2. m.reported \in 0..MaxPoints /\ q \in 0..MaxPoints /\ m.reported <= q /\ MaxPoints \in Nat
  <2>1. PointsReported(m) \in Missions(n)
        BY PointsReportedType
  <2> QED BY <2>1, PointsReportedType, ProjectorAssumption DEF Missions
<1> HIDE DEF v, q
<1>3. u \in Seq(Events(n))
      BY <1>1, ConcatProperties
<1>4. \A i \in 1..Len(s) : s[i].point \in 0..MaxPoints
  <2>1. \A i \in 1..Len(s) : s[i] \in Events(n)
        BY ElementOfSeq
  <2> QED BY <2>1 DEF Events
<1>5. \A k \in 1..Len(v) : v[k].point \in 0..MaxPoints
  <2>1. \A k \in 1..Len(v) : v[k] \in Events(n)
        BY <1>1, ElementOfSeq
  <2> QED BY <2>1 DEF Events
<1>6. \A k \in 1..Len(v) : After(s, v[k])
  <2> SUFFICES ASSUME NEW k \in 1..Len(v), NEW i \in 1..Len(s) PROVE Before(s[i], v[k])
      BY DEF After
  <2>1. v[k].status = "09" /\ v[k].mission = m.ticket /\ m.reported < v[k].point
        BY <1>1 DEF Photos
  <2>2. s[i].status = "09" /\ s[i].mission = m.ticket => s[i].point <= m.reported
        BY DEF Held, Upto
  <2>3. s[i].status = "09" /\ s[i].mission = m.ticket => s[i].point < v[k].point
        BY <1>2, <1>4, <1>5, <2>1, <2>2
  <2> QED BY <2>1, <2>3 DEF Before
<1>7. Tale(u)
      BY <1>1, <1>6, TaleConcat
<1>8. Upto(s, m.ticket, q) /\ Upto(v, m.ticket, q)
  <2>1. Upto(s, m.ticket, m.reported)
        BY DEF Held
  <2> QED BY <1>1, <1>2, <1>4, <2>1 DEF Upto, Photos
<1>9. \A t, p : t # m.ticket => Upto(v, t, p)
      BY <1>1 DEF Photos, Upto
<1>10. \A t : Past(v, t)
       BY <1>1 DEF Photos, Past
<1>11. /\ \A t, p : Upto(u, t, p) <=> Upto(s, t, p) /\ Upto(v, t, p)
       /\ \A t : Past(u, t) <=> Past(s, t) /\ Past(v, t)
       BY <1>1, MarksConcat
<1> HIDE DEF u
<1>12. Upto(u, m.ticket, q)
       BY <1>8, <1>11
<1>13. \A t, p : t # m.ticket /\ Upto(s, t, p) => Upto(u, t, p)
       BY <1>9, <1>11
<1>14. \A t : Past(s, t) => Past(u, t)
       BY <1>10, <1>11
<1> QED BY <1>3, <1>7, <1>12, <1>13, <1>14 DEF u, v, q

\* One more event.
LEMMA OneTold ==
    ASSUME NEW A, NEW s \in Seq(A), NEW e \in A, Tale(s), Is(e), After(s, e)
    PROVE  LET u == s \o <<e>>
           IN  /\ u \in Seq(A) /\ Tale(u)
               /\ e.status # "09" => \A t, p : Upto(s, t, p) => Upto(u, t, p)
               /\ \A t : Past(s, t) /\ (e.status = "08" => e.mission < t) => Past(u, t)
<1> DEFINE v == <<e>>
           u == s \o v
<1>1. v \in Seq(A) /\ Len(v) = 1 /\ v[1] = e
      OBVIOUS
<1> HIDE DEF v
<1>2. Tale(v) /\ \A k \in 1..Len(v) : After(s, v[k])
      BY <1>1 DEF Tale
<1>3. u \in Seq(A)
      BY <1>1, ConcatProperties
<1>4. Tale(u)
      BY <1>1, <1>2, TaleConcat
<1>5. /\ \A t, p : Upto(u, t, p) <=> Upto(s, t, p) /\ Upto(v, t, p)
      /\ \A t : Past(u, t) <=> Past(s, t) /\ Past(v, t)
      BY <1>1, MarksConcat
<1>6. e.status # "09" => \A t, p : Upto(v, t, p)
      BY <1>1 DEF Upto
<1>7. \A t : (e.status = "08" => e.mission < t) => Past(v, t)
      BY <1>1 DEF Past
<1> HIDE DEF u
<1> QED BY <1>3, <1>4, <1>5, <1>6, <1>7 DEF u, v

\* Photos of several missions, the first of them with their deliveries.
Batch(m, delivered) ==
    PointEvents(m) \o IF delivered THEN <<EventOf(m.no, "08", m.ticket, 0)>> ELSE <<>>

LEMMA BatchContinues ==
    ASSUME NEW n \in Nat, Env, NEW m \in Missions(n), m.kind # "none", NEW s \in Seq(Events(n)),
           Tale(s), Held(m, s), NEW delivered \in BOOLEAN,
           delivered => m.ticket \in flights.landed /\ Past(s, m.ticket)
    PROVE  LET u == s \o Batch(m, delivered)
           IN  /\ u \in Seq(Events(n)) /\ Tale(u) /\ Upto(u, m.ticket, PointsReported(m).reported)
               /\ \A t, p : t # m.ticket /\ Upto(s, t, p) => Upto(u, t, p)
               /\ \A t : Past(s, t) /\ (delivered => m.ticket < t) => Past(u, t)
<1> DEFINE v == PointEvents(m)
           w == s \o v
           e == EventOf(m.no, "08", m.ticket, 0)
           q == PointsReported(m).reported
           u == s \o Batch(m, delivered)
<1>1. /\ w \in Seq(Events(n)) /\ Tale(w) /\ Upto(w, m.ticket, q)
      /\ \A t, p : t # m.ticket /\ Upto(s, t, p) => Upto(w, t, p)
      /\ \A t : Past(s, t) => Past(w, t)
      BY PhotosContinue
<1>2. v \in Seq(Events(n))
      BY PointEventsType
<1>3. e \in Events(n)
  <2>1. m.no \in Numbers /\ m.ticket \in 1..n
        BY DEF Missions
  <2>2. "08" \in Status /\ 0 \in 0..MaxPoints
        BY ProjectorAssumption DEF Status
  <2> QED BY <2>1, <2>2, EventType
<1>4. e.status = "08" /\ e.mission = m.ticket
      BY DEF EventOf
<1> HIDE DEF v, e, q
<1>5. CASE ~delivered
  <2>1. Batch(m, delivered) = v \o <<>>
        BY <1>5 DEF Batch, v
  <2>2. Batch(m, delivered) = v
        BY <1>2, <2>1, ConcatEmptySeq
  <2> QED BY <1>1, <1>5, <2>2 DEF q
<1>6. CASE delivered
  <2> DEFINE x == w \o <<e>>
  <2>1. Batch(m, delivered) = v \o <<e>>
        BY <1>6 DEF Batch, v, e
  <2>2. <<e>> \in Seq(Events(n))
        BY <1>3
  <2>3. u = x
    <3>1. \A a, b, c \in Seq(Events(n)) : (a \o b) \o c = a \o (b \o c)
          BY ConcatThree
    <3> QED BY <1>2, <2>1, <2>2, <3>1
  <2> HIDE DEF w, u
  <2>4. Is(e)
        BY <1>4, <1>6 DEF Is, True08
  <2>5. Past(w, m.ticket)
        BY <1>1, <1>6
  <2>6. After(w, e)
        BY <1>4, <2>5 DEF After, Before, Past
  <2>7. /\ x \in Seq(Events(n)) /\ Tale(x)
        /\ e.status # "09" => \A t, p : Upto(w, t, p) => Upto(x, t, p)
        /\ \A t : Past(w, t) /\ (e.status = "08" => e.mission < t) => Past(x, t)
        BY <1>1, <1>3, <2>4, <2>6, OneTold
  <2> HIDE DEF x
  <2>8. /\ u \in Seq(Events(n)) /\ Tale(u) /\ Upto(u, m.ticket, q)
        BY <1>1, <1>4, <2>3, <2>7
  <2>9. \A t, p : t # m.ticket /\ Upto(s, t, p) => Upto(u, t, p)
        BY <1>1, <1>4, <2>3, <2>7
  <2>10. \A t : Past(s, t) /\ (delivered => m.ticket < t) => Past(u, t)
        BY <1>1, <1>4, <1>6, <2>3, <2>7
  <2> QED BY <2>8, <2>9, <2>10 DEF u, q
<1> QED BY <1>5, <1>6

LEMMA BatchesTold ==
    ASSUME NEW n \in Nat, Env, NEW s \in Seq(Events(n)), Tale(s), NEW N \in Nat, NEW q,
           NEW ready \in 0..N, NEW events \in Seq(Seq(Events(n))), Len(events) = N,
           \A i \in 1..N : q[i] \in Missions(n) /\ q[i].kind # "none" /\ Held(q[i], s),
           \A i, j \in 1..N : i < j => q[i].ticket # q[j].ticket,
           \A i \in 1..ready : q[i].ticket \in flights.landed /\ Past(s, q[i].ticket),
           \A i, j \in 1..ready : i < j => q[i].ticket < q[j].ticket,
           \A i \in 1..N : events[i] = Batch(q[i], i <= ready)
    PROVE  LET u == s \o FlattenSeq(events)
           IN  /\ u \in Seq(Events(n)) /\ Tale(u)
               /\ \A i \in 1..N : Upto(u, q[i].ticket, PointsReported(q[i]).reported)
               /\ \A t, p : (\A i \in 1..N : t # q[i].ticket) /\ Upto(s, t, p) => Upto(u, t, p)
               /\ \A t : Past(s, t) /\ (\A i \in 1..ready : q[i].ticket < t) => Past(u, t)
<1> DEFINE mark(i, k) == IF i <= k THEN PointsReported(q[i]).reported ELSE q[i].reported
           Others(u) == \A t, p : (\A i \in 1..N : t # q[i].ticket) /\ Upto(s, t, p) => Upto(u, t, p)
           Newer(u) == \A t : Past(s, t) /\ (\A i \in 1..ready : q[i].ticket < t) => Past(u, t)
           Good(u, k) == /\ Tale(u) /\ Others(u) /\ Newer(u)
                         /\ \A i \in 1..N : Upto(u, q[i].ticket, mark(i, k))
                         /\ \A i \in 1..ready : k < i => Past(u, q[i].ticket)
           T == [k \in 0..N |-> {u \in Seq(Events(n)) : Good(u, k)}]
           A == Events(n)
<1>1. s \in T[0]
  <2>1. Good(s, 0)
    <3>1. \A i \in 1..N : mark(i, 0) = q[i].reported
          OBVIOUS
    <3> HIDE DEF mark
    <3>2. \A i \in 1..N : Upto(s, q[i].ticket, mark(i, 0))
          BY <3>1 DEF Held
    <3> QED BY <3>2
  <2> HIDE DEF Good
  <2> QED BY <2>1
<1>2. ASSUME NEW k \in 0..(Len(events) - 1), NEW u \in Seq(A), u \in T[k]
      PROVE  u \o events[k + 1] \in T[k + 1]
  <2> DEFINE m == q[k + 1]
             d == k + 1 <= ready
             v == u \o Batch(m, d)
  <2>0. k \in 0..N /\ k + 1 \in 0..N /\ k + 1 \in 1..N /\ k \in Nat
        OBVIOUS
  <2>1. Good(u, k)
    <3> HIDE DEF Good
    <3> QED BY <1>2, <2>0
  <2>2. m \in Missions(n) /\ m.kind # "none" /\ Visited(m) /\ d \in BOOLEAN
        BY <2>0 DEF Held
  <2>3. Upto(u, m.ticket, m.reported)
    <3>1. mark(k + 1, k) = m.reported
          BY <2>0
    <3> HIDE DEF mark
    <3> QED BY <2>0, <2>1, <3>1
  <2>4. d => m.ticket \in flights.landed /\ Past(u, m.ticket)
    <3> HAVE d
    <3>1. k + 1 \in 1..ready /\ k < k + 1
          BY <2>0
    <3> QED BY <2>1, <3>1
  <2>5. events[k + 1] = Batch(m, d)
        BY <2>0
  <2> HIDE DEF d
  <2>6. /\ v \in Seq(Events(n)) /\ Tale(v) /\ Upto(v, m.ticket, PointsReported(m).reported)
        /\ \A t, p : t # m.ticket /\ Upto(u, t, p) => Upto(v, t, p)
        /\ \A t : Past(u, t) /\ (d => m.ticket < t) => Past(v, t)
    <3> HIDE DEF m
    <3>1. Tale(u) /\ Held(m, u)
          BY <2>1, <2>2, <2>3 DEF Held
    <3> QED BY <2>2, <2>4, <3>1, BatchContinues
  <2> HIDE DEF v
  <2>7. Others(v)
        BY <2>0, <2>1, <2>6
  <2>8. Newer(v)
    <3> SUFFICES ASSUME NEW t, Past(s, t), \A i \in 1..ready : q[i].ticket < t PROVE Past(v, t)
        OBVIOUS
    <3>1. Past(u, t)
          BY <2>1
    <3>2. d => m.ticket < t
          BY <2>0 DEF d
    <3> QED BY <2>6, <3>1, <3>2
  <2>9. ASSUME NEW i \in 1..N PROVE Upto(v, q[i].ticket, mark(i, k + 1))
    <3>1. CASE i = k + 1
      <4>1. mark(i, k + 1) = PointsReported(m).reported
            BY <2>0, <3>1
      <4> HIDE DEF mark
      <4> QED BY <2>6, <3>1, <4>1
    <3>2. CASE i # k + 1
      <4>1. mark(i, k + 1) = mark(i, k)
            BY <2>0, <3>2
      <4>2. q[i].ticket # m.ticket
        <5>1. i < k + 1 \/ k + 1 < i
              BY <2>0, <3>2
        <5> QED BY <2>0, <5>1
      <4> HIDE DEF mark
      <4>3. Upto(u, q[i].ticket, mark(i, k))
            BY <2>1
      <4> QED BY <2>6, <4>1, <4>2, <4>3
    <3> QED BY <3>1, <3>2
  <2>10. ASSUME NEW i \in 1..ready, k + 1 < i PROVE Past(v, q[i].ticket)
    <3>1. k < i /\ k + 1 \in 1..ready
          BY <2>0, <2>10
    <3>2. Past(u, q[i].ticket)
          BY <2>1, <3>1
    <3>3. m.ticket < q[i].ticket
          BY <2>10, <3>1
    <3> QED BY <2>6, <3>2, <3>3
  <2> HIDE DEF Others, Newer, mark
  <2>11. Good(v, k + 1)
        BY <2>6, <2>7, <2>8, <2>9, <2>10
  <2> HIDE DEF Good
  <2>12. v \in T[k + 1]
        BY <2>0, <2>6, <2>11
  <2> HIDE DEF T
  <2> QED BY <2>5, <2>12 DEF v
<1> HIDE DEF T, Good, A
<1>3. s \o FlattenSeq(events) \in T[Len(events)]
  <2>1. events \in Seq(Seq(A)) /\ s \in Seq(A)
        BY DEF A
  <2> QED BY <1>1, <1>2, <2>1, FlattenFrom
<1> DEFINE u == s \o FlattenSeq(events)
<1>4. u \in Seq(Events(n)) /\ Good(u, N)
  <2> HIDE DEF u
  <2>1. u \in T[N] /\ N \in 0..N
        BY <1>3 DEF u
  <2> QED BY <2>1 DEF T
<1> HIDE DEF u
<1>5. \A i \in 1..N : Upto(u, q[i].ticket, PointsReported(q[i]).reported)
  <2> TAKE i \in 1..N
  <2>1. mark(i, N) = PointsReported(q[i]).reported
        OBVIOUS
  <2> HIDE DEF mark
  <2> QED BY <1>4, <2>1 DEF Good
<1> QED BY <1>4, <1>5 DEF Good, u

(***************************************************************************)
(* Delivery.                                                               *)
(***************************************************************************)
\* The tickets and the points of a mission are not touched by its outcome or by a report.
LEMMA PreparedSame ==
    ASSUME NEW n \in Nat, NEW m \in Inspections(n)
    PROVE  LET p == Prepared(m)
           IN  /\ p \in Inspections(n) /\ p.ticket = m.ticket /\ p.reached = m.reached
               /\ p.reported = m.reported
<1>1. \E r \in Outcomes : Prepared(m) = [m EXCEPT !.result = r]
  <2>1. CASE m.result = "none"
        BY <2>1 DEF Prepared, Outcomes
  <2>2. CASE m.result # "none"
    <3>1. m.result \in Outcomes /\ m = [m EXCEPT !.result = m.result]
          BY DEF Inspections, Missions
    <3> QED BY <2>2, <3>1 DEF Prepared
  <2> QED BY <2>1, <2>2
<1>2. PICK r \in Outcomes : Prepared(m) = [m EXCEPT !.result = r]
      BY <1>1
<1> DEFINE p == Prepared(m)
<1>3. p.ticket = m.ticket /\ p.reached = m.reached /\ p.reported = m.reported
      BY <1>2 DEF Inspections, Missions
<1> QED BY <1>3, PreparedType

LEMMA ReportedSame ==
    ASSUME NEW n \in Nat, NEW m \in Missions(n)
    PROVE  LET p == PointsReported(m)
           IN  /\ p \in Missions(n) /\ p.ticket = m.ticket /\ p.reached = m.reached
               /\ p.kind = m.kind /\ p.flown = m.flown /\ p.landed = m.landed
<1> DEFINE r == Settled(m)
<1>1. PointsReported(m) = IF DeliveryFailed(m) THEN m ELSE [m EXCEPT !.reported = r]
      BY DEF PointsReported
<1> HIDE DEF r
<1> DEFINE p == PointsReported(m)
<1>2. p.flown = m.flown /\ p.landed = m.landed
      BY <1>1 DEF Missions
<1> QED BY <1>2, PointsReportedType

\* A part of a sequence.
LEMMA SubSeqAt ==
    ASSUME NEW A, NEW s \in Seq(A), NEW a \in 1..(Len(s) + 1), NEW b \in 0..Len(s), a <= b + 1
    PROVE  LET t == SubSeq(s, a, b)
           IN  /\ t \in Seq(A) /\ Len(t) = b - a + 1
               /\ \A i \in 1..Len(t) : t[i] = s[a + i - 1] /\ a + i - 1 \in a..b
<1>1. Len(s) \in Nat /\ \A i \in 1..Len(s) : s[i] \in A
      BY LenProperties, ElementOfSeq
<1>2. a \in Int /\ b \in Int /\ \A i \in a..b : s[i] \in A
      BY <1>1
<1> DEFINE t == SubSeq(s, a, b)
<1>3. t \in Seq(A) /\ Len(t) = IF a <= b THEN b - a + 1 ELSE 0
      BY <1>2, SubSeqProperties
<1>4. \A i \in 1..(b - a + 1) : t[i] = s[a + i - 1]
      BY <1>2, SubSeqProperties
<1>5. Len(t) = b - a + 1
      BY <1>1, <1>3
<1> HIDE DEF t
<1>6. \A i \in 1..Len(t) : t[i] = s[a + i - 1] /\ a + i - 1 \in a..b
      BY <1>1, <1>4, <1>5
<1> QED BY <1>3, <1>5, <1>6 DEF t

\* The missions that are delivered leave the line; those that lack photos join the others.
LEMMA LineMoves ==
    ASSUME NEW n \in Nat, NEW s, NEW u, NEW photos \in Seq(Inspections(n)),
           NEW waiting \in Seq(Inspections(n)), NEW after \in Seq(Inspections(n)),
           Len(after) = Len(waiting), NEW ready \in 0..Len(after), NEW open,
           Landings(photos, waiting, s),
           \A i \in 1..Len(after) : after[i].ticket = waiting[i].ticket /\ Held(after[i], u),
           \A i \in 1..Len(photos) : Held(photos[i], u),
           \A i \in 1..Len(after) : ready < i => Past(u, after[i].ticket)
    PROVE  LET p == photos \o Within(SubSeq(after, 1, ready), open)
               w == SubSeq(after, ready + 1, Len(after))
           IN  /\ Landings(p, w, u)
               /\ \A t : Under(photos, t) /\ Under(waiting, t) => Under(p, t) /\ Under(w, t)
<1> DEFINE front == SubSeq(after, 1, ready)
           w == SubSeq(after, ready + 1, Len(after))
           l == Within(front, open)
           p == photos \o l
<1>1. /\ Len(after) \in Nat /\ Len(photos) \in Nat
      /\ \A i \in 1..Len(after) : after[i].ticket \in Nat
      /\ \A i \in 1..Len(photos) : photos[i].ticket \in Nat
  <2>1. /\ \A i \in 1..Len(after) : after[i] \in Inspections(n)
        /\ \A i \in 1..Len(photos) : photos[i] \in Inspections(n)
        /\ Len(after) \in Nat /\ Len(photos) \in Nat
        BY LenProperties, ElementOfSeq
  <2>2. \A m \in Inspections(n) : m.ticket \in Nat
        BY DEF Inspections, Missions
  <2> QED BY <2>1, <2>2
<1>2. /\ front \in Seq(Inspections(n)) /\ Len(front) = ready
      /\ \A i \in 1..Len(front) : front[i] = after[i]
  <2>1. 1 \in 1..(Len(after) + 1) /\ 1 <= ready + 1 /\ ready - 1 + 1 = ready
        BY <1>1
  <2>2. /\ front \in Seq(Inspections(n)) /\ Len(front) = ready - 1 + 1
        /\ \A i \in 1..Len(front) : front[i] = after[1 + i - 1]
        BY <2>1, SubSeqAt
  <2>3. \A i \in 1..Len(front) : 1 + i - 1 = i
        BY <2>1, <2>2
  <2> QED BY <2>1, <2>2, <2>3
<1>3. /\ w \in Seq(Inspections(n)) /\ Len(w) = Len(after) - ready
      /\ \A i \in 1..Len(w) : /\ w[i] = after[ready + i] /\ ready + i \in 1..Len(after)
                              /\ ready < ready + i
  <2> DEFINE a == ready + 1
             b == Len(after)
  <2>1. a \in 1..(Len(after) + 1) /\ b \in 0..Len(after) /\ a <= b + 1
        BY <1>1
  <2> HIDE DEF a, b
  <2>2. LET t == SubSeq(after, a, b)
        IN  /\ t \in Seq(Inspections(n)) /\ Len(t) = b - a + 1
            /\ \A i \in 1..Len(t) : t[i] = after[a + i - 1] /\ a + i - 1 \in a..b
        BY <2>1, SubSeqAt
  <2>3. /\ w \in Seq(Inspections(n)) /\ Len(w) = Len(after) - ready
        /\ \A i \in 1..Len(w) : w[i] = after[a + i - 1]
        BY <1>1, <2>2 DEF a, b
  <2>4. \A i \in 1..Len(w) : a + i - 1 = ready + i
        BY <1>1, <2>3 DEF a
  <2>5. \A i \in 1..Len(w) : ready + i \in 1..Len(after) /\ ready < ready + i
        BY <1>1, <2>3
  <2> QED BY <2>3, <2>4, <2>5
<1> HIDE DEF front
<1>4. /\ l \in Seq(Inspections(n))
      /\ \A i \in 1..Len(l) : \E x \in 1..ready : l[i] = after[x]
      /\ \A i, j \in 1..Len(l) :
             i < j => \E x, y \in 1..ready : x < y /\ l[i] = after[x] /\ l[j] = after[y]
  <2>1. l \in Seq(Inspections(n))
        BY <1>2, WithinSeq
  <2>2. \A f \in Seq(Inspections(n)) : \A i \in 1..Len(Within(f, open)) :
            \E x \in 1..Len(f) : f[x] = Within(f, open)[i]
        BY WithinFrom
  <2>3. \A i, j \in 1..Len(l) : i < j => \E x, y \in 1..Len(front) :
                                        x < y /\ front[x] = l[i] /\ front[y] = l[j]
    <3> DEFINE A == Inspections(n)
    <3>1. front \in Seq(A)
          BY <1>2
    <3> HIDE DEF A
    <3>2. \A f \in Seq(A) : \A i, j \in 1..Len(Within(f, open)) :
              i < j => \E x, y \in 1..Len(f) : /\ x < y /\ f[x] = Within(f, open)[i]
                                               /\ f[y] = Within(f, open)[j]
          BY WithinPairs
    <3> QED BY <3>1, <3>2
  <2>4. \A i \in 1..Len(l) : \E x \in 1..ready : l[i] = after[x]
        BY <1>2, <2>2
  <2>5. \A i, j \in 1..Len(l) :
            i < j => \E x, y \in 1..ready : x < y /\ l[i] = after[x] /\ l[j] = after[y]
    <3> SUFFICES ASSUME NEW i \in 1..Len(l), NEW j \in 1..Len(l), i < j
                 PROVE  \E x, y \in 1..ready : x < y /\ l[i] = after[x] /\ l[j] = after[y]
        OBVIOUS
    <3>1. PICK x \in 1..Len(front), y \in 1..Len(front) : x < y /\ front[x] = l[i] /\ front[y] = l[j]
          BY <2>3
    <3>2. x \in 1..ready /\ y \in 1..ready /\ front[x] = after[x] /\ front[y] = after[y]
          BY <1>2
    <3> QED BY <3>1, <3>2
  <2> QED BY <2>1, <2>4, <2>5
<1> HIDE DEF l, w
<1>5. /\ Len(p) = Len(photos) + Len(l) /\ Len(l) \in Nat
      /\ \A i \in 1..Len(photos) : p[i] = photos[i]
      /\ \A i \in 1..Len(l) : p[Len(photos) + i] = l[i]
      BY <1>4, ConcatAt
<1>6. \A i \in 1..Len(p) : i \in 1..Len(photos) \/ \E k \in 1..Len(l) : i = Len(photos) + k
      BY <1>4, ConcatAt
<1> HIDE DEF p
<1>7. \A x, y \in 1..Len(after) : x < y => after[x].ticket < after[y].ticket
      BY DEF Landings, Rising
<1>8. \A x \in 1..Len(photos) : \A y \in 1..Len(after) : photos[x].ticket < after[y].ticket
      BY DEF Landings, Under
<1>9. ASSUME NEW i \in 1..Len(p)
      PROVE  \/ i \in 1..Len(photos) /\ p[i] = photos[i]
             \/ \E x \in 1..ready : p[i] = after[x] /\ i > Len(photos)
  <2>1. CASE i \in 1..Len(photos)
        BY <1>5, <2>1
  <2>2. CASE \E k \in 1..Len(l) : i = Len(photos) + k
    <3>1. PICK k \in 1..Len(l) : i = Len(photos) + k
          BY <2>2
    <3>2. PICK x \in 1..ready : l[k] = after[x]
          BY <1>4
    <3>3. p[i] = l[k] /\ i > Len(photos)
          BY <1>1, <1>5, <3>1
    <3> QED BY <3>2, <3>3
  <2> QED BY <1>6, <2>1, <2>2
<1>a. \A x \in 1..ready : x \in 1..Len(after)
      BY <1>1
<1>10. Rising(p)
  <2> SUFFICES ASSUME NEW i \in 1..Len(p), NEW j \in 1..Len(p), i < j PROVE p[i].ticket < p[j].ticket
      BY DEF Rising
  <2>1. CASE i \in 1..Len(photos) /\ j \in 1..Len(photos)
        BY <1>5, <2>1 DEF Landings, Rising
  <2>2. CASE i \in 1..Len(photos) /\ j \notin 1..Len(photos)
    <3>1. PICK x \in 1..ready : p[j] = after[x]
          BY <1>9, <2>2
    <3> QED BY <1>5, <1>8, <1>a, <2>2, <3>1
  <2>3. CASE i \notin 1..Len(photos)
    <3>1. PICK k \in 1..Len(l) : i = Len(photos) + k
          BY <1>6, <2>3
    <3>2. j \notin 1..Len(photos)
          BY <1>1, <1>5, <3>1
    <3>3. PICK h \in 1..Len(l) : j = Len(photos) + h
          BY <1>6, <3>2
    <3>4. k < h /\ p[i] = l[k] /\ p[j] = l[h]
          BY <1>1, <1>5, <3>1, <3>3
    <3>5. PICK x \in 1..ready, y \in 1..ready : x < y /\ l[k] = after[x] /\ l[h] = after[y]
          BY <1>4, <3>4
    <3> QED BY <1>7, <1>a, <3>4, <3>5
  <2> QED BY <2>1, <2>2, <2>3
<1>11. Rising(w)
  <2> SUFFICES ASSUME NEW i \in 1..Len(w), NEW j \in 1..Len(w), i < j PROVE w[i].ticket < w[j].ticket
      BY DEF Rising
  <2>1. ready + i < ready + j
        OBVIOUS
  <2> QED BY <1>3, <1>7, <2>1
<1>12. \A i \in 1..Len(p) : Held(p[i], u)
      BY <1>9, <1>a
<1>13. ASSUME NEW i \in 1..Len(w)
       PROVE  /\ Held(w[i], u) /\ w[i].ticket \in flights.landed /\ Past(u, w[i].ticket)
              /\ Under(p, w[i].ticket)
  <2>1. w[i] = after[ready + i] /\ ready + i \in 1..Len(after) /\ ready < ready + i
        BY <1>3
  <2>2. Held(w[i], u) /\ Past(u, w[i].ticket)
        BY <2>1
  <2>3. w[i].ticket \in flights.landed
        BY <2>1 DEF Landings
  <2>4. ASSUME NEW j \in 1..Len(p) PROVE p[j].ticket < w[i].ticket
    <3>1. CASE p[j] = photos[j] /\ j \in 1..Len(photos)
          BY <1>8, <2>1, <3>1
    <3>2. CASE \E x \in 1..ready : p[j] = after[x]
      <4>1. PICK x \in 1..ready : p[j] = after[x]
            BY <3>2
      <4>2. x < ready + i
            BY <2>1
      <4> QED BY <1>7, <1>a, <2>1, <4>1, <4>2
    <3> QED BY <1>9, <3>1, <3>2
  <2> QED BY <2>2, <2>3, <2>4 DEF Under
<1>14. Landings(p, w, u)
       BY <1>10, <1>11, <1>12, <1>13 DEF Landings
<1>15. ASSUME NEW t, Under(photos, t), Under(waiting, t) PROVE Under(p, t) /\ Under(w, t)
  <2>1. \A x \in 1..Len(after) : after[x].ticket < t
        BY <1>15 DEF Under
  <2>2. Under(w, t)
        BY <1>3, <2>1 DEF Under
  <2>3. Under(p, t)
        BY <1>9, <1>15, <1>a, <2>1 DEF Under
  <2> QED BY <2>2, <2>3
<1> QED BY <1>14, <1>15 DEF p, w, l, front

LEMMA HeldOn ==
    ASSUME NEW m, NEW s, NEW u, Held(m, s),
           \A t, p : t = m.ticket /\ Upto(s, t, p) => Upto(u, t, p)
    PROVE  Held(m, u)
BY DEF Held

LEMMA FlushTold ==
    ASSUME NEW n \in Nat, Env, NEW c \in Station(n), NEW a \in Seq(Events(n)), Telling(c, a)
    PROVE  Telling(Flush(c), a) /\ Flush(c).mission = c.mission
<1> DEFINE all == [i \in DOMAIN c.waiting |-> Prepared(c.waiting[i])]
           K == {k \in 0..Len(all) : \A i \in 1..k : all[i].result # "none"}
           ready == Max(K)
           seen == 1..Min({ready + 1, Len(all)})
           after == [i \in DOMAIN all |-> IF i \in seen THEN PointsReported(all[i]) ELSE all[i]]
           events == [i \in seen |->
                         PointEvents(all[i]) \o
                         IF i <= ready THEN <<EventOf(all[i].no, "08", all[i].ticket, 0)>>
                                       ELSE <<>>]
           open == {m \in Range(after) : m.result = "ready" /\ m.reported < m.size}
           waiting == SubSeq(after, ready + 1, Len(after))
           photos == c.photos \o Within(SubSeq(after, 1, ready), open)
           out == c.out \o FlattenSeq(events)
           s == a \o c.out
           u == s \o FlattenSeq(events)
           L == Len(c.waiting)
<1>1. Flush(c) = [c EXCEPT !.waiting = waiting, !.photos = photos, !.out = out]
      BY DEF Flush
<1>2. /\ c.waiting \in Seq(Inspections(n)) /\ c.photos \in Seq(Inspections(n))
      /\ c.out \in Seq(Events(n)) /\ c.mission \in Missions(n)
      BY DEF Station
<1>3. /\ L \in Nat /\ DOMAIN c.waiting = 1..L /\ \A i \in 1..L : c.waiting[i] \in Inspections(n)
      BY <1>2, LenProperties, ElementOfSeq
<1>4. \A i \in 1..L : /\ all[i] \in Inspections(n) /\ all[i].ticket = c.waiting[i].ticket
                      /\ all[i].reached = c.waiting[i].reached
                      /\ all[i].reported = c.waiting[i].reported
  <2> TAKE i \in 1..L
  <2>1. all[i] = Prepared(c.waiting[i])
        BY <1>3
  <2>2. c.waiting[i] \in Inspections(n)
        BY <1>3
  <2> HIDE DEF all
  <2> QED BY <2>1, <2>2, PreparedSame
<1>5. all \in Seq(Inspections(n)) /\ Len(all) = L /\ DOMAIN all = 1..L
  <2>1. all = [i \in 1..L |-> all[i]]
        BY <1>3
  <2>2. DOMAIN all = 1..L
        BY <1>3
  <2> HIDE DEF all
  <2> QED BY <1>3, <1>4, <2>1, <2>2, MapSeq
<1> HIDE DEF all
<1>7. ready \in 0..L
  <2>1. 0 \in K /\ K \in SUBSET Int /\ \A k \in K : k <= L
        BY <1>3, <1>5
  <2>2. K \subseteq 0..L
        BY <1>5
  <2> HIDE DEF K
  <2>a. K # {} /\ L \in Int
        BY <1>3, <2>1
  <2>3. Max(K) \in K
        BY <2>1, <2>a, MaxOf
  <2> QED BY <2>2, <2>3
<1> HIDE DEF ready
<1> DEFINE N == IF ready + 1 <= L THEN ready + 1 ELSE L
<1>8. seen = 1..N /\ N \in Nat /\ N <= L /\ ready <= N
  <2>1. ready + 1 \in Int /\ L \in Int
        BY <1>3, <1>7
  <2>2. seen = 1..N
        BY <1>5, <2>1, MinOfTwo
  <2> QED BY <1>3, <1>7, <2>2
<1>n. \A i \in 1..L : ready < i /\ i # ready + 1 => i > N
      BY <1>3, <1>7
<1> HIDE DEF seen, N
<1>9. \A i \in 1..L :
          /\ all[i] \in Missions(n) /\ all[i].kind = "inspection" /\ all[i].kind # "none"
          /\ PointsReported(all[i]) \in Inspections(n)
          /\ PointsReported(all[i]).ticket = all[i].ticket
          /\ PointsReported(all[i]).reached = all[i].reached
          /\ PointEvents(all[i]) \in Seq(Events(n))
  <2> TAKE i \in 1..L
  <2>1. all[i] \in Missions(n) /\ all[i].kind = "inspection" /\ all[i].kind # "none"
        BY <1>4 DEF Inspections
  <2>2. /\ PointsReported(all[i]) \in Missions(n) /\ PointsReported(all[i]).kind = "inspection"
        /\ PointsReported(all[i]).ticket = all[i].ticket
        /\ PointsReported(all[i]).reached = all[i].reached
        BY <2>1, ReportedSame
  <2>3. PointEvents(all[i]) \in Seq(Events(n))
        BY <2>1, PointEventsType
  <2> QED BY <2>1, <2>2, <2>3 DEF Inspections
<1>10. \A i \in 1..L : /\ after[i] = IF i <= N THEN PointsReported(all[i]) ELSE all[i]
                       /\ after[i] \in Inspections(n) /\ after[i].ticket = c.waiting[i].ticket
                       /\ after[i].reached = c.waiting[i].reached
  <2> TAKE i \in 1..L
  <2>1. after[i] = IF i <= N THEN PointsReported(all[i]) ELSE all[i]
        BY <1>5, <1>8
  <2> HIDE DEF after
  <2> QED BY <1>4, <1>9, <2>1
<1>11. after \in Seq(Inspections(n)) /\ Len(after) = L
  <2>1. after = [i \in 1..L |-> after[i]]
        BY <1>5
  <2> HIDE DEF after
  <2>2. \A i \in 1..L : after[i] \in Inspections(n)
        BY <1>10
  <2> QED BY <1>3, <2>1, <2>2, MapSeq
<1> HIDE DEF after, open
<1>12. events \in Seq(Seq(Events(n))) /\ Len(events) = N /\ \A i \in 1..N : events[i] = Batch(all[i], i <= ready)
  <2>1. \A i \in 1..N : events[i] = Batch(all[i], i <= ready)
        BY <1>8 DEF Batch
  <2>2. events = [i \in 1..N |-> events[i]]
        BY <1>8
  <2>3. ASSUME NEW i \in 1..N PROVE events[i] \in Seq(Events(n))
    <3>1. i \in 1..L
          BY <1>3, <1>8
    <3>2. EventOf(all[i].no, "08", all[i].ticket, 0) \in Events(n)
      <4>1. all[i].no \in Numbers /\ all[i].ticket \in 1..n
            BY <1>9, <3>1 DEF Missions
      <4>2. "08" \in Status /\ 0 \in 0..MaxPoints
            BY ProjectorAssumption DEF Status
      <4> QED BY <4>1, <4>2, EventType
    <3> DEFINE e == EventOf(all[i].no, "08", all[i].ticket, 0)
               v == PointEvents(all[i])
               more == IF i <= ready THEN <<e>> ELSE <<>>
    <3>3. events[i] = v \o more
          BY <2>1 DEF Batch
    <3>4. v \in Seq(Events(n)) /\ e \in Events(n)
          BY <1>9, <3>1, <3>2
    <3> HIDE DEF e, v, events
    <3>5. more \in Seq(Events(n))
          BY <3>4, EmptySeq
    <3> HIDE DEF more
    <3> QED BY <3>3, <3>4, <3>5, ConcatProperties
  <2> HIDE DEF events
  <2>4. events \in Seq(Seq(Events(n))) /\ Len(events) = N
        BY <1>8, <2>2, <2>3, MapSeq
  <2> QED BY <2>1, <2>4
<1> HIDE DEF events
<1>13. s \in Seq(Events(n))
       BY <1>2, ConcatProperties
<1>14. /\ Tale(s) /\ Landings(c.photos, c.waiting, s) /\ Kinded(c.seq)
       /\ Newest(c.mission, c.photos, c.waiting, c.orders, s)
       BY DEF Telling, Speaks
<1> HIDE DEF s
<1>15. \A i \in 1..L : /\ Visited(all[i]) /\ Held(all[i], s) /\ all[i].ticket \in flights.landed
                       /\ Past(s, all[i].ticket) /\ all[i].ticket \in Nat
  <2> TAKE i \in 1..L
  <2>1. /\ Held(c.waiting[i], s) /\ c.waiting[i].ticket \in flights.landed
        /\ Past(s, c.waiting[i].ticket)
        BY <1>14 DEF Landings
  <2>2. all[i].ticket \in Nat
        BY <1>9 DEF Missions
  <2> QED BY <1>4, <2>1, <2>2 DEF Held, Visited
<1>16. \A i, j \in 1..L : i < j => all[i].ticket < all[j].ticket
  <2>1. \A i, j \in 1..L : i < j => c.waiting[i].ticket < c.waiting[j].ticket
        BY <1>14 DEF Landings, Rising
  <2> QED BY <1>4, <2>1
<1>17. /\ u \in Seq(Events(n)) /\ Tale(u)
       /\ \A i \in 1..N : Upto(u, all[i].ticket, PointsReported(all[i]).reported)
       /\ \A t, p : (\A i \in 1..N : t # all[i].ticket) /\ Upto(s, t, p) => Upto(u, t, p)
       /\ \A t : Past(s, t) /\ (\A i \in 1..ready : all[i].ticket < t) => Past(u, t)
  <2>a. \A i \in 1..N : i \in 1..L
        BY <1>3, <1>8
  <2>b. ready \in 0..N /\ \A i \in 1..ready : i \in 1..L
        BY <1>3, <1>7, <1>8
  <2>1. \A i \in 1..N : all[i] \in Missions(n) /\ all[i].kind # "none" /\ Held(all[i], s)
        BY <1>9, <1>15, <2>a
  <2>2. \A i, j \in 1..N : i < j => all[i].ticket # all[j].ticket
        BY <1>15, <1>16, <2>a
  <2>3. \A i \in 1..ready : all[i].ticket \in flights.landed /\ Past(s, all[i].ticket)
        BY <1>15, <2>b
  <2>4. \A i, j \in 1..ready : i < j => all[i].ticket < all[j].ticket
        BY <1>16, <2>b
  <2> QED BY <1>8, <1>12, <1>13, <1>14, <2>b, <2>1, <2>2, <2>3, <2>4, BatchesTold
<1>18. a \o out = u
  <2>1. FlattenSeq(events) \in Seq(Events(n))
        BY <1>12, FlattenType
  <2>2. \A x, y, z \in Seq(Events(n)) : (x \o y) \o z = x \o (y \o z)
        BY ConcatThree
  <2> QED BY <1>2, <2>1, <2>2 DEF s
<1> HIDE DEF u, out
<1>19. \A t, p : (\A i \in 1..L : all[i].ticket # t) /\ Upto(s, t, p) => Upto(u, t, p)
  <2>1. \A i \in 1..N : i \in 1..L
        BY <1>3, <1>8
  <2> QED BY <1>17, <2>1
<1>20. ASSUME NEW i \in 1..L PROVE Held(after[i], u)
  <2>1. Visited(after[i])
        BY <1>4, <1>10, <1>15 DEF Visited
  <2>2. CASE i <= N
    <3>1. i \in 1..N /\ after[i] = PointsReported(all[i])
          BY <1>8, <1>10, <2>2
    <3> QED BY <1>4, <1>10, <1>17, <2>1, <3>1 DEF Held
  <2>3. CASE ~(i <= N)
    <3>1. after[i] = all[i] /\ Upto(s, all[i].ticket, all[i].reported)
          BY <1>10, <1>15, <2>3 DEF Held
    <3>2. \A j \in 1..N : all[i].ticket # all[j].ticket
      <4> TAKE j \in 1..N
      <4>1. j \in 1..L /\ j < i
            BY <1>3, <1>8, <2>3
      <4> QED BY <1>15, <1>16, <4>1
    <3>3. Upto(u, all[i].ticket, all[i].reported)
          BY <1>17, <3>1, <3>2
    <3> QED BY <2>1, <3>1, <3>3 DEF Held
  <2> QED BY <2>2, <2>3
<1>21. ASSUME NEW i \in 1..L, ready < i PROVE Past(u, after[i].ticket)
  <2>1. \A j \in 1..ready : all[j].ticket < all[i].ticket
    <3> TAKE j \in 1..ready
    <3>1. j \in 1..L /\ j < i
          BY <1>3, <1>7, <1>21
    <3> QED BY <1>16, <3>1
  <2>2. Past(u, all[i].ticket)
        BY <1>15, <1>17, <2>1
  <2> QED BY <1>4, <1>10, <2>2
<1>22. ASSUME NEW i \in 1..Len(c.photos) PROVE Held(c.photos[i], u)
  <2>1. Held(c.photos[i], s)
        BY <1>14 DEF Landings
  <2>2. c.photos[i].ticket \in Nat
    <3>1. c.photos[i] \in Inspections(n)
          BY <1>2, ElementOfSeq
    <3> QED BY <3>1 DEF Inspections, Missions
  <2>3. \A j \in 1..L : c.photos[i].ticket < c.waiting[j].ticket
        BY <1>14 DEF Landings, Under
  <2>4. \A j \in 1..L : all[j].ticket # c.photos[i].ticket
        BY <1>4, <1>15, <2>2, <2>3
  <2> QED BY <1>19, <2>1, <2>4 DEF Held
<1>23. /\ Landings(photos, waiting, u)
       /\ \A t : Under(c.photos, t) /\ Under(c.waiting, t) => Under(photos, t) /\ Under(waiting, t)
  <2>1. \A i \in 1..Len(after) : after[i].ticket = c.waiting[i].ticket /\ Held(after[i], u)
        BY <1>10, <1>11, <1>20
  <2>2. \A i \in 1..Len(after) : ready < i => Past(u, after[i].ticket)
        BY <1>11, <1>21
  <2> QED BY <1>2, <1>7, <1>11, <1>14, <1>22, <2>1, <2>2, LineMoves
<1> HIDE DEF photos, waiting
<1>24. Newest(c.mission, photos, waiting, c.orders, u)
  <2> SUFFICES ASSUME c.mission.kind # "none"
               PROVE  /\ Under(photos, c.mission.ticket) /\ Under(waiting, c.mission.ticket)
                      /\ Held(c.mission, u) /\ Past(u, c.mission.ticket)
                      /\ Claims(c.mission, c.orders)
      BY DEF Newest
  <2>1. /\ Under(c.photos, c.mission.ticket) /\ Under(c.waiting, c.mission.ticket)
        /\ Held(c.mission, s) /\ Past(s, c.mission.ticket) /\ Claims(c.mission, c.orders)
        BY <1>14 DEF Newest
  <2>2. \A j \in 1..L : all[j].ticket < c.mission.ticket
        BY <1>4, <2>1 DEF Under
  <2>3. c.mission.ticket \in Nat
        BY <1>2 DEF Missions
  <2>4. \A j \in 1..L : all[j].ticket # c.mission.ticket
        BY <1>15, <2>2, <2>3
  <2>5. Held(c.mission, u)
        BY <1>19, <2>1, <2>4 DEF Held
  <2>6. \A j \in 1..ready : all[j].ticket < c.mission.ticket
    <3>1. \A j \in 1..ready : j \in 1..L
          BY <1>3, <1>7
    <3> QED BY <2>2, <3>1
  <2>7. Past(u, c.mission.ticket)
        BY <1>17, <2>1, <2>6
  <2> QED BY <1>23, <2>1, <2>5, <2>7
<1>25. LET d == Flush(c)
       IN  /\ d.out = out /\ d.photos = photos /\ d.waiting = waiting /\ d.mission = c.mission
           /\ d.orders = c.orders /\ d.seq = c.seq
       BY <1>1 DEF Station
<1> QED BY <1>14, <1>17, <1>18, <1>23, <1>24, <1>25 DEF Telling, Speaks

LEMMA ReportTold ==
    ASSUME NEW n \in Nat, Env, NEW c \in Station(n), NEW a \in Seq(Events(n)), Telling(c, a),
           c.mission.kind # "none"
    PROVE  /\ Telling(ReportPoints(c), a)
           /\ ReportPoints(c).mission = PointsReported(c.mission)
<1> DEFINE m == c.mission
           p == PointsReported(m)
           v == PointEvents(m)
           out == c.out \o v
           s == a \o c.out
           u == s \o v
<1>1. /\ m \in Missions(n) /\ c.out \in Seq(Events(n)) /\ c.photos \in Seq(Inspections(n))
      /\ c.waiting \in Seq(Inspections(n))
      BY DEF Station
<1>2. ReportPoints(c) = [c EXCEPT !.mission = p, !.out = out]
      BY DEF ReportPoints
<1>3. LET d == ReportPoints(c)
      IN  /\ d.out = out /\ d.photos = c.photos /\ d.waiting = c.waiting /\ d.mission = p
          /\ d.orders = c.orders /\ d.seq = c.seq
  <2> HIDE DEF p, out
  <2> QED BY <1>2 DEF Station
<1>4. v \in Seq(Events(n))
      BY <1>1, PointEventsType
<1>5. p \in Missions(n) /\ p.ticket = m.ticket /\ p.reached = m.reached
      /\ p.kind = m.kind /\ p.flown = m.flown /\ p.landed = m.landed
      BY <1>1, ReportedSame
<1> HIDE DEF v, p
<1>6. s \in Seq(Events(n))
      BY <1>1, ConcatProperties
<1>7. a \o out = u
  <2>1. \A x, y, z \in Seq(Events(n)) : (x \o y) \o z = x \o (y \o z)
        BY ConcatThree
  <2> QED BY <1>1, <1>4, <2>1
<1>8. /\ Tale(s) /\ Landings(c.photos, c.waiting, s) /\ Kinded(c.seq)
      /\ Newest(m, c.photos, c.waiting, c.orders, s)
      BY DEF Telling, Speaks
<1> HIDE DEF s, out
<1>9. /\ Under(c.photos, m.ticket) /\ Under(c.waiting, m.ticket) /\ Held(m, s)
      /\ Past(s, m.ticket) /\ Claims(m, c.orders)
      BY <1>8 DEF Newest
<1>10. /\ Tale(u) /\ Upto(u, m.ticket, p.reported)
       /\ \A t, k : t # m.ticket /\ Upto(s, t, k) => Upto(u, t, k)
       /\ \A t : Past(s, t) => Past(u, t)
  <2>1. m.kind # "none"
        OBVIOUS
  <2> HIDE DEF m
  <2> QED BY <1>1, <1>6, <1>8, <1>9, <2>1, PhotosContinue DEF p, v
<1> HIDE DEF u
<1>a. /\ \A i \in 1..Len(c.photos) : c.photos[i].ticket \in Nat
      /\ \A i \in 1..Len(c.waiting) : c.waiting[i].ticket \in Nat
      /\ m.ticket \in Nat
  <2>1. /\ \A i \in 1..Len(c.photos) : c.photos[i] \in Inspections(n)
        /\ \A i \in 1..Len(c.waiting) : c.waiting[i] \in Inspections(n)
        BY <1>1, ElementOfSeq
  <2> QED BY <1>1, <2>1 DEF Inspections, Missions
<1>11. ASSUME NEW i \in 1..Len(c.photos) PROVE Held(c.photos[i], u)
  <2>1. Held(c.photos[i], s)
        BY <1>8 DEF Landings
  <2>2. c.photos[i].ticket # m.ticket
        BY <1>9, <1>a DEF Under
  <2> QED BY <1>10, <2>1, <2>2 DEF Held
<1>12. ASSUME NEW i \in 1..Len(c.waiting) PROVE Held(c.waiting[i], u)
  <2>1. Held(c.waiting[i], s)
        BY <1>8 DEF Landings
  <2>2. c.waiting[i].ticket # m.ticket
        BY <1>9, <1>a DEF Under
  <2> QED BY <1>10, <2>1, <2>2 DEF Held
<1>13. Landings(c.photos, c.waiting, u)
       BY <1>8, <1>10, <1>11, <1>12 DEF Landings
<1>14. Newest(p, c.photos, c.waiting, c.orders, u)
  <2>1. Visited(p)
        BY <1>5, <1>9 DEF Held, Visited
  <2>2. Held(p, u)
        BY <1>5, <1>10, <2>1 DEF Held
  <2>3. Claims(p, c.orders)
        BY <1>5, <1>9 DEF Claims
  <2> QED BY <1>5, <1>9, <1>10, <2>2, <2>3 DEF Newest
<1> QED BY <1>3, <1>7, <1>8, <1>10, <1>13, <1>14 DEF Telling, Speaks, p

\* The mission is replaced by none, or has come further.
LEMMA MissionTold ==
    ASSUME NEW c, NEW d, NEW a, Telling(c, a), d.out = c.out, d.photos = c.photos,
           d.waiting = c.waiting, d.orders = c.orders, d.seq = c.seq,
           d.mission.kind # "none" =>
               /\ c.mission.kind # "none" /\ d.mission.ticket = c.mission.ticket
               /\ d.mission.reported = c.mission.reported
               /\ Visited(d.mission) /\ Claims(d.mission, c.orders)
    PROVE  Telling(d, a)
<1> DEFINE s == a \o c.out
<1>1. /\ Tale(s) /\ Landings(c.photos, c.waiting, s) /\ Kinded(c.seq)
      /\ Newest(c.mission, c.photos, c.waiting, c.orders, s)
      BY DEF Telling, Speaks
<1>0. a \o d.out = s
      OBVIOUS
<1> HIDE DEF s
<1>2. Newest(d.mission, c.photos, c.waiting, c.orders, s)
  <2> SUFFICES ASSUME d.mission.kind # "none"
               PROVE  /\ Under(c.photos, d.mission.ticket) /\ Under(c.waiting, d.mission.ticket)
                      /\ Held(d.mission, s) /\ Past(s, d.mission.ticket)
                      /\ Claims(d.mission, c.orders)
      BY DEF Newest
  <2>1. /\ Under(c.photos, c.mission.ticket) /\ Under(c.waiting, c.mission.ticket)
        /\ Held(c.mission, s) /\ Past(s, c.mission.ticket)
        BY <1>1 DEF Newest
  <2>2. Held(d.mission, s)
        BY <2>1 DEF Held
  <2> QED BY <2>1, <2>2
<1> QED BY <1>0, <1>1, <1>2 DEF Telling, Speaks

LEMMA TellLandingTold ==
    ASSUME NEW n \in Nat, Env, NEW c \in Station(n), NEW a \in Seq(Events(n)), Telling(c, a),
           c.landing # NoTicket
    PROVE  /\ Telling(TellLanding(c), a) /\ TellLanding(c).mission = c.mission
<1> DEFINE e == EventOf(address.no, "07", c.landing, 0)
           v == <<e>>
           out == c.out \o v
           s == a \o c.out
           u == s \o v
<1>1. c.out \in Seq(Events(n)) /\ c.landing \in 1..n
      BY DEF Station, NoTicket
<1>2. "07" \in Status /\ 0 \in 0..MaxPoints /\ address.no \in Numbers
      BY ProjectorAssumption, AddressFacts DEF Status
<1>3. e \in Events(n)
      BY <1>1, <1>2, EventType
<1>4. e.status = "07"
      BY DEF EventOf
<1>5. TellLanding(c) = [c EXCEPT !.told = TRUE, !.out = out]
  <2>1. Append(c.out, e) = out
    <3> HIDE DEF e
    <3> QED BY <1>1, <1>3, AppendIsConcat
  <2>2. TellLanding(c) = [c EXCEPT !.told = TRUE, !.out = Append(c.out, e)]
        BY DEF TellLanding
  <2> QED BY <2>1, <2>2
<1> HIDE DEF e
<1>6. v \in Seq(Events(n)) /\ s \in Seq(Events(n))
  <2>1. v \in Seq(Events(n))
        BY <1>3, EmptySeq
  <2> QED BY <1>1, <2>1, ConcatProperties
<1>7. a \o out = u
  <2>1. \A x, y, z \in Seq(Events(n)) : (x \o y) \o z = x \o (y \o z)
        BY ConcatThree
  <2> QED BY <1>1, <1>6, <2>1
<1>8. LET d == TellLanding(c)
      IN  /\ d.out = out /\ d.photos = c.photos /\ d.waiting = c.waiting /\ d.mission = c.mission
          /\ d.orders = c.orders /\ d.seq = c.seq
  <2> HIDE DEF out
  <2> QED BY <1>5 DEF Station
<1>9. /\ Tale(s) /\ Landings(c.photos, c.waiting, s) /\ Kinded(c.seq)
      /\ Newest(c.mission, c.photos, c.waiting, c.orders, s)
      BY DEF Telling, Speaks
<1> HIDE DEF s, out
<1>10. /\ Tale(u) /\ \A t, p : Upto(s, t, p) => Upto(u, t, p)
       /\ \A t : Past(s, t) => Past(u, t)
  <2>1. Is(e) /\ After(s, e)
        BY <1>4 DEF Is, After, Before
  <2> QED BY <1>3, <1>4, <1>6, <1>9, <2>1, OneTold
<1> HIDE DEF u, v
<1>11. Landings(c.photos, c.waiting, u)
       BY <1>9, <1>10 DEF Landings, Held
<1>12. Newest(c.mission, c.photos, c.waiting, c.orders, u)
       BY <1>9, <1>10 DEF Newest, Held
<1> QED BY <1>7, <1>8, <1>9, <1>10, <1>11, <1>12 DEF Telling, Speaks

LEMMA FinishTold ==
    ASSUME NEW n \in Nat, Env, NEW c \in Station(n), NEW a \in Seq(Events(n)), Telling(c, a)
    PROVE  /\ Telling(Finish(c), a)
           /\ Finish(c).mission = c.mission \/ Finish(c).mission.kind = "none"
<1>1. CASE c.mission.kind = "inspection" /\ c.mission.flown /\ c.mission.landed
  <2> DEFINE m == c.mission
             w == Append(c.waiting, m)
             d == [Dropped(c) EXCEPT !.waiting = w]
             s == a \o c.out
  <2>1. Finish(c) = Flush(d)
    <3>1. Dropped(c).waiting = c.waiting
          BY DEF Dropped, Station
    <3> QED BY <1>1, <3>1 DEF Finish
  <2>2. /\ c.waiting \in Seq(Inspections(n)) /\ m \in Inspections(n)
        /\ c.photos \in Seq(Inspections(n))
        BY <1>1 DEF Station, Inspections
  <2>3. /\ w \in Seq(Inspections(n)) /\ Len(c.waiting) \in Nat /\ Len(w) = Len(c.waiting) + 1
        /\ \A i \in 1..Len(c.waiting) : w[i] = c.waiting[i]
        /\ w[Len(c.waiting) + 1] = m
        BY <2>2, AppendAt
  <2> HIDE DEF w
  <2>4. Dropped(c) \in Station(n)
        BY SmallUpdates
  <2>5. /\ d \in Station(n) /\ d.mission = NoMission /\ d.out = c.out /\ d.photos = c.photos
        /\ d.waiting = w /\ d.orders = c.orders /\ d.seq = c.seq
        BY <2>3, <2>4 DEF Station, Dropped
  <2> HIDE DEF d
  <2>6. /\ Tale(s) /\ Landings(c.photos, c.waiting, s) /\ Kinded(c.seq)
        /\ Newest(m, c.photos, c.waiting, c.orders, s)
        BY DEF Telling, Speaks
  <2>7. /\ Under(c.photos, m.ticket) /\ Under(c.waiting, m.ticket) /\ Held(m, s)
        /\ Past(s, m.ticket) /\ m.ticket \in flights.landed
    <3>1. Claims(m, c.orders) => m.ticket \in flights.landed
          BY <1>1 DEF Claims
    <3> QED BY <1>1, <2>6, <3>1 DEF Newest
  <2> HIDE DEF s, m
  <2>8. \A i \in 1..Len(w) : i \in 1..Len(c.waiting) \/ i = Len(c.waiting) + 1
        BY <2>3
  <2>9. Rising(w)
    <3> SUFFICES ASSUME NEW i \in 1..Len(w), NEW j \in 1..Len(w), i < j
                 PROVE  w[i].ticket < w[j].ticket
        BY DEF Rising
    <3>1. i \in 1..Len(c.waiting)
          BY <2>3
    <3>2. CASE j \in 1..Len(c.waiting)
          BY <2>3, <2>6, <3>1, <3>2 DEF Landings, Rising
    <3>3. CASE j = Len(c.waiting) + 1
          BY <2>3, <2>7, <3>1, <3>3 DEF Under
    <3> QED BY <2>8, <3>2, <3>3
  <2>10. ASSUME NEW i \in 1..Len(w)
         PROVE  /\ Held(w[i], s) /\ w[i].ticket \in flights.landed
                /\ Past(s, w[i].ticket) /\ Under(c.photos, w[i].ticket)
    <3>1. CASE i \in 1..Len(c.waiting)
          BY <2>3, <2>6, <3>1 DEF Landings
    <3>2. CASE i = Len(c.waiting) + 1
          BY <2>3, <2>7, <3>2
    <3> QED BY <2>8, <3>1, <3>2
  <2>11. Landings(c.photos, w, s)
         BY <2>6, <2>9, <2>10 DEF Landings
  <2>12. NoMission.kind = "none"
         BY NoMissionType
  <2>13. Newest(NoMission, c.photos, w, c.orders, s)
         BY <2>12 DEF Newest
  <2>14. Telling(d, a)
         BY <2>5, <2>6, <2>11, <2>13 DEF Telling, Speaks, s
  <2>15. Telling(Flush(d), a) /\ Flush(d).mission = d.mission
         BY <2>5, <2>14, FlushTold
  <2> QED BY <2>1, <2>5, <2>12, <2>15
<1>2. CASE ~(c.mission.kind = "inspection" /\ c.mission.flown /\ c.mission.landed)
      BY <1>2, FlushTold DEF Finish
<1> QED BY <1>1, <1>2

\* Mission p flies no flight that m has not flown.
Known(m, p) == p.kind = "inspection" /\ p.flown =>
                   m.kind = "inspection" /\ m.flown /\ p.ticket = m.ticket

LEMMA ObserveResultTold ==
    ASSUME NEW n \in Nat, Env, NEW c \in Station(n), NEW a \in Seq(Events(n)), Telling(c, a),
           NEW r \in Results(n), Chronicle(c.orders), Truthful(c.orders, flights.done, r),
           c.mission.kind = "inspection" /\ c.mission.flown /\ Win(r) => c.mission.ticket < r.ticket
    PROVE  LET d == ObserveResult(c, r)
           IN  /\ Telling(d, a)
               /\ Known(c.mission, d.mission) \/ (Win(r) /\ d.mission.ticket = r.ticket)
<1>0. /\ r.ticket \in 1..n /\ r.ok \in BOOLEAN /\ r.final \in BOOLEAN
      /\ c.mission \in Missions(n) /\ c.landing \in 0..n
      BY DEF Results, Station
<1>a. Newest(c.mission, c.photos, c.waiting, c.orders, a \o c.out)
      BY DEF Telling, Speaks
<1>b. c.mission.kind # "none" => Visited(c.mission) /\ Claims(c.mission, c.orders)
      BY <1>a DEF Newest, Held
<1>c. r.name = c.orders[r.ticket].name /\ (Win(r) => r.ticket \in flights.done)
      BY DEF Truthful, Win
<1>1. CASE r.name = "land" /\ r.ticket = c.landing
  <2> DEFINE told == IF r.ok /\ ~c.told THEN TellLanding(c) ELSE c
  <2>0. c.landing # NoTicket
        BY <1>0, <1>1 DEF NoTicket
  <2>1. told \in Station(n) /\ Projects(c, told) /\ Telling(told, a) /\ told.mission = c.mission
    <3>1. Projects(c, c)
          BY DEF Projects
    <3> QED BY <2>0, <3>1, TellLandingType, TellLandingTold
  <2> DEFINE landing == IF r.final THEN NoTicket ELSE told.landing
             landed == told.mission.landed \/ Landed(c, r)
             m == [told.mission EXCEPT !.landed = landed]
             d == [told EXCEPT !.mission = m, !.landing = landing]
  <2>2. ObserveResult(c, r) = Finish(d)
        BY <1>1 DEF ObserveResult, LandingResult
  <2> HIDE DEF told
  <2>3. landing \in 0..n /\ landed \in BOOLEAN
    <3>1. told.landing \in 0..n
          BY <2>1 DEF Station
    <3> QED BY <3>1 DEF NoTicket
  <2>l. landed => c.mission.landed \/ Landed(c, r)
        BY <2>1
  <2> HIDE DEF landing, landed
  <2>4. /\ m \in Missions(n) /\ m.ticket = c.mission.ticket /\ m.kind = c.mission.kind
        /\ m.reached = c.mission.reached /\ m.reported = c.mission.reported
        /\ m.flown = c.mission.flown /\ m.landed = landed
        BY <1>0, <2>1, <2>3 DEF Missions
  <2> HIDE DEF m
  <2>5. /\ d \in Station(n) /\ d.mission = m /\ d.out = told.out /\ d.photos = told.photos
        /\ d.waiting = told.waiting /\ d.orders = told.orders /\ d.seq = told.seq
        BY <2>1, <2>3, <2>4 DEF Station
  <2>6. told.orders = c.orders
        BY <2>1 DEF Projects
  <2> HIDE DEF d
  <2>7. ASSUME m.kind # "none" PROVE Visited(m) /\ Claims(m, c.orders)
    <3>1. Visited(c.mission) /\ Claims(c.mission, c.orders)
          BY <1>b, <2>4, <2>7
    <3>2. Visited(m)
          BY <2>4, <3>1 DEF Visited
    <3>3. ASSUME m.kind = "inspection", Landed(c, r) PROVE m.ticket \in flights.landed
      <4>1. Win(r)
            BY <1>1, <3>3 DEF Win, Landed
      <4>2. r.ticket \in flights.done /\ c.orders[r.ticket].name = "land"
            BY <1>1, <1>c, <4>1
      <4>3. c.mission.flown /\ c.mission.ticket < r.ticket
            BY <2>4, <3>3, <4>1 DEF Landed
      <4>4. /\ c.mission.ticket \in flights.done
            /\ c.orders[c.mission.ticket].name = "waypoints"
            BY <2>4, <3>1, <3>3, <4>3 DEF Claims
      <4>5. c.mission.ticket \in flights.landed
            BY <4>2, <4>3, <4>4 DEF Chronicle
      <4> QED BY <2>4, <4>5
    <3>4. Claims(m, c.orders)
          BY <2>4, <2>l, <3>1, <3>3 DEF Claims
    <3> QED BY <3>2, <3>4
  <2>8. Telling(d, a)
    <3>1. d.mission.kind # "none" =>
             /\ told.mission.kind # "none" /\ d.mission.ticket = told.mission.ticket
             /\ d.mission.reported = told.mission.reported
             /\ Visited(d.mission) /\ Claims(d.mission, told.orders)
          BY <2>1, <2>4, <2>5, <2>6, <2>7
    <3> QED BY <2>1, <2>5, <3>1, MissionTold
  <2>9. /\ Telling(Finish(d), a)
        /\ Finish(d).mission = m \/ Finish(d).mission.kind = "none"
        BY <2>5, <2>8, FinishTold
  <2>10. Known(c.mission, m)
         BY <2>4 DEF Known
  <2> DEFINE last == Finish(d).mission
  <2>11. Known(c.mission, last)
    <3>1. last = m \/ last.kind = "none"
          BY <2>9
    <3> HIDE DEF last
    <3>2. CASE last = m
          BY <2>10, <3>2
    <3>3. CASE last.kind = "none"
          BY <3>3 DEF Known
    <3> QED BY <3>1, <3>2, <3>3
  <2> QED BY <2>2, <2>9, <2>11
<1>2. CASE /\ ~(r.name = "land" /\ r.ticket = c.landing)
           /\ r.name = "waypoints" /\ r.final /\ Active(c) /\ r.ticket = c.mission.ticket
  <2>1. ObserveResult(c, r) = WaypointResult(c, r)
        BY <1>2 DEF ObserveResult
  <2>2. CASE r.ok /\ c.mission.kind = "inspection"
    <3> DEFINE d == [c EXCEPT !.mission.reached = c.mission.size, !.mission.flown = TRUE]
               m == [c.mission EXCEPT !.reached = c.mission.size, !.flown = TRUE]
    <3>1. WaypointResult(c, r) = ReportPoints(d)
          BY <2>2 DEF WaypointResult
    <3>3. d = [c EXCEPT !.mission = m]
          BY <1>0 DEF Station, Missions
    <3>4. m \in Missions(n)
      <4>1. /\ c.mission.reported \in 0..MaxPoints /\ c.mission.size \in 0..MaxPoints
            /\ c.mission.reached \in 0..MaxPoints /\ MaxPoints \in Nat
            /\ c.mission.reported <= c.mission.reached /\ c.mission.reached <= c.mission.size
            BY <1>0, ProjectorAssumption DEF Missions
      <4>2. c.mission.reported <= c.mission.size /\ c.mission.size <= c.mission.size
            BY <4>1
      <4> QED BY <2>2, <1>0, <4>1, <4>2 DEF Missions
    <3>5. /\ m.kind = "inspection" /\ m.ticket = c.mission.ticket /\ m.flown = TRUE
          /\ m.landed = c.mission.landed /\ m.reported = c.mission.reported
          /\ m.reached = limit.points
          BY <1>0, <2>2 DEF Missions
    <3> HIDE DEF d, m
    <3>6. /\ d \in Station(n) /\ d.mission = m /\ d.out = c.out /\ d.photos = c.photos
          /\ d.waiting = c.waiting /\ d.orders = c.orders /\ d.seq = c.seq
          BY <3>3, <3>4 DEF Station
    <3>7. Win(r) /\ r.ticket \in flights.done /\ c.orders[r.ticket].name = "waypoints"
          BY <1>2, <1>c, <2>2 DEF Win
    <3>8. c.orders[m.ticket].command # NoCommand /\ (m.landed => m.ticket \in flights.landed)
          BY <1>b, <2>2, <3>5 DEF Claims
    <3>9. Claims(m, c.orders)
          BY <1>2, <3>5, <3>7, <3>8 DEF Claims
    <3>10. Visited(m)
      <4>1. \A i \in 1..limit.points : <<r.ticket, i>> \in flights.reached
            BY <1>2, <3>5, <3>7, <3>8 DEF Chronicle
      <4> QED BY <1>2, <3>5, <4>1 DEF Visited
    <3>11. Telling(d, a)
      <4>1. d.mission.kind # "none" =>
               /\ c.mission.kind # "none" /\ d.mission.ticket = c.mission.ticket
               /\ d.mission.reported = c.mission.reported
               /\ Visited(d.mission) /\ Claims(d.mission, c.orders)
            BY <2>2, <3>5, <3>6, <3>9, <3>10
      <4> QED BY <3>6, <4>1, MissionTold
    <3>12. Telling(ReportPoints(d), a) /\ ReportPoints(d).mission = PointsReported(m)
           BY <3>5, <3>6, <3>11, ReportTold
    <3>13. PointsReported(m).ticket = r.ticket
           BY <1>2, <3>4, <3>5, ReportedSame
    <3> QED BY <2>1, <3>1, <3>7, <3>12, <3>13
  <2>3. CASE ~(r.ok /\ c.mission.kind = "inspection")
    <3>1. WaypointResult(c, r) = Dropped(c)
          BY <2>3 DEF WaypointResult
    <3> DEFINE d == Dropped(c)
    <3>2. NoMission.kind = "none"
          BY NoMissionType
    <3>3. /\ d.mission.kind = "none" /\ d.out = c.out /\ d.photos = c.photos
          /\ d.waiting = c.waiting /\ d.orders = c.orders /\ d.seq = c.seq
          BY <3>2 DEF Station, Dropped
    <3> HIDE DEF d
    <3>4. Telling(d, a) /\ Known(c.mission, d.mission)
          BY <3>3, MissionTold DEF Known
    <3> QED BY <2>1, <3>1, <3>4 DEF d
  <2> QED BY <2>2, <2>3
<1>3. CASE /\ ~(r.name = "land" /\ r.ticket = c.landing)
           /\ ~(r.name = "waypoints" /\ r.final /\ Active(c) /\ r.ticket = c.mission.ticket)
      BY <1>3 DEF ObserveResult, Known
<1> QED BY <1>1, <1>2, <1>3

LEMMA SameTold ==
    ASSUME NEW c, NEW d, NEW a, Telling(c, a), d.out = c.out, d.photos = c.photos,
           d.waiting = c.waiting, d.orders = c.orders, d.seq = c.seq, d.mission = c.mission
    PROVE  Telling(d, a)
BY DEF Telling

LEMMA KnownTwice ==
    ASSUME NEW m, NEW p, NEW q, Known(m, p), Known(p, q)
    PROVE  Known(m, q)
BY DEF Known

LEMMA ObserveMissionTold ==
    ASSUME NEW n \in Nat, Env, NEW c \in Station(n), NEW a \in Seq(Events(n)), Telling(c, a),
           NEW s, s.point \in 0..MaxPoints,
           s.mode = "waypoint" => \A i \in 1..(s.point - 1) : <<s.ticket, i>> \in flights.reached
    PROVE  LET d == ObserveMission(c, s) IN Telling(d, a) /\ Known(c.mission, d.mission)
<1> DEFINE d == IF Active(c) /\ Flying(c.mission, s) /\ ~c.mission.started
                THEN [Woke(c) EXCEPT !.mission.started = connected] ELSE c
           passed == Min({s.point - 1, c.mission.size})
           reached == Max({d.mission.reached, passed})
           e == [d EXCEPT !.mission.reached = reached]
<1>0. c.mission \in Missions(n)
      BY DEF Station
<1>a. Newest(c.mission, c.photos, c.waiting, c.orders, a \o c.out)
      BY DEF Telling, Speaks
<1>b. c.mission.kind # "none" => Visited(c.mission) /\ Claims(c.mission, c.orders)
      BY <1>a DEF Newest, Held
<1>1. /\ d \in Station(n) /\ d.out = c.out /\ d.photos = c.photos
      /\ d.waiting = c.waiting /\ d.orders = c.orders /\ d.seq = c.seq
      /\ d.mission \in Missions(n) /\ d.mission.ticket = c.mission.ticket
      /\ d.mission.kind = c.mission.kind /\ d.mission.reported = c.mission.reported
      /\ d.mission.reached = c.mission.reached /\ d.mission.flown = c.mission.flown
      /\ d.mission.landed = c.mission.landed /\ d.mission.size = c.mission.size
  <2>1. CASE Active(c) /\ Flying(c.mission, s) /\ ~c.mission.started
    <3> DEFINE m == [c.mission EXCEPT !.started = connected]
    <3>1. /\ Woke(c) \in Station(n) /\ Woke(c).mission = c.mission /\ Woke(c).out = c.out
          /\ Woke(c).photos = c.photos /\ Woke(c).waiting = c.waiting
          /\ Woke(c).orders = c.orders /\ Woke(c).seq = c.seq
      <4>1. Woke(c) \in Station(n)
            BY SmallUpdates
      <4>2. /\ Woke(c).mission = c.mission /\ Woke(c).out = c.out
            /\ Woke(c).photos = c.photos /\ Woke(c).waiting = c.waiting
            /\ Woke(c).orders = c.orders /\ Woke(c).seq = c.seq
            BY DEF Woke, Station
      <4> QED BY <4>1, <4>2
    <3>2. d = [Woke(c) EXCEPT !.mission = m]
          BY <2>1, <3>1 DEF Station
    <3>3. /\ m \in Missions(n) /\ m.ticket = c.mission.ticket
          /\ m.kind = c.mission.kind /\ m.reported = c.mission.reported
          /\ m.reached = c.mission.reached /\ m.flown = c.mission.flown
          /\ m.landed = c.mission.landed /\ m.size = c.mission.size
          BY <1>0, <2>1 DEF Missions, Active, Env, Place
    <3> DEFINE w == Woke(c)
    <3> HIDE DEF m, d, w
    <3>4. d = [w EXCEPT !.mission = m] /\ w \in Station(n)
          BY <3>1, <3>2 DEF w
    <3>5. /\ d \in Station(n) /\ d.out = w.out /\ d.photos = w.photos
          /\ d.waiting = w.waiting /\ d.orders = w.orders /\ d.seq = w.seq
          /\ d.mission = m
          BY <3>3, <3>4 DEF Station
    <3> QED BY <3>1, <3>3, <3>5 DEF w
  <2>2. CASE ~(Active(c) /\ Flying(c.mission, s) /\ ~c.mission.started)
        BY <1>0, <2>2
  <2> QED BY <2>1, <2>2
<1>2. ObserveMission(c, s) =
          IF d.mission.started /\ Flying(c.mission, s) /\ c.mission.kind = "inspection"
          THEN ReportPoints(e) ELSE d
      BY DEF ObserveMission
<1> HIDE DEF d
<1>3. c.mission.kind # "none" => Visited(d.mission) /\ Claims(d.mission, c.orders)
      BY <1>1, <1>b DEF Visited, Claims
<1>4. Telling(d, a)
      BY <1>1, <1>3, MissionTold
<1>5. Known(c.mission, d.mission)
      BY <1>1 DEF Known
<1>6. CASE d.mission.started /\ Flying(c.mission, s) /\ c.mission.kind = "inspection"
  <2> DEFINE m == [d.mission EXCEPT !.reached = reached]
  <2>1. d.mission \in Missions(n)
        BY <1>1
  <2>2. passed \in Int /\ passed <= d.mission.size /\ passed <= s.point - 1
    <3>1. s.point - 1 \in Int /\ c.mission.size \in Int
          BY <1>0, ProjectorAssumption DEF Missions
    <3>2. passed = IF s.point - 1 <= c.mission.size THEN s.point - 1 ELSE c.mission.size
          BY <3>1, MinOfTwo
    <3> HIDE DEF passed
    <3> QED BY <1>1, <3>1, <3>2
  <2> HIDE DEF passed
  <2>3. /\ d.mission.reached \in Nat /\ d.mission.size \in 0..MaxPoints
        /\ d.mission.reached <= d.mission.size /\ d.mission.reported <= d.mission.reached
        /\ d.mission.reported \in Nat
        BY <2>1 DEF Missions
  <2>4. reached = IF d.mission.reached >= passed THEN d.mission.reached ELSE passed
        BY <2>2, <2>3, MaxOfTwo
  <2> HIDE DEF reached
  <2>5. reached \in 0..MaxPoints /\ reached <= d.mission.size /\ d.mission.reported <= reached
        BY <2>2, <2>3, <2>4, ProjectorAssumption
  <2>6. m \in Missions(n) /\ m.kind = d.mission.kind /\ m.ticket = d.mission.ticket
        /\ m.reached = reached /\ m.reported = d.mission.reported
        /\ m.flown = d.mission.flown /\ m.landed = d.mission.landed
        BY <2>1, <2>5 DEF Missions
  <2>7. e = [d EXCEPT !.mission = m]
        BY <1>1 DEF Station
  <2> HIDE DEF m, e
  <2>8. /\ e \in Station(n) /\ e.mission = m /\ e.out = d.out /\ e.photos = d.photos
        /\ e.waiting = d.waiting /\ e.orders = d.orders /\ e.seq = d.seq
        BY <1>1, <2>6, <2>7 DEF Station
  <2>9. Visited(m)
    <3> SUFFICES ASSUME NEW i \in 1..reached PROVE <<m.ticket, i>> \in flights.reached
        BY <2>6 DEF Visited
    <3>1. CASE i <= d.mission.reached
      <4>1. i \in 1..d.mission.reached
            BY <2>3, <2>5, <3>1
      <4>2. Visited(d.mission)
            BY <1>3, <1>6
      <4> QED BY <2>6, <4>1, <4>2 DEF Visited
    <3>2. CASE ~(i <= d.mission.reached)
      <4>1. i \in 1..(s.point - 1)
            BY <2>2, <2>3, <2>4, <2>5, <3>2
      <4>2. s.mode = "waypoint" /\ s.ticket = m.ticket
            BY <1>1, <1>6, <2>6 DEF Flying
      <4> QED BY <4>1, <4>2
    <3> QED BY <3>1, <3>2
  <2>10. Claims(m, c.orders)
    <3>1. Claims(d.mission, c.orders)
          BY <1>3, <1>6
    <3> QED BY <2>6, <3>1 DEF Claims
  <2>11. Telling(e, a)
    <3>1. e.mission.kind # "none" =>
             /\ d.mission.kind # "none" /\ e.mission.ticket = d.mission.ticket
             /\ e.mission.reported = d.mission.reported
             /\ Visited(e.mission) /\ Claims(e.mission, d.orders)
          BY <1>1, <2>6, <2>8, <2>9, <2>10
    <3> QED BY <1>4, <2>8, <3>1, MissionTold
  <2>12. Telling(ReportPoints(e), a) /\ ReportPoints(e).mission = PointsReported(m)
    <3>1. e.mission.kind # "none"
          BY <1>1, <1>6, <2>6, <2>8
    <3> QED BY <2>8, <2>11, <3>1, ReportTold
  <2>13. Known(c.mission, PointsReported(m))
    <3>1. /\ PointsReported(m).ticket = m.ticket /\ PointsReported(m).kind = m.kind
          /\ PointsReported(m).flown = m.flown
          BY <2>6, ReportedSame
    <3> QED BY <1>1, <2>6, <3>1 DEF Known
  <2> QED BY <1>2, <1>6, <2>12, <2>13
<1>7. CASE ~(d.mission.started /\ Flying(c.mission, s) /\ c.mission.kind = "inspection")
      BY <1>2, <1>4, <1>5, <1>7
<1> QED BY <1>6, <1>7

LEMMA FinishKnown ==
    ASSUME NEW n \in Nat, Env, NEW c \in Station(n), NEW a \in Seq(Events(n)), Telling(c, a)
    PROVE  Telling(Finish(c), a) /\ Known(c.mission, Finish(c).mission)
<1> DEFINE p == Finish(c).mission
<1>1. Telling(Finish(c), a)
      BY FinishTold
<1>2. p = c.mission \/ p.kind = "none"
      BY FinishTold
<1> HIDE DEF p
<1>3. Known(c.mission, p)
  <2>1. CASE p = c.mission
        BY <2>1 DEF Known
  <2>2. CASE p.kind = "none"
        BY <2>2 DEF Known
  <2> QED BY <1>2, <2>1, <2>2
<1> QED BY <1>1, <1>3 DEF p

LEMMA ObserveVehicleTold ==
    ASSUME NEW n \in Nat, Env, NEW c \in Station(n), NEW a \in Seq(Events(n)), Telling(c, a),
           NEW s, s.point \in 0..MaxPoints, NEW telemetry, NEW may,
           s.mode = "waypoint" => \A i \in 1..(s.point - 1) : <<s.ticket, i>> \in flights.reached
    PROVE  LET d == ObserveVehicle(c, s, telemetry, may)
           IN  Telling(d, a) /\ Known(c.mission, d.mission)
<1> DEFINE flying == ObserveMission(c, s)
           landing == IF c.landing # NoTicket /\ ~c.told /\ s.mode = "land"
                      THEN TellLanding(flying) ELSE flying
           done == Finish(landing)
           said == IF telemetry THEN Woke(done) ELSE done
           flew == IF s.armed \/ s.abnormal THEN [said EXCEPT !.standby = FALSE] ELSE said
           last == IF /\ may /\ ~flew.blocked /\ ~flew.standby /\ connected
                      /\ limit.mode = "simulation" \/ limit.home
                   THEN [Woke(flew) EXCEPT !.standby = TRUE] ELSE flew
<1>1. /\ flying \in Station(n) /\ flying.landing = c.landing
      /\ Telling(flying, a) /\ Known(c.mission, flying.mission)
  <2>1. ObserveMission(c, s).landing = c.landing
        BY DEF ObserveMission, ReportPoints, Woke, Station
  <2>2. ObserveMission(c, s) \in Station(n)
        BY ObserveMissionType
  <2>3. Telling(flying, a) /\ Known(c.mission, flying.mission)
        BY ObserveMissionTold
  <2> QED BY <2>1, <2>2, <2>3
<1>2. ObserveVehicle(c, s, telemetry, may) = last
      BY DEF ObserveVehicle
<1> HIDE DEF flying
<1>3. landing \in Station(n) /\ Telling(landing, a) /\ Known(c.mission, landing.mission)
  <2>1. CASE c.landing # NoTicket /\ ~c.told /\ s.mode = "land"
    <3>1. landing = TellLanding(flying)
          BY <2>1
    <3>2. /\ TellLanding(flying) \in Station(n) /\ Telling(TellLanding(flying), a)
          /\ TellLanding(flying).mission = flying.mission
          BY <1>1, <2>1, TellLandingType, TellLandingTold
    <3> QED BY <1>1, <3>1, <3>2
  <2>2. CASE ~(c.landing # NoTicket /\ ~c.told /\ s.mode = "land")
        BY <1>1, <2>2
  <2> QED BY <2>1, <2>2
<1> HIDE DEF landing
<1>4. done \in Station(n) /\ Telling(done, a) /\ Known(c.mission, done.mission)
  <2>1. done \in Station(n)
        BY <1>3, FinishType
  <2>2. Telling(done, a) /\ Known(landing.mission, done.mission)
        BY <1>3, FinishKnown
  <2> HIDE DEF done
  <2> QED BY <1>3, <2>1, <2>2, KnownTwice
<1> HIDE DEF done
<1> DEFINE Alike(x, y) == /\ y.out = x.out /\ y.photos = x.photos /\ y.waiting = x.waiting
                          /\ y.orders = x.orders /\ y.seq = x.seq /\ y.mission = x.mission
<1>w. \A x \in Station(n) : Woke(x) \in Station(n) /\ Alike(x, Woke(x))
  <2> TAKE x \in Station(n)
  <2>1. Woke(x) \in Station(n)
        BY SmallUpdates
  <2>2. Alike(x, Woke(x))
        BY DEF Woke, Station
  <2> QED BY <2>1, <2>2
<1>b. \A x \in Station(n) : LET y == [x EXCEPT !.standby = FALSE]
                            IN  y \in Station(n) /\ Alike(x, y)
      BY DEF Station
<1>c. \A x \in Station(n) : Alike(x, [x EXCEPT !.standby = TRUE])
      BY DEF Station
<1>d. \A x, y : Telling(x, a) /\ Alike(x, y) => Telling(y, a)
      BY SameTold
<1>e. \A x : Alike(x, x)
      OBVIOUS
<1>f. \A x, y : Alike(x, y) => y.mission = x.mission
      OBVIOUS
<1> HIDE DEF Alike
<1>5. said \in Station(n) /\ Alike(done, said)
      BY <1>4, <1>e, <1>w
<1> HIDE DEF said
<1>6. flew \in Station(n) /\ Alike(said, flew)
      BY <1>5, <1>b, <1>e
<1> HIDE DEF flew
<1>7. Telling(last, a) /\ last.mission = flew.mission
  <2> DEFINE woken == Woke(flew)
  <2>1. woken \in Station(n) /\ Alike(flew, woken)
        BY <1>6, <1>w
  <2>2. Telling(flew, a)
        BY <1>4, <1>5, <1>6, <1>d
  <2>3. Telling(woken, a) /\ woken.mission = flew.mission
        BY <2>1, <2>2, <1>d, <1>f
  <2>4. last = flew \/ last = [woken EXCEPT !.standby = TRUE]
        OBVIOUS
  <2> HIDE DEF woken, last
  <2>5. LET x == [woken EXCEPT !.standby = TRUE] IN Telling(x, a) /\ x.mission = woken.mission
        BY <2>1, <2>3, <1>c, <1>d, <1>f
  <2> QED BY <2>2, <2>3, <2>4, <2>5
<1> HIDE DEF last
<1> QED BY <1>2, <1>4, <1>5, <1>6, <1>7, <1>f

\* Photos of several missions, and no delivery.
LEMMA ManyTold ==
    ASSUME NEW n \in Nat, Env, NEW s \in Seq(Events(n)), Tale(s), NEW q \in Seq(Inspections(n)),
           \A i \in 1..Len(q) : Held(q[i], s),
           \A i, j \in 1..Len(q) : i < j => q[i].ticket # q[j].ticket,
           NEW events \in Seq(Seq(Events(n))), Len(events) = Len(q),
           \A i \in 1..Len(q) : events[i] = PointEvents(q[i])
    PROVE  LET u == s \o FlattenSeq(events)
           IN  /\ u \in Seq(Events(n)) /\ Tale(u)
               /\ \A i \in 1..Len(q) : Upto(u, q[i].ticket, PointsReported(q[i]).reported)
               /\ \A t, p : (\A i \in 1..Len(q) : t # q[i].ticket) /\ Upto(s, t, p) => Upto(u, t, p)
               /\ \A t : Past(s, t) => Past(u, t)
<1> DEFINE N == Len(q)
<1>1. N \in Nat /\ DOMAIN q = 1..N /\ \A i \in 1..N : q[i] \in Inspections(n)
      BY LenProperties, ElementOfSeq
<1>2. \A i \in 1..N : q[i] \in Missions(n) /\ q[i].kind # "none" /\ Held(q[i], s)
      BY <1>1 DEF Inspections
<1>5. \A i \in 1..N : events[i] = Batch(q[i], i <= 0)
  <2> TAKE i \in 1..N
  <2>1. ~(i <= 0)
        BY <1>1
  <2>2. Batch(q[i], i <= 0) = PointEvents(q[i]) \o <<>>
        BY <2>1 DEF Batch
  <2>3. PointEvents(q[i]) \in Seq(Events(n))
        BY <1>2, PointEventsType
  <2> QED BY <2>2, <2>3, ConcatEmptySeq
<1>6. /\ 0 \in 0..N /\ \A i \in 1..0 : q[i].ticket \in flights.landed /\ Past(s, q[i].ticket)
      /\ \A i, j \in 1..0 : i < j => q[i].ticket < q[j].ticket
      BY <1>1
<1>7. \A i, j \in 1..N : i < j => q[i].ticket # q[j].ticket
      OBVIOUS
<1> DEFINE ready == 0
           u == s \o FlattenSeq(events)
<1>a. ready \in 0..N
      BY <1>6
<1>b. \A i \in 1..ready : q[i].ticket \in flights.landed /\ Past(s, q[i].ticket)
      BY <1>6
<1>c. \A i, j \in 1..ready : i < j => q[i].ticket < q[j].ticket
      BY <1>6
<1>d. \A i \in 1..N : events[i] = Batch(q[i], i <= ready)
      BY <1>5
<1>f. Len(events) = N
      OBVIOUS
<1>9. \A t : \A i \in 1..ready : q[i].ticket < t
      OBVIOUS
<1> HIDE DEF N, ready
<1>8. /\ u \in Seq(Events(n)) /\ Tale(u)
      /\ \A i \in 1..N : Upto(u, q[i].ticket, PointsReported(q[i]).reported)
      /\ \A t, p : (\A i \in 1..N : t # q[i].ticket) /\ Upto(s, t, p) => Upto(u, t, p)
      /\ \A t : Past(s, t) /\ (\A i \in 1..ready : q[i].ticket < t) => Past(u, t)
      BY <1>1, <1>2, <1>7, <1>a, <1>b, <1>c, <1>d, <1>f, BatchesTold
<1> QED BY <1>8, <1>9 DEF N

LEMMA EventsOf ==
    ASSUME NEW n \in Nat, Env, NEW q \in Seq(Inspections(n))
    PROVE  LET events == [k \in DOMAIN q |-> PointEvents(q[k])]
           IN  /\ events \in Seq(Seq(Events(n))) /\ Len(events) = Len(q)
               /\ \A i \in 1..Len(q) : events[i] = PointEvents(q[i])
<1> DEFINE N == Len(q)
           events == [k \in DOMAIN q |-> PointEvents(q[k])]
<1>1. N \in Nat /\ DOMAIN q = 1..N /\ \A i \in 1..N : q[i] \in Inspections(n)
      BY LenProperties, ElementOfSeq
<1>2. \A i \in 1..N : q[i] \in Missions(n) /\ q[i].kind # "none"
      BY <1>1 DEF Inspections
<1>3. \A i \in 1..N : /\ events[i] = PointEvents(q[i])
                      /\ PointEvents(q[i]) \in Seq(Events(n))
      BY <1>1, <1>2, PointEventsType
<1>4. events = [i \in 1..N |-> events[i]] /\ \A i \in 1..N : events[i] \in Seq(Events(n))
      BY <1>1, <1>3
<1> HIDE DEF N, events
<1>5. events \in Seq(Seq(Events(n))) /\ Len(events) = N
      BY <1>1, <1>4, MapSeq
<1> QED BY <1>3, <1>5 DEF N, events

LEMMA ObserveMediaTold ==
    ASSUME NEW n \in Nat, Env, NEW c \in Station(n), NEW a \in Seq(Events(n)), Telling(c, a)
    PROVE  LET d == ObserveMedia(c) IN Telling(d, a) /\ Known(c.mission, d.mission)
<1> DEFINE flying == IF Active(c) THEN ReportPoints(c) ELSE c
           events == [k \in DOMAIN c.photos |-> PointEvents(c.photos[k])]
           after == [k \in DOMAIN c.photos |-> PointsReported(c.photos[k])]
           open == {m \in Range(after) : m.reported < m.size}
           photos == Within(after, open)
           out == flying.out \o FlattenSeq(events)
           d == [flying EXCEPT !.photos = photos, !.out = out]
<1>1. /\ flying \in Station(n) /\ Telling(flying, a) /\ Known(c.mission, flying.mission)
      /\ flying.photos = c.photos /\ flying.waiting = c.waiting
      /\ flying.orders = c.orders /\ flying.seq = c.seq
  <2>1. CASE Active(c)
    <3>1. c.mission.kind # "none" /\ flying = ReportPoints(c) /\ c.mission \in Missions(n)
          BY <2>1 DEF Active, Station
    <3>2. /\ ReportPoints(c) \in Station(n) /\ Telling(ReportPoints(c), a)
          /\ ReportPoints(c).mission = PointsReported(c.mission)
          BY <3>1, ReportPointsType, ReportTold
    <3>3. Known(c.mission, PointsReported(c.mission))
      <4>1. /\ PointsReported(c.mission).ticket = c.mission.ticket
            /\ PointsReported(c.mission).kind = c.mission.kind
            /\ PointsReported(c.mission).flown = c.mission.flown
            BY <3>1, ReportedSame
      <4> QED BY <4>1 DEF Known
    <3>4. /\ ReportPoints(c).photos = c.photos /\ ReportPoints(c).waiting = c.waiting
          /\ ReportPoints(c).orders = c.orders /\ ReportPoints(c).seq = c.seq
          BY DEF ReportPoints, Station
    <3> QED BY <3>1, <3>2, <3>3, <3>4
  <2>2. CASE ~Active(c)
        BY <2>2 DEF Known
  <2> QED BY <2>1, <2>2
<1>2. ObserveMedia(c) = Flush(d)
      BY DEF ObserveMedia
<1>3. /\ c.photos \in Seq(Inspections(n)) /\ Len(c.photos) \in Nat
      /\ DOMAIN c.photos = 1..Len(c.photos)
      /\ \A k \in 1..Len(c.photos) : c.photos[k] \in Inspections(n)
      /\ c.waiting \in Seq(Inspections(n))
      /\ \A k \in 1..Len(c.waiting) : c.waiting[k] \in Inspections(n)
  <2>1. c.photos \in Seq(Inspections(n)) /\ c.waiting \in Seq(Inspections(n))
        BY DEF Station
  <2> QED BY <2>1, LenProperties, ElementOfSeq
<1>4. \A k \in 1..Len(c.photos) :
          LET p == PointsReported(c.photos[k])
          IN  /\ after[k] = p /\ p \in Inspections(n)
              /\ p.ticket = c.photos[k].ticket /\ p.reached = c.photos[k].reached
  <2> TAKE k \in 1..Len(c.photos)
  <2>1. c.photos[k] \in Missions(n) /\ c.photos[k].kind = "inspection"
        BY <1>3 DEF Inspections
  <2>2. LET p == PointsReported(c.photos[k])
        IN  /\ p \in Missions(n) /\ p.kind = "inspection"
            /\ p.ticket = c.photos[k].ticket /\ p.reached = c.photos[k].reached
        BY <2>1, ReportedSame
  <2>3. after[k] = PointsReported(c.photos[k])
        BY <1>3
  <2> HIDE DEF after
  <2> QED BY <2>2, <2>3 DEF Inspections
<1>5. after \in Seq(Inspections(n)) /\ Len(after) = Len(c.photos)
  <2>1. after = [k \in 1..Len(c.photos) |-> after[k]]
        BY <1>3
  <2> HIDE DEF after
  <2>2. \A k \in 1..Len(c.photos) : after[k] \in Inspections(n)
        BY <1>4
  <2> QED BY <1>3, <2>1, <2>2, MapSeq
<1> HIDE DEF after, flying, open
<1> DEFINE s == a \o flying.out
           u == s \o FlattenSeq(events)
<1>6. s \in Seq(Events(n)) /\ flying.out \in Seq(Events(n)) /\ flying.mission \in Missions(n)
  <2>1. flying.out \in Seq(Events(n)) /\ flying.mission \in Missions(n)
        BY <1>1 DEF Station
  <2> QED BY <2>1, ConcatProperties
<1>7. /\ Tale(s) /\ Landings(c.photos, c.waiting, s) /\ Kinded(flying.seq)
      /\ Newest(flying.mission, c.photos, c.waiting, flying.orders, s)
      BY <1>1 DEF Telling, Speaks
<1> HIDE DEF s
<1>8. \A i \in 1..Len(c.photos) : Held(c.photos[i], s) /\ c.photos[i].ticket \in Nat
  <2>1. \A i \in 1..Len(c.photos) : Held(c.photos[i], s)
        BY <1>7 DEF Landings
  <2> QED BY <1>3, <2>1 DEF Inspections, Missions
<1>9. \A i, j \in 1..Len(c.photos) : i < j => c.photos[i].ticket < c.photos[j].ticket
      BY <1>7 DEF Landings, Rising
<1>e. /\ events \in Seq(Seq(Events(n))) /\ Len(events) = Len(c.photos)
      /\ \A i \in 1..Len(c.photos) : events[i] = PointEvents(c.photos[i])
      BY <1>3, EventsOf
<1> HIDE DEF events
<1>10. /\ u \in Seq(Events(n)) /\ Tale(u)
       /\ \A i \in 1..Len(c.photos) :
              Upto(u, c.photos[i].ticket, PointsReported(c.photos[i]).reported)
       /\ \A t, p : (\A i \in 1..Len(c.photos) : t # c.photos[i].ticket) /\ Upto(s, t, p)
                    => Upto(u, t, p)
       /\ \A t : Past(s, t) => Past(u, t)
  <2> DEFINE q == c.photos
  <2>1. /\ q \in Seq(Inspections(n)) /\ Len(events) = Len(q)
        /\ \A i \in 1..Len(q) : events[i] = PointEvents(q[i])
        BY <1>3, <1>e
  <2>2. \A i \in 1..Len(q) : Held(q[i], s)
        BY <1>8
  <2>3. \A i, j \in 1..Len(q) : i < j => q[i].ticket # q[j].ticket
        BY <1>8, <1>9
  <2> HIDE DEF q
  <2> QED BY <1>6, <1>7, <1>e, <2>1, <2>2, <2>3, ManyTold DEF q
<1>11. out \in Seq(Events(n)) /\ a \o out = u
  <2>1. FlattenSeq(events) \in Seq(Events(n))
        BY <1>e, FlattenType
  <2>2. \A x, y, z \in Seq(Events(n)) : (x \o y) \o z = x \o (y \o z)
        BY ConcatThree
  <2>3. out \in Seq(Events(n))
        BY <1>6, <2>1, ConcatProperties
  <2> QED BY <1>6, <2>1, <2>2, <2>3 DEF s
<1>12. photos \in Seq(Inspections(n))
       BY <1>5, WithinSeq
<1> HIDE DEF photos, out, u
<1>13. /\ d \in Station(n) /\ d.out = out /\ d.photos = photos /\ d.waiting = c.waiting
       /\ d.orders = c.orders /\ d.seq = c.seq /\ d.mission = flying.mission
       BY <1>1, <1>11, <1>12 DEF Station
<1> HIDE DEF d
<1>14. ASSUME NEW i \in 1..Len(after) PROVE Held(after[i], u)
  <2>1. Visited(after[i])
        BY <1>4, <1>5, <1>8 DEF Held, Visited
  <2> QED BY <1>4, <1>5, <1>10, <2>1 DEF Held
<1>15. \A i \in 1..Len(photos) : \E x \in 1..Len(after) : after[x] = photos[i]
       BY <1>5, WithinFrom DEF photos
<1>16. Rising(photos)
  <2> SUFFICES ASSUME NEW i \in 1..Len(photos), NEW j \in 1..Len(photos), i < j
               PROVE  photos[i].ticket < photos[j].ticket
      BY DEF Rising
  <2>1. \E x, y \in 1..Len(after) : x < y /\ after[x] = photos[i] /\ after[y] = photos[j]
        BY <1>5, WithinPairs DEF photos
  <2>2. PICK x, y \in 1..Len(after) : x < y /\ after[x] = photos[i] /\ after[y] = photos[j]
        BY <2>1
  <2>3. x \in 1..Len(c.photos) /\ y \in 1..Len(c.photos)
        BY <1>5
  <2>4. after[x].ticket = c.photos[x].ticket /\ after[y].ticket = c.photos[y].ticket
        BY <1>4, <2>3
  <2>5. c.photos[x].ticket < c.photos[y].ticket
        BY <1>9, <2>2, <2>3
  <2> QED BY <2>2, <2>4, <2>5
<1>17. \A t : Under(c.photos, t) => Under(photos, t)
  <2> SUFFICES ASSUME NEW t, Under(c.photos, t), NEW i \in 1..Len(photos)
               PROVE  photos[i].ticket < t
      BY DEF Under
  <2>1. PICK x \in 1..Len(after) : after[x] = photos[i]
        BY <1>15
  <2>2. c.photos[x].ticket < t /\ after[x].ticket = c.photos[x].ticket
        BY <1>4, <1>5 DEF Under
  <2> QED BY <2>1, <2>2
<1>18. ASSUME NEW m, m.ticket \in Nat, Held(m, s), Under(c.photos, m.ticket)
       PROVE  Held(m, u)
  <2>1. \A i \in 1..Len(c.photos) : m.ticket # c.photos[i].ticket
        BY <1>8, <1>18 DEF Under
  <2> QED BY <1>10, <1>18, <2>1 DEF Held
<1>19. Landings(photos, c.waiting, u)
  <2>1. ASSUME NEW i \in 1..Len(photos) PROVE Held(photos[i], u)
    <3>1. PICK x \in 1..Len(after) : after[x] = photos[i]
          BY <1>15
    <3>2. Held(after[x], u)
          BY <1>14
    <3> QED BY <3>1, <3>2
  <2>2. ASSUME NEW i \in 1..Len(c.waiting)
        PROVE  /\ Held(c.waiting[i], u) /\ c.waiting[i].ticket \in flights.landed
               /\ Past(u, c.waiting[i].ticket) /\ Under(photos, c.waiting[i].ticket)
    <3>1. /\ Held(c.waiting[i], s) /\ c.waiting[i].ticket \in flights.landed
          /\ Past(s, c.waiting[i].ticket) /\ Under(c.photos, c.waiting[i].ticket)
          BY <1>7 DEF Landings
    <3>2. c.waiting[i].ticket \in Nat
          BY <1>3 DEF Inspections, Missions
    <3>3. Held(c.waiting[i], u)
          BY <1>18, <3>1, <3>2
    <3> QED BY <1>10, <1>17, <3>1, <3>3
  <2>3. Rising(c.waiting)
        BY <1>7 DEF Landings
  <2> QED BY <1>16, <2>1, <2>2, <2>3 DEF Landings
<1>20. Newest(flying.mission, photos, c.waiting, c.orders, u)
  <2> DEFINE m == flying.mission
  <2> SUFFICES ASSUME m.kind # "none"
               PROVE  /\ Under(photos, m.ticket) /\ Under(c.waiting, m.ticket)
                      /\ Held(m, u) /\ Past(u, m.ticket) /\ Claims(m, c.orders)
      BY DEF Newest
  <2>1. /\ Under(c.photos, m.ticket) /\ Under(c.waiting, m.ticket)
        /\ Held(m, s) /\ Past(s, m.ticket) /\ Claims(m, c.orders) /\ m.ticket \in Nat
        BY <1>1, <1>6, <1>7 DEF Newest, Missions
  <2> HIDE DEF m
  <2> QED BY <1>10, <1>17, <1>18, <2>1
<1>21. Telling(d, a)
       BY <1>1, <1>7, <1>10, <1>11, <1>13, <1>19, <1>20 DEF Telling, Speaks
<1>22. Telling(Flush(d), a) /\ Flush(d).mission = d.mission
       BY <1>13, <1>21, FlushTold
<1> QED BY <1>1, <1>2, <1>13, <1>22

\* The line of the missions depends on their tickets, and on what is held of each.
LEMMA LineAlike ==
    ASSUME NEW s, NEW u, NEW photos, NEW waiting, NEW p, NEW w, Landings(photos, waiting, s),
           Len(p) = Len(photos), Len(w) = Len(waiting),
           \A i \in 1..Len(photos) : p[i].ticket = photos[i].ticket /\ Held(p[i], u),
           \A i \in 1..Len(waiting) : w[i].ticket = waiting[i].ticket /\ Held(w[i], u),
           \A t : Past(s, t) => Past(u, t)
    PROVE  /\ Landings(p, w, u)
           /\ \A t : (Under(photos, t) => Under(p, t)) /\ (Under(waiting, t) => Under(w, t))
<1>1. /\ Rising(photos) /\ Rising(waiting)
      /\ \A i \in 1..Len(waiting) :
             /\ waiting[i].ticket \in flights.landed
             /\ Past(s, waiting[i].ticket) /\ Under(photos, waiting[i].ticket)
      BY DEF Landings
<1>2. \A t : (Under(photos, t) => Under(p, t)) /\ (Under(waiting, t) => Under(w, t))
      BY DEF Under
<1>3. Rising(p) /\ Rising(w)
      BY <1>1 DEF Rising
<1>4. \A i \in 1..Len(w) : /\ Held(w[i], u) /\ w[i].ticket \in flights.landed
                           /\ Past(u, w[i].ticket) /\ Under(p, w[i].ticket)
      BY <1>1, <1>2
<1> QED BY <1>2, <1>3, <1>4 DEF Landings

\* What is kept of a sequence is in it, in its order, and nothing that qualifies is lost.
Kept(A) ==
    /\ \A q \in Seq(A) : \A T : \A x, y \in 1..Len(Within(q, T)) :
           x < y => \E k, l \in 1..Len(q) : /\ k < l /\ q[k] = Within(q, T)[x]
                                             /\ q[l] = Within(q, T)[y]
    /\ \A q \in Seq(A) : \A T : \A x \in 1..Len(q) :
           q[x] \in T => \E y \in 1..Len(Within(q, T)) : Within(q, T)[y] = q[x]
    /\ \A q \in Seq(A) : \A T : \A x \in 1..Len(Within(q, T)) :
           \E y \in 1..Len(q) : q[y] = Within(q, T)[x]

LEMMA WithinKeeps ==
    ASSUME NEW A
    PROVE  Kept(A)
<1> SUFFICES ASSUME NEW q \in Seq(A), NEW T
             PROVE  /\ \A x, y \in 1..Len(Within(q, T)) :
                           x < y => \E k, l \in 1..Len(q) : /\ k < l /\ q[k] = Within(q, T)[x]
                                                             /\ q[l] = Within(q, T)[y]
                    /\ \A x \in 1..Len(q) :
                           q[x] \in T => \E y \in 1..Len(Within(q, T)) : Within(q, T)[y] = q[x]
                    /\ \A x \in 1..Len(Within(q, T)) : \E y \in 1..Len(q) : q[y] = Within(q, T)[x]
    BY DEF Kept
<1>1. \A x, y \in 1..Len(Within(q, T)) :
          x < y => \E k, l \in 1..Len(q) : /\ k < l /\ q[k] = Within(q, T)[x]
                                            /\ q[l] = Within(q, T)[y]
      BY WithinPairs
<1>2. /\ \A x \in 1..Len(q) :
             q[x] \in T => \E y \in 1..Len(Within(q, T)) : Within(q, T)[y] = q[x]
      /\ \A x \in 1..Len(Within(q, T)) : \E y \in 1..Len(q) : q[y] = Within(q, T)[x]
      BY WithinFrom
<1> QED BY <1>1, <1>2

Been(t, i) == <<t, i>> \in flights.reached

LEMMA ObserveCaptureTold ==
    ASSUME NEW n \in Nat, Env, NEW c \in Station(n), NEW a \in Seq(Events(n)), Telling(c, a),
           NEW ticket, NEW i \in 1..limit.points, Chronicle(c.orders),
           Been(ticket, i)
    PROVE  LET d == ObserveCapture(c, ticket, i)
           IN  Telling(d, a) /\ Known(c.mission, d.mission)
<1>0. \A x, y, z \in Seq(Events(n)) : (x \o y) \o z = x \o (y \o z)
      BY ConcatThree
<1> DEFINE A == Inspections(n)
<1> HIDE DEF A
<1>k. Kept(A)
      BY WithinKeeps
<1>p. \A q \in Seq(A) : \A T : \A x, y \in 1..Len(Within(q, T)) :
          x < y => \E k, l \in 1..Len(q) : /\ k < l /\ q[k] = Within(q, T)[x]
                                            /\ q[l] = Within(q, T)[y]
      BY <1>k DEF Kept
<1>f. \A q \in Seq(A) : \A T : \A x \in 1..Len(q) :
          q[x] \in T => \E y \in 1..Len(Within(q, T)) : Within(q, T)[y] = q[x]
      BY <1>k DEF Kept
<1>g. \A q \in Seq(A) : \A T : \A x \in 1..Len(Within(q, T)) :
          \E y \in 1..Len(q) : q[y] = Within(q, T)[x]
      BY <1>k DEF Kept
<1> DEFINE of(m) == m.kind = "inspection" /\ m.ticket = ticket
           reached(m) == IF of(m) THEN [m EXCEPT !.reached = Max({@, i})] ELSE m
           report(m) == IF of(m) THEN PointsReported(m) ELSE m
           Q == Seq(Inspections(n))
           all(ms) == [k \in DOMAIN ms |-> reached(ms[k])]
           mine(ms) == Within(all(ms), {m \in Range(all(ms)) : of(m)})
           reports(ms) == [k \in DOMAIN ms |-> report(ms[k])]
           waiting == all(c.waiting)
           photos == all(c.photos)
           later == IF of(c.mission) THEN <<>> ELSE mine(c.waiting) \o mine(c.photos)
           mission == reached(c.mission)
           now == [c EXCEPT !.mission = mission, !.waiting = waiting, !.photos = photos]
           events == [k \in DOMAIN later |-> PointEvents(later[k])]
           out == c.out \o FlattenSeq(events)
           w == reports(waiting)
           p == reports(photos)
           other == [now EXCEPT !.waiting = w, !.photos = p, !.out = out]
           d == IF of(c.mission) THEN ReportPoints(now) ELSE other
           s == a \o c.out
<1>1. ObserveCapture(c, ticket, i) = Finish(d)
  <2>1. now.waiting = waiting /\ now.photos = photos /\ now.out = c.out
        BY DEF Station
  <2>2. [now EXCEPT !.waiting = reports(now.waiting), !.photos = reports(now.photos),
                    !.out = now.out \o FlattenSeq(events)] = other
    <3> DEFINE f == FlattenSeq(events)
    <3>1. reports(now.waiting) = w /\ reports(now.photos) = p /\ now.out \o f = c.out \o f
      <4> HIDE DEF reports, f, now, waiting, photos
      <4> QED BY <2>1
    <3> HIDE DEF reports, f, now, w, p
    <3> QED BY <3>1 DEF f
  <2>3. [c EXCEPT !.mission = reached(c.mission), !.waiting = all(c.waiting),
                  !.photos = all(c.photos)] = now
        OBVIOUS
  <2> QED BY <2>2, <2>3 DEF ObserveCapture
<1>2. /\ c.waiting \in Q /\ c.photos \in Q /\ c.mission \in Missions(n)
      /\ c.out \in Seq(Events(n)) /\ s \in Seq(Events(n))
  <2>1. /\ c.waiting \in Q /\ c.photos \in Q /\ c.mission \in Missions(n)
        /\ c.out \in Seq(Events(n))
        BY DEF Station
  <2> QED BY <2>1, ConcatProperties
<1>3. /\ Tale(s) /\ Landings(c.photos, c.waiting, s) /\ Kinded(c.seq)
      /\ Newest(c.mission, c.photos, c.waiting, c.orders, s)
      BY DEF Telling, Speaks
<1> HIDE DEF s
\* What a capture adds to a mission.
<1>4. ASSUME NEW m \in Missions(n)
      PROVE  /\ reached(m) \in Missions(n) /\ reached(m).kind = m.kind
             /\ reached(m).ticket = m.ticket /\ reached(m).reported = m.reported
             /\ reached(m).flown = m.flown /\ reached(m).landed = m.landed
             /\ Visited(m) => Visited(reached(m))
  <2>1. CASE of(m)
    <3> DEFINE r == Max({m.reached, i})
    <3>1. m \in Inspections(n)
          BY <2>1 DEF Inspections
    <3>2. reached(m) = [m EXCEPT !.reached = Max({@, i})]
          BY <2>1
    <3>3. reached(m) \in Inspections(n)
          BY <3>1, <3>2, CaughtType
    <3>4. m.reached \in Int /\ i \in Int /\ r = IF m.reached >= i THEN m.reached ELSE i
      <4>1. m.reached \in Int /\ i \in Int
            BY DEF Missions
      <4> QED BY <4>1, MaxOfTwo
    <3>5. reached(m) = [m EXCEPT !.reached = r]
          BY <3>2 DEF Missions
    <3> HIDE DEF r, reached
    <3>6. /\ reached(m).kind = m.kind /\ reached(m).reached = r
          /\ reached(m).ticket = m.ticket /\ reached(m).reported = m.reported
          /\ reached(m).flown = m.flown /\ reached(m).landed = m.landed
          BY <3>5 DEF Missions
    <3>7. ASSUME Visited(m) PROVE Visited(reached(m))
      <4>1. \A k \in 1..i : <<ticket, k>> \in flights.reached
            BY DEF Chronicle, Been
      <4> SUFFICES ASSUME NEW k \in 1..r PROVE <<m.ticket, k>> \in flights.reached
          BY <3>6 DEF Visited
      <4>2. CASE k \in 1..m.reached
            BY <3>7, <4>2 DEF Visited
      <4>3. CASE k \notin 1..m.reached
        <5>1. k \in 1..i
              BY <3>4, <4>3
        <5> QED BY <2>1, <4>1, <5>1
      <4> QED BY <4>2, <4>3
    <3> QED BY <3>3, <3>6, <3>7 DEF Inspections
  <2>2. CASE ~of(m)
        BY <2>2
  <2> QED BY <2>1, <2>2
<1> HIDE DEF reached
<1>5. ASSUME NEW m \in Missions(n), Held(m, s) PROVE Held(reached(m), s)
      BY <1>4, <1>5 DEF Held
\* The line after the capture.
<1>6. ASSUME NEW ms \in Q
      PROVE  /\ all(ms) \in Q /\ Len(all(ms)) = Len(ms)
             /\ \A k \in 1..Len(ms) : /\ all(ms)[k] = reached(ms[k])
                                      /\ all(ms)[k].ticket = ms[k].ticket
                                      /\ ms[k] \in Missions(n)
  <2>1. /\ Len(ms) \in Nat /\ DOMAIN ms = 1..Len(ms)
        /\ \A k \in 1..Len(ms) : ms[k] \in Inspections(n)
        BY LenProperties, ElementOfSeq
  <2> DEFINE b == all(ms)
  <2>2. \A k \in 1..Len(ms) : ms[k] \in Missions(n) /\ ms[k].kind = "inspection"
        BY <2>1 DEF Inspections
  <2>3. b = [k \in 1..Len(ms) |-> b[k]] /\ \A k \in 1..Len(ms) : b[k] = reached(ms[k])
        BY <2>1
  <2> HIDE DEF b
  <2>4. \A k \in 1..Len(ms) : b[k] \in Inspections(n) /\ b[k].ticket = ms[k].ticket
    <3> TAKE k \in 1..Len(ms)
    <3>1. /\ reached(ms[k]) \in Missions(n) /\ reached(ms[k]).kind = "inspection"
          /\ reached(ms[k]).ticket = ms[k].ticket
          BY <1>4, <2>2
    <3> QED BY <2>3, <3>1 DEF Inspections
  <2>5. \A k \in 1..Len(ms) : b[k] \in Inspections(n)
        BY <2>4
  <2>6. b \in Q /\ Len(b) = Len(ms)
        BY <2>1, <2>3, <2>5, MapSeq
  <2> QED BY <2>2, <2>3, <2>4, <2>6 DEF b
<1>7. ASSUME NEW ms \in Q, NEW k \in 1..Len(ms), Held(ms[k], s)
      PROVE  Held(all(ms)[k], s)
  <2>1. ms[k] \in Missions(n) /\ all(ms)[k] = reached(ms[k])
        BY <1>6
  <2> QED BY <1>5, <1>7, <2>1
<1> HIDE DEF all
<1>8. /\ waiting \in Q /\ Len(waiting) = Len(c.waiting)
      /\ photos \in Q /\ Len(photos) = Len(c.photos)
      /\ \A k \in 1..Len(waiting) :
             waiting[k].ticket = c.waiting[k].ticket /\ Held(waiting[k], s)
      /\ \A k \in 1..Len(photos) :
             photos[k].ticket = c.photos[k].ticket /\ Held(photos[k], s)
  <2>1. /\ \A k \in 1..Len(c.waiting) : Held(c.waiting[k], s)
        /\ \A k \in 1..Len(c.photos) : Held(c.photos[k], s)
        BY <1>3 DEF Landings
  <2> QED BY <1>2, <1>6, <1>7, <2>1
<1>m. mine(c.waiting) = Within(waiting, {m \in Range(waiting) : of(m)})
      /\ mine(c.photos) = Within(photos, {m \in Range(photos) : of(m)})
      OBVIOUS
<1> HIDE DEF waiting, photos, mine
<1>9. /\ Landings(photos, waiting, s)
      /\ \A t : Under(c.photos, t) => Under(photos, t)
      /\ \A t : Under(c.waiting, t) => Under(waiting, t)
      BY <1>3, <1>8, LineAlike
<1>10. /\ mission \in Missions(n) /\ mission.kind = c.mission.kind
       /\ mission.ticket = c.mission.ticket /\ Known(c.mission, mission)
       /\ Newest(mission, photos, waiting, c.orders, s)
  <2>1. /\ mission \in Missions(n) /\ mission.kind = c.mission.kind
        /\ mission.ticket = c.mission.ticket /\ mission.reported = c.mission.reported
        /\ mission.flown = c.mission.flown /\ mission.landed = c.mission.landed
        /\ Visited(c.mission) => Visited(mission)
        BY <1>2, <1>4
  <2> HIDE DEF mission
  <2>2. Known(c.mission, mission)
        BY <2>1 DEF Known
  <2>3. Newest(mission, photos, waiting, c.orders, s)
    <3> SUFFICES ASSUME mission.kind # "none"
                 PROVE  /\ Under(photos, mission.ticket) /\ Under(waiting, mission.ticket)
                        /\ Held(mission, s) /\ Past(s, mission.ticket)
                        /\ Claims(mission, c.orders)
        BY DEF Newest
    <3>1. /\ Under(c.photos, mission.ticket) /\ Under(c.waiting, mission.ticket)
          /\ Held(c.mission, s) /\ Past(s, mission.ticket) /\ Claims(c.mission, c.orders)
          BY <1>3, <2>1 DEF Newest
    <3>2. Held(mission, s)
          BY <2>1, <3>1 DEF Held
    <3>3. Claims(mission, c.orders)
          BY <2>1, <3>1 DEF Claims
    <3> QED BY <1>9, <3>1, <3>2, <3>3
  <2> QED BY <2>1, <2>2, <2>3
<1> HIDE DEF mission
<1>11. /\ now \in Station(n) /\ now.mission = mission /\ now.out = c.out
       /\ now.photos = photos /\ now.waiting = waiting /\ now.orders = c.orders
       /\ now.seq = c.seq
       BY <1>8, <1>10 DEF Station
<1> HIDE DEF now
<1>12. Telling(now, a)
       BY <1>3, <1>9, <1>10, <1>11 DEF Telling, Speaks, s
<1>13. CASE of(c.mission)
  <2>1. now.mission.kind # "none" /\ d = ReportPoints(now)
        BY <1>10, <1>11, <1>13
  <2>2. /\ ReportPoints(now) \in Station(n) /\ Telling(ReportPoints(now), a)
        /\ ReportPoints(now).mission = PointsReported(mission)
        BY <1>11, <1>12, <2>1, ReportPointsType, ReportTold
  <2>3. Known(mission, PointsReported(mission))
    <3>1. /\ PointsReported(mission).ticket = mission.ticket
          /\ PointsReported(mission).kind = mission.kind
          /\ PointsReported(mission).flown = mission.flown
          BY <1>10, ReportedSame
    <3> QED BY <3>1 DEF Known
  <2> HIDE DEF d
  <2>4. Telling(Finish(d), a) /\ Known(d.mission, Finish(d).mission)
        BY <2>1, <2>2, FinishKnown
  <2>5. Known(c.mission, d.mission)
        BY <1>10, <2>1, <2>2, <2>3, KnownTwice
  <2>6. Known(c.mission, Finish(d).mission)
        BY <2>4, <2>5, KnownTwice
  <2> QED BY <1>1, <2>4, <2>6
<1>14. CASE ~of(c.mission)
  <2>1. later = mine(c.waiting) \o mine(c.photos) /\ d = other
        BY <1>14
  <2> DEFINE W == mine(c.waiting)
             P == mine(c.photos)
             TW == {m \in Range(waiting) : of(m)}
             TP == {m \in Range(photos) : of(m)}
  <2>2. W = Within(waiting, TW) /\ P = Within(photos, TP)
        BY <1>m
  <2>a. waiting \in Seq(A) /\ photos \in Seq(A)
        BY <1>8 DEF A
  <2>p. W = mine(c.waiting) /\ P = mine(c.photos)
        OBVIOUS
  <2> HIDE DEF W, P
  <2>r. /\ \A k \in 1..Len(waiting) : waiting[k] \in Range(waiting)
        /\ \A k \in 1..Len(photos) : photos[k] \in Range(photos)
    <3>1. DOMAIN waiting = 1..Len(waiting) /\ DOMAIN photos = 1..Len(photos)
          BY <1>8, LenProperties
    <3> QED BY <3>1 DEF Range
  <2>3. /\ \A k \in 1..Len(waiting) : of(waiting[k]) => waiting[k] \in TW
        /\ \A k \in 1..Len(photos) : of(photos[k]) => photos[k] \in TP
        BY <2>r
  <2>4. (\A m \in TW : of(m)) /\ (\A m \in TP : of(m))
        OBVIOUS
  <2> HIDE DEF TW, TP
  <2>5. /\ W \in Seq(Inspections(n) \cap TW) /\ P \in Seq(Inspections(n) \cap TP)
        /\ W \in Q /\ P \in Q
    <3>1. W \in Seq(Inspections(n) \cap TW)
          BY <1>8, <2>2, WithinType
    <3>2. P \in Seq(Inspections(n) \cap TP)
          BY <1>8, <2>2, WithinType
    <3>3. W \in Q /\ P \in Q
          BY <1>8, <2>2, WithinSeq
    <3> QED BY <3>1, <3>2, <3>3
  <2>6. /\ \A x \in 1..Len(W) : of(W[x]) /\ \E y \in 1..Len(waiting) : waiting[y] = W[x]
        /\ \A x \in 1..Len(P) : of(P[x]) /\ \E y \in 1..Len(photos) : photos[y] = P[x]
    <3>1. /\ \A x \in 1..Len(W) : W[x] \in Inspections(n) \cap TW
          /\ \A x \in 1..Len(P) : P[x] \in Inspections(n) \cap TP
          BY <2>5, ElementOfSeq
    <3>2. \A x \in 1..Len(W) : \E y \in 1..Len(waiting) : waiting[y] = W[x]
      <4>1. \A x \in 1..Len(Within(waiting, TW)) :
               \E y \in 1..Len(waiting) : waiting[y] = Within(waiting, TW)[x]
            BY <1>g, <2>a
      <4> QED BY <2>2, <4>1
    <3>3. \A x \in 1..Len(P) : \E y \in 1..Len(photos) : photos[y] = P[x]
      <4>1. \A x \in 1..Len(Within(photos, TP)) :
               \E y \in 1..Len(photos) : photos[y] = Within(photos, TP)[x]
            BY <1>g, <2>a
      <4> QED BY <2>2, <4>1
    <3> HIDE DEF of
    <3> QED BY <2>4, <3>1, <3>2, <3>3
  <2>7. /\ \A y \in 1..Len(waiting) : of(waiting[y]) => \E x \in 1..Len(W) : W[x] = waiting[y]
        /\ \A y \in 1..Len(photos) : of(photos[y]) => \E x \in 1..Len(P) : P[x] = photos[y]
    <3>1. \A y \in 1..Len(waiting) : waiting[y] \in TW => \E x \in 1..Len(W) : W[x] = waiting[y]
      <4>1. \A y \in 1..Len(waiting) : waiting[y] \in TW =>
               \E x \in 1..Len(Within(waiting, TW)) : Within(waiting, TW)[x] = waiting[y]
            BY <1>f, <2>a
      <4> QED BY <2>2, <4>1
    <3>2. \A y \in 1..Len(photos) : photos[y] \in TP => \E x \in 1..Len(P) : P[x] = photos[y]
      <4>1. \A y \in 1..Len(photos) : photos[y] \in TP =>
               \E x \in 1..Len(Within(photos, TP)) : Within(photos, TP)[x] = photos[y]
            BY <1>f, <2>a
      <4> QED BY <2>2, <4>1
    <3> HIDE DEF of
    <3> QED BY <2>3, <3>1, <3>2
  <2>8. /\ \A x \in 1..Len(W) : \A y \in 1..Len(W) : ~(x < y)
        /\ \A x \in 1..Len(P) : \A y \in 1..Len(P) : ~(x < y)
        /\ Len(W) = 0 \/ Len(P) = 0
    <3>n. /\ \A k \in 1..Len(waiting) : waiting[k].ticket \in Nat
          /\ \A k \in 1..Len(photos) : photos[k].ticket \in Nat
      <4>1. /\ \A k \in 1..Len(waiting) : waiting[k] \in Inspections(n)
            /\ \A k \in 1..Len(photos) : photos[k] \in Inspections(n)
            BY <1>8, ElementOfSeq
      <4> QED BY <4>1 DEF Inspections, Missions
    <3>w. \A x, y \in 1..Len(W) :
              x < y => \E k, l \in 1..Len(waiting) :
                           k < l /\ waiting[k] = W[x] /\ waiting[l] = W[y]
      <4>1. \A x, y \in 1..Len(Within(waiting, TW)) :
              x < y => \E k, l \in 1..Len(waiting) :
                         /\ k < l /\ waiting[k] = Within(waiting, TW)[x]
                         /\ waiting[l] = Within(waiting, TW)[y]
            BY <1>p, <2>a
      <4> QED BY <2>2, <4>1
    <3>1. ASSUME NEW x \in 1..Len(W), NEW y \in 1..Len(W), x < y PROVE FALSE
      <4>1. \E k, l \in 1..Len(waiting) : k < l /\ waiting[k] = W[x] /\ waiting[l] = W[y]
            BY <3>w, <3>1
      <4>2. PICK k, l \in 1..Len(waiting) : k < l /\ waiting[k] = W[x] /\ waiting[l] = W[y]
            BY <4>1
      <4>3. waiting[k].ticket < waiting[l].ticket
            BY <1>9, <4>2 DEF Landings, Rising
      <4>4. waiting[k].ticket = ticket /\ waiting[l].ticket = ticket
            BY <2>6, <4>2
      <4> QED BY <3>n, <4>3, <4>4
    <3>p. \A x, y \in 1..Len(P) :
              x < y => \E k, l \in 1..Len(photos) :
                           k < l /\ photos[k] = P[x] /\ photos[l] = P[y]
      <4>1. \A x, y \in 1..Len(Within(photos, TP)) :
              x < y => \E k, l \in 1..Len(photos) :
                         /\ k < l /\ photos[k] = Within(photos, TP)[x]
                         /\ photos[l] = Within(photos, TP)[y]
            BY <1>p, <2>a
      <4> QED BY <2>2, <4>1
    <3>2. ASSUME NEW x \in 1..Len(P), NEW y \in 1..Len(P), x < y PROVE FALSE
      <4>1. \E k, l \in 1..Len(photos) : k < l /\ photos[k] = P[x] /\ photos[l] = P[y]
            BY <3>p, <3>2
      <4>2. PICK k, l \in 1..Len(photos) : k < l /\ photos[k] = P[x] /\ photos[l] = P[y]
            BY <4>1
      <4>3. photos[k].ticket < photos[l].ticket
            BY <1>9, <4>2 DEF Landings, Rising
      <4>4. photos[k].ticket = ticket /\ photos[l].ticket = ticket
            BY <2>6, <4>2
      <4> QED BY <3>n, <4>3, <4>4
    <3>l. Len(W) \in Nat /\ Len(P) \in Nat
          BY <2>5, LenProperties
    <3>3. ASSUME Len(W) # 0, Len(P) # 0 PROVE FALSE
      <4>1. 1 \in 1..Len(W) /\ 1 \in 1..Len(P)
            BY <3>l, <3>3
      <4>2. PICK k \in 1..Len(waiting) : waiting[k] = W[1]
            BY <2>6, <4>1
      <4>3. PICK l \in 1..Len(photos) : photos[l] = P[1]
            BY <2>6, <4>1
      <4>4. photos[l].ticket < waiting[k].ticket
            BY <1>9 DEF Landings, Under
      <4>5. photos[l].ticket = ticket /\ waiting[k].ticket = ticket
            BY <2>6, <4>1, <4>2, <4>3
      <4> QED BY <3>n, <4>4, <4>5
    <3> QED BY <3>1, <3>2, <3>3
  <2> HIDE DEF later, events, other, d
  <2>9. /\ later \in Q /\ Len(W) \in Nat /\ Len(P) \in Nat /\ Len(later) = Len(W) + Len(P)
        /\ \A x \in 1..Len(W) : later[x] = W[x]
        /\ \A x \in 1..Len(P) : later[Len(W) + x] = P[x]
        /\ \A x \in 1..Len(later) : x \in 1..Len(W) \/ \E y \in 1..Len(P) : x = Len(W) + y
    <3>1. later = W \o P
          BY <2>1, <2>p
    <3> QED BY <2>5, <3>1, ConcatAt
  <2>10. ASSUME NEW x \in 1..Len(later)
         PROVE  /\ of(later[x]) /\ Held(later[x], s)
                /\ \/ \E k \in 1..Len(waiting) : later[x] = waiting[k]
                   \/ \E k \in 1..Len(photos) : later[x] = photos[k]
    <3>1. CASE x \in 1..Len(W)
      <4>1. later[x] = W[x] /\ of(W[x])
            BY <2>6, <2>9, <3>1
      <4>2. PICK k \in 1..Len(waiting) : waiting[k] = W[x]
            BY <2>6, <3>1
      <4>3. Held(waiting[k], s)
            BY <1>8
      <4> HIDE DEF of
      <4> QED BY <4>1, <4>2, <4>3
    <3>2. CASE x \notin 1..Len(W)
      <4>0. PICK y \in 1..Len(P) : x = Len(W) + y
            BY <2>9, <3>2
      <4>1. later[x] = P[y] /\ of(P[y])
            BY <2>6, <2>9, <4>0
      <4>2. PICK k \in 1..Len(photos) : photos[k] = P[y]
            BY <2>6
      <4>3. Held(photos[k], s)
            BY <1>8
      <4> HIDE DEF of
      <4> QED BY <4>1, <4>2, <4>3
    <3> QED BY <3>1, <3>2
  <2>11. \A x, y \in 1..Len(later) : x < y => later[x].ticket # later[y].ticket
    <3> SUFFICES ASSUME NEW x \in 1..Len(later), NEW y \in 1..Len(later), x < y PROVE FALSE
        OBVIOUS
    <3>1. CASE Len(W) = 0
      <4>1. x \in 1..Len(P) /\ y \in 1..Len(P)
            BY <2>9, <3>1
      <4> QED BY <2>8, <4>1
    <3>2. CASE Len(P) = 0
      <4>1. x \in 1..Len(W) /\ y \in 1..Len(W)
            BY <2>9, <3>2
      <4> QED BY <2>8, <4>1
    <3> QED BY <2>8, <3>1, <3>2
  <2> DEFINE u == s \o FlattenSeq(events)
  <2>e. /\ events \in Seq(Seq(Events(n))) /\ Len(events) = Len(later)
        /\ \A x \in 1..Len(later) : events[x] = PointEvents(later[x])
        BY <2>9, EventsOf DEF events
  <2>12. /\ u \in Seq(Events(n)) /\ Tale(u)
         /\ \A x \in 1..Len(later) : Upto(u, later[x].ticket, PointsReported(later[x]).reported)
         /\ \A t, k : (\A x \in 1..Len(later) : t # later[x].ticket) /\ Upto(s, t, k)
                      => Upto(u, t, k)
         /\ \A t : Past(s, t) => Past(u, t)
    <3>1. \A x \in 1..Len(later) : Held(later[x], s)
          BY <2>10
    <3>2. Tale(s) /\ s \in Seq(Events(n)) /\ later \in Seq(Inspections(n))
          BY <1>2, <1>3, <2>9
    <3> QED BY <2>11, <2>e, <3>1, <3>2, ManyTold
  <2>13. out \in Seq(Events(n)) /\ a \o out = u
    <3>1. FlattenSeq(events) \in Seq(Events(n))
          BY <2>e, FlattenType
    <3>3. out \in Seq(Events(n))
          BY <1>2, <3>1, ConcatProperties
    <3> QED BY <1>0, <1>2, <3>1, <3>3 DEF s
  <2> HIDE DEF u, out
  \* Each mission of the line, after its report.
  <2>14. ASSUME NEW m \in Inspections(n), Held(m, s),
                of(m) => \E x \in 1..Len(later) : later[x] = m
         PROVE  report(m) \in Inspections(n) /\ report(m).ticket = m.ticket /\ Held(report(m), u)
    <3>0. m \in Missions(n) /\ m.kind = "inspection"
          BY DEF Inspections
    <3>1. CASE of(m)
      <4>1. PICK x \in 1..Len(later) : later[x] = m
            BY <2>14, <3>1
      <4>2. report(m) = PointsReported(m)
            BY <3>1
      <4> HIDE DEF report
      <4>3. LET r == PointsReported(m)
            IN  r \in Missions(n) /\ r.kind = m.kind /\ r.ticket = m.ticket
                /\ r.reached = m.reached
            BY <3>0, ReportedSame
      <4>4. Upto(u, m.ticket, PointsReported(m).reported)
            BY <2>12, <4>1
      <4>5. Visited(PointsReported(m))
            BY <2>14, <4>3 DEF Held, Visited
      <4>6. Held(PointsReported(m), u)
            BY <4>3, <4>4, <4>5 DEF Held
      <4> QED BY <3>0, <4>2, <4>3, <4>6 DEF Inspections
    <3>2. CASE ~of(m)
      <4>1. report(m) = m /\ m.ticket # ticket
            BY <3>0, <3>2
      <4>2. \A x \in 1..Len(later) : m.ticket # later[x].ticket
            BY <2>10, <4>1
      <4>3. Held(m, u)
            BY <2>12, <2>14, <4>2 DEF Held
      <4> QED BY <4>1, <4>3
    <3> QED BY <3>1, <3>2
  <2> HIDE DEF report
  <2>15. \A k \in 1..Len(waiting) : of(waiting[k]) => \E x \in 1..Len(later) : later[x] = waiting[k]
    <3> SUFFICES ASSUME NEW k \in 1..Len(waiting), of(waiting[k])
                 PROVE  \E x \in 1..Len(later) : later[x] = waiting[k]
        OBVIOUS
    <3>1. PICK x \in 1..Len(W) : W[x] = waiting[k]
          BY <2>7
    <3>2. x \in 1..Len(later) /\ later[x] = W[x]
          BY <2>9
    <3> QED BY <3>1, <3>2
  <2>16. \A k \in 1..Len(photos) : of(photos[k]) => \E x \in 1..Len(later) : later[x] = photos[k]
    <3> SUFFICES ASSUME NEW k \in 1..Len(photos), of(photos[k])
                 PROVE  \E x \in 1..Len(later) : later[x] = photos[k]
        OBVIOUS
    <3>1. PICK x \in 1..Len(P) : P[x] = photos[k]
          BY <2>7
    <3>2. Len(W) + x \in 1..Len(later) /\ later[Len(W) + x] = P[x]
          BY <2>9
    <3> QED BY <3>1, <3>2
  <2> HIDE DEF of
  <2>17. ASSUME NEW ms \in Q, \A k \in 1..Len(ms) : Held(ms[k], s),
                \A k \in 1..Len(ms) : of(ms[k]) => \E x \in 1..Len(later) : later[x] = ms[k]
         PROVE  /\ reports(ms) \in Q /\ Len(reports(ms)) = Len(ms)
                /\ \A k \in 1..Len(ms) : /\ reports(ms)[k].ticket = ms[k].ticket
                                         /\ Held(reports(ms)[k], u)
    <3>1. /\ Len(ms) \in Nat /\ DOMAIN ms = 1..Len(ms)
          /\ \A k \in 1..Len(ms) : ms[k] \in Inspections(n)
          BY LenProperties, ElementOfSeq
    <3> DEFINE b == reports(ms)
    <3>2. b = [k \in 1..Len(ms) |-> b[k]] /\ \A k \in 1..Len(ms) : b[k] = report(ms[k])
          BY <3>1
    <3> HIDE DEF b
    <3>3. \A k \in 1..Len(ms) : b[k] \in Inspections(n) /\ b[k].ticket = ms[k].ticket
                                /\ Held(b[k], u)
          BY <2>14, <2>17, <3>1, <3>2
    <3>4. \A k \in 1..Len(ms) : b[k] \in Inspections(n)
          BY <3>3
    <3>5. b \in Q /\ Len(b) = Len(ms)
          BY <3>1, <3>2, <3>4, MapSeq
    <3> QED BY <3>3, <3>5 DEF b
  <2> HIDE DEF reports
  <2>18. /\ w \in Q /\ Len(w) = Len(waiting)
         /\ \A k \in 1..Len(waiting) : w[k].ticket = waiting[k].ticket /\ Held(w[k], u)
    <3>1. \A k \in 1..Len(waiting) : Held(waiting[k], s)
          BY <1>8
    <3> QED BY <1>8, <2>15, <2>17, <3>1
  <2>19. /\ p \in Q /\ Len(p) = Len(photos)
         /\ \A k \in 1..Len(photos) : p[k].ticket = photos[k].ticket /\ Held(p[k], u)
    <3>1. \A k \in 1..Len(photos) : Held(photos[k], s)
          BY <1>8
    <3> QED BY <1>8, <2>16, <2>17, <3>1
  <2> HIDE DEF w, p
  <2>20. /\ Landings(p, w, u)
         /\ \A t : Under(photos, t) => Under(p, t)
         /\ \A t : Under(waiting, t) => Under(w, t)
    <3>1. Landings(photos, waiting, s)
          BY <1>9
    <3>2. \A t : Past(s, t) => Past(u, t)
          BY <2>12
    <3>3. \A k \in 1..Len(photos) : p[k].ticket = photos[k].ticket /\ Held(p[k], u)
          BY <2>19
    <3>4. \A k \in 1..Len(waiting) : w[k].ticket = waiting[k].ticket /\ Held(w[k], u)
          BY <2>18
    <3>5. Len(p) = Len(photos) /\ Len(w) = Len(waiting)
          BY <2>18, <2>19
    <3>6. /\ Rising(photos) /\ Rising(waiting)
          /\ \A k \in 1..Len(waiting) :
                 /\ waiting[k].ticket \in flights.landed
                 /\ Past(s, waiting[k].ticket) /\ Under(photos, waiting[k].ticket)
          BY <3>1 DEF Landings
    <3>7. \A t : Under(photos, t) => Under(p, t)
          BY <3>3, <3>5 DEF Under
    <3>8. \A t : Under(waiting, t) => Under(w, t)
          BY <3>4, <3>5 DEF Under
    <3>9. Rising(p) /\ Rising(w)
          BY <3>3, <3>4, <3>5, <3>6 DEF Rising
    <3>10. \A k \in 1..Len(w) : /\ Held(w[k], u) /\ w[k].ticket \in flights.landed
                               /\ Past(u, w[k].ticket) /\ Under(p, w[k].ticket)
           BY <3>2, <3>4, <3>5, <3>6, <3>7
    <3>11. \A k \in 1..Len(p) : Held(p[k], u)
           BY <3>3, <3>5
    <3>12. Landings(p, w, u)
           BY <3>9, <3>10, <3>11 DEF Landings
    <3> QED BY <3>7, <3>8, <3>12
  <2>21. /\ other \in Station(n) /\ other.mission = mission /\ other.out = out
         /\ other.photos = p /\ other.waiting = w /\ other.orders = c.orders
         /\ other.seq = c.seq
         BY <1>11, <2>13, <2>18, <2>19 DEF other, Station
  <2>22. Newest(mission, p, w, c.orders, u)
    <3> SUFFICES ASSUME mission.kind # "none"
                 PROVE  /\ Under(p, mission.ticket) /\ Under(w, mission.ticket)
                        /\ Held(mission, u) /\ Past(u, mission.ticket)
                        /\ Claims(mission, c.orders)
        BY DEF Newest
    <3>1. /\ Under(photos, mission.ticket) /\ Under(waiting, mission.ticket)
          /\ Held(mission, s) /\ Past(s, mission.ticket) /\ Claims(mission, c.orders)
          /\ mission.ticket \in Nat
          BY <1>10 DEF Newest, Missions
    <3>2. ASSUME NEW x \in 1..Len(later) PROVE mission.ticket # later[x].ticket
      <4>1. CASE \E k \in 1..Len(waiting) : later[x] = waiting[k]
            BY <3>1, <4>1 DEF Under
      <4>2. CASE \E k \in 1..Len(photos) : later[x] = photos[k]
            BY <3>1, <4>2 DEF Under
      <4> QED BY <2>10, <4>1, <4>2
    <3>3. Held(mission, u)
          BY <2>12, <3>1, <3>2 DEF Held
    <3> QED BY <2>12, <2>20, <3>1, <3>3
  <2>23. Telling(other, a)
         BY <1>3, <2>12, <2>13, <2>20, <2>21, <2>22 DEF Telling, Speaks
  <2>24. Telling(Finish(other), a) /\ Known(mission, Finish(other).mission)
         BY <2>21, <2>23, FinishKnown
  <2>25. Known(c.mission, Finish(other).mission)
         BY <1>10, <2>24, KnownTwice
  <2> QED BY <1>1, <2>1, <2>24, <2>25
<1> QED BY <1>13, <1>14
=============================================================================
