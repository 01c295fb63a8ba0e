-------------------------- MODULE UpstreamStoryProofs --------------------------
(***************************************************************************)
(* What UpstreamMission tells the upstream side is true, and told in       *)
(* order.  The projector's part of it is UpstreamTellingProofs; here the   *)
(* window, its dialogs and the vehicle are added, the invariant Honest is  *)
(* shown to be kept by every action, and the two theorems follow.          *)
(***************************************************************************)
EXTENDS UpstreamTellingProofs


(***************************************************************************)
(* The results, one after the other.                                       *)
(***************************************************************************)
\* What the k-th result makes of T[k - 1] is in T[k].
LEMMA ConsumeEach ==
    ASSUME NEW A, NEW q \in Seq(A), NEW T, NEW c \in T[0],
           \A k \in 0..(Len(q) - 1) : \A d \in T[k] : Consumed(d, q[k + 1]) \in T[k + 1]
    PROVE  FoldLeft(Consumed, c, q) \in T[Len(q)]
<1>0. Len(q) \in Nat /\ DOMAIN q = 1..Len(q)
      BY LenProperties
<1> DEFINE Fold(F) == F = [s \in SUBSET (1..Len(q)) |->
                          IF s = {} THEN c ELSE Consumed(F[s \ {Max(s)}], q[Max(s)])]
           G == CHOOSE F : Fold(F)
<1>1. FoldLeft(Consumed, c, q) = G[1..Len(q)]
      BY <1>0 DEF FoldLeft, MapThenFoldSet
<1>2. Fold(G)
  <2>1. \E F : Fold(F)
    <3> DEFINE n == Len(q)
    <3>1. n \in Nat
          BY <1>0
    <3> HIDE DEF n, Fold
    <3>2. \E F : FoldOf(F, c, q, n)
          BY <3>1, FoldExists
    <3>3. PICK F : FoldOf(F, c, q, n)
          BY <3>2
    <3>4. Fold(F)
          BY <3>3 DEF FoldOf, n, Fold
    <3> QED BY <3>4
  <2> HIDE DEF Fold
  <2> QED BY <2>1
<1> HIDE DEF G
<1>3. \A s \in SUBSET (1..Len(q)) :
            G[s] = IF s = {} THEN c ELSE Consumed(G[s \ {Max(s)}], q[Max(s)])
      BY <1>2, Zenon
<1> DEFINE S == {n \in Nat : n <= Len(q) => G[1..n] \in T[n]}
<1>4. 0 \in S
  <2>1. 1..0 = {}
        OBVIOUS
  <2>2. G[{}] = c
        BY <1>3
  <2> QED BY <2>1, <2>2
<1>5. \A n \in Nat : n \in S => n + 1 \in S
  <2> SUFFICES ASSUME NEW n \in Nat, n \in S PROVE n + 1 \in S
      OBVIOUS
  <2>0. n + 1 \in Nat /\ (n <= Len(q) => G[1..n] \in T[n])
        OBVIOUS
  <2> SUFFICES ASSUME n + 1 <= Len(q) PROVE G[1..(n + 1)] \in T[n + 1]
      BY <2>0
  <2>1. G[1..n] \in T[n] /\ n \in 0..(Len(q) - 1)
        BY <1>0, <2>0
  <2> DEFINE s == 1..(n + 1)
  <2>a. n + 1 \in s
        OBVIOUS
  <2>2. s \in SUBSET (1..(n + 1)) /\ s # {} /\ n + 1 \in s
        BY <2>a
  <2>3. Max(s) = n + 1
        BY <2>2, MaxUpTo
  <2>4. s \ {n + 1} = 1..n
        OBVIOUS
  <2>5. s \in SUBSET (1..Len(q)) /\ n + 1 \in 1..Len(q)
        BY <1>0
  <2> HIDE DEF s
  <2>6. G[s] = Consumed(G[1..n], q[n + 1])
        BY <1>3, <2>2, <2>3, <2>4, <2>5
  <2> QED BY <1>0, <2>1, <2>6 DEF s
<1> HIDE DEF S
<1>6. Len(q) \in S
      BY <1>0, <1>4, <1>5, Induction
<1> QED BY <1>0, <1>1, <1>6 DEF S

\* A step of the sequence alone.
LEMMA SequenceTold ==
    ASSUME NEW c, NEW d, NEW a, Telling(c, a), d.out = c.out, d.photos = c.photos,
           d.waiting = c.waiting, d.orders = c.orders, d.mission = c.mission,
           Kinded(c.seq) => Kinded(d.seq)
    PROVE  Telling(d, a)
BY DEF Telling

LEMMA IdleKinded ==
    ASSUME NEW q, q = NoSequence \/ q.kind # "inspection"
    PROVE  Kinded(q)
BY DEF Kinded, NoSequence

\* The fields of the projector.
Untold(c, d) ==
    /\ d.out = c.out /\ d.photos = c.photos /\ d.waiting = c.waiting
    /\ d.mission = c.mission

LEMMA EndSequenceUntold ==
    ASSUME NEW c, Env, Well(c)
    PROVE  Untold(c, EndSequence(c))
<1>1. EndSequence(c) = [c EXCEPT !.seq = NoSequence, !.blocked = FALSE]
      BY DEF EndSequence, ReleaseStandby, Well, Station
<1> QED BY <1>1 DEF Untold, Well, Station

LEMMA SequenceResultUntold ==
    ASSUME NEW c, Env, Well(c), NEW r \in Results(Len(c.orders))
    PROVE  LET d == SequenceResult(c, r)
           IN  Untold(c, d) /\ (Kinded(c.seq) => Kinded(d.seq))
<1> DEFINE d == SequenceResult(c, r)
<1>1. Moves(c.seq, d.seq)
      BY SequenceResultWell
<1>2. Kinded(c.seq) => Kinded(d.seq)
  <2>1. CASE d.seq = NoSequence
        BY <2>1, IdleKinded
  <2>2. CASE d.seq # NoSequence
    <3>1. d.seq.kind = c.seq.kind /\ d.seq.command = c.seq.command
          BY <1>1, <2>2 DEF Moves
    <3> QED BY <3>1 DEF Kinded
  <2> QED BY <2>1, <2>2
<1>3. Untold(c, d)
  <2>1. CASE ~PhaseDone(c, r)
    <3>1. d = c
          BY <2>1 DEF SequenceResult, SequenceOver, PhaseDone
    <3> QED BY <3>1 DEF Untold
  <2>2. CASE SequenceOver(c, r)
    <3>1. d = EndSequence(c)
          BY <2>2 DEF SequenceResult, SequenceOver
    <3> QED BY <3>1, EndSequenceUntold
  <2>3. CASE PhaseDone(c, r) /\ ~SequenceOver(c, r)
    <3> DEFINE next == CASE c.seq.phase = "takeoff" -> "waypoints_pending"
                         [] c.seq.phase = "waypoints" -> "land_pending"
                         [] OTHER -> "standby"
               delay == next = "standby" /\ c.seq.kind = "inspection"
               q == [c.seq EXCEPT !.phase = next, !.ticket = NoTicket, !.via = r.ticket,
                                  !.delay = delay]
    <3>1. d = [c EXCEPT !.seq.phase = next, !.seq.ticket = NoTicket, !.seq.via = r.ticket,
                        !.seq.delay = delay]
          BY <2>3 DEF SequenceResult
    <3>2. d = [c EXCEPT !.seq = q]
          BY <3>1
    <3> HIDE DEF q, d
    <3> QED BY <3>2 DEF Untold, Well, Station
  <2> QED BY <2>1, <2>2, <2>3
<1> QED BY <1>2, <1>3

LEMMA ConsumedTold ==
    ASSUME NEW c, Env, Well(c), NEW a \in Seq(Events(Len(c.orders))), Telling(c, a),
           NEW r \in Results(Len(c.orders)), Chronicle(c.orders),
           Truthful(c.orders, flights.done, r),
           c.mission.kind = "inspection" /\ c.mission.flown /\ Win(r) => c.mission.ticket < r.ticket
    PROVE  LET d == Consumed(c, r)
           IN  /\ Telling(d, a)
               /\ Known(c.mission, d.mission) \/ (Win(r) /\ d.mission.ticket = r.ticket)
<1> DEFINE n == Len(c.orders)
           v == ObserveResult(c, r)
           g == SequenceResult(v, r)
           d == Consumed(c, r)
<1>1. n \in Nat /\ c \in Station(n) /\ r \in Results(n) /\ a \in Seq(Events(n))
      BY DEF Well
<1>2. v \in Station(n) /\ Projects(c, v)
      BY <1>1, ObserveResultType
<1>3. /\ Telling(v, a)
      /\ Known(c.mission, v.mission) \/ (Win(r) /\ v.mission.ticket = r.ticket)
  <2> HIDE DEF n
  <2> QED BY <1>1, ObserveResultTold
<1> HIDE DEF v
<1>4. Well(v) /\ v.orders = c.orders
      BY <1>2, ProjectsWell
<1>5. r \in Results(Len(v.orders))
      BY <1>4
<1>6. Well(g) /\ g.orders = v.orders /\ Untold(v, g) /\ (Kinded(v.seq) => Kinded(g.seq))
      BY <1>4, <1>5, SequenceResultWell, SequenceResultUntold
<1>7. d = g \/ d = [g EXCEPT !.running = FALSE, !.active = NoTicket]
      BY DEF Consumed, v
<1> HIDE DEF g, d
<1>8. Untold(g, d) /\ d.seq = g.seq /\ d.orders = g.orders
      BY <1>6, <1>7 DEF Untold, Well, Station
<1>9. Telling(d, a) /\ d.mission = v.mission
  <2>1. /\ d.out = v.out /\ d.photos = v.photos /\ d.waiting = v.waiting
        /\ d.mission = v.mission /\ d.orders = v.orders
        BY <1>6, <1>8 DEF Untold
  <2>2. Kinded(v.seq) => Kinded(d.seq)
        BY <1>6, <1>8
  <2>3. Telling(d, a)
        BY <1>3, <2>1, <2>2, SequenceTold
  <2> QED BY <2>1, <2>3
<1> QED BY <1>3, <1>9 DEF d

\* The newest flight is older than every success that is still to come of q after k.
Awaits(m, q, k) ==
    m.kind = "inspection" /\ m.flown =>
        \A j \in (k + 1)..Len(q) : Win(q[j]) => m.ticket < q[j].ticket

Paced(q) == \A i, j \in 1..Len(q) : i < j /\ Win(q[i]) /\ Win(q[j]) => q[i].ticket < q[j].ticket

LEMMA AwaitsNext ==
    ASSUME NEW A, NEW q \in Seq(A), Paced(q), NEW k \in 0..(Len(q) - 1), NEW m, NEW p,
           Awaits(m, q, k), Known(m, p) \/ (Win(q[k + 1]) /\ p.ticket = q[k + 1].ticket)
    PROVE  Awaits(p, q, k + 1)
<1>0. Len(q) \in Nat /\ k \in Nat
      BY LenProperties
<1> SUFFICES ASSUME p.kind = "inspection", p.flown, NEW j \in (k + 2)..Len(q), Win(q[j])
             PROVE  p.ticket < q[j].ticket
  <2>1. k + 1 + 1 = k + 2
        BY <1>0
  <2> QED BY <2>1 DEF Awaits
<1>1. j \in (k + 1)..Len(q) /\ j \in 1..Len(q) /\ k + 1 \in 1..Len(q) /\ k + 1 < j
      BY <1>0
<1>2. CASE Known(m, p)
      BY <1>1, <1>2 DEF Known, Awaits
<1>3. CASE Win(q[k + 1]) /\ p.ticket = q[k + 1].ticket
      BY <1>1, <1>3 DEF Paced
<1> QED BY <1>2, <1>3

LEMMA ConsumeSincere ==
    ASSUME NEW c, Env, Well(c), NEW a \in Seq(Events(Len(c.orders))), Sincere(c, a),
           Reported(c.results, c.orders, flights.done), Chronicle(c.orders)
    PROVE  Sincere(Consume(c), a)
<1> DEFINE n == Len(c.orders)
           o == c.orders
           e == [c EXCEPT !.results = <<>>]
           q == c.results
           K(d, k) == /\ Withheld(d) /\ d.orders = o /\ Telling(d, a) /\ Awaits(d.mission, q, k)
           T == [k \in 0..Len(q) |-> {d \in Station(n) : K(d, k)}]
<1>1. /\ c \in Station(n) /\ n \in Nat /\ q \in Seq(Results(n)) /\ Withheld(c)
      /\ Telling(c, a) /\ Coming(q, c.mission) /\ NoCommand \notin c.parked
      BY DEF Well, Station, Sincere
<1>2. Len(q) \in Nat /\ \A i \in 1..Len(q) : q[i] \in Results(n) /\ Truthful(o, flights.done, q[i])
      BY <1>1, LenProperties, ElementOfSeq DEF Reported
<1>3. Paced(q) /\ Awaits(c.mission, q, 0)
  <2>1. Paced(q)
        BY <1>1 DEF Coming, Paced
  <2>2. 0 + 1 = 1
        OBVIOUS
  <2>3. Awaits(c.mission, q, 0)
        BY <1>1, <2>2 DEF Coming, Later, Awaits
  <2> QED BY <2>1, <2>3
<1>4. e \in T[0]
  <2>1. <<>> \in Seq(Results(n))
        BY EmptySeq
  <2>2. /\ e \in Station(n) /\ e.orders = c.orders /\ e.seq = c.seq /\ Untold(c, e)
        /\ e.blocked = c.blocked /\ e.standby = c.standby
    <3> HIDE DEF n
    <3> QED BY <1>1, <2>1 DEF Station, Untold
  <2> HIDE DEF e, n, q
  <2>3. Telling(e, a)
        BY <1>1, <2>2, SequenceTold DEF Untold
  <2>4. K(e, 0)
        BY <1>1, <1>3, <2>2, <2>3 DEF Withheld, Untold
  <2>5. 0 \in 0..Len(q)
        BY <1>2
  <2> QED BY <2>2, <2>4, <2>5
<1>5. ASSUME NEW k \in 0..(Len(q) - 1), NEW d \in T[k]
      PROVE  Consumed(d, q[k + 1]) \in T[k + 1]
  <2> DEFINE r == q[k + 1]
             f == Consumed(d, r)
  <2>0. k \in 0..Len(q) /\ k + 1 \in 0..Len(q) /\ k + 1 \in 1..Len(q) /\ k \in Nat
        BY <1>2
  <2>a. d \in Station(n) /\ K(d, k)
        BY <1>5, <2>0
  <2>1. Well(d) /\ Len(d.orders) = n /\ d.orders = o /\ Telling(d, a)
        BY <1>1, <2>a DEF Well
  <2>2. /\ r \in Results(Len(d.orders)) /\ Truthful(d.orders, flights.done, r)
        /\ a \in Seq(Events(Len(d.orders))) /\ Chronicle(d.orders)
        BY <1>2, <2>0, <2>1
  <2>3. d.mission.kind = "inspection" /\ d.mission.flown /\ Win(r) => d.mission.ticket < r.ticket
    <3>1. k + 1 \in (k + 1)..Len(q)
          BY <1>2, <2>0
    <3> QED BY <2>a, <3>1 DEF Awaits
  <2> HIDE DEF K, T, n, o
  <2>4. Well(f) /\ f.orders = d.orders
        BY <2>1, <2>2, ConsumedWell
  <2>5. /\ Telling(f, a)
        /\ Known(d.mission, f.mission) \/ (Win(r) /\ f.mission.ticket = r.ticket)
    <3> HIDE DEF r
    <3> QED BY <2>1, <2>2, <2>3, ConsumedTold
  <2>6. Awaits(d.mission, q, k)
        BY <2>a DEF K
  <2> HIDE DEF f
  <2>7. Awaits(f.mission, q, k + 1)
    <3> HIDE DEF q
    <3> QED BY <1>1, <1>3, <2>5, <2>6, AwaitsNext DEF r
  <2>8. f \in Station(n) /\ Withheld(f)
        BY <2>1, <2>4 DEF Well
  <2>9. f \in Station(n) /\ K(f, k + 1)
        BY <2>1, <2>4, <2>5, <2>7, <2>8 DEF K
  <2> QED BY <2>0, <2>9 DEF T, f
<1>6. Consume(c) = FoldLeft(Consumed, e, q)
      BY DEF Consume
<1> HIDE DEF T, e, K
<1>7. FoldLeft(Consumed, e, q) \in T[Len(q)]
  <2> DEFINE A == Results(n)
  <2>1. q \in Seq(A) /\ \A k \in 0..(Len(q) - 1) : \A d \in T[k] : Consumed(d, q[k + 1]) \in T[k + 1]
        BY <1>1, <1>5
  <2> HIDE DEF A, q
  <2> QED BY <1>4, <2>1, ConsumeEach
<1> DEFINE d == Consume(c)
<1>8. K(d, Len(q))
  <2>1. Len(q) \in 0..Len(q)
        BY <1>2
  <2> QED BY <1>6, <1>7, <2>1 DEF T
<1>9. d.results = <<>> /\ d.parked = c.parked
      BY ConsumeWell
<1> HIDE DEF d
<1>10. Coming(d.results, d.mission)
  <2>1. Len(<<>>) = 0
        BY EmptySeq
  <2> QED BY <1>9, <2>1 DEF Coming, Later
<1>11. Sincere(d, a)
       BY <1>1, <1>8, <1>9, <1>10 DEF Sincere, K
<1> QED BY <1>11 DEF d

(***************************************************************************)
(* The window: it tells nothing, but begins missions.                      *)
(***************************************************************************)
\* The mission m begins with the order of a ticket beyond n.
Fresh(n, o, m) ==
    /\ m.ticket \in (n + 1)..Len(o) /\ m.reached = 0 /\ m.reported = 0
    /\ ~m.flown /\ ~m.landed
    /\ m.kind = "inspection" => o[m.ticket].command # NoCommand

Windows(c, d) ==
    /\ d.out = c.out /\ d.photos = c.photos /\ d.waiting = c.waiting
    /\ d.results = c.results /\ d.parked = c.parked
    /\ d.mission = c.mission \/ Fresh(Len(c.orders), d.orders, d.mission)
    /\ Kinded(c.seq) => Kinded(d.seq)

LEMMA WindowsTwice ==
    ASSUME NEW c, NEW d, NEW e, Well(c), Well(d), Well(e), Follows(c, d), Follows(d, e),
           Windows(c, d), Windows(d, e)
    PROVE  Windows(c, e)
<1>1. /\ e.out = c.out /\ e.photos = c.photos /\ e.waiting = c.waiting
      /\ e.results = c.results /\ e.parked = c.parked
      /\ Kinded(c.seq) => Kinded(e.seq)
      BY DEF Windows
<1> DEFINE n == Len(c.orders)
           k == Len(d.orders)
           l == Len(e.orders)
           m == e.mission
<1>2. n \in Nat /\ k \in Nat /\ l \in Nat /\ n <= k /\ k <= l
      BY DEF Well, Follows
<1>3. CASE m = c.mission
      BY <1>1, <1>3 DEF Windows
<1>4. CASE Fresh(k, e.orders, m)
  <2>1. m.ticket \in (n + 1)..l
    <3>1. m.ticket \in (k + 1)..l
          BY <1>4 DEF Fresh
    <3> HIDE DEF n, k, l, m
    <3> QED BY <1>2, <3>1
  <2>2. Fresh(n, e.orders, m)
        BY <1>4, <2>1 DEF Fresh
  <2> QED BY <1>1, <2>2 DEF Windows
<1>5. CASE m = d.mission /\ Fresh(n, d.orders, m)
  <2>1. m.ticket \in (n + 1)..k
        BY <1>5 DEF Fresh
  <2>2. m.ticket \in (n + 1)..l /\ m.ticket \in 1..k
    <3> HIDE DEF n, k, l, m
    <3> QED BY <1>2, <2>1
  <2>3. e.orders[m.ticket] = d.orders[m.ticket]
        BY <2>2 DEF Follows
  <2>4. Fresh(n, e.orders, m)
        BY <1>5, <2>2, <2>3 DEF Fresh
  <2> QED BY <1>1, <2>4 DEF Windows
<1> QED BY <1>3, <1>4, <1>5 DEF Windows

LEMMA WindowsSame ==
    ASSUME NEW c, NEW d, Untold(c, d), d.results = c.results, d.parked = c.parked,
           Kinded(c.seq) => Kinded(d.seq)
    PROVE  Windows(c, d)
BY DEF Windows, Untold

LEMMA WindowsSincere ==
    ASSUME NEW c, NEW d, Well(c), Well(d), Follows(c, d), Windows(c, d),
           NEW a \in Seq(Events(Len(c.orders))), Sincere(c, a)
    PROVE  Sincere(d, a)
<1> DEFINE n == Len(c.orders)
           s == a \o c.out
           m == d.mission
<1>1. /\ c \in Station(n) /\ n \in Nat /\ a \in Seq(Events(n)) /\ c.out \in Seq(Events(n))
      /\ c.photos \in Seq(Inspections(n)) /\ c.waiting \in Seq(Inspections(n))
      /\ c.mission \in Missions(n)
      BY DEF Well, Station
<1>2. s \in Seq(Events(n))
      BY <1>1, ConcatProperties
<1>3. /\ Tale(s) /\ Landings(c.photos, c.waiting, s) /\ Kinded(c.seq)
      /\ Newest(c.mission, c.photos, c.waiting, c.orders, s)
      /\ Coming(c.results, c.mission) /\ NoCommand \notin c.parked
      BY DEF Sincere, Telling, Speaks
<1> HIDE DEF s
<1>4. Newest(m, c.photos, c.waiting, d.orders, s)
  <2>1. CASE m = c.mission
    <3> SUFFICES ASSUME m.kind # "none" PROVE Claims(m, d.orders)
        BY <1>3, <2>1 DEF Newest
    <3>1. m.ticket \in 1..n
          BY <1>1, <2>1 DEF Missions
    <3>2. d.orders[m.ticket] = c.orders[m.ticket]
          BY <3>1 DEF Follows
    <3>3. Claims(m, c.orders)
          BY <1>3, <2>1 DEF Newest
    <3> QED BY <3>2, <3>3 DEF Claims
  <2>2. CASE Fresh(n, d.orders, m)
    <3>1. /\ m.ticket \in (n + 1)..Len(d.orders) /\ m.reached = 0 /\ m.reported = 0
          /\ Len(d.orders) \in Nat
          BY <2>2 DEF Fresh, Well
    <3> HIDE DEF m
    <3>2. n < m.ticket
      <4> HIDE DEF n
      <4> QED BY <1>1, <3>1
    <3>3. \A q \in Seq(Inspections(n)) : Under(q, m.ticket)
      <4> SUFFICES ASSUME NEW q \in Seq(Inspections(n)), NEW i \in 1..Len(q)
                   PROVE  q[i].ticket < m.ticket
          BY DEF Under
      <4>1. q[i] \in Inspections(n)
            BY ElementOfSeq
      <4>2. q[i].ticket \in 0..n
            BY <4>1 DEF Inspections, Missions
      <4> HIDE DEF n
      <4> QED BY <1>1, <3>1, <3>2, <4>2
    <3>4. \A i \in 1..Len(s) : s[i].mission < m.ticket
      <4> TAKE i \in 1..Len(s)
      <4>1. s[i] \in Events(n)
            BY <1>2, ElementOfSeq
      <4>2. s[i].mission \in 1..n
            BY <4>1 DEF Events
      <4> HIDE DEF n
      <4> QED BY <1>1, <3>1, <3>2, <4>2
    <3>5. Past(s, m.ticket)
          BY <3>4 DEF Past
    <3>6. Upto(s, m.ticket, m.reported)
      <4> SUFFICES ASSUME NEW i \in 1..Len(s), s[i].mission = m.ticket PROVE FALSE
          BY DEF Upto
      <4>1. m.ticket < m.ticket
            BY <3>4
      <4> QED BY <3>1, <4>1
    <3>7. Visited(m)
      <4>1. 1..0 = {}
            OBVIOUS
      <4> QED BY <3>1, <4>1 DEF Visited
    <3>8. Claims(m, d.orders)
          BY <2>2 DEF Fresh, Claims, m
    <3> QED BY <1>1, <3>3, <3>5, <3>6, <3>7, <3>8 DEF Newest, Held
  <2> QED BY <2>1, <2>2 DEF Windows
<1>5. Coming(d.results, m)
  <2>1. m.kind = "inspection" /\ m.flown => c.mission = m
        BY DEF Windows, Fresh
  <2> QED BY <1>3, <2>1 DEF Coming, Windows
<1> HIDE DEF m
<1>6. Telling(d, a)
  <2>1. /\ d.out = c.out /\ d.photos = c.photos /\ d.waiting = c.waiting /\ Kinded(d.seq)
        BY <1>3 DEF Windows
  <2> QED BY <1>3, <1>4, <2>1 DEF Telling, Speaks, s, m
<1> QED BY <1>3, <1>5, <1>6 DEF Sincere, Windows, m

LEMMA UntoldTwice ==
    ASSUME NEW c, NEW d, NEW e, Untold(c, d), Untold(d, e)
    PROVE  Untold(c, e)
BY DEF Untold

LEMMA EnqueueUntold ==
    ASSUME NEW c, Well(c), NEW name, NEW k
    PROVE  Untold(c, Enqueue(c, name, k))
<1> DEFINE queue == Append(c.queue, NextTicket(c))
           orders == Append(c.orders, [name |-> name, command |-> k])
<1>1. Enqueue(c, name, k) = [c EXCEPT !.queue = queue, !.orders = orders]
      BY DEF Enqueue, Well, Station
<1> HIDE DEF queue, orders
<1> QED BY <1>1 DEF Untold, Well, Station

LEMMA RequestedUntold ==
    ASSUME NEW c, Env, Well(c), NEW f \in Frame, NEW yes \in BOOLEAN
    PROVE  Untold(c, Requested(c, f, yes))
<1> DEFINE name == Asked(f)
           e == Enqueue(c, name, f.command)
           d == Requested(c, f, yes)
<1>1. Untold(c, e)
      BY EnqueueUntold
<1>2. e \in Station(Len(c.orders) + 1)
  <2> DEFINE k == f.command
  <2>1. name \in Name /\ k \in Command /\ Len(c.orders) \in Nat /\ c \in Station(Len(c.orders))
        BY DEF Asked, Name, Frame, Well
  <2>2. e = Enqueue(c, name, k)
        OBVIOUS
  <2> HIDE DEF name, k, e
  <2> QED BY <2>1, <2>2, EnqueueType
<1>3. \/ d = c \/ d = e
      \/ d = [e EXCEPT !.running = TRUE, !.active = NextTicket(c)]
      BY DEF Requested
<1> HIDE DEF e, d
<1>4. CASE d = c
      BY <1>4 DEF Untold, d
<1>5. CASE d = e
      BY <1>1, <1>5 DEF d
<1>6. CASE d = [e EXCEPT !.running = TRUE, !.active = NextTicket(c)]
  <2>1. Untold(e, d)
        BY <1>2, <1>6 DEF Untold, Station
  <2> QED BY <1>1, <2>1, UntoldTwice DEF d
<1> QED BY <1>3, <1>4, <1>5, <1>6

LEMMA BindingUntold ==
    ASSUME NEW c, Env, Well(c), NEW f \in Frame, c.seq # NoSequence
    PROVE  LET d == Binding(c, f, TRUE)
           IN  Untold(c, d) /\ d.seq.kind = c.seq.kind /\ d.seq.command = c.seq.command
<1> DEFINE e == Requested(c, f, TRUE)
           d == Binding(c, f, TRUE)
           phase == IF f.for = "first" THEN "takeoff" ELSE Asked(f)
           q == [c.seq EXCEPT !.ticket = Len(c.orders) + 1, !.phase = phase]
           p == [e.seq EXCEPT !.ticket = NextTicket(c), !.phase = phase]
<1>1. Untold(c, e) /\ Well(e)
      BY RequestedUntold, RequestedWell
<1>2. d = [e EXCEPT !.seq = p]
      BY DEF Binding
<1>3. d.seq = q /\ c.seq \in Sequences(Len(c.orders))
      BY BindingWell DEF Well, Station
<1> HIDE DEF d, e, p
<1>4. Untold(e, d)
      BY <1>1, <1>2 DEF Untold, Well, Station
<1>5. Untold(c, d)
      BY <1>1, <1>4, UntoldTwice
<1> HIDE DEF phase
<1>6. q.kind = c.seq.kind /\ q.command = c.seq.command
      BY <1>3 DEF Sequences
<1> QED BY <1>3, <1>5, <1>6 DEF d

LEMMA BeginLandingUntold ==
    ASSUME NEW c, Well(c), NEW t
    PROVE  Untold(c, BeginLanding(c, t))
BY DEF BeginLanding, Untold, Well, Station

LEMMA StartUntold ==
    ASSUME NEW c, Well(c), NEW q
    PROVE  Untold(c, [BlockStandby(c) EXCEPT !.seq = q])
BY DEF BlockStandby, Untold, Well, Station

LEMMA BeginMissionFresh ==
    ASSUME NEW c, Env, Well(c), NEW n \in Nat, Len(c.orders) = n + 1,
           NEW kind \in MissionKind \ {"none"}, NEW size,
           kind = "inspection" => c.orders[n + 1].command # NoCommand
    PROVE  LET d == BeginMission(c, n + 1, kind, size)
           IN  /\ d.out = c.out /\ d.photos = c.photos /\ d.waiting = c.waiting /\ d.seq = c.seq
               /\ Fresh(n, d.orders, d.mission)
<1> DEFINE t == n + 1
           b == NoMission
           m == [b EXCEPT !.ticket = t, !.kind = kind, !.size = size, !.no = address.no]
           d == BeginMission(c, t, kind, size)
<1>1. d = [c EXCEPT !.mission = m]
      BY DEF BeginMission
<1>2. b \in Missions(0)
      BY NoMissionType
<1>3. b.reached = 0 /\ b.reported = 0 /\ ~b.flown /\ ~b.landed
      BY DEF NoMission
<1>4. t \in (n + 1)..Len(c.orders)
      BY DEF Well
<1> HIDE DEF d, m, b, t
<1>5. /\ d.out = c.out /\ d.photos = c.photos /\ d.waiting = c.waiting /\ d.seq = c.seq
      /\ d.mission = m /\ d.orders = c.orders
      BY <1>1 DEF Well, Station
<1>6. /\ m.ticket = t /\ m.kind = kind /\ m.reached = 0 /\ m.reported = 0
      /\ ~m.flown /\ ~m.landed
      BY <1>2, <1>3 DEF Missions, m
<1>7. kind = "inspection" => c.orders[t].command # NoCommand
      BY DEF t
<1>8. Fresh(n, d.orders, d.mission)
      BY <1>4, <1>5, <1>6, <1>7 DEF Fresh
<1> QED BY <1>5, <1>8 DEF d, t

LEMMA ContinueWindows ==
    ASSUME NEW c, Env, Well(c), Kinded(c.seq), NEW f \in Frame, f.for # "command",
           NEW yes \in BOOLEAN
    PROVE  Windows(c, Continue(c, f, yes))
<1> DEFINE ticket == NextTicket(c)
           queued == Requested(c, f, yes)
           bound == Binding(c, f, yes)
           landing == BeginLanding(queued, ticket)
           d == Continue(c, f, yes)
           n == Len(c.orders)
<1>1. /\ Well(queued) /\ queued.seq = c.seq /\ Untold(c, queued) /\ ticket = n + 1
      BY RequestedWell, RequestedUntold
<1>2. Well(d) /\ Steady(c, d)
      BY ContinueWell
<1> SUFFICES /\ Kinded(d.seq)
             /\ \/ Untold(c, d)
                \/ /\ d.out = c.out /\ d.photos = c.photos /\ d.waiting = c.waiting
                   /\ Fresh(n, d.orders, d.mission)
    BY <1>2 DEF Windows, Untold, Steady
<1>3. CASE d = queued
      BY <1>1, <1>3
<1>4. CASE d = c
      BY <1>4 DEF Untold
<1>5. CASE d = EndSequence(c)
      BY <1>5, EndSequenceWell, EndSequenceUntold, IdleKinded
<1>6. yes => Well(landing) /\ Untold(c, landing)
  <2> HAVE yes
  <2>1. Len(queued.orders) = n + 1
        BY RequestedWell
  <2>a. n \in Nat
        BY DEF Well
  <2>b. n + 1 \in 1..(n + 1)
    <3> HIDE DEF n
    <3> QED BY <2>a
  <2>2. ticket \in 1..Len(queued.orders)
        BY <1>1, <2>1, <2>b
  <2> HIDE DEF ticket, queued
  <2>3. Well(landing)
        BY <1>1, <2>2, BeginLandingWell
  <2>4. Untold(queued, landing)
        BY <1>1, BeginLandingUntold
  <2> QED BY <1>1, <2>3, <2>4, UntoldTwice
<1>7. CASE f.for = "landing" /\ yes /\ d = EndSequence(landing)
  <2> HIDE DEF landing, d
  <2>1. d.seq = NoSequence /\ Untold(landing, d)
        BY <1>6, <1>7, EndSequenceWell, EndSequenceUntold
  <2>2. Untold(c, d)
        BY <1>6, <1>7, <2>1, UntoldTwice
  <2> QED BY <2>1, <2>2, IdleKinded
<1>8. CASE /\ f.for = "landing" /\ yes
           /\ d = [BlockStandby(landing) EXCEPT
                      !.seq = [NewSequence("emergency", "land", f.command) EXCEPT
                                  !.ticket = ticket]]
  <2> DEFINE b == NewSequence("emergency", "land", f.command)
             q == [b EXCEPT !.ticket = ticket]
  <2>1. b.kind = "emergency" /\ DOMAIN b = {"kind", "phase", "ticket", "command", "delay", "via"}
        BY DEF NewSequence, NoSequence
  <2> HIDE DEF landing, d, ticket
  <2>2. d = [BlockStandby(landing) EXCEPT !.seq = q]
        BY <1>8
  <2>3. q.kind = "emergency"
    <3> HIDE DEF b
    <3> QED BY <2>1
  <2> HIDE DEF q
  <2>a. landing \in Station(Len(landing.orders)) /\ Well(landing)
        BY <1>6, <1>8 DEF Well
  <2>b. d = [landing EXCEPT !.blocked = TRUE, !.standby = FALSE, !.seq = q]
        BY <2>2 DEF BlockStandby
  <2>4. Untold(landing, d) /\ d.seq = q
        BY <2>a, <2>b DEF Untold, Station
  <2>5. Untold(c, d)
        BY <1>6, <1>8, <2>4, UntoldTwice
  <2> QED BY <2>3, <2>4, <2>5, IdleKinded
<1>9. CASE Same(c, f) /\ yes /\ f.for \in {"first", "waypoints", "land"}
  <2>0. c.seq # NoSequence /\ c.seq.command = f.command /\ bound = Binding(c, f, TRUE)
        BY <1>9 DEF Same
  <2>1. /\ Well(bound) /\ Untold(c, bound) /\ bound.orders = queued.orders
        /\ bound.seq.kind = c.seq.kind /\ bound.seq.command = c.seq.command
        BY <1>9, <2>0, BindingWell, BindingUntold
  <2>2. Kinded(bound.seq)
        BY <2>1 DEF Kinded
  <2>3. /\ Len(queued.orders) = n + 1 /\ queued.orders[n + 1].command = f.command /\ n \in Nat
    <3>1. n \in Nat
          BY DEF Well
    <3>2. /\ Len(queued.orders) = n + 1
          /\ queued.orders[n + 1] = [name |-> Asked(f), command |-> f.command]
          BY <1>9, RequestedWell
    <3> QED BY <3>1, <3>2
  <2> HIDE DEF bound, queued
  <2>4. CASE d = bound
        BY <2>1, <2>2, <2>4
  <2>5. CASE d = BeginLanding(bound, ticket)
    <3>1. ticket \in 1..Len(bound.orders)
          BY <1>1, <2>1, <2>3
    <3> HIDE DEF d, ticket
    <3>2. Untold(bound, d) /\ d.seq = bound.seq
          BY <2>1, <2>5, <3>1, BeginLandingWell, BeginLandingUntold DEF Leaves
    <3>3. Untold(c, d)
          BY <2>1, <3>2, UntoldTwice
    <3> QED BY <2>2, <3>2, <3>3
  <2>6. ASSUME NEW kind \in MissionKind \ {"none"}, NEW size,
               kind = "inspection" => c.seq.kind = "inspection",
               d = BeginMission(bound, ticket, kind, size)
        PROVE  /\ Kinded(d.seq) /\ d.out = c.out /\ d.photos = c.photos /\ d.waiting = c.waiting
               /\ Fresh(n, d.orders, d.mission)
    <3>1. kind = "inspection" => bound.orders[n + 1].command # NoCommand
          BY <2>0, <2>1, <2>3, <2>6 DEF Kinded
    <3>2. Len(bound.orders) = n + 1 /\ d = BeginMission(bound, n + 1, kind, size)
          BY <1>1, <2>1, <2>3, <2>6
    <3> HIDE DEF d, n
    <3>3. /\ d.out = bound.out /\ d.photos = bound.photos /\ d.waiting = bound.waiting
          /\ d.seq = bound.seq /\ Fresh(n, d.orders, d.mission)
          BY <2>1, <2>3, <3>1, <3>2, BeginMissionFresh
    <3> QED BY <2>1, <2>2, <3>3 DEF Untold
  <2>7. CASE d = BeginMission(bound, ticket, "inspection", limit.points) /\ c.seq.kind = "inspection"
    <3>1. "inspection" \in MissionKind \ {"none"}
          BY DEF MissionKind
    <3> HIDE DEF d
    <3> QED BY <2>6, <2>7, <3>1
  <2>8. CASE d = BeginMission(bound, ticket, "return", 1)
    <3>1. "return" \in MissionKind \ {"none"}
          BY DEF MissionKind
    <3> HIDE DEF d
    <3> QED BY <2>6, <2>8, <3>1
  <2>9. \/ d = bound \/ d = BeginLanding(bound, ticket)
        \/ d = BeginMission(bound, ticket, "inspection", limit.points) /\ c.seq.kind = "inspection"
        \/ d = BeginMission(bound, ticket, "return", 1)
        BY <1>9, ContinueCases DEF bound, ticket, queued
  <2> QED BY <2>4, <2>5, <2>7, <2>8, <2>9
<1>10. \/ d = queued \/ d = c \/ d = EndSequence(c)
       \/ f.for = "landing" /\ yes /\ d = EndSequence(landing)
       \/ /\ f.for = "landing" /\ yes
          /\ d = [BlockStandby(landing) EXCEPT
                      !.seq = [NewSequence("emergency", "land", f.command) EXCEPT
                                  !.ticket = ticket]]
       \/ Same(c, f) /\ yes /\ f.for \in {"first", "waypoints", "land"}
       BY ContinueCases
<1> HIDE DEF d, queued, landing, ticket
<1> QED BY <1>3, <1>4, <1>5, <1>7, <1>8, <1>9, <1>10

LEMMA AskWindows ==
    ASSUME NEW c, Env, Well(c), Kinded(c.seq), NEW for \in Waiting \ {"command"},
           NEW k \in Command
    PROVE  Windows(c, Ask(c, for, k))
<1> DEFINE d == Ask(c, for, k)
           f == [for |-> for, command |-> k, answer |-> "open", seen |-> snap]
           frames == Append(c.frames, f)
<1>1. f \in Frame /\ f.for # "command"
      BY DEF Frame, Answer, Env
<1>2. CASE Simulated
  <2>1. d = Continue(c, f, TRUE)
        BY <1>2 DEF Ask
  <2> HIDE DEF d, f
  <2> QED BY <1>1, <2>1, ContinueWindows DEF d
<1>3. CASE ~Simulated
  <2>1. d = [c EXCEPT !.frames = frames]
        BY <1>3 DEF Ask
  <2> HIDE DEF d, frames
  <2>2. /\ Untold(c, d) /\ d.seq = c.seq /\ d.results = c.results /\ d.parked = c.parked
        BY <2>1 DEF Untold, Well, Station
  <2> QED BY <2>2, WindowsSame DEF d
<1> QED BY <1>2, <1>3

LEMMA PhaseUntold ==
    ASSUME NEW c, Well(c), NEW phase
    PROVE  LET d == [c EXCEPT !.seq.phase = phase]
           IN  Untold(c, d) /\ d.results = c.results /\ d.parked = c.parked
<1> DEFINE q == [c.seq EXCEPT !.phase = phase]
           d == [c EXCEPT !.seq.phase = phase]
<1>1. d = [c EXCEPT !.seq = q]
      OBVIOUS
<1> HIDE DEF d, q
<1>2. Untold(c, d) /\ d.results = c.results /\ d.parked = c.parked
      BY <1>1 DEF Untold, Well, Station
<1> QED BY <1>2 DEF d

LEMMA PhaseWindows ==
    ASSUME NEW c, Env, Well(c), Kinded(c.seq), c.seq # NoSequence, NEW phase \in Phase
    PROVE  LET d == [c EXCEPT !.seq.phase = phase]
           IN  Windows(c, d) /\ Well(d) /\ Follows(c, d) /\ Kinded(d.seq)
<1> DEFINE d == [c EXCEPT !.seq.phase = phase]
<1>1. Well(d) /\ Follows(c, d) /\ d.seq.command = c.seq.command /\ d.seq.kind = c.seq.kind
      BY PhaseWell
<1>2. Untold(c, d) /\ d.results = c.results /\ d.parked = c.parked
      BY PhaseUntold
<1> HIDE DEF d
<1>3. Kinded(d.seq)
      BY <1>1 DEF Kinded
<1> QED BY <1>1, <1>2, <1>3, WindowsSame DEF d

LEMMA PhaseAskWindows ==
    ASSUME NEW c, Env, Well(c), Kinded(c.seq), c.seq # NoSequence, NEW phase \in Phase,
           NEW for \in Waiting \ {"command"}
    PROVE  Windows(c, Ask([c EXCEPT !.seq.phase = phase], for, c.seq.command))
<1> DEFINE e == [c EXCEPT !.seq.phase = phase]
           k == c.seq.command
           d == Ask(e, for, k)
<1>1. k \in Command
      BY DEF Well, Station, Sequences
<1>2. Windows(c, e) /\ Well(e) /\ Follows(c, e) /\ Kinded(e.seq)
      BY PhaseWindows
<1> HIDE DEF e, k
<1>3. Windows(e, d) /\ Well(d) /\ Follows(e, d)
      BY <1>1, <1>2, AskWindows, AskWell
<1> HIDE DEF d
<1>4. Windows(c, d)
      BY <1>2, <1>3, WindowsTwice
<1> QED BY <1>4 DEF d, e, k

LEMMA DriveWindows ==
    ASSUME NEW c, Env, Well(c), Kinded(c.seq), NEW s
    PROVE  Windows(c, Drive(c, s))
<1> DEFINE d == Drive(c, s)
<1>1. DriveCases(c, s, d)
      BY DriveIs
<1> HIDE DEF d
<1>2. CASE d = c
      BY <1>2, WindowsSame DEF Untold, d
<1>3. CASE /\ MayDrive(c) /\ c.seq.phase = "waypoints_pending"
           /\ d = Ask([c EXCEPT !.seq.phase = "waypoints_submitting"], "waypoints", c.seq.command)
  <2>1. c.seq # NoSequence /\ "waypoints_submitting" \in Phase /\ "waypoints" \in Waiting \ {"command"}
        BY <1>3 DEF MayDrive, Phase, Waiting
  <2> QED BY <1>3, <2>1, PhaseAskWindows DEF d
<1>4. CASE /\ MayDrive(c) /\ c.seq.phase = "land_pending"
           /\ d = Ask([c EXCEPT !.seq.phase = "land_submitting"], "land", c.seq.command)
  <2>1. c.seq # NoSequence /\ "land_submitting" \in Phase /\ "land" \in Waiting \ {"command"}
        BY <1>4 DEF MayDrive, Phase, Waiting
  <2> QED BY <1>4, <2>1, PhaseAskWindows DEF d
<1>5. CASE /\ MayDrive(c) /\ c.seq.phase = "land_pending" /\ d = [c EXCEPT !.seq.phase = "standby"]
  <2>1. c.seq # NoSequence /\ "standby" \in Phase
        BY <1>5 DEF MayDrive, Phase
  <2> QED BY <1>5, <2>1, PhaseWindows DEF d
<1>6. CASE MayDrive(c) /\ d = EndSequence(c)
  <2>1. Steady(c, d) /\ Untold(c, d) /\ d.seq = NoSequence
        BY <1>6, EndSequenceWell, EndSequenceUntold DEF Steady
  <2> QED BY <2>1, IdleKinded, WindowsSame DEF Steady, d
<1>7. CASE /\ c.seq.kind = "abnormal"
           /\ d = [Enqueue(c, "clear_abnormal", NoCommand) EXCEPT
                      !.seq.phase = "clear_abnormal", !.seq.ticket = NextTicket(c)]
  <2> DEFINE e == Enqueue(c, "clear_abnormal", NoCommand)
             q == [e.seq EXCEPT !.phase = "clear_abnormal", !.ticket = NextTicket(c)]
             n == Len(c.orders)
  <2>1. NoCommand \in Command /\ "clear_abnormal" \in Name /\ n \in Nat /\ c \in Station(n)
        BY NoSequenceType DEF Well, Env, Place, Name
  <2>2. e \in Station(n + 1) /\ Leaves(c, e) /\ Untold(c, e)
        BY <2>1, EnqueueType, EnqueueUntold
  <2>3. d = [e EXCEPT !.seq = q]
        BY <1>7
  <2> HIDE DEF n, e
  <2>4. e.seq = c.seq /\ e.seq \in Sequences(n + 1)
        BY <2>2 DEF Leaves, Station
  <2>5. q.kind = "abnormal"
        BY <1>7, <2>4 DEF Sequences
  <2> HIDE DEF q
  <2>6. Untold(e, d) /\ d.seq = q /\ d.results = e.results /\ d.parked = e.parked
        BY <2>2, <2>3 DEF Untold, Station
  <2>7. Untold(c, d) /\ d.results = c.results /\ d.parked = c.parked
        BY <2>2, <2>6, UntoldTwice DEF Leaves
  <2>8. Kinded(d.seq)
        BY <2>5, <2>6, IdleKinded
  <2> QED BY <2>7, <2>8, WindowsSame DEF d
<1> QED BY <1>1, <1>2, <1>3, <1>4, <1>5, <1>6, <1>7 DEF DriveCases, DriveStandbyCases

\* A sequence of another kind is started.
LEMMA StartWindows ==
    ASSUME NEW c, Env, Well(c), NEW q \in Sequences(Len(c.orders)), Kinded(q)
    PROVE  LET d == [BlockStandby(c) EXCEPT !.seq = q]
           IN  /\ Windows(c, d) /\ Well(d) /\ Follows(c, d) /\ d.seq = q /\ d.orders = c.orders
               /\ Kinded(d.seq)
<1> DEFINE d == [BlockStandby(c) EXCEPT !.seq = q]
<1>1. Well(d) /\ Follows(c, d) /\ Steady(c, d) /\ d.seq = q /\ d.orders = c.orders
      BY StartWell
<1>2. Untold(c, d)
      BY StartUntold
<1> HIDE DEF d
<1>3. Windows(c, d)
      BY <1>1, <1>2, WindowsSame DEF Steady
<1> QED BY <1>1, <1>3 DEF d

LEMMA AbnormalWindows ==
    ASSUME NEW c, Env, Well(c), Kinded(c.seq), NEW s
    PROVE  Windows(c, VehicleAbnormal(c, s))
<1> DEFINE d == VehicleAbnormal(c, s)
           n == Len(c.orders)
<1>0. AbnormalCases(c, s, d)
      BY AbnormalIs
<1> HIDE DEF d
<1>1. c \in Station(n) /\ n \in Nat /\ limit \in Limits
      BY DEF Well, Env, Place
<1>2. CASE d = c
      BY <1>2, WindowsSame DEF Untold, d
<1>3. CASE d = [c EXCEPT !.latched = FALSE]
  <2>1. Untold(c, d) /\ d.seq = c.seq /\ d.results = c.results /\ d.parked = c.parked
        BY <1>1, <1>3 DEF Station, Untold
  <2> QED BY <2>1, WindowsSame DEF d
<1>4. CASE d = [c EXCEPT !.seq.kind = "abnormal", !.latched = TRUE]
  <2> DEFINE q == [c.seq EXCEPT !.kind = "abnormal"]
  <2>1. q.kind = "abnormal"
        BY <1>1 DEF Station, Sequences
  <2>2. d = [c EXCEPT !.seq = q, !.latched = TRUE]
        BY <1>1, <1>4 DEF Station
  <2> HIDE DEF q
  <2>3. Untold(c, d) /\ d.seq = q /\ d.results = c.results /\ d.parked = c.parked
        BY <1>1, <2>2 DEF Station, Untold
  <2>4. Kinded(d.seq)
        BY <2>1, <2>3, IdleKinded
  <2> QED BY <2>3, <2>4, WindowsSame DEF d
<1>5. CASE LET e == [BlockStandby(c) EXCEPT
                           !.seq = NewSequence("abnormal", "waypoints_pending", NoCommand)]
           IN  d = [Ask([e EXCEPT !.seq.phase = "waypoints_submitting"], "waypoints",
                           e.seq.command) EXCEPT !.latched = TRUE, !.staged = TRUE]
  <2> DEFINE q == NewSequence("abnormal", "waypoints_pending", NoCommand)
             e == [BlockStandby(c) EXCEPT !.seq = q]
             a == Ask([e EXCEPT !.seq.phase = "waypoints_submitting"], "waypoints", e.seq.command)
  <2>0. /\ "abnormal" \in Kind /\ "waypoints_pending" \in Phase /\ "waypoints_submitting" \in Phase
        /\ "waypoints" \in Waiting \ {"command"} /\ NoCommand \in Command
        BY <1>1, NoSequenceType DEF Kind, Phase, Waiting
  <2>1. q.kind = "abnormal"
        BY DEF NewSequence, NoSequence
  <2>2. q \in Sequences(n)
    <3> HIDE DEF n
    <3> QED BY <1>1, <2>0, NewSequenceType
  <2> HIDE DEF q
  <2>3. q # NoSequence /\ Kinded(q)
    <3>1. NoSequence.kind = "none"
          BY DEF NoSequence
    <3> QED BY <2>1, <3>1, IdleKinded
  <2>4. Windows(c, e) /\ Well(e) /\ Follows(c, e) /\ e.seq = q /\ Kinded(e.seq)
        BY <2>2, <2>3, StartWindows
  <2> HIDE DEF e
  <2>5. Windows(e, a) /\ Well(a) /\ Follows(e, a)
        BY <2>0, <2>3, <2>4, PhaseAskWindows, PhaseAskWell
  <2>6. d = [a EXCEPT !.latched = TRUE, !.staged = TRUE]
        BY <1>5 DEF a, e, q
  <2> HIDE DEF a
  <2>7. Windows(c, a) /\ Follows(c, a)
        BY <2>4, <2>5, WindowsTwice, FollowsTwice
  <2>8. /\ Untold(a, d) /\ d.seq = a.seq /\ d.results = a.results /\ d.parked = a.parked
        /\ d.orders = a.orders
        BY <2>5, <2>6 DEF Well, Station, Untold
  <2> QED BY <2>7, <2>8 DEF Windows, Untold, d
<1>6. CASE d = [BlockStandby(c) EXCEPT !.seq = NewSequence("abnormal", "standby", NoCommand),
                                       !.latched = TRUE]
  <2> DEFINE q == NewSequence("abnormal", "standby", NoCommand)
             e == [BlockStandby(c) EXCEPT !.seq = q]
  <2>0. "abnormal" \in Kind /\ "standby" \in Phase /\ NoCommand \in Command
        BY <1>1, NoSequenceType DEF Kind, Phase
  <2>1. q.kind = "abnormal"
        BY DEF NewSequence, NoSequence
  <2>2. q \in Sequences(n)
    <3> HIDE DEF n
    <3> QED BY <1>1, <2>0, NewSequenceType
  <2> HIDE DEF q
  <2>3. Kinded(q)
        BY <2>1, IdleKinded
  <2>4. Windows(c, e) /\ Well(e)
        BY <2>2, <2>3, StartWindows
  <2>5. d = [e EXCEPT !.latched = TRUE]
        BY <1>6 DEF q
  <2> HIDE DEF e
  <2>6. /\ Untold(e, d) /\ d.seq = e.seq /\ d.results = e.results /\ d.parked = e.parked
        /\ d.orders = e.orders
        BY <2>4, <2>5 DEF Well, Station, Untold
  <2> QED BY <2>4, <2>6 DEF Windows, Untold, d
<1> QED BY <1>0, <1>2, <1>3, <1>4, <1>5, <1>6 DEF AbnormalCases

LEMMA ActWindows ==
    ASSUME NEW c, Env, Well(c), Kinded(c.seq), NEW i \in Command, i # NoCommand, NEW judged
    PROVE  Windows(c, Act(c, judged, i))
<1> DEFINE d == Act(c, judged, i)
<1>0. "takeoff" \in Waiting \ {"command"} /\ "first" \in Waiting \ {"command"}
      /\ "landing" \in Waiting \ {"command"}
      BY DEF Waiting
<1>1. ActCases(c, judged, i, d)
      BY ActIs
<1> HIDE DEF d
<1>2. CASE d = c
      BY <1>2, WindowsSame DEF Untold, d
<1>3. ASSUME NEW for \in Waiting \ {"command"}, d = Ask(c, for, i)
      PROVE  Windows(c, d)
      BY <1>3, AskWindows
<1>4. CASE d = Ask(c, "takeoff", i) \/ d = Ask(c, "landing", i)
      BY <1>0, <1>3, <1>4 DEF d
<1>5. CASE d = Woke(BlockStandby([c EXCEPT !.staged = TRUE]))
  <2> DEFINE woken == c.woken \/ connected
  <2>1. d = [c EXCEPT !.staged = TRUE, !.blocked = TRUE, !.standby = FALSE, !.woken = woken]
        BY <1>5 DEF Woke, BlockStandby, Well, Station
  <2> HIDE DEF woken
  <2>2. Untold(c, d) /\ d.seq = c.seq /\ d.results = c.results /\ d.parked = c.parked
        BY <2>1 DEF Well, Station, Untold
  <2> QED BY <2>2, WindowsSame DEF d
<1>6. CASE d = Ask(BlockStandby([c EXCEPT !.seq = NewSequence("inspection", "takeoff", i)]),
                   "first", i)
  <2> DEFINE q == NewSequence("inspection", "takeoff", i)
             e == BlockStandby([c EXCEPT !.seq = q])
  <2>1. Well(e) /\ Follows(c, e) /\ Steady(c, e) /\ e.seq = q /\ q.command = i
        BY BeginWell
  <2> HIDE DEF q
  <2>2. Kinded(e.seq)
        BY <2>1 DEF Kinded
  <2>3. e = [c EXCEPT !.seq = q, !.blocked = TRUE, !.standby = FALSE]
        BY DEF BlockStandby, Well, Station
  <2> HIDE DEF e
  <2>4. Untold(c, e)
        BY <2>3 DEF Untold, Well, Station
  <2>5. Windows(c, e)
        BY <2>1, <2>2, <2>4, WindowsSame DEF Steady
  <2>6. d = Ask(e, "first", i)
        BY <1>6 DEF e, q
  <2>7. Windows(e, d) /\ Well(d) /\ Follows(e, d)
        BY <1>0, <2>1, <2>2, <2>6, AskWindows, AskWell
  <2>8. Windows(c, d)
        BY <2>1, <2>5, <2>7, WindowsTwice
  <2> QED BY <2>8 DEF d
<1> QED BY <1>1, <1>2, <1>3, <1>4, <1>5, <1>6 DEF ActCases

LEMMA LandingWindows ==
    ASSUME NEW c, Env, Well(c), Kinded(c.seq)
    PROVE  Windows(c, Landing(c))
<1> DEFINE n == Len(c.orders)
           t == NextTicket(c)
           k == NoCommand
           land == "land"
           e == Enqueue(c, land, k)
           q == [e.seq EXCEPT !.ticket = t]
           b == [e EXCEPT !.seq = q]
           l == BeginLanding(b, t)
           d == Landing(c)
<1>1. k \in Command /\ land \in Name /\ n \in Nat /\ c \in Station(n)
      BY NoSequenceType DEF Well, Env, Place, Name
<1>2. e \in Station(n + 1) /\ Leaves(c, e) /\ Untold(c, e)
  <2> HIDE DEF k, land
  <2> QED BY <1>1, EnqueueType, EnqueueUntold
<1>3. d = IF c.seq.phase = "land" THEN l ELSE e
      BY DEF Landing
<1>4. Well(d) /\ Steady(c, d)
      BY LandingWell
<1> HIDE DEF d, e, n
<1>5. q.kind = c.seq.kind /\ q.command = c.seq.command
      BY <1>2 DEF Leaves, Station, Sequences
<1> HIDE DEF q
<1>6. Untold(e, b) /\ b.seq = q
      BY <1>2 DEF Untold, Station
<1>7. Untold(b, l) /\ l.seq = b.seq
      BY <1>2 DEF BeginLanding, Untold, Station
<1> HIDE DEF b, l
<1>8. Untold(c, d)
      BY <1>2, <1>3, <1>6, <1>7, UntoldTwice
<1>9. d.seq.kind = c.seq.kind /\ d.seq.command = c.seq.command
      BY <1>2, <1>3, <1>5, <1>6, <1>7 DEF Leaves
<1>10. Kinded(d.seq)
       BY <1>9 DEF Kinded
<1> QED BY <1>4, <1>8, <1>10, WindowsSame DEF Steady, d

(***************************************************************************)
(* Handlers, with what the station has been told.                          *)
(***************************************************************************)
Told(c, a) ==
    /\ Well(c) /\ a \in Seq(Events(Len(c.orders))) /\ Sincere(c, a)
    /\ Reported(c.results, c.orders, flights.done) /\ Chronicle(c.orders)
    /\ flights \in Flown(Len(c.orders))

\* What the vehicle has done does not depend on the orders that follow.
LEMMA ChronicleGrows ==
    ASSUME NEW n \in Nat, flights \in Flown(n), NEW o, NEW p, \A i \in 1..n : p[i] = o[i],
           Chronicle(o)
    PROVE  Chronicle(p)
<1>1. flights.done \subseteq 1..n /\ flights.landed \subseteq 1..n
      BY DEF Flown
<1>2. \A t \in flights.landed : t \in flights.done /\ p[t].name = "waypoints"
      BY <1>1 DEF Chronicle
<1>3. \A w, r \in flights.done :
          w < r /\ p[w].name = "waypoints" /\ p[r].name = "land" => w \in flights.landed
  <2> SUFFICES ASSUME NEW w \in flights.done, NEW r \in flights.done, w < r,
                      p[w].name = "waypoints", p[r].name = "land"
               PROVE  w \in flights.landed
      OBVIOUS
  <2>1. p[w] = o[w] /\ p[r] = o[r]
        BY <1>1
  <2> QED BY <2>1 DEF Chronicle
<1>4. \A w \in flights.done :
          p[w].name = "waypoints" /\ p[w].command # NoCommand
          => \A i \in 1..limit.points : <<w, i>> \in flights.reached
  <2> SUFFICES ASSUME NEW w \in flights.done, p[w].name = "waypoints", p[w].command # NoCommand
               PROVE  \A i \in 1..limit.points : <<w, i>> \in flights.reached
      OBVIOUS
  <2>1. p[w] = o[w]
        BY <1>1
  <2> QED BY <2>1 DEF Chronicle
<1> QED BY <1>2, <1>3, <1>4 DEF Chronicle

LEMMA ReportedGrows ==
    ASSUME NEW c, NEW d, Well(c), Follows(c, d), NEW D, Reported(c.results, c.orders, D)
    PROVE  Reported(c.results, d.orders, D)
<1> DEFINE n == Len(c.orders)
           s == c.results
<1>1. s \in Seq(Results(n))
      BY DEF Well, Station
<1> SUFFICES ASSUME NEW i \in 1..Len(s) PROVE Truthful(d.orders, D, s[i])
    BY DEF Reported
<1>2. s[i] \in Results(n)
      BY <1>1, ElementOfSeq
<1>3. Truthful(c.orders, D, s[i]) /\ s[i].ticket \in 1..n
      BY <1>2 DEF Reported, Results
<1>4. d.orders[s[i].ticket] = c.orders[s[i].ticket]
      BY <1>3 DEF Follows
<1> QED BY <1>3, <1>4 DEF Truthful

LEMMA FlownGrows ==
    ASSUME NEW n \in Nat, NEW m \in Nat, n <= m
    PROVE  Flown(n) \subseteq Flown(m)
<1>1. 1..n \subseteq 1..m
      OBVIOUS
<1>2. SUBSET (1..n) \subseteq SUBSET (1..m)
      BY <1>1
<1>3. SUBSET ((1..n) \X (1..limit.points)) \subseteq SUBSET ((1..m) \X (1..limit.points))
      BY <1>1
<1> QED BY <1>2, <1>3 DEF Flown

LEMMA WindowsTold ==
    ASSUME NEW c, NEW d, NEW a, Told(c, a), Well(d), Follows(c, d), Windows(c, d)
    PROVE  Told(d, a)
<1> DEFINE n == Len(c.orders)
           m == Len(d.orders)
<1>1. n \in Nat /\ m \in Nat /\ n <= m /\ \A i \in 1..n : d.orders[i] = c.orders[i]
      BY DEF Well, Follows
<1>2. a \in Seq(Events(n)) /\ flights \in Flown(n) /\ Well(c) /\ Sincere(c, a)
      BY DEF Told
<1>3. Sincere(d, a)
      BY <1>2, WindowsSincere
<1>4. Reported(d.results, d.orders, flights.done)
  <2>1. d.results = c.results
        BY DEF Windows
  <2> QED BY <2>1, ReportedGrows DEF Told
<1>5. Chronicle(d.orders)
  <2>1. Chronicle(c.orders)
        BY DEF Told
  <2> HIDE DEF n
  <2> QED BY <1>1, <1>2, <2>1, ChronicleGrows
<1> HIDE DEF n, m
<1>6. a \in Seq(Events(m)) /\ flights \in Flown(m)
      BY <1>1, <1>2, StationGrows, FlownGrows
<1> QED BY <1>3, <1>4, <1>5, <1>6 DEF Told, m

LEMMA ConsumeTold ==
    ASSUME NEW c, Env, NEW a, Told(c, a)
    PROVE  Told(Consume(c), a)
<1> DEFINE d == Consume(c)
<1>1. Well(d) /\ d.orders = c.orders /\ d.results = <<>>
      BY ConsumeWell DEF Told
<1>2. Sincere(d, a)
      BY ConsumeSincere DEF Told
<1> HIDE DEF d
<1>3. Reported(d.results, d.orders, flights.done)
  <2>1. Len(<<>>) = 0
        BY EmptySeq
  <2> QED BY <1>1, <2>1 DEF Reported
<1>4. Told(d, a)
      BY <1>1, <1>2, <1>3 DEF Told
<1> QED BY <1>4 DEF d

\* What the projector keeps to itself.
LEMMA ProjectsTold ==
    ASSUME NEW c, Env, NEW a, Told(c, a), NEW d \in Station(Len(c.orders)), Projects(c, d),
           Telling(d, a), Known(c.mission, d.mission)
    PROVE  Told(d, a)
<1>1. Well(d) /\ d.orders = c.orders /\ Steady(c, d)
      BY ProjectsWell DEF Told
<1>2. Coming(d.results, d.mission)
  <2>1. Coming(c.results, c.mission) /\ d.results = c.results
        BY <1>1 DEF Told, Sincere, Steady
  <2> QED BY <2>1 DEF Coming, Known
<1>3. Sincere(d, a)
      BY <1>1, <1>2 DEF Sincere, Steady, Told
<1> QED BY <1>1, <1>3 DEF Told, Steady

LEMMA ObservedTold ==
    ASSUME NEW c, Env, NEW a, Told(c, a), NEW s, s.point \in 0..MaxPoints, Observable(s),
           NEW telemetry, NEW may
    PROVE  Told(Observed(c, s, telemetry, may), a)
<1> DEFINE b == VehicleAbnormal(c, s)
           d == ObserveVehicle(b, s, telemetry, may)
<1>1. Well(c) /\ Kinded(c.seq)
      BY DEF Told, Sincere, Telling
<1>2. Windows(c, b) /\ Well(b) /\ Follows(c, b)
      BY <1>1, AbnormalWell, AbnormalWindows
<1> HIDE DEF b
<1>3. Told(b, a)
      BY <1>2, WindowsTold
<1>4. d \in Station(Len(b.orders)) /\ Projects(b, d) /\ Telling(d, a) /\ Known(b.mission, d.mission)
  <2> DEFINE n == Len(b.orders)
  <2>1. n \in Nat /\ b \in Station(n) /\ a \in Seq(Events(n)) /\ Telling(b, a)
        BY <1>3 DEF Told, Well, Sincere
  <2>2. s.mode = "waypoint" => \A i \in 1..(s.point - 1) : <<s.ticket, i>> \in flights.reached
        BY DEF Observable
  <2> HIDE DEF n
  <2>3. ObserveVehicle(b, s, telemetry, may) \in Station(n)
        /\ Projects(b, ObserveVehicle(b, s, telemetry, may))
        BY <2>1, ObserveVehicleType
  <2>4. /\ Telling(ObserveVehicle(b, s, telemetry, may), a)
        /\ Known(b.mission, ObserveVehicle(b, s, telemetry, may).mission)
        BY <2>1, <2>2, ObserveVehicleTold
  <2> QED BY <2>3, <2>4 DEF n
<1>5. Observed(c, s, telemetry, may) = d
      BY DEF Observed, b
<1> HIDE DEF d
<1>6. Told(d, a)
      BY <1>3, <1>4, ProjectsTold
<1> QED BY <1>5, <1>6

LEMMA RefreshTold ==
    ASSUME NEW c, Env, NEW a, Told(c, a), snap.point \in 0..MaxPoints, Observable(snap),
           NEW telemetry
    PROVE  Told(RefreshTelling(c, telemetry), a)
<1> DEFINE fed == Consume(c)
           may == CanTakeOff(fed, snap)
           e == Drive(fed, snap)
           b == Observed(e, snap, telemetry, may)
           d == RefreshTelling(c, telemetry)
<1>1. Told(fed, a)
      BY ConsumeTold
<1>2. d = e \/ d = b
      BY DEF RefreshTelling, Ended
<1> HIDE DEF may, fed, d
<1>3. Well(fed) /\ Kinded(fed.seq)
      BY <1>1 DEF Told, Sincere, Telling
<1>4. Windows(fed, e) /\ Well(e) /\ Follows(fed, e)
      BY <1>3, DriveWell, DriveWindows
<1> HIDE DEF e
<1>5. Told(e, a)
      BY <1>1, <1>4, WindowsTold
<1>6. Told(b, a)
      BY <1>5, ObservedTold
<1> HIDE DEF b
<1>7. Told(d, a)
      BY <1>2, <1>5, <1>6
<1> QED BY <1>7 DEF d

LEMMA RefreshedTold ==
    ASSUME NEW c, Env, NEW a, Told(c, a), snap.point \in 0..MaxPoints, Observable(snap)
    PROVE  Told(Refreshed(c), a)
BY RefreshTold DEF Refreshed

LEMMA DoneTold ==
    ASSUME NEW c, NEW e, Env, NEW a, Told(e, a), snap.point \in 0..MaxPoints, Observable(snap)
    PROVE  Told(Done(c, e), a)
<1> DEFINE d == Done(c, e)
<1>1. d = e \/ d = Refreshed(e)
      BY DEF Done
<1>2. Told(Refreshed(e), a)
      BY RefreshedTold
<1> HIDE DEF d
<1>3. Told(d, a)
      BY <1>1, <1>2
<1> QED BY <1>3 DEF d

LEMMA PreemptedTold ==
    ASSUME NEW c, Env, NEW a, Told(c, a)
    PROVE  Told(Preempted(c), a)
<1> DEFINE q == [c.frames EXCEPT ![Len(c.frames)].answer = "rejected"]
           d == Preempted(c)
<1>0. Well(c) /\ c \in Station(Len(c.orders))
      BY DEF Told, Well
<1>1. Well(d) /\ Follows(c, d) /\ d.seq = c.seq
      BY <1>0, PreemptedWell
<1>2. d = c \/ d = [c EXCEPT !.frames = q]
      BY DEF Preempted
<1> HIDE DEF d, q
<1>3. Untold(c, d) /\ d.results = c.results /\ d.parked = c.parked
      BY <1>0, <1>2 DEF Untold, Station
<1>4. Windows(c, d)
      BY <1>1, <1>3, WindowsSame
<1>5. Told(d, a)
      BY <1>1, <1>4, WindowsTold
<1> QED BY <1>5 DEF d

\* A handler that has to wait: its command is remembered.
LEMMA ParkedTold ==
    ASSUME NEW c, NEW a, Told(c, a), NEW d, Well(d), NEW i, i # NoCommand, NEW frames,
           d = [c EXCEPT !.frames = frames, !.parked = c.parked \cup {i}]
    PROVE  Told(d, a)
<1> DEFINE parked == c.parked \cup {i}
<1>1. d = [c EXCEPT !.frames = frames, !.parked = parked]
      OBVIOUS
<1>2. NoCommand \notin parked
      BY DEF Told, Sincere
<1> HIDE DEF parked
<1>3. /\ Untold(c, d) /\ d.seq = c.seq /\ d.results = c.results /\ d.orders = c.orders
      /\ d.parked = parked
      BY <1>1 DEF Told, Well, Station, Untold
<1>4. Telling(d, a)
      BY <1>3 DEF Told, Sincere, Telling, Untold
<1>5. Sincere(d, a)
      BY <1>2, <1>3, <1>4 DEF Told, Sincere, Untold
<1> QED BY <1>3, <1>5 DEF Told

LEMMA ActTold ==
    ASSUME NEW c, Env, NEW a, Told(c, a), NEW i \in Command, i # NoCommand, NEW judged
    PROVE  Told(Act(c, judged, i), a)
<1> DEFINE d == Act(c, judged, i)
<1>1. Well(c) /\ Kinded(c.seq)
      BY DEF Told, Sincere, Telling
<1>2. Well(d) /\ Follows(c, d) /\ Windows(c, d)
      BY <1>1, ActWell, ActWindows
<1> HIDE DEF d
<1>3. Told(d, a)
      BY <1>2, WindowsTold
<1> QED BY <1>3 DEF d

LEMMA HandleTold ==
    ASSUME NEW c, Env, NEW a, Told(c, a), snap.point \in 0..MaxPoints, Observable(snap),
           NEW i \in Command, i # NoCommand
    PROVE  Told(Handle(c, i), a)
<1> DEFINE p == Preempted(c)
           ready == RefreshTelling(p, FALSE)
           f == [for |-> "command", command |-> i, answer |-> "rejected", seen |-> snap]
           frames == InsertAt(ready.frames, Len(ready.frames), f)
           judged == Consume(p)
           e == Act(ready, judged, i)
           d == Handle(c, i)
<1>1. Told(p, a)
      BY PreemptedTold
<1>2. Well(d)
      BY HandleWell DEF Told
<1>3. \/ d = c
      \/ d = [ready EXCEPT !.frames = frames, !.parked = ready.parked \cup {i}]
      \/ d = Done(ready, e)
  <2>1. CASE Deaf(c, i)
        BY <2>1 DEF Handle
  <2>2. CASE ~Deaf(c, i) /\ Opened(c, ready)
        BY <2>2 DEF Handle, Heard, Refreshed
  <2>3. CASE ~Deaf(c, i) /\ ~Opened(c, ready)
        BY <2>3 DEF Handle, Heard, Refreshed
  <2> QED BY <2>1, <2>2, <2>3
<1> HIDE DEF p, d, judged
<1>4. Told(ready, a)
      BY <1>1, RefreshTold
<1> HIDE DEF ready, frames
<1>5. CASE d = c
      BY <1>5 DEF d
<1>6. CASE d = [ready EXCEPT !.frames = frames, !.parked = ready.parked \cup {i}]
  <2>1. Told(d, a)
        BY <1>2, <1>4, <1>6, ParkedTold
  <2> QED BY <2>1 DEF d
<1>7. CASE d = Done(ready, e)
  <2>1. Told(e, a)
        BY <1>4, ActTold
  <2> HIDE DEF e
  <2>2. Told(Done(ready, e), a)
        BY <2>1, DoneTold
  <2> QED BY <1>7, <2>2 DEF d
<1> QED BY <1>3, <1>5, <1>6, <1>7

LEMMA ResumedTold ==
    ASSUME NEW c, Env, NEW a, Told(c, a), snap.point \in 0..MaxPoints, Observable(snap),
           c.frames # <<>>, Glanced(c.frames), NEW yes \in BOOLEAN,
           Last(c.frames).for = "command" => Last(c.frames).command \in c.parked
    PROVE  Told(Resumed(c, yes), a)
<1> DEFINE f == Last(c.frames)
           p == [c EXCEPT !.frames = Front(@)]
           frames == Front(c.frames)
           e == Continue(p, f, yes)
           may == CanTakeOff(p, snap)
           d == Resumed(c, yes)
<1>1. Well(c) /\ NoCommand \notin c.parked
      BY DEF Told, Sincere
<1>2. Well(p) /\ Follows(c, p) /\ f \in Frame /\ p.seq = c.seq
      BY <1>1, PoppedWell
<1>3. p = [c EXCEPT !.frames = frames]
      OBVIOUS
<1>4. \/ f.for = "command" /\ d = Done(p, Act(p, p, f.command))
      \/ /\ f.for # "command"
         /\ \E b \in {e, Refreshed(e)} : d = b \/ d = Observed(b, f.seen, FALSE, may)
      BY ResumedIs
<1>5. f.for = "command" => f.command # NoCommand
      BY <1>1
<1>6. f.seen.point \in 0..MaxPoints /\ Observable(f.seen)
  <2> DEFINE s == c.frames
             k == Len(s)
  <2>1. s \in Seq(Frame)
        BY <1>1 DEF Well, Station
  <2>2. k \in 1..k /\ f = s[k]
    <3>1. k \in Nat /\ k # 0
          BY <2>1, EmptySeq, LenProperties
    <3> QED BY <3>1 DEF Last
  <2>3. Glanced(s)
        OBVIOUS
  <2> HIDE DEF f, k, s
  <2>4. f.seen = snap \/ Observable(f.seen)
        BY <2>2, <2>3 DEF Glanced, k
  <2> QED BY <1>2, <2>4, SeenPoint
<1> HIDE DEF p, frames, f, d, may
<1>7. Untold(c, p) /\ p.results = c.results /\ p.parked = c.parked
      BY <1>1, <1>3 DEF Well, Station, Untold
<1>8. Windows(c, p)
      BY <1>2, <1>7, WindowsSame
<1>9. Told(p, a)
      BY <1>2, <1>8, WindowsTold
<1>10. CASE f.for = "command" /\ d = Done(p, Act(p, p, f.command))
  <2> DEFINE i == f.command
             g == Act(p, p, i)
  <2>1. i \in Command /\ i # NoCommand
        BY <1>2, <1>5, <1>10 DEF Frame
  <2> HIDE DEF i
  <2>2. Told(g, a)
        BY <1>9, <2>1, ActTold
  <2>3. d = Done(p, g)
        BY <1>10 DEF i
  <2> HIDE DEF g
  <2>4. Told(d, a)
        BY <2>2, <2>3, DoneTold
  <2> QED BY <2>4 DEF d
<1>11. ASSUME f.for # "command", NEW b \in {e, Refreshed(e)},
              d = b \/ d = Observed(b, f.seen, FALSE, may)
       PROVE  Told(d, a)
  <2>1. Kinded(p.seq)
        BY <1>9 DEF Told, Sincere, Telling
  <2>2. Well(e) /\ Follows(p, e) /\ Windows(p, e)
        BY <1>2, <1>11, <2>1, ContinueWell, ContinueWindows
  <2> HIDE DEF e
  <2>3. Told(e, a)
        BY <1>9, <2>2, WindowsTold
  <2>4. Told(b, a)
    <3>1. CASE b = e
          BY <2>3, <3>1
    <3>2. CASE b = Refreshed(e)
          BY <2>3, <3>2, RefreshedTold
    <3> QED BY <1>11, <3>1, <3>2
  <2> DEFINE s == f.seen
             g == Observed(b, s, FALSE, may)
  <2>5. s.point \in 0..MaxPoints /\ Observable(s) /\ (d = b \/ d = g)
        BY <1>6, <1>11
  <2> HIDE DEF s
  <2>6. Told(g, a)
        BY <2>4, <2>5, ObservedTold
  <2> HIDE DEF g
  <2> QED BY <2>4, <2>5, <2>6
<1> QED BY <1>4, <1>10, <1>11 DEF d

LEMMA LandingTold ==
    ASSUME NEW c, Env, NEW a, Told(c, a), snap.point \in 0..MaxPoints, Observable(snap)
    PROVE  Told(Refreshed(Landing(c)), a)
<1> DEFINE d == Landing(c)
<1>1. Well(c) /\ Kinded(c.seq)
      BY DEF Told, Sincere, Telling
<1>2. Well(d) /\ Follows(c, d) /\ Windows(c, d)
      BY <1>1, LandingWell, LandingWindows
<1> HIDE DEF d
<1>3. Told(d, a)
      BY <1>2, WindowsTold
<1>4. Told(Refreshed(d), a)
      BY <1>3, RefreshedTold
<1> QED BY <1>4 DEF d

(***************************************************************************)
(* The statuses taken before the dialogs: that of a new dialog is the last *)
(* one, the others were there.                                             *)
(***************************************************************************)
LEMMA OpensGlanced ==
    ASSUME NEW c, NEW d, Well(c), Opens(c, d), Glanced(c.frames)
    PROVE  Glanced(d.frames)
<1> DEFINE s == c.frames
           t == d.frames
<1>1. s \in Seq(Frame)
      BY DEF Well, Station
<1>2. t = s \/ \E f \in Frame : f.seen = snap /\ t = Append(s, f)
      BY DEF Opens
<1> HIDE DEF s, t
<1>3. CASE t = s
      BY <1>3 DEF s, t
<1>4. ASSUME NEW f \in Frame, f.seen = snap, t = Append(s, f) PROVE Glanced(t)
  <2>1. /\ Len(s) \in Nat /\ Len(t) = Len(s) + 1 /\ t[Len(s) + 1] = f
        /\ \A i \in 1..Len(s) : t[i] = s[i]
        BY <1>1, <1>4, AppendAt
  <2>2. \A i \in 1..Len(s) : s[i].seen = snap \/ Observable(s[i].seen)
        BY DEF Glanced, s
  <2> SUFFICES ASSUME NEW i \in 1..Len(t) PROVE t[i].seen = snap \/ Observable(t[i].seen)
      BY DEF Glanced
  <2>3. CASE i = Len(s) + 1
        BY <1>4, <2>1, <2>3
  <2>4. CASE i # Len(s) + 1
    <3>1. i \in 1..Len(s)
          BY <2>1, <2>4
    <3> QED BY <2>1, <2>2, <3>1
  <2> QED BY <2>3, <2>4
<1> QED BY <1>2, <1>3, <1>4 DEF t

LEMMA SameGlanced ==
    ASSUME NEW s, NEW t, Len(t) = Len(s), \A i \in 1..Len(s) : t[i].seen = s[i].seen, Glanced(s)
    PROVE  Glanced(t)
BY DEF Glanced

LEMMA AskOpens ==
    ASSUME NEW c, Env, Well(c), NEW for \in Waiting \ {"command"}, NEW k \in Command
    PROVE  Opens(c, Ask(c, for, k))
<1> DEFINE d == Ask(c, for, k)
           f == [for |-> for, command |-> k, answer |-> "open", seen |-> snap]
<1>1. /\ f \in Frame /\ (Simulated => d.frames = c.frames)
      /\ ~Simulated => d.frames = Append(c.frames, f) /\ Len(d.frames) = Len(c.frames) + 1
      BY AskWell
<1>2. f.answer = "open" /\ f.seen = snap
      OBVIOUS
<1> HIDE DEF d, f
<1> QED BY <1>1, <1>2 DEF Opens, d

LEMMA ActOpens ==
    ASSUME NEW c, Env, Well(c), NEW i \in Command, NEW judged
    PROVE  Opens(c, Act(c, judged, i))
<1> DEFINE d == Act(c, judged, i)
<1>1. ActCases(c, judged, i, d)
      BY ActIs
<1> HIDE DEF d
<1>2. \A for \in {"takeoff", "first", "landing"} : for \in Waiting \ {"command"}
      BY DEF Waiting
<1>3. CASE d = c
      BY <1>3 DEF Opens, d
<1>4. CASE d = Ask(c, "takeoff", i) \/ d = Ask(c, "landing", i)
      BY <1>2, <1>4, AskOpens DEF d
<1>5. CASE d = Woke(BlockStandby([c EXCEPT !.staged = TRUE]))
      BY <1>5, StageWell DEF Steady, Opens, d
<1>6. CASE d = Ask(BlockStandby([c EXCEPT !.seq = NewSequence("inspection", "takeoff", i)]),
                   "first", i)
  <2> DEFINE e == BlockStandby([c EXCEPT !.seq = NewSequence("inspection", "takeoff", i)])
  <2>1. Well(e) /\ e.frames = c.frames
        BY BeginWell DEF Steady
  <2> HIDE DEF e
  <2>2. Opens(e, d)
        BY <1>2, <1>6, <2>1, AskOpens DEF e
  <2> QED BY <2>1, <2>2 DEF Opens, d
<1> QED BY <1>1, <1>3, <1>4, <1>5, <1>6 DEF ActCases

LEMMA ActGlanced ==
    ASSUME NEW c, Env, Well(c), Glanced(c.frames), snap.point \in 0..MaxPoints,
           NEW i \in Command, NEW judged, NEW b
    PROVE  Glanced(Done(b, Act(c, judged, i)).frames)
<1> DEFINE e == Act(c, judged, i)
           d == Done(b, e)
<1>1. Well(e) /\ Opens(c, e)
      BY ActWell, ActOpens
<1>2. d = e \/ d = Refreshed(e)
      BY DEF Done
<1> HIDE DEF d, e
<1>3. Glanced(e.frames)
      BY <1>1, OpensGlanced
<1>4. CASE d = e
      BY <1>3, <1>4 DEF d, e
<1>5. CASE d = Refreshed(e)
  <2>1. Opens(e, d)
        BY <1>1, <1>5, RefreshedWell
  <2>2. Glanced(d.frames)
        BY <1>1, <1>3, <2>1, OpensGlanced
  <2> QED BY <2>2 DEF d, e
<1> QED BY <1>2, <1>4, <1>5

LEMMA HandleGlanced ==
    ASSUME NEW c, Env, Well(c), Glanced(c.frames), snap.point \in 0..MaxPoints, NEW i \in Command
    PROVE  Glanced(Handle(c, i).frames)
<1> DEFINE p == Preempted(c)
           ready == Refreshed(p)
           f == [for |-> "command", command |-> i, answer |-> "rejected", seen |-> snap]
           frames == InsertAt(ready.frames, Len(ready.frames), f)
           judged == Consume(p)
           e == Act(ready, judged, i)
           d == Handle(c, i)
<1>1. Well(p) /\ Glanced(p.frames) /\ Len(p.frames) = Len(c.frames)
  <2>1. /\ Well(p) /\ Len(p.frames) = Len(c.frames)
        /\ \A k \in 1..Len(c.frames) : p.frames[k].seen = c.frames[k].seen
        BY PreemptedWell
  <2> HIDE DEF p
  <2> QED BY <2>1, SameGlanced
<1>2. \/ d = c
      \/ Opened(c, ready) /\ d = [ready EXCEPT !.frames = frames, !.parked = ready.parked \cup {i}]
      \/ d = Done(ready, e)
  <2>1. CASE Deaf(c, i)
        BY <2>1 DEF Handle
  <2>2. CASE ~Deaf(c, i) /\ Opened(c, ready)
        BY <2>2 DEF Handle, Heard
  <2>3. CASE ~Deaf(c, i) /\ ~Opened(c, ready)
        BY <2>3 DEF Handle, Heard
  <2> QED BY <2>1, <2>2, <2>3
<1> HIDE DEF p, d, judged
<1>3. Well(ready) /\ Opens(p, ready)
      BY <1>1, RefreshedWell
<1> HIDE DEF ready
<1>4. Glanced(ready.frames)
      BY <1>1, <1>3, OpensGlanced
<1>5. CASE d = c
      BY <1>5 DEF d
<1>6. CASE d = Done(ready, e)
      BY <1>3, <1>4, <1>6, ActGlanced DEF d
<1>7. CASE Opened(c, ready) /\ d = [ready EXCEPT !.frames = frames, !.parked = ready.parked \cup {i}]
  <2> DEFINE s == ready.frames
             n == Len(s)
  <2>1. s \in Seq(Frame) /\ ready \in Station(Len(ready.orders))
        BY <1>3 DEF Well, Station
  <2>2. f \in Frame /\ f.seen = snap
        BY DEF Frame, Waiting, Answer, Env
  <2>3. s # <<>>
    <3>1. Len(s) > Len(c.frames) /\ Len(c.frames) \in Nat
      <4>1. c.frames \in Seq(Frame)
            BY DEF Well, Station
      <4> QED BY <1>7, <4>1, LenProperties DEF Opened
    <3> QED BY <3>1, EmptySeq
  <2>4. d.frames = frames
        BY <1>7, <2>1 DEF Station
  <2> HIDE DEF f, s
  <2>5. /\ Len(frames) = n + 1 /\ frames[n] = f /\ frames[n + 1] = s[n]
        /\ \A k \in 1..(n - 1) : frames[k] = s[k]
    <3> DEFINE t == InsertAt(s, Len(s), f)
    <3>1. /\ Len(t) = Len(s) + 1 /\ t[Len(s)] = f /\ t[Len(s) + 1] = s[Len(s)]
          /\ \A k \in 1..(Len(s) - 1) : t[k] = s[k]
      <4>1. \A A, x, g : x \in Seq(A) /\ x # <<>> /\ g \in A =>
                LET u == InsertAt(x, Len(x), g)
                IN  /\ Len(u) = Len(x) + 1 /\ u[Len(x)] = g /\ u[Len(x) + 1] = x[Len(x)]
                    /\ \A k \in 1..(Len(x) - 1) : u[k] = x[k]
            BY InsertBeforeLast
      <4> QED BY <2>1, <2>2, <2>3, <4>1
    <3>2. frames = t
          BY DEF s
    <3> HIDE DEF frames, t
    <3> QED BY <3>1, <3>2
  <2>6. n \in Nat /\ n # 0
        BY <2>1, <2>3, EmptySeq, LenProperties
  <2>7. \A k \in 1..n : s[k].seen = snap \/ Observable(s[k].seen)
        BY <1>4 DEF Glanced, s
  <2> HIDE DEF n, frames
  <2>8. Glanced(frames)
    <3> SUFFICES ASSUME NEW k \in 1..Len(frames)
                 PROVE  frames[k].seen = snap \/ Observable(frames[k].seen)
        BY DEF Glanced
    <3>1. CASE k = n
          BY <2>2, <2>5, <3>1
    <3>2. CASE k = n + 1
      <4>1. n \in 1..n
            BY <2>6
      <4> QED BY <2>5, <2>7, <3>2, <4>1
    <3>3. CASE k # n /\ k # n + 1
      <4>1. k \in 1..(n - 1) /\ k \in 1..n
            BY <2>5, <2>6, <3>3
      <4> QED BY <2>5, <2>7, <4>1
    <3> QED BY <3>1, <3>2, <3>3
  <2> QED BY <2>4, <2>8 DEF d
<1> QED BY <1>2, <1>5, <1>6, <1>7

LEMMA ResumedGlanced ==
    ASSUME NEW c, Env, Well(c), Glanced(c.frames), snap.point \in 0..MaxPoints, c.frames # <<>>,
           NEW yes \in BOOLEAN
    PROVE  Glanced(Resumed(c, yes).frames)
<1> DEFINE f == Last(c.frames)
           p == [c EXCEPT !.frames = Front(@)]
           a == Continue(p, f, yes)
           may == CanTakeOff(p, snap)
           d == Resumed(c, yes)
<1>1. Well(p) /\ f \in Frame /\ p.frames = Front(c.frames)
      BY PoppedWell
<1>2. \/ f.for = "command" /\ d = Done(p, Act(p, p, f.command))
      \/ /\ f.for # "command"
         /\ \E b \in {a, Refreshed(a)} : d = b \/ d = Observed(b, f.seen, FALSE, may)
      BY ResumedIs
<1> HIDE DEF p, f, d, may
<1>3. Glanced(p.frames)
  <2> DEFINE s == c.frames
             t == Front(s)
  <2>1. s \in Seq(Frame) /\ s # <<>>
        BY DEF Well, Station
  <2>2. \A i \in 1..Len(s) : s[i].seen = snap \/ Observable(s[i].seen)
        BY DEF Glanced
  <2> HIDE DEF s
  <2>3. Len(s) \in Nat /\ Len(t) = Len(s) - 1 /\ \A i \in 1..(Len(s) - 1) : t[i] = s[i]
        BY <2>1, FrontLast
  <2> HIDE DEF t
  <2>4. \A i \in 1..Len(t) : i \in 1..Len(s) /\ t[i] = s[i]
        BY <2>3
  <2>5. Glanced(t)
        BY <2>2, <2>4 DEF Glanced
  <2> QED BY <1>1, <2>5 DEF s, t
<1>4. CASE f.for = "command" /\ d = Done(p, Act(p, p, f.command))
  <2> DEFINE i == f.command
  <2>1. i \in Command
        BY <1>1 DEF Frame
  <2>2. d = Done(p, Act(p, p, i))
        BY <1>4
  <2> HIDE DEF i
  <2> QED BY <1>1, <1>3, <2>1, <2>2, ActGlanced DEF d
<1>5. ASSUME f.for # "command", NEW b \in {a, Refreshed(a)},
             d = b \/ d = Observed(b, f.seen, FALSE, may)
      PROVE  Glanced(d.frames)
  <2>1. Well(a) /\ a.frames = p.frames
        BY <1>1, <1>5, ContinueWell DEF Steady
  <2> HIDE DEF a
  <2>2. Well(b) /\ Glanced(b.frames)
    <3>1. CASE b = a
          BY <1>3, <2>1, <3>1
    <3>2. CASE b = Refreshed(a)
      <4>1. Well(b) /\ Opens(a, b)
            BY <2>1, <3>2, RefreshedWell
      <4>2. Glanced(a.frames)
            BY <1>3, <2>1
      <4> QED BY <2>1, <4>1, <4>2, OpensGlanced
    <3> QED BY <1>5, <3>1, <3>2
  <2> DEFINE s == f.seen
             e == Observed(b, s, FALSE, may)
  <2>3. s.point \in 0..MaxPoints /\ (d = b \/ d = e)
        BY <1>1, <1>5, SeenPoint
  <2> HIDE DEF s
  <2>4. Steady(b, e)
        BY <2>2, <2>3, ObservedWell
  <2> HIDE DEF e
  <2> QED BY <2>2, <2>3, <2>4 DEF Steady
<1> QED BY <1>2, <1>4, <1>5 DEF d

(***************************************************************************)
(* From one state to the next.                                             *)
(***************************************************************************)
\* What is so stays so: what the vehicle did is not undone, and a photo that is there stays.
Stays ==
    /\ limit' = limit /\ flights.landed \subseteq flights'.landed
    /\ flights.reached \subseteq flights'.reached /\ flights.done \subseteq flights'.done
    /\ \A t \in Ticket : \A i \in Point :
           media[t].photo[i] = "ready" => media'[t].photo[i] = "ready"

LEMMA StaysSo ==
    ASSUME Sound, Stays
    PROVE  \A e : Is(e) => Is(e)'
<1> SUFFICES ASSUME NEW e, Is(e) PROVE Is(e)'
    OBVIOUS
<1>1. True08(e) => True08(e)'
      BY DEF True08, Stays
<1>2. ASSUME True09(e) PROVE True09(e)'
  <2> DEFINE p == <<e.mission, e.point>>
  <2>1. p \in flights.reached /\ e.point \notin limit.plain
        BY <1>2 DEF True09
  <2>2. p[1] \in Ticket /\ p[2] \in Point
        BY <2>1, ReachedType
  <2>3. e.mission \in Ticket /\ e.point \in Point
        BY <2>2
  <2>4. Simulated' \/ media'[e.mission].photo[e.point] = "ready"
    <3>1. Simulated' <=> Simulated
          BY DEF Stays, Simulated
    <3>2. media[e.mission].photo[e.point] = "ready" => media'[e.mission].photo[e.point] = "ready"
          BY <2>3 DEF Stays
    <3> QED BY <1>2, <3>1, <3>2 DEF True09
  <2>5. p \in flights'.reached /\ e.point \notin limit'.plain
        BY <2>1 DEF Stays
  <2> QED BY <2>4, <2>5 DEF True09
<1> QED BY <1>1, <1>2 DEF Is

LEMMA SincereAfter ==
    ASSUME Sound, Stays, Sincere(gcs', accepted')
    PROVE  Sincere(gcs, accepted)'
<1>1. \A e : Is(e) => Is(e)'
      BY StaysSo
<1>2. \A d, e : Before(d, e)' <=> Before(d, e)
      BY DEF Before
<1>3. \A s : Tale(s) => Tale(s)'
      BY <1>1, <1>2 DEF Tale
<1>4. \A m : Visited(m) => Visited(m)'
      BY DEF Visited, Stays
<1>5. \A s, t, p : Upto(s, t, p)' <=> Upto(s, t, p)
      BY DEF Upto
<1>6. \A s, t : Past(s, t)' <=> Past(s, t)
      BY DEF Past
<1>7. \A m, s : Held(m, s) => Held(m, s)'
      BY <1>4, <1>5 DEF Held
<1>8. \A q : Rising(q)' <=> Rising(q)
      BY DEF Rising
<1>9. \A q, t : Under(q, t)' <=> Under(q, t)
      BY DEF Under
<1>10. \A p, w, s : Landings(p, w, s) => Landings(p, w, s)'
       BY <1>6, <1>7, <1>8, <1>9 DEF Landings, Stays
<1>11. \A m, o : Claims(m, o) => Claims(m, o)'
       BY DEF Claims, Stays
<1>12. \A m, p, w, o, s : Newest(m, p, w, o, s) => Newest(m, p, w, o, s)'
       BY <1>6, <1>7, <1>9, <1>11 DEF Newest
<1>13. \A s, p, w, m, o : Speaks(s, p, w, m, o) => Speaks(s, p, w, m, o)'
       BY <1>3, <1>10, <1>12 DEF Speaks
<1>14. \A q : Kinded(q)' <=> Kinded(q)
       BY DEF Kinded
<1>15. \A c, a : Telling(c, a) => Telling(c, a)'
       BY <1>13, <1>14 DEF Telling
<1>16. \A q, m : Coming(q, m)' <=> Coming(q, m)
       BY DEF Coming, Later, Win
<1>17. \A c, a : Sincere(c, a) => Sincere(c, a)'
       BY <1>15, <1>16 DEF Sincere
<1> QED BY <1>17

LEMMA SoundTold ==
    ASSUME Sound, Ordered, Honest
    PROVE  Told(gcs, accepted)
<1>1. accepted \in Seq(Events(Len(gcs.orders)))
      BY DEF Sound, Wired, Books
<1>2. Reported(gcs.results, gcs.orders, flights.done)
      BY DEF Ordered, Orderly
<1>3. flights \in Flown(Len(gcs.orders)) /\ Well(gcs)
      BY SoundFacts, SoundParts
<1> QED BY <1>1, <1>2, <1>3 DEF Told, Honest, World

\* Parts of what the world has done that need no order.
LEMMA WorldAfter ==
    ASSUME limit' = limit, veh' = veh, flights' = flights, Pilot(gcs'.orders), Chronicle(gcs'.orders)
    PROVE  Pilot(gcs.orders)' /\ Chronicle(gcs.orders)'
<1>1. \A o : Pilot(o) => Pilot(o)'
      BY DEF Pilot
<1>2. \A o : Chronicle(o) => Chronicle(o)'
      BY DEF Chronicle
<1> QED BY <1>1, <1>2

LEMMA PilotGrows ==
    ASSUME Sound, NEW o, \A i \in 1..Len(gcs.orders) : o[i] = gcs.orders[i], Pilot(gcs.orders)
    PROVE  Pilot(o)
<1>1. veh.task # "none" => veh.ticket \in 1..Len(gcs.orders)
      BY FlightFacts
<1>2. veh.task # "none" => o[veh.ticket] = gcs.orders[veh.ticket]
      BY <1>1
<1> QED BY <1>2 DEF Pilot

\* What a status shows stays so.
LEMMA WatchedAfter ==
    ASSUME Observable(snap), NEW frames, Glanced(frames), gcs'.frames = frames, snap' = snap,
           flights.reached \subseteq flights'.reached
    PROVE  Watched'
<1>1. \A s : Observable(s) => Observable(s)'
      BY DEF Observable
<1>2. Observable(snap)'
      BY DEF Observable
<1>3. \A i \in 1..Len(frames) : frames[i].seen = snap' \/ Observable(frames[i].seen)'
      BY <1>1 DEF Glanced
<1>4. Glanced(gcs.frames)'
      BY <1>3 DEF Glanced
<1> QED BY <1>2, <1>4 DEF Watched

LEMMA WatchedSame ==
    ASSUME Watched, gcs'.frames = gcs.frames, snap' = snap, flights.reached \subseteq flights'.reached
    PROVE  Watched'
BY WatchedAfter DEF Watched

\* A station is taken over.
LEMMA TakenHonest ==
    ASSUME Sound, Honest, NEW c, Told(c, accepted), Glanced(c.frames), SetGcs(c),
           UNCHANGED Elsewhere,
           \A i \in 1..Len(gcs.orders) : c.orders[i] = gcs.orders[i], Filed',
           \A t \in Ticket : \A i \in Point :
               media[t].photo[i] = "ready" => media'[t].photo[i] = "ready"
    PROVE  Honest'
<1> DEFINE n == Len(c.orders)
           s == accepted \o c.out
<1>1. /\ c \in Station(n) /\ n \in Nat /\ c.out \in Seq(Events(n)) /\ accepted \in Seq(Events(n))
      BY DEF Told, Well, Station
<1>2. gcs' = [c EXCEPT !.out = <<>>, !.woken = FALSE] /\ accepted' = s
      BY DEF SetGcs, Publish
<1>3. limit' = limit /\ flights' = flights /\ veh' = veh /\ snap' = snap
      BY DEF Elsewhere, ReaderVars
<1>4. s \o <<>> = s
  <2> HIDE DEF n
  <2>1. s \in Seq(Events(n))
        BY <1>1, ConcatType
  <2> QED BY <2>1, ConcatEmptySeq
<1>5. /\ gcs'.orders = c.orders /\ gcs'.photos = c.photos /\ gcs'.waiting = c.waiting
      /\ gcs'.mission = c.mission /\ gcs'.results = c.results /\ gcs'.parked = c.parked
      /\ gcs'.seq = c.seq /\ gcs'.out = <<>> /\ gcs'.frames = c.frames
      BY <1>1, <1>2 DEF Station
<1> HIDE DEF s
<1>6. Telling(c, accepted) /\ Coming(c.results, c.mission) /\ NoCommand \notin c.parked
      BY DEF Told, Sincere
<1>7. Telling(gcs', accepted')
      BY <1>2, <1>4, <1>5, <1>6 DEF Telling, s
<1>8. Sincere(gcs', accepted')
      BY <1>5, <1>6, <1>7 DEF Sincere
<1>9. Stays
      BY <1>3 DEF Stays
<1>10. Sincere(gcs, accepted)'
       BY <1>8, <1>9, SincereAfter
<1>11. Pilot(gcs'.orders) /\ Chronicle(gcs'.orders)
  <2>1. Pilot(c.orders)
        BY PilotGrows DEF Honest, World
  <2> QED BY <1>5, <2>1 DEF Told
<1>12. Pilot(gcs.orders)' /\ Chronicle(gcs.orders)'
       BY <1>3, <1>11, WorldAfter
<1>13. Watched'
       BY <1>3, <1>5, WatchedAfter DEF Watched, Honest, World
<1> QED BY <1>10, <1>12, <1>13 DEF Honest, World

\* What a handler may rely on.
LEMMA HonestWatches ==
    ASSUME Honest
    PROVE  Observable(snap) /\ Glanced(gcs.frames)
BY DEF Honest, World, Watched

LEMMA RefreshHonest ==
    ASSUME Sound, Ordered, Honest, NEW telemetry, Refresh(telemetry)
    PROVE  Honest'
<1> DEFINE c == RefreshTelling(gcs, telemetry)
<1>1. SetGcs(c) /\ UNCHANGED Elsewhere /\ media' = media
      BY DEF Refresh
<1>2. Well(c) /\ Follows(gcs, c)
      BY SoundFacts, RefreshTellingWell
<1>3. Told(c, accepted)
      BY SoundFacts, SoundTold, HonestWatches, RefreshTold
<1>4. Glanced(c.frames)
      BY SoundFacts, HonestWatches, RefreshTellingWell, OpensGlanced
<1> HIDE DEF c
<1>5. Filed'
      BY <1>1 DEF Filed, Honest, World
<1> QED BY <1>1, <1>2, <1>3, <1>4, <1>5, TakenHonest DEF Follows

LEMMA HandleCommandHonest ==
    ASSUME Sound, Ordered, Honest, HandleCommand
    PROVE  Honest'
<1> DEFINE i == gcs.handled + 1
           b == [gcs EXCEPT !.handled = @ + 1]
           c == Handle(b, i)
<1>1. SetGcs(c) /\ UNCHANGED Elsewhere /\ media' = media /\ gcs.handled < received
      BY DEF HandleCommand
<1>2. i \in Command /\ i # NoCommand
      BY <1>1, SoundFacts DEF Command, NoCommand
<1>3. /\ Well(b) /\ b.orders = gcs.orders /\ b.handled = i /\ b.seq = gcs.seq
      /\ b.parked = gcs.parked /\ b.results = gcs.results
      BY SoundFacts, NextCommandWell
<1>4. Untold(gcs, b) /\ b.frames = gcs.frames
      BY SoundFacts DEF Untold, Well, Station
<1> HIDE DEF b, i
<1>5. Told(b, accepted)
  <2>1. Told(gcs, accepted)
        BY SoundTold
  <2>2. Telling(b, accepted)
        BY <1>3, <1>4, <2>1 DEF Told, Sincere, Telling, Untold
  <2>3. Sincere(b, accepted)
        BY <1>3, <1>4, <2>1, <2>2 DEF Told, Sincere, Untold
  <2> QED BY <1>3, <2>1, <2>3 DEF Told
<1>6. Well(c) /\ Follows(b, c)
      BY <1>2, <1>3, SoundFacts, HandleWell
<1>7. Told(c, accepted)
      BY <1>2, <1>5, SoundFacts, HonestWatches, HandleTold
<1>10. Glanced(c.frames)
  <2>1. Glanced(b.frames)
        BY <1>4, HonestWatches
  <2> QED BY <1>2, <1>3, <2>1, SoundFacts, HandleGlanced
<1> HIDE DEF c
<1>8. Filed'
      BY <1>1 DEF Filed, Honest, World
<1>9. \A k \in 1..Len(gcs.orders) : c.orders[k] = gcs.orders[k]
      BY <1>3, <1>6 DEF Follows
<1> QED BY <1>1, <1>7, <1>8, <1>9, <1>10, TakenHonest

LEMMA DialogEndsHonest ==
    ASSUME Sound, Ordered, Honest, DialogEnds
    PROVE  Honest'
<1>1. \E yes \in BOOLEAN : SetGcs(Resumed(gcs, yes))
      BY DEF DialogEnds
<1>2. PICK yes \in BOOLEAN : SetGcs(Resumed(gcs, yes))
      BY <1>1
<1> DEFINE c == Resumed(gcs, yes)
           f == Last(gcs.frames)
<1>3. UNCHANGED Elsewhere /\ media' = media /\ gcs.frames # <<>>
      BY DEF DialogEnds
<1>4. Well(c) /\ Follows(gcs, c)
      BY <1>3, SoundFacts, ResumedWell
<1>5. f.for = "command" => f.command \in gcs.parked
  <2> DEFINE s == gcs.frames
             k == Len(s)
  <2>1. s \in Seq(Frame)
        BY SoundFacts DEF Well, Station
  <2>2. k \in 1..k /\ f = s[k]
    <3>1. k \in Nat /\ k # 0
          BY <1>3, <2>1, EmptySeq, LenProperties
    <3> QED BY <3>1 DEF Last
  <2>3. Stacked(s, gcs.orders, gcs.parked, gcs.seq, gcs.handled, flights.done)
        BY DEF Ordered, Orderly
  <2> HIDE DEF f, k, s
  <2>4. s[k].for = "command" => s[k].command \in gcs.parked
        BY <2>2, <2>3 DEF Stacked, k
  <2> QED BY <2>2, <2>4
<1>6. Told(gcs, accepted)
      BY SoundTold
<1>7. Told(c, accepted)
      BY <1>3, <1>5, <1>6, SoundFacts, HonestWatches, ResumedTold
<1>8. SetGcs(c)
      BY <1>2
<1>10. Glanced(c.frames)
      BY <1>3, SoundFacts, HonestWatches, ResumedGlanced
<1> HIDE DEF c
<1>9. Filed'
      BY <1>3 DEF Filed, Honest, World
<1> QED BY <1>3, <1>4, <1>7, <1>8, <1>9, <1>10, TakenHonest DEF Follows

LEMMA OperatorLandHonest ==
    ASSUME Sound, Ordered, Honest, OperatorLand
    PROVE  Honest'
<1> DEFINE b == Landing(gcs)
           c == Refreshed(b)
<1>1. SetGcs(c) /\ UNCHANGED Elsewhere /\ media' = media
      BY DEF OperatorLand, Landing
<1>2. Well(b) /\ Follows(gcs, b)
      BY SoundFacts, LandingWell
<1>3. Told(c, accepted)
      BY SoundFacts, SoundTold, HonestWatches, LandingTold
<1>7. Glanced(b.frames)
      BY SoundFacts, HonestWatches, LandingWell DEF Steady
<1> HIDE DEF b
<1>4. Well(c) /\ Follows(b, c)
      BY <1>2, SoundFacts, RefreshedWell
<1>8. Glanced(c.frames)
      BY <1>2, <1>7, SoundFacts, RefreshedWell, OpensGlanced
<1> HIDE DEF c
<1>5. Follows(gcs, c)
      BY <1>2, <1>4, SoundFacts, FollowsTwice
<1>6. Filed'
      BY <1>1 DEF Filed, Honest, World
<1> QED BY <1>1, <1>3, <1>5, <1>6, <1>8, TakenHonest DEF Follows

LEMMA CatalogueReadHonest ==
    ASSUME Sound, Ordered, Honest, CatalogueRead
    PROVE  Honest'
<1> DEFINE c == ObserveMedia(gcs)
           n == Len(gcs.orders)
<1>1. SetGcs(c) /\ UNCHANGED Elsewhere /\ media' = media
      BY DEF CatalogueRead, MediaKeeps
<1>2. /\ n \in Nat /\ gcs \in Station(n) /\ Env /\ Well(gcs) /\ Told(gcs, accepted)
      /\ accepted \in Seq(Events(n)) /\ Telling(gcs, accepted)
      BY SoundFacts, SoundTold DEF Well, Told, Sincere
<1> HIDE DEF n
<1>3. c \in Station(n) /\ Projects(gcs, c)
      BY <1>2, ObserveMediaType
<1>4. Telling(c, accepted) /\ Known(gcs.mission, c.mission)
      BY <1>2, ObserveMediaTold
<1> HIDE DEF c
<1>5. Told(c, accepted)
      BY <1>2, <1>3, <1>4, ProjectsTold DEF n
<1>6. Filed'
      BY <1>1 DEF Filed, Honest, World
<1>7. Glanced(c.frames)
      BY <1>3, HonestWatches DEF Projects
<1> QED BY <1>1, <1>3, <1>5, <1>6, <1>7, TakenHonest DEF Projects

\* A file of the media centre changes once, and only after its capture.
LEMMA CapturedKeeps ==
    ASSUME Sound, Filed, NEW t \in Ticket, NEW i \in Point, NEW ok \in BOOLEAN, Captured(t, i, ok)
    PROVE  /\ Filed'
           /\ \A u \in Ticket : \A j \in Point :
                  media[u].photo[j] = "ready" => media'[u].photo[j] = "ready"
<1> DEFINE one == IF ok THEN media[t].photo[i] ELSE "failed"
           x == [media[t] EXCEPT !.caught = media[t].caught \cup {i},
                                 !.photo = [media[t].photo EXCEPT ![i] = one]]
<1>1. media \in [Ticket -> Media]
      BY SoundFacts
<1>2. media[t].photo \in [Point -> File] /\ media[t] \in Media
      BY <1>1 DEF Media
<1>3. media' = [media EXCEPT ![t] = x] /\ i \notin media[t].caught
      BY <1>2 DEF Captured
<1>4. x.caught = media[t].caught \cup {i} /\ x.photo = [media[t].photo EXCEPT ![i] = one]
      BY <1>2 DEF Media
<1> HIDE DEF x
<1>5. media'[t] = x /\ \A u \in Ticket : u # t => media'[u] = media[u]
      BY <1>1, <1>3
<1>6. media[t].photo[i] = "pending"
      BY <1>3 DEF Filed
<1>7. \A j \in Point : j # i => x.photo[j] = media[t].photo[j]
      BY <1>2, <1>4
<1>8. ASSUME NEW u \in Ticket, NEW j \in Point, media[u].photo[j] = "ready"
      PROVE  media'[u].photo[j] = "ready"
  <2>1. CASE u = t
        BY <1>5, <1>6, <1>7, <1>8, <2>1
  <2> QED BY <1>5, <1>8, <2>1
<1>9. ASSUME NEW u \in Ticket, NEW j \in Point, media'[u].photo[j] # "pending"
      PROVE  j \in media'[u].caught
  <2>1. CASE u = t
    <3>1. CASE j = i
          BY <1>4, <1>5, <2>1, <3>1
    <3>2. CASE j # i
      <4>1. media[t].photo[j] # "pending"
            BY <1>5, <1>7, <1>9, <2>1, <3>2
      <4>2. j \in media[t].caught
            BY <4>1 DEF Filed
      <4> QED BY <1>4, <1>5, <2>1, <4>2
    <3> QED BY <3>1, <3>2
  <2>2. CASE u # t
        BY <1>5, <1>9, <2>2 DEF Filed
  <2> QED BY <2>1, <2>2
<1> QED BY <1>8, <1>9 DEF Filed

LEMMA CaptureHonest ==
    ASSUME Sound, Ordered, Honest, NEW p \in flights.reached, NEW ok \in BOOLEAN,
           CaptureReported(p[1], p[2], ok)
    PROVE  Honest'
<1> DEFINE t == p[1]
           i == p[2]
           c == ObserveCapture(gcs, t, i)
           n == Len(gcs.orders)
<1>1. t \in Ticket /\ i \in Point /\ i \in 1..limit.points
      BY ReachedType
<1>2. SetGcs(c) /\ UNCHANGED Elsewhere /\ Captured(t, i, ok) /\ Been(t, i)
      BY DEF CaptureReported, Captured, MediaKeeps, Been
<1> HIDE DEF t, i
<1>3. /\ n \in Nat /\ gcs \in Station(n) /\ Env /\ Well(gcs) /\ Told(gcs, accepted)
      /\ accepted \in Seq(Events(n)) /\ Telling(gcs, accepted) /\ Chronicle(gcs.orders)
      BY SoundFacts, SoundTold DEF Well, Told, Sincere
<1> HIDE DEF n
<1>4. c \in Station(n) /\ Projects(gcs, c)
      BY <1>1, <1>3, ObserveCaptureType
<1>5. Telling(c, accepted) /\ Known(gcs.mission, c.mission)
      BY <1>1, <1>2, <1>3, ObserveCaptureTold
<1> HIDE DEF c
<1>6. Told(c, accepted)
      BY <1>3, <1>4, <1>5, ProjectsTold DEF n
<1>7. /\ Filed'
      /\ \A u \in Ticket : \A j \in Point :
             media[u].photo[j] = "ready" => media'[u].photo[j] = "ready"
      BY <1>1, <1>2, CapturedKeeps DEF Honest, World
<1>8. Glanced(c.frames)
      BY <1>4, HonestWatches DEF Projects
<1> QED BY <1>2, <1>4, <1>6, <1>7, <1>8, TakenHonest DEF Projects

\* A step that leaves alone what the station has heard, told and ordered.
LEMMA KeptHonest ==
    ASSUME Sound, Honest, Stays, accepted' = accepted, veh' = veh, flights' = flights, Watched',
           Filed', gcs'.orders = gcs.orders, gcs'.results = gcs.results, gcs'.parked = gcs.parked,
           Untold(gcs, gcs'), Kinded(gcs'.seq)
    PROVE  Honest'
<1>1. Telling(gcs', accepted')
      BY DEF Honest, Sincere, Telling, Untold
<1>2. Sincere(gcs', accepted')
      BY <1>1 DEF Honest, Sincere, Untold
<1>3. Sincere(gcs, accepted)'
      BY <1>2, SincereAfter
<1>4. Pilot(gcs.orders)' /\ Chronicle(gcs.orders)'
      BY WorldAfter DEF Honest, World, Stays
<1> QED BY <1>3, <1>4 DEF Honest, World

LEMMA SameHonest ==
    ASSUME Sound, Honest, limit' = limit, accepted' = accepted, veh' = veh, flights' = flights,
           snap' = snap, media' = media, gcs' = gcs
    PROVE  Honest'
<1>1. Stays
      BY DEF Stays
<1>2. Watched' /\ Filed'
  <2>1. Watched'
        BY WatchedSame DEF Honest, World
  <2>2. Filed'
        BY DEF Filed, Honest, World
  <2> QED BY <2>1, <2>2
<1>3. Untold(gcs, gcs') /\ Kinded(gcs'.seq)
      BY DEF Untold, Honest, Sincere, Telling
<1> QED BY <1>1, <1>2, <1>3, KeptHonest

LEMMA ConnectedHonest ==
    ASSUME Sound, Honest, Connected
    PROVE  Honest'
<1>1. /\ gcs' = ConnectionRestored(gcs) /\ limit' = limit /\ flights' = flights /\ Well(gcs)
      /\ accepted' = accepted /\ veh' = veh /\ snap' = snap /\ media' = media
      BY SoundFacts DEF Connected, HandshakeDone, eventVars
<1>2. /\ Untold(gcs, gcs') /\ gcs'.orders = gcs.orders /\ gcs'.seq = gcs.seq
      /\ gcs'.results = gcs.results /\ gcs'.parked = gcs.parked /\ gcs'.frames = gcs.frames
      BY <1>1 DEF ConnectionRestored, Well, Station, Untold
<1>3. Stays
      BY <1>1 DEF Stays
<1>4. Watched' /\ Filed'
  <2>1. Watched'
        BY <1>1, <1>2, WatchedSame DEF Honest, World
  <2>2. Filed'
        BY <1>1 DEF Filed, Honest, World
  <2> QED BY <2>1, <2>2
<1>5. Kinded(gcs'.seq)
      BY <1>2 DEF Honest, Sincere, Telling
<1> QED BY <1>1, <1>2, <1>3, <1>4, <1>5, KeptHonest

LEMMA StandbyDelayOverHonest ==
    ASSUME Sound, Honest, StandbyDelayOver
    PROVE  Honest'
<1> DEFINE q == [gcs.seq EXCEPT !.delay = FALSE]
<1>1. Well(gcs) /\ gcs.seq \in Sequences(Len(gcs.orders)) /\ gcs \in Station(Len(gcs.orders))
      BY SoundFacts DEF Well, Station
<1>2. /\ gcs' = [gcs EXCEPT !.seq = q] /\ limit' = limit /\ flights' = flights
      /\ accepted' = accepted /\ veh' = veh /\ snap' = snap /\ media' = media
      BY DEF StandbyDelayOver, linkVars, eventVars
<1>3. q.command = gcs.seq.command /\ q.kind = gcs.seq.kind
      BY <1>1 DEF Sequences
<1> HIDE DEF q
<1>4. /\ Untold(gcs, gcs') /\ gcs'.orders = gcs.orders /\ gcs'.seq = q
      /\ gcs'.results = gcs.results /\ gcs'.parked = gcs.parked /\ gcs'.frames = gcs.frames
      BY <1>1, <1>2 DEF Station, Untold
<1>5. Kinded(gcs'.seq)
      BY <1>3, <1>4 DEF Kinded, Honest, Sincere, Telling
<1>6. Stays
      BY <1>2 DEF Stays
<1>7. Watched' /\ Filed'
  <2>1. Watched'
        BY <1>2, <1>4, WatchedSame DEF Honest, World
  <2>2. Filed'
        BY <1>2 DEF Filed, Honest, World
  <2> QED BY <2>1, <2>2
<1> QED BY <1>2, <1>4, <1>5, <1>6, <1>7, KeptHonest

LEMMA StatusArrivesHonest ==
    ASSUME Sound, Honest, StatusArrives
    PROVE  Honest'
<1>1. /\ snap' = StatusNow /\ limit' = limit /\ flights' = flights /\ accepted' = accepted
      /\ veh' = veh /\ media' = media /\ gcs' = gcs
      BY DEF StatusArrives, linkVars, eventVars
<1>2. Stays
      BY <1>1 DEF Stays
<1>3. StatusNow.mode = "waypoint" <=> veh.task = "waypoints"
      BY DEF StatusNow, Mode
<1>4. StatusNow.ticket = veh.ticket /\ StatusNow.point = veh.point
      BY DEF StatusNow
<1>5. veh.task = "waypoints" => \A i \in 1..(veh.point - 1) : <<veh.ticket, i>> \in flights.reached
      BY DEF Honest, World, Pilot
<1>6. Watched'
  <2>1. Observable(snap)'
        BY <1>1, <1>3, <1>4, <1>5 DEF Observable
  <2>2. \A s : Observable(s) => Observable(s)'
        BY <1>1 DEF Observable
  <2>3. Observable(snap) /\ Glanced(gcs.frames)
        BY HonestWatches
  <2>4. \A f : Glanced(f) => Glanced(f)'
        BY <2>2, <2>3 DEF Glanced
  <2>5. Glanced(gcs.frames)'
        BY <1>1, <2>3, <2>4
  <2> QED BY <2>1, <2>5 DEF Watched
<1>7. Filed'
      BY <1>1 DEF Filed, Honest, World
<1>8. Untold(gcs, gcs') /\ Kinded(gcs'.seq)
      BY <1>1 DEF Untold, Honest, Sincere, Telling
<1> QED BY <1>1, <1>2, <1>6, <1>7, <1>8, KeptHonest

LEMMA MediaSettlesHonest ==
    ASSUME Sound, Honest, NEW p \in flights.reached, MediaSettles(p[1])
    PROVE  Honest'
<1> DEFINE t == p[1]
<1>1. t \in Ticket /\ media \in [Ticket -> Media]
      BY ReachedType, SoundFacts
<1>2. /\ FileSettles(t) /\ limit' = limit /\ flights' = flights /\ accepted' = accepted
      /\ veh' = veh /\ snap' = snap /\ gcs' = gcs
      BY DEF MediaSettles, MediaKeeps, Elsewhere, ReaderVars
<1> HIDE DEF t
<1>3. media[t] \in Media /\ media[t].photo \in [Point -> File] /\ media[t].caught \subseteq Point
      BY <1>1 DEF Media
<1> DEFINE Keeps(x) == /\ x.caught = media[t].caught
                       /\ \A j \in Point : \/ x.photo[j] = media[t].photo[j]
                                           \/ media[t].photo[j] = "pending" /\ j \in x.caught
<1>4. \E x : media' = [media EXCEPT ![t] = x] /\ Keeps(x)
  <2>1. ASSUME NEW i \in media[t].caught, NEW file, media[t].photo[i] = "pending",
               media' = [media EXCEPT ![t].photo[i] = file]
        PROVE  \E x : media' = [media EXCEPT ![t] = x] /\ Keeps(x)
    <3> DEFINE x == [media[t] EXCEPT !.photo = [media[t].photo EXCEPT ![i] = file]]
    <3>1. media' = [media EXCEPT ![t] = x]
          BY <2>1
    <3>2. x.caught = media[t].caught /\ x.photo = [media[t].photo EXCEPT ![i] = file]
          BY <1>3 DEF Media
    <3> HIDE DEF x
    <3>3. \A j \in Point : j # i => x.photo[j] = media[t].photo[j]
          BY <1>3, <3>2
    <3>4. Keeps(x)
          BY <2>1, <3>2, <3>3
    <3> QED BY <3>1, <3>4
  <2>2. ASSUME NEW file, media' = [media EXCEPT ![t].video = file]
        PROVE  \E x : media' = [media EXCEPT ![t] = x] /\ Keeps(x)
    <3> DEFINE x == [media[t] EXCEPT !.video = file]
    <3>1. media' = [media EXCEPT ![t] = x]
          BY <2>2
    <3>2. Keeps(x)
          BY <1>3 DEF Media
    <3> QED BY <3>1, <3>2
  <2>3. CASE media' = [media EXCEPT ![t].late = TRUE]
    <3> DEFINE x == [media[t] EXCEPT !.late = TRUE]
    <3>1. media' = [media EXCEPT ![t] = x]
          BY <2>3
    <3>2. Keeps(x)
          BY <1>3 DEF Media
    <3> QED BY <3>1, <3>2
  <2>4. \/ \E i \in media[t].caught, file \in {"ready", "failed"} :
               /\ media[t].photo[i] = "pending"
               /\ media' = [media EXCEPT ![t].photo[i] = file]
        \/ \E file \in {"ready", "failed"} : media' = [media EXCEPT ![t].video = file]
        \/ media' = [media EXCEPT ![t].late = TRUE]
        BY <1>2 DEF FileSettles
  <2> HIDE DEF Keeps
  <2> QED BY <2>1, <2>2, <2>3, <2>4
<1>5. PICK x : media' = [media EXCEPT ![t] = x] /\ Keeps(x)
      BY <1>4
<1>6. media'[t] = x /\ \A u \in Ticket : u # t => media'[u] = media[u]
      BY <1>1, <1>5
<1>7. Filed
      BY DEF Honest, World
<1>8. Filed'
  <2> SUFFICES ASSUME NEW u \in Ticket, NEW j \in Point, media'[u].photo[j] # "pending"
               PROVE  j \in media'[u].caught
      BY DEF Filed
  <2>1. CASE u = t
    <3>1. CASE x.photo[j] = media[t].photo[j]
      <4>1. media[t].photo[j] # "pending"
            BY <1>6, <2>1, <3>1
      <4> QED BY <1>5, <1>6, <1>7, <2>1, <4>1 DEF Filed
    <3>2. CASE x.photo[j] # media[t].photo[j]
          BY <1>5, <1>6, <2>1, <3>2
    <3> QED BY <3>1, <3>2
  <2>2. CASE u # t
        BY <1>6, <1>7, <2>2 DEF Filed
  <2> QED BY <2>1, <2>2
<1>9. Stays
  <2>1. ASSUME NEW u \in Ticket, NEW j \in Point, media[u].photo[j] = "ready"
        PROVE  media'[u].photo[j] = "ready"
    <3>1. CASE u = t
          BY <1>5, <1>6, <2>1, <3>1
    <3> QED BY <1>6, <2>1, <3>1
  <2> QED BY <1>2, <2>1 DEF Stays
<1>10. Watched'
       BY <1>2, WatchedSame DEF Honest, World
<1>11. Untold(gcs, gcs') /\ Kinded(gcs'.seq)
       BY <1>2 DEF Untold, Honest, Sincere, Telling
<1> QED BY <1>2, <1>8, <1>9, <1>10, <1>11, KeptHonest

(***************************************************************************)
(* Results.                                                                *)
(***************************************************************************)
Lost(s) == \A i \in 1..Len(s) : ~Win(s[i])

\* A result that is no success changes nothing of what is to come.
LEMMA LostComing ==
    ASSUME NEW A, NEW q \in Seq(A), NEW s \in Seq(A), NEW m, Coming(q, m), Lost(s)
    PROVE  Coming(q \o s, m)
<1> DEFINE u == q \o s
<1>1. /\ Len(q) \in Nat /\ Len(s) \in Nat /\ Len(u) = Len(q) + Len(s)
      /\ \A i \in 1..(Len(q) + Len(s)) : u[i] = IF i <= Len(q) THEN q[i] ELSE s[i - Len(q)]
      BY ConcatProperties, LenProperties
<1> HIDE DEF u
<1>2. ASSUME NEW i \in 1..Len(u), Win(u[i]) PROVE i \in 1..Len(q) /\ u[i] = q[i]
  <2>1. CASE i <= Len(q)
        BY <1>1, <2>1
  <2>2. CASE ~(i <= Len(q))
    <3>1. i - Len(q) \in 1..Len(s) /\ u[i] = s[i - Len(q)]
          BY <1>1, <2>2
    <3> QED BY <1>2, <3>1 DEF Lost
  <2> QED BY <2>1, <2>2
<1>3. \A i, j \in 1..Len(u) : i < j /\ Win(u[i]) /\ Win(u[j]) => u[i].ticket < u[j].ticket
  <2> SUFFICES ASSUME NEW i \in 1..Len(u), NEW j \in 1..Len(u), i < j, Win(u[i]), Win(u[j])
               PROVE  u[i].ticket < u[j].ticket
      OBVIOUS
  <2>1. i \in 1..Len(q) /\ j \in 1..Len(q) /\ u[i] = q[i] /\ u[j] = q[j]
        BY <1>2
  <2> QED BY <2>1 DEF Coming
<1>4. m.kind = "inspection" /\ m.flown => Later(u, m.ticket)
      BY <1>2 DEF Coming, Later
<1> QED BY <1>3, <1>4 DEF Coming, u

\* A success later than any that is under way, and than the mission held.
LEMMA WonComing ==
    ASSUME NEW A, NEW q \in Seq(A), NEW r \in A, NEW m, Coming(q, m), Win(r),
           \A i \in 1..Len(q) : Win(q[i]) => q[i].ticket < r.ticket,
           m.kind = "inspection" /\ m.flown => m.ticket < r.ticket
    PROVE  Coming(q \o <<r>>, m)
<1> DEFINE u == q \o <<r>>
<1>1. /\ Len(q) \in Nat /\ Len(u) = Len(q) + 1 /\ u[Len(q) + 1] = r
      /\ \A i \in 1..Len(q) : u[i] = q[i]
  <2>1. u = Append(q, r)
        BY AppendIsConcat
  <2> HIDE DEF u
  <2> QED BY <2>1, AppendProperties, LenProperties
<1> HIDE DEF u
<1>2. \A i \in 1..Len(u) : (i \in 1..Len(q) /\ u[i] = q[i]) \/ (i = Len(q) + 1 /\ u[i] = r)
      BY <1>1
<1>3. \A i, j \in 1..Len(u) : i < j /\ Win(u[i]) /\ Win(u[j]) => u[i].ticket < u[j].ticket
  <2> SUFFICES ASSUME NEW i \in 1..Len(u), NEW j \in 1..Len(u), i < j, Win(u[i]), Win(u[j])
               PROVE  u[i].ticket < u[j].ticket
      OBVIOUS
  <2>1. i \in 1..Len(q) /\ u[i] = q[i]
        BY <1>1, <1>2
  <2>2. CASE j \in 1..Len(q) /\ u[j] = q[j]
        BY <2>1, <2>2 DEF Coming
  <2>3. CASE j = Len(q) + 1 /\ u[j] = r
        BY <2>1, <2>3
  <2> QED BY <1>2, <2>2, <2>3
<1>4. m.kind = "inspection" /\ m.flown => Later(u, m.ticket)
  <2> SUFFICES ASSUME m.kind = "inspection", m.flown, NEW i \in 1..Len(u), Win(u[i])
               PROVE  m.ticket < u[i].ticket
      BY DEF Later
  <2>1. CASE i \in 1..Len(q) /\ u[i] = q[i]
        BY <2>1 DEF Coming, Later
  <2>2. CASE i = Len(q) + 1 /\ u[i] = r
        BY <2>2
  <2> QED BY <1>2, <2>1, <2>2
<1> QED BY <1>3, <1>4 DEF Coming, u

\* What a step that only tells results has to show.
LEMMA ResultsHonest ==
    ASSUME Sound, Honest, Stays, accepted' = accepted, snap' = snap, media' = media,
           Untold(gcs, gcs'), gcs'.orders = gcs.orders, gcs'.parked = gcs.parked,
           gcs'.seq = gcs.seq, gcs'.frames = gcs.frames, Coming(gcs'.results, gcs.mission),
           Pilot(gcs.orders)', Chronicle(gcs.orders)'
    PROVE  Honest'
<1>1. Telling(gcs', accepted')
      BY DEF Honest, Sincere, Telling, Untold
<1>2. Sincere(gcs', accepted')
      BY <1>1 DEF Honest, Sincere, Untold
<1>3. Sincere(gcs, accepted)'
      BY <1>2, SincereAfter
<1>4. Watched'
      BY WatchedSame DEF Stays, Honest, World
<1>5. Filed'
      BY DEF Filed, Honest, World
<1> QED BY <1>3, <1>4, <1>5 DEF Honest, World

LEMMA ToldHonest ==
    ASSUME Sound, Honest, Stays, accepted' = accepted, snap' = snap, media' = media,
           NEW s \in Seq(Results(Len(gcs.orders))), gcs' = [gcs EXCEPT !.results = @ \o s],
           Coming(gcs.results \o s, gcs.mission), Pilot(gcs.orders)', Chronicle(gcs.orders)'
    PROVE  Honest'
<1> DEFINE all == gcs.results \o s
<1>1. gcs \in Station(Len(gcs.orders)) /\ gcs' = [gcs EXCEPT !.results = all]
      BY SoundFacts DEF Well
<1>2. Coming(all, gcs.mission)
      OBVIOUS
<1> HIDE DEF all
<1>3. /\ Untold(gcs, gcs') /\ gcs'.orders = gcs.orders /\ gcs'.parked = gcs.parked
      /\ gcs'.seq = gcs.seq /\ gcs'.results = all /\ gcs'.frames = gcs.frames
      BY <1>1 DEF Station, Untold
<1> QED BY <1>2, <1>3, ResultsHonest

\* Nothing was done in the step.
LEMMA ChronicleSame ==
    ASSUME Honest, limit' = limit, flights' = flights, gcs'.orders = gcs.orders
    PROVE  Chronicle(gcs.orders)'
BY DEF Chronicle, Honest, World

\* The vehicle goes on, or its task is over.
PilotOn ==
    /\ veh'.ticket = veh.ticket /\ veh'.last = veh.last
    /\ veh'.task # "none" => veh'.task = veh.task /\ veh'.point = veh.point

LEMMA PilotSame ==
    ASSUME Honest, PilotOn, flights' = flights, gcs'.orders = gcs.orders
    PROVE  Pilot(gcs.orders)'
BY DEF PilotOn, Pilot, Honest, World

LEMMA SilentHonest ==
    ASSUME Sound, Honest, Arms \/ EntersLand \/ DisarmedInFlight \/ BecomesAbnormal
    PROVE  Honest'
<1>1. /\ limit' = limit /\ accepted' = accepted /\ snap' = snap /\ media' = media
      /\ gcs' = gcs /\ flights' = flights
      BY DEF Arms, EntersLand, DisarmedInFlight, BecomesAbnormal, VehicleKeeps, linkVars, eventVars
<1>2. \/ veh' = [veh EXCEPT !.armed = TRUE]
      \/ veh' = [veh EXCEPT !.guided = FALSE]
      \/ veh' = Disarmed
      \/ veh' = [veh EXCEPT !.abnormal = TRUE]
      BY DEF Arms, EntersLand, DisarmedInFlight, BecomesAbnormal
<1>3. veh \in Vehicles(Len(gcs.orders))
      BY FlightFacts
<1>4. PilotOn
      BY <1>2, <1>3 DEF PilotOn, Vehicles, Disarmed
<1>5. Pilot(gcs.orders)' /\ Chronicle(gcs.orders)'
      BY <1>1, <1>4, PilotSame, ChronicleSame
<1>6. Stays
      BY <1>1 DEF Stays
<1>7. Untold(gcs, gcs') /\ Coming(gcs'.results, gcs.mission)
      BY <1>1 DEF Untold, Honest, Sincere
<1> QED BY <1>1, <1>5, <1>6, <1>7, ResultsHonest

\* A failure, or a success that is none.
LEMMA FinalLost ==
    ASSUME NEW t, NEW ok \in BOOLEAN, ok => gcs.orders[t].name = "clear_abnormal"
    PROVE  Lost(<<Final(t, ok)>>)
BY DEF Lost, Win, Final, OrderOf

LEMMA LostHonest ==
    ASSUME Sound, Honest, limit' = limit, flights' = flights, accepted' = accepted,
           snap' = snap, media' = media,
           NEW s \in Seq(Results(Len(gcs.orders))), gcs' = [gcs EXCEPT !.results = @ \o s],
           Lost(s), Pilot(gcs.orders)'
    PROVE  Honest'
<1> DEFINE n == Len(gcs.orders)
           A == Results(n)
           m == gcs.mission
           q == gcs.results
<1>1. gcs \in Station(n) /\ q \in Seq(A) /\ s \in Seq(A) /\ Coming(q, m)
      BY SoundFacts DEF Well, Station, Honest, Sincere
<1> HIDE DEF A, q, m, n
<1>2. Coming(q \o s, m)
      BY <1>1, LostComing
<1>3. gcs'.orders = gcs.orders
      BY <1>1 DEF Station
<1>4. Chronicle(gcs.orders)'
      BY <1>3, ChronicleSame
<1>5. Stays
      BY DEF Stays
<1> QED BY <1>2, <1>4, <1>5, ToldHonest DEF q, m

LEMMA SendRequestHonest ==
    ASSUME Sound, Honest, SendRequest
    PROVE  Honest'
<1> DEFINE n == Len(gcs.orders)
           t == Head(gcs.queue)
           rest == Tail(gcs.queue)
           f == Final(t, FALSE)
           popped == [gcs EXCEPT !.queue = rest]
           q == gcs.results
           all == Append(q, f)
           m == gcs.mission
<1>1. /\ n \in Nat /\ gcs \in Station(n) /\ q \in Seq(Results(n)) /\ gcs.queue \in Seq(1..n)
      /\ gcs.queue # <<>> /\ Coming(q, m)
      BY SoundFacts DEF Well, Station, SendRequest, Honest, Sincere
<1>2. /\ gcs' = popped \/ gcs' = [popped EXCEPT !.results = all]
      /\ limit' = limit /\ flights' = flights /\ accepted' = accepted
      /\ snap' = snap /\ media' = media /\ veh' = veh
      BY DEF SendRequest, linkVars, eventVars
<1>3. t \in 1..n
      BY <1>1, HeadTailProperties
<1>4. f \in Results(n) /\ <<f>> \in Seq(Results(n)) /\ Lost(<<f>>)
      BY <1>3, FinalType, FinalLost
<1>5. Coming(all, m)
  <2> DEFINE A == Results(n)
             s == <<f>>
  <2>1. q \in Seq(A) /\ f \in A /\ s \in Seq(A) /\ Lost(s)
        BY <1>1, <1>4
  <2> HIDE DEF f
  <2>2. all = q \o s
        BY <2>1, AppendIsConcat
  <2> HIDE DEF A, s, q, m, all
  <2>3. Coming(q \o s, m)
        BY <1>1, <2>1, LostComing
  <2> QED BY <2>2, <2>3
<1> HIDE DEF rest, all
<1>6. /\ gcs'.orders = gcs.orders /\ gcs'.seq = gcs.seq /\ gcs'.parked = gcs.parked
      /\ Untold(gcs, gcs') /\ gcs'.frames = gcs.frames
      /\ gcs'.results = q \/ gcs'.results = all
      BY <1>1, <1>2 DEF Station, Untold
<1>7. Coming(gcs'.results, gcs.mission)
      BY <1>1, <1>5, <1>6
<1>8. Stays
      BY <1>2 DEF Stays
<1>9. PilotOn
      BY <1>2 DEF PilotOn
<1>10. Pilot(gcs.orders)' /\ Chronicle(gcs.orders)'
       BY <1>2, <1>6, <1>9, PilotSame, ChronicleSame
<1> QED BY <1>2, <1>6, <1>7, <1>8, <1>10, ResultsHonest

LEMMA RequestTimesOutHonest ==
    ASSUME Sound, Honest, RequestTimesOut
    PROVE  Honest'
<1>1. PICK t \in calls \cup lost : Tell(<<Final(t, FALSE)>>)
      BY DEF RequestTimesOut
<1>2. t \in 1..Len(gcs.orders)
      BY SoundParts
<1> DEFINE s == <<Final(t, FALSE)>>
<1>3. /\ s \in Seq(Results(Len(gcs.orders))) /\ gcs' = [gcs EXCEPT !.results = @ \o s]
      /\ Lost(s)
      BY <1>1, <1>2, FinalType, FinalLost DEF Tell
<1> HIDE DEF s
<1>4. /\ limit' = limit /\ flights' = flights /\ accepted' = accepted
      /\ snap' = snap /\ media' = media /\ veh' = veh
      BY DEF RequestTimesOut, linkVars, eventVars
<1>5. gcs'.orders = gcs.orders
      BY <1>3, SoundFacts DEF Well, Station
<1>6. Pilot(gcs.orders)'
      BY <1>4, <1>5, PilotSame DEF PilotOn
<1> QED BY <1>3, <1>4, <1>6, LostHonest

LEMMA TaskFailsHonest ==
    ASSUME Sound, Honest, TaskFails
    PROVE  Honest'
<1> DEFINE s == <<Final(veh.ticket, FALSE)>>
<1>1. veh.ticket \in 1..Len(gcs.orders) /\ veh \in Vehicles(Len(gcs.orders))
      BY FlightFacts DEF TaskFails
<1>2. /\ s \in Seq(Results(Len(gcs.orders))) /\ gcs' = [gcs EXCEPT !.results = @ \o s]
      /\ Lost(s)
      BY <1>1, FinalType, FinalLost DEF TaskFails, Tell
<1> HIDE DEF s
<1>3. /\ limit' = limit /\ flights' = flights /\ accepted' = accepted
      /\ snap' = snap /\ media' = media /\ veh' = [veh EXCEPT !.task = "none"]
      BY DEF TaskFails, VehicleKeeps, linkVars, eventVars
<1>4. gcs'.orders = gcs.orders
      BY <1>2, SoundFacts DEF Well, Station
<1>5. PilotOn
      BY <1>1, <1>3 DEF PilotOn, Vehicles
<1>6. Pilot(gcs.orders)'
      BY <1>3, <1>4, <1>5, PilotSame
<1> QED BY <1>2, <1>3, <1>6, LostHonest

\* What the vehicle says when it accepts an order is not that it has been carried out.
LEMMA AnnouncedLost ==
    ASSUME Sound, NEW t \in 1..Len(gcs.orders)
    PROVE  Lost(Announced(t))
<1> DEFINE n == Len(gcs.orders)
           f == [Final(t, TRUE) EXCEPT !.final = FALSE]
           g == <<f>>
           k == Cancelled
<1>1. Final(t, TRUE) \in Results(n)
      BY FinalType
<1>2. CASE gcs.orders[t].name = "clear_abnormal"
  <2>1. Announced(t) = <<Final(t, TRUE)>>
        BY <1>2 DEF Announced, OrderOf
  <2> QED BY <1>2, <2>1, FinalLost
<1>3. CASE gcs.orders[t].name # "clear_abnormal"
  <2>1. Announced(t) = k \o g
        BY <1>3 DEF Announced, OrderOf
  <2>2. f \in Results(n) /\ ~f.final
        BY <1>1 DEF Results
  <2> HIDE DEF f
  <2>3. g \in Seq(Results(n)) /\ Lost(g)
    <3> HIDE DEF n
    <3>1. g \in Seq(Results(n))
          BY <2>2
    <3>2. ~Win(f)
          BY <2>2 DEF Win
    <3> QED BY <3>1, <3>2 DEF Lost
  <2>4. k \in Seq(Results(n)) /\ Lost(k)
    <3>1. CASE veh.task \in {"takeoff", "waypoints"}
      <4>1. veh.ticket \in 1..n /\ k = <<Final(veh.ticket, FALSE)>>
            BY <3>1, FlightFacts DEF Cancelled
      <4> QED BY <4>1, FinalType, FinalLost
    <3>2. CASE veh.task \notin {"takeoff", "waypoints"}
      <4>1. k = <<>>
            BY <3>2 DEF Cancelled
      <4> HIDE DEF k, n
      <4>2. <<>> \in Seq(Results(n)) /\ Len(<<>>) = 0
            BY EmptySeq
      <4> QED BY <4>1, <4>2 DEF Lost
    <3> QED BY <3>1, <3>2
  <2> HIDE DEF n, k, g
  <2> DEFINE u == k \o g
  <2>5. /\ Len(k) \in Nat /\ Len(g) \in Nat /\ Len(u) = Len(k) + Len(g)
        /\ \A i \in 1..(Len(k) + Len(g)) : u[i] = IF i <= Len(k) THEN k[i] ELSE g[i - Len(k)]
        BY <2>3, <2>4, ConcatProperties, LenProperties
  <2> HIDE DEF u
  <2>6. Lost(u)
    <3> SUFFICES ASSUME NEW i \in 1..Len(u) PROVE ~Win(u[i])
        BY DEF Lost
    <3>1. CASE i <= Len(k)
      <4>1. i \in 1..Len(k) /\ u[i] = k[i]
            BY <2>5, <3>1
      <4> QED BY <2>4, <4>1 DEF Lost
    <3>2. CASE ~(i <= Len(k))
      <4>1. i - Len(k) \in 1..Len(g) /\ u[i] = g[i - Len(k)]
            BY <2>5, <3>2
      <4> QED BY <2>3, <4>1 DEF Lost
    <3> QED BY <3>1, <3>2
  <2> QED BY <2>1, <2>6 DEF u
<1> QED BY <1>2, <1>3

\* An order that is accepted is newer than all that went before.
LEMMA AnswerPilot ==
    ASSUME Sound, Honest, NEW t \in 1..Len(gcs.orders), flights' = flights,
           gcs'.orders = gcs.orders,
           \/ t > veh.last /\ veh' = TaskStarted(t)
           \/ veh' = [veh EXCEPT !.last = Max({@, t})]
    PROVE  Pilot(gcs.orders)'
<1> DEFINE n == Len(gcs.orders)
           name == gcs.orders[t].name
           start == IF name = "waypoints" THEN 1 ELSE 0
           a == [veh EXCEPT !.abnormal = FALSE, !.last = t]
           b == [veh EXCEPT !.task = name, !.ticket = t, !.last = t, !.point = start]
           late == Max({veh.last, t})
           r == [veh EXCEPT !.last = late]
           o == gcs.orders
<1>1. veh \in Vehicles(n) /\ n \in Nat /\ veh.last \in Nat /\ veh.ticket \in Nat /\ t \in Nat
      BY FlightFacts DEF Vehicles
<1>2. Pilot(o) /\ flights.done \subseteq 1..n
      BY SoundParts DEF Honest, World, Flown
<1>3. late \in Nat /\ late >= veh.last
  <2>1. late = IF veh.last >= t THEN veh.last ELSE t
        BY <1>1, MaxOfTwo
  <2> HIDE DEF late
  <2> QED BY <1>1, <2>1
<1>4. TaskStarted(t) = IF name = "clear_abnormal" THEN a ELSE b
      BY DEF TaskStarted, OrderOf
<1>5. \A x : (gcs'.orders = o /\ flights' = flights /\ veh' = x
              /\ x.ticket <= x.last
              /\ (\A d \in flights.done : d <= x.ticket)
              /\ (x.task # "none" => x.ticket \notin flights.done /\ o[x.ticket].name = x.task)
              /\ (x.task = "waypoints" =>
                      \A i \in 1..(x.point - 1) : <<x.ticket, i>> \in flights.reached))
              => Pilot(gcs.orders)'
      BY DEF Pilot
<1> HIDE DEF late, n
<1>6. CASE veh' = r
  <2>1. /\ r.ticket = veh.ticket /\ r.task = veh.task /\ r.point = veh.point /\ r.last = late
        BY <1>1 DEF Vehicles
  <2> HIDE DEF r
  <2>2. r.ticket <= r.last
        BY <1>1, <1>2, <1>3, <2>1 DEF Pilot
  <2> QED BY <1>2, <1>5, <1>6, <2>1, <2>2 DEF Pilot
<1>7. CASE t > veh.last /\ veh' = a /\ name = "clear_abnormal"
  <2>1. /\ a.ticket = veh.ticket /\ a.task = veh.task /\ a.point = veh.point /\ a.last = t
        BY <1>1 DEF Vehicles
  <2> HIDE DEF a
  <2>2. a.ticket <= a.last
        BY <1>1, <1>2, <1>7, <2>1 DEF Pilot
  <2> QED BY <1>2, <1>5, <1>7, <2>1, <2>2 DEF Pilot
<1>8. CASE t > veh.last /\ veh' = b /\ name # "clear_abnormal"
  <2>1. /\ b.ticket = t /\ b.task = name /\ b.point = start /\ b.last = t
        BY <1>1 DEF Vehicles
  <2> HIDE DEF b
  <2>2. b.ticket <= b.last
        BY <1>1, <2>1
  <2>3. \A d \in flights.done : d < t
    <3> TAKE d \in flights.done
    <3>1. d <= veh.ticket /\ veh.ticket <= veh.last /\ d \in Nat
          BY <1>2 DEF Pilot
    <3> QED BY <1>1, <1>8, <3>1
  <2>4. (\A d \in flights.done : d <= b.ticket) /\ b.ticket \notin flights.done
    <3>1. \A d \in flights.done : d \in Nat
          BY <1>2
    <3> QED BY <1>1, <2>1, <2>3, <3>1
  <2>5. b.task = "waypoints" => b.point = 1
        BY <2>1
  <2>6. b.task = "waypoints" => \A i \in 1..(b.point - 1) : <<b.ticket, i>> \in flights.reached
    <3>1. 1..(1 - 1) = {}
          OBVIOUS
    <3> QED BY <2>5, <3>1
  <2>7. o[b.ticket].name = b.task
        BY <2>1
  <2> QED BY <1>5, <1>8, <2>2, <2>4, <2>6, <2>7
<1> QED BY <1>4, <1>6, <1>7, <1>8 DEF late

LEMMA VehicleAnswersHonest ==
    ASSUME Sound, Honest, NEW t \in calls, VehicleAnswers(t)
    PROVE  Honest'
<1> DEFINE s == IF Accepts(t) THEN Announced(t) ELSE <<Final(t, FALSE)>>
<1>1. t \in 1..Len(gcs.orders)
      BY SoundParts
<1>2. /\ s \in Seq(Results(Len(gcs.orders))) /\ Lost(s)
  <2>1. CASE Accepts(t)
        BY <1>1, <2>1, AnnouncedType, AnnouncedLost
  <2>2. CASE ~Accepts(t)
        BY <1>1, <2>2, FinalType, FinalLost
  <2> QED BY <2>1, <2>2
<1>3. gcs' = [gcs EXCEPT !.results = @ \o s]
      BY DEF VehicleAnswers, Tell
<1> HIDE DEF s
<1>4. /\ limit' = limit /\ flights' = flights /\ accepted' = accepted
      /\ snap' = snap /\ media' = media
      BY DEF VehicleAnswers, linkVars, eventVars
<1>5. gcs'.orders = gcs.orders
      BY <1>3, SoundFacts DEF Well, Station
<1>6. \/ t > veh.last /\ veh' = TaskStarted(t)
      \/ veh' = [veh EXCEPT !.last = Max({@, t})]
      BY DEF VehicleAnswers, Accepts
<1>7. Pilot(gcs.orders)'
      BY <1>1, <1>4, <1>5, <1>6, AnswerPilot
<1> QED BY <1>2, <1>3, <1>4, <1>7, LostHonest

\* The vehicle has succeeded with the newest of all tickets.
LEMMA WonHonest ==
    ASSUME Sound, Ordered, Honest, Stays, accepted' = accepted, snap' = snap, media' = media,
           veh.task # "none",
           gcs' = [gcs EXCEPT !.results = @ \o <<Final(veh.ticket, TRUE)>>],
           Pilot(gcs.orders)', Chronicle(gcs.orders)'
    PROVE  Honest'
<1> DEFINE n == Len(gcs.orders)
           A == Results(n)
           r == Final(veh.ticket, TRUE)
           s == <<r>>
           q == gcs.results
           m == gcs.mission
           o == gcs.orders
           v == veh.ticket
<1>1. /\ v \in 1..n /\ n \in Nat /\ veh \in Vehicles(n) /\ gcs \in Station(n) /\ q \in Seq(A)
      /\ Coming(q, m) /\ Reported(q, o, flights.done) /\ Pilot(o)
      BY FlightFacts, SoundFacts DEF Well, Station, Honest, Sincere, World, Ordered, Orderly
<1>2. r \in A /\ s \in Seq(A) /\ r.ticket = v
      BY <1>1, FinalType DEF Final
<1>3. Win(r)
  <2>1. o[v].name = veh.task /\ veh.task \in {"takeoff", "waypoints", "land"}
        BY <1>1 DEF Pilot, Vehicles, Task
  <2> QED BY <2>1 DEF Win, Final, OrderOf
<1>4. \A d \in flights.done : d < v
  <2>1. flights.done \subseteq 1..n /\ v \notin flights.done /\ \A d \in flights.done : d <= v
        BY <1>1, SoundParts DEF Pilot, Flown
  <2> HIDE DEF n, v
  <2> QED BY <1>1, <2>1
<1> HIDE DEF r, v, n
<1>5. ASSUME NEW i \in 1..Len(q), Win(q[i]) PROVE q[i].ticket < v
  <2>1. q[i].ticket \in flights.done
        BY <1>1, <1>5 DEF Reported, Truthful, Win
  <2> QED BY <1>4, <2>1
<1>6. m.kind = "inspection" /\ m.flown => m.ticket < v
  <2>1. ASSUME m.kind = "inspection", m.flown PROVE m.ticket \in flights.done
        BY <2>1 DEF Honest, Sincere, Telling, Speaks, Newest, Claims
  <2> QED BY <1>4, <2>1
<1> HIDE DEF A, q, m, o
<1>7. Coming(q \o <<r>>, m)
      BY <1>1, <1>2, <1>3, <1>5, <1>6, WonComing
<1> DEFINE t == s
<1>8. t \in Seq(A) /\ gcs' = [gcs EXCEPT !.results = @ \o t] /\ Coming(q \o t, m)
      BY <1>2, <1>7 DEF r, v
<1> HIDE DEF t
<1> QED BY <1>8, ToldHonest DEF A, n, q, m

LEMMA LandsHonest ==
    ASSUME Sound, Ordered, Honest, Lands
    PROVE  Honest'
<1> DEFINE v == veh.ticket
           o == gcs.orders
           D == flights.done
           E == flights'.done
           G == flights'.landed
<1>1. /\ limit' = limit /\ accepted' = accepted /\ snap' = snap /\ media' = media
      /\ gcs' = [gcs EXCEPT !.results = @ \o <<Final(v, TRUE)>>]
      /\ veh' = Disarmed /\ veh.task = "land"
      BY DEF Lands, VehicleKeeps, linkVars, eventVars, Tell
<1>2. /\ E = D \cup {v} /\ G = {t \in D : o[t].name = "waypoints"}
      /\ flights'.reached = flights.reached
      BY SoundParts DEF Lands, Flown, OrderOf
<1>3. Chronicle(o) /\ Pilot(o)
      BY DEF Honest, World
<1>4. gcs'.orders = o
      BY <1>1, SoundFacts DEF Well, Station
<1>5. v \in Nat /\ veh \in Vehicles(Len(o))
      BY FlightFacts DEF Vehicles
<1>6. veh'.ticket = v /\ veh'.last = veh.last /\ veh'.task = "none"
      BY <1>1, <1>5 DEF Vehicles, Disarmed
<1>7. o[v].name = "land"
      BY <1>1, <1>3 DEF Pilot
<1>8. Stays
  <2>1. flights.landed \subseteq G
        BY <1>2, <1>3 DEF Chronicle
  <2> QED BY <1>1, <1>2, <2>1 DEF Stays
<1> HIDE DEF E, G, D, v, o
<1>9. Chronicle(gcs.orders)'
  <2>1. \A t \in G : t \in E /\ o[t].name = "waypoints"
        BY <1>2
  <2>2. \A w, r \in E : w < r /\ o[w].name = "waypoints" /\ o[r].name = "land" => w \in G
        BY <1>2, <1>7
  <2>3. \A w \in E : o[w].name = "waypoints" /\ o[w].command # NoCommand
                     => \A i \in 1..limit.points : <<w, i>> \in flights'.reached
        BY <1>2, <1>3, <1>7 DEF Chronicle, D
  <2>4. \A p \in flights'.reached : \A i \in 1..p[2] : <<p[1], i>> \in flights'.reached
        BY <1>2, <1>3 DEF Chronicle
  <2> QED BY <1>1, <1>4, <2>1, <2>2, <2>3, <2>4 DEF Chronicle, E, G, o
<1>10. Pilot(gcs.orders)'
  <2>1. \A t \in E : t <= v
        BY <1>2, <1>3, <1>5 DEF Pilot, D, v
  <2>2. v <= veh.last
        BY <1>3 DEF Pilot, v
  <2> QED BY <1>6, <2>1, <2>2 DEF Pilot, E
<1> QED BY <1>1, <1>8, <1>9, <1>10, WonHonest DEF v

LEMMA ReachesHonest ==
    ASSUME Sound, Ordered, Honest, Reaches
    PROVE  Honest'
<1> DEFINE v == veh.ticket
           k == veh.point
           o == gcs.orders
           D == flights.done
           E == flights'.done
           F == flights.reached
           H == flights'.reached
           last == veh.task = "takeoff" \/ k = Size
<1>1. /\ limit' = limit /\ accepted' = accepted /\ snap' = snap /\ media' = media
      /\ veh.task \in {"takeoff", "waypoints"}
      BY DEF Reaches, VehicleKeeps, linkVars, eventVars
<1>2. /\ E = IF last THEN D \cup {v} ELSE D
      /\ H = IF veh.task = "waypoints" THEN F \cup {<<v, k>>} ELSE F
      /\ flights'.landed = flights.landed
      BY SoundParts DEF Reaches, Flown
<1>3. Chronicle(o) /\ Pilot(o)
      BY DEF Honest, World
<1>4. /\ v \in Nat /\ veh \in Vehicles(Len(o)) /\ k \in Nat
      /\ veh.task = "waypoints" => k \in 1..Span(gcs, v)
      BY FlightFacts DEF Vehicles
<1>5. o[v].name = veh.task /\ v \notin D
      BY <1>1, <1>3 DEF Pilot
<1>6. \A d \in D : d <= v /\ d \in Nat
      BY <1>3, SoundParts DEF Pilot, Flown
<1>7. gcs'.orders = o
  <2>1. gcs \in Station(Len(o))
        BY SoundFacts DEF Well
  <2>2. \E s : gcs' = [gcs EXCEPT !.results = s]
        BY DEF Reaches, Tell
  <2> QED BY <2>1, <2>2 DEF Station
<1>8. veh.task = "waypoints" => \A i \in 1..k : <<v, i>> \in H
  <2> SUFFICES ASSUME veh.task = "waypoints", NEW i \in 1..k PROVE <<v, i>> \in H
      OBVIOUS
  <2>1. i = k \/ i \in 1..(k - 1)
        BY <1>4
  <2>2. i \in 1..(k - 1) => <<v, i>> \in F
        BY <1>3 DEF Pilot
  <2> QED BY <1>2, <2>1, <2>2
<1>9. Stays
      BY <1>1, <1>2 DEF Stays
<1>10. last /\ veh.task = "waypoints" /\ o[v].command # NoCommand => k = limit.points
       BY DEF Size, OrderOf
<1> HIDE DEF last
<1>11. Chronicle(gcs.orders)'
  <2>1. \A t \in flights'.landed : t \in E /\ o[t].name = "waypoints"
        BY <1>2, <1>3 DEF Chronicle
  <2>2. ASSUME NEW w \in E, NEW r \in E, w < r, o[w].name = "waypoints", o[r].name = "land"
        PROVE  w \in flights'.landed
    <3>1. r \in D
          BY <1>1, <1>2, <1>5, <2>2
    <3>2. w \in D
          BY <1>2, <1>4, <1>6, <2>2, <3>1
    <3> QED BY <1>2, <1>3, <2>2, <3>1, <3>2 DEF Chronicle
  <2>3. ASSUME NEW w \in E, o[w].name = "waypoints", o[w].command # NoCommand,
               NEW i \in 1..limit.points
        PROVE  <<w, i>> \in H
    <3>1. CASE w \in D
          BY <1>2, <1>3, <2>3, <3>1 DEF Chronicle
    <3>2. CASE w \notin D
      <4>1. w = v /\ last
            BY <1>2, <3>2
      <4>2. veh.task = "waypoints" /\ k = limit.points
            BY <1>5, <1>10, <2>3, <4>1
      <4> QED BY <1>8, <4>1, <4>2
    <3> QED BY <3>1, <3>2
  <2>4. ASSUME NEW p \in H, NEW i \in 1..p[2] PROVE <<p[1], i>> \in H
    <3>1. CASE p \in F
          BY <1>2, <1>3, <3>1 DEF Chronicle
    <3>2. CASE p \notin F
      <4>1. p = <<v, k>> /\ veh.task = "waypoints"
            BY <1>2, <3>2
      <4>2. p[1] = v /\ p[2] = k
            BY <4>1
      <4> QED BY <1>8, <4>1, <4>2
    <3> QED BY <3>1, <3>2
  <2> QED BY <1>1, <1>7, <2>1, <2>2, <2>3, <2>4 DEF Chronicle
<1>12. CASE last
  <2>1. /\ gcs' = [gcs EXCEPT !.results = @ \o <<Final(v, TRUE)>>]
        /\ veh' = [veh EXCEPT !.task = "none"]
        BY <1>12 DEF Reaches, Tell, last
  <2>2. veh'.ticket = v /\ veh'.last = veh.last /\ veh'.task = "none"
        BY <1>4, <2>1 DEF Vehicles
  <2>3. \A t \in E : t <= v
        BY <1>2, <1>4, <1>6
  <2>4. v <= veh.last
        BY <1>3 DEF Pilot
  <2>5. Pilot(gcs.orders)'
        BY <2>2, <2>3, <2>4 DEF Pilot
  <2> QED BY <1>1, <1>9, <1>11, <2>1, <2>5, WonHonest
<1>13. CASE ~last
  <2> DEFINE s == <<>>
             n == Len(o)
             q == gcs.results
             next == k + 1
  <2>1. /\ gcs' = [gcs EXCEPT !.results = @ \o s]
        /\ veh' = [veh EXCEPT !.point = next]
        BY <1>13 DEF Reaches, Tell, last
  <2>2. veh.task = "waypoints"
        BY <1>1, <1>13 DEF last
  <2> HIDE DEF next
  <2>3. veh'.ticket = v /\ veh'.last = veh.last /\ veh'.task = veh.task /\ veh'.point = next
        BY <1>4, <2>1 DEF Vehicles
  <2>4. \A i \in 1..(next - 1) : <<v, i>> \in H
        BY <1>4, <1>8, <2>2 DEF next
  <2>5. E = D
        BY <1>2, <1>13
  <2>6. Pilot(gcs.orders)'
        BY <1>3, <1>7, <2>3, <2>4, <2>5 DEF Pilot
  <2>7. q \in Seq(Results(n)) /\ Coming(q, gcs.mission)
        BY SoundFacts DEF Well, Station, Honest, Sincere
  <2> HIDE DEF n
  <2>8. s \in Seq(Results(n)) /\ q \o s = q
        BY <2>7, EmptySeq, ConcatEmptySeq
  <2>9. Coming(q \o s, gcs.mission)
        BY <2>7, <2>8
  <2> HIDE DEF s
  <2> QED BY <1>1, <1>9, <1>11, <2>1, <2>6, <2>8, <2>9, ToldHonest DEF n
<1> QED BY <1>12, <1>13

(***************************************************************************)
(* The invariant.                                                          *)
(***************************************************************************)
LEMMA InitHonest ==
    ASSUME Init
    PROVE  Honest
<1>1. /\ gcs.seq = NoSequence /\ gcs.orders = <<>> /\ gcs.results = <<>> /\ gcs.parked = {}
      /\ gcs.mission = NoMission /\ gcs.waiting = <<>> /\ gcs.photos = <<>> /\ gcs.out = <<>>
      /\ accepted = <<>> /\ media = [t \in Ticket |-> NoMedia]
      /\ flights = [done |-> {}, reached |-> {}, landed |-> {}]
      /\ veh.task = "none" /\ veh.ticket = 0 /\ veh.last = 0 /\ snap.mode = "idle"
      /\ gcs.frames = <<>>
      BY DEF Init, LinkInit, NoTicket
<1>2. Len(<<>>) = 0
      BY EmptySeq
<1>3. accepted \o gcs.out = <<>>
  <2>1. <<>> \in Seq(Nat)
        BY EmptySeq
  <2>2. <<>> \o <<>> = <<>>
        BY <2>1, ConcatEmptySeq
  <2> QED BY <1>1, <2>2
<1>4. Tale(<<>>)
      BY <1>2 DEF Tale
<1>5. Landings(<<>>, <<>>, <<>>)
      BY <1>2 DEF Landings, Rising
<1>6. NoMission.kind = "none"
      BY DEF NoMission
<1>7. Newest(NoMission, <<>>, <<>>, <<>>, <<>>)
      BY <1>6 DEF Newest
<1>8. Kinded(NoSequence)
      BY DEF Kinded, NoSequence
<1>9. Telling(gcs, accepted)
      BY <1>1, <1>3, <1>4, <1>5, <1>7, <1>8 DEF Telling, Speaks
<1>10. Coming(<<>>, NoMission)
       BY <1>2, <1>6 DEF Coming
<1>11. Sincere(gcs, accepted)
       BY <1>1, <1>9, <1>10 DEF Sincere
<1>12. Chronicle(gcs.orders)
       BY <1>1 DEF Chronicle
<1>13. Pilot(gcs.orders)
       BY <1>1 DEF Pilot
<1>14. Watched
       BY <1>1, <1>2 DEF Watched, Observable, Glanced
<1>15. Filed
       BY <1>1 DEF Filed, NoMedia
<1> QED BY <1>11, <1>12, <1>13, <1>14, <1>15 DEF Honest, World

LEMMA NextHonest ==
    ASSUME Sound, Ordered, Honest, [Next]_vars
    PROVE  Honest'
<1>1. CASE LinkStep
  <2>1. gcs' = gcs /\ flights' = flights /\ veh' = veh /\ snap' = snap /\ media' = media
        BY <1>1 DEF LinkStep, missionVars
  <2>2. limit' = limit /\ accepted' = accepted
        BY <1>1 DEF LinkStep, OperatorStep, SupervisorStep, WriterStep, Connect, Disconnect,
                    StartSession, Woken, RunCall, SessionFails, WriterLooks, WriterTakes, WriterSent,
                    eventVars
  <2> QED BY <2>1, <2>2, SameHonest
<1>2. CASE Connected
      BY <1>2, ConnectedHonest
<1>3. CASE ReceiveCommand
      BY <1>3, SameHonest DEF ReceiveCommand, eventVars
<1>4. CASE WindowStep
      BY <1>4, RefreshHonest, HandleCommandHonest, DialogEndsHonest, StandbyDelayOverHonest
      DEF WindowStep
<1>5. CASE RosStep
      BY <1>5, StatusArrivesHonest, SendRequestHonest, RequestTimesOutHonest DEF RosStep
<1>6. CASE VehicleStep \/ FaultStep
      BY <1>6, SilentHonest, VehicleAnswersHonest, ReachesHonest, LandsHonest, TaskFailsHonest,
         OperatorLandHonest DEF VehicleStep, FaultStep
<1>7. CASE MediaStep
      BY <1>7, CaptureHonest, MediaSettlesHonest, CatalogueReadHonest DEF MediaStep
<1>8. CASE UNCHANGED vars
      BY <1>8, SameHonest DEF vars, linkVars, missionVars, eventVars
<1> QED BY <1>1, <1>2, <1>3, <1>4, <1>5, <1>6, <1>7, <1>8 DEF Next

LEMMA HonestAlways == Spec => [](Sound /\ Ordered /\ Honest)
<1>1. Init => Sound /\ Ordered /\ Honest
      BY InitSound, InitOrdered, InitHonest
<1>2. (Sound /\ Ordered /\ Honest) /\ [Next]_vars => (Sound /\ Ordered /\ Honest)'
      BY NextSound, NextOrdered, NextHonest
<1> QED BY <1>1, <1>2, PTL DEF Spec

\* What an honest story says.
LEMMA HonestSays ==
    ASSUME Sound, Honest
    PROVE  CompletionTruthful /\ PointsInOrder
<1> DEFINE s == accepted
           n == Len(gcs.orders)
<1>1. s \in Seq(Events(n))
      BY DEF Sound, Wired, Books
<1> HIDE DEF n
<1>2. DOMAIN s = 1..Len(s) /\ s \o <<>> = s
      BY <1>1, LenProperties, ConcatEmptySeq
<1>3. Tale(s)
  <2>1. Tale(s \o gcs.out) /\ gcs.out = <<>>
        BY SoundParts DEF Honest, Sincere, Telling, Speaks
  <2> QED BY <1>2, <2>1
<1>4. CompletionTruthful
  <2> SUFFICES ASSUME NEW i \in DOMAIN s, s[i].status = "08"
               PROVE  /\ s[i].mission \in flights.landed
                      /\ \A j \in 1..(i - 1) : s[j].status = "08" => s[j].mission < s[i].mission
      BY DEF CompletionTruthful
  <2>1. Is(s[i]) /\ \A j \in 1..(i - 1) : Before(s[j], s[i])
        BY <1>2, <1>3 DEF Tale
  <2> QED BY <2>1 DEF Is, True08, Before
<1>5. PointsInOrder
  <2> SUFFICES ASSUME NEW i \in DOMAIN s, s[i].status = "09"
               PROVE  /\ <<s[i].mission, s[i].point>> \in flights.reached
                      /\ s[i].point \notin limit.plain
                      /\ Simulated \/ media[s[i].mission].photo[s[i].point] = "ready"
                      /\ \A j \in 1..(i - 1) :
                             s[j].status = "09" /\ s[j].mission = s[i].mission
                             => s[j].point < s[i].point
      BY DEF PointsInOrder
  <2>1. Is(s[i]) /\ \A j \in 1..(i - 1) : Before(s[j], s[i])
        BY <1>2, <1>3 DEF Tale
  <2> QED BY <2>1 DEF Is, True09, Before
<1> QED BY <1>4, <1>5

(***************************************************************************)
(* Theorems.                                                               *)
(***************************************************************************)
\* For every script, number of waypoints, catalogue and choice of mishaps, 08 is accepted
\* only for a mission whose last waypoint the vehicle reached and that landed under LAND, at
\* most once, and in the order the missions were flown: neither the queue of landed missions
\* (_completed_inspections) nor the late results and videos of older ones change that.
THEOREM DeliveriesTruthful == Spec => []CompletionTruthful
<1>1. Sound /\ Ordered /\ Honest => CompletionTruthful
      BY HonestSays
<1> QED BY <1>1, HonestAlways, PTL

\* For every script, number of waypoints, catalogue and choice of mishaps, the photos of a
\* mission (09) are accepted once each and in the order of its points, only of points that
\* were reached, and on a real flight only when their file was there - for the mission that
\* flies and for those that wait for photos or for their delivery alike.
THEOREM PointsFollow == Spec => []PointsInOrder
<1>1. Sound /\ Ordered /\ Honest => PointsInOrder
      BY HonestSays
<1> QED BY <1>1, HonestAlways, PTL
=============================================================================
