----------------------- MODULE UpstreamMissionProofs -----------------------
EXTENDS UpstreamMission, SequenceTheorems, NaturalsInduction, WellFoundedInduction, TLAPS

(***************************************************************************)
(* Natural numbers and extrema.                                            *)
(***************************************************************************)
LEMMA Least ==
    ASSUME NEW T \in SUBSET Nat, T # {}
    PROVE  \E x \in T : \A y \in T : x <= y
<1> DEFINE R == {ss \in Nat \X Nat : ss[1] < ss[2]}
<1>1. IsWellFoundedOn(R, Nat)
      BY NatLessThanWellFounded DEF OpToRel
<1>2. \A x, y \in Nat : x < y => <<x, y>> \in R
      OBVIOUS
<1> HIDE DEF R
<1>3. PICK x \in T : \A y \in T : ~ (<<y, x>> \in R)
      BY <1>1, WFMin
<1>4. \A y \in T : ~(y < x)
      BY <1>2, <1>3
<1>5. \A y \in T : x <= y
      BY <1>4
<1> QED BY <1>5

\* Induction over a set.
LEMMA Induction ==
    ASSUME NEW S, 0 \in S, \A n \in Nat : n \in S => n + 1 \in S
    PROVE  \A n \in Nat : n \in S
<1> DEFINE T == Nat \ S
<1> SUFFICES ASSUME T # {} PROVE FALSE
    OBVIOUS
<1>1. PICK x \in T : \A y \in T : x <= y
      BY Least
<1>2. x # 0 /\ x - 1 \in Nat /\ x - 1 \notin T
      BY <1>1
<1> QED BY <1>1, <1>2

LEMMA MaxOf ==
    ASSUME NEW T \in SUBSET Int, T # {}, NEW b \in Int, \A x \in T : x <= b
    PROVE  Max(T) \in T /\ \A y \in T : y <= Max(T)
<1> DEFINE U == {b - x : x \in T}
<1>1. \A x \in T : b - x \in Nat
      OBVIOUS
<1>a. U \in SUBSET Nat /\ U # {}
      BY <1>1
<1>2. PICK u \in U : \A v \in U : u <= v
      BY <1>a, Least
<1>3. PICK x \in T : u = b - x
      OBVIOUS
<1>4. \A y \in T : x >= y
  <2> TAKE y \in T
  <2>1. b - y \in U
        OBVIOUS
  <2>2. b - x <= b - y
        BY <1>2, <1>3, <2>1
  <2> QED BY <2>2
<1>5. \E m \in T : \A y \in T : m >= y
      BY <1>4
<1>6. Max(T) \in T /\ \A y \in T : Max(T) >= y
      BY <1>5 DEF Max
<1> QED BY <1>6

LEMMA MinOf ==
    ASSUME NEW T \in SUBSET Nat, T # {}
    PROVE  Min(T) \in T /\ \A y \in T : Min(T) <= y
<1>1. \E m \in T : \A y \in T : m =< y
      BY Least
<1> QED BY <1>1 DEF Min

LEMMA MaxOfTwo ==
    ASSUME NEW a \in Int, NEW b \in Int
    PROVE  Max({a, b}) = IF a >= b THEN a ELSE b
<1>1. \E x \in {a, b} : x >= a /\ x >= b
      OBVIOUS
<1>2. Max({a, b}) \in {a, b} /\ Max({a, b}) >= a /\ Max({a, b}) >= b
      BY <1>1 DEF Max
<1> QED BY <1>2

LEMMA MinOfTwo ==
    ASSUME NEW a \in Int, NEW b \in Int
    PROVE  Min({a, b}) = IF a <= b THEN a ELSE b
<1>1. \E x \in {a, b} : x =< a /\ x =< b
      OBVIOUS
<1>2. Min({a, b}) \in {a, b} /\ Min({a, b}) <= a /\ Min({a, b}) <= b
      BY <1>1 DEF Min
<1> QED BY <1>2

(***************************************************************************)
(* Within and Sent.                                                        *)
(***************************************************************************)
LEMMA WithinRecursion ==
    ASSUME NEW s, Len(s) \in Nat, NEW T
    PROVE  \E f : /\ f = [n \in 0..Len(s) |->
                             IF n = 0 THEN <<>>
                             ELSE IF s[n] \in T THEN Append(f[n - 1], s[n]) ELSE f[n - 1]]
                  /\ Within(s, T) = f[Len(s)]
<1> DEFINE Kept(f, m) == f = [n \in 0..m |->
                                 IF n = 0 THEN <<>>
                                 ELSE IF s[n] \in T THEN Append(f[n - 1], s[n]) ELSE f[n - 1]]
           S == {m \in Nat : \E f : Kept(f, m)}
<1>1. 0 \in S
  <2> DEFINE f == [n \in 0..0 |-> <<>>]
  <2>1. Kept(f, 0)
        OBVIOUS
  <2> QED BY <2>1
<1>2. \A m \in Nat : m \in S => m + 1 \in S
  <2> SUFFICES ASSUME NEW m \in Nat, m \in S PROVE m + 1 \in S
      OBVIOUS
  <2>1. PICK f : Kept(f, m)
        OBVIOUS
  <2>a. \A n \in 0..m : f[n] = IF n = 0 THEN <<>>
                   ELSE IF s[n] \in T THEN Append(f[n - 1], s[n]) ELSE f[n - 1]
        BY <2>1, Zenon
  <2> DEFINE next == IF s[m + 1] \in T THEN Append(f[m], s[m + 1]) ELSE f[m]
             g == [n \in 0..(m + 1) |-> IF n <= m THEN f[n] ELSE next]
  <2>2. \A n \in 0..(m + 1) : g[n] = IF n = 0 THEN <<>>
                                 ELSE IF s[n] \in T THEN Append(g[n - 1], s[n]) ELSE g[n - 1]
    <3> TAKE n \in 0..(m + 1)
    <3>1. CASE n <= m
      <4>1. f[n] = IF n = 0 THEN <<>>
                   ELSE IF s[n] \in T THEN Append(f[n - 1], s[n]) ELSE f[n - 1]
            BY <2>a, <3>1
      <4>2. g[n] = f[n] /\ (n # 0 => g[n - 1] = f[n - 1])
            BY <3>1
      <4> QED BY <4>1, <4>2
    <3>2. CASE n = m + 1
          BY <3>2
    <3> QED BY <3>1, <3>2
  <2>3. Kept(g, m + 1)
        BY <2>2
  <2>4. m + 1 \in Nat
        OBVIOUS
  <2> HIDE DEF Kept, g
  <2> QED BY <2>3, <2>4
<1> HIDE DEF S
<1>3. Len(s) \in S
      BY <1>1, <1>2, Induction
<1>4. \E f : Kept(f, Len(s))
      BY <1>3 DEF S
<1>5. Within(s, T) = (CHOOSE f : Kept(f, Len(s)))[Len(s)]
      BY DEF Within
<1> QED BY <1>4, <1>5

\* Induction over the length of a sequence.
LEMMA SeqInduction ==
    ASSUME NEW A, NEW P, <<>> \in P,
           \A s \in Seq(A), e \in A : s \in P => Append(s, e) \in P
    PROVE  \A s \in Seq(A) : s \in P
<1> DEFINE S == {n \in Nat : \A s \in Seq(A) : Len(s) = n => s \in P}
<1>1. 0 \in S
  <2>1. \A s \in Seq(A) : Len(s) = 0 => s = <<>>
        BY EmptySeq
  <2> QED BY <2>1
<1>2. \A n \in Nat : n \in S => n + 1 \in S
  <2> SUFFICES ASSUME NEW n \in Nat, n \in S, NEW s \in Seq(A), Len(s) = n + 1
               PROVE  s \in P
      OBVIOUS
  <2>1. s # <<>>
        BY EmptySeq
  <2>2. PICK t \in Seq(A), e \in A : s = Append(t, e)
        BY <2>1, SequenceEmptyOrAppend
  <2>3. Len(t) = n
        BY <2>2, AppendProperties, LenProperties
  <2> QED BY <2>2, <2>3
<1> HIDE DEF S
<1>3. \A n \in Nat : n \in S
      BY <1>1, <1>2, Induction
<1> QED BY <1>3, LenProperties DEF S

LEMMA WithinSteps ==
    ASSUME NEW A, NEW s \in Seq(A), NEW T
    PROVE  \E f : /\ f[0] = <<>>
                  /\ \A n \in 1..Len(s) : f[n] = IF s[n] \in T THEN Append(f[n - 1], s[n])
                                                               ELSE f[n - 1]
                  /\ Within(s, T) = f[Len(s)]
<1>1. Len(s) \in Nat
      BY LenProperties
<1>2. PICK f : /\ f = [n \in 0..Len(s) |->
                             IF n = 0 THEN <<>>
                             ELSE IF s[n] \in T THEN Append(f[n - 1], s[n]) ELSE f[n - 1]]
               /\ Within(s, T) = f[Len(s)]
      BY <1>1, WithinRecursion
<1>3. \A n \in 0..Len(s) : f[n] = IF n = 0 THEN <<>>
                                  ELSE IF s[n] \in T THEN Append(f[n - 1], s[n]) ELSE f[n - 1]
      BY <1>2, Zenon
<1>4. f[0] = <<>>
      BY <1>1, <1>3
<1>5. \A n \in 1..Len(s) : f[n] = IF s[n] \in T THEN Append(f[n - 1], s[n]) ELSE f[n - 1]
      BY <1>1, <1>3
<1> QED BY <1>2, <1>4, <1>5

LEMMA WithinEmpty ==
    ASSUME NEW T
    PROVE  Within(<<>>, T) = <<>>
<1> DEFINE none == <<>>
           Z == {}
<1>1. none \in Seq(Z)
      BY EmptySeq
<1>2. Len(none) = 0
      BY EmptySeq
<1> HIDE DEF none, Z
<1>3. PICK f : /\ f[0] = <<>>
               /\ \A n \in 1..Len(none) : f[n] = IF none[n] \in T THEN Append(f[n - 1], none[n])
                                                               ELSE f[n - 1]
               /\ Within(none, T) = f[Len(none)]
      BY <1>1, WithinSteps
<1>4. Within(none, T) = <<>>
      BY <1>2, <1>3
<1> QED BY <1>4 DEF none

LEMMA WithinAppend ==
    ASSUME NEW A, NEW s \in Seq(A), NEW e \in A, NEW T
    PROVE  Within(Append(s, e), T) =
               IF e \in T THEN Append(Within(s, T), e) ELSE Within(s, T)
<1> DEFINE t == Append(s, e)
<1>1. /\ t \in Seq(A) /\ Len(t) = Len(s) + 1 /\ Len(s) \in Nat
      /\ \A i \in 1..Len(s) : t[i] = s[i]
      /\ t[Len(s) + 1] = e
      BY AppendProperties, LenProperties
<1> HIDE DEF t
<1>2. PICK f : /\ f[0] = <<>>
               /\ \A n \in 1..Len(s) : f[n] = IF s[n] \in T THEN Append(f[n - 1], s[n])
                                                            ELSE f[n - 1]
               /\ Within(s, T) = f[Len(s)]
      BY WithinSteps
<1>3. PICK g : /\ g[0] = <<>>
               /\ \A n \in 1..Len(t) : g[n] = IF t[n] \in T THEN Append(g[n - 1], t[n])
                                                            ELSE g[n - 1]
               /\ Within(t, T) = g[Len(t)]
      BY <1>1, WithinSteps
<1> DEFINE S == {n \in Nat : n <= Len(s) => f[n] = g[n]}
<1>4. 0 \in S
      BY <1>2, <1>3
<1>5. \A n \in Nat : n \in S => n + 1 \in S
  <2> SUFFICES ASSUME NEW n \in Nat, n \in S, n + 1 <= Len(s) PROVE f[n + 1] = g[n + 1]
      OBVIOUS
  <2>1. f[n] = g[n] /\ n + 1 \in 1..Len(s) /\ n + 1 \in 1..Len(t) /\ t[n + 1] = s[n + 1]
        BY <1>1
  <2>2. f[n + 1] = IF s[n + 1] \in T THEN Append(f[n], s[n + 1]) ELSE f[n]
        BY <1>2, <2>1
  <2>3. g[n + 1] = IF t[n + 1] \in T THEN Append(g[n], t[n + 1]) ELSE g[n]
        BY <1>3, <2>1
  <2> QED BY <2>1, <2>2, <2>3
<1> HIDE DEF S
<1>6. Len(s) \in S
      BY <1>1, <1>4, <1>5, Induction
<1>7. f[Len(s)] = g[Len(s)]
      BY <1>6 DEF S
<1>8. g[Len(s) + 1] = IF t[Len(s) + 1] \in T THEN Append(g[Len(s)], t[Len(s) + 1])
                                             ELSE g[Len(s)]
      BY <1>1, <1>3
<1>9. Within(t, T) = IF e \in T THEN Append(Within(s, T), e) ELSE Within(s, T)
      BY <1>1, <1>2, <1>3, <1>7, <1>8
<1> QED BY <1>9 DEF t

\* A selection has elements of the sequence and of the set, and no other.
LEMMA WithinType ==
    ASSUME NEW A, NEW T
    PROVE  \A s \in Seq(A) : /\ Within(s, T) \in Seq(A \cap T)
                             /\ Len(Within(s, T)) <= Len(s)
<1> DEFINE P == {s \in Seq(A) : /\ Within(s, T) \in Seq(A \cap T)
                                /\ Len(Within(s, T)) <= Len(s)}
<1>0. /\ Within(<<>>, T) = <<>> /\ <<>> \in Seq(A) /\ <<>> \in Seq(A \cap T)
      /\ Len(<<>>) <= Len(<<>>)
      BY WithinEmpty, EmptySeq
<1>1. <<>> \in P
      BY <1>0
<1>2. \A s \in Seq(A), e \in A : s \in P => Append(s, e) \in P
  <2> SUFFICES ASSUME NEW s \in Seq(A), NEW e \in A, s \in P PROVE Append(s, e) \in P
      OBVIOUS
  <2>1. Within(Append(s, e), T) = IF e \in T THEN Append(Within(s, T), e) ELSE Within(s, T)
        BY WithinAppend
  <2>2. Append(s, e) \in Seq(A) /\ Len(Append(s, e)) = Len(s) + 1 /\ Len(s) \in Nat
        BY AppendProperties, LenProperties
  <2>3. CASE e \in T
    <3>1. /\ Append(Within(s, T), e) \in Seq(A \cap T)
          /\ Len(Append(Within(s, T), e)) = Len(Within(s, T)) + 1
          /\ Len(Within(s, T)) \in Nat
          BY <2>3, AppendProperties, LenProperties
    <3> QED BY <2>1, <2>2, <2>3, <3>1
  <2>4. CASE e \notin T
        BY <2>1, <2>2, <2>4, LenProperties
  <2> QED BY <2>3, <2>4
<1> HIDE DEF P
<1>3. \A s \in Seq(A) : s \in P
      BY <1>1, <1>2, SeqInduction
<1> QED BY <1>3 DEF P

LEMMA WithinSeq ==
    ASSUME NEW A, NEW T, NEW s \in Seq(A)
    PROVE  Within(s, T) \in Seq(A)
<1>1. Within(s, T) \in Seq(A \cap T) /\ A \cap T \subseteq A
      BY WithinType
<1> QED BY <1>1, SeqMonotonic

\* The selection depends on which elements of the sequence are in the set.
LEMMA WithinSame ==
    ASSUME NEW A, NEW T, NEW U, \A e \in A : e \in T <=> e \in U
    PROVE  \A s \in Seq(A) : Within(s, T) = Within(s, U)
<1> DEFINE P == {s \in Seq(A) : Within(s, T) = Within(s, U)}
<1>0. Within(<<>>, T) = <<>> /\ Within(<<>>, U) = <<>> /\ <<>> \in Seq(A)
      BY WithinEmpty, EmptySeq
<1>1. <<>> \in P
      BY <1>0
<1>2. \A s \in Seq(A), e \in A : s \in P => Append(s, e) \in P
      BY WithinAppend, AppendProperties
<1> HIDE DEF P
<1>3. \A s \in Seq(A) : s \in P
      BY <1>1, <1>2, SeqInduction
<1> QED BY <1>3 DEF P

LEMMA WithinConcat ==
    ASSUME NEW A, NEW T, NEW s \in Seq(A)
    PROVE  \A t \in Seq(A) : Within(s \o t, T) = Within(s, T) \o Within(t, T)
<1> DEFINE P == {t \in Seq(A) : Within(s \o t, T) = Within(s, T) \o Within(t, T)}
<1>0. Within(s, T) \in Seq(A)
      BY WithinSeq
<1>1. <<>> \in P
      BY <1>0, WithinEmpty, EmptySeq, ConcatEmptySeq
<1>2. \A t \in Seq(A), e \in A : t \in P => Append(t, e) \in P
  <2> SUFFICES ASSUME NEW t \in Seq(A), NEW e \in A, t \in P PROVE Append(t, e) \in P
      OBVIOUS
  <2>1. s \o t \in Seq(A) /\ Append(t, e) \in Seq(A) /\ <<e>> \in Seq(A)
        BY ConcatProperties, AppendProperties
  <2>2. s \o Append(t, e) = Append(s \o t, e)
        BY <2>1, AppendIsConcat, ConcatAssociative
  <2>3. Within(t, T) \in Seq(A)
        BY WithinSeq
  <2>4. Within(s, T) \o Append(Within(t, T), e) = Append(Within(s, T) \o Within(t, T), e)
    <3>1. Within(s, T) \o Within(t, T) \in Seq(A)
          BY <1>0, <2>3, ConcatProperties
    <3>2. Append(Within(t, T), e) = Within(t, T) \o <<e>>
          BY <2>3, AppendIsConcat
    <3>3. Append(Within(s, T) \o Within(t, T), e) = (Within(s, T) \o Within(t, T)) \o <<e>>
          BY <3>1, AppendIsConcat
    <3> QED BY <1>0, <2>1, <2>3, <3>2, <3>3, ConcatAssociative
  <2>5. Within(Append(s \o t, e), T) =
            IF e \in T THEN Append(Within(s \o t, T), e) ELSE Within(s \o t, T)
    <3> DEFINE u == s \o t
    <3>1. u \in Seq(A)
          BY <2>1
    <3> HIDE DEF u
    <3>2. Within(Append(u, e), T) = IF e \in T THEN Append(Within(u, T), e) ELSE Within(u, T)
          BY <3>1, WithinAppend
    <3> QED BY <3>2 DEF u
  <2>6. Within(Append(t, e), T) = IF e \in T THEN Append(Within(t, T), e) ELSE Within(t, T)
        BY WithinAppend
  <2> QED BY <2>1, <2>2, <2>4, <2>5, <2>6
<1> HIDE DEF P
<1>3. \A t \in Seq(A) : t \in P
      BY <1>1, <1>2, SeqInduction
<1> QED BY <1>3 DEF P

LEMMA WithinNone ==
    ASSUME NEW A, NEW T, A \cap T = {}, NEW s \in Seq(A)
    PROVE  Within(s, T) = <<>>
<1>1. Within(s, T) \in Seq({})
      BY WithinType
<1>2. Len(Within(s, T)) = 0
  <2> SUFFICES ASSUME Len(Within(s, T)) # 0 PROVE FALSE
      OBVIOUS
  <2>1. 1 \in 1..Len(Within(s, T))
        BY <1>1, LenProperties
  <2> QED BY <1>1, <2>1, ElementOfSeq
<1> QED BY <1>1, <1>2, EmptySeq

LEMMA WithinOne ==
    ASSUME NEW A, NEW e \in A, NEW T
    PROVE  Within(<<e>>, T) = IF e \in T THEN <<e>> ELSE <<>>
<1> DEFINE none == <<>>
<1>1. none \in Seq(A) /\ Within(none, T) = none
      BY EmptySeq, WithinEmpty
<1>2. Append(none, e) = <<e>>
      OBVIOUS
<1> HIDE DEF none
<1>3. Within(Append(none, e), T) = IF e \in T THEN Append(none, e) ELSE none
      BY <1>1, WithinAppend
<1> QED BY <1>2, <1>3 DEF none

LEMMA SentOver ==
    ASSUME NEW A, NEW s \in Seq(A), NEW a
    PROVE  Sent(a, s) = Within(s, {e \in A : e.to = a})
<1> DEFINE R == Range(s)
           T == {e \in R : e.to = a}
           U == {e \in A : e.to = a}
<1>1. R \subseteq A /\ s \in Seq(R)
      BY RangeOfSeq, SeqOfRange
<1>2. \A e \in R : e \in T <=> e \in U
      BY <1>1
<1>3. Sent(a, s) = Within(s, T)
      BY DEF Sent
<1> HIDE DEF R, T, U
<1>4. Within(s, T) = Within(s, U)
      BY <1>1, <1>2, WithinSame
<1> QED BY <1>3, <1>4 DEF U

LEMMA SentSeq ==
    ASSUME NEW A, NEW s \in Seq(A), NEW a
    PROVE  Sent(a, s) \in Seq(A)
<1> DEFINE T == {e \in A : e.to = a}
<1>1. Sent(a, s) = Within(s, T)
      BY SentOver
<1> HIDE DEF T
<1>2. Within(s, T) \in Seq(A)
      BY WithinSeq
<1> QED BY <1>1, <1>2

LEMMA SentConcat ==
    ASSUME NEW A, NEW s \in Seq(A), NEW t \in Seq(A), NEW a
    PROVE  Sent(a, s \o t) = Sent(a, s) \o Sent(a, t)
<1> DEFINE T == {e \in A : e.to = a}
           u == s \o t
<1>1. u \in Seq(A)
      BY ConcatProperties
<1> HIDE DEF u
<1>2. Sent(a, u) = Within(u, T) /\ Sent(a, s) = Within(s, T) /\ Sent(a, t) = Within(t, T)
      BY <1>1, SentOver
<1> HIDE DEF T
<1>3. Within(s \o t, T) = Within(s, T) \o Within(t, T)
      BY WithinConcat
<1> QED BY <1>2, <1>3 DEF u

\* A sequence at one of its places.
LEMMA SplitAt ==
    ASSUME NEW A, NEW q \in Seq(A), NEW k \in 1..Len(q)
    PROVE  /\ SubSeq(q, 1, k - 1) \in Seq(A) /\ SubSeq(q, k + 1, Len(q)) \in Seq(A)
           /\ SubSeq(q, k, Len(q)) \in Seq(A)
           /\ q = SubSeq(q, 1, k - 1) \o SubSeq(q, k, Len(q))
           /\ SubSeq(q, k, Len(q)) = <<q[k]>> \o SubSeq(q, k + 1, Len(q))
           /\ SubSeq(q, k, Len(q)) # <<>>
<1>1. Len(q) \in Nat /\ k \in Int /\ \A i \in 1..Len(q) : q[i] \in A
      BY LenProperties, ElementOfSeq
<1>2. SubSeq(q, 1, k - 1) \in Seq(A) /\ SubSeq(q, k + 1, Len(q)) \in Seq(A)
      BY <1>1, SubSeqProperties
<1>3. SubSeq(q, k, Len(q)) \in Seq(A) /\ Len(SubSeq(q, k, Len(q))) = Len(q) - k + 1
      BY <1>1, SubSeqProperties
<1>4. SubSeq(q, k, Len(q)) # <<>>
  <2>1. Len(SubSeq(q, k, Len(q))) # 0
        BY <1>1, <1>3
  <2>2. Len(<<>>) = 0
        BY EmptySeq
  <2> QED BY <2>1, <2>2
<1>5. SubSeq(q, 1, k - 1) \o SubSeq(q, (k - 1) + 1, Len(q)) = SubSeq(q, 1, Len(q))
  <2>1. 1 \in 1..Len(q) + 1 /\ k - 1 \in (1 - 1)..Len(q) /\ Len(q) \in (k - 1)..Len(q)
        BY <1>1
  <2> QED BY <2>1, ConcatAdjacentSubSeq
<1>6. (k - 1) + 1 = k
      BY <1>1
<1>7. SubSeq(q, k, Len(q)) = <<q[k]>> \o SubSeq(q, k + 1, Len(q))
  <2>1. Len(q) \in k..Len(q)
        BY <1>1
  <2> QED BY <2>1, SubSeqRecursiveFirst
<1>8. SubSeq(q, 1, Len(q)) = q
      BY SubSeqFull
<1> QED BY <1>2, <1>3, <1>4, <1>5, <1>6, <1>7, <1>8

\* Where the first element of a selection is.
LEMMA FirstWithin ==
    ASSUME NEW A, NEW q \in Seq(A), NEW T, Within(q, T) # <<>>
    PROVE  \E k \in 1..Len(q) : /\ q[k] \in T
                                /\ \A i \in 1..(k - 1) : q[i] \notin T
                                /\ Head(Within(q, T)) = q[k]
                                /\ Tail(Within(q, T)) = Within(SubSeq(q, k + 1, Len(q)), T)
<1> DEFINE I == {i \in 1..Len(q) : q[i] \in T}
<1>0. Len(q) \in Nat /\ \A i \in 1..Len(q) : q[i] \in A
      BY LenProperties, ElementOfSeq
<1>1. I # {}
  <2> SUFFICES ASSUME I = {} PROVE FALSE
      OBVIOUS
  <2> DEFINE B == A \ T
  <2>1. \A i \in 1..Len(q) : q[i] \in B
        BY <1>0
  <2>2. B \cap T = {}
        OBVIOUS
  <2> HIDE DEF B
  <2>3. SubSeq(q, 1, Len(q)) \in Seq(B)
        BY <1>0, <2>1, SubSeqProperties
  <2>4. q \in Seq(B)
        BY <2>3, SubSeqFull
  <2> QED BY <2>2, <2>4, WithinNone
<1>a. I \in SUBSET Nat
      OBVIOUS
<1> HIDE DEF I
<1>2. PICK k \in I : \A i \in I : k <= i
      BY <1>1, <1>a, Least
<1> USE DEF I
<1> DEFINE pre == SubSeq(q, 1, k - 1)
           post == SubSeq(q, k + 1, Len(q))
           rest == SubSeq(q, k, Len(q))
           B == A \ T
<1>3. k \in 1..Len(q) /\ q[k] \in T /\ q[k] \in A /\ k \in Int
      BY <1>0
<1>4. \A i \in 1..(k - 1) : q[i] \notin T /\ q[i] \in B
  <2> TAKE i \in 1..(k - 1)
  <2>1. i \in 1..Len(q) /\ ~(k <= i)
        BY <1>0, <1>3
  <2> QED BY <1>0, <1>2, <2>1
<1>5. /\ pre \in Seq(A) /\ post \in Seq(A) /\ rest \in Seq(A)
      /\ q = pre \o rest /\ rest = <<q[k]>> \o post
      BY <1>3, SplitAt
<1>6. pre \in Seq(B) /\ B \cap T = {}
  <2> HIDE DEF B
  <2>1. pre \in Seq(B)
        BY <1>3, <1>4, SubSeqProperties
  <2> QED BY <2>1 DEF B
<1> HIDE DEF pre, post, rest, B, I
<1>7. Within(pre, T) = <<>>
      BY <1>6, WithinNone
<1>8. <<q[k]>> \in Seq(A)
      BY <1>3
<1>9. Within(q, T) = Within(pre, T) \o Within(rest, T)
      BY <1>5, WithinConcat
<1>10. Within(rest, T) = Within(<<q[k]>>, T) \o Within(post, T)
      BY <1>5, <1>8, WithinConcat
<1>11. Within(<<q[k]>>, T) = <<q[k]>>
      BY <1>3, WithinOne
<1>12. Within(rest, T) \in Seq(A) /\ Within(post, T) \in Seq(A)
      BY <1>5, WithinSeq
<1>13. Within(q, T) = <<q[k]>> \o Within(post, T)
      BY <1>7, <1>9, <1>10, <1>11, <1>12, ConcatEmptySeq
<1>14. Head(Within(q, T)) = q[k] /\ Tail(Within(q, T)) = Within(post, T)
  <2> DEFINE w == Within(post, T)
             v == <<q[k]>> \o w
  <2>1. w \in Seq(A)
        BY <1>12
  <2> HIDE DEF w
  <2>2. Head(v) = q[k]
        BY <1>3, <1>8, <2>1
  <2>3. v \in Seq(A) /\ Len(v) = 1 + Len(w) /\ v # <<>>
        BY <1>8, <2>1, ConcatProperties, EmptySeq
  <2>4. \A i \in 1..1 + Len(w) : v[i] = IF i <= 1 THEN q[k] ELSE w[i - 1]
        BY <1>8, <2>1, ConcatProperties
  <2>5. Tail(v) \in Seq(A) /\ Len(Tail(v)) = Len(w) /\ Len(w) \in Nat
        BY <2>1, <2>3, HeadTailProperties, LenProperties
  <2>6. \A i \in 1..Len(w) : Tail(v)[i] = w[i]
        BY <2>3, <2>4, <2>5, HeadTailProperties
  <2>7. Tail(v) = w
        BY <2>1, <2>5, <2>6, SeqEqual
  <2> QED BY <1>13, <2>2, <2>7 DEF w
<1> QED BY <1>3, <1>4, <1>14 DEF post

LEMMA RemoveFirstAt ==
    ASSUME NEW A, NEW q \in Seq(A), NEW k \in 1..Len(q), \A i \in 1..(k - 1) : q[i] # q[k]
    PROVE  RemoveFirst(q, q[k]) = SubSeq(q, 1, k - 1) \o SubSeq(q, k + 1, Len(q))
<1> DEFINE J == {i \in 1..Len(q) : q[i] = q[k]}
<1>0. Len(q) \in Nat
      BY LenProperties
<1>1. k \in J /\ J \in SUBSET Nat
      BY <1>0
<1>2. \A i \in J : k <= i
  <2> TAKE i \in J
  <2>1. ~(i \in 1..(k - 1))
        OBVIOUS
  <2> QED BY <1>0, <2>1
<1>3. RemoveFirst(q, q[k]) = RemoveAt(q, IF J # {} THEN Min(J) ELSE 0)
      BY <1>1 DEF RemoveFirst, SelectInSeq
<1> HIDE DEF J
<1>4. Min(J) = k
  <2>1. Min(J) \in J /\ \A i \in J : Min(J) <= i
        BY <1>1, MinOf
  <2>2. Min(J) <= k /\ k <= Min(J) /\ Min(J) \in Nat /\ k \in Nat
        BY <1>1, <1>2, <2>1
  <2> QED BY <2>2
<1> QED BY <1>1, <1>3, <1>4 DEF RemoveAt

\* What is sent of a list whose first event for an address has left it.
LEMMA SentRemoved ==
    ASSUME NEW A, NEW q \in Seq(A), NEW a, Sent(a, q) # <<>>
    PROVE  /\ Head(Sent(a, q)) \in A /\ Head(Sent(a, q)).to = a
           /\ RemoveFirst(q, Head(Sent(a, q))) \in Seq(A)
           /\ Sent(a, RemoveFirst(q, Head(Sent(a, q)))) = Tail(Sent(a, q))
           /\ \A b : b # a => Sent(b, RemoveFirst(q, Head(Sent(a, q)))) = Sent(b, q)
<1> DEFINE T == {e \in A : e.to = a}
<1>1. Sent(a, q) = Within(q, T)
      BY SentOver
<1>0. Len(q) \in Nat /\ \A i \in 1..Len(q) : q[i] \in A
      BY LenProperties, ElementOfSeq
<1> HIDE DEF T
<1>2. PICK k \in 1..Len(q) : /\ q[k] \in T
                             /\ \A i \in 1..(k - 1) : q[i] \notin T
                             /\ Head(Within(q, T)) = q[k]
                             /\ Tail(Within(q, T)) = Within(SubSeq(q, k + 1, Len(q)), T)
      BY <1>1, FirstWithin
<1> DEFINE pre == SubSeq(q, 1, k - 1)
           post == SubSeq(q, k + 1, Len(q))
           rest == SubSeq(q, k, Len(q))
           e == q[k]
<1>3. /\ pre \in Seq(A) /\ post \in Seq(A) /\ rest \in Seq(A)
      /\ q = pre \o rest /\ rest = <<e>> \o post
      BY SplitAt
<1>4. e \in A /\ <<e>> \in Seq(A) /\ e.to = a
      BY <1>0, <1>2 DEF T
<1>5. RemoveFirst(q, e) = pre \o post
      BY <1>2, RemoveFirstAt
<1> HIDE DEF pre, post, rest, e
<1>6. RemoveFirst(q, e) \in Seq(A)
      BY <1>3, <1>5, ConcatProperties
<1>7. \A b : Sent(b, RemoveFirst(q, e)) = Sent(b, pre) \o Sent(b, post)
  <2> TAKE b
  <2>1. Sent(b, pre \o post) = Sent(b, pre) \o Sent(b, post)
        BY <1>3, SentConcat
  <2> QED BY <1>5, <2>1
<1>8. Sent(a, pre) = <<>>
  <2> DEFINE B == A \ T
  <2>1. pre \in Seq(B)
    <3>1. \A i \in 1..(k - 1) : q[i] \in B
          BY <1>0, <1>2
    <3>2. k - 1 \in Int
          BY <1>0
    <3> HIDE DEF B
    <3> QED BY <3>1, <3>2, SubSeqProperties DEF pre
  <2>2. Sent(a, pre) = Within(pre, T)
        BY <1>3, SentOver DEF T
  <2>3. B \cap T = {}
        OBVIOUS
  <2> HIDE DEF B
  <2> QED BY <2>1, <2>2, <2>3, WithinNone
<1>9. Sent(a, post) = Within(post, T) /\ Sent(a, post) \in Seq(A)
      BY <1>3, SentOver, SentSeq DEF T
<1>10. Sent(a, RemoveFirst(q, e)) = Tail(Within(q, T))
       BY <1>2, <1>7, <1>8, <1>9, ConcatEmptySeq DEF post
<1>11. \A b : b # a => Sent(b, RemoveFirst(q, e)) = Sent(b, q)
  <2> SUFFICES ASSUME NEW b, b # a PROVE Sent(b, RemoveFirst(q, e)) = Sent(b, q)
      OBVIOUS
  <2> DEFINE V == {x \in A : x.to = b}
  <2> DEFINE one == <<e>>
  <2>b. one \in Seq(A)
        BY <1>4
  <2> HIDE DEF one
  <2>1. Sent(b, one) = Within(one, V)
        BY <2>b, SentOver
  <2>a. e \notin V
        BY <1>4
  <2> HIDE DEF V
  <2>2. Sent(b, <<e>>) = <<>>
        BY <1>4, <2>1, <2>a, WithinOne DEF one
  <2>3. Sent(b, q) = Sent(b, pre) \o Sent(b, rest)
        BY <1>3, SentConcat
  <2>4. Sent(b, rest) = Sent(b, <<e>>) \o Sent(b, post)
        BY <1>3, <1>4, SentConcat
  <2>5. Sent(b, post) \in Seq(A)
        BY <1>3, SentSeq
  <2>6. Sent(b, rest) = Sent(b, post)
        BY <2>2, <2>4, <2>5, ConcatEmptySeq
  <2> QED BY <1>7, <2>3, <2>6
<1>12. Head(Sent(a, q)) = e
       BY <1>1, <1>2 DEF e
<1> QED BY <1>1, <1>4, <1>6, <1>10, <1>11, <1>12

LEMMA FlattenRecursion ==
    ASSUME NEW s, Len(s) \in Nat \ {0}
    PROVE  \E f : /\ f = [i \in 1..Len(s) |-> IF i = 1 THEN s[i] ELSE f[i - 1] \o s[i]]
                  /\ FlattenSeq(s) = f[Len(s)]
<1> DEFINE Flat(f, m) == f = [i \in 1..m |-> IF i = 1 THEN s[i] ELSE f[i - 1] \o s[i]]
           S == {m \in Nat : \E f : Flat(f, m)}
<1>1. 0 \in S
  <2> DEFINE f == [i \in 1..0 |-> s[i]]
  <2>1. Flat(f, 0)
        OBVIOUS
  <2> QED BY <2>1
<1>2. \A m \in Nat : m \in S => m + 1 \in S
  <2> SUFFICES ASSUME NEW m \in Nat, m \in S PROVE m + 1 \in S
      OBVIOUS
  <2>1. PICK f : Flat(f, m)
        OBVIOUS
  <2>a. \A i \in 1..m : f[i] = IF i = 1 THEN s[i] ELSE f[i - 1] \o s[i]
        BY <2>1, Zenon
  <2> DEFINE next == IF m = 0 THEN s[m + 1] ELSE f[m] \o s[m + 1]
             g == [i \in 1..(m + 1) |-> IF i <= m THEN f[i] ELSE next]
  <2>2. \A i \in 1..(m + 1) : g[i] = IF i = 1 THEN s[i] ELSE g[i - 1] \o s[i]
    <3> TAKE i \in 1..(m + 1)
    <3>1. CASE i <= m
      <4>1. f[i] = IF i = 1 THEN s[i] ELSE f[i - 1] \o s[i]
            BY <2>a, <3>1
      <4>2. g[i] = f[i] /\ (i # 1 => g[i - 1] = f[i - 1])
            BY <3>1
      <4> QED BY <4>1, <4>2
    <3>2. CASE i = m + 1
          BY <3>2
    <3> QED BY <3>1, <3>2
  <2>3. Flat(g, m + 1)
        BY <2>2
  <2>4. m + 1 \in Nat
        OBVIOUS
  <2> HIDE DEF Flat, g
  <2> QED BY <2>3, <2>4
<1> HIDE DEF S
<1>3. Len(s) \in S
      BY <1>1, <1>2, Induction
<1>4. \E f : Flat(f, Len(s))
      BY <1>3 DEF S
<1>5. FlattenSeq(s) = (CHOOSE f : Flat(f, Len(s)))[Len(s)]
      BY DEF FlattenSeq
<1> QED BY <1>4, <1>5

LEMMA FlattenType ==
    ASSUME NEW A, NEW s \in Seq(Seq(A))
    PROVE  FlattenSeq(s) \in Seq(A)
<1>0. Len(s) \in Nat /\ \A i \in 1..Len(s) : s[i] \in Seq(A)
      BY LenProperties, ElementOfSeq
<1>1. CASE Len(s) = 0
  <2>1. s = <<>>
        BY <1>1, EmptySeq
  <2>2. FlattenSeq(s) = s
        BY <1>1 DEF FlattenSeq
  <2> QED BY <2>1, <2>2, EmptySeq
<1>2. CASE Len(s) # 0
  <2>1. PICK f : /\ f = [i \in 1..Len(s) |-> IF i = 1 THEN s[i] ELSE f[i - 1] \o s[i]]
                 /\ FlattenSeq(s) = f[Len(s)]
        BY <1>0, <1>2, FlattenRecursion
  <2>2. \A i \in 1..Len(s) : f[i] = IF i = 1 THEN s[i] ELSE f[i - 1] \o s[i]
        BY <2>1, Zenon
  <2> DEFINE S == {n \in Nat : n \in 1..Len(s) => f[n] \in Seq(A)}
  <2>3. 0 \in S
        OBVIOUS
  <2>4. \A n \in Nat : n \in S => n + 1 \in S
    <3> SUFFICES ASSUME NEW n \in Nat, n \in S PROVE n + 1 \in S
        OBVIOUS
    <3>0. n + 1 \in Nat /\ (n \in 1..Len(s) => f[n] \in Seq(A))
        OBVIOUS
    <3> SUFFICES ASSUME n + 1 \in 1..Len(s) PROVE f[n + 1] \in Seq(A)
        BY <3>0
    <3>1. f[n + 1] = IF n + 1 = 1 THEN s[n + 1] ELSE f[(n + 1) - 1] \o s[n + 1]
          BY <2>2
    <3>2. CASE n = 0
          BY <1>0, <3>1, <3>2
    <3>3. CASE n # 0
      <4>1. f[n] \in Seq(A) /\ (n + 1) - 1 = n
            BY <1>0, <3>0, <3>3
      <4>2. s[n + 1] \in Seq(A)
            BY <1>0
      <4>3. f[n] \o s[n + 1] \in Seq(A)
            BY <4>1, <4>2, ConcatProperties
      <4> QED BY <3>1, <3>3, <4>1, <4>3
    <3> QED BY <3>2, <3>3
  <2> HIDE DEF S
  <2>5. Len(s) \in S
        BY <1>0, <2>3, <2>4, Induction
  <2> QED BY <1>0, <1>2, <2>1, <2>5 DEF S
<1> QED BY <1>1, <1>2

(***************************************************************************)
(* Types of the ground station, with n orders so far.                      *)
(***************************************************************************)
Place == limit \in Limits /\ address \in Address /\ connected \in BOOLEAN
Env == Place /\ snap \in Shown

Numbers == {a.no : a \in Address}
Outcomes == {"none", "ready", "failed"}
Missions(n) ==
    {m \in [ticket : 0..n, kind : MissionKind, size : 0..MaxPoints, no : Numbers,
            started : BOOLEAN, reached : 0..MaxPoints, reported : 0..MaxPoints,
            flown : BOOLEAN, landed : BOOLEAN, result : Outcomes] :
        /\ m.reported <= m.reached /\ m.reached <= m.size
        /\ m.kind # "none" => m.ticket # 0
        /\ m.kind = "inspection" => m.size = limit.points
        /\ m.kind = "none" => ~m.started}
Inspections(n) == {m \in Missions(n) : m.kind = "inspection"}
Events(n) == [to : Address, status : Status, mission : 1..n, point : 0..MaxPoints]
Sequences(n) == [kind : Kind, phase : Phase, ticket : 0..n, command : Command,
                 delay : BOOLEAN, via : 0..n]
Results(n) == [ticket : 1..n, name : Name, ok : BOOLEAN, final : BOOLEAN]
Station(n) ==
    [seq : Sequences(n), frames : Seq(Frame), handled : Nat, running : BOOLEAN, active : 0..n,
     latched : BOOLEAN, staged : BOOLEAN, queue : Seq(1..n), orders : Seq(Order),
     results : Seq(Results(n)), mission : Missions(n), waiting : Seq(Inspections(n)),
     photos : Seq(Inspections(n)), landing : 0..n, told : BOOLEAN, blocked : BOOLEAN,
     standby : BOOLEAN, parked : SUBSET Nat, out : Seq(Events(n)), woken : BOOLEAN]

\* The projector leaves the window alone, and frees no standby that is blocked.
Projects(c, d) ==
    /\ d.seq = c.seq /\ d.frames = c.frames /\ d.handled = c.handled
    /\ d.running = c.running /\ d.active = c.active /\ d.latched = c.latched
    /\ d.staged = c.staged /\ d.queue = c.queue /\ d.orders = c.orders
    /\ d.results = c.results /\ d.parked = c.parked /\ d.blocked = c.blocked
    /\ d.standby => c.standby \/ ~c.blocked

LEMMA LimitFacts ==
    ASSUME limit \in Limits
    PROVE  /\ limit.points \in 1..MaxPoints /\ limit.plain \subseteq Point
           /\ limit.script \in Seq({"01", "02", "03", "05", "06", "07"})
           /\ limit.mishaps \in Nat /\ MaxPoints \in Nat \ {0}
BY MissionAssumption, ProjectorAssumption DEF Point

LEMMA MapSeq ==
    ASSUME NEW m \in Nat, NEW B, NEW f, f = [k \in 1..m |-> f[k]], \A k \in 1..m : f[k] \in B
    PROVE  f \in Seq(B) /\ Len(f) = m
<1>1. f \in [1..m -> B]
      OBVIOUS
<1>2. f \in Seq(B)
      BY <1>1, SeqDef
<1> QED BY <1>1, <1>2, LenProperties

LEMMA NumberOf ==
    ASSUME NEW no \in Numbers, Env
    PROVE  [address EXCEPT !.no = no] \in Address
<1>1. PICK a \in Address : no = a.no
      BY DEF Numbers
<1> QED BY <1>1, LinkAssumption DEF Env, Place

LEMMA AddressFacts ==
    ASSUME Env
    PROVE  address.no \in Numbers /\ (CHOOSE a \in Address : TRUE) \in Address
BY DEF Env, Place, Numbers

LEMMA NoMissionType ==
    ASSUME NEW n \in Nat, Env
    PROVE  NoMission \in Missions(n) /\ NoMission.kind = "none"
<1> DEFINE number == (CHOOSE a \in Address : TRUE).no
<1>1. number \in Numbers
      BY AddressFacts DEF Numbers
<1>2. 0 \in 0..MaxPoints /\ 0 \in 0..n
      BY ProjectorAssumption
<1>3. NoMission = [ticket |-> 0, kind |-> "none", size |-> 0, no |-> number,
                   started |-> FALSE, reached |-> 0, reported |-> 0, flown |-> FALSE,
                   landed |-> FALSE, result |-> "none"]
      BY DEF NoMission, NoTicket
<1> HIDE DEF number
<1> QED BY <1>1, <1>2, <1>3 DEF Missions, MissionKind, Outcomes

LEMMA SettledType ==
    ASSUME NEW n \in Nat, NEW m \in Missions(n)
    PROVE  Settled(m) \in m.reported..m.reached
<1> DEFINE K == {k \in m.reported..m.reached :
                     \A i \in (m.reported + 1)..k : Photo(m, i) # "pending"}
<1>1. m.reported \in Int /\ m.reached \in Int /\ m.reported <= m.reached
      BY DEF Missions
<1>2. m.reported \in K /\ K \in SUBSET Int /\ \A k \in K : k <= m.reached
      BY <1>1
<1>3. Settled(m) = Max(K)
      BY DEF Settled
<1>4. K \subseteq m.reported..m.reached
      OBVIOUS
<1> HIDE DEF K
<1>5. Max(K) \in K
      BY <1>1, <1>2, MaxOf
<1> QED BY <1>3, <1>4, <1>5

LEMMA PointsReportedType ==
    ASSUME NEW n \in Nat, NEW m \in Missions(n)
    PROVE  /\ PointsReported(m) \in Missions(n)
           /\ PointsReported(m).kind = m.kind /\ PointsReported(m).ticket = m.ticket
           /\ PointsReported(m).no = m.no /\ PointsReported(m).reached = m.reached
           /\ m.reported <= PointsReported(m).reported
           /\ PointsReported(m).reported <= m.reached
<1>1. Settled(m) \in m.reported..m.reached
      BY SettledType
<1>2. /\ m.reported \in 0..MaxPoints /\ m.reached \in 0..MaxPoints /\ m.reported <= m.reached
      /\ MaxPoints \in Nat
      BY ProjectorAssumption DEF Missions
<1>3. Settled(m) \in 0..MaxPoints
      BY <1>1, <1>2
<1> DEFINE r == Settled(m)
<1>4. PointsReported(m) = IF DeliveryFailed(m) THEN m ELSE [m EXCEPT !.reported = r]
      BY DEF PointsReported
<1> HIDE DEF r
<1>5. r \in m.reported..m.reached /\ r \in 0..MaxPoints
      BY <1>1, <1>3 DEF r
<1> QED BY <1>2, <1>4, <1>5 DEF Missions

LEMMA EventType ==
    ASSUME NEW n \in Nat, Env, NEW no \in Numbers, NEW s \in Status, NEW t \in 1..n,
           NEW p \in 0..MaxPoints
    PROVE  EventOf(no, s, t, p) \in Events(n)
BY NumberOf DEF EventOf, Events

LEMMA PointEventsType ==
    ASSUME NEW n \in Nat, Env, NEW m \in Missions(n), m.kind # "none"
    PROVE  PointEvents(m) \in Seq(Events(n))
<1> DEFINE k == PointsReported(m).reported - m.reported
           new == [i \in 1..k |-> m.reported + i]
           T == {i \in Point : Photo(m, i) = "ready"}
           ready == Within(new, T)
           events == [j \in DOMAIN ready |-> EventOf(m.no, "09", m.ticket, ready[j])]
<1>1. /\ m.reported \in 0..MaxPoints /\ m.reached \in 0..MaxPoints /\ m.ticket \in 1..n
      /\ m.no \in Numbers /\ MaxPoints \in Nat
      BY ProjectorAssumption DEF Missions
<1>2. k \in Nat /\ m.reported + k <= m.reached
  <2>1. PointsReported(m).reported \in 0..MaxPoints
        BY PointsReportedType DEF Missions
  <2> QED BY <1>1, <2>1, PointsReportedType
<1>3. PointEvents(m) = events
      BY DEF PointEvents
<1> HIDE DEF k
<1>4. \A i \in 1..k : m.reported + i \in Point
      BY <1>1, <1>2 DEF Point
<1>5. new = [i \in 1..k |-> new[i]] /\ \A i \in 1..k : new[i] \in Point
      BY <1>4
<1> HIDE DEF new, T
<1>6. new \in Seq(Point)
      BY <1>2, <1>5, MapSeq
<1>7. ready \in Seq(Point)
      BY <1>6, WithinSeq
<1> HIDE DEF ready
<1>8. Len(ready) \in Nat /\ DOMAIN ready = 1..Len(ready) /\ \A j \in 1..Len(ready) : ready[j] \in Point
      BY <1>7, LenProperties, ElementOfSeq
<1>9. \A j \in 1..Len(ready) : EventOf(m.no, "09", m.ticket, ready[j]) \in Events(n)
  <2> TAKE j \in 1..Len(ready)
  <2>1. ready[j] \in 0..MaxPoints /\ "09" \in Status
        BY <1>1, <1>8 DEF Point, Status
  <2> QED BY <1>1, <2>1, EventType
<1>10. events = [j \in 1..Len(ready) |-> events[j]] /\ \A j \in 1..Len(ready) : events[j] \in Events(n)
       BY <1>8, <1>9
<1> HIDE DEF events
<1>11. events \in Seq(Events(n))
       BY <1>8, <1>10, MapSeq
<1> QED BY <1>3, <1>11

LEMMA PreparedType ==
    ASSUME NEW n \in Nat, NEW m \in Inspections(n)
    PROVE  Prepared(m) \in Inspections(n)
<1>1. \E r \in Outcomes : Prepared(m) = [m EXCEPT !.result = r]
  <2>1. CASE m.result = "none"
        BY <2>1 DEF Prepared, Outcomes
  <2>2. CASE m.result # "none"
    <3>1. m.result \in Outcomes /\ m = [m EXCEPT !.result = m.result]
          BY DEF Inspections, Missions
    <3> QED BY <2>2, <3>1 DEF Prepared
  <2> QED BY <2>1, <2>2
<1>2. PICK r \in Outcomes : Prepared(m) = [m EXCEPT !.result = r]
      BY <1>1
<1> QED BY <1>2 DEF Inspections, Missions

(***************************************************************************)
(* The projector.                                                          *)
(***************************************************************************)
LEMMA ProjectsTwice ==
    ASSUME NEW c, NEW d, NEW e, Projects(c, d), Projects(d, e)
    PROVE  Projects(c, e)
BY DEF Projects

LEMMA AppendType ==
    ASSUME NEW A, NEW s \in Seq(A), NEW e \in A
    PROVE  Append(s, e) \in Seq(A) /\ Len(Append(s, e)) = Len(s) + 1
BY AppendProperties

LEMMA SmallUpdates ==
    ASSUME NEW n \in Nat, Env, NEW c \in Station(n)
    PROVE  /\ BlockStandby(c) \in Station(n) /\ ReleaseStandby(c) \in Station(n)
           /\ Woke(c) \in Station(n) /\ Projects(c, Woke(c))
           /\ ConnectionRestored(c) \in Station(n) /\ Projects(c, ConnectionRestored(c))
           /\ Dropped(c) \in Station(n) /\ Projects(c, Dropped(c))
<1>1. NoMission \in Missions(n)
      BY NoMissionType
<1> QED BY <1>1 DEF BlockStandby, ReleaseStandby, Woke, ConnectionRestored, Dropped, Station,
                    Projects, Env, Place

LEMMA ReportPointsType ==
    ASSUME NEW n \in Nat, Env, NEW c \in Station(n), c.mission.kind # "none"
    PROVE  ReportPoints(c) \in Station(n) /\ Projects(c, ReportPoints(c))
<1> DEFINE m == PointsReported(c.mission)
           out == c.out \o PointEvents(c.mission)
<1>1. c.mission \in Missions(n) /\ c.out \in Seq(Events(n))
      BY DEF Station
<1>2. m \in Missions(n)
      BY <1>1, PointsReportedType
<1>3. out \in Seq(Events(n))
      BY <1>1, PointEventsType, ConcatProperties
<1>4. ReportPoints(c) = [c EXCEPT !.mission = m, !.out = out]
      BY DEF ReportPoints
<1> HIDE DEF m, out
<1> QED BY <1>2, <1>3, <1>4 DEF Station, Projects

LEMMA FlushType ==
    ASSUME NEW n \in Nat, Env, NEW c \in Station(n)
    PROVE  Flush(c) \in Station(n) /\ Projects(c, Flush(c))
<1> DEFINE all == [i \in DOMAIN c.waiting |-> Prepared(c.waiting[i])]
           K == {k \in 0..Len(all) : \A i \in 1..k : all[i].result # "none"}
           ready == Max(K)
           seen == 1..Min({ready + 1, Len(all)})
           after == [i \in DOMAIN all |-> IF i \in seen THEN PointsReported(all[i]) ELSE all[i]]
           events == [i \in seen |->
                         PointEvents(all[i]) \o
                         IF i <= ready THEN <<EventOf(all[i].no, "08", all[i].ticket, 0)>>
                                       ELSE <<>>]
           open == {m \in Range(after) : m.result = "ready" /\ m.reported < m.size}
           waiting == SubSeq(after, ready + 1, Len(after))
           photos == c.photos \o Within(SubSeq(after, 1, ready), open)
           out == c.out \o FlattenSeq(events)
<1>1. Flush(c) = [c EXCEPT !.waiting = waiting, !.photos = photos, !.out = out]
      BY DEF Flush
<1>2. /\ c.waiting \in Seq(Inspections(n)) /\ c.photos \in Seq(Inspections(n))
      /\ c.out \in Seq(Events(n))
      BY DEF Station
<1>3. Len(c.waiting) \in Nat /\ DOMAIN c.waiting = 1..Len(c.waiting)
      BY <1>2, LenProperties
<1>4. \A i \in 1..Len(c.waiting) : Prepared(c.waiting[i]) \in Inspections(n)
      BY <1>2, ElementOfSeq, PreparedType
<1>5. all \in Seq(Inspections(n)) /\ Len(all) = Len(c.waiting)
  <2>1. all = [i \in 1..Len(c.waiting) |-> all[i]]
        BY <1>3
  <2>2. \A i \in 1..Len(c.waiting) : all[i] \in Inspections(n)
        BY <1>3, <1>4
  <2> HIDE DEF all
  <2> QED BY <1>3, <2>1, <2>2, MapSeq
<1> HIDE DEF all
<1>6. Len(all) \in Nat /\ DOMAIN all = 1..Len(all) /\ \A i \in 1..Len(all) : all[i] \in Inspections(n)
      BY <1>5, LenProperties, ElementOfSeq
<1>7. ready \in 0..Len(all)
  <2>1. 0 \in K /\ K \in SUBSET Int /\ \A k \in K : k <= Len(all)
        BY <1>6
  <2>2. K \subseteq 0..Len(all)
        OBVIOUS
  <2> HIDE DEF K
  <2>a. K # {} /\ Len(all) \in Int
        BY <1>6, <2>1
  <2>3. Max(K) \in K
        BY <2>1, <2>a, MaxOf
  <2> QED BY <2>2, <2>3
<1> HIDE DEF ready
<1>8. seen = 1..(IF ready + 1 <= Len(all) THEN ready + 1 ELSE Len(all))
  <2>1. ready + 1 \in Int /\ Len(all) \in Int
        BY <1>6, <1>7
  <2> QED BY <2>1, MinOfTwo
<1> HIDE DEF seen
<1>9. \A i \in seen : i \in 1..Len(all)
      BY <1>6, <1>7, <1>8
<1>10. \A i \in 1..Len(all) : /\ all[i] \in Missions(n) /\ all[i].kind = "inspection"
                              /\ PointsReported(all[i]) \in Inspections(n)
                              /\ PointEvents(all[i]) \in Seq(Events(n))
  <2> TAKE i \in 1..Len(all)
  <2>1. all[i] \in Missions(n) /\ all[i].kind = "inspection" /\ all[i].kind # "none"
        BY <1>6 DEF Inspections
  <2>2. PointsReported(all[i]) \in Missions(n) /\ PointsReported(all[i]).kind = "inspection"
        BY <2>1, PointsReportedType
  <2>3. PointEvents(all[i]) \in Seq(Events(n))
        BY <2>1, PointEventsType
  <2> QED BY <2>1, <2>2, <2>3 DEF Inspections
<1>11. after \in Seq(Inspections(n)) /\ Len(after) = Len(all)
  <2>1. after = [i \in 1..Len(all) |-> after[i]]
        BY <1>6
  <2>2. \A i \in 1..Len(all) : after[i] \in Inspections(n)
        BY <1>6, <1>10
  <2> HIDE DEF after
  <2> QED BY <1>6, <2>1, <2>2, MapSeq
<1> HIDE DEF after, open
<1>12. waiting \in Seq(Inspections(n)) /\ SubSeq(after, 1, ready) \in Seq(Inspections(n))
  <2>1. \A i \in 1..Len(after) : after[i] \in Inspections(n)
        BY <1>11, ElementOfSeq
  <2>2. /\ \A i \in (ready + 1)..Len(after) : after[i] \in Inspections(n)
        /\ \A i \in 1..ready : after[i] \in Inspections(n)
        /\ ready \in Int /\ ready + 1 \in Int /\ Len(after) \in Int /\ 1 \in Int
        BY <1>6, <1>7, <1>11, <2>1
  <2> QED BY <2>2, SubSeqProperties
<1>13. photos \in Seq(Inspections(n))
  <2>1. Within(SubSeq(after, 1, ready), open) \in Seq(Inspections(n))
        BY <1>12, WithinSeq
  <2> QED BY <1>2, <2>1, ConcatProperties
<1>14. \A i \in seen : events[i] \in Seq(Events(n))
  <2> TAKE i \in seen
  <2>1. PointEvents(all[i]) \in Seq(Events(n))
        BY <1>9, <1>10
  <2>2. EventOf(all[i].no, "08", all[i].ticket, 0) \in Events(n)
    <3>1. all[i] \in Missions(n) /\ all[i].kind # "none"
          BY <1>9, <1>10
    <3>2. all[i].no \in Numbers /\ all[i].ticket \in 1..n
          BY <3>1 DEF Missions
    <3>3. "08" \in Status /\ 0 \in 0..MaxPoints
          BY ProjectorAssumption DEF Status
    <3> QED BY <3>2, <3>3, EventType
  <2> DEFINE e == EventOf(all[i].no, "08", all[i].ticket, 0)
             more == IF i <= ready THEN <<e>> ELSE <<>>
  <2>3. more \in Seq(Events(n))
    <3> HIDE DEF e
    <3>1. e \in Events(n)
          BY <2>2 DEF e
    <3> QED BY <3>1, EmptySeq
  <2>4. events[i] = PointEvents(all[i]) \o more
        OBVIOUS
  <2> HIDE DEF more
  <2> QED BY <2>1, <2>3, <2>4, ConcatProperties
<1>15. events \in Seq(Seq(Events(n)))
  <2> DEFINE k == IF ready + 1 <= Len(all) THEN ready + 1 ELSE Len(all)
  <2>1. k \in Nat /\ seen = 1..k
        BY <1>6, <1>7, <1>8
  <2> HIDE DEF k
  <2>2. events = [i \in 1..k |-> events[i]]
        BY <2>1
  <2>3. \A i \in 1..k : events[i] \in Seq(Events(n))
        BY <1>14, <2>1
  <2> HIDE DEF events
  <2> QED BY <2>1, <2>2, <2>3, MapSeq
<1> HIDE DEF events
<1>16. out \in Seq(Events(n))
  <2>1. FlattenSeq(events) \in Seq(Events(n))
        BY <1>15, FlattenType
  <2> QED BY <1>2, <2>1, ConcatProperties
<1> HIDE DEF waiting, photos, out
<1> QED BY <1>1, <1>12, <1>13, <1>16 DEF Station, Projects

LEMMA FinishType ==
    ASSUME NEW n \in Nat, Env, NEW c \in Station(n)
    PROVE  Finish(c) \in Station(n) /\ Projects(c, Finish(c))
<1>1. CASE c.mission.kind = "inspection" /\ c.mission.flown /\ c.mission.landed
  <2> DEFINE w == Append(c.waiting, c.mission)
             d == [Dropped(c) EXCEPT !.waiting = w]
  <2>1. Finish(c) = Flush(d)
    <3>1. Dropped(c).waiting = c.waiting
          BY DEF Dropped, Station
    <3> QED BY <1>1, <3>1 DEF Finish
  <2>2. w \in Seq(Inspections(n))
    <3>1. c.waiting \in Seq(Inspections(n)) /\ c.mission \in Inspections(n)
          BY <1>1 DEF Station, Inspections
    <3> QED BY <3>1, AppendType
  <2> HIDE DEF w
  <2>3. Dropped(c) \in Station(n) /\ Projects(c, Dropped(c))
        BY SmallUpdates
  <2>4. d \in Station(n) /\ Projects(c, d)
        BY <2>2, <2>3 DEF Station, Projects
  <2> HIDE DEF d
  <2>5. Flush(d) \in Station(n) /\ Projects(d, Flush(d))
        BY <2>4, FlushType
  <2> QED BY <2>1, <2>4, <2>5, ProjectsTwice
<1>2. CASE ~(c.mission.kind = "inspection" /\ c.mission.flown /\ c.mission.landed)
      BY <1>2, FlushType DEF Finish
<1> QED BY <1>1, <1>2

LEMMA TellLandingType ==
    ASSUME NEW n \in Nat, Env, NEW c \in Station(n), c.landing # NoTicket
    PROVE  TellLanding(c) \in Station(n) /\ Projects(c, TellLanding(c))
<1> DEFINE e == EventOf(address.no, "07", c.landing, 0)
           out == Append(c.out, e)
<1>1. c.out \in Seq(Events(n)) /\ c.landing \in 1..n
      BY DEF Station, NoTicket
<1>2. "07" \in Status /\ 0 \in 0..MaxPoints /\ address.no \in Numbers
      BY ProjectorAssumption, AddressFacts DEF Status
<1>3. e \in Events(n)
      BY <1>1, <1>2, EventType
<1> HIDE DEF e
<1>4. out \in Seq(Events(n))
      BY <1>1, <1>3, AppendType
<1>5. TellLanding(c) = [c EXCEPT !.told = TRUE, !.out = out]
      BY DEF TellLanding, e
<1> HIDE DEF out
<1> QED BY <1>4, <1>5 DEF Station, Projects

LEMMA ObserveResultType ==
    ASSUME NEW n \in Nat, Env, NEW c \in Station(n), NEW r \in Results(n)
    PROVE  ObserveResult(c, r) \in Station(n) /\ Projects(c, ObserveResult(c, r))
<1>0. r.ticket \in 1..n /\ r.ok \in BOOLEAN /\ r.final \in BOOLEAN
      BY DEF Results
<1>1. CASE r.name = "land" /\ r.ticket = c.landing
  <2> DEFINE told == IF r.ok /\ ~c.told THEN TellLanding(c) ELSE c
  <2>1. told \in Station(n) /\ Projects(c, told)
    <3>1. c.landing # NoTicket
          BY <1>0, <1>1 DEF NoTicket
    <3>2. Projects(c, c)
          BY DEF Projects
    <3> QED BY <3>1, <3>2, TellLandingType
  <2> DEFINE landing == IF r.final THEN NoTicket ELSE told.landing
             landed == told.mission.landed \/ Landed(c, r)
             m == [told.mission EXCEPT !.landed = landed]
             d == [told EXCEPT !.mission = m, !.landing = landing]
  <2>2. ObserveResult(c, r) = Finish(d)
        BY <1>1 DEF ObserveResult, LandingResult
  <2> HIDE DEF told
  <2>3. landing \in 0..n /\ m \in Missions(n)
    <3>1. told.landing \in 0..n /\ told.mission \in Missions(n)
          BY <2>1 DEF Station
    <3>2. landing \in 0..n
          BY <3>1 DEF NoTicket
    <3>3. landed \in BOOLEAN
          OBVIOUS
    <3> HIDE DEF landed
    <3>4. m \in Missions(n)
          BY <3>1, <3>3 DEF Missions
    <3> QED BY <3>2, <3>4
  <2> HIDE DEF m, landing
  <2>4. d \in Station(n) /\ Projects(told, d)
        BY <2>1, <2>3 DEF Station, Projects
  <2> HIDE DEF d
  <2>5. Finish(d) \in Station(n) /\ Projects(d, Finish(d))
        BY <2>4, FinishType
  <2> QED BY <2>1, <2>2, <2>4, <2>5, ProjectsTwice
<1>2. CASE /\ ~(r.name = "land" /\ r.ticket = c.landing)
           /\ r.name = "waypoints" /\ r.final /\ Active(c) /\ r.ticket = c.mission.ticket
  <2>1. ObserveResult(c, r) = WaypointResult(c, r)
        BY <1>2 DEF ObserveResult
  <2>2. CASE r.ok /\ c.mission.kind = "inspection"
    <3> DEFINE d == [c EXCEPT !.mission.reached = c.mission.size, !.mission.flown = TRUE]
               m == [c.mission EXCEPT !.reached = c.mission.size, !.flown = TRUE]
    <3>1. WaypointResult(c, r) = ReportPoints(d)
          BY <2>2 DEF WaypointResult
    <3>2. c.mission \in Missions(n)
          BY DEF Station
    <3>3. d = [c EXCEPT !.mission = m]
          BY <3>2 DEF Station, Missions
    <3>4. m \in Missions(n) /\ m.kind = "inspection"
      <4>1. /\ c.mission.reported \in 0..MaxPoints /\ c.mission.size \in 0..MaxPoints
            /\ c.mission.reached \in 0..MaxPoints /\ MaxPoints \in Nat
            /\ c.mission.reported <= c.mission.reached /\ c.mission.reached <= c.mission.size
            BY <3>2, ProjectorAssumption DEF Missions
      <4>2. c.mission.reported <= c.mission.size /\ c.mission.size <= c.mission.size
            BY <4>1
      <4> QED BY <2>2, <3>2, <4>1, <4>2 DEF Missions
    <3> HIDE DEF d, m
    <3>5. d \in Station(n) /\ Projects(c, d) /\ d.mission.kind # "none"
          BY <3>3, <3>4 DEF Station, Projects
    <3>6. ReportPoints(d) \in Station(n) /\ Projects(d, ReportPoints(d))
          BY <3>5, ReportPointsType
    <3> QED BY <2>1, <3>1, <3>5, <3>6, ProjectsTwice
  <2>3. CASE ~(r.ok /\ c.mission.kind = "inspection")
        BY <2>1, <2>3, SmallUpdates DEF WaypointResult
  <2> QED BY <2>2, <2>3
<1>3. CASE /\ ~(r.name = "land" /\ r.ticket = c.landing)
           /\ ~(r.name = "waypoints" /\ r.final /\ Active(c) /\ r.ticket = c.mission.ticket)
      BY <1>3 DEF ObserveResult, Projects
<1> QED BY <1>1, <1>2, <1>3

LEMMA ObserveMissionType ==
    ASSUME NEW n \in Nat, Env, NEW c \in Station(n), NEW s, s.point \in 0..MaxPoints
    PROVE  ObserveMission(c, s) \in Station(n) /\ Projects(c, ObserveMission(c, s))
<1> DEFINE d == IF Active(c) /\ Flying(c.mission, s) /\ ~c.mission.started
                THEN [Woke(c) EXCEPT !.mission.started = connected] ELSE c
           passed == Min({s.point - 1, c.mission.size})
           reached == Max({d.mission.reached, passed})
           e == [d EXCEPT !.mission.reached = reached]
<1>0. c.mission \in Missions(n)
      BY DEF Station
<1>1. d \in Station(n) /\ Projects(c, d) /\ d.mission.size = c.mission.size
  <2>1. CASE Active(c) /\ Flying(c.mission, s) /\ ~c.mission.started
    <3> DEFINE m == [c.mission EXCEPT !.started = connected]
    <3>a. Woke(c).mission = c.mission
          BY DEF Woke, Station
    <3>1. Woke(c) \in Station(n) /\ Projects(c, Woke(c)) /\ Woke(c).mission = c.mission
          BY <3>a, SmallUpdates
    <3>2. d = [Woke(c) EXCEPT !.mission = m]
          BY <2>1, <3>1 DEF Station
    <3>3. m \in Missions(n) /\ m.size = c.mission.size
          BY <1>0, <2>1 DEF Missions, Active, Env, Place
    <3> HIDE DEF m, d
    <3>4. d \in Station(n) /\ Projects(Woke(c), d) /\ d.mission = m
          BY <3>1, <3>2, <3>3 DEF Station, Projects
    <3> QED BY <3>1, <3>3, <3>4, ProjectsTwice
  <2>2. CASE ~(Active(c) /\ Flying(c.mission, s) /\ ~c.mission.started)
        BY <2>2 DEF Projects
  <2> QED BY <2>1, <2>2
<1>2. ObserveMission(c, s) =
          IF d.mission.started /\ Flying(c.mission, s) /\ c.mission.kind = "inspection"
          THEN ReportPoints(e) ELSE d
      BY DEF ObserveMission
<1>3. d.mission.kind = c.mission.kind
      BY <1>0 DEF Woke, Station, Missions
<1> HIDE DEF d
<1>4. CASE d.mission.started /\ Flying(c.mission, s) /\ c.mission.kind = "inspection"
  <2> DEFINE m == [d.mission EXCEPT !.reached = reached]
  <2>1. d.mission \in Missions(n)
        BY <1>1 DEF Station
  <2>2. passed \in Int /\ passed <= d.mission.size
    <3>1. s.point - 1 \in Int /\ c.mission.size \in Int
          BY <1>0, ProjectorAssumption DEF Missions
    <3> QED BY <1>1, <3>1, MinOfTwo
  <2> HIDE DEF passed
  <2>3. /\ d.mission.reached \in Nat /\ d.mission.size \in 0..MaxPoints
        /\ d.mission.reached <= d.mission.size /\ d.mission.reported <= d.mission.reached
        /\ d.mission.reported \in Nat
        BY <2>1 DEF Missions
  <2>4. reached = IF d.mission.reached >= passed THEN d.mission.reached ELSE passed
        BY <2>2, <2>3, MaxOfTwo
  <2> HIDE DEF reached
  <2>5. reached \in 0..MaxPoints /\ reached <= d.mission.size /\ d.mission.reported <= reached
        BY <2>2, <2>3, <2>4, ProjectorAssumption
  <2>6. m \in Missions(n) /\ m.kind # "none"
        BY <1>3, <1>4, <2>1, <2>5 DEF Missions
  <2>7. e = [d EXCEPT !.mission = m]
        BY <1>1 DEF Station
  <2> HIDE DEF m, e
  <2>8. e \in Station(n) /\ Projects(d, e) /\ e.mission = m
        BY <1>1, <2>6, <2>7 DEF Station, Projects
  <2>9. ReportPoints(e) \in Station(n) /\ Projects(e, ReportPoints(e))
        BY <2>6, <2>8, ReportPointsType
  <2> QED BY <1>1, <1>2, <1>4, <2>8, <2>9, ProjectsTwice
<1>5. CASE ~(d.mission.started /\ Flying(c.mission, s) /\ c.mission.kind = "inspection")
      BY <1>1, <1>2, <1>5
<1> QED BY <1>4, <1>5

LEMMA ObserveVehicleType ==
    ASSUME NEW n \in Nat, Env, NEW c \in Station(n), NEW s, s.point \in 0..MaxPoints,
           NEW telemetry, NEW may
    PROVE  /\ ObserveVehicle(c, s, telemetry, may) \in Station(n)
           /\ Projects(c, ObserveVehicle(c, s, telemetry, may))
<1> DEFINE flying == ObserveMission(c, s)
           landing == IF c.landing # NoTicket /\ ~c.told /\ s.mode = "land"
                      THEN TellLanding(flying) ELSE flying
           done == Finish(landing)
           said == IF telemetry THEN Woke(done) ELSE done
           flew == IF s.armed \/ s.abnormal THEN [said EXCEPT !.standby = FALSE] ELSE said
           last == IF /\ may /\ ~flew.blocked /\ ~flew.standby /\ connected
                      /\ limit.mode = "simulation" \/ limit.home
                   THEN [Woke(flew) EXCEPT !.standby = TRUE] ELSE flew
<1>1. flying \in Station(n) /\ Projects(c, flying) /\ flying.landing = c.landing
  <2>1. ObserveMission(c, s).landing = c.landing
        BY DEF ObserveMission, ReportPoints, Woke, Station
  <2> QED BY <2>1, ObserveMissionType
<1>2. ObserveVehicle(c, s, telemetry, may) = last
      BY DEF ObserveVehicle
<1> HIDE DEF flying
<1>3. landing \in Station(n) /\ Projects(flying, landing)
  <2>1. Projects(flying, flying)
        BY DEF Projects
  <2> QED BY <1>1, <2>1, TellLandingType
<1> HIDE DEF landing
<1>4. done \in Station(n) /\ Projects(landing, done)
      BY <1>3, FinishType
<1> HIDE DEF done
<1>5. said \in Station(n) /\ Projects(done, said)
  <2>1. Projects(done, done)
        BY DEF Projects
  <2> QED BY <1>4, <2>1, SmallUpdates
<1> HIDE DEF said
<1>6. flew \in Station(n) /\ Projects(said, flew)
      BY <1>5 DEF Station, Projects
<1> HIDE DEF flew
<1>7. last \in Station(n) /\ Projects(flew, last)
  <2>1. Woke(flew) \in Station(n) /\ Projects(flew, Woke(flew)) /\ Projects(flew, flew)
        BY <1>6, SmallUpdates DEF Projects
  <2> DEFINE woken == Woke(flew)
             d == [woken EXCEPT !.standby = TRUE]
  <2>2. last = IF /\ may /\ ~flew.blocked /\ ~flew.standby /\ connected
                  /\ limit.mode = "simulation" \/ limit.home
               THEN d ELSE flew
        OBVIOUS
  <2> HIDE DEF woken, last
  <2>3. woken \in Station(n) /\ Projects(flew, woken)
        BY <2>1 DEF woken
  <2>4. ~flew.blocked => d \in Station(n) /\ Projects(flew, d)
        BY <2>3 DEF Station, Projects
  <2> HIDE DEF d
  <2> QED BY <1>6, <2>1, <2>2, <2>4
<1> HIDE DEF last
<1> QED BY <1>1, <1>2, <1>3, <1>4, <1>5, <1>6, <1>7, ProjectsTwice

LEMMA ConcatType ==
    ASSUME NEW A, NEW s \in Seq(A), NEW t \in Seq(A)
    PROVE  s \o t \in Seq(A)
BY ConcatProperties

LEMMA ObserveMediaType ==
    ASSUME NEW n \in Nat, Env, NEW c \in Station(n)
    PROVE  ObserveMedia(c) \in Station(n) /\ Projects(c, ObserveMedia(c))
<1> DEFINE flying == IF Active(c) THEN ReportPoints(c) ELSE c
           events == [k \in DOMAIN c.photos |-> PointEvents(c.photos[k])]
           after == [k \in DOMAIN c.photos |-> PointsReported(c.photos[k])]
           photos == Within(after, {m \in Range(after) : m.reported < m.size})
           out == flying.out \o FlattenSeq(events)
           d == [flying EXCEPT !.photos = photos, !.out = out]
<1>1. flying \in Station(n) /\ Projects(c, flying)
  <2>1. Projects(c, c)
        BY DEF Projects
  <2> QED BY <2>1, ReportPointsType DEF Active
<1>2. ObserveMedia(c) = Flush(d)
      BY DEF ObserveMedia
<1>3. /\ c.photos \in Seq(Inspections(n)) /\ Len(c.photos) \in Nat
      /\ DOMAIN c.photos = 1..Len(c.photos)
      /\ \A k \in 1..Len(c.photos) : c.photos[k] \in Inspections(n)
  <2>1. c.photos \in Seq(Inspections(n))
        BY DEF Station
  <2> QED BY <2>1, LenProperties, ElementOfSeq
<1>4. \A k \in 1..Len(c.photos) : /\ PointsReported(c.photos[k]) \in Inspections(n)
                                  /\ PointEvents(c.photos[k]) \in Seq(Events(n))
  <2> TAKE k \in 1..Len(c.photos)
  <2>1. c.photos[k] \in Missions(n) /\ c.photos[k].kind = "inspection"
        BY <1>3 DEF Inspections
  <2>2. PointsReported(c.photos[k]) \in Inspections(n)
        BY <2>1, PointsReportedType DEF Inspections
  <2>3. PointEvents(c.photos[k]) \in Seq(Events(n))
        BY <2>1, PointEventsType
  <2> QED BY <2>2, <2>3
<1>5. events \in Seq(Seq(Events(n)))
  <2>1. /\ events = [k \in 1..Len(c.photos) |-> events[k]]
        /\ \A k \in 1..Len(c.photos) : events[k] \in Seq(Events(n))
        BY <1>3, <1>4
  <2> HIDE DEF events
  <2> QED BY <1>3, <2>1, MapSeq
<1>6. after \in Seq(Inspections(n))
  <2>1. /\ after = [k \in 1..Len(c.photos) |-> after[k]]
        /\ \A k \in 1..Len(c.photos) : after[k] \in Inspections(n)
        BY <1>3, <1>4
  <2> HIDE DEF after
  <2> QED BY <1>3, <2>1, MapSeq
<1> HIDE DEF events, after, flying
<1>7. photos \in Seq(Inspections(n))
      BY <1>6, WithinSeq
<1>8. out \in Seq(Events(n))
  <2>1. FlattenSeq(events) \in Seq(Events(n)) /\ flying.out \in Seq(Events(n))
        BY <1>1, <1>5, FlattenType DEF Station
  <2> QED BY <2>1, ConcatProperties
<1> HIDE DEF photos, out
<1>9. d \in Station(n) /\ Projects(flying, d)
      BY <1>1, <1>7, <1>8 DEF Station, Projects
<1> HIDE DEF d
<1>10. Flush(d) \in Station(n) /\ Projects(d, Flush(d))
       BY <1>9, FlushType
<1> QED BY <1>1, <1>2, <1>9, <1>10, ProjectsTwice

LEMMA CaughtType ==
    ASSUME NEW n \in Nat, Env, NEW m \in Inspections(n), NEW i \in 1..limit.points
    PROVE  [m EXCEPT !.reached = Max({@, i})] \in Inspections(n)
<1> DEFINE r == Max({m.reached, i})
<1>1. /\ m.reached \in 0..MaxPoints /\ m.reported \in 0..MaxPoints /\ m.size = limit.points
      /\ m.reported <= m.reached /\ m.reached <= m.size /\ m.size \in 0..MaxPoints
      /\ MaxPoints \in Nat
      BY ProjectorAssumption DEF Inspections, Missions
<1>2. r = IF m.reached >= i THEN m.reached ELSE i
      BY <1>1, MaxOfTwo
<1> HIDE DEF r
<1>3. r \in 0..MaxPoints /\ m.reported <= r /\ r <= m.size
      BY <1>1, <1>2
<1>4. [m EXCEPT !.reached = Max({@, i})] = [m EXCEPT !.reached = r]
      BY DEF r, Inspections, Missions
<1> QED BY <1>3, <1>4 DEF Inspections, Missions

LEMMA ObserveCaptureType ==
    ASSUME NEW n \in Nat, Env, NEW c \in Station(n), NEW ticket, NEW i \in 1..limit.points
    PROVE  ObserveCapture(c, ticket, i) \in Station(n) /\ Projects(c, ObserveCapture(c, ticket, i))
<1> DEFINE of(m) == m.kind = "inspection" /\ m.ticket = ticket
           reached(m) == IF of(m) THEN [m EXCEPT !.reached = Max({@, i})] ELSE m
           report(m) == IF of(m) THEN PointsReported(m) ELSE m
           Q == Seq(Inspections(n))
           all(ms) == [k \in DOMAIN ms |-> reached(ms[k])]
           mine(ms) == Within(all(ms), {m \in Range(all(ms)) : of(m)})
           reports(ms) == [k \in DOMAIN ms |-> report(ms[k])]
           waiting == all(c.waiting)
           photos == all(c.photos)
           later == IF of(c.mission) THEN <<>> ELSE mine(c.waiting) \o mine(c.photos)
           mission == reached(c.mission)
           now == [c EXCEPT !.mission = mission, !.waiting = waiting, !.photos = photos]
           events == [k \in DOMAIN later |-> PointEvents(later[k])]
           out == c.out \o FlattenSeq(events)
           w == reports(waiting)
           p == reports(photos)
           other == [now EXCEPT !.waiting = w, !.photos = p, !.out = out]
           d == IF of(c.mission) THEN ReportPoints(now) ELSE other
<1>1. ObserveCapture(c, ticket, i) = Finish(d)
  <2>1. now.waiting = waiting /\ now.photos = photos /\ now.out = c.out
        BY DEF Station
  <2>2. [now EXCEPT !.waiting = reports(now.waiting), !.photos = reports(now.photos),
                    !.out = now.out \o FlattenSeq(events)] = other
    <3> DEFINE f == FlattenSeq(events)
    <3>1. reports(now.waiting) = w /\ reports(now.photos) = p /\ now.out \o f = c.out \o f
      <4> HIDE DEF reports, f, now, waiting, photos
      <4> QED BY <2>1
    <3> HIDE DEF reports, f, now, w, p
    <3> QED BY <3>1 DEF f
  <2>3. [c EXCEPT !.mission = reached(c.mission), !.waiting = all(c.waiting),
                  !.photos = all(c.photos)] = now
        OBVIOUS
  <2> QED BY <2>2, <2>3 DEF ObserveCapture
<1>2. \A m \in Inspections(n) : reached(m) \in Inspections(n)
      BY CaughtType
<1>3. \A m \in Inspections(n) : report(m) \in Inspections(n) /\ PointEvents(m) \in Seq(Events(n))
  <2> TAKE m \in Inspections(n)
  <2>1. m \in Missions(n) /\ m.kind = "inspection"
        BY DEF Inspections
  <2>2. PointsReported(m) \in Inspections(n)
        BY <2>1, PointsReportedType DEF Inspections
  <2>3. PointEvents(m) \in Seq(Events(n))
        BY <2>1, PointEventsType
  <2> QED BY <2>2, <2>3
<1> HIDE DEF reached, report
<1>4. \A ms \in Q : all(ms) \in Q /\ reports(ms) \in Q
  <2> TAKE ms \in Q
  <2>1. /\ Len(ms) \in Nat /\ DOMAIN ms = 1..Len(ms)
        /\ \A k \in 1..Len(ms) : ms[k] \in Inspections(n)
        BY LenProperties, ElementOfSeq
  <2> DEFINE a == all(ms)
             b == reports(ms)
  <2>2. /\ a = [k \in 1..Len(ms) |-> a[k]] /\ \A k \in 1..Len(ms) : a[k] \in Inspections(n)
        /\ b = [k \in 1..Len(ms) |-> b[k]] /\ \A k \in 1..Len(ms) : b[k] \in Inspections(n)
        BY <1>2, <1>3, <2>1
  <2> HIDE DEF a, b
  <2>3. a \in Q /\ b \in Q
        BY <2>1, <2>2, MapSeq
  <2> QED BY <2>3 DEF a, b
<1>5. /\ c.waiting \in Q /\ c.photos \in Q /\ c.mission \in Missions(n)
      /\ c.out \in Seq(Events(n))
      BY DEF Station
<1> HIDE DEF all, reports
<1>6. waiting \in Q /\ photos \in Q /\ w \in Q /\ p \in Q
      BY <1>4, <1>5
<1>7. later \in Q
  <2>1. \A ms \in Q : mine(ms) \in Q
    <3> TAKE ms \in Q
    <3> DEFINE T == {m \in Range(all(ms)) : of(m)}
    <3>1. all(ms) \in Q
          BY <1>4
    <3> HIDE DEF T, of
    <3> QED BY <3>1, WithinSeq DEF T
  <2> HIDE DEF mine
  <2>2. mine(c.waiting) \in Q /\ mine(c.photos) \in Q
        BY <1>5, <2>1
  <2>3. mine(c.waiting) \o mine(c.photos) \in Q
        BY <2>2, ConcatType
  <2>4. <<>> \in Q
        BY EmptySeq
  <2> QED BY <2>3, <2>4
<1> HIDE DEF later
<1>8. events \in Seq(Seq(Events(n)))
  <2>1. /\ Len(later) \in Nat /\ DOMAIN later = 1..Len(later)
        /\ \A k \in 1..Len(later) : later[k] \in Inspections(n)
        BY <1>7, LenProperties, ElementOfSeq
  <2>2. /\ events = [k \in 1..Len(later) |-> events[k]]
        /\ \A k \in 1..Len(later) : events[k] \in Seq(Events(n))
        BY <1>3, <2>1
  <2> HIDE DEF events
  <2> QED BY <2>1, <2>2, MapSeq
<1> HIDE DEF events
<1>9. out \in Seq(Events(n))
  <2>1. FlattenSeq(events) \in Seq(Events(n))
        BY <1>8, FlattenType
  <2> QED BY <1>5, <2>1, ConcatProperties
<1>10. mission \in Missions(n) /\ (of(c.mission) => mission.kind # "none")
  <2>1. CASE of(c.mission)
    <3>1. c.mission \in Inspections(n)
          BY <1>5, <2>1 DEF Inspections
    <3>2. mission \in Inspections(n)
          BY <1>2, <3>1
    <3> QED BY <3>2 DEF Inspections
  <2>2. CASE ~of(c.mission)
        BY <1>5, <2>2 DEF reached
  <2> QED BY <2>1, <2>2
<1> HIDE DEF waiting, photos, w, p, out, mission, of
<1>11. now \in Station(n) /\ Projects(c, now) /\ now.mission = mission
       BY <1>6, <1>10 DEF Station, Projects
<1> HIDE DEF now
<1>12. other \in Station(n) /\ Projects(now, other)
       BY <1>6, <1>9, <1>11 DEF Station, Projects
<1> HIDE DEF other
<1>13. d \in Station(n) /\ Projects(now, d)
  <2>1. of(c.mission) => /\ ReportPoints(now) \in Station(n)
                         /\ Projects(now, ReportPoints(now))
        BY <1>10, <1>11, ReportPointsType
  <2> QED BY <1>12, <2>1
<1> HIDE DEF d
<1>14. Finish(d) \in Station(n) /\ Projects(d, Finish(d))
       BY <1>13, FinishType
<1> QED BY <1>1, <1>11, <1>13, <1>14, ProjectsTwice

(***************************************************************************)
(* Results are consumed one after the other.                               *)
(***************************************************************************)
LEMMA MaxUpTo ==
    ASSUME NEW n \in Nat, NEW s \in SUBSET (1..(n + 1)), s # {}
    PROVE  /\ Max(s) \in s
           /\ n + 1 \in s => Max(s) = n + 1
<1>1. s \in SUBSET Int /\ \A x \in s : x <= n + 1
      OBVIOUS
<1>2. Max(s) \in s /\ \A y \in s : y <= Max(s)
  <2>1. n + 1 \in Int
        OBVIOUS
  <2> QED BY <1>1, <2>1, MaxOf
<1>3. ASSUME n + 1 \in s PROVE Max(s) = n + 1
  <2>1. n + 1 <= Max(s) /\ Max(s) \in 1..(n + 1)
        BY <1>2, <1>3
  <2> QED BY <2>1
<1> QED BY <1>2, <1>3

\* The function by which the results q[1..n] are folded.
FoldOf(F, c, q, n) ==
    F = [s \in SUBSET (1..n) |->
            IF s = {} THEN c ELSE Consumed(F[s \ {Max(s)}], q[Max(s)])]

LEMMA FoldExists ==
    ASSUME NEW c, NEW q, NEW n \in Nat
    PROVE  \E F : FoldOf(F, c, q, n)
<1> DEFINE Fold(F, m) == F = [s \in SUBSET (1..m) |->
                          IF s = {} THEN c ELSE Consumed(F[s \ {Max(s)}], q[Max(s)])]
           S == {m \in Nat : \E F : Fold(F, m)}
<1>1. 0 \in S
  <2> DEFINE F == [s \in SUBSET (1..0) |-> c]
  <2>1. 1..0 = {}
        OBVIOUS
  <2>2. Fold(F, 0)
        BY <2>1
  <2> QED BY <2>2
<1>2. \A m \in Nat : m \in S => m + 1 \in S
  <2> SUFFICES ASSUME NEW m \in Nat, m \in S PROVE m + 1 \in S
      OBVIOUS
  <2>1. PICK F : Fold(F, m)
        OBVIOUS
  <2>2. \A s \in SUBSET (1..m) :
            F[s] = IF s = {} THEN c ELSE Consumed(F[s \ {Max(s)}], q[Max(s)])
        BY <2>1, Zenon
  <2> DEFINE G == [s \in SUBSET (1..(m + 1)) |->
                      IF m + 1 \in s THEN Consumed(F[s \ {m + 1}], q[m + 1]) ELSE F[s]]
  <2>3. \A s \in SUBSET (1..(m + 1)) :
            G[s] = IF s = {} THEN c ELSE Consumed(G[s \ {Max(s)}], q[Max(s)])
    <3> TAKE s \in SUBSET (1..(m + 1))
    <3>1. CASE m + 1 \in s
      <4>1. Max(s) = m + 1 /\ s # {}
            BY <3>1, MaxUpTo
      <4>2. s \ {m + 1} \in SUBSET (1..(m + 1)) /\ m + 1 \notin s \ {m + 1}
            OBVIOUS
      <4>3. G[s \ {m + 1}] = F[s \ {m + 1}]
            BY <4>2
      <4>4. G[s] = Consumed(F[s \ {m + 1}], q[m + 1])
            BY <3>1
      <4> HIDE DEF G
      <4> QED BY <4>1, <4>3, <4>4
    <3>2. CASE m + 1 \notin s /\ s # {}
      <4>1. Max(s) \in s
            BY <3>2, MaxUpTo
      <4>2. s \in SUBSET (1..m)
            BY <3>2
      <4>3. s \ {Max(s)} \in SUBSET (1..(m + 1)) /\ m + 1 \notin s \ {Max(s)}
            BY <3>2
      <4>4. G[s \ {Max(s)}] = F[s \ {Max(s)}] /\ G[s] = F[s]
            BY <3>2, <4>3
      <4> HIDE DEF G
      <4> QED BY <2>2, <3>2, <4>2, <4>4
    <3>3. CASE s = {}
          BY <2>2, <3>3
    <3> QED BY <3>1, <3>2, <3>3
  <2>4. Fold(G, m + 1)
        BY <2>3
  <2>5. m + 1 \in Nat
        OBVIOUS
  <2> HIDE DEF Fold, G
  <2> QED BY <2>4, <2>5
<1> HIDE DEF S
<1>3. n \in S
      BY <1>1, <1>2, Induction
<1> QED BY <1>3 DEF S, FoldOf

\* What every result preserves, consuming all of them preserves.
LEMMA ConsumeAll ==
    ASSUME NEW A, NEW q \in Seq(A), NEW T, NEW c \in T,
           \A d \in T, r \in A : Consumed(d, r) \in T
    PROVE  FoldLeft(Consumed, c, q) \in T
<1>0. Len(q) \in Nat /\ DOMAIN q = 1..Len(q) /\ \A i \in 1..Len(q) : q[i] \in A
      BY LenProperties, ElementOfSeq
<1> DEFINE Fold(F) == F = [s \in SUBSET (1..Len(q)) |->
                          IF s = {} THEN c ELSE Consumed(F[s \ {Max(s)}], q[Max(s)])]
           G == CHOOSE F : Fold(F)
<1>1. FoldLeft(Consumed, c, q) = G[1..Len(q)]
      BY <1>0 DEF FoldLeft, MapThenFoldSet
<1>2. Fold(G)
  <2>1. \E F : Fold(F)
    <3> DEFINE n == Len(q)
    <3>1. n \in Nat
          BY <1>0
    <3> HIDE DEF n, Fold
    <3>2. \E F : FoldOf(F, c, q, n)
          BY <3>1, FoldExists
    <3>3. PICK F : FoldOf(F, c, q, n)
          BY <3>2
    <3>4. Fold(F)
          BY <3>3 DEF FoldOf, n, Fold
    <3> QED BY <3>4
  <2> HIDE DEF Fold
  <2> QED BY <2>1
<1> HIDE DEF G
<1>3. \A s \in SUBSET (1..Len(q)) :
            G[s] = IF s = {} THEN c ELSE Consumed(G[s \ {Max(s)}], q[Max(s)])
      BY <1>2, Zenon
<1> DEFINE S == {n \in Nat : n <= Len(q) => G[1..n] \in T}
<1>4. 0 \in S
  <2>1. 1..0 = {}
        OBVIOUS
  <2>2. G[{}] = c
        BY <1>3
  <2> QED BY <2>1, <2>2
<1>5. \A n \in Nat : n \in S => n + 1 \in S
  <2> SUFFICES ASSUME NEW n \in Nat, n \in S PROVE n + 1 \in S
      OBVIOUS
  <2>0. n + 1 \in Nat /\ (n <= Len(q) => G[1..n] \in T)
        OBVIOUS
  <2> SUFFICES ASSUME n + 1 <= Len(q) PROVE G[1..(n + 1)] \in T
      BY <2>0
  <2>1. G[1..n] \in T
        BY <1>0, <2>0
  <2> DEFINE s == 1..(n + 1)
  <2>a. n + 1 \in s
        OBVIOUS
  <2>2. s \in SUBSET (1..(n + 1)) /\ s # {} /\ n + 1 \in s
        BY <2>a
  <2>3. Max(s) = n + 1
        BY <2>2, MaxUpTo
  <2>4. s \ {n + 1} = 1..n
        OBVIOUS
  <2>5. s \in SUBSET (1..Len(q)) /\ n + 1 \in 1..Len(q)
        BY <1>0
  <2> HIDE DEF s
  <2>6. G[s] = Consumed(G[1..n], q[n + 1])
        BY <1>3, <2>2, <2>3, <2>4, <2>5
  <2> QED BY <1>0, <2>1, <2>5, <2>6 DEF s
<1> HIDE DEF S
<1>6. Len(q) \in S
      BY <1>0, <1>4, <1>5, Induction
<1> QED BY <1>0, <1>1, <1>6 DEF S

(***************************************************************************)
(* The window.  A station is well formed when its tickets are those of its *)
(* own orders, and standby is withheld from its sequence.                  *)
(***************************************************************************)
Withheld(c) == c.seq # NoSequence => c.blocked /\ ~c.standby
Well(c) == Len(c.orders) \in Nat /\ c \in Station(Len(c.orders)) /\ Withheld(c)

\* Orders are only added.
Follows(c, d) ==
    /\ Len(c.orders) <= Len(d.orders)
    /\ \A i \in 1..Len(c.orders) : d.orders[i] = c.orders[i]
    /\ d.handled = c.handled

LEMMA FollowsTwice ==
    ASSUME NEW c, NEW d, NEW e, Well(c), Well(d), Well(e), Follows(c, d), Follows(d, e)
    PROVE  Follows(c, e)
BY DEF Follows, Well

LEMMA SeqGrows ==
    ASSUME NEW A, NEW B, A \subseteq B
    PROVE  Seq(A) \subseteq Seq(B)
<1> SUFFICES ASSUME NEW s \in Seq(A) PROVE s \in Seq(B)
    OBVIOUS
<1>1. Len(s) \in Nat /\ DOMAIN s = 1..Len(s) /\ s = [i \in 1..Len(s) |-> s[i]]
      /\ \A i \in 1..Len(s) : s[i] \in B
      BY LenProperties, ElementOfSeq
<1> QED BY <1>1, SeqDef

LEMMA StationGrows ==
    ASSUME NEW n \in Nat, NEW m \in Nat, n <= m
    PROVE  /\ Station(n) \subseteq Station(m)
           /\ Events(n) \subseteq Events(m) /\ Seq(Events(n)) \subseteq Seq(Events(m))
           /\ Results(n) \subseteq Results(m)
<1>1. 0..n \subseteq 0..m /\ 1..n \subseteq 1..m
      OBVIOUS
<1>2. Missions(n) \subseteq Missions(m)
      BY <1>1 DEF Missions
<1>3. Inspections(n) \subseteq Inspections(m)
      BY <1>2 DEF Inspections
<1>4. Events(n) \subseteq Events(m)
      BY <1>1 DEF Events
<1>5. Sequences(n) \subseteq Sequences(m)
      BY <1>1 DEF Sequences
<1>6. Results(n) \subseteq Results(m)
      BY <1>1 DEF Results
<1>7. /\ Seq(Inspections(n)) \subseteq Seq(Inspections(m)) /\ Seq(Events(n)) \subseteq Seq(Events(m))
      /\ Seq(Results(n)) \subseteq Seq(Results(m)) /\ Seq(1..n) \subseteq Seq(1..m)
      BY <1>1, <1>3, <1>4, <1>6, SeqGrows
<1> DEFINE I(k) == Seq(Inspections(k))
           E(k) == Seq(Events(k))
           R(k) == Seq(Results(k))
           Q(k) == Seq(1..k)
           Z(k) == 0..k
<1>8. \A k : Station(k) =
        [seq : Sequences(k), frames : Seq(Frame), handled : Nat, running : BOOLEAN, active : Z(k),
         latched : BOOLEAN, staged : BOOLEAN, queue : Q(k), orders : Seq(Order),
         results : R(k), mission : Missions(k), waiting : I(k),
         photos : I(k), landing : Z(k), told : BOOLEAN, blocked : BOOLEAN,
         standby : BOOLEAN, parked : SUBSET Nat, out : E(k), woken : BOOLEAN]
      BY DEF Station
<1>9. /\ I(n) \subseteq I(m) /\ E(n) \subseteq E(m) /\ R(n) \subseteq R(m) /\ Q(n) \subseteq Q(m)
      /\ Z(n) \subseteq Z(m)
      BY <1>1, <1>7
<1> HIDE DEF I, E, R, Q, Z
<1>10. Station(n) \subseteq Station(m)
       BY <1>2, <1>5, <1>8, <1>9
<1> QED BY <1>4, <1>6, <1>7, <1>10

LEMMA NoSequenceType ==
    ASSUME NEW n \in Nat, limit \in Limits
    PROVE  /\ NoSequence \in Sequences(n) /\ NoSequence.kind = "none"
           /\ NoSequence.phase = "none" /\ NoSequence.command = NoCommand
           /\ NoSequence.ticket = NoTicket /\ NoSequence.delay = FALSE
           /\ NoCommand \in Command
<1>1. Len(limit.script) \in Nat
      BY LimitFacts, LenProperties
<1>2. 0 \in 0..n /\ NoCommand \in Command
      BY <1>1 DEF NoCommand, Command
<1>3. NoSequence \in Sequences(n)
      BY <1>2 DEF NoSequence, Sequences, Kind, Phase, NoTicket
<1> QED BY <1>2, <1>3 DEF NoSequence

\* The fields that a request leaves alone.
Leaves(c, d) ==
    /\ d.seq = c.seq /\ d.frames = c.frames /\ d.parked = c.parked /\ d.results = c.results
    /\ d.blocked = c.blocked /\ d.standby = c.standby

LEMMA NewSequenceType ==
    ASSUME NEW n \in Nat, limit \in Limits, NEW kind \in Kind, NEW phase \in Phase,
           NEW k \in Command
    PROVE  LET q == NewSequence(kind, phase, k)
           IN  /\ q \in Sequences(n) /\ q.kind = kind /\ q.phase = phase /\ q.command = k
               /\ q.ticket = NoTicket /\ q.delay = FALSE
<1> DEFINE b == NoSequence
           q == NewSequence(kind, phase, k)
<1>1. b \in Sequences(n) /\ b.ticket = NoTicket /\ b.delay = FALSE
      BY NoSequenceType
<1>2. q = [b EXCEPT !.kind = kind, !.phase = phase, !.command = k]
      BY DEF NewSequence
<1> HIDE DEF b, q
<1>3. /\ q \in Sequences(n) /\ q.kind = kind /\ q.phase = phase /\ q.command = k
      /\ q.ticket = NoTicket /\ q.delay = FALSE
      BY <1>1, <1>2 DEF Sequences
<1> QED BY <1>3 DEF q

LEMMA EnqueueType ==
    ASSUME NEW c, Len(c.orders) \in Nat, c \in Station(Len(c.orders)), NEW name \in Name,
           NEW k \in Command
    PROVE  LET d == Enqueue(c, name, k)
               n == Len(c.orders) + 1
           IN  /\ Len(d.orders) = n /\ n \in Nat /\ NextTicket(c) = n
               /\ d \in Station(n) /\ d.orders[n] = [name |-> name, command |-> k]
               /\ Follows(c, d)
               /\ Leaves(c, d)
<1> DEFINE n == Len(c.orders) + 1
           order == [name |-> name, command |-> k]
           orders == Append(c.orders, order)
           queue == Append(c.queue, n)
           d == Enqueue(c, name, k)
<1>1. n \in Nat /\ Len(c.orders) <= n /\ n \in 1..n
      OBVIOUS
<1>2. c \in Station(n) /\ NextTicket(c) = n
      BY <1>1, StationGrows DEF NextTicket
<1>3. order \in Order
      BY DEF Order
<1>4. c.orders \in Seq(Order) /\ c.queue \in Seq(1..n)
      BY <1>2 DEF Station
<1> HIDE DEF order
<1>5. /\ orders \in Seq(Order) /\ Len(orders) = n /\ orders[n] = order
      /\ \A i \in 1..Len(c.orders) : orders[i] = c.orders[i]
      BY <1>3, <1>4, AppendProperties
<1>6. queue \in Seq(1..n)
      BY <1>1, <1>4, AppendProperties
<1>7. d = [c EXCEPT !.queue = queue, !.orders = orders]
      BY <1>2 DEF Enqueue, order
<1> HIDE DEF d, queue, orders
<1>8. d \in Station(n) /\ d.orders = orders /\ d.queue = queue /\ d.handled = c.handled
      BY <1>2, <1>5, <1>6, <1>7 DEF Station
<1> HIDE DEF n
<1>9. Follows(c, d)
      BY <1>1, <1>5, <1>8 DEF Follows
<1>10. Leaves(c, d)
      BY <1>2, <1>7 DEF Leaves, Station
<1> QED BY <1>1, <1>2, <1>5, <1>8, <1>9, <1>10 DEF order, d, n

\* The request of an answered dialog, and the ticket bound to its sequence.
Asked(f) ==
    CASE f.for \in {"takeoff", "first"} -> "takeoff"
      [] f.for = "waypoints" -> "waypoints"
      [] OTHER -> "land"

Requested(c, f, yes) ==
    CASE ~yes -> c
      [] yes /\ Asked(f) = "waypoints" ->
             [Enqueue(c, Asked(f), f.command) EXCEPT !.running = TRUE,
                                                     !.active = NextTicket(c)]
      [] OTHER -> Enqueue(c, Asked(f), f.command)

Binding(c, f, yes) ==
    [Requested(c, f, yes) EXCEPT !.seq.ticket = NextTicket(c),
                                 !.seq.phase = IF f.for = "first" THEN "takeoff" ELSE Asked(f)]

LEMMA EndSequenceWell ==
    ASSUME NEW c, Env, Well(c)
    PROVE  LET d == EndSequence(c)
           IN  /\ Well(d) /\ Follows(c, d) /\ d.orders = c.orders /\ d.frames = c.frames
               /\ d.parked = c.parked /\ d.seq = NoSequence /\ d.results = c.results
<1>1. NoSequence \in Sequences(Len(c.orders))
      BY NoSequenceType DEF Env, Place, Well
<1>2. EndSequence(c) = [c EXCEPT !.seq = NoSequence, !.blocked = FALSE]
      BY DEF EndSequence, ReleaseStandby, Well, Station
<1> DEFINE d == EndSequence(c)
           n == Len(c.orders)
<1>3. c \in Station(n) /\ n \in Nat
      BY DEF Well
<1> HIDE DEF d, n
<1>4. d = [c EXCEPT !.seq = NoSequence, !.blocked = FALSE]
      BY <1>2 DEF d
<1>5. /\ d \in Station(n) /\ d.orders = c.orders /\ d.frames = c.frames
      /\ d.parked = c.parked /\ d.seq = NoSequence /\ d.results = c.results
      /\ d.handled = c.handled
      BY <1>1, <1>3, <1>4 DEF Station, n
<1>6. Well(d) /\ Follows(c, d)
      BY <1>3, <1>5 DEF Well, Withheld, Follows, n
<1> QED BY <1>5, <1>6 DEF d

LEMMA RequestedWell ==
    ASSUME NEW c, Env, Well(c), NEW f \in Frame, NEW yes \in BOOLEAN
    PROVE  LET d == Requested(c, f, yes)
               n == Len(c.orders) + 1
           IN  /\ Well(d) /\ Follows(c, d) /\ d.seq = c.seq /\ d.frames = c.frames
               /\ d.parked = c.parked /\ d.blocked = c.blocked /\ d.standby = c.standby
               /\ d.results = c.results
               /\ ~yes => d = c
               /\ yes => /\ Len(d.orders) = n
                         /\ d.orders[n] = [name |-> Asked(f), command |-> f.command]
               /\ NextTicket(c) = n
<1> DEFINE n == Len(c.orders) + 1
           e == Enqueue(c, Asked(f), f.command)
           d == Requested(c, f, yes)
<1>1. Asked(f) \in Name /\ f.command \in Command /\ Len(c.orders) \in Nat
      /\ c \in Station(Len(c.orders))
      BY DEF Asked, Name, Frame, Well
<1>2. /\ Len(e.orders) = n /\ n \in Nat /\ NextTicket(c) = n
      /\ e \in Station(n) /\ e.orders[n] = [name |-> Asked(f), command |-> f.command]
      /\ Follows(c, e)
      /\ Leaves(c, e)
  <2> DEFINE name == Asked(f)
             k == f.command
  <2>1. name \in Name /\ k \in Command /\ e = Enqueue(c, name, k)
        BY <1>1
  <2> HIDE DEF name, k, e
  <2>3. Len(c.orders) \in Nat /\ c \in Station(Len(c.orders))
        BY <1>1
  <2>2. /\ Len(e.orders) = n /\ n \in Nat /\ NextTicket(c) = n
        /\ e \in Station(n) /\ e.orders[n] = [name |-> name, command |-> k]
        /\ Follows(c, e)
        /\ Leaves(c, e)
        BY <2>1, <2>3, EnqueueType
  <2> QED BY <2>2 DEF name, k
<1> HIDE DEF e
<1>3. /\ e.seq = c.seq /\ e.frames = c.frames /\ e.parked = c.parked /\ e.blocked = c.blocked
      /\ e.standby = c.standby /\ e.results = c.results /\ e.handled = c.handled
      BY <1>2 DEF Leaves, Follows
<1>4. CASE ~yes
  <2>1. d = c
        BY <1>4 DEF Requested
  <2> QED BY <1>2, <1>4, <2>1 DEF Follows, Well
<1>5. CASE yes /\ Asked(f) = "waypoints"
  <2>1. d = [e EXCEPT !.running = TRUE, !.active = n]
        BY <1>2, <1>5 DEF Requested, e
  <2>2. n \in 0..n
        BY <1>2
  <2> HIDE DEF d, n
  <2>3. d \in Station(n) /\ d.orders = e.orders
        BY <1>2, <2>1, <2>2 DEF Station
  <2>4. /\ d.seq = e.seq /\ d.frames = e.frames /\ d.parked = e.parked /\ d.blocked = e.blocked
        /\ d.standby = e.standby /\ d.results = e.results /\ d.handled = e.handled
        BY <1>2, <2>1 DEF Station
  <2> QED BY <1>2, <1>3, <1>5, <2>3, <2>4 DEF Well, Withheld, Follows, n, d
<1>6. CASE yes /\ Asked(f) # "waypoints"
  <2>1. d = e
        BY <1>6 DEF Requested, e
  <2> HIDE DEF d
  <2> QED BY <1>2, <1>3, <1>6, <2>1 DEF Well, Withheld, d
<1> QED BY <1>4, <1>5, <1>6

LEMMA BindingWell ==
    ASSUME NEW c, Env, Well(c), NEW f \in Frame, c.seq # NoSequence
    PROVE  LET d == Binding(c, f, TRUE)
               e == Requested(c, f, TRUE)
               phase == IF f.for = "first" THEN "takeoff" ELSE Asked(f)
               n == Len(c.orders) + 1
           IN  /\ Well(d) /\ Follows(c, d) /\ d.orders = e.orders /\ d.frames = c.frames
               /\ d.parked = c.parked /\ d.results = c.results
               /\ d.seq = [c.seq EXCEPT !.ticket = n, !.phase = phase]
               /\ d.blocked = c.blocked /\ d.standby = c.standby
<1> DEFINE n == Len(c.orders) + 1
           e == Requested(c, f, TRUE)
           phase == IF f.for = "first" THEN "takeoff" ELSE Asked(f)
           d == Binding(c, f, TRUE)
           seq == [c.seq EXCEPT !.ticket = n, !.phase = phase]
<1>1. /\ Well(e) /\ Follows(c, e) /\ e.seq = c.seq /\ e.frames = c.frames
      /\ e.parked = c.parked /\ e.blocked = c.blocked /\ e.standby = c.standby
      /\ e.results = c.results /\ Len(e.orders) = n /\ NextTicket(c) = n
      BY RequestedWell
<1>2. phase \in Phase
      BY DEF Phase, Asked
<1>3. d = [e EXCEPT !.seq = seq]
      BY <1>1 DEF Binding, Well, Station
<1> HIDE DEF e, phase
<1>4. n \in Nat /\ n \in 0..n /\ c.seq \in Sequences(n)
      BY <1>1 DEF Well, Station
<1>5. seq \in Sequences(n)
      BY <1>2, <1>4 DEF Sequences
<1> HIDE DEF d, seq, n
<1>6. e \in Station(n) /\ Withheld(e)
      BY <1>1 DEF Well
<1>7. d \in Station(n)
      BY <1>3, <1>5, <1>6 DEF Station
<1>8. /\ d.orders = e.orders /\ d.frames = e.frames /\ d.seq = seq /\ d.handled = e.handled
      /\ d.parked = e.parked /\ d.blocked = e.blocked /\ d.standby = e.standby
      /\ d.results = e.results
      BY <1>3, <1>6 DEF Station
<1>9. Well(d) /\ Follows(c, d)
      BY <1>1, <1>6, <1>7, <1>8, <1>4 DEF Well, Withheld, Follows
<1> QED BY <1>1, <1>8, <1>9 DEF d, e, seq, phase, n

\* What a handler keeps until its next refresh.
Steady(c, d) == d.frames = c.frames /\ d.parked = c.parked /\ d.results = c.results

LEMMA BeginMissionWell ==
    ASSUME NEW c, Env, Well(c), NEW t \in 1..Len(c.orders), NEW kind \in MissionKind \ {"none"},
           NEW size \in 0..MaxPoints, kind = "inspection" => size = limit.points
    PROVE  LET d == BeginMission(c, t, kind, size)
           IN  Well(d) /\ Follows(c, d) /\ Leaves(c, d) /\ d.orders = c.orders
<1> DEFINE n == Len(c.orders)
           m == [NoMission EXCEPT !.ticket = t, !.kind = kind, !.size = size, !.no = address.no]
           d == BeginMission(c, t, kind, size)
<1>1. c \in Station(n) /\ n \in Nat
      BY DEF Well
<1>2. NoMission \in Missions(n) /\ address.no \in Numbers
      BY <1>1, NoMissionType, AddressFacts
<1>3. m \in Missions(n)
  <2>1. t \in 0..n /\ t # 0
        BY <1>1
  <2>2. NoMission.reached = 0 /\ NoMission.reported = 0 /\ NoMission.started = FALSE
        BY DEF NoMission
  <2> DEFINE b == NoMission
  <2>3. b \in Missions(n) /\ b.reached = 0 /\ b.reported = 0 /\ b.started = FALSE
        /\ m = [b EXCEPT !.ticket = t, !.kind = kind, !.size = size, !.no = address.no]
        BY <1>2, <2>2
  <2>4. limit.points \in 0..MaxPoints /\ MaxPoints \in Nat
        BY LimitFacts DEF Env, Place
  <2> HIDE DEF b, m, n
  <2>5. /\ m.ticket = t /\ m.kind = kind /\ m.size = size /\ m.reached = 0 /\ m.reported = 0
        /\ m.started = FALSE
        BY <2>3 DEF Missions
  <2>6. m \in [ticket : 0..n, kind : MissionKind, size : 0..MaxPoints, no : Numbers,
                started : BOOLEAN, reached : 0..MaxPoints, reported : 0..MaxPoints,
                flown : BOOLEAN, landed : BOOLEAN, result : Outcomes]
        BY <1>2, <2>1, <2>3, <2>4 DEF Missions
  <2>7. m.reported <= m.reached /\ m.reached <= m.size
        BY <2>4, <2>5
  <2> QED BY <2>1, <2>5, <2>6, <2>7 DEF Missions
<1>4. d = [c EXCEPT !.mission = m]
      BY DEF BeginMission
<1> HIDE DEF d, m, n
<1>5. d \in Station(n) /\ Leaves(c, d) /\ d.orders = c.orders /\ d.handled = c.handled
      BY <1>1, <1>3, <1>4 DEF Station, Leaves
<1> QED BY <1>1, <1>5 DEF Well, Withheld, Follows, Leaves, n, d

LEMMA BeginLandingWell ==
    ASSUME NEW c, Env, Well(c), NEW t \in 1..Len(c.orders)
    PROVE  LET d == BeginLanding(c, t)
           IN  Well(d) /\ Follows(c, d) /\ Leaves(c, d) /\ d.orders = c.orders
<1> DEFINE n == Len(c.orders)
           d == BeginLanding(c, t)
<1>1. c \in Station(n) /\ n \in Nat /\ t \in 0..n
      BY DEF Well
<1>2. d = [c EXCEPT !.landing = t, !.told = FALSE]
      BY DEF BeginLanding
<1> HIDE DEF d, n
<1>3. d \in Station(n) /\ Leaves(c, d) /\ d.orders = c.orders /\ d.handled = c.handled
      BY <1>1, <1>2 DEF Station, Leaves
<1> QED BY <1>1, <1>3 DEF Well, Withheld, Follows, Leaves, n, d

\* A new sequence is started with standby withheld.
LEMMA StartWell ==
    ASSUME NEW c, Env, Well(c), NEW q \in Sequences(Len(c.orders))
    PROVE  LET d == [BlockStandby(c) EXCEPT !.seq = q]
           IN  /\ Well(d) /\ Follows(c, d) /\ Steady(c, d) /\ d.orders = c.orders
               /\ d.seq = q
<1> DEFINE n == Len(c.orders)
           d == [BlockStandby(c) EXCEPT !.seq = q]
<1>1. c \in Station(n) /\ n \in Nat /\ q \in Sequences(n)
      BY DEF Well
<1>2. d = [c EXCEPT !.blocked = TRUE, !.standby = FALSE, !.seq = q]
      BY DEF BlockStandby
<1> HIDE DEF d, n
<1>3. /\ d \in Station(n) /\ Steady(c, d) /\ d.orders = c.orders /\ d.handled = c.handled
      /\ d.blocked /\ ~d.standby /\ d.seq = q
      BY <1>1, <1>2 DEF Station, Steady
<1> QED BY <1>1, <1>3 DEF Well, Withheld, Follows, n, d

LEMMA ContinueCases ==
    ASSUME NEW c, NEW f \in Frame, f.for # "command", NEW yes \in BOOLEAN
    PROVE  LET ticket == NextTicket(c)
               queued == Requested(c, f, yes)
               bound == Binding(c, f, yes)
               d == Continue(c, f, yes)
           IN  \/ f.for = "takeoff" /\ d = queued
               \/ f.for = "landing" /\ ~yes /\ d = c
               \/ /\ f.for = "landing" /\ yes
                  /\ \/ /\ limit.script[f.command] = "06"
                        /\ d = EndSequence(BeginLanding(queued, ticket))
                     \/ /\ limit.script[f.command] # "06"
                        /\ d = [BlockStandby(BeginLanding(queued, ticket)) EXCEPT
                                   !.seq = [NewSequence("emergency", "land", f.command) EXCEPT
                                               !.ticket = ticket]]
               \/ /\ f.for \in {"first", "waypoints", "land"}
                  /\ \/ ~Same(c, f) /\ d = queued
                     \/ Same(c, f) /\ ~yes /\ d = EndSequence(c)
                     \/ /\ Same(c, f) /\ yes
                        /\ \/ f.for = "first" /\ d = bound
                           \/ /\ f.for = "waypoints" /\ c.seq.kind = "inspection"
                              /\ d = BeginMission(bound, ticket, "inspection", limit.points)
                           \/ /\ f.for = "waypoints" /\ c.seq.kind # "inspection"
                              /\ d = BeginMission(bound, ticket, "return", 1)
                           \/ f.for = "land" /\ d = BeginLanding(bound, ticket)
<1>1. f.for \in {"takeoff", "first", "waypoints", "land", "landing"}
      BY DEF Frame, Waiting
<1>2. CASE f.for = "takeoff"
      BY <1>2 DEF Continue, Requested, Asked
<1>3. CASE f.for = "landing"
      BY <1>3 DEF Continue, Requested, Asked
<1>4. CASE f.for \in {"first", "waypoints", "land"} /\ ~Same(c, f)
      BY <1>4 DEF Continue, Requested, Asked
<1>5. CASE f.for \in {"first", "waypoints", "land"} /\ Same(c, f) /\ ~yes
      BY <1>5 DEF Continue
<1>6. CASE f.for = "first" /\ Same(c, f) /\ yes
      BY <1>6 DEF Continue, Requested, Asked, Binding
<1>7. CASE f.for = "waypoints" /\ Same(c, f) /\ yes
      BY <1>7 DEF Continue, Requested, Asked, Binding
<1>8. CASE f.for = "land" /\ Same(c, f) /\ yes
      BY <1>8 DEF Continue, Requested, Asked, Binding
<1> QED BY <1>1, <1>2, <1>3, <1>4, <1>5, <1>6, <1>7, <1>8

LEMMA RequestedSteady ==
    ASSUME NEW c, Env, Well(c), NEW f \in Frame, NEW yes \in BOOLEAN
    PROVE  Steady(c, Requested(c, f, yes))
BY RequestedWell DEF Steady

LEMMA ContinueWell ==
    ASSUME NEW c, Env, Well(c), NEW f \in Frame, f.for # "command", NEW yes \in BOOLEAN
    PROVE  LET d == Continue(c, f, yes)
           IN  Well(d) /\ Follows(c, d) /\ Steady(c, d)
<1> DEFINE ticket == NextTicket(c)
           queued == Requested(c, f, yes)
           bound == Binding(c, f, yes)
           landing == BeginLanding(queued, ticket)
           d == Continue(c, f, yes)
           n == Len(c.orders) + 1
<1>1. Well(queued) /\ Follows(c, queued) /\ Steady(c, queued) /\ ticket = n
      BY RequestedWell, RequestedSteady
<1>2. /\ yes => Len(queued.orders) = n /\ n \in Nat /\ ticket \in 1..Len(queued.orders)
      /\ f.command \in Command
  <2>1. yes => Len(queued.orders) = n
        BY RequestedWell
  <2>2. n \in Nat /\ n \in 1..n
        BY DEF Well
  <2>3. f.command \in Command
        BY DEF Frame
  <2> QED BY <1>1, <2>1, <2>2, <2>3
<1>3. CASE d = queued
      BY <1>1, <1>3
<1>4. CASE d = c
      BY <1>4 DEF Follows, Steady, Well
<1>5. CASE d = EndSequence(c)
      BY <1>5, EndSequenceWell DEF Steady
<1>6. yes => /\ Well(landing) /\ Follows(c, landing) /\ Steady(c, landing)
             /\ landing.orders = queued.orders
  <2> HAVE yes
  <2> HIDE DEF ticket, queued
  <2>1. /\ Well(landing) /\ Follows(queued, landing) /\ Leaves(queued, landing)
        /\ landing.orders = queued.orders
        BY <1>1, <1>2, BeginLandingWell
  <2>2. Follows(c, landing)
        BY <1>1, <2>1, FollowsTwice
  <2> QED BY <1>1, <2>1, <2>2 DEF Leaves, Steady
<1>7. CASE f.for = "landing" /\ yes /\ d = EndSequence(landing)
  <2> HIDE DEF landing, d
  <2>1. /\ Well(d) /\ Follows(landing, d) /\ Steady(landing, d)
        BY <1>6, <1>7, EndSequenceWell DEF Steady
  <2>2. Follows(c, d)
        BY <1>6, <1>7, <2>1, FollowsTwice
  <2> QED BY <1>6, <1>7, <2>1, <2>2 DEF Steady, d
<1>8. CASE /\ f.for = "landing" /\ yes
           /\ d = [BlockStandby(landing) EXCEPT
                      !.seq = [NewSequence("emergency", "land", f.command) EXCEPT
                                  !.ticket = ticket]]
  <2> DEFINE q == [NewSequence("emergency", "land", f.command) EXCEPT !.ticket = ticket]
  <2>0. "emergency" \in Kind /\ "land" \in Phase
        BY DEF Kind, Phase
  <2>1. NewSequence("emergency", "land", f.command) \in Sequences(n)
        BY <1>2, <1>8, <2>0, NewSequenceType DEF Env, Place
  <2> HIDE DEF landing, queued, d, ticket
  <2>2. ticket \in 0..n /\ Len(landing.orders) = n
        BY <1>1, <1>2, <1>6, <1>8
  <2> HIDE DEF n
  <2>3. q \in Sequences(n)
        BY <2>1, <2>2 DEF Sequences
  <2>4. d = [BlockStandby(landing) EXCEPT !.seq = q]
        BY <1>8
  <2> HIDE DEF q
  <2>7. Well(landing) /\ q \in Sequences(Len(landing.orders))
        BY <1>6, <1>8, <2>2, <2>3
  <2>5. Well(d) /\ Follows(landing, d) /\ Steady(landing, d)
        BY <2>4, <2>7, StartWell
  <2>6. Follows(c, d)
        BY <1>6, <1>8, <2>5, FollowsTwice
  <2> QED BY <1>6, <1>8, <2>5, <2>6 DEF Steady, d
<1>9. CASE Same(c, f) /\ yes /\ f.for \in {"first", "waypoints", "land"}
  <2>1. /\ Well(bound) /\ Follows(c, bound) /\ bound.orders = queued.orders
        /\ Steady(c, bound)
        BY <1>9, BindingWell DEF Steady, Same
  <2>2. ticket \in 1..Len(bound.orders)
        BY <1>2, <1>9, <2>1
  <2> HIDE DEF bound, ticket, queued
  <2>3. CASE d = bound
        BY <2>1, <2>3
  <2>4. CASE d = BeginLanding(bound, ticket)
    <3> HIDE DEF d
    <3>1. Well(d) /\ Follows(bound, d) /\ Leaves(bound, d)
          BY <2>1, <2>2, <2>4, BeginLandingWell
    <3>2. Follows(c, d)
          BY <2>1, <3>1, FollowsTwice
    <3> QED BY <2>1, <3>1, <3>2 DEF Leaves, Steady, d
  <2>5. CASE d = BeginMission(bound, ticket, "inspection", limit.points)
    <3> HIDE DEF d
    <3>1. limit.points \in 0..MaxPoints /\ "inspection" \in MissionKind \ {"none"}
          BY LimitFacts DEF Env, Place, MissionKind
    <3>2. Well(d) /\ Follows(bound, d) /\ Leaves(bound, d)
          BY <2>1, <2>2, <2>5, <3>1, BeginMissionWell
    <3>3. Follows(c, d)
          BY <2>1, <3>2, FollowsTwice
    <3> QED BY <2>1, <3>2, <3>3 DEF Leaves, Steady, d
  <2>6. CASE d = BeginMission(bound, ticket, "return", 1)
    <3> HIDE DEF d
    <3>1. 1 \in 0..MaxPoints /\ "return" \in MissionKind \ {"none"}
          BY LimitFacts DEF Env, Place, MissionKind
    <3>2. Well(d) /\ Follows(bound, d) /\ Leaves(bound, d)
          BY <2>1, <2>2, <2>6, <3>1, BeginMissionWell
    <3>3. Follows(c, d)
          BY <2>1, <3>2, FollowsTwice
    <3> QED BY <2>1, <3>2, <3>3 DEF Leaves, Steady, d
  <2>7. \/ d = bound \/ d = BeginLanding(bound, ticket)
        \/ d = BeginMission(bound, ticket, "inspection", limit.points)
        \/ d = BeginMission(bound, ticket, "return", 1)
        BY <1>9, ContinueCases DEF bound, ticket, queued
  <2> QED BY <2>3, <2>4, <2>5, <2>6, <2>7
<1>10. \/ d = queued \/ d = c \/ d = EndSequence(c)
       \/ f.for = "landing" /\ yes /\ d = EndSequence(landing)
       \/ /\ f.for = "landing" /\ yes
          /\ d = [BlockStandby(landing) EXCEPT
                      !.seq = [NewSequence("emergency", "land", f.command) EXCEPT
                                  !.ticket = ticket]]
       \/ Same(c, f) /\ yes /\ f.for \in {"first", "waypoints", "land"}
       BY ContinueCases
<1> HIDE DEF d, queued, landing, ticket
<1> QED BY <1>3, <1>4, <1>5, <1>7, <1>8, <1>9, <1>10

LEMMA AskWell ==
    ASSUME NEW c, Env, Well(c), NEW for \in Waiting \ {"command"}, NEW k \in Command
    PROVE  LET d == Ask(c, for, k)
               f == [for |-> for, command |-> k, answer |-> "open", seen |-> snap]
           IN  /\ f \in Frame
               /\ Well(d) /\ Follows(c, d) /\ d.parked = c.parked /\ d.results = c.results
               /\ Simulated => d = Continue(c, f, TRUE) /\ d.frames = c.frames
               /\ ~Simulated => /\ d.frames = Append(c.frames, f) /\ d.orders = c.orders
                                /\ d.seq = c.seq
                                /\ Len(d.frames) = Len(c.frames) + 1
<1> DEFINE d == Ask(c, for, k)
           f == [for |-> for, command |-> k, answer |-> "open", seen |-> snap]
           n == Len(c.orders)
<1>1. f \in Frame /\ f.for # "command"
      BY DEF Frame, Answer, Env
<1>2. CASE Simulated
  <2>1. d = Continue(c, f, TRUE)
        BY <1>2 DEF Ask
  <2> HIDE DEF d, f
  <2>2. Well(d) /\ Follows(c, d) /\ Steady(c, d)
        BY <1>1, <2>1, ContinueWell
  <2> QED BY <1>1, <1>2, <2>1, <2>2 DEF Steady, d, f
<1>3. CASE ~Simulated
  <2> DEFINE frames == Append(c.frames, f)
  <2>1. d = [c EXCEPT !.frames = frames]
        BY <1>3 DEF Ask
  <2>2. c \in Station(n) /\ n \in Nat /\ c.frames \in Seq(Frame)
        BY DEF Well, Station
  <2> HIDE DEF f, n
  <2>3. frames \in Seq(Frame) /\ Len(frames) = Len(c.frames) + 1
        BY <1>1, <2>2, AppendType
  <2> HIDE DEF d, frames
  <2>4. /\ d \in Station(n) /\ d.frames = frames /\ d.orders = c.orders /\ d.seq = c.seq
        /\ d.parked = c.parked /\ d.results = c.results /\ d.handled = c.handled
        /\ d.blocked = c.blocked /\ d.standby = c.standby
        BY <2>1, <2>2, <2>3 DEF Station
  <2>5. Well(d) /\ Follows(c, d)
        BY <2>2, <2>4 DEF Well, Withheld, Follows, n
  <2> QED BY <1>1, <1>3, <2>3, <2>4, <2>5 DEF d, f, frames
<1> QED BY <1>2, <1>3

(***************************************************************************)
(* Results, and the sequence they move on.                                 *)
(***************************************************************************)
LEMMA ProjectsWell ==
    ASSUME NEW c, Env, Well(c), NEW d \in Station(Len(c.orders)), Projects(c, d)
    PROVE  /\ Well(d) /\ Follows(c, d) /\ Steady(c, d) /\ d.orders = c.orders /\ d.seq = c.seq
           /\ d.queue = c.queue
<1>1. Len(d.orders) = Len(c.orders) /\ Withheld(d)
      BY DEF Projects, Withheld, Well
<1> QED BY <1>1 DEF Projects, Well, Follows, Steady

\* The phases after which waypoints may still be ordered.
Early == {"takeoff", "waypoints_pending", "waypoints_submitting"}

\* A sequence goes on, or is over.
Moves(q, p) ==
    \/ p = q \/ p = NoSequence
    \/ /\ q # NoSequence /\ p.command = q.command /\ p.kind = q.kind
       /\ p.phase \in Early => q.phase \in Early

\* A new phase of the sequence there is.
LEMMA PhaseWell ==
    ASSUME NEW c, Env, Well(c), c.seq # NoSequence, NEW phase \in Phase
    PROVE  LET d == [c EXCEPT !.seq.phase = phase]
           IN  /\ Well(d) /\ Follows(c, d) /\ Steady(c, d) /\ d.orders = c.orders
               /\ d.seq = [c.seq EXCEPT !.phase = phase] /\ d.seq.command = c.seq.command
               /\ d.seq.kind = c.seq.kind /\ d.seq.phase = phase
               /\ d.blocked /\ ~d.standby
<1> DEFINE n == Len(c.orders)
           q == [c.seq EXCEPT !.phase = phase]
           d == [c EXCEPT !.seq.phase = phase]
<1>1. c \in Station(n) /\ n \in Nat /\ c.seq \in Sequences(n) /\ c.blocked /\ ~c.standby
      BY DEF Well, Withheld, Station
<1>2. /\ q \in Sequences(n) /\ q.command = c.seq.command /\ q.kind = c.seq.kind
      /\ q.phase = phase
      BY <1>1 DEF Sequences
<1>3. d = [c EXCEPT !.seq = q]
      OBVIOUS
<1> HIDE DEF d, q, n
<1>4. /\ d \in Station(n) /\ Steady(c, d) /\ d.orders = c.orders /\ d.seq = q
      /\ d.blocked = c.blocked /\ d.standby = c.standby /\ d.handled = c.handled
      BY <1>1, <1>2, <1>3 DEF Station, Steady
<1>5. Well(d) /\ Follows(c, d)
      BY <1>1, <1>4 DEF Well, Withheld, Follows, n
<1> QED BY <1>1, <1>2, <1>4, <1>5 DEF d, q

LEMMA SequenceResultWell ==
    ASSUME NEW c, Env, Well(c), NEW r \in Results(Len(c.orders))
    PROVE  LET d == SequenceResult(c, r)
           IN  /\ Well(d) /\ Follows(c, d) /\ Steady(c, d) /\ d.orders = c.orders
               /\ Moves(c.seq, d.seq)
<1> DEFINE n == Len(c.orders)
           d == SequenceResult(c, r)
           next == CASE c.seq.phase = "takeoff" -> "waypoints_pending"
                     [] c.seq.phase = "waypoints" -> "land_pending"
                     [] OTHER -> "standby"
           delay == next = "standby" /\ c.seq.kind = "inspection"
           q == [c.seq EXCEPT !.phase = next, !.ticket = NoTicket, !.via = r.ticket,
                              !.delay = delay]
<1>1. CASE ~PhaseDone(c, r)
  <2>1. d = c
        BY <1>1 DEF SequenceResult, SequenceOver, PhaseDone
  <2> QED BY <2>1 DEF Follows, Steady, Moves, Well
<1>2. CASE SequenceOver(c, r)
  <2>1. d = EndSequence(c)
        BY <1>2 DEF SequenceResult, SequenceOver
  <2> HIDE DEF d
  <2> QED BY <2>1, EndSequenceWell DEF Steady, Moves, d
<1>3. CASE PhaseDone(c, r) /\ ~SequenceOver(c, r)
  <2>1. d = [c EXCEPT !.seq.phase = next, !.seq.ticket = NoTicket, !.seq.via = r.ticket,
                      !.seq.delay = delay]
        BY <1>3 DEF SequenceResult
  <2>2. d = [c EXCEPT !.seq = q]
        BY <2>1
  <2>3. /\ c \in Station(n) /\ n \in Nat /\ c.seq \in Sequences(n) /\ c.blocked /\ ~c.standby
        /\ c.seq # NoSequence
        BY <1>3 DEF Well, Withheld, Station, PhaseDone
  <2>4. r.ticket \in 0..n /\ NoTicket \in 0..n /\ next \in Phase /\ delay \in BOOLEAN
        BY <2>3 DEF Results, NoTicket, Phase
  <2>5. next \in Early => c.seq.phase \in Early
        BY DEF Early
  <2> HIDE DEF d, next, delay, n
  <2>6. q \in Sequences(n) /\ q.command = c.seq.command /\ q.kind = c.seq.kind /\ q.phase = next
        BY <2>3, <2>4 DEF Sequences
  <2> HIDE DEF q
  <2>7. /\ d \in Station(n) /\ Steady(c, d) /\ d.orders = c.orders /\ d.seq = q
        /\ d.blocked = c.blocked /\ d.standby = c.standby /\ d.handled = c.handled
        BY <2>2, <2>3, <2>6 DEF Station, Steady
  <2>8. Well(d) /\ Follows(c, d)
        BY <2>3, <2>7 DEF Well, Withheld, Follows, n
  <2> QED BY <2>3, <2>5, <2>6, <2>7, <2>8 DEF Moves, d
<1> QED BY <1>1, <1>2, <1>3 DEF SequenceOver

LEMMA ConsumedWell ==
    ASSUME NEW c, Env, Well(c), NEW r \in Results(Len(c.orders))
    PROVE  LET d == Consumed(c, r)
           IN  /\ Well(d) /\ Follows(c, d) /\ Steady(c, d) /\ d.orders = c.orders
               /\ Moves(c.seq, d.seq)
<1> DEFINE n == Len(c.orders)
           o == ObserveResult(c, r)
           seen == SequenceResult(o, r)
           d == Consumed(c, r)
<1>1. c \in Station(n) /\ n \in Nat
      BY DEF Well
<1>2. o \in Station(n) /\ Projects(c, o)
      BY <1>1, ObserveResultType
<1> HIDE DEF o
<1>3. Well(o) /\ Follows(c, o) /\ Steady(c, o) /\ o.orders = c.orders /\ o.seq = c.seq
      BY <1>2, ProjectsWell
<1>4. r \in Results(Len(o.orders))
      BY <1>3
<1>5. Well(seen) /\ Steady(o, seen) /\ seen.orders = o.orders /\ Moves(o.seq, seen.seq)
      /\ Follows(o, seen)
      BY <1>3, <1>4, SequenceResultWell
<1>6. d = seen \/ d = [seen EXCEPT !.running = FALSE, !.active = NoTicket]
      BY DEF Consumed, o
<1> HIDE DEF d, seen
<1>7. seen \in Station(n) /\ Withheld(seen) /\ seen.orders = c.orders /\ Steady(c, seen)
      /\ Moves(c.seq, seen.seq) /\ seen.handled = c.handled
      BY <1>3, <1>5 DEF Well, Steady, Follows
<1>8. CASE d = seen
      BY <1>1, <1>7, <1>8 DEF Well, Follows, d
<1>9. CASE d = [seen EXCEPT !.running = FALSE, !.active = NoTicket]
  <2>1. NoTicket \in 0..n
        BY <1>1 DEF NoTicket
  <2>2. /\ d \in Station(n) /\ d.orders = seen.orders /\ d.seq = seen.seq
        /\ d.blocked = seen.blocked /\ d.standby = seen.standby /\ Steady(seen, d)
        /\ d.handled = seen.handled
        BY <1>7, <1>9, <2>1 DEF Station, Steady
  <2> QED BY <1>1, <1>7, <2>2 DEF Well, Withheld, Follows, Steady, d, n
<1> QED BY <1>6, <1>8, <1>9

LEMMA ConsumeWell ==
    ASSUME NEW c, Env, Well(c)
    PROVE  LET d == Consume(c)
           IN  /\ Well(d) /\ Follows(c, d) /\ d.orders = c.orders /\ d.frames = c.frames
               /\ d.parked = c.parked /\ d.results = <<>> /\ Moves(c.seq, d.seq)
<1> DEFINE n == Len(c.orders)
           A == Results(n)
           e == [c EXCEPT !.results = <<>>]
           K(d) == /\ Withheld(d) /\ d.orders = c.orders /\ d.frames = c.frames
                   /\ d.parked = c.parked /\ d.handled = c.handled /\ d.results = <<>>
                   /\ Moves(c.seq, d.seq)
           T == {d \in Station(n) : K(d)}
           q == c.results
<1>1. c \in Station(n) /\ n \in Nat /\ q \in Seq(A)
      BY DEF Well, Station
<1>2. e \in T
  <2>1. <<>> \in Seq(A)
        BY EmptySeq
  <2> HIDE DEF n, A
  <2>2. /\ e \in Station(n) /\ e.orders = c.orders /\ e.frames = c.frames /\ e.seq = c.seq
        /\ e.parked = c.parked /\ e.handled = c.handled /\ e.results = <<>>
        /\ e.blocked = c.blocked /\ e.standby = c.standby
        BY <1>1, <2>1 DEF Station, A
  <2> HIDE DEF e
  <2> QED BY <2>2 DEF Well, Withheld, Moves
<1>3. ASSUME NEW d \in T, NEW r \in A PROVE Consumed(d, r) \in T
  <2> DEFINE f == Consumed(d, r)
  <2>1. Well(d) /\ r \in Results(Len(d.orders)) /\ d.orders = c.orders /\ K(d)
        BY <1>1, <1>3 DEF Well
  <2>2. Well(f) /\ Follows(d, f) /\ Steady(d, f) /\ f.orders = d.orders /\ Moves(d.seq, f.seq)
        BY <2>1, ConsumedWell
  <2> HIDE DEF f
  <2>3. f \in Station(n) /\ Withheld(f)
        BY <2>1, <2>2 DEF Well
  <2>4. Moves(c.seq, f.seq)
        BY <2>1, <2>2 DEF Moves
  <2>5. /\ f.orders = c.orders /\ f.frames = c.frames /\ f.parked = c.parked
        /\ f.handled = c.handled /\ f.results = <<>>
        BY <2>1, <2>2 DEF Steady, Follows
  <2> HIDE DEF n
  <2> QED BY <2>3, <2>4, <2>5 DEF f
<1>4. Consume(c) = FoldLeft(Consumed, e, q)
      BY DEF Consume
<1> HIDE DEF T, e, A, q
<1>5. \A d \in T, r \in A : Consumed(d, r) \in T
      BY <1>3
<1>6. FoldLeft(Consumed, e, q) \in T
      BY <1>1, <1>2, <1>5, ConsumeAll
<1> DEFINE d == Consume(c)
<1>7. d \in T
      BY <1>4, <1>6
<1> HIDE DEF d
<1>8. d \in Station(n) /\ K(d)
      BY <1>7 DEF T
<1>9. Well(d) /\ Follows(c, d)
      BY <1>1, <1>8 DEF Well, Follows
<1> QED BY <1>8, <1>9 DEF d

(***************************************************************************)
(* The sequence is driven.                                                 *)
(***************************************************************************)
DriveStandbyCases(c, s, d) ==
    \/ d = EndSequence(c)
    \/ /\ c.seq.kind = "abnormal" /\ s.abnormal /\ ~s.armed
       /\ d = [Enqueue(c, "clear_abnormal", NoCommand) EXCEPT
                  !.seq.phase = "clear_abnormal", !.seq.ticket = NextTicket(c)]

DriveCases(c, s, d) ==
    \/ d = c
    \/ /\ MayDrive(c) /\ c.seq.phase = "waypoints_pending"
       /\ d = Ask([c EXCEPT !.seq.phase = "waypoints_submitting"], "waypoints", c.seq.command)
    \/ /\ MayDrive(c) /\ c.seq.phase = "land_pending"
       /\ d = Ask([c EXCEPT !.seq.phase = "land_submitting"], "land", c.seq.command)
    \/ /\ MayDrive(c) /\ c.seq.phase = "land_pending" /\ d = [c EXCEPT !.seq.phase = "standby"]
    \/ MayDrive(c) /\ c.seq.phase = "standby" /\ DriveStandbyCases(c, s, d)

LEMMA DriveIs ==
    ASSUME NEW c, NEW s
    PROVE  DriveCases(c, s, Drive(c, s))
<1> DEFINE d == Drive(c, s)
<1>1. CASE ~MayDrive(c)
      BY <1>1 DEF Drive, DriveCases
<1>2. CASE MayDrive(c) /\ c.seq.phase = "waypoints_pending"
      BY <1>2 DEF Drive, DriveCases, SubmitWaypoints
<1>3. CASE MayDrive(c) /\ c.seq.phase = "land_pending"
      BY <1>3 DEF Drive, DriveCases
<1>4. CASE MayDrive(c) /\ c.seq.phase = "standby"
  <2>1. d = DriveStandby(c, s)
        BY <1>4 DEF Drive
  <2>2. d = c \/ DriveStandbyCases(c, s, d)
        BY <2>1 DEF DriveStandby, DriveStandbyCases
  <2> QED BY <1>4, <2>2 DEF DriveCases
<1>5. CASE /\ MayDrive(c) /\ c.seq.phase \notin {"waypoints_pending", "land_pending", "standby"}
      BY <1>5 DEF Drive, DriveCases
<1> QED BY <1>1, <1>2, <1>3, <1>4, <1>5

\* What a handler may do to the dialogs: none in simulation, at most one otherwise.
Opens(c, d) ==
    \/ d.frames = c.frames
    \/ /\ ~Simulated /\ Len(d.frames) = Len(c.frames) + 1
       /\ \E f \in Frame : /\ f.answer = "open" /\ f.seen = snap
                         /\ d.frames = Append(c.frames, f)

LEMMA PhaseAskWell ==
    ASSUME NEW c, Env, Well(c), c.seq # NoSequence, NEW phase \in Phase,
           NEW for \in Waiting \ {"command"}
    PROVE  LET e == [c EXCEPT !.seq.phase = phase]
               d == Ask(e, for, c.seq.command)
           IN  /\ Well(d) /\ Follows(c, d) /\ d.parked = c.parked /\ d.results = c.results
               /\ Opens(c, d)
<1> DEFINE e == [c EXCEPT !.seq.phase = phase]
           k == c.seq.command
           f == [for |-> for, command |-> k, answer |-> "open", seen |-> snap]
           d == Ask(e, for, k)
<1>1. k \in Command
      BY DEF Well, Station, Sequences
<1>2. Well(e) /\ Follows(c, e) /\ Steady(c, e)
      BY PhaseWell
<1> HIDE DEF e, k
<1>3. /\ f \in Frame /\ Well(d) /\ Follows(e, d) /\ d.parked = e.parked /\ d.results = e.results
      /\ Simulated => d.frames = e.frames
      /\ ~Simulated => d.frames = Append(e.frames, f) /\ Len(d.frames) = Len(e.frames) + 1
      BY <1>1, <1>2, AskWell
<1>4. f.answer = "open" /\ f.seen = snap
      OBVIOUS
<1> HIDE DEF d, f
<1>5. Follows(c, d)
      BY <1>2, <1>3, FollowsTwice
<1>6. Opens(c, d)
      BY <1>2, <1>3, <1>4 DEF Opens, Steady
<1> QED BY <1>2, <1>3, <1>5, <1>6 DEF Steady, d, e, k

LEMMA DriveWell ==
    ASSUME NEW c, Env, Well(c), NEW s
    PROVE  LET d == Drive(c, s)
           IN  /\ Well(d) /\ Follows(c, d) /\ d.parked = c.parked /\ d.results = c.results
               /\ Opens(c, d)
<1> DEFINE d == Drive(c, s)
           n == Len(c.orders)
<1>1. DriveCases(c, s, d)
      BY DriveIs
<1> HIDE DEF d
<1>2. CASE d = c
      BY <1>2 DEF Well, Follows, Opens, d
<1>3. CASE /\ MayDrive(c) /\ c.seq.phase = "waypoints_pending"
           /\ d = Ask([c EXCEPT !.seq.phase = "waypoints_submitting"], "waypoints", c.seq.command)
  <2>1. c.seq # NoSequence /\ "waypoints_submitting" \in Phase /\ "waypoints" \in Waiting \ {"command"}
        BY <1>3 DEF MayDrive, Phase, Waiting
  <2> QED BY <1>3, <2>1, PhaseAskWell DEF d
<1>4. CASE /\ MayDrive(c) /\ c.seq.phase = "land_pending"
           /\ d = Ask([c EXCEPT !.seq.phase = "land_submitting"], "land", c.seq.command)
  <2>1. c.seq # NoSequence /\ "land_submitting" \in Phase /\ "land" \in Waiting \ {"command"}
        BY <1>4 DEF MayDrive, Phase, Waiting
  <2> QED BY <1>4, <2>1, PhaseAskWell DEF d
<1>5. CASE /\ MayDrive(c) /\ c.seq.phase = "land_pending" /\ d = [c EXCEPT !.seq.phase = "standby"]
  <2>1. c.seq # NoSequence /\ "standby" \in Phase
        BY <1>5 DEF MayDrive, Phase
  <2>2. Well(d) /\ Follows(c, d) /\ Steady(c, d)
        BY <1>5, <2>1, PhaseWell
  <2> QED BY <2>2 DEF Steady, Opens, d
<1>6. CASE MayDrive(c) /\ d = EndSequence(c)
  <2>1. Well(d) /\ Follows(c, d) /\ Steady(c, d)
        BY <1>6, EndSequenceWell DEF Steady
  <2> QED BY <2>1 DEF Steady, Opens, d
<1>7. CASE /\ MayDrive(c)
           /\ d = [Enqueue(c, "clear_abnormal", NoCommand) EXCEPT
                      !.seq.phase = "clear_abnormal", !.seq.ticket = NextTicket(c)]
  <2> DEFINE e == Enqueue(c, "clear_abnormal", NoCommand)
             m == n + 1
             q == [c.seq EXCEPT !.phase = "clear_abnormal", !.ticket = m]
  <2>1. NoCommand \in Command /\ "clear_abnormal" \in Name /\ "clear_abnormal" \in Phase
        /\ n \in Nat /\ c \in Station(n) /\ m \in Nat /\ m \in 0..m /\ c.seq # NoSequence
    <3>1. limit \in Limits /\ n \in Nat /\ c \in Station(n) /\ c.seq # NoSequence
          BY <1>7 DEF Well, Env, Place, MayDrive
    <3>2. NoCommand \in Command
          BY <3>1, NoSequenceType
    <3>3. m \in Nat /\ m \in 0..m
          BY <3>1
    <3> QED BY <3>1, <3>2, <3>3 DEF Name, Phase
  <2>2. /\ Len(e.orders) = m /\ NextTicket(c) = m /\ e \in Station(m) /\ Follows(c, e)
        /\ Leaves(c, e)
        BY <2>1, EnqueueType DEF Well
  <2> HIDE DEF e
  <2>3. d = [e EXCEPT !.seq.phase = "clear_abnormal", !.seq.ticket = m]
        BY <1>7, <2>2 DEF e
  <2>4. d = [e EXCEPT !.seq = q]
        BY <2>2, <2>3 DEF Leaves
  <2> HIDE DEF m
  <2>5. q \in Sequences(m)
        BY <2>1, <2>2 DEF Station, Sequences, Leaves
  <2> HIDE DEF q
  <2>6. /\ d \in Station(m) /\ d.orders = e.orders /\ d.handled = e.handled
        /\ d.parked = e.parked /\ d.results = e.results /\ d.frames = e.frames
        /\ d.blocked = e.blocked /\ d.standby = e.standby
        BY <2>2, <2>4, <2>5 DEF Station
  <2> QED BY <2>1, <2>2, <2>6 DEF Well, Withheld, Follows, Leaves, Opens, d
<1> QED BY <1>1, <1>2, <1>3, <1>4, <1>5, <1>6, <1>7 DEF DriveCases, DriveStandbyCases

\* The cases of an abnormal vehicle.
AbnormalCases(c, s, d) ==
    \/ d = c
    \/ d = [c EXCEPT !.latched = FALSE]
    \/ /\ c.seq.kind \in {"return", "emergency"}
       /\ d = [c EXCEPT !.seq.kind = "abnormal", !.latched = TRUE]
    \/ /\ Simulated
       /\ LET e == [BlockStandby(c) EXCEPT
                       !.seq = NewSequence("abnormal", "waypoints_pending", NoCommand)]
          IN  d = [Ask([e EXCEPT !.seq.phase = "waypoints_submitting"], "waypoints",
                       e.seq.command) EXCEPT !.latched = TRUE, !.staged = TRUE]
    \/ /\ Simulated
       /\ d = [BlockStandby(c) EXCEPT !.seq = NewSequence("abnormal", "standby", NoCommand),
                                      !.latched = TRUE]

LEMMA AbnormalIs ==
    ASSUME NEW c, NEW s
    PROVE  AbnormalCases(c, s, VehicleAbnormal(c, s))
<1> DEFINE d == VehicleAbnormal(c, s)
<1>1. CASE ~s.abnormal
      BY <1>1 DEF VehicleAbnormal, AbnormalCases
<1>2. CASE s.abnormal /\ (~connected \/ ~Simulated)
      BY <1>2 DEF VehicleAbnormal, AbnormalCases
<1>3. CASE s.abnormal /\ connected /\ Simulated /\ c.seq.kind \in {"return", "emergency"}
      BY <1>3 DEF VehicleAbnormal, AbnormalCases
<1>4. CASE s.abnormal /\ connected /\ Simulated /\ c.seq.kind \notin {"return", "emergency"}
  <2>1. CASE c.latched
        BY <1>4, <2>1 DEF VehicleAbnormal, AbnormalCases
  <2>2. CASE ~c.latched /\ s.armed
    <3>1. d = ReturnAbnormal(c, s)
          BY <1>4, <2>2 DEF VehicleAbnormal
    <3> QED BY <1>4, <3>1 DEF ReturnAbnormal, AbnormalCases, SubmitWaypoints
  <2>3. CASE ~c.latched /\ ~s.armed
        BY <1>4, <2>3 DEF VehicleAbnormal, AbnormalCases
  <2> QED BY <2>1, <2>2, <2>3
<1> QED BY <1>1, <1>2, <1>3, <1>4

LEMMA AbnormalWell ==
    ASSUME NEW c, Env, Well(c), NEW s
    PROVE  LET d == VehicleAbnormal(c, s)
           IN  Well(d) /\ Follows(c, d) /\ Steady(c, d)
<1> DEFINE d == VehicleAbnormal(c, s)
           n == Len(c.orders)
<1>0. AbnormalCases(c, s, d)
      BY AbnormalIs
<1> HIDE DEF d
<1>1. c \in Station(n) /\ n \in Nat /\ limit \in Limits
      BY DEF Well, Env, Place
<1>2. CASE d = c
      BY <1>2 DEF Well, Follows, Steady, d
<1>3. CASE d = [c EXCEPT !.latched = FALSE]
  <2> HIDE DEF n
  <2>1. /\ d \in Station(n) /\ d.orders = c.orders /\ d.seq = c.seq /\ Steady(c, d)
        /\ d.blocked = c.blocked /\ d.standby = c.standby /\ d.handled = c.handled
        BY <1>1, <1>3 DEF Station, Steady
  <2> QED BY <1>1, <2>1 DEF Well, Withheld, Follows, n, d
<1>4. CASE c.seq.kind \in {"return", "emergency"} /\ d = [c EXCEPT !.seq.kind = "abnormal", !.latched = TRUE]
  <2> DEFINE q == [c.seq EXCEPT !.kind = "abnormal"]
  <2>1. c.seq # NoSequence
        BY <1>1, <1>4, NoSequenceType
  <2>2. q \in Sequences(n)
        BY <1>1 DEF Station, Sequences, Kind
  <2>3. d = [c EXCEPT !.seq = q, !.latched = TRUE]
        BY <1>1, <1>4 DEF Station
  <2> HIDE DEF q, n
  <2>4. /\ d \in Station(n) /\ d.orders = c.orders /\ Steady(c, d)
        /\ d.blocked = c.blocked /\ d.standby = c.standby /\ d.handled = c.handled
        BY <1>1, <2>2, <2>3 DEF Station, Steady
  <2> QED BY <1>1, <2>1, <2>4 DEF Well, Withheld, Follows, n, d
<1>5. CASE /\ Simulated
           /\ LET e == [BlockStandby(c) EXCEPT
                           !.seq = NewSequence("abnormal", "waypoints_pending", NoCommand)]
              IN  d = [Ask([e EXCEPT !.seq.phase = "waypoints_submitting"], "waypoints",
                           e.seq.command) EXCEPT !.latched = TRUE, !.staged = TRUE]
  <2> DEFINE q == NewSequence("abnormal", "waypoints_pending", NoCommand)
             e == [BlockStandby(c) EXCEPT !.seq = q]
             g == [e EXCEPT !.seq.phase = "waypoints_submitting"]
             a == Ask(g, "waypoints", e.seq.command)
  <2>0. "abnormal" \in Kind /\ "waypoints_pending" \in Phase /\ "waypoints_submitting" \in Phase
        /\ "waypoints" \in Waiting \ {"command"}
        BY DEF Kind, Phase, Waiting
  <2>1. NoCommand \in Command
        BY <1>1, NoSequenceType
  <2>2. q \in Sequences(n) /\ q.phase = "waypoints_pending"
    <3>1. "abnormal" \in Kind /\ "waypoints_pending" \in Phase
          BY <2>0
    <3> HIDE DEF n
    <3>2. q \in Sequences(n)
          BY <1>1, <2>1, <3>1, NewSequenceType
    <3>3. q.phase = "waypoints_pending"
          BY DEF NewSequence, NoSequence
    <3> QED BY <3>2, <3>3
  <2>3. q # NoSequence
        BY <1>1, <2>2, NoSequenceType
  <2> HIDE DEF q
  <2>4. Well(e) /\ Follows(c, e) /\ Steady(c, e) /\ e.seq = q
        BY <2>2, StartWell
  <2> HIDE DEF e
  <2>5. Well(g) /\ Follows(e, g) /\ Steady(e, g)
        BY <2>0, <2>3, <2>4, PhaseWell
  <2>6. e.seq.command \in Command
        BY <2>4 DEF Well, Station, Sequences
  <2> HIDE DEF g
  <2>7. /\ Well(a) /\ Follows(g, a) /\ a.parked = g.parked /\ a.results = g.results
        /\ a.frames = g.frames
        BY <1>5, <2>0, <2>5, <2>6, AskWell
  <2>8. d = [a EXCEPT !.latched = TRUE, !.staged = TRUE]
        BY <1>5 DEF a, g, e, q
  <2> HIDE DEF a
  <2>9. Follows(c, a)
        BY <2>4, <2>5, <2>7, FollowsTwice
  <2>10. Well(d) /\ Follows(a, d) /\ Steady(a, d)
    <3> DEFINE m == Len(a.orders)
    <3>1. a \in Station(m) /\ m \in Nat
          BY <2>7 DEF Well
    <3> HIDE DEF m
    <3>2. /\ d \in Station(m) /\ d.orders = a.orders /\ d.seq = a.seq /\ Steady(a, d)
          /\ d.blocked = a.blocked /\ d.standby = a.standby /\ d.handled = a.handled
          BY <2>8, <3>1 DEF Station, Steady
    <3> QED BY <2>7, <3>1, <3>2 DEF Well, Withheld, Follows, m
  <2>11. Follows(c, d)
         BY <2>7, <2>9, <2>10, FollowsTwice
  <2> QED BY <2>4, <2>5, <2>7, <2>10, <2>11 DEF Steady, d
<1>6. CASE d = [BlockStandby(c) EXCEPT !.seq = NewSequence("abnormal", "standby", NoCommand),
                                       !.latched = TRUE]
  <2> DEFINE q == NewSequence("abnormal", "standby", NoCommand)
             e == [BlockStandby(c) EXCEPT !.seq = q]
  <2>0. "abnormal" \in Kind /\ "standby" \in Phase
        BY DEF Kind, Phase
  <2>1. NoCommand \in Command
        BY <1>1, NoSequenceType
  <2>2. q \in Sequences(n)
    <3> HIDE DEF n
    <3> QED BY <1>1, <2>0, <2>1, NewSequenceType
  <2> HIDE DEF q
  <2>3. Well(e) /\ Follows(c, e) /\ Steady(c, e) /\ e.orders = c.orders
        BY <2>2, StartWell
  <2>4. d = [e EXCEPT !.latched = TRUE]
        BY <1>6 DEF q
  <2>5. e \in Station(n)
        BY <2>3 DEF Well
  <2> HIDE DEF e, n
  <2>6. /\ d \in Station(n) /\ d.orders = e.orders /\ d.seq = e.seq /\ Steady(e, d)
        /\ d.blocked = e.blocked /\ d.standby = e.standby /\ d.handled = e.handled
        BY <2>4, <2>5 DEF Station, Steady
  <2> QED BY <1>1, <2>3, <2>6 DEF Well, Withheld, Follows, Steady, n, d
<1> QED BY <1>0, <1>2, <1>3, <1>4, <1>5, <1>6 DEF AbnormalCases

\* What a refresh does when no dialog opens in it, or when the dialog has ended.
LEMMA ObservedWell ==
    ASSUME NEW c, Env, Well(c), NEW s, s.point \in 0..MaxPoints, NEW telemetry, NEW may
    PROVE  LET d == Observed(c, s, telemetry, may)
           IN  Well(d) /\ Follows(c, d) /\ Steady(c, d)
<1> DEFINE b == VehicleAbnormal(c, s)
           d == ObserveVehicle(b, s, telemetry, may)
<1>1. Well(b) /\ Follows(c, b) /\ Steady(c, b)
      BY AbnormalWell
<1> HIDE DEF b
<1>2. d \in Station(Len(b.orders)) /\ Projects(b, d)
  <2> DEFINE n == Len(b.orders)
  <2>1. n \in Nat /\ b \in Station(n)
        BY <1>1 DEF Well
  <2> HIDE DEF n
  <2>2. d \in Station(n) /\ Projects(b, d)
        BY <2>1, ObserveVehicleType
  <2> QED BY <2>2 DEF n
<1>3. Observed(c, s, telemetry, may) = d
      BY DEF Observed, b
<1> HIDE DEF d
<1>4. Well(d) /\ Follows(b, d) /\ Steady(b, d)
      BY <1>1, <1>2, ProjectsWell
<1>5. Follows(c, d)
      BY <1>1, <1>4, FollowsTwice
<1>6. Steady(c, d)
      BY <1>1, <1>4 DEF Steady
<1> QED BY <1>3, <1>4, <1>5, <1>6

LEMMA RefreshTellingWell ==
    ASSUME NEW c, Env, Well(c), snap.point \in 0..MaxPoints, NEW telemetry
    PROVE  LET d == RefreshTelling(c, telemetry)
           IN  /\ Well(d) /\ Follows(c, d) /\ d.parked = c.parked /\ d.results = <<>>
               /\ Opens(c, d)
<1> DEFINE fed == Consume(c)
           may == CanTakeOff(fed, snap)
           a == Drive(fed, snap)
           b == Observed(a, snap, telemetry, may)
           d == RefreshTelling(c, telemetry)
<1>1. /\ Well(fed) /\ Follows(c, fed) /\ fed.frames = c.frames /\ fed.parked = c.parked
      /\ fed.results = <<>>
      BY ConsumeWell
<1>2. d = a \/ d = b
      BY DEF RefreshTelling, Ended
<1> HIDE DEF may, fed, d
<1>3. /\ Well(a) /\ Follows(fed, a) /\ a.parked = fed.parked /\ a.results = fed.results
      /\ Opens(fed, a)
      BY <1>1, DriveWell
<1> HIDE DEF a
<1>4. Well(b) /\ Follows(a, b) /\ Steady(a, b)
      BY <1>3, ObservedWell
<1> HIDE DEF b
<1>5. Well(d) /\ Follows(a, d) /\ Steady(a, d)
      BY <1>2, <1>3, <1>4 DEF Well, Follows, Steady
<1>6. Follows(c, a)
      BY <1>1, <1>3, FollowsTwice
<1>7. Follows(c, d)
      BY <1>1, <1>3, <1>5, <1>6, FollowsTwice
<1>8. d.frames = a.frames /\ d.parked = c.parked /\ d.results = <<>>
      BY <1>1, <1>3, <1>5 DEF Steady
<1>9. Opens(c, d)
      BY <1>1, <1>3, <1>8 DEF Opens
<1> QED BY <1>5, <1>7, <1>8, <1>9 DEF d

(***************************************************************************)
(* Handlers.                                                               *)
(***************************************************************************)
LEMMA FrontLast ==
    ASSUME NEW A, NEW s \in Seq(A), s # <<>>
    PROVE  /\ Front(s) \in Seq(A) /\ Len(s) \in Nat /\ Len(s) >= 1 /\ Len(Front(s)) = Len(s) - 1
           /\ \A i \in 1..(Len(s) - 1) : Front(s)[i] = s[i]
           /\ Last(s) = s[Len(s)] /\ Last(s) \in A
<1>1. Len(s) \in Nat /\ Len(s) # 0 /\ \A i \in 1..Len(s) : s[i] \in A
      BY EmptySeq, LenProperties, ElementOfSeq
<1>2. Len(s) >= 1 /\ Len(s) \in 1..Len(s)
      BY <1>1
<1> DEFINE m == Len(s) - 1
           f == SubSeq(s, 1, m)
<1>3. m \in Int /\ 1 \in Int /\ (\A i \in 1..m : s[i] \in A) /\ (1 <= m => m - 1 + 1 = m)
      /\ (~(1 <= m) => m = 0) /\ m - 1 + 1 = m
  <2>0. Len(s) \in Nat
        BY <1>1
  <2>1. \A i \in 1..m : i \in 1..Len(s)
    <3> DEFINE l == Len(s)
    <3>1. l \in Nat /\ m = l - 1
          BY <2>0
    <3> HIDE DEF l, m
    <3> QED BY <3>1 DEF l
  <2>2. \A i \in 1..m : s[i] \in A
        BY <1>1, <2>1
  <2>3. m \in Int /\ (~(1 <= m) => m = 0)
    <3> DEFINE l == Len(s)
    <3>1. l \in Nat /\ l >= 1 /\ m = l - 1
          BY <2>0, <1>2
    <3> HIDE DEF l, m
    <3> QED BY <3>1
  <2> HIDE DEF m
  <2> QED BY <2>2, <2>3
<1>4. Front(s) = f
      BY DEF Front
<1> HIDE DEF m
<1>5. /\ f \in Seq(A) /\ Len(f) = (IF 1 <= m THEN m - 1 + 1 ELSE 0)
      /\ \A i \in 1..(m - 1 + 1) : f[i] = s[1 + i - 1]
      BY <1>3, SubSeqProperties
<1>6. \A i \in 1..m : f[i] = s[i]
  <2> TAKE i \in 1..m
  <2>1. 1 + i - 1 = i /\ i \in 1..(m - 1 + 1)
        BY <1>3
  <2> QED BY <1>5, <2>1
<1>7. Len(f) = m
      BY <1>3, <1>5
<1> HIDE DEF f
<1> QED BY <1>1, <1>2, <1>4, <1>5, <1>6, <1>7 DEF m, Last

LEMMA InsertBeforeLast ==
    ASSUME NEW A, NEW s \in Seq(A), s # <<>>, NEW e \in A
    PROVE  LET t == InsertAt(s, Len(s), e)
           IN  /\ t \in Seq(A) /\ Len(t) = Len(s) + 1
               /\ \A i \in 1..(Len(s) - 1) : t[i] = s[i]
               /\ t[Len(s)] = e /\ t[Len(s) + 1] = s[Len(s)]
<1> DEFINE n == Len(s)
           a == SubSeq(s, 1, n - 1)
           b == SubSeq(s, n, n)
           t == InsertAt(s, n, e)
           u == a \o <<e>>
<1>1. /\ a \in Seq(A) /\ n \in Nat /\ n >= 1 /\ Len(a) = n - 1
      /\ (\A i \in 1..(n - 1) : a[i] = s[i]) /\ s[n] \in A
      BY FrontLast DEF Front, Last
<1>2. b \in Seq(A) /\ Len(b) = 1 /\ b[1] = s[n]
  <2> HIDE DEF n
  <2>1. n \in Int /\ (\A i \in n..n : s[i] \in A) /\ n <= n /\ n - n + 1 = 1 /\ n + 1 - 1 = n
        BY <1>1
  <2>2. /\ b \in Seq(A) /\ Len(b) = (IF n <= n THEN n - n + 1 ELSE 0)
        /\ \A i \in 1..(n - n + 1) : b[i] = s[n + i - 1]
        BY <2>1, SubSeqProperties
  <2>3. 1 \in 1..(n - n + 1)
        BY <2>1
  <2> QED BY <2>1, <2>2, <2>3
<1>3. t = u \o b
      BY DEF InsertAt
<1> HIDE DEF n, a, b, t
<1>4. <<e>> \in Seq(A) /\ Len(<<e>>) = 1 /\ <<e>>[1] = e
      OBVIOUS
<1> DEFINE w == <<e>>
<1>5. w \in Seq(A) /\ Len(w) = 1 /\ w[1] = e /\ u = a \o w
      BY <1>4
<1> HIDE DEF w, u
<1>6. /\ u \in Seq(A) /\ Len(u) = Len(a) + Len(w)
      /\ \A i \in 1..(Len(a) + Len(w)) : u[i] = IF i <= Len(a) THEN a[i] ELSE w[i - Len(a)]
      BY <1>1, <1>5, ConcatProperties
<1>7. /\ t \in Seq(A) /\ Len(t) = Len(u) + Len(b)
      /\ \A i \in 1..(Len(u) + Len(b)) : t[i] = IF i <= Len(u) THEN u[i] ELSE b[i - Len(u)]
  <2>1. u \in Seq(A) /\ b \in Seq(A)
        BY <1>2, <1>6
  <2> QED BY <1>3, <2>1, ConcatProperties
<1>8. Len(u) = n /\ Len(t) = n + 1
      BY <1>1, <1>2, <1>5, <1>6, <1>7
<1>9. \A i \in 1..(n - 1) : t[i] = s[i]
  <2> TAKE i \in 1..(n - 1)
  <2>1. i \in 1..(Len(u) + Len(b)) /\ i <= Len(u) /\ i \in 1..(Len(a) + Len(w)) /\ i <= Len(a)
        BY <1>1, <1>2, <1>5, <1>8
  <2> QED BY <1>1, <1>6, <1>7, <2>1
<1>10. t[n] = e
  <2>1. /\ n \in 1..(Len(u) + Len(b)) /\ n <= Len(u) /\ n \in 1..(Len(a) + Len(w)) /\ ~(n <= Len(a))
        /\ n - Len(a) = 1
        BY <1>1, <1>2, <1>5, <1>8
  <2> QED BY <1>5, <1>6, <1>7, <2>1
<1>11. t[n + 1] = s[n]
  <2>1. /\ n + 1 \in 1..(Len(u) + Len(b)) /\ ~(n + 1 <= Len(u)) /\ n + 1 - Len(u) = 1
        BY <1>1, <1>2, <1>8
  <2> QED BY <1>2, <1>7, <2>1
<1> QED BY <1>7, <1>8, <1>9, <1>10, <1>11 DEF n, t

LEMMA PreemptedWell ==
    ASSUME NEW c, Env, Well(c)
    PROVE  LET d == Preempted(c)
           IN  /\ Well(d) /\ Follows(c, d) /\ d.orders = c.orders /\ d.parked = c.parked
               /\ d.seq = c.seq /\ d.results = c.results /\ Len(d.frames) = Len(c.frames)
               /\ \A i \in 1..Len(c.frames) :
                      /\ d.frames[i].for = c.frames[i].for
                      /\ d.frames[i].command = c.frames[i].command
                      /\ d.frames[i].seen = c.frames[i].seen
                      /\ d.frames[i].answer = IF i = Len(c.frames) THEN "rejected"
                                                                   ELSE c.frames[i].answer
<1> DEFINE d == Preempted(c)
           n == Len(c.orders)
           k == Len(c.frames)
<1>1. c \in Station(n) /\ n \in Nat /\ c.frames \in Seq(Frame)
      BY DEF Well, Station
<1>2. k \in Nat /\ \A i \in 1..k : c.frames[i] \in Frame
      BY <1>1, LenProperties, ElementOfSeq
<1>3. CASE Countdown(c)
  <2>1. k \in 1..k
        BY <1>1, <1>2, <1>3, EmptySeq, FrontLast DEF Countdown
  <2> DEFINE f == [c.frames[k] EXCEPT !.answer = "rejected"]
             q == [c.frames EXCEPT ![k] = f]
  <2>2. d = [c EXCEPT !.frames = q]
        BY <1>3 DEF Preempted
  <2>3. /\ f \in Frame /\ f.for = c.frames[k].for /\ f.command = c.frames[k].command
        /\ f.answer = "rejected" /\ f.seen = c.frames[k].seen
        BY <1>2, <2>1 DEF Frame, Answer
  <2> HIDE DEF f
  <2>4. /\ q \in Seq(Frame) /\ Len(q) = k
        /\ \A i \in 1..k : q[i] = IF i = k THEN f ELSE c.frames[i]
    <3> DEFINE s == c.frames
    <3>1. s \in Seq(Frame) /\ k = Len(s) /\ q = [s EXCEPT ![k] = f]
          BY <1>1
    <3> HIDE DEF s, k
    <3> QED BY <2>1, <2>3, <3>1, ExceptSeq DEF s
  <2> HIDE DEF q, d, n
  <2>5. /\ d \in Station(n) /\ d.orders = c.orders /\ d.parked = c.parked /\ d.seq = c.seq
        /\ d.results = c.results /\ d.frames = q /\ d.handled = c.handled
        /\ d.blocked = c.blocked /\ d.standby = c.standby
        BY <1>1, <2>2, <2>4 DEF Station
  <2>6. Well(d) /\ Follows(c, d)
        BY <1>1, <2>5 DEF Well, Withheld, Follows, n
  <2> QED BY <2>3, <2>4, <2>5, <2>6 DEF d
<1>4. CASE ~Countdown(c)
  <2>1. d = c
        BY <1>4 DEF Preempted
  <2>2. \A i \in 1..k : i = k => c.frames[i].answer = "rejected"
    <3> SUFFICES ASSUME k \in 1..k PROVE c.frames[k].answer = "rejected"
        OBVIOUS
    <3>1. c.frames # <<>> /\ c.frames[k] \in Frame
          BY <1>2, EmptySeq
    <3> QED BY <1>4, <3>1 DEF Countdown, Frame, Answer, Last
  <2> QED BY <1>2, <2>1, <2>2 DEF Well, Follows
<1> QED BY <1>3, <1>4

\* What a command does after its refresh.
ActCases(c, judged, i, d) ==
    \/ d = c
    \/ limit.script[i] = "01" /\ d = Ask(c, "takeoff", i)
    \/ d = Woke(BlockStandby([c EXCEPT !.staged = TRUE]))
    \/ /\ limit.script[i] = "03" /\ c.seq = NoSequence
       /\ d = Ask(BlockStandby([c EXCEPT !.seq = NewSequence("inspection", "takeoff", i)]),
                  "first", i)
    \/ /\ limit.script[i] \notin {"01", "02", "03"}
       /\ d = Ask(c, "landing", i)

LEMMA ActIs ==
    ASSUME NEW c, NEW judged, NEW i
    PROVE  ActCases(c, judged, i, Act(c, judged, i))
<1> DEFINE cmd == limit.script[i]
<1>1. CASE cmd = "01"
      BY <1>1 DEF Act, ActCases
<1>2. CASE cmd = "02"
      BY <1>2 DEF Act, ActCases
<1>3. CASE cmd = "03"
      BY <1>3 DEF Act, ActCases, Begins
<1>4. CASE cmd \notin {"01", "02", "03"}
      BY <1>4 DEF Act, ActCases
<1> QED BY <1>1, <1>2, <1>3, <1>4

\* A new inspection, before its dialog.
LEMMA BeginWell ==
    ASSUME NEW c, Env, Well(c), NEW k \in Command
    PROVE  LET q == NewSequence("inspection", "takeoff", k)
               e == BlockStandby([c EXCEPT !.seq = q])
           IN  /\ Well(e) /\ Follows(c, e) /\ Steady(c, e) /\ e.orders = c.orders
               /\ e.seq = q /\ q.kind = "inspection" /\ q.phase = "takeoff" /\ q.command = k
               /\ q.ticket = NoTicket /\ q # NoSequence
<1> DEFINE n == Len(c.orders)
           kind == "inspection"
           phase == "takeoff"
           q == NewSequence(kind, phase, k)
           e == BlockStandby([c EXCEPT !.seq = q])
           b == [BlockStandby(c) EXCEPT !.seq = q]
<1>1. n \in Nat /\ limit \in Limits /\ kind \in Kind /\ phase \in Phase /\ c \in Station(n)
      BY DEF Well, Env, Place, Kind, Phase
<1>2. /\ q \in Sequences(n) /\ q.kind = kind /\ q.phase = phase /\ q.command = k
      /\ q.ticket = NoTicket
  <2>1. /\ q.kind = kind /\ q.phase = phase /\ q.command = k /\ q.ticket = NoTicket
        BY DEF NewSequence, NoSequence
  <2>2. q \in Sequences(n)
    <3> HIDE DEF n
    <3> QED BY <1>1, NewSequenceType
  <2> QED BY <2>1, <2>2
<1>3. q # NoSequence
      BY <1>2, NoSequenceType, <1>1
<1> HIDE DEF q
<1>4. e = b
      BY <1>1 DEF BlockStandby, Station
<1>5. Well(b) /\ Follows(c, b) /\ Steady(c, b) /\ b.orders = c.orders /\ b.seq = q
      BY <1>2, StartWell
<1> QED BY <1>2, <1>3, <1>4, <1>5 DEF q

LEMMA StageWell ==
    ASSUME NEW c, Env, Well(c)
    PROVE  LET d == Woke(BlockStandby([c EXCEPT !.staged = TRUE]))
           IN  /\ Well(d) /\ Follows(c, d) /\ Steady(c, d) /\ d.orders = c.orders
               /\ d.seq = c.seq
<1> DEFINE n == Len(c.orders)
           woken == c.woken \/ connected
           d == Woke(BlockStandby([c EXCEPT !.staged = TRUE]))
<1>1. c \in Station(n) /\ n \in Nat /\ woken \in BOOLEAN
      BY DEF Well, Station, Env, Place
<1>2. d = [c EXCEPT !.staged = TRUE, !.blocked = TRUE, !.standby = FALSE, !.woken = woken]
      BY <1>1 DEF Woke, BlockStandby, Station
<1> HIDE DEF d, n, woken
<1>3. /\ d \in Station(n) /\ Steady(c, d) /\ d.orders = c.orders /\ d.handled = c.handled
      /\ d.blocked /\ ~d.standby /\ d.seq = c.seq
      BY <1>1, <1>2 DEF Station, Steady
<1>4. Well(d)
      BY <1>1, <1>3 DEF Well, Withheld, n
<1>5. Follows(c, d)
      BY <1>1, <1>3 DEF Follows, n
<1> QED BY <1>3, <1>4, <1>5 DEF d

LEMMA ActWell ==
    ASSUME NEW c, Env, Well(c), NEW i \in Command, NEW judged
    PROVE  LET d == Act(c, judged, i)
           IN  Well(d) /\ Follows(c, d) /\ d.parked = c.parked /\ d.results = c.results
<1> DEFINE d == Act(c, judged, i)
<1>1. ActCases(c, judged, i, d)
      BY ActIs
<1> HIDE DEF d
<1>0. "takeoff" \in Waiting \ {"command"} /\ "first" \in Waiting \ {"command"}
      /\ "landing" \in Waiting \ {"command"}
      BY DEF Waiting
<1>2. CASE d = c
      BY <1>2 DEF Well, Follows, d
<1>3. ASSUME NEW for \in Waiting \ {"command"}, d = Ask(c, for, i)
      PROVE  Well(d) /\ Follows(c, d) /\ d.parked = c.parked /\ d.results = c.results
      BY <1>3, AskWell
<1>4. CASE d = Ask(c, "takeoff", i) \/ d = Ask(c, "landing", i)
      BY <1>0, <1>3, <1>4 DEF d
<1>5. CASE d = Woke(BlockStandby([c EXCEPT !.staged = TRUE]))
      BY <1>5, StageWell DEF Steady, d
<1>6. CASE d = Ask(BlockStandby([c EXCEPT !.seq = NewSequence("inspection", "takeoff", i)]),
                   "first", i)
  <2> DEFINE e == BlockStandby([c EXCEPT !.seq = NewSequence("inspection", "takeoff", i)])
  <2>1. Well(e) /\ Follows(c, e) /\ Steady(c, e)
        BY BeginWell
  <2> HIDE DEF e
  <2>2. Well(d) /\ Follows(e, d) /\ d.parked = e.parked /\ d.results = e.results
        BY <1>0, <1>6, <2>1, AskWell DEF e
  <2>3. Follows(c, d)
        BY <2>1, <2>2, FollowsTwice
  <2> QED BY <2>1, <2>2, <2>3 DEF Steady, d
<1> QED BY <1>1, <1>2, <1>3, <1>4, <1>5, <1>6 DEF ActCases

LEMMA RefreshedWell ==
    ASSUME NEW c, Env, Well(c), snap.point \in 0..MaxPoints
    PROVE  LET d == Refreshed(c)
           IN  /\ Well(d) /\ Follows(c, d) /\ d.parked = c.parked /\ d.results = <<>>
               /\ Opens(c, d)
BY RefreshTellingWell DEF Refreshed

LEMMA DoneWell ==
    ASSUME NEW c, NEW e, Env, Well(e), snap.point \in 0..MaxPoints
    PROVE  LET d == Done(c, e)
           IN  Well(d) /\ Follows(e, d) /\ d.parked = e.parked
<1> DEFINE d == Done(c, e)
<1>1. d = e \/ d = Refreshed(e)
      BY DEF Done
<1> HIDE DEF d
<1>2. CASE d = e
      BY <1>2 DEF Well, Follows, d
<1>3. CASE d = Refreshed(e)
      BY <1>3, RefreshedWell DEF d
<1> QED BY <1>1, <1>2, <1>3

LEMMA HandleWell ==
    ASSUME NEW c, Env, Well(c), snap.point \in 0..MaxPoints, NEW i \in Command
    PROVE  LET d == Handle(c, i)
           IN  Well(d) /\ Follows(c, d) /\ d.parked \subseteq c.parked \cup {i}
<1> DEFINE p == Preempted(c)
           ready == Refreshed(p)
           f == [for |-> "command", command |-> i, answer |-> "rejected", seen |-> snap]
           frames == InsertAt(ready.frames, Len(ready.frames), f)
           judged == Consume(p)
           a == Act(ready, judged, i)
           d == Handle(c, i)
<1>1. /\ Well(p) /\ Follows(c, p) /\ p.parked = c.parked
      /\ Len(p.frames) = Len(c.frames)
      BY PreemptedWell
<1> HIDE DEF p
<1>2. Well(ready) /\ Follows(p, ready) /\ ready.parked = p.parked
      BY <1>1, RefreshedWell
<1>3. Follows(c, ready) /\ ready.parked = c.parked
      BY <1>1, <1>2, FollowsTwice
<1>4. \/ d = c
      \/ Opened(c, ready) /\ d = [ready EXCEPT !.frames = frames, !.parked = ready.parked \cup {i}]
      \/ d = Done(ready, a)
  <2>1. CASE Countdown(c) /\ limit.script[i] \notin LandCommands
        BY <2>1 DEF Handle, Deaf
  <2>2. CASE ~(Countdown(c) /\ limit.script[i] \notin LandCommands) /\ Opened(c, ready)
        BY <2>2 DEF Handle, Heard, Deaf, p
  <2>3. CASE ~(Countdown(c) /\ limit.script[i] \notin LandCommands) /\ ~Opened(c, ready)
        BY <2>3 DEF Handle, Heard, Deaf, p
  <2> QED BY <2>1, <2>2, <2>3
<1> HIDE DEF d, ready, judged
<1>5. CASE d = c
      BY <1>5 DEF Well, Follows, d
<1>6. CASE d = Done(ready, a)
  <2>1. Well(a) /\ Follows(ready, a) /\ a.parked = ready.parked
        BY <1>2, ActWell
  <2> HIDE DEF a
  <2>2. Well(d) /\ Follows(a, d) /\ d.parked = a.parked
        BY <1>6, <2>1, DoneWell
  <2>3. Follows(c, a)
        BY <1>2, <1>3, <2>1, FollowsTwice
  <2>4. Follows(c, d)
        BY <2>1, <2>2, <2>3, FollowsTwice
  <2> QED BY <1>3, <2>1, <2>2, <2>4 DEF d
<1>7. CASE Opened(c, ready) /\ d = [ready EXCEPT !.frames = frames, !.parked = ready.parked \cup {i}]
  <2> DEFINE n == Len(ready.orders)
             s == ready.frames
             parked == ready.parked \cup {i}
  <2>1. ready \in Station(n) /\ n \in Nat /\ s \in Seq(Frame) /\ i \in Nat
        BY <1>2 DEF Well, Station, Command, NoCommand
  <2>2. f \in Frame
        BY DEF Frame, Waiting, Answer, Env
  <2>3. s # <<>>
    <3>1. Len(s) > Len(c.frames) /\ Len(c.frames) \in Nat
      <4>1. c.frames \in Seq(Frame)
            BY DEF Well, Station
      <4> QED BY <1>7, <4>1, LenProperties DEF Opened
    <3> QED BY <3>1, EmptySeq
  <2>4. parked \in SUBSET Nat
        BY <2>1 DEF Station
  <2> HIDE DEF f
  <2>5. frames \in Seq(Frame)
        BY <2>1, <2>2, <2>3, InsertBeforeLast
  <2> HIDE DEF n, s, frames, parked
  <2>6. d = [ready EXCEPT !.frames = frames, !.parked = parked]
        BY <1>7 DEF parked
  <2>7. /\ d \in Station(n) /\ d.orders = ready.orders /\ d.seq = ready.seq /\ d.parked = parked
        /\ d.blocked = ready.blocked /\ d.standby = ready.standby /\ d.handled = ready.handled
        BY <2>1, <2>4, <2>5, <2>6 DEF Station
  <2>8. Well(d) /\ Follows(c, d)
        BY <1>2, <1>3, <2>1, <2>7 DEF Well, Withheld, Follows, n
  <2> QED BY <1>3, <2>7, <2>8 DEF d, parked
<1> QED BY <1>4, <1>5, <1>6, <1>7

LEMMA PoppedWell ==
    ASSUME NEW c, Env, Well(c), c.frames # <<>>
    PROVE  LET d == [c EXCEPT !.frames = Front(@)]
           IN  /\ Well(d) /\ Follows(c, d) /\ d.frames = Front(c.frames) /\ d.orders = c.orders
               /\ d.parked = c.parked /\ d.seq = c.seq /\ d.results = c.results
               /\ Last(c.frames) \in Frame
<1> DEFINE n == Len(c.orders)
           frames == Front(c.frames)
           d == [c EXCEPT !.frames = Front(@)]
<1>1. c \in Station(n) /\ n \in Nat /\ c.frames \in Seq(Frame)
      BY DEF Well, Station
<1>2. frames \in Seq(Frame) /\ Last(c.frames) \in Frame
      BY <1>1, FrontLast
<1>3. d = [c EXCEPT !.frames = frames]
      OBVIOUS
<1> HIDE DEF d, n, frames
<1>4. /\ d \in Station(n) /\ d.orders = c.orders /\ d.parked = c.parked /\ d.seq = c.seq
      /\ d.results = c.results /\ d.frames = frames /\ d.handled = c.handled
      /\ d.blocked = c.blocked /\ d.standby = c.standby
      BY <1>1, <1>2, <1>3 DEF Station
<1> QED BY <1>1, <1>2, <1>4 DEF Well, Withheld, Follows, d, n, frames

\* A command goes on; a phase of the sequence ends the refresh that opened its dialog.
LEMMA ResumedIs ==
    ASSUME NEW c, NEW yes
    PROVE  LET f == Last(c.frames)
               p == [c EXCEPT !.frames = Front(@)]
               a == Continue(p, f, yes)
               d == Resumed(c, yes)
           IN  \/ f.for = "command" /\ d = Done(p, Act(p, p, f.command))
               \/ /\ f.for # "command"
                  /\ \E b \in {a, Refreshed(a)} :
                         \/ d = b
                         \/ d = Observed(b, f.seen, FALSE, CanTakeOff(p, snap))
<1> DEFINE f == Last(c.frames)
           p == [c EXCEPT !.frames = Front(@)]
           a == Continue(p, f, yes)
           b == IF Submitted(p, f, yes) THEN Refreshed(a) ELSE a
           d == Resumed(c, yes)
<1>1. b \in {a, Refreshed(a)}
      OBVIOUS
<1>2. CASE f.for = "command"
      BY <1>2 DEF Resumed
<1>3. CASE f.for \in {"takeoff", "first", "landing"}
  <2>1. d = b
        BY <1>3 DEF Resumed, Completed, Concluded
  <2> QED BY <1>1, <1>3, <2>1
<1>4. CASE f.for \notin {"command", "takeoff", "first", "landing"}
  <2>1. d = Observed(b, f.seen, FALSE, CanTakeOff(p, snap))
        BY <1>4 DEF Resumed, Completed, Concluded
  <2> HIDE DEF a, b, d, f, p
  <2>2. f.for # "command"
        BY <1>4
  <2> QED BY <1>1, <2>1, <2>2 DEF a, d, f, p
<1> QED BY <1>2, <1>3, <1>4

LEMMA SeenPoint ==
    ASSUME NEW f \in Frame
    PROVE  f.seen.point \in 0..MaxPoints
BY DEF Frame, Shown

LEMMA ResumedWell ==
    ASSUME NEW c, Env, Well(c), snap.point \in 0..MaxPoints, c.frames # <<>>,
           NEW yes \in BOOLEAN
    PROVE  LET d == Resumed(c, yes)
           IN  Well(d) /\ Follows(c, d) /\ d.parked = c.parked
<1> DEFINE f == Last(c.frames)
           p == [c EXCEPT !.frames = Front(@)]
           a == Continue(p, f, yes)
           may == CanTakeOff(p, snap)
           d == Resumed(c, yes)
<1>1. Well(p) /\ Follows(c, p) /\ p.parked = c.parked /\ f \in Frame
      BY PoppedWell
<1>2. \/ f.for = "command" /\ d = Done(p, Act(p, p, f.command))
      \/ /\ f.for # "command"
         /\ \E b \in {a, Refreshed(a)} : d = b \/ d = Observed(b, f.seen, FALSE, may)
      BY ResumedIs
<1> HIDE DEF p, f, d, may
<1>3. CASE f.for = "command" /\ d = Done(p, Act(p, p, f.command))
  <2> DEFINE i == f.command
             e == Act(p, p, i)
  <2>1. i \in Command
        BY <1>1 DEF Frame
  <2> HIDE DEF i
  <2>2. Well(e) /\ Follows(p, e) /\ e.parked = p.parked
        BY <1>1, <2>1, ActWell
  <2>3. d = Done(p, e)
        BY <1>3 DEF i
  <2> HIDE DEF e
  <2>4. Well(d) /\ Follows(e, d) /\ d.parked = e.parked
        BY <2>2, <2>3, DoneWell
  <2>5. Follows(c, e)
        BY <1>1, <2>2, FollowsTwice
  <2>6. Follows(c, d)
        BY <1>1, <2>2, <2>4, <2>5, FollowsTwice
  <2> QED BY <1>1, <2>2, <2>4, <2>6 DEF d
<1>4. ASSUME f.for # "command", NEW b \in {a, Refreshed(a)},
             d = b \/ d = Observed(b, f.seen, FALSE, may)
      PROVE  Well(d) /\ Follows(c, d) /\ d.parked = c.parked
  <2>1. Well(a) /\ Follows(p, a) /\ a.parked = p.parked
        BY <1>1, <1>4, ContinueWell DEF Steady
  <2> HIDE DEF a
  <2>2. Well(b) /\ Follows(a, b) /\ b.parked = a.parked
    <3>1. CASE b = a
          BY <2>1, <3>1 DEF Well, Follows
    <3>2. CASE b = Refreshed(a)
          BY <2>1, <3>2, RefreshedWell
    <3> QED BY <1>4, <3>1, <3>2
  <2> DEFINE s == f.seen
             e == Observed(b, s, FALSE, may)
  <2>3. s.point \in 0..MaxPoints
        BY <1>1, SeenPoint
  <2>4. d = b \/ d = e
        BY <1>4
  <2> HIDE DEF s
  <2>5. Well(e) /\ Follows(b, e) /\ Steady(b, e)
        BY <2>2, <2>3, ObservedWell
  <2> HIDE DEF e
  <2>6. Well(d) /\ Follows(b, d) /\ d.parked = b.parked
        BY <2>2, <2>4, <2>5 DEF Well, Follows, Steady
  <2>7. Follows(c, a)
        BY <1>1, <2>1, FollowsTwice
  <2>8. Follows(c, b)
        BY <1>1, <2>1, <2>2, <2>7, FollowsTwice
  <2>9. Follows(c, d)
        BY <1>1, <2>2, <2>6, <2>8, FollowsTwice
  <2> QED BY <1>1, <2>1, <2>2, <2>6, <2>9
<1> QED BY <1>2, <1>3, <1>4 DEF d

(***************************************************************************)
(* Types of the states.                                                    *)
(***************************************************************************)
LEMMA WellAfter ==
    ASSUME limit' = limit, Well(gcs')
    PROVE  Well(gcs)'
<1>1. Command' = Command
      BY DEF Command
<1>2. \A k : Sequences(k)' = Sequences(k)
      BY <1>1 DEF Sequences
<1>3. \A k : Missions(k)' = Missions(k)
      BY DEF Missions
<1>4. \A k : Inspections(k)' = Inspections(k)
      BY <1>3 DEF Inspections
<1>5. Frame' = Frame /\ Order' = Order
      BY <1>1 DEF Frame, Order, Shown
<1> DEFINE n == Len(gcs.orders)
<1>7. n' \in Nat /\ gcs' \in Station(n') /\ Withheld(gcs')
      BY DEF Well
<1>8. gcs' \in Station(n)'
      BY <1>2, <1>3, <1>4, <1>5, <1>7 DEF Station
<1> QED BY <1>7, <1>8 DEF Well, Withheld

\* The link: what it has accepted for an address is what it has sent and still keeps.
Books(n, acc, snt, pen) ==
    /\ acc \in Seq(Events(n)) /\ snt \in Seq(Events(n)) /\ pen \in Seq(Events(n))
    /\ \A a \in Address : Sent(a, acc) = Sent(a, snt) \o Sent(a, pen)

\* The writer writes in a session only, and has the first event of its address in hand.
Hand(w, s, pen) ==
    /\ w.at \in WriterAt
    /\ s.phase # "up" => w.at = "off"
    /\ w.at = "sending" => Sent(s.to, pen) # <<>> /\ w.event = <<Head(Sent(s.to, pen))>>

Wired ==
    /\ Place
    /\ desired \in BOOLEAN /\ wake \in BOOLEAN /\ call \in BOOLEAN /\ session \in Session
    /\ outbound \in 0..OutboundLimit /\ upsets \in 0..MaxUpsets
    /\ Books(Len(gcs.orders), accepted, sent, pending)
    /\ Hand(writer, session, pending)

\* The ground station between its steps.
Seated(c) ==
    /\ Well(c) /\ c.out = <<>> /\ c.woken = FALSE
    /\ Len(c.orders) <= MaxTickets /\ c.handled <= received

\* The vehicle flies a ticket there is, and within its mission.
Span(c, t) == IF c.orders[t].command = NoCommand THEN 1 ELSE limit.points
Vehicles(n) == [armed : BOOLEAN, task : Task, ticket : 0..n, point : 0..MaxPoints,
                abnormal : BOOLEAN, guided : BOOLEAN, last : 0..n]
Flies(c, v) ==
    /\ v \in Vehicles(Len(c.orders))
    /\ v.task # "none" => v.ticket # 0
    /\ v.task = "waypoints" => v.point \in 1..Span(c, v.ticket)
Flown(n) == [done : SUBSET (1..n), reached : SUBSET ((1..n) \X (1..limit.points)),
             landed : SUBSET (1..n)]

Ground ==
    /\ limit \in Limits
    /\ Seated(gcs) /\ received \in Command
    /\ Flies(gcs, veh) /\ flights \in Flown(Len(gcs.orders))
    /\ calls \subseteq 1..Len(gcs.orders) /\ lost \subseteq 1..Len(gcs.orders)
    /\ snap \in Shown /\ media \in [Ticket -> Media] /\ mishaps \in Nat

Sound == Wired /\ Ground

\* Everything a state says of types follows.
LEMMA SoundTypeOK ==
    ASSUME Sound
    PROVE  TypeOK
<1> DEFINE n == Len(gcs.orders)
<1>1. n \in Nat /\ n <= MaxTickets /\ gcs \in Station(n) /\ limit \in Limits /\ MaxTickets \in Nat
      BY ProjectorAssumption DEF Sound, Ground, Seated, Well
<1>2. 1..n \subseteq Ticket /\ 0..n \subseteq Ticket \cup {NoTicket}
  <2> HIDE DEF n
  <2> QED BY <1>1 DEF Ticket, NoTicket
<1>3. Events(n) \subseteq Event
      BY <1>2 DEF Events, Event
<1>4. Missions(n) \subseteq Mission
      BY <1>2 DEF Missions, Mission, Numbers, Outcomes
<1>5. Sequences(n) \subseteq Sequence /\ Results(n) \subseteq Result
      BY <1>2 DEF Sequences, Sequence, Results, Result
<1> HIDE DEF n
<1>6. \A A, s : s \in Seq(A) => {s[i] : i \in DOMAIN s} \subseteq A
      BY LenProperties, ElementOfSeq
<1>7. /\ gcs.frames \in Seq(Frame) /\ gcs.waiting \in Seq(Inspections(n))
      /\ gcs.photos \in Seq(Inspections(n)) /\ gcs.queue \in Seq(1..n)
      /\ gcs.results \in Seq(Results(n)) /\ gcs.orders \in Seq(Order)
      /\ gcs.seq \in Sequences(n) /\ gcs.mission \in Missions(n)
      BY <1>1 DEF Station
<1>8. Inspections(n) \subseteq Missions(n)
      BY DEF Inspections
<1>9. /\ {gcs.frames[i] : i \in DOMAIN gcs.frames} \subseteq Frame
      /\ {gcs.waiting[i] : i \in DOMAIN gcs.waiting} \subseteq Mission
      /\ {gcs.photos[i] : i \in DOMAIN gcs.photos} \subseteq Mission
      /\ {gcs.queue[i] : i \in DOMAIN gcs.queue} \subseteq Ticket
      /\ {gcs.results[i] : i \in DOMAIN gcs.results} \subseteq Result
      /\ {gcs.orders[i] : i \in DOMAIN gcs.orders} \subseteq Order
      /\ gcs.seq \in Sequence /\ gcs.mission \in Mission
  <2>1. {gcs.frames[i] : i \in DOMAIN gcs.frames} \subseteq Frame
        BY <1>6, <1>7
  <2>2. /\ {gcs.waiting[i] : i \in DOMAIN gcs.waiting} \subseteq Inspections(n)
        /\ {gcs.photos[i] : i \in DOMAIN gcs.photos} \subseteq Inspections(n)
        BY <1>6, <1>7
  <2>3. {gcs.queue[i] : i \in DOMAIN gcs.queue} \subseteq 1..n
        BY <1>6, <1>7
  <2>4. {gcs.results[i] : i \in DOMAIN gcs.results} \subseteq Results(n)
        BY <1>6, <1>7
  <2>5. {gcs.orders[i] : i \in DOMAIN gcs.orders} \subseteq Order
        BY <1>6, <1>7
  <2> QED BY <1>2, <1>4, <1>5, <1>7, <1>8, <2>1, <2>2, <2>3, <2>4, <2>5
<1>10. {pending[i] : i \in DOMAIN pending} \subseteq Event
  <2>1. pending \in Seq(Events(n))
        BY DEF Sound, Wired, Books, n
  <2>2. {pending[i] : i \in DOMAIN pending} \subseteq Events(n)
        BY <1>6, <2>1
  <2> QED BY <1>3, <2>2
<1>11. LinkTypeOK(Event)
       BY <1>1, <1>10 DEF LinkTypeOK, Sound, Wired, Hand, Place
<1>12. calls \cup lost \subseteq Ticket /\ veh.task \in Task
       BY <1>2 DEF Sound, Ground, Flies, Vehicles, n
<1>13. gcs.handled \in 0..received
  <2>1. gcs.handled \in Nat /\ gcs.handled <= received /\ received \in Command
        BY <1>1 DEF Station, Sound, Ground, Seated
  <2>2. received \in Nat
        BY <2>1 DEF Command, NoCommand
  <2> QED BY <2>1, <2>2
<1>14. /\ gcs.running \in BOOLEAN /\ gcs.latched \in BOOLEAN /\ gcs.staged \in BOOLEAN
       /\ gcs.blocked \in BOOLEAN /\ gcs.standby \in BOOLEAN /\ gcs.told \in BOOLEAN
       BY <1>1 DEF Station
<1>15. /\ gcs.out = <<>> /\ gcs.woken = FALSE /\ snap \in Shown /\ media \in [Ticket -> Media]
       /\ received \in Command
       BY DEF Sound, Ground, Seated
<1> QED BY <1>9, <1>11, <1>12, <1>13, <1>14, <1>15 DEF TypeOK

\* So does what is said of the events, and of standby.
LEMMA SoundRetained ==
    ASSUME Sound
    PROVE  RetainedKept /\ StandbyWithheld
BY DEF Sound, Wired, Ground, Seated, Well, Withheld, Books, RetainedKept, StandbyWithheld

(***************************************************************************)
(* Steps of the link.                                                      *)
(***************************************************************************)
\* Accepted events join the list; the event in hand stays the first of its address.
LEMMA BooksGrow ==
    ASSUME NEW n \in Nat, NEW m \in Nat, n <= m, NEW acc, NEW snt, NEW pen,
           Books(n, acc, snt, pen), NEW new \in Seq(Events(m))
    PROVE  /\ Books(m, acc \o new, snt, pen \o new)
           /\ \A w, s : Hand(w, s, pen) => Hand(w, s, pen \o new)
<1> DEFINE A == Events(m)
<1>1. acc \in Seq(A) /\ snt \in Seq(A) /\ pen \in Seq(A) /\ new \in Seq(A)
      BY StationGrows DEF Books
<1>2. \A a \in Address : Sent(a, acc) = Sent(a, snt) \o Sent(a, pen)
      BY DEF Books
<1> HIDE DEF A
<1>3. \A a : /\ Sent(a, acc \o new) = Sent(a, acc) \o Sent(a, new)
             /\ Sent(a, pen \o new) = Sent(a, pen) \o Sent(a, new)
      BY <1>1, SentConcat
<1>4. \A a : /\ Sent(a, acc) \in Seq(A) /\ Sent(a, new) \in Seq(A) /\ Sent(a, pen) \in Seq(A)
             /\ Sent(a, snt) \in Seq(A)
      BY <1>1, SentSeq
<1>5. \A a \in Address : Sent(a, acc \o new) = Sent(a, snt) \o Sent(a, pen \o new)
  <2> TAKE a \in Address
  <2> DEFINE x == Sent(a, snt)
             y == Sent(a, pen)
             z == Sent(a, new)
  <2>1. x \in Seq(A) /\ y \in Seq(A) /\ z \in Seq(A)
        BY <1>4
  <2>2. Sent(a, acc \o new) = (x \o y) \o z /\ Sent(a, pen \o new) = y \o z
        BY <1>2, <1>3
  <2> HIDE DEF x, y, z
  <2>3. (x \o y) \o z = x \o (y \o z)
        BY <2>1, ConcatAssociative
  <2> QED BY <2>2, <2>3 DEF x
<1>6. acc \o new \in Seq(A) /\ pen \o new \in Seq(A)
      BY <1>1, ConcatType
<1>7. Books(m, acc \o new, snt, pen \o new)
      BY <1>1, <1>5, <1>6 DEF Books, A
<1>8. ASSUME NEW w, NEW s, Hand(w, s, pen) PROVE Hand(w, s, pen \o new)
  <2> SUFFICES ASSUME w.at = "sending"
               PROVE  /\ Sent(s.to, pen \o new) # <<>>
                      /\ w.event = <<Head(Sent(s.to, pen \o new))>>
      BY <1>8 DEF Hand
  <2> DEFINE y == Sent(s.to, pen)
             z == Sent(s.to, new)
  <2>1. y \in Seq(A) /\ z \in Seq(A) /\ y # <<>> /\ w.event = <<Head(y)>>
        BY <1>4, <1>8 DEF Hand
  <2>2. Sent(s.to, pen \o new) = y \o z
        BY <1>3
  <2> HIDE DEF y, z
  <2>3. y \o z # <<>> /\ Head(y \o z) = Head(y)
    <3> DEFINE u == y \o z
    <3>1. /\ Len(y) \in Nat /\ Len(z) \in Nat /\ Len(y) # 0 /\ u \in Seq(A)
          /\ Len(u) = Len(y) + Len(z)
          /\ \A i \in 1..(Len(y) + Len(z)) : u[i] = IF i <= Len(y) THEN y[i] ELSE z[i - Len(y)]
          BY <2>1, EmptySeq, LenProperties, ConcatProperties
    <3> HIDE DEF u
    <3>2. u # <<>> /\ 1 \in 1..(Len(y) + Len(z)) /\ 1 <= Len(y)
          BY <3>1, EmptySeq
    <3>3. u[1] = y[1]
          BY <3>1, <3>2
    <3>4. Head(u) = u[1] /\ Head(y) = y[1]
          BY <2>1, <3>1, <3>2, HeadTailProperties
    <3> QED BY <3>2, <3>3, <3>4 DEF u
  <2> QED BY <2>1, <2>2, <2>3
<1> QED BY <1>7, <1>8

\* The event in hand has been sent.
LEMMA BooksClose ==
    ASSUME NEW n \in Nat, NEW acc, NEW snt, NEW pen, Books(n, acc, snt, pen),
           NEW w, NEW s \in Session, Hand(w, s, pen), w.at = "sending"
    PROVE  Books(n, acc, snt \o w.event, RemoveFirst(pen, w.event[1]))
<1> DEFINE A == Events(n)
           b == s.to
           h == Head(Sent(b, pen))
           r == RemoveFirst(pen, h)
           v == <<h>>
<1>1. acc \in Seq(A) /\ snt \in Seq(A) /\ pen \in Seq(A)
      BY DEF Books
<1>2. Sent(b, pen) # <<>> /\ w.event = v /\ w.event[1] = h
      BY DEF Hand
<1>3. b \in Address
      BY DEF Session
<1> HIDE DEF A, b
<1>4. /\ h \in A /\ h.to = b /\ r \in Seq(A) /\ Sent(b, r) = Tail(Sent(b, pen))
      /\ \A a : a # b => Sent(a, r) = Sent(a, pen)
      BY <1>1, <1>2, SentRemoved
<1>5. \A a \in Address : Sent(a, acc) = Sent(a, snt) \o Sent(a, pen)
      BY DEF Books
<1>6. \A a : Sent(a, pen) \in Seq(A) /\ Sent(a, snt) \in Seq(A)
      BY <1>1, SentSeq
<1> DEFINE hd == h
<1>7. hd \in A /\ hd.to = b /\ v = <<hd>>
      BY <1>4
<1> HIDE DEF h, r, hd
<1>8. v \in Seq(A)
      BY <1>7
<1>9. \A a : Sent(a, v) = IF a = b THEN v ELSE <<>>
  <2> TAKE a
  <2> DEFINE T == {e \in A : e.to = a}
  <2>1. Sent(a, v) = Within(v, T)
    <3> HIDE DEF v, T
    <3>1. Sent(a, v) = Within(v, {e \in A : e.to = a})
          BY <1>8, SentOver
    <3> QED BY <3>1 DEF T
  <2>2. Within(v, T) = IF hd \in T THEN <<hd>> ELSE <<>>
    <3> HIDE DEF T, v
    <3> QED BY <1>7, WithinOne
  <2>3. hd \in T <=> a = b
        BY <1>7
  <2> HIDE DEF T
  <2> QED BY <1>7, <2>1, <2>2, <2>3
<1> HIDE DEF v
<1>10. \A a : Sent(a, snt \o v) = Sent(a, snt) \o Sent(a, v)
       BY <1>1, <1>8, SentConcat
<1>11. \A a \in Address : Sent(a, acc) = Sent(a, snt \o v) \o Sent(a, r)
  <2> TAKE a \in Address
  <2> DEFINE x == Sent(a, snt)
             y == Sent(a, pen)
  <2>1. x \in Seq(A) /\ y \in Seq(A) /\ Sent(a, acc) = x \o y
        BY <1>5, <1>6
  <2>2. CASE a # b
    <3>1. Sent(a, snt \o v) = x \o <<>> /\ Sent(a, r) = y
          BY <1>4, <1>9, <1>10, <2>2
    <3> HIDE DEF x, y
    <3>2. x \o <<>> = x
          BY <2>1, ConcatEmptySeq
    <3> QED BY <2>1, <3>1, <3>2
  <2>3. CASE a = b
    <3>1. Sent(a, snt \o v) = x \o v /\ Sent(a, r) = Tail(y) /\ y # <<>> /\ v = <<Head(y)>>
          BY <1>2, <1>4, <1>7, <1>9, <1>10, <2>3 DEF h, hd
    <3> HIDE DEF x, y
    <3>2. Tail(y) \in Seq(A) /\ y = v \o Tail(y)
          BY <2>1, <3>1, HeadTailAppend, HeadTailProperties
    <3> DEFINE t == Tail(y)
    <3>3. t \in Seq(A) /\ y = v \o t
          BY <3>2
    <3> HIDE DEF t
    <3>4. (x \o v) \o t = x \o (v \o t)
          BY <1>8, <2>1, <3>3, ConcatAssociative
    <3> QED BY <2>1, <3>1, <3>3, <3>4 DEF t
  <2> QED BY <2>2, <2>3
<1>12. snt \o v \in Seq(A)
       BY <1>1, <1>8, ConcatType
<1> QED BY <1>1, <1>2, <1>4, <1>11, <1>12 DEF Books, A, r, v, h

(***************************************************************************)
(* Steps that leave the ground station and the vehicle alone.              *)
(***************************************************************************)
LEMMA GroundKept ==
    ASSUME Ground, UNCHANGED <<limit, media, missionVars>>
    PROVE  Ground'
<1>1. /\ limit' = limit /\ media' = media /\ received' = received /\ gcs' = gcs /\ snap' = snap
      /\ veh' = veh /\ calls' = calls /\ lost' = lost /\ mishaps' = mishaps /\ flights' = flights
      BY DEF missionVars
<1>2. Well(gcs')
      BY <1>1 DEF Ground, Seated
<1>3. Well(gcs)'
      BY <1>1, <1>2, WellAfter
<1>4. Seated(gcs)'
      BY <1>1, <1>3 DEF Ground, Seated
<1>5. (received \in Command)'
      BY <1>1 DEF Ground, Command
<1>6. Flies(gcs, veh)'
      BY <1>1 DEF Ground, Flies, Span, Vehicles
<1>7. (flights \in Flown(Len(gcs.orders)))'
      BY <1>1 DEF Ground, Flown
<1>8. (limit \in Limits /\ calls \subseteq 1..Len(gcs.orders) /\ lost \subseteq 1..Len(gcs.orders)
       /\ snap \in Shown /\ media \in [Ticket -> Media] /\ mishaps \in Nat)'
      BY <1>1 DEF Ground, Shown
<1> QED BY <1>4, <1>5, <1>6, <1>7, <1>8 DEF Ground

\* The books do not change, or what is in the list has been sent.
LEMMA LinkStepSound ==
    ASSUME Sound, LinkStep
    PROVE  Sound'
<1> DEFINE n == Len(gcs.orders)
<1>1. /\ limit' = limit /\ media' = media /\ gcs' = gcs
      /\ UNCHANGED missionVars
      BY DEF LinkStep, OperatorStep, SupervisorStep, WriterStep, Connect, Disconnect, StartSession,
             Woken, RunCall, SessionFails, WriterLooks, WriterTakes, WriterSent, missionVars
<1>2. Ground'
      BY <1>1, GroundKept DEF Sound
<1>3. Place /\ OutboundLimit \in Nat \ {0} /\ MaxUpsets \in Nat /\ session \in Session
      /\ desired \in BOOLEAN /\ wake \in BOOLEAN /\ call \in BOOLEAN
      /\ outbound \in 0..OutboundLimit /\ upsets \in 0..MaxUpsets
      /\ Books(n, accepted, sent, pending) /\ Hand(writer, session, pending) /\ n \in Nat
      BY LinkAssumption DEF Sound, Wired, Ground, Seated, Well
<1> DEFINE flags == /\ connected' \in BOOLEAN /\ desired' \in BOOLEAN
                    /\ wake' \in BOOLEAN /\ call' \in BOOLEAN
           counts == outbound' \in 0..OutboundLimit /\ upsets' \in 0..MaxUpsets
           places == address' \in Address /\ session' \in Session
           plain == flags /\ counts /\ places
           same == accepted' = accepted /\ sent' = sent /\ pending' = pending
<1> HIDE DEF n
<1>4. CASE \E a \in Address : Connect(a)
  <2>a. flags
        BY <1>3, <1>4 DEF Connect, eventVars, Place
  <2>b. counts
        BY <1>3, <1>4 DEF Connect, eventVars, Queued
  <2>c. places
        BY <1>3, <1>4 DEF Connect, eventVars, Place, Session, SessionPhase
  <2>d. same /\ Hand(writer', session', pending')
        BY <1>3, <1>4 DEF Connect, eventVars
  <2>1. plain /\ same /\ Hand(writer', session', pending')
        BY <2>a, <2>b, <2>c, <2>d
  <2> QED BY <1>1, <1>2, <1>3, <2>1 DEF Sound, Wired, Place, n
<1>5. CASE Disconnect
  <2>a. flags
        BY <1>3, <1>5 DEF Disconnect, eventVars, Place
  <2>b. counts
        BY <1>3, <1>5 DEF Disconnect, eventVars, Queued
  <2>c. places
        BY <1>3, <1>5 DEF Disconnect, eventVars, Place, Session, SessionPhase
  <2>d. same /\ Hand(writer', session', pending')
        BY <1>3, <1>5 DEF Disconnect, eventVars
  <2>1. plain /\ same /\ Hand(writer', session', pending')
        BY <2>a, <2>b, <2>c, <2>d
  <2> QED BY <1>1, <1>2, <1>3, <2>1 DEF Sound, Wired, Place, n
<1>6. CASE StartSession
  <2>a. flags
        BY <1>3, <1>6 DEF StartSession, eventVars, operatorVars, Place
  <2>b. counts
        BY <1>3, <1>6 DEF StartSession, eventVars, operatorVars, Queued
  <2>c. places
        BY <1>3, <1>6 DEF StartSession, eventVars, operatorVars, Place, Session, SessionPhase
  <2>d. same
        BY <1>3, <1>6 DEF StartSession, eventVars, operatorVars
  <2>1. plain /\ same
        BY <2>a, <2>b, <2>c, <2>d
  <2>2. Hand(writer', session', pending')
        BY <1>3, <1>6 DEF StartSession, eventVars, Hand
  <2> QED BY <1>1, <1>2, <1>3, <2>1, <2>2 DEF Sound, Wired, Place, n
<1>7. CASE Woken
  <2>a. flags
        BY <1>3, <1>7 DEF Woken, SessionOver, eventVars, operatorVars, Place
  <2>b. counts
        BY <1>3, <1>7 DEF Woken, SessionOver, eventVars, operatorVars, Queued
  <2>c. places
        BY <1>3, <1>7 DEF Woken, SessionOver, eventVars, operatorVars, Place, Session, SessionPhase
  <2>d. same
        BY <1>3, <1>7 DEF Woken, SessionOver, eventVars, operatorVars
  <2>1. plain /\ same
        BY <2>a, <2>b, <2>c, <2>d
  <2>2. Hand(writer', session', pending')
    <3>1. CASE session.phase = "none"
          BY <1>3, <1>7, <3>1 DEF Woken, eventVars
    <3>2. CASE session.phase # "none"
          BY <1>7, <3>2 DEF Woken, SessionOver, Hand, Off, WriterAt
    <3> QED BY <3>1, <3>2
  <2> QED BY <1>1, <1>2, <1>3, <2>1, <2>2 DEF Sound, Wired, Place, n
<1>8. CASE RunCall
  <2>a. flags
        BY <1>3, <1>8 DEF RunCall, eventVars, operatorVars, Place
  <2>b. counts
        BY <1>3, <1>8 DEF RunCall, eventVars, operatorVars, Queued
  <2>c. places
        BY <1>3, <1>8 DEF RunCall, eventVars, operatorVars, Place, Session, SessionPhase
  <2>d. same /\ Hand(writer', session', pending')
        BY <1>3, <1>8 DEF RunCall, eventVars, operatorVars
  <2>1. plain /\ same /\ Hand(writer', session', pending')
        BY <2>a, <2>b, <2>c, <2>d
  <2> QED BY <1>1, <1>2, <1>3, <2>1 DEF Sound, Wired, Place, n
<1>9. CASE SessionFails
  <2>a. flags
        BY <1>3, <1>9 DEF SessionFails, SessionOver, eventVars, operatorVars, Place
  <2>b. counts
        BY <1>3, <1>9 DEF SessionFails, SessionOver, eventVars, operatorVars, Queued
  <2>c. places
        BY <1>3, <1>9 DEF SessionFails, SessionOver, eventVars, operatorVars, Place, Session, SessionPhase
  <2>d. same
        BY <1>3, <1>9 DEF SessionFails, SessionOver, eventVars, operatorVars
  <2>1. plain /\ same
        BY <2>a, <2>b, <2>c, <2>d
  <2>2. Hand(writer', session', pending')
        BY <1>9 DEF SessionFails, SessionOver, Hand, Off, WriterAt
  <2> QED BY <1>1, <1>2, <1>3, <2>1, <2>2 DEF Sound, Wired, Place, n
<1>10. CASE WriterLooks
  <2>1. plain /\ same
        BY <1>3, <1>10 DEF WriterLooks, eventVars, operatorVars, Place
  <2>2. Hand(writer', session', pending')
        BY <1>3, <1>10 DEF WriterLooks, eventVars, Hand, Mine, Off, WriterAt
  <2> QED BY <1>1, <1>2, <1>3, <2>1, <2>2 DEF Sound, Wired, Place, n
<1>11. CASE WriterTakes
  <2>1. plain /\ same
        BY <1>3, <1>11 DEF WriterTakes, eventVars, operatorVars, Place
  <2>2. Hand(writer', session', pending')
        BY <1>3, <1>11 DEF WriterTakes, eventVars, Hand, WriterAt
  <2> QED BY <1>1, <1>2, <1>3, <2>1, <2>2 DEF Sound, Wired, Place, n
<1>12. CASE WriterSent
  <2>1. plain
        BY <1>3, <1>12 DEF WriterSent, operatorVars, Place
  <2>2. Hand(writer', session', pending')
        BY <1>3, <1>12 DEF WriterSent, Hand, Off, WriterAt
  <2>3. Books(n, accepted', sent', pending')
    <3>1. /\ accepted' = accepted /\ sent' = sent \o writer.event /\ writer.at = "sending"
          /\ pending' = RemoveFirst(pending, writer.event[1])
          BY <1>12 DEF WriterSent, Remaining
    <3>2. Books(n, accepted, sent \o writer.event, RemoveFirst(pending, writer.event[1]))
          BY <1>3, <3>1, BooksClose
    <3> QED BY <3>1, <3>2
  <2> QED BY <1>1, <1>2, <1>3, <2>1, <2>2, <2>3 DEF Sound, Wired, Place, n
<1> QED BY <1>4, <1>5, <1>6, <1>7, <1>8, <1>9, <1>10, <1>11, <1>12
        DEF LinkStep, OperatorStep, SupervisorStep, WriterStep

(***************************************************************************)
(* Steps of the ground station.                                            *)
(***************************************************************************)
\* What the vehicle and the histories say survives new orders.
LEMMA FlightGrows ==
    ASSUME NEW c, NEW d, Well(c), Well(d), Len(c.orders) <= Len(d.orders),
           \A i \in 1..Len(c.orders) : d.orders[i] = c.orders[i],
           NEW v, Flies(c, v), NEW f \in Flown(Len(c.orders))
    PROVE  Flies(d, v) /\ f \in Flown(Len(d.orders)) /\ 1..Len(c.orders) \subseteq 1..Len(d.orders)
<1> DEFINE n == Len(c.orders)
           m == Len(d.orders)
<1>1. n \in Nat /\ m \in Nat /\ n <= m /\ v \in Vehicles(n) /\ f \in Flown(n)
      BY DEF Well, Flies
<1>2. \A i \in 1..n : d.orders[i] = c.orders[i]
      OBVIOUS
<1>3. v.task # "none" => v.ticket # 0
      BY DEF Flies
<1>4. v.task = "waypoints" => v.point \in 1..Span(c, v.ticket)
      BY DEF Flies
<1>5. v.task = "waypoints" => v.ticket \in 1..n
      BY <1>1, <1>3 DEF Vehicles, Task
<1>6. v.task = "waypoints" => Span(d, v.ticket) = Span(c, v.ticket)
      BY <1>2, <1>5 DEF Span
<1> HIDE DEF n, m
<1>7. 0..n \subseteq 0..m /\ 1..n \subseteq 1..m
      BY <1>1
<1>8. v \in Vehicles(m)
      BY <1>1, <1>7 DEF Vehicles
<1>9. f \in Flown(m)
  <2>1. (1..n) \X (1..limit.points) \subseteq (1..m) \X (1..limit.points)
        BY <1>7
  <2> QED BY <1>1, <1>7, <2>1 DEF Flown
<1> QED BY <1>3, <1>4, <1>6, <1>7, <1>8, <1>9 DEF Flies, n, m

LEMMA SetGcsSound ==
    ASSUME Sound, NEW c, Well(c), Len(gcs.orders) <= Len(c.orders),
           \A i \in 1..Len(gcs.orders) : c.orders[i] = gcs.orders[i],
           c.handled <= received, SetGcs(c), UNCHANGED Elsewhere, received' = received,
           media' \in [Ticket -> Media], mishaps' \in Nat
    PROVE  Sound'
<1> DEFINE n == Len(gcs.orders)
           m == Len(c.orders)
<1>1. n \in Nat /\ m \in Nat /\ n <= m /\ m <= MaxTickets /\ c \in Station(m)
      BY DEF Sound, Ground, Seated, Well, SetGcs
<1>2. /\ gcs' = [c EXCEPT !.out = <<>>, !.woken = FALSE]
      /\ pending' = pending \o c.out /\ accepted' = accepted \o c.out
      /\ call' = (call \/ c.woken \/ c.out # <<>>)
      BY DEF SetGcs, Publish
<1>3. c.out \in Seq(Events(m)) /\ c.woken \in BOOLEAN
      BY <1>1 DEF Station
<1>4. /\ limit' = limit /\ address' = address /\ desired' = desired /\ wake' = wake
      /\ session' = session /\ connected' = connected /\ outbound' = outbound
      /\ writer' = writer /\ upsets' = upsets /\ sent' = sent /\ snap' = snap /\ veh' = veh
      /\ calls' = calls /\ lost' = lost /\ flights' = flights
      BY DEF Elsewhere, ReaderVars, operatorVars
<1> HIDE DEF m
<1>5. /\ gcs' \in Station(m) /\ gcs'.orders = c.orders /\ gcs'.out = <<>> /\ gcs'.woken = FALSE
      /\ gcs'.handled = c.handled /\ gcs'.seq = c.seq /\ gcs'.blocked = c.blocked
      /\ gcs'.standby = c.standby
  <2>1. <<>> \in Seq(Events(m))
        BY EmptySeq
  <2> QED BY <1>1, <1>2, <2>1 DEF Station
<1>6. Well(gcs')
      BY <1>1, <1>5 DEF Well, Withheld, m
<1>7. Well(gcs)'
      BY <1>4, <1>6, WellAfter
<1>8. Seated(gcs)'
      BY <1>1, <1>5, <1>7 DEF Seated, m
<1>9. Flies(gcs', veh) /\ flights \in Flown(Len(gcs'.orders))
      /\ 1..Len(gcs.orders) \subseteq 1..Len(gcs'.orders)
  <2>1. /\ Len(gcs.orders) <= Len(gcs'.orders) /\ Well(gcs)
        /\ \A i \in 1..Len(gcs.orders) : gcs'.orders[i] = gcs.orders[i]
        /\ Flies(gcs, veh) /\ flights \in Flown(Len(gcs.orders))
        BY <1>5 DEF Sound, Ground, Seated
  <2> DEFINE d == gcs'
  <2>2. /\ Well(d) /\ Len(gcs.orders) <= Len(d.orders)
        /\ \A i \in 1..Len(gcs.orders) : d.orders[i] = gcs.orders[i]
        BY <1>6, <2>1
  <2> HIDE DEF d
  <2>3. Flies(d, veh) /\ flights \in Flown(Len(d.orders))
        /\ 1..Len(gcs.orders) \subseteq 1..Len(d.orders)
        BY <2>1, <2>2, FlightGrows
  <2> QED BY <2>3 DEF d
<1>10. Flies(gcs, veh)' /\ (flights \in Flown(Len(gcs.orders)))'
       BY <1>4, <1>9 DEF Flies, Span, Vehicles, Flown
<1>11. (calls \subseteq 1..Len(gcs.orders) /\ lost \subseteq 1..Len(gcs.orders))'
       BY <1>4, <1>9 DEF Sound, Ground
<1>12. (received \in Command /\ snap \in Shown /\ media \in [Ticket -> Media] /\ mishaps \in Nat
        /\ limit \in Limits)'
       BY <1>4 DEF Sound, Ground, Command, Shown
<1>13. Ground'
       BY <1>8, <1>10, <1>11, <1>12 DEF Ground
<1>14. Books(m, accepted', sent', pending') /\ Hand(writer', session', pending')
  <2>1. Books(n, accepted, sent, pending) /\ Hand(writer, session, pending)
        BY DEF Sound, Wired
  <2> DEFINE new == c.out
  <2>2. new \in Seq(Events(m))
        BY <1>3
  <2> HIDE DEF new, n
  <2>3. /\ Books(m, accepted \o new, sent, pending \o new)
        /\ \A w, s : Hand(w, s, pending) => Hand(w, s, pending \o new)
        BY <1>1, <2>1, <2>2, BooksGrow
  <2>4. Hand(writer, session, pending \o new)
        BY <2>1, <2>3
  <2> QED BY <1>2, <1>4, <2>3, <2>4 DEF new
<1>15. Wired'
  <2>1. call' \in BOOLEAN
        BY <1>2
  <2>2. (Place /\ desired \in BOOLEAN /\ wake \in BOOLEAN /\ session \in Session
         /\ outbound \in 0..OutboundLimit /\ upsets \in 0..MaxUpsets)'
        BY <1>4 DEF Sound, Wired, Place
  <2>3. Books(Len(gcs.orders), accepted, sent, pending)' /\ Hand(writer, session, pending)'
        BY <1>5, <1>14 DEF m
  <2> QED BY <2>1, <2>2, <2>3 DEF Wired
<1> QED BY <1>13, <1>15 DEF Sound

LEMMA SoundFacts ==
    ASSUME Sound
    PROVE  /\ Env /\ Well(gcs) /\ snap.point \in 0..MaxPoints /\ Len(gcs.orders) \in Nat
           /\ limit \in Limits /\ received \in Nat /\ gcs.handled \in Nat
           /\ gcs.handled <= received /\ mishaps \in Nat /\ media \in [Ticket -> Media]
           /\ received \in Command
<1>1. Well(gcs) /\ gcs.handled <= received /\ received \in Command /\ snap \in Shown
      BY DEF Sound, Ground, Seated
<1>2. gcs.handled \in Nat /\ Len(gcs.orders) \in Nat
      BY <1>1 DEF Well, Station
<1>3. received \in Nat
      BY <1>1 DEF Command, NoCommand
<1>4. snap.point \in 0..MaxPoints
      BY <1>1 DEF Shown
<1> QED BY <1>1, <1>2, <1>3, <1>4 DEF Sound, Wired, Ground, Place, Env

\* A station that follows the present one is taken over.
LEMMA Taken ==
    ASSUME Sound, NEW c, Well(c), Follows(gcs, c), SetGcs(c), UNCHANGED Elsewhere,
           received' = received, media' \in [Ticket -> Media], mishaps' \in Nat
    PROVE  Sound'
<1>1. /\ Len(gcs.orders) <= Len(c.orders)
      /\ \A i \in 1..Len(gcs.orders) : c.orders[i] = gcs.orders[i]
      /\ c.handled <= received
      BY SoundFacts DEF Follows
<1> QED BY <1>1, SetGcsSound

LEMMA RefreshSound ==
    ASSUME Sound, NEW telemetry, Refresh(telemetry)
    PROVE  Sound'
<1> DEFINE c == RefreshTelling(gcs, telemetry)
<1>1. SetGcs(c) /\ UNCHANGED Elsewhere /\ received' = received /\ media' = media
      /\ mishaps' = mishaps
      BY DEF Refresh
<1>2. Well(c) /\ Follows(gcs, c)
      BY SoundFacts, RefreshTellingWell
<1> HIDE DEF c
<1>3. media' \in [Ticket -> Media] /\ mishaps' \in Nat
      BY <1>1, SoundFacts
<1> QED BY <1>1, <1>2, <1>3, Taken

\* The station that takes up the next command.
LEMMA NextCommandWell ==
    ASSUME NEW c, Well(c)
    PROVE  LET d == [c EXCEPT !.handled = @ + 1]
           IN  /\ Well(d) /\ d.orders = c.orders /\ d.handled = c.handled + 1
               /\ d.frames = c.frames /\ d.seq = c.seq /\ d.parked = c.parked
               /\ d.results = c.results
<1> DEFINE n == Len(c.orders)
           h == c.handled + 1
           d == [c EXCEPT !.handled = @ + 1]
<1>1. c \in Station(n) /\ n \in Nat
      BY DEF Well
<1>2. h \in Nat
      BY <1>1 DEF Station
<1>3. d = [c EXCEPT !.handled = h]
      OBVIOUS
<1> HIDE DEF d, h, n
<1>4. /\ d \in Station(n) /\ d.orders = c.orders /\ d.handled = h /\ d.seq = c.seq
      /\ d.frames = c.frames /\ d.parked = c.parked /\ d.results = c.results
      /\ d.blocked = c.blocked /\ d.standby = c.standby
      BY <1>1, <1>2, <1>3 DEF Station
<1> QED BY <1>1, <1>4 DEF Well, Withheld, d, h, n

LEMMA HandleCommandSound ==
    ASSUME Sound, HandleCommand
    PROVE  Sound'
<1> DEFINE i == gcs.handled + 1
           b == [gcs EXCEPT !.handled = @ + 1]
           c == Handle(b, i)
<1>1. SetGcs(c) /\ UNCHANGED Elsewhere /\ received' = received /\ media' = media
      /\ mishaps' = mishaps /\ gcs.handled < received
      BY DEF HandleCommand
<1>2. i \in Command /\ i <= received
      BY <1>1, SoundFacts DEF Command, NoCommand
<1>3. Well(b) /\ b.orders = gcs.orders /\ b.handled = i
      BY SoundFacts, NextCommandWell
<1> HIDE DEF b, i
<1>4. Well(c) /\ Follows(b, c)
      BY <1>2, <1>3, SoundFacts, HandleWell
<1> HIDE DEF c
<1>5. /\ Len(gcs.orders) <= Len(c.orders)
      /\ \A k \in 1..Len(gcs.orders) : c.orders[k] = gcs.orders[k]
      /\ c.handled <= received
      BY <1>2, <1>3, <1>4 DEF Follows
<1>6. media' \in [Ticket -> Media] /\ mishaps' \in Nat
      BY <1>1, SoundFacts
<1> QED BY <1>1, <1>4, <1>5, <1>6, SetGcsSound

LEMMA DialogEndsSound ==
    ASSUME Sound, DialogEnds
    PROVE  Sound'
<1>1. \E yes \in BOOLEAN : SetGcs(Resumed(gcs, yes))
      BY DEF DialogEnds
<1>2. PICK yes \in BOOLEAN : SetGcs(Resumed(gcs, yes))
      BY <1>1
<1> DEFINE c == Resumed(gcs, yes)
<1>3. UNCHANGED Elsewhere /\ received' = received /\ media' = media /\ gcs.frames # <<>>
      BY DEF DialogEnds
<1>4. mishaps' \in Nat
  <2>1. mishaps' = mishaps \/ (mishaps > 0 /\ mishaps' = mishaps - 1)
        BY DEF DialogEnds, Mishap
  <2>2. mishaps \in Nat
        BY SoundFacts
  <2> QED BY <2>1, <2>2
<1>5. Well(c) /\ Follows(gcs, c)
      BY <1>3, SoundFacts, ResumedWell
<1> HIDE DEF c
<1>6. media' \in [Ticket -> Media] /\ SetGcs(c)
      BY <1>2, <1>3, SoundFacts DEF c
<1> QED BY <1>3, <1>4, <1>5, <1>6, Taken

\* The operator's landing, before its refresh.
Landing(c) ==
    LET ticket == NextTicket(c)
        queued == Enqueue(c, "land", NoCommand)
    IN  IF c.seq.phase = "land"
        THEN BeginLanding([queued EXCEPT !.seq.ticket = ticket], ticket)
        ELSE queued

LEMMA LandingWell ==
    ASSUME NEW c, Env, Well(c)
    PROVE  LET d == Landing(c)
               n == Len(c.orders) + 1
           IN  /\ Well(d) /\ Follows(c, d) /\ Steady(c, d)
               /\ Len(d.orders) = n /\ d.orders[n] = [name |-> "land", command |-> NoCommand]
               /\ d.seq = IF c.seq.phase = "land" THEN [c.seq EXCEPT !.ticket = n] ELSE c.seq
<1> DEFINE n == Len(c.orders) + 1
           e == Enqueue(c, "land", NoCommand)
           q == [c.seq EXCEPT !.ticket = n]
           b == [e EXCEPT !.seq = q]
           l == BeginLanding(b, n)
           d == Landing(c)
           land == "land"
<1>0. land \in Name
      BY DEF Name
<1>1. NoCommand \in Command
      BY NoSequenceType DEF Env, Place
<1>2. /\ Len(e.orders) = n /\ n \in Nat /\ NextTicket(c) = n /\ e \in Station(n)
      /\ e.orders[n] = [name |-> "land", command |-> NoCommand] /\ Follows(c, e)
      /\ Leaves(c, e)
  <2> DEFINE k == NoCommand
  <2>1. k \in Command /\ Len(c.orders) \in Nat /\ c \in Station(Len(c.orders))
        BY <1>1 DEF Well
  <2> HIDE DEF k, land
  <2>2. /\ Len(Enqueue(c, land, k).orders) = n /\ n \in Nat /\ NextTicket(c) = n
        /\ Enqueue(c, land, k) \in Station(n)
        /\ Enqueue(c, land, k).orders[n] = [name |-> land, command |-> k]
        /\ Follows(c, Enqueue(c, land, k))
        /\ Leaves(c, Enqueue(c, land, k))
        BY <1>0, <2>1, EnqueueType
  <2> QED BY <2>2 DEF k, land
<1>3. d = IF c.seq.phase = "land" THEN l ELSE e
  <2>1. [e EXCEPT !.seq.ticket = n] = b
        BY <1>2 DEF Leaves, Station
  <2> QED BY <1>2, <2>1 DEF Landing
<1> HIDE DEF e, d
<1>4. Well(e) /\ Steady(c, e)
      BY <1>2 DEF Well, Withheld, Leaves, Steady
<1>5. CASE c.seq.phase # "land"
      BY <1>2, <1>3, <1>4, <1>5 DEF Leaves, d
<1>6. CASE c.seq.phase = "land"
  <2>1. c.seq # NoSequence
        BY <1>6 DEF NoSequence
  <2>2. n \in 0..n /\ n \in 1..n /\ c.seq = e.seq /\ e.seq \in Sequences(n)
        BY <1>2 DEF Leaves, Station
  <2>3. q \in Sequences(n)
        BY <2>2 DEF Sequences
  <2> HIDE DEF q, n
  <2>4. /\ b \in Station(n) /\ b.orders = e.orders /\ b.handled = e.handled /\ b.seq = q
        /\ Steady(e, b) /\ b.blocked = e.blocked /\ b.standby = e.standby
        BY <1>2, <2>3 DEF Station, Steady
  <2> HIDE DEF b
  <2>5. Well(b) /\ Follows(e, b)
        BY <1>2, <1>4, <2>1, <2>2, <2>4 DEF Well, Withheld, Follows
  <2>6. n \in 1..Len(b.orders)
        BY <1>2, <2>2, <2>4
  <2>7. Well(l) /\ Follows(b, l) /\ Leaves(b, l) /\ l.orders = b.orders
        BY <2>5, <2>6, BeginLandingWell
  <2> HIDE DEF l
  <2>8. Follows(c, l)
        BY <1>2, <1>4, <2>5, <2>7, FollowsTwice
  <2> QED BY <1>2, <1>3, <1>4, <1>6, <2>4, <2>7, <2>8 DEF Leaves, Steady, d, q, n
<1> QED BY <1>5, <1>6

LEMMA OperatorLandSound ==
    ASSUME Sound, OperatorLand
    PROVE  Sound'
<1> DEFINE b == Landing(gcs)
           c == Refreshed(b)
<1>1. SetGcs(c) /\ UNCHANGED Elsewhere /\ received' = received /\ media' = media
      BY DEF OperatorLand, Landing
<1>2. mishaps' \in Nat
      BY SoundFacts DEF OperatorLand, Mishap
<1>3. Well(b) /\ Follows(gcs, b)
      BY SoundFacts, LandingWell
<1> HIDE DEF b
<1>4. Well(c) /\ Follows(b, c)
      BY <1>3, SoundFacts, RefreshedWell
<1> HIDE DEF c
<1>5. Follows(gcs, c)
      BY <1>3, <1>4, SoundFacts, FollowsTwice
<1>6. media' \in [Ticket -> Media]
      BY <1>1, SoundFacts
<1> QED BY <1>1, <1>2, <1>4, <1>5, <1>6, Taken

LEMMA MediaTypes ==
    ASSUME NEW t \in Ticket, NEW i \in Point, NEW m \in [Ticket -> Media],
           NEW file \in {"ready", "failed"}, NEW ok \in BOOLEAN
    PROVE  /\ [m EXCEPT ![t].caught = @ \cup {i}, ![t].photo[i] = IF ok THEN @ ELSE "failed"]
              \in [Ticket -> Media]
           /\ [m EXCEPT ![t].photo[i] = file] \in [Ticket -> Media]
           /\ [m EXCEPT ![t].video = file] \in [Ticket -> Media]
           /\ [m EXCEPT ![t].late = TRUE] \in [Ticket -> Media]
<1>0. m[t] \in Media /\ m[t].photo \in [Point -> File]
      BY DEF Media
<1> DEFINE one == IF ok THEN m[t].photo[i] ELSE "failed"
           a == [m[t].photo EXCEPT ![i] = one]
           x == [m[t] EXCEPT !.caught = m[t].caught \cup {i}, !.photo = a]
           b == [m[t].photo EXCEPT ![i] = file]
           y == [m[t] EXCEPT !.photo = b]
           v == [m[t] EXCEPT !.video = file]
           l == [m[t] EXCEPT !.late = TRUE]
<1>1. one \in File
      BY <1>0 DEF File
<1>2. a \in [Point -> File] /\ b \in [Point -> File]
  <2> HIDE DEF one
  <2> QED BY <1>0, <1>1 DEF File
<1> HIDE DEF a, b
<1>3. x \in Media /\ y \in Media /\ v \in Media /\ l \in Media
      BY <1>0, <1>2 DEF Media, File
<1> HIDE DEF x, y, v, l
<1>4. /\ [m EXCEPT ![t] = x] \in [Ticket -> Media] /\ [m EXCEPT ![t] = y] \in [Ticket -> Media]
      /\ [m EXCEPT ![t] = v] \in [Ticket -> Media] /\ [m EXCEPT ![t] = l] \in [Ticket -> Media]
      BY <1>3
<1>5. /\ [m EXCEPT ![t].caught = @ \cup {i}, ![t].photo[i] = IF ok THEN @ ELSE "failed"]
         = [m EXCEPT ![t] = x]
      BY <1>0 DEF x, a
<1>6. [m EXCEPT ![t].photo[i] = file] = [m EXCEPT ![t] = y]
      BY DEF y, b
<1>7. /\ [m EXCEPT ![t].video = file] = [m EXCEPT ![t] = v]
      /\ [m EXCEPT ![t].late = TRUE] = [m EXCEPT ![t] = l]
      BY DEF v, l
<1> QED BY <1>4, <1>5, <1>6, <1>7

LEMMA ReachedType ==
    ASSUME Sound, NEW p \in flights.reached
    PROVE  /\ p[1] \in Ticket /\ p[1] \in 1..Len(gcs.orders)
           /\ p[2] \in Point /\ p[2] \in 1..limit.points
<1> DEFINE n == Len(gcs.orders)
<1>1. n \in Nat /\ n <= MaxTickets /\ limit.points \in 1..MaxPoints /\ MaxTickets \in Nat
      /\ MaxPoints \in Nat
      BY LimitFacts, ProjectorAssumption DEF Sound, Ground, Seated, Well
<1>2. p \in (1..n) \X (1..limit.points)
      BY DEF Sound, Ground, Flown
<1> HIDE DEF n
<1>3. p[1] \in 1..n /\ p[2] \in 1..limit.points
      BY <1>2
<1> QED BY <1>1, <1>3 DEF Ticket, Point, n

LEMMA CaptureSound ==
    ASSUME Sound, NEW p \in flights.reached, NEW ok \in BOOLEAN,
           CaptureReported(p[1], p[2], ok)
    PROVE  Sound'
<1> DEFINE t == p[1]
           i == p[2]
           c == ObserveCapture(gcs, t, i)
<1>1. t \in Ticket /\ i \in Point /\ i \in 1..limit.points
      BY ReachedType
<1>2. SetGcs(c) /\ UNCHANGED Elsewhere /\ received' = received /\ mishaps' = mishaps
      /\ media' = [media EXCEPT ![t].caught = @ \cup {i},
                                ![t].photo[i] = IF ok THEN @ ELSE "failed"]
      BY DEF CaptureReported, Captured, MediaKeeps
<1> HIDE DEF t, i
<1>3. media' \in [Ticket -> Media]
  <2>1. media \in [Ticket -> Media]
        BY SoundFacts
  <2> DEFINE file == "ready"
  <2>2. file \in {"ready", "failed"}
        OBVIOUS
  <2> HIDE DEF file
  <2> QED BY <1>1, <1>2, <2>1, <2>2, MediaTypes
<1>4. Well(c) /\ Follows(gcs, c)
  <2> DEFINE n == Len(gcs.orders)
  <2>1. n \in Nat /\ gcs \in Station(n) /\ Env /\ Well(gcs)
        BY SoundFacts DEF Well
  <2> HIDE DEF n
  <2>2. c \in Station(n) /\ Projects(gcs, c)
        BY <1>1, <2>1, ObserveCaptureType
  <2> HIDE DEF c
  <2> QED BY <2>1, <2>2, ProjectsWell DEF n
<1> HIDE DEF c
<1>5. mishaps' \in Nat
      BY <1>2, SoundFacts
<1> QED BY <1>2, <1>3, <1>4, <1>5, Taken

LEMMA CatalogueReadSound ==
    ASSUME Sound, CatalogueRead
    PROVE  Sound'
<1> DEFINE c == ObserveMedia(gcs)
<1>1. SetGcs(c) /\ UNCHANGED Elsewhere /\ received' = received /\ mishaps' = mishaps
      /\ media' = media
      BY DEF CatalogueRead, MediaKeeps
<1>2. Well(c) /\ Follows(gcs, c)
  <2> DEFINE n == Len(gcs.orders)
  <2>1. n \in Nat /\ gcs \in Station(n) /\ Env /\ Well(gcs)
        BY SoundFacts DEF Well
  <2> HIDE DEF n
  <2>2. c \in Station(n) /\ Projects(gcs, c)
        BY <2>1, ObserveMediaType
  <2> HIDE DEF c
  <2> QED BY <2>1, <2>2, ProjectsWell DEF n
<1> HIDE DEF c
<1>3. media' \in [Ticket -> Media] /\ mishaps' \in Nat
      BY <1>1, SoundFacts
<1> QED BY <1>1, <1>2, <1>3, Taken

(***************************************************************************)
(* Steps of the ROS client, of the reader and of the vehicle.              *)
(***************************************************************************)
\* A step after which the station holds the same orders and has no event to tell.
Quiet ==
    /\ Well(gcs') /\ gcs'.orders = gcs.orders /\ gcs'.out = <<>> /\ gcs'.woken = FALSE
    /\ gcs'.handled = gcs.handled

LEMMA GroundStep ==
    ASSUME Sound, Quiet, limit' = limit, received' \in Command, received <= received',
           Flies(gcs, veh'), flights' \in Flown(Len(gcs.orders)),
           calls' \subseteq 1..Len(gcs.orders), lost' \subseteq 1..Len(gcs.orders),
           snap' \in Shown, media' \in [Ticket -> Media], mishaps' \in Nat
    PROVE  Ground'
<1>1. Well(gcs)'
      BY WellAfter DEF Quiet
<1>2. gcs'.handled <= received'
  <2>1. gcs.handled \in Nat /\ received \in Nat /\ gcs.handled <= received
        BY SoundFacts
  <2>2. received' \in Nat
        BY DEF Command, NoCommand
  <2> QED BY <2>1, <2>2 DEF Quiet
<1>3. Seated(gcs)'
      BY <1>1, <1>2 DEF Seated, Quiet, Sound, Ground
<1>4. Flies(gcs, veh)'
      BY DEF Flies, Span, Vehicles, Quiet
<1>5. (flights \in Flown(Len(gcs.orders)))'
      BY DEF Flown, Quiet
<1>6. (received \in Command /\ limit \in Limits /\ snap \in Shown /\ mishaps \in Nat
       /\ media \in [Ticket -> Media] /\ calls \subseteq 1..Len(gcs.orders)
       /\ lost \subseteq 1..Len(gcs.orders))'
      BY DEF Quiet, Command, Shown, Sound, Ground
<1> QED BY <1>3, <1>4, <1>5, <1>6 DEF Ground

LEMMA WiredKept ==
    ASSUME Sound, Quiet, UNCHANGED linkVars
    PROVE  Wired' /\ limit' = limit
<1>1. /\ limit' = limit /\ address' = address /\ desired' = desired /\ wake' = wake
      /\ session' = session /\ connected' = connected /\ pending' = pending
      /\ outbound' = outbound /\ call' = call /\ writer' = writer /\ upsets' = upsets
      /\ accepted' = accepted /\ sent' = sent /\ gcs'.orders = gcs.orders
      BY DEF linkVars, Quiet
<1> QED BY <1>1 DEF Sound, Wired, Place

\* The link does nothing.
LEMMA QuietStep ==
    ASSUME Sound, Quiet, UNCHANGED linkVars, received' = received,
           Flies(gcs, veh'), flights' \in Flown(Len(gcs.orders)),
           calls' \subseteq 1..Len(gcs.orders), lost' \subseteq 1..Len(gcs.orders),
           snap' \in Shown, media' \in [Ticket -> Media], mishaps' \in Nat
    PROVE  Sound'
<1>1. Wired' /\ limit' = limit
      BY WiredKept
<1>2. received' \in Command /\ received <= received'
      BY SoundFacts
<1>3. Ground'
      BY <1>1, <1>2, GroundStep
<1> QED BY <1>1, <1>3 DEF Sound

LEMMA QuietSame ==
    ASSUME Sound, gcs' = gcs
    PROVE  Quiet
BY DEF Sound, Ground, Seated, Quiet

\* What the other parts of a sound state are.
LEMMA SoundParts ==
    ASSUME Sound
    PROVE  /\ Flies(gcs, veh) /\ flights \in Flown(Len(gcs.orders))
           /\ calls \subseteq 1..Len(gcs.orders) /\ lost \subseteq 1..Len(gcs.orders)
           /\ snap \in Shown /\ mishaps \in Nat /\ media \in [Ticket -> Media]
           /\ gcs.out = <<>> /\ gcs.woken = FALSE /\ Len(gcs.orders) \in Nat
           /\ \A t \in 1..Len(gcs.orders) : gcs.orders[t] \in Order
<1>1. Len(gcs.orders) \in Nat /\ gcs.orders \in Seq(Order)
      BY DEF Sound, Ground, Seated, Well, Station
<1>2. \A t \in 1..Len(gcs.orders) : gcs.orders[t] \in Order
      BY <1>1, ElementOfSeq
<1> QED BY <1>1, <1>2 DEF Sound, Ground, Seated

LEMMA MishapType ==
    ASSUME Sound, NEW kind, Mishap(kind)
    PROVE  mishaps' \in Nat
BY SoundParts DEF Mishap

\* Results arrive.
LEMMA ToldQuiet ==
    ASSUME Sound, NEW results \in Seq(Results(Len(gcs.orders))),
           gcs' = [gcs EXCEPT !.results = @ \o results]
    PROVE  Quiet
<1> DEFINE n == Len(gcs.orders)
           all == gcs.results \o results
<1>1. n \in Nat /\ gcs \in Station(n) /\ Withheld(gcs) /\ gcs.out = <<>> /\ gcs.woken = FALSE
      BY DEF Sound, Ground, Seated, Well
<1> HIDE DEF n
<1>2. gcs.results \in Seq(Results(n)) /\ results \in Seq(Results(n))
      BY <1>1 DEF Station, n
<1>3. all \in Seq(Results(n)) /\ gcs' = [gcs EXCEPT !.results = all]
      BY <1>2, ConcatType
<1> HIDE DEF all
<1>4. /\ gcs' \in Station(n) /\ gcs'.orders = gcs.orders /\ gcs'.seq = gcs.seq
      /\ gcs'.blocked = gcs.blocked /\ gcs'.standby = gcs.standby /\ gcs'.out = gcs.out
      /\ gcs'.woken = gcs.woken /\ gcs'.handled = gcs.handled
      BY <1>1, <1>3 DEF Station
<1> QED BY <1>1, <1>4 DEF Quiet, Well, Withheld, n

LEMMA FinalType ==
    ASSUME Sound, NEW t \in 1..Len(gcs.orders), NEW ok \in BOOLEAN
    PROVE  /\ Final(t, ok) \in Results(Len(gcs.orders))
           /\ <<Final(t, ok)>> \in Seq(Results(Len(gcs.orders)))
<1> DEFINE n == Len(gcs.orders)
           f == Final(t, ok)
<1>1. gcs.orders[t].name \in Name
      BY SoundParts DEF Order
<1>2. f \in Results(n)
      BY <1>1 DEF Final, OrderOf, Results
<1> HIDE DEF f, n
<1> QED BY <1>2 DEF f, n

LEMMA MediaSettlesSound ==
    ASSUME Sound, NEW p \in flights.reached, MediaSettles(p[1])
    PROVE  Sound'
<1> DEFINE t == p[1]
<1>1. t \in Ticket /\ media \in [Ticket -> Media]
      BY ReachedType, SoundFacts
<1>2. FileSettles(t) /\ UNCHANGED Elsewhere /\ UNCHANGED <<received, gcs, mishaps, pending, accepted, call>>
      BY DEF MediaSettles, MediaKeeps
<1> HIDE DEF t
<1>3. media[t].caught \subseteq Point
      BY <1>1 DEF Media
<1>4. media' \in [Ticket -> Media]
  <2>1. ASSUME NEW i \in media[t].caught, NEW file \in {"ready", "failed"},
               media' = [media EXCEPT ![t].photo[i] = file]
        PROVE  media' \in [Ticket -> Media]
    <3>1. i \in Point
          BY <1>3
    <3>2. TRUE \in BOOLEAN
          OBVIOUS
    <3> QED BY <1>1, <2>1, <3>1, <3>2, MediaTypes
  <2>2. PICK any \in Point : TRUE
        BY ProjectorAssumption DEF Point
  <2>3. ASSUME NEW file \in {"ready", "failed"}
        PROVE  /\ [media EXCEPT ![t].video = file] \in [Ticket -> Media]
               /\ [media EXCEPT ![t].late = TRUE] \in [Ticket -> Media]
    <3>1. TRUE \in BOOLEAN
          OBVIOUS
    <3> QED BY <1>1, <2>2, <3>1, MediaTypes
  <2>5. CASE media' = [media EXCEPT ![t].late = TRUE]
    <3>1. "ready" \in {"ready", "failed"}
          OBVIOUS
    <3> QED BY <2>3, <2>5, <3>1
  <2>4. \/ \E i \in media[t].caught, file \in {"ready", "failed"} :
               media' = [media EXCEPT ![t].photo[i] = file]
        \/ \E file \in {"ready", "failed"} : media' = [media EXCEPT ![t].video = file]
        \/ media' = [media EXCEPT ![t].late = TRUE]
        BY <1>2 DEF FileSettles
  <2> QED BY <2>1, <2>3, <2>4, <2>5
<1>5. /\ UNCHANGED linkVars /\ received' = received /\ gcs' = gcs /\ mishaps' = mishaps
      /\ veh' = veh /\ flights' = flights /\ calls' = calls /\ lost' = lost /\ snap' = snap
      BY <1>2 DEF Elsewhere, ReaderVars, operatorVars, linkVars
<1> QED BY <1>4, <1>5, QuietSame, SoundParts, QuietStep

LEMMA ConnectedSound ==
    ASSUME Sound, Connected
    PROVE  Sound'
<1> DEFINE n == Len(gcs.orders)
<1>1. /\ HandshakeDone /\ gcs' = ConnectionRestored(gcs)
      /\ UNCHANGED <<media, received, snap, veh, calls, lost, mishaps, flights>>
      BY DEF Connected
<1>2. n \in Nat /\ gcs \in Station(n) /\ Env /\ Well(gcs) /\ gcs.out = <<>> /\ gcs.woken = FALSE
      BY SoundFacts DEF Well, Sound, Ground, Seated
<1> HIDE DEF n
<1>3. gcs' \in Station(n) /\ gcs'.orders = gcs.orders /\ gcs'.seq = gcs.seq
      /\ gcs'.blocked = gcs.blocked /\ ~gcs'.standby /\ gcs'.handled = gcs.handled
      /\ gcs'.out = gcs.out /\ gcs'.woken = gcs.woken
      BY <1>1, <1>2 DEF ConnectionRestored, Station
<1>4. Quiet
      BY <1>2, <1>3 DEF Quiet, Well, Withheld, n
<1>5. /\ limit' = limit /\ address' = address /\ desired' = desired /\ wake' = wake
      /\ session' = [session EXCEPT !.phase = "up"] /\ connected' = TRUE /\ outbound' = outbound
      /\ call' = call /\ upsets' = upsets /\ writer' = [Off EXCEPT !.at = "check"]
      /\ pending' = pending /\ accepted' = accepted /\ sent' = sent
      BY <1>1 DEF HandshakeDone, operatorVars, eventVars
<1>6. Ground'
  <2>1. received' \in Command /\ received <= received'
        BY <1>1, SoundFacts
  <2> QED BY <1>1, <1>4, <1>5, <2>1, SoundParts, GroundStep
<1>7. Wired'
  <2>1. session' \in Session
        BY <1>5 DEF Sound, Wired, Session, SessionPhase
  <2>2. Hand(writer, session, pending)'
        BY <1>5 DEF Sound, Wired, Hand, Off, WriterAt, Session
  <2> QED BY <1>3, <1>5, <2>1, <2>2 DEF Sound, Wired, Place
<1> QED BY <1>6, <1>7 DEF Sound

LEMMA ReceiveCommandSound ==
    ASSUME Sound, ReceiveCommand
    PROVE  Sound'
<1>1. /\ received < Len(limit.script) /\ received' = received + 1 /\ gcs' = gcs
      /\ outbound' = Queued(outbound)
      /\ UNCHANGED <<media, snap, veh, calls, lost, mishaps, flights>>
      /\ UNCHANGED <<limit, address, desired, wake, session, connected, call, writer, upsets,
                     pending, accepted, sent>>
      BY DEF ReceiveCommand, operatorVars, eventVars
<1>2. received' \in Command /\ received <= received'
  <2>1. received \in Nat /\ Len(limit.script) \in Nat
        BY SoundFacts, LimitFacts, LenProperties
  <2> QED BY <1>1, <2>1 DEF Command, NoCommand
<1>3. Ground'
      BY <1>1, <1>2, QuietSame, SoundParts, GroundStep
<1>4. outbound' \in 0..OutboundLimit
      BY <1>1, LinkAssumption DEF Queued, Sound, Wired
<1>5. Wired'
      BY <1>1, <1>4 DEF Sound, Wired, Place
<1> QED BY <1>3, <1>5 DEF Sound

LEMMA StandbyDelayOverSound ==
    ASSUME Sound, StandbyDelayOver
    PROVE  Sound'
<1> DEFINE n == Len(gcs.orders)
           q == [gcs.seq EXCEPT !.delay = FALSE]
<1>1. n \in Nat /\ gcs \in Station(n) /\ Withheld(gcs) /\ gcs.out = <<>> /\ gcs.woken = FALSE
      BY DEF Sound, Ground, Seated, Well
<1> HIDE DEF n
<1>2. gcs.seq \in Sequences(n) /\ q \in Sequences(n)
      BY <1>1 DEF Station, Sequences
<1>3. gcs.seq # NoSequence
      BY DEF StandbyDelayOver, NoSequence
<1>4. gcs' = [gcs EXCEPT !.seq = q]
      BY DEF StandbyDelayOver
<1> HIDE DEF q
<1>5. /\ gcs' \in Station(n) /\ gcs'.orders = gcs.orders /\ gcs'.blocked = gcs.blocked
      /\ gcs'.standby = gcs.standby /\ gcs'.out = gcs.out /\ gcs'.woken = gcs.woken
      /\ gcs'.handled = gcs.handled
      BY <1>1, <1>2, <1>4 DEF Station
<1>6. Quiet
      BY <1>1, <1>3, <1>5 DEF Quiet, Well, Withheld, n
<1>7. UNCHANGED linkVars /\ UNCHANGED <<media, received, snap, veh, calls, lost, mishaps, flights>>
      BY DEF StandbyDelayOver
<1> QED BY <1>6, <1>7, SoundParts, QuietStep

LEMMA StatusArrivesSound ==
    ASSUME Sound, StatusArrives
    PROVE  Sound'
<1> DEFINE n == Len(gcs.orders)
<1>1. veh \in Vehicles(n) /\ n \in Nat /\ n <= MaxTickets /\ MaxTickets \in Nat
      BY ProjectorAssumption DEF Sound, Ground, Flies, Seated, Well
<1> HIDE DEF n
<1>2. 0..n \subseteq Ticket \cup {NoTicket}
      BY <1>1 DEF Ticket, NoTicket
<1>3. Mode \in {"idle", "takeoff", "hover", "waypoint", "land"}
      BY <1>1 DEF Mode, Vehicles, Task
<1>4. StatusNow \in Shown
      BY <1>1, <1>2, <1>3 DEF StatusNow, Shown, Vehicles
<1>5. /\ snap' = StatusNow /\ UNCHANGED linkVars
      /\ UNCHANGED <<media, received, gcs, veh, calls, lost, mishaps, flights>>
      BY DEF StatusArrives
<1> QED BY <1>4, <1>5, QuietSame, SoundParts, QuietStep

LEMMA SendRequestSound ==
    ASSUME Sound, SendRequest
    PROVE  Sound'
<1> DEFINE n == Len(gcs.orders)
           t == Head(gcs.queue)
           rest == Tail(gcs.queue)
           popped == [gcs EXCEPT !.queue = rest]
           all == Append(gcs.results, Final(t, FALSE))
<1>1. n \in Nat /\ gcs \in Station(n) /\ Withheld(gcs) /\ gcs.out = <<>> /\ gcs.woken = FALSE
      BY DEF Sound, Ground, Seated, Well
<1>2. gcs.queue \in Seq(1..n) /\ gcs.queue # <<>> /\ gcs.results \in Seq(Results(n))
      BY <1>1 DEF Station, SendRequest
<1>3. t \in 1..n /\ rest \in Seq(1..n)
      BY <1>2, HeadTailProperties
<1>4. all \in Seq(Results(n))
  <2> DEFINE f == Final(t, FALSE)
  <2>1. f \in Results(n)
        BY <1>3, FinalType
  <2> HIDE DEF f, n
  <2>2. Append(gcs.results, f) \in Seq(Results(n))
        BY <1>2, <2>1, AppendProperties
  <2> QED BY <2>2 DEF f
<1>5. \/ gcs' = popped /\ calls' = calls \cup {t} /\ mishaps' = mishaps
      \/ /\ gcs' = [popped EXCEPT !.results = all] /\ calls' = calls
         /\ Mishap("refuse")
      BY DEF SendRequest
<1>6. /\ UNCHANGED linkVars /\ UNCHANGED <<media, received, snap, veh, lost, flights>>
      BY DEF SendRequest
<1> HIDE DEF t, rest, all, n
<1>7. calls' \subseteq 1..n /\ mishaps' \in Nat
  <2>1. calls \subseteq 1..n /\ mishaps \in Nat
        BY SoundParts DEF n
  <2> QED BY <1>3, <1>5, <2>1, MishapType
<1>8. /\ gcs' \in Station(n) /\ gcs'.orders = gcs.orders /\ gcs'.blocked = gcs.blocked
      /\ gcs'.standby = gcs.standby /\ gcs'.out = gcs.out /\ gcs'.woken = gcs.woken
      /\ gcs'.handled = gcs.handled /\ gcs'.seq = gcs.seq
  <2>1. CASE gcs' = popped
        BY <1>1, <1>3, <2>1 DEF Station
  <2>2. CASE gcs' = [popped EXCEPT !.results = all]
        BY <1>1, <1>3, <1>4, <2>2 DEF Station
  <2> QED BY <1>5, <2>1, <2>2
<1>9. Quiet
      BY <1>1, <1>8 DEF Quiet, Well, Withheld, n
<1> QED BY <1>6, <1>7, <1>9, SoundParts, QuietStep DEF n

LEMMA RequestTimesOutSound ==
    ASSUME Sound, RequestTimesOut
    PROVE  Sound'
<1> DEFINE n == Len(gcs.orders)
<1>1. PICK t \in calls \cup lost : Tell(<<Final(t, FALSE)>>)
      BY DEF RequestTimesOut
<1>2. t \in 1..n
      BY SoundParts
<1> DEFINE results == <<Final(t, FALSE)>>
<1>3. results \in Seq(Results(n)) /\ gcs' = [gcs EXCEPT !.results = @ \o results]
      BY <1>1, <1>2, FinalType DEF Tell
<1> HIDE DEF results
<1>4. Quiet
      BY <1>3, ToldQuiet
<1>5. calls' \subseteq calls /\ lost' \subseteq lost /\ mishaps' \in Nat
      BY SoundParts, MishapType DEF RequestTimesOut
<1>6. calls' \subseteq 1..n /\ lost' \subseteq 1..n
      BY <1>5, SoundParts
<1>7. UNCHANGED linkVars /\ UNCHANGED <<media, received, snap, veh, flights>>
      BY DEF RequestTimesOut
<1> QED BY <1>4, <1>5, <1>6, <1>7, SoundParts, QuietStep

(***************************************************************************)
(* The vehicle.                                                            *)
(***************************************************************************)
\* What any vehicle step has to show: the flight, and what is told of it.
VehicleQuiet ==
    /\ UNCHANGED <<linkVars, media, received, snap>>
    /\ calls' \subseteq calls /\ lost' \subseteq lost \cup calls /\ mishaps' \in Nat

LEMMA VehicleStepSound ==
    ASSUME Sound, VehicleQuiet, Quiet, Flies(gcs, veh'), flights' \in Flown(Len(gcs.orders))
    PROVE  Sound'
<1>1. calls' \subseteq 1..Len(gcs.orders) /\ lost' \subseteq 1..Len(gcs.orders)
      BY SoundParts DEF VehicleQuiet
<1> QED BY <1>1, SoundParts, QuietStep DEF VehicleQuiet

LEMMA FlightFacts ==
    ASSUME Sound
    PROVE  /\ veh \in Vehicles(Len(gcs.orders)) /\ Len(gcs.orders) \in Nat
           /\ limit.points \in 1..MaxPoints /\ MaxPoints \in Nat
           /\ \A t : Span(gcs, t) \in 1..limit.points
           /\ veh.task # "none" => veh.ticket \in 1..Len(gcs.orders)
           /\ veh.task = "waypoints" => veh.point \in 1..Span(gcs, veh.ticket)
<1>1. limit.points \in 1..MaxPoints /\ MaxPoints \in Nat
      BY SoundFacts, LimitFacts
<1>2. \A t : Span(gcs, t) \in 1..limit.points
      BY <1>1 DEF Span
<1>3. /\ veh \in Vehicles(Len(gcs.orders)) /\ Len(gcs.orders) \in Nat
      /\ veh.task # "none" => veh.ticket # 0
      /\ veh.task = "waypoints" => veh.point \in 1..Span(gcs, veh.ticket)
      BY SoundParts DEF Flies
<1>4. veh.task # "none" => veh.ticket \in 1..Len(gcs.orders)
      BY <1>3 DEF Vehicles
<1> QED BY <1>1, <1>2, <1>3, <1>4

LEMMA TaskStartedType ==
    ASSUME Sound, NEW t \in 1..Len(gcs.orders)
    PROVE  Flies(gcs, TaskStarted(t)) /\ Flies(gcs, [veh EXCEPT !.last = Max({@, t})])
<1> DEFINE n == Len(gcs.orders)
           name == gcs.orders[t].name
           start == IF name = "waypoints" THEN 1 ELSE 0
           a == [veh EXCEPT !.abnormal = FALSE, !.last = t]
           b == [veh EXCEPT !.task = name, !.ticket = t, !.last = t, !.point = start]
           late == Max({veh.last, t})
           r == [veh EXCEPT !.last = late]
<1>1. /\ veh \in Vehicles(n) /\ n \in Nat /\ t \in 1..n /\ name \in Name /\ t \in 0..n
      /\ veh.task # "none" => veh.ticket # 0
      /\ veh.task = "waypoints" => veh.point \in 1..Span(gcs, veh.ticket)
      BY FlightFacts, SoundParts DEF Order
<1>2. 1 \in 1..Span(gcs, t) /\ start \in 0..MaxPoints
      BY FlightFacts
<1>3. late \in 0..n
  <2>1. veh.last \in 0..n
        BY <1>1 DEF Vehicles
  <2> HIDE DEF n
  <2>2. late = IF veh.last >= t THEN veh.last ELSE t
        BY <1>1, <2>1, MaxOfTwo
  <2> QED BY <1>1, <2>1, <2>2
<1>4. TaskStarted(t) = IF name = "clear_abnormal" THEN a ELSE b
      BY DEF TaskStarted, OrderOf
<1> HIDE DEF n, late
<1>5. Flies(gcs, r)
      BY <1>1, <1>3 DEF Flies, Vehicles, n
<1>6. CASE name = "clear_abnormal"
  <2>1. Flies(gcs, a)
        BY <1>1 DEF Flies, Vehicles, n
  <2> QED BY <1>4, <1>5, <1>6, <2>1 DEF r, late
<1>7. CASE name # "clear_abnormal"
  <2>1. name \in Task
        BY <1>1, <1>7 DEF Name, Task
  <2> HIDE DEF name
  <2>2. b \in Vehicles(n) /\ b.ticket = t /\ b.point = start /\ b.task = name
        BY <1>1, <1>2, <2>1 DEF Vehicles
  <2>3. t # 0
        BY <1>1
  <2>4. b.task = "waypoints" => b.point \in 1..Span(gcs, b.ticket)
        BY <1>2, <2>2
  <2> HIDE DEF b, start
  <2>5. Flies(gcs, b)
        BY <2>2, <2>3, <2>4 DEF Flies, n
  <2> QED BY <1>4, <1>5, <1>7, <2>5 DEF r, late
<1> QED BY <1>6, <1>7

LEMMA AnnouncedType ==
    ASSUME Sound, NEW t \in 1..Len(gcs.orders)
    PROVE  Announced(t) \in Seq(Results(Len(gcs.orders)))
<1> DEFINE n == Len(gcs.orders)
           f == [Final(t, TRUE) EXCEPT !.final = FALSE]
           g == <<f>>
           k == Cancelled
<1>1. Final(t, TRUE) \in Results(n) /\ <<Final(t, TRUE)>> \in Seq(Results(n))
      BY FinalType
<1>2. f \in Results(n)
      BY <1>1 DEF Results
<1>3. k \in Seq(Results(n))
  <2>1. CASE veh.task \in {"takeoff", "waypoints"}
    <3>1. veh.ticket \in 1..n
          BY <2>1, FlightFacts
    <3>2. <<Final(veh.ticket, FALSE)>> \in Seq(Results(n))
          BY <3>1, FinalType
    <3> QED BY <2>1, <3>2 DEF Cancelled
  <2>2. CASE veh.task \notin {"takeoff", "waypoints"}
    <3>1. k = <<>>
          BY <2>2 DEF Cancelled
    <3> HIDE DEF k, n
    <3> QED BY <3>1, EmptySeq
  <2> QED BY <2>1, <2>2
<1>4. Announced(t) = IF gcs.orders[t].name = "clear_abnormal" THEN <<Final(t, TRUE)>> ELSE k \o g
      BY DEF Announced, OrderOf
<1> HIDE DEF n, f, k
<1>5. g \in Seq(Results(n))
      BY <1>2
<1> HIDE DEF g
<1>6. k \o g \in Seq(Results(n))
      BY <1>3, <1>5, ConcatType
<1> QED BY <1>1, <1>4, <1>6 DEF n

LEMMA VehicleAnswersSound ==
    ASSUME Sound, NEW t \in calls, VehicleAnswers(t)
    PROVE  Sound'
<1>1. t \in 1..Len(gcs.orders)
      BY SoundParts
<1> DEFINE results == IF Accepts(t) THEN Announced(t) ELSE <<Final(t, FALSE)>>
<1>2. results \in Seq(Results(Len(gcs.orders)))
      BY <1>1, AnnouncedType, FinalType
<1>3. gcs' = [gcs EXCEPT !.results = @ \o results]
      BY DEF VehicleAnswers, Tell
<1> HIDE DEF results
<1>4. Quiet
      BY <1>2, <1>3, ToldQuiet
<1>5. veh' = TaskStarted(t) \/ veh' = [veh EXCEPT !.last = Max({@, t})]
      BY DEF VehicleAnswers
<1>6. Flies(gcs, veh')
      BY <1>1, <1>5, TaskStartedType
<1>7. VehicleQuiet
      BY SoundParts, MishapType DEF VehicleAnswers, VehicleQuiet
<1>8. flights' \in Flown(Len(gcs.orders))
      BY SoundParts DEF VehicleAnswers
<1> QED BY <1>4, <1>6, <1>7, <1>8, VehicleStepSound

\* The vehicle's own steps that tell nothing.
LEMMA SilentSteps ==
    ASSUME Sound, Arms \/ EntersLand \/ DisarmedInFlight \/ BecomesAbnormal
    PROVE  Sound'
<1> DEFINE n == Len(gcs.orders)
<1>1. VehicleQuiet
      BY SoundParts, MishapType
      DEF VehicleQuiet, VehicleKeeps, Arms, EntersLand, DisarmedInFlight, BecomesAbnormal
<1>2. gcs' = gcs /\ flights' = flights
      BY DEF Arms, EntersLand, DisarmedInFlight, BecomesAbnormal
<1>3. \/ veh' = [veh EXCEPT !.armed = TRUE]
      \/ veh' = [veh EXCEPT !.guided = FALSE]
      \/ veh' = Disarmed
      \/ veh' = [veh EXCEPT !.abnormal = TRUE]
      BY DEF Arms, EntersLand, DisarmedInFlight, BecomesAbnormal
<1>4. veh \in Vehicles(n) /\ (veh.task # "none" => veh.ticket # 0)
      BY FlightFacts DEF Flies
<1>5. veh.task = "waypoints" => veh.point \in 1..Span(gcs, veh.ticket)
      BY FlightFacts
<1> HIDE DEF n
<1>6. veh' \in Vehicles(n)
      BY <1>3, <1>4 DEF Vehicles, Disarmed, Task
<1>7. veh'.task # "none" =>
          veh'.task = veh.task /\ veh'.ticket = veh.ticket /\ veh'.point = veh.point
      BY <1>3, <1>4 DEF Disarmed, Vehicles
<1>8. Flies(gcs, veh')
  <2>1. veh'.task # "none" => veh'.ticket # 0
        BY <1>4, <1>7, FlightFacts
  <2>2. veh'.task = "waypoints" => veh'.point \in 1..Span(gcs, veh'.ticket)
        BY <1>5, <1>7
  <2> QED BY <1>6, <2>1, <2>2 DEF Flies, n
<1> QED BY <1>1, <1>2, <1>8, QuietSame, SoundParts, VehicleStepSound

\* A task that ends.
LEMMA EndedFlies ==
    ASSUME Sound
    PROVE  Flies(gcs, [veh EXCEPT !.task = "none"]) /\ Flies(gcs, Disarmed)
<1> DEFINE n == Len(gcs.orders)
<1>1. veh \in Vehicles(n)
      BY FlightFacts
<1> HIDE DEF n
<1> QED BY <1>1 DEF Flies, Vehicles, Disarmed, Task, n

LEMMA TaskFailsSound ==
    ASSUME Sound, TaskFails
    PROVE  Sound'
<1> DEFINE results == <<Final(veh.ticket, FALSE)>>
<1>1. veh.ticket \in 1..Len(gcs.orders)
      BY FlightFacts DEF TaskFails
<1>2. results \in Seq(Results(Len(gcs.orders))) /\ gcs' = [gcs EXCEPT !.results = @ \o results]
      BY <1>1, FinalType DEF TaskFails, Tell
<1> HIDE DEF results
<1>3. Quiet
      BY <1>2, ToldQuiet
<1>4. VehicleQuiet
      BY SoundParts, MishapType DEF VehicleQuiet, VehicleKeeps, TaskFails
<1>5. veh' = [veh EXCEPT !.task = "none"] /\ flights' = flights
      BY DEF TaskFails
<1> QED BY <1>3, <1>4, <1>5, EndedFlies, SoundParts, VehicleStepSound

LEMMA LandsSound ==
    ASSUME Sound, Lands
    PROVE  Sound'
<1> DEFINE n == Len(gcs.orders)
           results == <<Final(veh.ticket, TRUE)>>
           down == {t \in flights.done : OrderOf(t).name = "waypoints"}
           done == flights.done \cup {veh.ticket}
<1>1. veh.ticket \in 1..n
      BY FlightFacts DEF Lands
<1>2. results \in Seq(Results(n)) /\ gcs' = [gcs EXCEPT !.results = @ \o results]
      BY <1>1, FinalType DEF Lands, Tell
<1> HIDE DEF results
<1>3. Quiet
      BY <1>2, ToldQuiet
<1>4. VehicleQuiet
      BY SoundParts DEF VehicleQuiet, VehicleKeeps, Lands
<1>5. flights' = [flights EXCEPT !.done = done, !.landed = down]
      BY DEF Lands
<1>6. flights \in Flown(n)
      BY SoundParts
<1> HIDE DEF n
<1>7. done \in SUBSET (1..n) /\ down \in SUBSET (1..n)
      BY <1>1, <1>6 DEF Flown
<1> HIDE DEF done, down
<1>8. flights' \in Flown(n)
      BY <1>5, <1>6, <1>7 DEF Flown
<1>9. veh' = Disarmed
      BY DEF Lands
<1> QED BY <1>3, <1>4, <1>8, <1>9, EndedFlies, VehicleStepSound DEF n

LEMMA ReachesSound ==
    ASSUME Sound, Reaches
    PROVE  Sound'
<1> DEFINE n == Len(gcs.orders)
           last == veh.task = "takeoff" \/ veh.point = Size
           results == IF last THEN <<Final(veh.ticket, TRUE)>> ELSE <<>>
           done == IF last THEN flights.done \cup {veh.ticket} ELSE flights.done
           reached == IF veh.task = "waypoints"
                      THEN flights.reached \cup {<<veh.ticket, veh.point>>} ELSE flights.reached
           on == [veh EXCEPT !.point = @ + 1]
<1>1. /\ veh.ticket \in 1..n /\ n \in Nat /\ veh \in Vehicles(n)
      /\ veh.task \in {"takeoff", "waypoints"}
      BY FlightFacts DEF Reaches
<1>2. results \in Seq(Results(n))
  <2>1. <<Final(veh.ticket, TRUE)>> \in Seq(Results(n))
        BY <1>1, FinalType
  <2>2. <<>> \in Seq(Results(n))
    <3> HIDE DEF n
    <3> QED BY EmptySeq
  <2> QED BY <2>1, <2>2
<1>3. /\ gcs' = [gcs EXCEPT !.results = @ \o results]
      /\ flights' = [flights EXCEPT !.done = done, !.reached = reached]
      /\ veh' = IF last THEN [veh EXCEPT !.task = "none"] ELSE on
      BY DEF Reaches, Tell
<1> HIDE DEF results
<1>4. Quiet
      BY <1>2, <1>3, ToldQuiet
<1>5. VehicleQuiet
      BY SoundParts DEF VehicleQuiet, VehicleKeeps, Reaches
<1>6. /\ limit.points \in 1..MaxPoints /\ MaxPoints \in Nat
      /\ Span(gcs, veh.ticket) \in 1..limit.points /\ Size = Span(gcs, veh.ticket)
      /\ veh.task = "waypoints" => veh.point \in 1..Span(gcs, veh.ticket)
      BY FlightFacts DEF Size, Span, OrderOf
<1>7. flights \in Flown(n)
      BY SoundParts
<1> HIDE DEF n
<1>8. flights' \in Flown(n)
  <2>1. veh.task = "waypoints" => veh.point \in 1..limit.points
        BY <1>6
  <2>2. done \in SUBSET (1..n)
        BY <1>1, <1>7 DEF Flown
  <2>3. reached \in SUBSET ((1..n) \X (1..limit.points))
        BY <1>1, <1>7, <2>1 DEF Flown
  <2> HIDE DEF done, reached
  <2> QED BY <1>3, <1>7, <2>2, <2>3 DEF Flown
<1>9. Flies(gcs, veh')
  <2>1. CASE last
        BY <1>3, <2>1, EndedFlies
  <2>2. CASE ~last
    <3>1. veh.task = "waypoints" /\ veh.point # Size
          BY <1>1, <2>2
    <3>2. veh.point + 1 \in 1..Span(gcs, veh.ticket) /\ veh.point + 1 \in 0..MaxPoints
          BY <1>6, <3>1
    <3> DEFINE p == veh.point + 1
    <3>3. on = [veh EXCEPT !.point = p]
          OBVIOUS
    <3> HIDE DEF p, on
    <3>4. on \in Vehicles(n) /\ on.task = veh.task /\ on.ticket = veh.ticket /\ on.point = p
          BY <1>1, <3>2, <3>3 DEF Vehicles, p
    <3>5. on.ticket # 0
          BY <1>1, <3>4
    <3>6. Flies(gcs, on)
          BY <3>2, <3>4, <3>5 DEF Flies, n, p
    <3> QED BY <1>3, <2>2, <3>6
  <2> QED BY <2>1, <2>2
<1> QED BY <1>4, <1>5, <1>8, <1>9, VehicleStepSound DEF n

(***************************************************************************)
(* The invariant.                                                          *)
(***************************************************************************)
LEMMA InitSound ==
    ASSUME Init
    PROVE  Sound
<1> DEFINE a == CHOOSE x \in Address : TRUE
           n == Len(gcs.orders)
<1>1. a \in Address /\ LinkInit(a) /\ limit \in Limits
      BY LinkAssumption DEF Init, LinkInit
<1>2. /\ gcs = [seq |-> NoSequence, frames |-> <<>>, handled |-> 0,
                running |-> FALSE, active |-> NoTicket, latched |-> FALSE, staged |-> FALSE,
                queue |-> <<>>, orders |-> <<>>, results |-> <<>>,
                mission |-> NoMission, waiting |-> <<>>, photos |-> <<>>, landing |-> NoTicket,
                told |-> FALSE, blocked |-> FALSE, standby |-> FALSE,
                parked |-> {}, out |-> <<>>, woken |-> FALSE]
      /\ media = [t \in Ticket |-> NoMedia] /\ received = 0
      BY DEF Init
<1>3. n = 0 /\ 0 \in Nat
      BY <1>2, EmptySeq
<1> HIDE DEF n
<1>4. NoSequence \in Sequences(n) /\ NoMission \in Missions(n)
  <2>1. Place
        BY <1>1 DEF LinkInit, Place
  <2>2. snap \in Shown
        BY ProjectorAssumption DEF Init, Shown, NoTicket
  <2>3. Env
        BY <2>1, <2>2 DEF Env
  <2> QED BY <1>1, <1>3, <2>3, NoSequenceType, NoMissionType
<1>5. \A A : <<>> \in Seq(A) /\ Len(<<>>) = 0
      BY EmptySeq
<1>6. NoTicket \in 0..n
      BY <1>3 DEF NoTicket
<1>7. gcs \in Station(n) /\ gcs.seq = NoSequence
      BY <1>2, <1>4, <1>5, <1>6 DEF Station
<1>8. Well(gcs)
      BY <1>3, <1>7 DEF Well, Withheld, n
<1>9. Seated(gcs)
      BY <1>2, <1>3, <1>8, ProjectorAssumption DEF Seated, n
<1>10. received \in Command /\ snap \in Shown
  <2>1. Len(limit.script) \in Nat
        BY <1>1, LimitFacts, LenProperties
  <2> QED BY <1>2, <2>1, ProjectorAssumption DEF Command, NoCommand, Shown, NoTicket, Init
<1>11. media \in [Ticket -> Media]
  <2>1. [i \in Point |-> "pending"] \in [Point -> File]
        BY DEF File
  <2>2. NoMedia \in Media
        BY <2>1 DEF NoMedia, Media, File
  <2> QED BY <1>2, <2>2
<1>12. Flies(gcs, veh) /\ flights \in Flown(n)
  <2>1. veh = [armed |-> FALSE, task |-> "none", ticket |-> NoTicket, point |-> 0,
               abnormal |-> FALSE, guided |-> TRUE, last |-> NoTicket]
        BY DEF Init
  <2>2. NoTicket \in 0..n /\ 0 \in 0..MaxPoints
        BY <1>6, ProjectorAssumption
  <2>3. veh \in Vehicles(n)
        BY <2>1, <2>2 DEF Vehicles, Task
  <2>4. flights = [done |-> {}, reached |-> {}, landed |-> {}]
        BY DEF Init
  <2> QED BY <2>1, <2>3, <2>4 DEF Flies, Flown, n
<1>13. calls = {} /\ lost = {} /\ mishaps \in Nat
       BY <1>1, LimitFacts DEF Init
<1>14. Ground
       BY <1>1, <1>9, <1>10, <1>11, <1>12, <1>13 DEF Ground, n
<1>15. Books(n, accepted, sent, pending)
  <2>1. accepted = <<>> /\ sent = <<>> /\ pending = <<>>
        BY <1>1 DEF LinkInit
  <2>2. \A b : Sent(b, <<>>) = <<>>
        BY WithinEmpty DEF Sent
  <2>3. <<>> \o <<>> = <<>>
        BY <1>5, ConcatEmptySeq
  <2> QED BY <1>5, <2>1, <2>2, <2>3 DEF Books
<1>16. Hand(writer, session, pending)
       BY <1>1 DEF LinkInit, Hand, Off, WriterAt
<1>17. Wired
  <2>1. Place /\ desired \in BOOLEAN /\ wake \in BOOLEAN /\ call \in BOOLEAN
        BY <1>1 DEF LinkInit, Place
  <2>2. session \in Session
        BY <1>1 DEF LinkInit, Session, SessionPhase
  <2>3. outbound \in 0..OutboundLimit /\ upsets \in 0..MaxUpsets
        BY <1>1, LinkAssumption DEF LinkInit
  <2> QED BY <1>15, <1>16, <2>1, <2>2, <2>3 DEF Wired, n
<1> QED BY <1>14, <1>17 DEF Sound

LEMMA NextSound ==
    ASSUME Sound, [Next]_vars
    PROVE  Sound'
<1>1. CASE LinkStep \/ Connected \/ ReceiveCommand
      BY <1>1, LinkStepSound, ConnectedSound, ReceiveCommandSound
<1>2. CASE WindowStep
      BY <1>2, RefreshSound, HandleCommandSound, DialogEndsSound, StandbyDelayOverSound
      DEF WindowStep
<1>3. CASE RosStep
      BY <1>3, SendRequestSound, RequestTimesOutSound, StatusArrivesSound DEF RosStep
<1>4. CASE VehicleStep
      BY <1>4, VehicleAnswersSound, SilentSteps, ReachesSound, LandsSound DEF VehicleStep
<1>5. CASE FaultStep
      BY <1>5, TaskFailsSound, SilentSteps, OperatorLandSound DEF FaultStep
<1>6. CASE MediaStep
  <2>1. \/ \E p \in flights.reached, ok \in BOOLEAN : CaptureReported(p[1], p[2], ok)
        \/ \E p \in flights.reached : MediaSettles(p[1])
        \/ CatalogueRead
        BY <1>6 DEF MediaStep
  <2>2. CASE \E p \in flights.reached, ok \in BOOLEAN : CaptureReported(p[1], p[2], ok)
        BY <2>2, CaptureSound
  <2>3. CASE \E p \in flights.reached : MediaSettles(p[1])
        BY <2>3, MediaSettlesSound
  <2> QED BY <2>1, <2>2, <2>3, CatalogueReadSound
<1>7. CASE UNCHANGED vars
  <2>1. UNCHANGED <<linkVars, media, missionVars>>
        BY <1>7 DEF vars
  <2>2. limit' = limit /\ gcs' = gcs
        BY <2>1 DEF linkVars, missionVars
  <2>3. Wired'
        BY <2>1, <2>2, QuietSame, WiredKept
  <2>4. Ground'
        BY <2>1, <2>2, GroundKept DEF Sound
  <2> QED BY <2>3, <2>4 DEF Sound
<1> QED BY <1>1, <1>2, <1>3, <1>4, <1>5, <1>6, <1>7 DEF Next

LEMMA SoundAlways == Spec => []Sound
<1>1. Init => Sound
      BY InitSound
<1>2. Sound /\ [Next]_vars => Sound'
      BY NextSound
<1> QED BY <1>1, <1>2, PTL DEF Spec

(***************************************************************************)
(* What may still be ordered, given the orders o, the commands P that had  *)
(* to wait, the newest command h handled and the tickets D that succeeded. *)
(***************************************************************************)
LandsUpstream(e) == e.name = "land" /\ e.command # NoCommand

\* The orders of LAND that upstream commands have caused are all older than k.
MaySay(o, P, k) ==
    k = NoCommand \/ k \in P \/ \A i \in 1..Len(o) : LandsUpstream(o[i]) => o[i].command < k

\* Before ticket i the vehicle has flown what the stage name of command k follows.
Inspects(k) == k # NoCommand /\ limit.script[k] = "03"
Succeeded(o, D, i, name, k) == \E j \in D : j < i /\ o[j].name = name /\ o[j].command = k
Earned(o, D, i, name, k) ==
    Inspects(k) => /\ name = "waypoints" => Succeeded(o, D, i, "takeoff", k)
                   /\ name = "land" => Succeeded(o, D, i, "waypoints", k)

\* The orders given: none ahead of its stage, none behind a newer LAND.
Behind(o, P, j, i) ==
    LandsUpstream(o[j]) /\ o[i].name # "land" /\ o[i].command # NoCommand
    => o[j].command < o[i].command \/ o[i].command \in P

Lawful(o, P, h, D) ==
    /\ D \subseteq 1..Len(o)
    /\ \A i \in 1..Len(o) : o[i].command <= h /\ Earned(o, D, i, o[i].name, o[i].command)
    /\ \A i \in 1..Len(o) : \A j \in 1..Len(o) : j < i => Behind(o, P, j, i)

\* A dialog that may be answered.
Admits(o, P, q, D, f) ==
    /\ f.for \in {"takeoff", "first", "waypoints"} => MaySay(o, P, f.command)
    /\ f.for # "command" /\ Earned(o, D, Len(o) + 1, Asked(f), f.command)
    /\ f.for = "land" => q = NoSequence \/ q.command = f.command

\* Only the innermost dialog is open, and none at all in simulation.
Stacked(s, o, P, q, h, D) ==
    \A i \in 1..Len(s) :
        /\ ~Simulated /\ s[i].command <= h
        /\ s[i].for = "command" => s[i].command \in P
        /\ s[i].answer = "open" => i = Len(s) /\ Admits(o, P, q, D, s[i])

Shut(s) == \A i \in 1..Len(s) : s[i].answer # "open"

\* The sequence q goes on only to what it may still say and has earned.
Steers(q, o, P, h, D) ==
    /\ q.command <= h
    /\ q.phase \in Early => MaySay(o, P, q.command)
    /\ q.phase \in {"waypoints_pending", "waypoints_submitting"} =>
           Earned(o, D, Len(o) + 1, "waypoints", q.command)
    /\ q.phase \in {"land_pending", "land_submitting"} =>
           Earned(o, D, Len(o) + 1, "land", q.command)
    /\ q.phase \in {"takeoff", "waypoints"} /\ q.ticket # NoTicket =>
           o[q.ticket].name = q.phase /\ o[q.ticket].command = q.command

\* A result is that of its order, and a success that of the vehicle.
Truthful(o, D, r) ==
    /\ r.name = o[r.ticket].name
    /\ r.ok /\ r.final /\ r.name # "clear_abnormal" => r.ticket \in D
Reported(s, o, D) == \A i \in 1..Len(s) : Truthful(o, D, s[i])

Orderly(c, h, D) ==
    /\ Lawful(c.orders, c.parked, h, D)
    /\ Stacked(c.frames, c.orders, c.parked, c.seq, h, D)
    /\ Steers(c.seq, c.orders, c.parked, h, D)
    /\ Reported(c.results, c.orders, D)

\* One more order.
Added(o, p, e) ==
    /\ Len(o) \in Nat /\ Len(p) = Len(o) + 1
    /\ \A i \in 1..Len(o) : p[i] = o[i]
    /\ p[Len(o) + 1] = e

LEMMA GrowMay ==
    ASSUME NEW o, NEW p, NEW e, Added(o, p, e), ~LandsUpstream(e), NEW P
    PROVE  \A k : MaySay(o, P, k) => MaySay(p, P, k)
<1> SUFFICES ASSUME NEW k, \A i \in 1..Len(o) : LandsUpstream(o[i]) => o[i].command < k,
                    NEW i \in 1..Len(p), LandsUpstream(p[i])
             PROVE  p[i].command < k
    BY DEF MaySay
<1>1. i \in 1..Len(o)
  <2>1. i # Len(o) + 1
        BY DEF Added
  <2> QED BY <2>1 DEF Added
<1> QED BY <1>1 DEF Added

LEMMA GrowEarned ==
    ASSUME NEW o, NEW p, NEW e, Added(o, p, e), NEW D, D \subseteq 1..Len(o)
    PROVE  \A i \in Nat, j \in Nat : \A name, k :
               i <= j /\ Earned(o, D, i, name, k) => Earned(p, D, j, name, k)
<1> SUFFICES ASSUME NEW i \in Nat, NEW j \in Nat, i <= j, NEW name, NEW k
             PROVE  Succeeded(o, D, i, name, k) => Succeeded(p, D, j, name, k)
    BY DEF Earned
<1> SUFFICES ASSUME NEW t \in D, t < i, o[t].name = name, o[t].command = k
             PROVE  Succeeded(p, D, j, name, k)
    BY DEF Succeeded
<1>1. t \in 1..Len(o) /\ t < j
      BY DEF Added
<1>2. p[t] = o[t]
      BY <1>1 DEF Added
<1> QED BY <1>1, <1>2 DEF Succeeded

LEMMA GrowLawful ==
    ASSUME NEW o, NEW p, NEW e, Added(o, p, e), NEW P, NEW h, NEW D, Lawful(o, P, h, D),
           e.command <= h, Earned(o, D, Len(o) + 1, e.name, e.command),
           e.name = "land" \/ MaySay(o, P, e.command)
    PROVE  Lawful(p, P, h, D)
<1> DEFINE n == Len(o)
<1>1. /\ D \subseteq 1..n /\ n \in Nat /\ Len(p) = n + 1 /\ p[n + 1] = e
      /\ \A i \in 1..n : p[i] = o[i]
      BY DEF Lawful, Added
<1>2. D \subseteq 1..Len(p)
      BY <1>1
<1>a. \A i \in Nat, j \in Nat : \A name, k :
          i <= j /\ Earned(o, D, i, name, k) => Earned(p, D, j, name, k)
  <2>1. D \subseteq 1..Len(o)
        BY DEF Lawful
  <2> HIDE DEF n
  <2> QED BY <2>1, GrowEarned
<1>3. \A i \in 1..Len(p) : p[i].command <= h /\ Earned(p, D, i, p[i].name, p[i].command)
  <2> TAKE i \in 1..Len(p)
  <2>1. CASE i = n + 1
    <3>1. n + 1 \in Nat /\ n + 1 <= n + 1 /\ Earned(o, D, n + 1, e.name, e.command)
          BY <1>1
    <3> HIDE DEF n
    <3>2. Earned(p, D, n + 1, e.name, e.command)
          BY <1>a, <3>1
    <3> QED BY <1>1, <2>1, <3>2
  <2>2. CASE i # n + 1
    <3>1. i \in 1..n /\ i \in Nat /\ i <= i
          BY <1>1, <2>2
    <3>2. p[i] = o[i] /\ o[i].command <= h /\ Earned(o, D, i, o[i].name, o[i].command)
          BY <1>1, <3>1 DEF Lawful
    <3>3. Earned(p, D, i, o[i].name, o[i].command)
          BY <1>a, <3>1, <3>2
    <3> QED BY <3>2, <3>3
  <2> QED BY <2>1, <2>2
<1>4. \A i \in 1..Len(p) : \A j \in 1..Len(p) : j < i => Behind(p, P, j, i)
  <2> SUFFICES ASSUME NEW i \in 1..Len(p), NEW j \in 1..Len(p), j < i
               PROVE  Behind(p, P, j, i)
      OBVIOUS
  <2>1. j \in 1..n /\ p[j] = o[j]
        BY <1>1
  <2>2. CASE i = n + 1
    <3>1. p[i] = e
          BY <1>1, <2>2
    <3> QED BY <2>1, <3>1 DEF Behind, MaySay
  <2>3. CASE i # n + 1
    <3>1. i \in 1..n /\ p[i] = o[i]
          BY <1>1, <2>3
    <3> QED BY <2>1, <3>1 DEF Behind, Lawful
  <2> QED BY <2>2, <2>3
<1> QED BY <1>2, <1>3, <1>4 DEF Lawful

LEMMA GrowReported ==
    ASSUME NEW o, NEW p, NEW e, Added(o, p, e), NEW D, NEW s \in Seq(Results(Len(o))),
           Reported(s, o, D)
    PROVE  Reported(s, p, D)
<1> SUFFICES ASSUME NEW i \in 1..Len(s) PROVE Truthful(p, D, s[i])
    BY DEF Reported
<1>1. s[i] \in Results(Len(o)) /\ Truthful(o, D, s[i])
      BY ElementOfSeq DEF Reported
<1>2. p[s[i].ticket] = o[s[i].ticket]
      BY <1>1 DEF Results, Added
<1> QED BY <1>1, <1>2 DEF Truthful

LEMMA GrowSteers ==
    ASSUME NEW o, NEW p, NEW e, Added(o, p, e), ~LandsUpstream(e), NEW P, NEW h, NEW D,
           D \subseteq 1..Len(o), NEW q \in Sequences(Len(o)), Steers(q, o, P, h, D)
    PROVE  Steers(q, p, P, h, D)
<1> DEFINE n == Len(o)
<1>1. n \in Nat /\ n + 1 \in Nat /\ n + 2 \in Nat /\ n + 1 <= n + 2 /\ Len(p) + 1 = n + 2
      BY DEF Added
<1>2. MaySay(o, P, q.command) => MaySay(p, P, q.command)
      BY GrowMay
<1>3. \A name, k : Earned(o, D, n + 1, name, k) => Earned(p, D, n + 2, name, k)
      BY <1>1, GrowEarned
<1>4. q.ticket # NoTicket => p[q.ticket] = o[q.ticket]
  <2>1. q.ticket # NoTicket => q.ticket \in 1..n
        BY <1>1 DEF Sequences, NoTicket
  <2> QED BY <2>1 DEF Added
<1> HIDE DEF n
<1> QED BY <1>1, <1>2, <1>3, <1>4 DEF Steers, n

LEMMA StackedShut ==
    ASSUME NEW s, Shut(s), NEW o, NEW P, NEW q, NEW h, NEW D, Stacked(s, o, P, q, h, D)
    PROVE  \A p, r, E : Stacked(s, p, P, r, h, E)
BY DEF Stacked, Shut

LEMMA IdleSteers ==
    ASSUME NEW o, NEW P, NEW h \in Nat, NEW D, limit \in Limits
    PROVE  Steers(NoSequence, o, P, h, D)
<1>1. NoSequence.phase = "none" /\ NoSequence.command = NoCommand
      BY NoSequenceType
<1>2. 0 <= h
      OBVIOUS
<1> QED BY <1>1, <1>2 DEF Steers, Early, NoCommand

(***************************************************************************)
(* An answered dialog.                                                     *)
(***************************************************************************)
\* What its answer does to the orders and to the sequence.
Continues(c, f, d) ==
    \/ d.orders = c.orders /\ d.seq \in {c.seq, NoSequence}
    \/ /\ Added(c.orders, d.orders, [name |-> Asked(f), command |-> f.command])
       /\ \/ d.seq = c.seq /\ (f.for = "takeoff" \/ ~Same(c, f)) /\ f.for # "landing"
          \/ f.for = "landing" /\ d.seq = NoSequence
          \/ f.for = "landing" /\ d.seq.phase = "land" /\ d.seq.command = f.command
          \/ /\ f.for \in {"first", "waypoints", "land"} /\ Same(c, f)
             /\ d.seq.command = f.command /\ d.seq.ticket = Len(c.orders) + 1
             /\ d.seq.phase = Asked(f)

LEMMA RequestedAdds ==
    ASSUME NEW c, Env, Well(c), NEW f \in Frame
    PROVE  Added(c.orders, Requested(c, f, TRUE).orders,
                 [name |-> Asked(f), command |-> f.command])
<1> DEFINE d == Requested(c, f, TRUE)
           n == Len(c.orders)
<1>1. /\ Follows(c, d) /\ Len(d.orders) = n + 1
      /\ d.orders[n + 1] = [name |-> Asked(f), command |-> f.command]
      BY RequestedWell
<1>2. n \in Nat
      BY DEF Well
<1> HIDE DEF d
<1> QED BY <1>1, <1>2 DEF Follows, Added, d

LEMMA AnswerContinues ==
    ASSUME NEW c, Env, Well(c), NEW f \in Frame, f.for # "command", NEW yes \in BOOLEAN
    PROVE  Continues(c, f, Continue(c, f, yes))
<1> DEFINE ticket == NextTicket(c)
           queued == Requested(c, f, yes)
           bound == Binding(c, f, yes)
           landing == BeginLanding(queued, ticket)
           d == Continue(c, f, yes)
           n == Len(c.orders) + 1
           e == [name |-> Asked(f), command |-> f.command]
<1>1. /\ Well(queued) /\ queued.seq = c.seq /\ ticket = n /\ (~yes => queued = c)
      BY RequestedWell
<1>2. yes => Added(c.orders, queued.orders, e) /\ Len(queued.orders) = n
      BY RequestedAdds, RequestedWell
<1>3. n \in 1..n
      BY DEF Well
<1> HIDE DEF e
<1>4. CASE d = queued /\ f.for # "landing" /\ (f.for = "takeoff" \/ ~Same(c, f))
      BY <1>1, <1>2, <1>4 DEF Continues, e
<1>5. CASE d = c
      BY <1>5 DEF Continues
<1>6. CASE d = EndSequence(c)
  <2>1. EndSequence(c).orders = c.orders /\ EndSequence(c).seq = NoSequence
        BY EndSequenceWell
  <2> QED BY <1>6, <2>1 DEF Continues
<1>7. yes => Well(landing) /\ landing.orders = queued.orders /\ landing.seq = c.seq
  <2> HAVE yes
  <2> HIDE DEF queued, ticket, n
  <2>1. ticket \in 1..Len(queued.orders)
        BY <1>1, <1>2, <1>3
  <2>2. Well(landing) /\ landing.orders = queued.orders /\ Leaves(queued, landing)
        BY <1>1, <2>1, BeginLandingWell
  <2> QED BY <1>1, <2>2 DEF Leaves
<1>8. CASE f.for = "landing" /\ yes /\ d = EndSequence(landing)
  <2> HIDE DEF landing, d
  <2>1. d.orders = landing.orders /\ d.seq = NoSequence
        BY <1>7, <1>8, EndSequenceWell
  <2> QED BY <1>2, <1>7, <1>8, <2>1 DEF Continues, d, e
<1>9. CASE /\ f.for = "landing" /\ yes
           /\ d = [BlockStandby(landing) EXCEPT
                      !.seq = [NewSequence("emergency", "land", f.command) EXCEPT
                                  !.ticket = ticket]]
  <2> DEFINE q == [NewSequence("emergency", "land", f.command) EXCEPT !.ticket = ticket]
  <2>1. q.phase = "land" /\ q.command = f.command
        BY DEF NewSequence, NoSequence
  <2> HIDE DEF q, landing, d
  <2>2. d = [BlockStandby(landing) EXCEPT !.seq = q]
        BY <1>9 DEF q
  <2>3. d.orders = landing.orders /\ d.seq = q
        BY <1>7, <1>9, <2>2 DEF BlockStandby, Well, Station
  <2> QED BY <1>2, <1>7, <1>9, <2>1, <2>3 DEF Continues, d, e
<1>10. CASE Same(c, f) /\ yes /\ f.for \in {"first", "waypoints", "land"}
  <2>0. c.seq # NoSequence /\ c.seq.command = f.command
        BY <1>10 DEF Same
  <2>1. /\ Well(bound) /\ bound.orders = queued.orders
        /\ bound.seq = [c.seq EXCEPT !.ticket = n,
                                     !.phase = IF f.for = "first" THEN "takeoff" ELSE Asked(f)]
        BY <1>10, <2>0, BindingWell
  <2>2. (IF f.for = "first" THEN "takeoff" ELSE Asked(f)) = Asked(f)
        BY DEF Asked
  <2>3. c.seq \in Sequences(Len(c.orders))
        BY DEF Well, Station
  <2>4. /\ bound.seq.command = f.command /\ bound.seq.ticket = n
        /\ bound.seq.phase = Asked(f)
    <3> DEFINE phase == IF f.for = "first" THEN "takeoff" ELSE Asked(f)
    <3>1. bound.seq = [c.seq EXCEPT !.ticket = n, !.phase = phase] /\ phase = Asked(f)
          BY <2>1, <2>2
    <3> HIDE DEF phase, bound, n
    <3> QED BY <2>0, <2>3, <3>1 DEF Sequences
  <2>5. ticket \in 1..Len(bound.orders)
        BY <1>1, <1>2, <1>3, <1>10, <2>1
  <2> HIDE DEF bound, ticket, queued
  <2>6. \/ d = bound \/ d = BeginLanding(bound, ticket)
        \/ d = BeginMission(bound, ticket, "inspection", limit.points)
        \/ d = BeginMission(bound, ticket, "return", 1)
        BY <1>10, ContinueCases DEF bound, ticket, queued
  <2>7. d.orders = bound.orders /\ d.seq = bound.seq
    <3> HIDE DEF d
    <3>1. CASE d = bound
          BY <3>1
    <3>2. CASE d = BeginLanding(bound, ticket)
          BY <3>2 DEF BeginLanding, Well, Station
    <3>3. CASE d = BeginMission(bound, ticket, "inspection", limit.points)
          BY <3>3 DEF BeginMission
    <3>4. CASE d = BeginMission(bound, ticket, "return", 1)
          BY <3>4 DEF BeginMission
    <3> QED BY <2>6, <3>1, <3>2, <3>3, <3>4
  <2> HIDE DEF d
  <2> QED BY <1>2, <1>10, <2>1, <2>4, <2>7 DEF Continues, d, e, n
<1>11. \/ d = queued /\ f.for # "landing" /\ (f.for = "takeoff" \/ ~Same(c, f))
       \/ d = c \/ d = EndSequence(c)
       \/ f.for = "landing" /\ yes /\ d = EndSequence(landing)
       \/ /\ f.for = "landing" /\ yes
          /\ d = [BlockStandby(landing) EXCEPT
                      !.seq = [NewSequence("emergency", "land", f.command) EXCEPT
                                  !.ticket = ticket]]
       \/ Same(c, f) /\ yes /\ f.for \in {"first", "waypoints", "land"}
       BY ContinueCases
<1> HIDE DEF d, queued, landing, ticket
<1> QED BY <1>4, <1>5, <1>6, <1>8, <1>9, <1>10, <1>11

\* An order that may be given keeps the rest as it should be, while no dialog is open.
LEMMA ContinuesOrderly ==
    ASSUME NEW c, Env, Well(c), NEW h \in Nat, NEW D, Orderly(c, h, D), Shut(c.frames),
           NEW f \in Frame, f.command <= h, NEW d, Continues(c, f, d), Steady(c, d),
           d.orders # c.orders => Admits(c.orders, c.parked, c.seq, D, f)
    PROVE  Orderly(d, h, D)
<1> DEFINE o == c.orders
           p == d.orders
           P == c.parked
           q == c.seq
           n == Len(o)
           e == [name |-> Asked(f), command |-> f.command]
<1>1. /\ Lawful(o, P, h, D) /\ Stacked(c.frames, o, P, q, h, D) /\ Steers(q, o, P, h, D)
      /\ Reported(c.results, o, D) /\ D \subseteq 1..n
      BY DEF Orderly, Lawful
<1>2. d.frames = c.frames /\ d.parked = P /\ d.results = c.results
      BY DEF Steady
<1>3. n \in Nat /\ q \in Sequences(n) /\ c.results \in Seq(Results(n)) /\ limit \in Limits
      BY DEF Well, Station, Env, Place
<1>4. \A r : Stacked(c.frames, p, P, r, h, D)
      BY <1>1, StackedShut
<1>5. CASE p = o /\ d.seq \in {q, NoSequence}
  <2>1. Steers(d.seq, p, P, h, D)
        BY <1>1, <1>3, <1>5, IdleSteers
  <2> QED BY <1>1, <1>2, <1>4, <1>5, <2>1 DEF Orderly
<1>6. CASE Added(o, p, e) /\ p # o
  <2>1. Admits(o, P, q, D, f)
        BY <1>6
  <2>2. e.name = Asked(f) /\ e.command = f.command /\ e.command <= h
        BY DEF e
  <2> HIDE DEF e
  <2>3. /\ Earned(o, D, n + 1, e.name, e.command)
        /\ e.name = "land" \/ MaySay(o, P, e.command)
        /\ e.name # "land" <=> f.for \in {"takeoff", "first", "waypoints"}
        BY <2>1, <2>2 DEF Admits, Asked
  <2>4. Lawful(p, P, h, D)
        BY <1>1, <1>6, <2>2, <2>3, GrowLawful
  <2>5. Reported(c.results, p, D)
        BY <1>1, <1>3, <1>6, GrowReported
  <2>6. Steers(d.seq, p, P, h, D)
    <3>1. CASE d.seq = q /\ ~LandsUpstream(e)
          BY <1>1, <1>3, <1>6, <3>1, GrowSteers
    <3>2. CASE d.seq = NoSequence
          BY <1>3, <3>2, IdleSteers
    <3>3. CASE d.seq.phase = "land" /\ d.seq.command = f.command
          BY <3>3 DEF Steers, Early
    <3>4. CASE f.for \in {"first", "waypoints"} /\ d.seq.command = f.command
               /\ d.seq.ticket = n + 1 /\ d.seq.phase = Asked(f)
      <4>1. MaySay(p, P, f.command)
        <5>1. ~LandsUpstream(e) /\ MaySay(o, P, f.command)
              BY <2>1, <2>3, <3>4 DEF LandsUpstream, Admits
        <5> QED BY <1>6, <5>1, GrowMay
      <4>2. p[n + 1] = e /\ d.seq.phase \in {"takeoff", "waypoints"}
            BY <1>6, <3>4 DEF Added, Asked
      <4> QED BY <2>2, <3>4, <4>1, <4>2 DEF Steers, Early
    <3>5. CASE d.seq = q /\ f.for = "land" /\ ~Same(c, f)
      <4>1. q = NoSequence
            BY <2>1, <3>5 DEF Admits, Same
      <4> QED BY <1>3, <3>5, <4>1, IdleSteers
    <3>6. CASE f.for = "land" /\ d.seq.command = f.command /\ d.seq.phase = Asked(f)
          BY <3>6, <2>2 DEF Steers, Early, Asked
    <3>7. f.for \in {"takeoff", "first", "waypoints", "land", "landing"}
          BY <2>1 DEF Frame, Waiting, Admits
    <3>8. o # p
          BY <1>6
    <3>9. f.for \in {"takeoff", "first", "waypoints"} => ~LandsUpstream(e)
          BY <2>3 DEF LandsUpstream
    <3> QED BY <3>1, <3>2, <3>3, <3>4, <3>5, <3>6, <3>7, <3>8, <3>9 DEF Continues
  <2> QED BY <1>2, <1>4, <2>4, <2>5, <2>6 DEF Orderly
<1>7. Added(o, p, e) => p # o
      BY DEF Added
<1> QED BY <1>5, <1>6, <1>7 DEF Continues

LEMMA ContinueOrderly ==
    ASSUME NEW c, Env, Well(c), NEW h \in Nat, NEW D, Orderly(c, h, D), Shut(c.frames),
           NEW f \in Frame, f.for # "command", f.command <= h, NEW yes \in BOOLEAN,
           yes => Admits(c.orders, c.parked, c.seq, D, f)
    PROVE  Orderly(Continue(c, f, yes), h, D)
<1> DEFINE d == Continue(c, f, yes)
<1>1. Continues(c, f, d) /\ Steady(c, d)
      BY AnswerContinues, ContinueWell
<1>2. ~yes => d.orders = c.orders
  <2> SUFFICES ASSUME ~yes PROVE d.orders = c.orders
      OBVIOUS
  <2>1. d = c \/ d = EndSequence(c) \/ d = Requested(c, f, yes)
        BY ContinueCases
  <2>2. EndSequence(c).orders = c.orders /\ Requested(c, f, yes) = c
        BY EndSequenceWell, RequestedWell
  <2> QED BY <2>1, <2>2
<1> HIDE DEF d
<1>3. Orderly(d, h, D)
      BY <1>1, <1>2, ContinuesOrderly
<1> QED BY <1>3 DEF d

LEMMA WiderEarned ==
    ASSUME NEW o, NEW D, NEW E, D \subseteq E
    PROVE  \A i, name, k : Earned(o, D, i, name, k) => Earned(o, E, i, name, k)
BY DEF Earned, Succeeded

\* More commands handled or waiting, and more tickets that succeeded.
LEMMA WiderOrderly ==
    ASSUME NEW c, Well(c), NEW h \in Nat, NEW D, Orderly(c, h, D), NEW d, d.orders = c.orders,
           d.seq = c.seq, d.frames = c.frames, d.results = c.results, c.parked \subseteq d.parked,
           NEW g \in Nat, h <= g, NEW E, D \subseteq E, E \subseteq 1..Len(c.orders)
    PROVE  Orderly(d, g, E)
<1> DEFINE o == c.orders
           P == c.parked
           Q == d.parked
           q == c.seq
           s == c.frames
<1>1. /\ Lawful(o, P, h, D) /\ Stacked(s, o, P, q, h, D) /\ Steers(q, o, P, h, D)
      /\ Reported(c.results, o, D)
      BY DEF Orderly
<1>2. \A i, name, k : Earned(o, D, i, name, k) => Earned(o, E, i, name, k)
      BY WiderEarned
<1>3. \A k : MaySay(o, P, k) => MaySay(o, Q, k)
      BY DEF MaySay
<1>4. \A k \in Command : k <= h => k <= g
      BY DEF Command, NoCommand
<1>5. /\ \A i \in 1..Len(o) : o[i].command \in Command
      /\ \A i \in 1..Len(s) : s[i].command \in Command
      /\ q.command \in Command
  <2>1. o \in Seq(Order) /\ s \in Seq(Frame) /\ q \in Sequences(Len(o))
        BY DEF Well, Station
  <2>2. /\ \A i \in 1..Len(o) : o[i] \in Order
        /\ \A i \in 1..Len(s) : s[i] \in Frame
        BY <2>1, ElementOfSeq
  <2> HIDE DEF o, s, q
  <2> QED BY <2>1, <2>2 DEF Order, Frame, Sequences
<1>6. Lawful(o, Q, g, E)
  <2>1. \A i \in 1..Len(o) : \A j \in 1..Len(o) : Behind(o, P, j, i) => Behind(o, Q, j, i)
        BY DEF Behind
  <2> HIDE DEF o, P, Q
  <2> QED BY <1>1, <1>2, <1>4, <1>5, <2>1 DEF Lawful, o
<1>7. Stacked(s, o, Q, q, g, E)
  <2>1. \A f : Admits(o, P, q, D, f) => Admits(o, Q, q, E, f)
        BY <1>2, <1>3 DEF Admits
  <2>2. P \subseteq Q
        OBVIOUS
  <2> HIDE DEF o, P, Q, s, q
  <2> QED BY <1>1, <1>4, <1>5, <2>1, <2>2 DEF Stacked
<1>8. Steers(q, o, Q, g, E)
  <2> HIDE DEF o, P, Q, q
  <2> QED BY <1>1, <1>2, <1>3, <1>4, <1>5 DEF Steers
<1>9. Reported(c.results, o, E)
      BY <1>1 DEF Reported, Truthful
<1> QED BY <1>6, <1>7, <1>8, <1>9 DEF Orderly

\* Another sequence, when no dialog is open or the new one is mild.
Mild(q, p) == p = q \/ p = NoSequence \/ (q # NoSequence /\ p.command = q.command)

LEMMA MildStacked ==
    ASSUME NEW s, NEW o, NEW P, NEW q, NEW p, NEW h, NEW D, Stacked(s, o, P, q, h, D), Mild(q, p)
    PROVE  Stacked(s, o, P, p, h, D)
<1>1. \A f : Admits(o, P, q, D, f) => Admits(o, P, p, D, f)
      BY DEF Admits, Mild
<1> QED BY <1>1 DEF Stacked

LEMMA SeqOrderly ==
    ASSUME NEW c, NEW h, NEW D, Orderly(c, h, D), NEW d, Steady(c, d), d.orders = c.orders,
           Steers(d.seq, c.orders, c.parked, h, D), Shut(c.frames) \/ Mild(c.seq, d.seq)
    PROVE  Orderly(d, h, D)
<1>1. Stacked(d.frames, c.orders, c.parked, d.seq, h, D)
  <2>1. Stacked(c.frames, c.orders, c.parked, c.seq, h, D) /\ d.frames = c.frames
        BY DEF Orderly, Steady
  <2> QED BY <2>1, StackedShut, MildStacked
<1> QED BY <1>1 DEF Orderly, Steady

\* What is not counted down is shut.
LEMMA ShutWhen ==
    ASSUME NEW c, Well(c), NEW h, NEW D, Orderly(c, h, D), ~Countdown(c) \/ Simulated
    PROVE  Shut(c.frames)
<1> DEFINE s == c.frames
<1>1. s \in Seq(Frame) /\ Len(s) \in Nat
      BY LenProperties DEF Well, Station
<1>2. Stacked(s, c.orders, c.parked, c.seq, h, D)
      BY DEF Orderly
<1> SUFFICES ASSUME NEW i \in 1..Len(s), s[i].answer = "open" PROVE FALSE
    BY DEF Shut
<1>3. ~Simulated /\ i = Len(s)
      BY <1>2 DEF Stacked
<1>4. s # <<>> /\ Last(s) = s[i]
      BY <1>1, <1>3, EmptySeq DEF Last
<1> QED BY <1>3, <1>4 DEF Countdown

LEMMA AskOrderly ==
    ASSUME NEW c, Env, Well(c), NEW h \in Nat, NEW D, Orderly(c, h, D), Shut(c.frames),
           NEW for \in Waiting \ {"command"}, NEW k \in Command, k <= h,
           Admits(c.orders, c.parked, c.seq, D, [for |-> for, command |-> k, answer |-> "open", seen |-> snap])
    PROVE  Orderly(Ask(c, for, k), h, D)
<1> DEFINE d == Ask(c, for, k)
           f == [for |-> for, command |-> k, answer |-> "open", seen |-> snap]
<1>1. /\ f \in Frame /\ d.parked = c.parked /\ d.results = c.results
      /\ Simulated => d = Continue(c, f, TRUE)
      /\ ~Simulated => d.frames = Append(c.frames, f) /\ d.orders = c.orders /\ d.seq = c.seq
      BY AskWell
<1>2. /\ f.for # "command" /\ f.command = k /\ f.answer = "open"
      /\ Admits(c.orders, c.parked, c.seq, D, f)
      OBVIOUS
<1> HIDE DEF d, f
<1>3. CASE Simulated
  <2>1. Orderly(Continue(c, f, TRUE), h, D)
        BY <1>1, <1>2, ContinueOrderly
  <2> QED BY <1>1, <1>3, <2>1 DEF d
<1>4. CASE ~Simulated
  <2> DEFINE s == c.frames
             t == d.frames
             n == Len(s)
  <2>1. /\ n \in Nat /\ Len(t) = n + 1 /\ t[n + 1] = f
        /\ \A i \in 1..n : t[i] = s[i]
    <3>1. s \in Seq(Frame)
          BY DEF Well, Station
    <3>2. t = Append(s, f)
          BY <1>1, <1>4
    <3> HIDE DEF s, t
    <3> QED BY <1>1, <3>1, <3>2, AppendProperties, LenProperties
  <2>2. Stacked(s, c.orders, c.parked, c.seq, h, D) /\ Shut(s)
        BY DEF Orderly
  <2> HIDE DEF s, t
  <2>3. Stacked(t, c.orders, c.parked, c.seq, h, D)
    <3> SUFFICES ASSUME NEW i \in 1..Len(t)
                 PROVE  /\ ~Simulated /\ t[i].command <= h
                        /\ t[i].for = "command" => t[i].command \in c.parked
                        /\ t[i].answer = "open" =>
                               i = Len(t) /\ Admits(c.orders, c.parked, c.seq, D, t[i])
        BY DEF Stacked
    <3>1. CASE i = n + 1
          BY <1>2, <1>4, <2>1, <3>1
    <3>2. CASE i # n + 1
      <4>1. i \in 1..n /\ t[i] = s[i]
            BY <2>1, <3>2
      <4> QED BY <1>4, <2>2, <4>1 DEF Stacked, Shut
    <3> QED BY <3>1, <3>2
  <2> QED BY <1>1, <1>4, <2>3 DEF Orderly, t, d
<1> QED BY <1>3, <1>4

(***************************************************************************)
(* The sequence and the abnormal vehicle.                                  *)
(***************************************************************************)
LEMMA PhaseAskOrderly ==
    ASSUME NEW c, Env, Well(c), NEW h \in Nat, NEW D, Orderly(c, h, D), Shut(c.frames),
           c.seq # NoSequence, NEW phase, NEW for,
           \/ c.seq.phase = "waypoints_pending" /\ phase = "waypoints_submitting" /\ for = "waypoints"
           \/ c.seq.phase = "land_pending" /\ phase = "land_submitting" /\ for = "land"
    PROVE  Orderly(Ask([c EXCEPT !.seq.phase = phase], for, c.seq.command), h, D)
<1> DEFINE e == [c EXCEPT !.seq.phase = phase]
           k == c.seq.command
           f == [for |-> for, command |-> k, answer |-> "open", seen |-> snap]
           o == c.orders
           P == c.parked
<1>1. phase \in Phase /\ for \in Waiting \ {"command"} /\ k \in Command
      BY DEF Phase, Waiting, Well, Station, Sequences
<1>2. /\ Well(e) /\ Steady(c, e) /\ e.orders = o
      /\ e.seq.command = k /\ e.seq.phase = phase
      BY <1>1, PhaseWell
<1>3. Steers(c.seq, o, P, h, D)
      BY DEF Orderly
<1>4. f.for = for /\ f.command = k /\ (for = "waypoints" => Asked(f) = "waypoints")
      /\ (for = "land" => Asked(f) = "land")
      BY DEF Asked
<1> HIDE DEF e, f
<1>5. Steers(e.seq, o, P, h, D)
      BY <1>2, <1>3 DEF Steers, Early
<1>6. Mild(c.seq, e.seq)
      BY <1>2 DEF Mild
<1>7. Orderly(e, h, D)
      BY <1>2, <1>5, <1>6, SeqOrderly
<1>8. Admits(o, P, e.seq, D, f)
      BY <1>2, <1>3, <1>4 DEF Admits, Steers, Early
<1>9. Shut(e.frames) /\ k <= h /\ e.parked = P
      BY <1>2, <1>3 DEF Steady, Steers
<1> HIDE DEF k
<1>10. Orderly(Ask(e, for, k), h, D)
       BY <1>1, <1>2, <1>7, <1>8, <1>9, AskOrderly DEF f
<1> QED BY <1>10 DEF e, k

\* An order that is no stage of a command.
LEMMA ClearOrderly ==
    ASSUME NEW c, Env, Well(c), NEW h \in Nat, NEW D, Orderly(c, h, D), NEW d, NEW name \in Name,
           Added(c.orders, d.orders, [name |-> name, command |-> NoCommand]),
           Steady(c, d), d.seq = c.seq \/ (Shut(c.frames) /\ d.seq.phase = "clear_abnormal"
                                           /\ d.seq.command = c.seq.command)
    PROVE  Orderly(d, h, D)
<1> DEFINE o == c.orders
           p == d.orders
           P == c.parked
           q == c.seq
           e == [name |-> name, command |-> NoCommand]
<1>1. /\ Lawful(o, P, h, D) /\ Stacked(c.frames, o, P, q, h, D) /\ Steers(q, o, P, h, D)
      /\ Reported(c.results, o, D) /\ D \subseteq 1..Len(o)
      BY DEF Orderly, Lawful
<1>2. q \in Sequences(Len(o)) /\ c.results \in Seq(Results(Len(o))) /\ Len(o) \in Nat
      BY DEF Well, Station
<1>3. ~LandsUpstream(e) /\ e.command <= h /\ e.command = NoCommand
      BY DEF LandsUpstream, NoCommand
<1> HIDE DEF e
<1>4. Earned(o, D, Len(o) + 1, e.name, e.command) /\ MaySay(o, P, e.command)
      BY <1>3 DEF Earned, Inspects, MaySay
<1>5. Lawful(p, P, h, D)
      BY <1>1, <1>3, <1>4, GrowLawful DEF e
<1>6. Reported(c.results, p, D)
      BY <1>1, <1>2, GrowReported DEF e
<1>7. Steers(q, p, P, h, D)
      BY <1>1, <1>2, <1>3, GrowSteers DEF e
<1>8. Steers(d.seq, p, P, h, D)
      BY <1>1, <1>7 DEF Steers, Early
<1>9. Stacked(c.frames, p, P, d.seq, h, D)
  <2>1. CASE d.seq = q
    <3>1. \A f : Admits(o, P, q, D, f) => Admits(p, P, q, D, f)
      <4>1. \A k : MaySay(o, P, k) => MaySay(p, P, k)
            BY <1>3, GrowMay DEF e
      <4>2. \A i \in Nat, j \in Nat : \A nm, k :
                i <= j /\ Earned(o, D, i, nm, k) => Earned(p, D, j, nm, k)
            BY <1>1, GrowEarned DEF e
      <4>3. Len(o) + 1 \in Nat /\ Len(p) + 1 \in Nat /\ Len(o) + 1 <= Len(p) + 1
            BY <1>2 DEF Added
      <4>4. \A nm, k : Earned(o, D, Len(o) + 1, nm, k) => Earned(p, D, Len(p) + 1, nm, k)
            BY <4>2, <4>3
      <4> HIDE DEF o, p, q, P
      <4> QED BY <4>1, <4>4 DEF Admits
    <3> QED BY <1>1, <2>1, <3>1 DEF Stacked
  <2>2. CASE Shut(c.frames)
        BY <1>1, <2>2, StackedShut
  <2> QED BY <2>1, <2>2
<1> QED BY <1>5, <1>6, <1>8, <1>9 DEF Orderly, Steady

LEMMA EndOrderly ==
    ASSUME NEW c, Env, Well(c), NEW h \in Nat, NEW D, Orderly(c, h, D)
    PROVE  Orderly(EndSequence(c), h, D)
<1> DEFINE d == EndSequence(c)
<1>1. Steady(c, d) /\ d.orders = c.orders /\ d.seq = NoSequence
      BY EndSequenceWell DEF Steady
<1>2. Steers(d.seq, c.orders, c.parked, h, D) /\ Mild(c.seq, d.seq)
      BY <1>1, IdleSteers DEF Env, Place, Mild
<1> HIDE DEF d
<1>3. Orderly(d, h, D)
      BY <1>1, <1>2, SeqOrderly
<1> QED BY <1>3 DEF d

LEMMA DriveOrderly ==
    ASSUME NEW c, Env, Well(c), NEW h \in Nat, NEW D, Orderly(c, h, D), NEW s
    PROVE  Orderly(Drive(c, s), h, D)
<1> DEFINE d == Drive(c, s)
<1>1. DriveCases(c, s, d)
      BY DriveIs
<1>2. MayDrive(c) => Shut(c.frames) /\ c.seq # NoSequence
      BY ShutWhen DEF MayDrive
<1> HIDE DEF d
<1>3. CASE d = c
      BY <1>3 DEF d
<1>4. CASE /\ MayDrive(c) /\ c.seq.phase = "waypoints_pending"
           /\ d = Ask([c EXCEPT !.seq.phase = "waypoints_submitting"], "waypoints", c.seq.command)
      BY <1>2, <1>4, PhaseAskOrderly DEF d
<1>5. CASE /\ MayDrive(c) /\ c.seq.phase = "land_pending"
           /\ d = Ask([c EXCEPT !.seq.phase = "land_submitting"], "land", c.seq.command)
      BY <1>2, <1>5, PhaseAskOrderly DEF d
<1>6. CASE /\ MayDrive(c) /\ c.seq.phase = "land_pending" /\ d = [c EXCEPT !.seq.phase = "standby"]
  <2>1. c.seq # NoSequence /\ "standby" \in Phase
        BY <1>2, <1>6 DEF Phase
  <2>2. /\ Steady(c, d) /\ d.orders = c.orders /\ d.seq.phase = "standby"
        /\ d.seq.command = c.seq.command
        BY <1>6, <2>1, PhaseWell
  <2>3. Steers(d.seq, c.orders, c.parked, h, D)
        BY <2>2 DEF Orderly, Steers, Early
  <2> QED BY <1>2, <1>6, <2>2, <2>3, SeqOrderly DEF d
<1>7. CASE d = EndSequence(c)
      BY <1>7, EndOrderly DEF d
<1>8. CASE /\ MayDrive(c)
           /\ d = [Enqueue(c, "clear_abnormal", NoCommand) EXCEPT
                      !.seq.phase = "clear_abnormal", !.seq.ticket = NextTicket(c)]
  <2> DEFINE name == "clear_abnormal"
             e == Enqueue(c, name, NoCommand)
             m == NextTicket(c)
             n == Len(c.orders)
  <2>1. NoCommand \in Command /\ name \in Name /\ n \in Nat /\ c \in Station(n)
    <3>1. limit \in Limits /\ n \in Nat /\ c \in Station(n)
          BY DEF Well, Env, Place
    <3> QED BY <3>1, NoSequenceType DEF Name
  <2>2. /\ Follows(c, e) /\ Leaves(c, e) /\ Len(e.orders) = n + 1
        /\ e.orders[n + 1] = [name |-> name, command |-> NoCommand]
        /\ e \in Station(n + 1)
        BY <2>1, EnqueueType DEF Well
  <2>3. d = [e EXCEPT !.seq.phase = name, !.seq.ticket = m]
        BY <1>8
  <2> HIDE DEF e, m, n
  <2>4. e.seq \in Sequences(n + 1)
        BY <2>2 DEF Station
  <2>5. /\ d.orders = e.orders /\ Steady(e, d) /\ d.seq.phase = name
        /\ d.seq.command = e.seq.command
        BY <2>2, <2>3, <2>4 DEF Station, Sequences, Steady
  <2>6. Added(c.orders, d.orders, [name |-> name, command |-> NoCommand])
        BY <2>1, <2>2, <2>5 DEF Added, Follows, n
  <2>7. Steady(c, d) /\ d.seq.command = c.seq.command
        BY <2>2, <2>5 DEF Steady, Leaves
  <2> QED BY <1>2, <1>8, <2>1, <2>5, <2>6, <2>7, ClearOrderly DEF d
<1> QED BY <1>1, <1>3, <1>4, <1>5, <1>6, <1>7, <1>8 DEF DriveCases, DriveStandbyCases

\* A sequence that no command has caused may do as it likes.
LEMMA ForeignSteers ==
    ASSUME NEW q, q.command = NoCommand, q.ticket = NoTicket, NEW o, NEW P, NEW h \in Nat, NEW D
    PROVE  Steers(q, o, P, h, D)
<1>1. MaySay(o, P, q.command) /\ \A i, name : Earned(o, D, i, name, q.command)
      BY DEF MaySay, Earned, Inspects
<1>2. q.command <= h
      BY DEF NoCommand
<1> QED BY <1>1, <1>2 DEF Steers

LEMMA AbnormalOrderly ==
    ASSUME NEW c, Env, Well(c), NEW h \in Nat, NEW D, Orderly(c, h, D), NEW s
    PROVE  Orderly(VehicleAbnormal(c, s), h, D)
<1> DEFINE d == VehicleAbnormal(c, s)
           n == Len(c.orders)
<1>0. AbnormalCases(c, s, d)
      BY AbnormalIs
<1> HIDE DEF d
<1>1. c \in Station(n) /\ n \in Nat /\ limit \in Limits /\ NoCommand \in Command
      BY NoSequenceType DEF Well, Env, Place
<1>s. Simulated => Shut(c.frames)
      BY ShutWhen
<1>o. Steers(c.seq, c.orders, c.parked, h, D)
      BY DEF Orderly
<1>2. CASE d = c
      BY <1>2 DEF d
<1>3. CASE d = [c EXCEPT !.latched = FALSE]
  <2>1. Steady(c, d) /\ d.orders = c.orders /\ d.seq = c.seq
        BY <1>1, <1>3 DEF Station, Steady
  <2> QED BY <1>o, <2>1, SeqOrderly DEF d, Mild
<1>4. CASE c.seq.kind \in {"return", "emergency"} /\ d = [c EXCEPT !.seq.kind = "abnormal", !.latched = TRUE]
  <2> DEFINE q == [c.seq EXCEPT !.kind = "abnormal"]
  <2>1. c.seq # NoSequence
        BY <1>1, <1>4, NoSequenceType
  <2>2. q.command = c.seq.command /\ q.phase = c.seq.phase /\ q.ticket = c.seq.ticket
        BY <1>1 DEF Station, Sequences
  <2>3. d = [c EXCEPT !.seq = q, !.latched = TRUE]
        BY <1>1, <1>4 DEF Station
  <2> HIDE DEF q
  <2>4. d.orders = c.orders /\ Steady(c, d) /\ d.seq = q
        BY <1>1, <2>3 DEF Station, Steady
  <2>5. Steers(d.seq, c.orders, c.parked, h, D)
        BY <1>o, <2>2, <2>4 DEF Steers
  <2>6. Mild(c.seq, d.seq)
        BY <2>1, <2>2, <2>4 DEF Mild
  <2> QED BY <2>4, <2>5, <2>6, SeqOrderly DEF d
<1>5. CASE /\ Simulated
           /\ LET e == [BlockStandby(c) EXCEPT
                           !.seq = NewSequence("abnormal", "waypoints_pending", NoCommand)]
              IN  d = [Ask([e EXCEPT !.seq.phase = "waypoints_submitting"], "waypoints",
                           e.seq.command) EXCEPT !.latched = TRUE, !.staged = TRUE]
  <2> DEFINE q == NewSequence("abnormal", "waypoints_pending", NoCommand)
             e == [BlockStandby(c) EXCEPT !.seq = q]
             a == Ask([e EXCEPT !.seq.phase = "waypoints_submitting"], "waypoints", e.seq.command)
  <2>0. "abnormal" \in Kind /\ "waypoints_pending" \in Phase /\ "waypoints_submitting" \in Phase
        /\ "waypoints" \in Waiting \ {"command"}
        BY DEF Kind, Phase, Waiting
  <2>1. /\ q \in Sequences(n) /\ q.phase = "waypoints_pending" /\ q.command = NoCommand
        /\ q.ticket = NoTicket
    <3>1. "abnormal" \in Kind /\ "waypoints_pending" \in Phase
          BY <2>0
    <3> HIDE DEF n
    <3>2. q \in Sequences(n)
          BY <1>1, <3>1, NewSequenceType
    <3>3. q.phase = "waypoints_pending" /\ q.command = NoCommand /\ q.ticket = NoTicket
          BY DEF NewSequence, NoSequence
    <3> QED BY <3>2, <3>3
  <2>2. q # NoSequence
        BY <1>1, <2>1, NoSequenceType
  <2> HIDE DEF q
  <2>3. Well(e) /\ Steady(c, e) /\ e.seq = q /\ e.orders = c.orders
        BY <2>1, StartWell
  <2>4. Steers(q, c.orders, c.parked, h, D)
        BY <2>1, ForeignSteers
  <2> HIDE DEF e
  <2>5. Orderly(e, h, D) /\ Shut(e.frames)
        BY <1>5, <1>s, <2>3, <2>4, SeqOrderly DEF Steady
  <2>6. Orderly(a, h, D)
        BY <2>1, <2>2, <2>3, <2>5, PhaseAskOrderly
  <2>7. Well(a)
    <3>1. Well([e EXCEPT !.seq.phase = "waypoints_submitting"])
          BY <2>0, <2>2, <2>3, PhaseWell
    <3>2. e.seq.command \in Command
          BY <2>3 DEF Well, Station, Sequences
    <3> DEFINE g == [e EXCEPT !.seq.phase = "waypoints_submitting"]
    <3>3. Well(g)
          BY <3>1
    <3> HIDE DEF g
    <3>4. Well(Ask(g, "waypoints", e.seq.command))
          BY <2>0, <3>2, <3>3, AskWell
    <3> QED BY <3>4 DEF g
  <2>8. d = [a EXCEPT !.latched = TRUE, !.staged = TRUE]
        BY <1>5 DEF a, e, q
  <2> HIDE DEF a
  <2>9. /\ d.orders = a.orders /\ d.seq = a.seq /\ d.frames = a.frames /\ d.parked = a.parked
        /\ d.results = a.results
        BY <2>7, <2>8 DEF Well, Station
  <2> QED BY <2>6, <2>9 DEF Orderly, d
<1>6. CASE /\ Simulated
           /\ d = [BlockStandby(c) EXCEPT !.seq = NewSequence("abnormal", "standby", NoCommand),
                                          !.latched = TRUE]
  <2> DEFINE q == NewSequence("abnormal", "standby", NoCommand)
  <2>1. q.command = NoCommand /\ q.ticket = NoTicket
        BY DEF NewSequence, NoSequence
  <2>2. Steers(q, c.orders, c.parked, h, D)
        BY <2>1, ForeignSteers
  <2>3. d = [c EXCEPT !.blocked = TRUE, !.standby = FALSE, !.seq = q, !.latched = TRUE]
        BY <1>6 DEF BlockStandby
  <2> HIDE DEF q
  <2>4. d.orders = c.orders /\ Steady(c, d) /\ d.seq = q
        BY <1>1, <2>3 DEF Station, Steady
  <2> QED BY <1>6, <1>s, <2>2, <2>4, SeqOrderly DEF d
<1> QED BY <1>0, <1>2, <1>3, <1>4, <1>5, <1>6 DEF AbnormalCases

(***************************************************************************)
(* Results and the refresh.                                                *)
(***************************************************************************)
LEMMA ResultSteers ==
    ASSUME NEW c, Env, Well(c), NEW r \in Results(Len(c.orders)), NEW P, NEW h \in Nat, NEW D,
           Steers(c.seq, c.orders, P, h, D), Truthful(c.orders, D, r)
    PROVE  LET d == SequenceResult(c, r)
           IN  Steers(d.seq, c.orders, P, h, D) /\ Mild(c.seq, d.seq)
<1> DEFINE o == c.orders
           n == Len(o)
           d == SequenceResult(c, r)
           phase == c.seq.phase
           next == CASE phase = "takeoff" -> "waypoints_pending"
                     [] phase = "waypoints" -> "land_pending"
                     [] OTHER -> "standby"
           delay == next = "standby" /\ c.seq.kind = "inspection"
           q == [c.seq EXCEPT !.phase = next, !.ticket = NoTicket, !.via = r.ticket,
                              !.delay = delay]
           k == c.seq.command
<1>1. CASE ~PhaseDone(c, r)
  <2>1. d = c
        BY <1>1 DEF SequenceResult, SequenceOver, PhaseDone
  <2> QED BY <2>1 DEF Mild
<1>2. CASE SequenceOver(c, r)
  <2>1. d = EndSequence(c)
        BY <1>2 DEF SequenceResult, SequenceOver
  <2> HIDE DEF d
  <2>2. d.seq = NoSequence
        BY <2>1, EndSequenceWell
  <2> QED BY <2>2, IdleSteers DEF Mild, d, Env, Place
<1>3. CASE PhaseDone(c, r) /\ ~SequenceOver(c, r)
  <2>1. d = [c EXCEPT !.seq.phase = next, !.seq.ticket = NoTicket, !.seq.via = r.ticket,
                      !.seq.delay = delay]
        BY <1>3 DEF SequenceResult
  <2>2. d = [c EXCEPT !.seq = q]
        BY <2>1
  <2>3. /\ c \in Station(n) /\ n \in Nat /\ c.seq \in Sequences(n) /\ c.seq # NoSequence
        /\ r.final /\ r.ok /\ r.ticket = c.seq.ticket
        BY <1>3 DEF Well, Station, PhaseDone, SequenceOver
  <2>4. /\ r.ticket \in 1..n /\ r.ticket # NoTicket
        /\ r.ticket < n + 1
        BY <2>3 DEF Results, NoTicket
  <2>5. phase \in {"takeoff", "waypoints"} =>
            r.ticket \in D /\ o[r.ticket].name = phase /\ o[r.ticket].command = k
    <3> HAVE phase \in {"takeoff", "waypoints"}
    <3>1. o[r.ticket].name = phase /\ o[r.ticket].command = k
          BY <2>3, <2>4 DEF Steers
    <3>2. r.name = phase
          BY <3>1 DEF Truthful
    <3>3. r.name # "clear_abnormal"
          BY <3>2
    <3> QED BY <2>3, <3>1, <3>3 DEF Truthful
  <2>6. phase = "takeoff" => Succeeded(o, D, n + 1, "takeoff", k)
        BY <2>4, <2>5 DEF Succeeded
  <2>7. phase = "waypoints" => Succeeded(o, D, n + 1, "waypoints", k)
        BY <2>4, <2>5 DEF Succeeded
  <2>8. /\ next = "waypoints_pending" => phase = "takeoff"
        /\ next = "land_pending" => phase = "waypoints"
        /\ next \in {"waypoints_pending", "land_pending", "standby"}
        OBVIOUS
  <2> HIDE DEF d, next, delay, n, phase, k
  <2>9. q.command = k /\ q.phase = next
        BY <2>3 DEF Sequences, k
  <2> HIDE DEF q
  <2>10. d.seq = q
         BY <2>2, <2>3 DEF Station
  <2>11. k <= h /\ (phase = "takeoff" => MaySay(o, P, k))
         BY DEF Steers, Early, phase, k
  <2>12. /\ phase = "takeoff" => Earned(o, D, n + 1, "waypoints", k)
         /\ phase = "waypoints" => Earned(o, D, n + 1, "land", k)
         BY <2>6, <2>7 DEF Earned
  <2>13. Steers(q, o, P, h, D)
         BY <2>8, <2>9, <2>11, <2>12 DEF Steers, Early, n
  <2> QED BY <2>3, <2>9, <2>10, <2>13 DEF Mild, d, k
<1> QED BY <1>1, <1>2, <1>3 DEF SequenceOver

LEMMA MildTwice ==
    ASSUME NEW p, NEW q, NEW r, Mild(p, q), Mild(q, r)
    PROVE  Mild(p, r)
BY DEF Mild

LEMMA ConsumeOrderly ==
    ASSUME NEW c, Env, Well(c), NEW h \in Nat, NEW D, Orderly(c, h, D)
    PROVE  Orderly(Consume(c), h, D)
<1> DEFINE n == Len(c.orders)
           o == c.orders
           P == c.parked
           A == {r \in Results(n) : Truthful(o, D, r)}
           e == [c EXCEPT !.results = <<>>]
           K(d) == /\ Withheld(d) /\ d.orders = o /\ Mild(c.seq, d.seq)
                   /\ Steers(d.seq, o, P, h, D)
           T == {d \in Station(n) : K(d)}
           q == c.results
<1>1. /\ c \in Station(n) /\ n \in Nat /\ q \in Seq(Results(n)) /\ Withheld(c)
      /\ Reported(q, o, D) /\ Steers(c.seq, o, P, h, D)
      BY DEF Well, Station, Orderly
<1>2. q \in Seq(A)
  <2>1. Len(q) \in Nat /\ \A i \in 1..Len(q) : q[i] \in Results(n) /\ Truthful(o, D, q[i])
        BY <1>1, LenProperties, ElementOfSeq DEF Reported
  <2>2. \A i \in 1..Len(q) : q[i] \in A
        BY <2>1
  <2> HIDE DEF A, q
  <2>3. SubSeq(q, 1, Len(q)) \in Seq(A)
        BY <2>1, <2>2, SubSeqProperties
  <2> QED BY <1>1, <2>3, SubSeqFull
<1>3. e \in T
  <2>1. <<>> \in Seq(Results(n))
        BY EmptySeq
  <2> HIDE DEF n
  <2>2. /\ e \in Station(n) /\ e.orders = c.orders /\ e.seq = c.seq
        /\ e.blocked = c.blocked /\ e.standby = c.standby
        BY <1>1, <2>1 DEF Station
  <2> HIDE DEF e
  <2> QED BY <1>1, <2>2 DEF Withheld, Mild
<1>4. ASSUME NEW d \in T, NEW r \in A PROVE Consumed(d, r) \in T
  <2> DEFINE f == Consumed(d, r)
             v == ObserveResult(d, r)
             g == SequenceResult(v, r)
  <2>1. Well(d) /\ r \in Results(Len(d.orders)) /\ K(d) /\ Truthful(o, D, r) /\ d \in Station(n)
        BY <1>1, <1>4 DEF Well
  <2>2. Well(f) /\ f.orders = d.orders
        BY <2>1, ConsumedWell
  <2>3. v \in Station(Len(d.orders)) /\ Projects(d, v)
        BY <2>1, ObserveResultType DEF Well
  <2> HIDE DEF v
  <2>4. Well(v) /\ v.orders = o /\ v.seq = d.seq
        BY <2>1, <2>3, ProjectsWell
  <2>5. r \in Results(Len(v.orders)) /\ Steers(v.seq, v.orders, P, h, D)
        /\ Truthful(v.orders, D, r)
        BY <2>1, <2>4
  <2>6. Steers(g.seq, v.orders, P, h, D) /\ Mild(v.seq, g.seq) /\ Well(g)
        BY <2>4, <2>5, ResultSteers, SequenceResultWell
  <2>7. f = g \/ f = [g EXCEPT !.running = FALSE, !.active = NoTicket]
        BY DEF Consumed, v
  <2> HIDE DEF f, g
  <2>8. f.seq = g.seq
        BY <2>6, <2>7 DEF Well, Station
  <2>9. Mild(c.seq, f.seq) /\ Steers(f.seq, o, P, h, D)
        BY <2>1, <2>4, <2>6, <2>8, MildTwice
  <2>10. f \in Station(n) /\ Withheld(f)
         BY <2>1, <2>2 DEF Well
  <2> HIDE DEF n, o
  <2> QED BY <2>1, <2>2, <2>9, <2>10 DEF f
<1>5. Consume(c) = FoldLeft(Consumed, e, q)
      BY DEF Consume
<1> HIDE DEF T, e, A, q
<1>6. \A d \in T, r \in A : Consumed(d, r) \in T
      BY <1>4
<1>7. FoldLeft(Consumed, e, q) \in T
      BY <1>2, <1>3, <1>6, ConsumeAll
<1> DEFINE d == Consume(c)
<1>8. d \in T
      BY <1>5, <1>7
<1>9. d.frames = c.frames /\ d.parked = P /\ d.results = <<>>
      BY ConsumeWell
<1> HIDE DEF d
<1>10. K(d)
       BY <1>8 DEF T
<1>11. Stacked(c.frames, o, P, d.seq, h, D)
  <2>1. Stacked(c.frames, o, P, c.seq, h, D)
        BY DEF Orderly
  <2> QED BY <1>10, <2>1, MildStacked
<1>12. Reported(d.results, o, D)
  <2>1. Len(<<>>) = 0
        BY EmptySeq
  <2> QED BY <1>9, <2>1 DEF Reported
<1>13. Orderly(d, h, D)
       BY <1>9, <1>10, <1>11, <1>12 DEF Orderly
<1> QED BY <1>13 DEF d

LEMMA SameOrderly ==
    ASSUME NEW c, NEW h, NEW D, Orderly(c, h, D), NEW d, Steady(c, d), d.orders = c.orders,
           d.seq = c.seq
    PROVE  Orderly(d, h, D)
BY DEF Orderly, Steady

LEMMA ObservedOrderly ==
    ASSUME NEW c, Env, Well(c), NEW s, s.point \in 0..MaxPoints, NEW telemetry, NEW may,
           NEW h \in Nat, NEW D, Orderly(c, h, D)
    PROVE  Orderly(Observed(c, s, telemetry, may), h, D)
<1> DEFINE b == VehicleAbnormal(c, s)
           d == ObserveVehicle(b, s, telemetry, may)
<1>1. Well(b) /\ Orderly(b, h, D)
      BY AbnormalWell, AbnormalOrderly
<1> HIDE DEF b
<1>2. d \in Station(Len(b.orders)) /\ Projects(b, d)
  <2> DEFINE n == Len(b.orders)
  <2>1. n \in Nat /\ b \in Station(n)
        BY <1>1 DEF Well
  <2> HIDE DEF n
  <2>2. d \in Station(n) /\ Projects(b, d)
        BY <2>1, ObserveVehicleType
  <2> QED BY <2>2 DEF n
<1>3. Observed(c, s, telemetry, may) = d
      BY DEF Observed, b
<1> HIDE DEF d
<1>4. Steady(b, d) /\ d.orders = b.orders /\ d.seq = b.seq
      BY <1>1, <1>2, ProjectsWell
<1>5. Orderly(d, h, D)
      BY <1>1, <1>4, SameOrderly
<1> QED BY <1>3, <1>5

LEMMA RefreshOrderly ==
    ASSUME NEW c, Env, Well(c), snap.point \in 0..MaxPoints, NEW telemetry, NEW h \in Nat, NEW D,
           Orderly(c, h, D)
    PROVE  Orderly(RefreshTelling(c, telemetry), h, D)
<1> DEFINE fed == Consume(c)
           may == CanTakeOff(fed, snap)
           a == Drive(fed, snap)
           b == Observed(a, snap, telemetry, may)
           d == RefreshTelling(c, telemetry)
<1>1. Well(fed) /\ Orderly(fed, h, D)
      BY ConsumeWell, ConsumeOrderly
<1>2. d = a \/ d = b
      BY DEF RefreshTelling, Ended
<1> HIDE DEF may, fed, d
<1>3. Well(a) /\ Orderly(a, h, D)
      BY <1>1, DriveWell, DriveOrderly
<1> HIDE DEF a
<1>4. Orderly(b, h, D)
      BY <1>3, ObservedOrderly
<1> HIDE DEF b
<1>5. Orderly(d, h, D)
      BY <1>2, <1>3, <1>4
<1> QED BY <1>5 DEF d

(***************************************************************************)
(* Handlers.                                                               *)
(***************************************************************************)
LEMMA PreemptedOrderly ==
    ASSUME NEW c, Env, Well(c), NEW h \in Nat, NEW D, Orderly(c, h, D)
    PROVE  LET d == Preempted(c)
           IN  Orderly(d, h, D) /\ Shut(d.frames)
<1> DEFINE d == Preempted(c)
           s == c.frames
           t == d.frames
<1>1. /\ d.orders = c.orders /\ d.parked = c.parked /\ d.seq = c.seq /\ d.results = c.results
      /\ Len(t) = Len(s)
      /\ \A i \in 1..Len(s) :
             /\ t[i].for = s[i].for /\ t[i].command = s[i].command
             /\ t[i].answer = IF i = Len(s) THEN "rejected" ELSE s[i].answer
      BY PreemptedWell
<1>2. Stacked(s, c.orders, c.parked, c.seq, h, D)
      BY DEF Orderly
<1> HIDE DEF d, s, t
<1>3. Shut(t)
      BY <1>1, <1>2 DEF Shut, Stacked
<1>4. Stacked(t, c.orders, c.parked, c.seq, h, D)
      BY <1>1, <1>2, <1>3 DEF Shut, Stacked
<1> QED BY <1>1, <1>3, <1>4 DEF Orderly, d, t

LEMMA ActOrderly ==
    ASSUME NEW c, Env, Well(c), NEW h \in Nat, NEW D, Orderly(c, h, D), Shut(c.frames),
           NEW i \in Command, i <= h, MaySay(c.orders, c.parked, i), NEW judged
    PROVE  Orderly(Act(c, judged, i), h, D)
<1> DEFINE d == Act(c, judged, i)
           o == c.orders
           P == c.parked
           n == Len(o) + 1
<1>1. ActCases(c, judged, i, d)
      BY ActIs
<1> HIDE DEF d
<1>0. "takeoff" \in Waiting \ {"command"} /\ "first" \in Waiting \ {"command"}
      /\ "landing" \in Waiting \ {"command"}
      BY DEF Waiting
<1>2. CASE d = c
      BY <1>2 DEF d
<1>3. CASE d = Ask(c, "takeoff", i)
  <2> DEFINE f == [for |-> "takeoff", command |-> i, answer |-> "open", seen |-> snap]
  <2>1. Asked(f) = "takeoff" /\ f.for = "takeoff" /\ f.command = i
        BY DEF Asked
  <2> HIDE DEF f
  <2>2. Admits(o, P, c.seq, D, f)
        BY <2>1 DEF Admits, Earned
  <2> QED BY <1>0, <1>3, <2>2, AskOrderly DEF f, d
<1>4. CASE limit.script[i] \notin {"01", "02", "03"} /\ d = Ask(c, "landing", i)
  <2> DEFINE f == [for |-> "landing", command |-> i, answer |-> "open", seen |-> snap]
  <2>1. f.for = "landing" /\ f.command = i
        OBVIOUS
  <2> HIDE DEF f
  <2>2. ~Inspects(i)
        BY <1>4 DEF Inspects
  <2>3. Admits(o, P, c.seq, D, f)
        BY <2>1, <2>2 DEF Admits, Earned
  <2> QED BY <1>0, <1>4, <2>3, AskOrderly DEF f, d
<1>5. CASE d = Woke(BlockStandby([c EXCEPT !.staged = TRUE]))
  <2>1. Steady(c, d) /\ d.orders = c.orders /\ d.seq = c.seq
        BY <1>5, StageWell
  <2> QED BY <2>1, SameOrderly DEF d
<1>6. CASE d = Ask(BlockStandby([c EXCEPT !.seq = NewSequence("inspection", "takeoff", i)]),
                   "first", i)
  <2> DEFINE q == NewSequence("inspection", "takeoff", i)
             e == BlockStandby([c EXCEPT !.seq = q])
             f == [for |-> "first", command |-> i, answer |-> "open", seen |-> snap]
  <2>1. /\ Well(e) /\ Steady(c, e) /\ e.orders = o /\ e.seq = q
        /\ q.phase = "takeoff" /\ q.command = i /\ q.ticket = NoTicket
        BY BeginWell
  <2>2. Asked(f) = "takeoff" /\ f.for = "first" /\ f.command = i
        BY DEF Asked
  <2> HIDE DEF e, f, q
  <2>3. Steers(e.seq, o, P, h, D)
        BY <2>1 DEF Steers
  <2>4. Orderly(e, h, D) /\ Shut(e.frames) /\ e.parked = P
        BY <2>1, <2>3, SeqOrderly DEF Steady
  <2>5. Admits(e.orders, e.parked, e.seq, D, f)
        BY <2>1, <2>2, <2>4 DEF Admits, Earned
  <2> QED BY <1>0, <1>6, <2>1, <2>4, <2>5, AskOrderly DEF d, e, f, q
<1> QED BY <1>1, <1>2, <1>3, <1>4, <1>5, <1>6 DEF ActCases

LEMMA DoneOrderly ==
    ASSUME NEW c, NEW e, Env, Well(e), snap.point \in 0..MaxPoints, NEW h \in Nat, NEW D,
           Orderly(e, h, D)
    PROVE  Orderly(Done(c, e), h, D)
<1> DEFINE d == Done(c, e)
<1>1. d = e \/ d = RefreshTelling(e, FALSE)
      BY DEF Done, Refreshed
<1> HIDE DEF d
<1>2. CASE d = e
      BY <1>2 DEF d
<1>3. CASE d = RefreshTelling(e, FALSE)
      BY <1>3, RefreshOrderly DEF d
<1> QED BY <1>1, <1>2, <1>3

\* The command whose refresh has opened a dialog waits below it.
LEMMA InsertOrderly ==
    ASSUME NEW c, Env, Well(c), NEW h, NEW D, Orderly(c, h, D), ~Simulated, c.frames # <<>>,
           NEW k \in Command, k <= h, k \in c.parked,
           NEW d, d.orders = c.orders, d.seq = c.seq, d.results = c.results, d.parked = c.parked,
           d.frames = InsertAt(c.frames, Len(c.frames),
                               [for |-> "command", command |-> k, answer |-> "rejected", seen |-> snap])
    PROVE  Orderly(d, h, D)
<1> DEFINE s == c.frames
           t == d.frames
           n == Len(s)
           f == [for |-> "command", command |-> k, answer |-> "rejected", seen |-> snap]
<1>1. f \in Frame /\ f.for = "command" /\ f.command = k /\ f.answer # "open"
      BY DEF Frame, Waiting, Answer, Env
<1>2. s \in Seq(Frame) /\ t = InsertAt(s, n, f)
      BY DEF Well, Station
<1>3. Stacked(s, c.orders, c.parked, c.seq, h, D)
      BY DEF Orderly
<1> HIDE DEF f, s, t
<1>4. /\ Len(t) = n + 1 /\ t[n] = f /\ t[n + 1] = s[n]
      /\ \A i \in 1..(n - 1) : t[i] = s[i]
  <2>1. s # <<>>
        BY DEF s
  <2> DEFINE u == InsertAt(s, Len(s), f)
  <2>2. /\ Len(u) = Len(s) + 1 /\ u[Len(s)] = f /\ u[Len(s) + 1] = s[Len(s)]
        /\ \A i \in 1..(Len(s) - 1) : u[i] = s[i]
    <3>1. \A A, x, e : x \in Seq(A) /\ x # <<>> /\ e \in A =>
              LET v == InsertAt(x, Len(x), e)
              IN  /\ v \in Seq(A) /\ Len(v) = Len(x) + 1
                  /\ \A i \in 1..(Len(x) - 1) : v[i] = x[i]
                  /\ v[Len(x)] = e /\ v[Len(x) + 1] = x[Len(x)]
          BY InsertBeforeLast
    <3>2. s \in Seq(Frame) /\ f \in Frame
          BY <1>1, <1>2
    <3> QED BY <2>1, <3>1, <3>2
  <2>3. t = u
        BY <1>2
  <2> HIDE DEF u
  <2> QED BY <2>2, <2>3
<1>5. n \in Nat /\ n >= 1
  <2>1. n \in Nat /\ n # 0
        BY <1>2, EmptySeq, LenProperties DEF s
  <2> HIDE DEF n
  <2> QED BY <2>1
<1> HIDE DEF n
<1>6. Stacked(t, c.orders, c.parked, c.seq, h, D)
  <2> SUFFICES ASSUME NEW i \in 1..Len(t)
               PROVE  /\ ~Simulated /\ t[i].command <= h
                      /\ t[i].for = "command" => t[i].command \in c.parked
                      /\ t[i].answer = "open" =>
                             i = Len(t) /\ Admits(c.orders, c.parked, c.seq, D, t[i])
      BY DEF Stacked
  <2>1. CASE i = n
        BY <1>1, <1>4, <2>1
  <2>2. CASE i = n + 1
    <3>1. n \in 1..Len(s)
          BY <1>5 DEF n
    <3> QED BY <1>3, <1>4, <2>2, <3>1 DEF Stacked
  <2>3. CASE i # n /\ i # n + 1
    <3>1. i \in 1..(n - 1) /\ i \in 1..n /\ i # n
          BY <1>4, <1>5, <2>3
    <3>2. t[i] = s[i] /\ t[i].answer # "open"
          BY <1>3, <1>4, <3>1 DEF Stacked, n
    <3> QED BY <1>3, <3>1, <3>2 DEF Stacked, n
  <2> QED BY <2>1, <2>2, <2>3
<1> QED BY <1>6 DEF Orderly, t

LEMMA HandleOrderly ==
    ASSUME NEW c, Env, Well(c), snap.point \in 0..MaxPoints, NEW h \in Nat, NEW D,
           Orderly(c, h, D), NEW i \in Command, i = h + 1
    PROVE  Orderly(Handle(c, i), i, D)
<1> DEFINE p == Preempted(c)
           ready == Refreshed(p)
           f == [for |-> "command", command |-> i, answer |-> "rejected", seen |-> snap]
           frames == InsertAt(ready.frames, Len(ready.frames), f)
           parked == ready.parked \cup {i}
           judged == Consume(p)
           d == Handle(c, i)
<1>1. /\ Well(p) /\ p.orders = c.orders /\ p.parked = c.parked
      /\ Len(p.frames) = Len(c.frames) /\ Orderly(p, h, D) /\ Shut(p.frames)
      BY PreemptedWell, PreemptedOrderly
<1>2. \/ d = c
      \/ Opened(c, ready) /\ d = [ready EXCEPT !.frames = frames, !.parked = parked]
      \/ ~Opened(c, ready) /\ d = Done(ready, Act(ready, judged, i))
  <2>1. CASE Deaf(c, i)
        BY <2>1 DEF Handle
  <2>2. CASE ~Deaf(c, i) /\ Opened(c, ready)
        BY <2>2 DEF Handle, Heard
  <2>3. CASE ~Deaf(c, i) /\ ~Opened(c, ready)
        BY <2>3 DEF Handle, Heard
  <2> QED BY <2>1, <2>2, <2>3
<1> HIDE DEF p, d, judged
<1>3. /\ Well(ready) /\ ready.parked = p.parked /\ Opens(p, ready)
      BY <1>1, RefreshedWell
<1>4. Orderly(ready, h, D)
      BY <1>1, RefreshOrderly DEF Refreshed
<1> HIDE DEF ready
<1>5. i \in Nat /\ h <= i /\ i <= i
      OBVIOUS
<1>6. D \subseteq 1..Len(c.orders) /\ D \subseteq 1..Len(ready.orders)
      BY <1>4 DEF Orderly, Lawful
<1>7. CASE d = c
  <2>1. Orderly(c, i, D)
        BY <1>5, <1>6, WiderOrderly
  <2> QED BY <1>7, <2>1 DEF d
<1>8. CASE Opened(c, ready) /\ d = [ready EXCEPT !.frames = frames, !.parked = parked]
  <2>1. ~Simulated /\ ready.frames # <<>>
    <3>1. Len(c.frames) \in Nat /\ Len(ready.frames) > Len(c.frames)
      <4>1. c.frames \in Seq(Frame)
            BY DEF Well, Station
      <4> QED BY <1>8, <4>1, LenProperties DEF Opened
    <3>2. ready.frames # p.frames
          BY <1>1, <3>1
    <3>3. ready.frames # <<>>
          BY <3>1, EmptySeq
    <3> QED BY <1>3, <3>2, <3>3 DEF Opens
  <2> DEFINE e == [ready EXCEPT !.parked = parked]
  <2> HIDE DEF frames, parked
  <2>2. /\ Len(ready.orders) \in Nat /\ ready \in Station(Len(ready.orders)) /\ Withheld(ready)
        /\ parked \in SUBSET Nat /\ ready.parked \subseteq parked /\ i \in parked
        BY <1>3, <1>5 DEF Well, Station, parked
  <2>3. /\ e.orders = ready.orders /\ e.seq = ready.seq /\ e.results = ready.results
        /\ e.frames = ready.frames /\ e.parked = parked
        /\ e.blocked = ready.blocked /\ e.standby = ready.standby
        BY <2>2 DEF Station
  <2>4. e \in Station(Len(ready.orders))
    <3> DEFINE n == Len(ready.orders)
    <3>1. ready \in Station(n)
          BY <2>2
    <3> HIDE DEF n
    <3>2. e \in Station(n)
          BY <2>2, <3>1 DEF Station
    <3> QED BY <3>2 DEF n
  <2>5. Well(e)
        BY <2>2, <2>3, <2>4 DEF Well, Withheld
  <2>6. /\ d.orders = ready.orders /\ d.seq = ready.seq /\ d.results = ready.results
        /\ d.frames = frames /\ d.parked = parked
        BY <1>8, <2>2 DEF Station, frames, parked
  <2> HIDE DEF e
  <2>7. Orderly(e, i, D)
        BY <1>3, <1>4, <1>5, <1>6, <2>2, <2>3, WiderOrderly
  <2>8. frames = InsertAt(e.frames, Len(e.frames), f)
        BY <2>3 DEF frames
  <2>9. /\ e.frames # <<>> /\ i \in e.parked /\ d.orders = e.orders /\ d.seq = e.seq
        /\ d.results = e.results /\ d.parked = e.parked
        /\ d.frames = InsertAt(e.frames, Len(e.frames), f)
        BY <2>1, <2>2, <2>3, <2>6, <2>8
  <2> QED BY <1>5, <2>1, <2>5, <2>7, <2>9, InsertOrderly DEF d
<1>9. CASE ~Opened(c, ready) /\ d = Done(ready, Act(ready, judged, i))
  <2> DEFINE a == Act(ready, judged, i)
  <2>1. Shut(ready.frames)
    <3>1. c.frames \in Seq(Frame) /\ Len(c.frames) \in Nat
          BY LenProperties DEF Well, Station
    <3>2. ready.frames = p.frames
          BY <1>1, <1>3, <1>9, <3>1 DEF Opened, Opens
    <3> QED BY <1>1, <3>2
  <2>2. Orderly(ready, i, D)
        BY <1>3, <1>4, <1>5, <1>6, WiderOrderly
  <2>3. MaySay(ready.orders, ready.parked, i)
    <3> DEFINE o == ready.orders
    <3> SUFFICES ASSUME NEW j \in 1..Len(o) PROVE o[j].command < i
        BY DEF MaySay
    <3>1. o[j].command <= h
          BY <1>4 DEF Orderly, Lawful
    <3>2. o[j].command \in Nat
      <4>1. o \in Seq(Order)
            BY <1>3 DEF Well, Station
      <4>2. o[j] \in Order
            BY <4>1, ElementOfSeq
      <4> QED BY <4>2 DEF Order, Command, NoCommand
    <3> HIDE DEF o
    <3> QED BY <3>1, <3>2
  <2>4. Orderly(a, i, D) /\ Well(a)
        BY <1>3, <1>5, <2>1, <2>2, <2>3, ActOrderly, ActWell
  <2>5. d = Done(ready, a)
        BY <1>9
  <2> HIDE DEF a
  <2>6. Orderly(Done(ready, a), i, D)
        BY <1>5, <2>4, DoneOrderly
  <2> QED BY <2>5, <2>6 DEF d
<1> QED BY <1>2, <1>7, <1>8, <1>9

LEMMA ResumedOrderly ==
    ASSUME NEW c, Env, Well(c), snap.point \in 0..MaxPoints, NEW h \in Nat, NEW D,
           Orderly(c, h, D), c.frames # <<>>, NEW yes \in BOOLEAN,
           yes => Last(c.frames).answer = "open"
    PROVE  Orderly(Resumed(c, yes), h, D)
<1> DEFINE f == Last(c.frames)
           p == [c EXCEPT !.frames = Front(@)]
           s == c.frames
           t == p.frames
           a == Continue(p, f, yes)
           may == CanTakeOff(p, snap)
           d == Resumed(c, yes)
<1>1. /\ Well(p) /\ t = Front(s) /\ p.orders = c.orders /\ p.parked = c.parked
      /\ p.seq = c.seq /\ p.results = c.results /\ f \in Frame
      BY PoppedWell
<1>2. \/ f.for = "command" /\ d = Done(p, Act(p, p, f.command))
      \/ /\ f.for # "command"
         /\ \E b \in {a, Refreshed(a)} : d = b \/ d = Observed(b, f.seen, FALSE, may)
      BY ResumedIs
<1>3. /\ Len(s) \in Nat /\ Len(s) >= 1 /\ Len(t) = Len(s) - 1 /\ f = s[Len(s)]
      /\ \A i \in 1..(Len(s) - 1) : t[i] = s[i]
  <2>1. s \in Seq(Frame) /\ s # <<>>
        BY DEF Well, Station
  <2> HIDE DEF s, p
  <2>2. /\ Len(s) \in Nat /\ Len(s) >= 1 /\ Len(Front(s)) = Len(s) - 1
        /\ \A i \in 1..(Len(s) - 1) : Front(s)[i] = s[i]
        /\ Last(s) = s[Len(s)]
        BY <2>1, FrontLast
  <2> QED BY <1>1, <2>2 DEF s
<1>4. Stacked(s, c.orders, c.parked, c.seq, h, D)
      BY DEF Orderly
<1> HIDE DEF p, f, s, t, d, may
<1>5. Shut(t)
  <2> SUFFICES ASSUME NEW i \in 1..Len(t) PROVE t[i].answer # "open"
      BY DEF Shut
  <2>1. i \in 1..(Len(s) - 1) /\ i \in 1..Len(s) /\ i # Len(s)
        BY <1>3
  <2> QED BY <1>3, <1>4, <2>1 DEF Stacked
<1>6. Stacked(t, c.orders, c.parked, c.seq, h, D)
  <2> SUFFICES ASSUME NEW i \in 1..Len(t)
               PROVE  /\ ~Simulated /\ t[i].command <= h
                      /\ t[i].for = "command" => t[i].command \in c.parked
      BY <1>5 DEF Stacked, Shut
  <2>1. i \in 1..(Len(s) - 1) /\ i \in 1..Len(s)
        BY <1>3
  <2> QED BY <1>3, <1>4, <2>1 DEF Stacked
<1>7. Orderly(p, h, D)
      BY <1>1, <1>6 DEF Orderly, t
<1>8. Shut(p.frames)
      BY <1>5 DEF t
<1>9. /\ f.command <= h /\ f.command \in Command
      /\ f.for = "command" => f.command \in c.parked
      /\ yes => Admits(c.orders, c.parked, c.seq, D, f)
  <2>1. Len(s) \in 1..Len(s) /\ (yes => f.answer = "open")
        BY <1>3 DEF f
  <2> QED BY <1>1, <1>3, <1>4, <2>1 DEF Stacked, Frame
<1>10. CASE f.for = "command" /\ d = Done(p, Act(p, p, f.command))
  <2> DEFINE i == f.command
             e == Act(p, p, i)
  <2>1. i \in Command /\ i <= h /\ MaySay(p.orders, p.parked, i)
        BY <1>1, <1>9, <1>10 DEF MaySay
  <2> HIDE DEF i
  <2>2. Orderly(e, h, D) /\ Well(e)
        BY <1>1, <1>7, <1>8, <2>1, ActOrderly, ActWell
  <2>3. d = Done(p, e)
        BY <1>10 DEF i
  <2> HIDE DEF e
  <2>4. Orderly(d, h, D)
        BY <2>2, <2>3, DoneOrderly
  <2> QED BY <2>4 DEF d
<1>11. ASSUME f.for # "command", NEW b \in {a, Refreshed(a)},
              d = b \/ d = Observed(b, f.seen, FALSE, may)
       PROVE  Orderly(d, h, D)
  <2>1. Orderly(a, h, D) /\ Well(a)
    <3>1. yes => Admits(p.orders, p.parked, p.seq, D, f)
          BY <1>1, <1>9
    <3>2. Orderly(a, h, D)
          BY <1>1, <1>7, <1>8, <1>9, <1>11, <3>1, ContinueOrderly
    <3>3. Well(a)
          BY <1>1, <1>11, ContinueWell
    <3> QED BY <3>2, <3>3
  <2> HIDE DEF a
  <2>2. Orderly(b, h, D) /\ Well(b)
    <3>1. CASE b = a
          BY <2>1, <3>1
    <3>2. CASE b = Refreshed(a)
          BY <2>1, <3>2, RefreshOrderly, RefreshedWell DEF Refreshed
    <3> QED BY <1>11, <3>1, <3>2
  <2> DEFINE q == f.seen
             e == Observed(b, q, FALSE, may)
  <2>3. q.point \in 0..MaxPoints
        BY <1>1, SeenPoint
  <2>4. d = b \/ d = e
        BY <1>11
  <2> HIDE DEF q
  <2>5. Orderly(e, h, D)
        BY <2>2, <2>3, ObservedOrderly
  <2> HIDE DEF e
  <2> QED BY <2>2, <2>4, <2>5
<1> QED BY <1>2, <1>10, <1>11 DEF d

LEMMA LandingOrderly ==
    ASSUME NEW c, Env, Well(c), snap.point \in 0..MaxPoints, NEW h \in Nat, NEW D,
           Orderly(c, h, D), Shut(c.frames)
    PROVE  Orderly(Refreshed(Landing(c)), h, D)
<1> DEFINE d == Landing(c)
           o == c.orders
           n == Len(o) + 1
           e == [name |-> "land", command |-> NoCommand]
           q == [c.seq EXCEPT !.ticket = n]
<1>1. /\ Well(d) /\ Follows(c, d) /\ Steady(c, d) /\ Len(d.orders) = n /\ d.orders[n] = e
      /\ d.seq = IF c.seq.phase = "land" THEN q ELSE c.seq
      BY LandingWell
<1>2. Len(o) \in Nat /\ c.seq \in Sequences(Len(o)) /\ c.results \in Seq(Results(Len(o)))
      BY DEF Well, Station
<1>3. "land" \in Name
      BY DEF Name
<1> HIDE DEF d
<1>4. Added(o, d.orders, e)
      BY <1>1, <1>2 DEF Follows, Added
<1>5. Orderly(d, h, D)
  <2>1. CASE c.seq.phase # "land"
    <3>1. d.seq = c.seq
          BY <1>1, <2>1
    <3> QED BY <1>1, <1>3, <1>4, <3>1, ClearOrderly
  <2>2. CASE c.seq.phase = "land"
    <3>1. d.seq = q /\ q.phase = "land" /\ q.command = c.seq.command
      <4>1. d.seq = q
            BY <1>1, <2>2
      <4> HIDE DEF n
      <4> QED BY <1>2, <2>2, <4>1 DEF Sequences
    <3> HIDE DEF q
    <3>2. e.command = NoCommand /\ e.command <= h /\ e.name = "land"
          BY DEF NoCommand
    <3> HIDE DEF e
    <3>3. Earned(o, D, Len(o) + 1, e.name, e.command)
          BY <3>2 DEF Earned, Inspects
    <3>4. /\ Lawful(o, c.parked, h, D) /\ Reported(c.results, o, D)
          /\ Stacked(c.frames, o, c.parked, c.seq, h, D) /\ c.seq.command <= h
          BY DEF Orderly, Steers
    <3>5. Lawful(d.orders, c.parked, h, D)
          BY <1>4, <3>2, <3>3, <3>4, GrowLawful
    <3>6. Reported(c.results, d.orders, D)
          BY <1>2, <1>4, <3>4, GrowReported
    <3>7. Stacked(c.frames, d.orders, c.parked, d.seq, h, D)
          BY <3>4, StackedShut
    <3>8. Steers(d.seq, d.orders, c.parked, h, D)
          BY <3>1, <3>4 DEF Steers, Early
    <3> QED BY <1>1, <3>5, <3>6, <3>7, <3>8 DEF Orderly, Steady
  <2> QED BY <2>1, <2>2
<1>6. Orderly(RefreshTelling(d, FALSE), h, D)
      BY <1>1, <1>5, RefreshOrderly
<1> QED BY <1>6 DEF Refreshed, d

(***************************************************************************)
(* The orders given in every step.                                         *)
(***************************************************************************)
Ordered == Orderly(gcs, gcs.handled, flights.done)

LEMMA OrderedAfter ==
    ASSUME limit' = limit, Orderly(gcs', gcs'.handled, flights'.done)
    PROVE  Ordered'
<1>1. \A k : Inspects(k)' <=> Inspects(k)
      BY DEF Inspects
<1>2. Simulated' <=> Simulated
      BY DEF Simulated
<1>3. \A o, D, i, name, k : Earned(o, D, i, name, k)' <=> Earned(o, D, i, name, k)
      BY <1>1 DEF Earned, Succeeded
<1>4. \A o, P, q, D, f : Admits(o, P, q, D, f)' <=> Admits(o, P, q, D, f)
      BY <1>3 DEF Admits, MaySay, LandsUpstream, Asked
<1>5. \A o, P, h, D : Lawful(o, P, h, D)' <=> Lawful(o, P, h, D)
      BY <1>3 DEF Lawful, Behind, LandsUpstream
<1>6. \A s, o, P, q, h, D : Stacked(s, o, P, q, h, D)' <=> Stacked(s, o, P, q, h, D)
      BY <1>2, <1>4 DEF Stacked
<1>7. \A q, o, P, h, D : Steers(q, o, P, h, D)' <=> Steers(q, o, P, h, D)
      BY <1>3 DEF Steers, MaySay, LandsUpstream, Early
<1>8. \A s, o, D : Reported(s, o, D)' <=> Reported(s, o, D)
      BY DEF Reported, Truthful
<1>9. \A c, h, D : Orderly(c, h, D)' <=> Orderly(c, h, D)
      BY <1>5, <1>6, <1>7, <1>8 DEF Orderly
<1> QED BY <1>9 DEF Ordered

\* A station is taken over.
LEMMA TakenOrdered ==
    ASSUME NEW c, Well(c), SetGcs(c), UNCHANGED Elsewhere, Orderly(c, c.handled, flights.done)
    PROVE  Ordered'
<1>1. gcs' = [c EXCEPT !.out = <<>>, !.woken = FALSE]
      BY DEF SetGcs
<1>2. limit' = limit /\ flights' = flights
      BY DEF Elsewhere, ReaderVars
<1>3. /\ gcs'.orders = c.orders /\ gcs'.frames = c.frames /\ gcs'.parked = c.parked
      /\ gcs'.seq = c.seq /\ gcs'.results = c.results /\ gcs'.handled = c.handled
      BY <1>1 DEF Well, Station
<1>4. Orderly(gcs', gcs'.handled, flights'.done)
      BY <1>2, <1>3 DEF Orderly
<1> QED BY <1>2, <1>4, OrderedAfter

\* A step that leaves the window's part alone.
LEMMA KeptOrdered ==
    ASSUME Ordered, limit' = limit, flights' = flights, Steady(gcs, gcs'),
           gcs'.orders = gcs.orders, gcs'.seq = gcs.seq, gcs'.handled = gcs.handled
    PROVE  Ordered'
<1>1. Orderly(gcs', gcs'.handled, flights'.done)
      BY DEF Ordered, Orderly, Steady
<1> QED BY <1>1, OrderedAfter

LEMMA RefreshOrdered ==
    ASSUME Sound, Ordered, NEW telemetry, Refresh(telemetry)
    PROVE  Ordered'
<1> DEFINE c == RefreshTelling(gcs, telemetry)
<1>1. SetGcs(c) /\ UNCHANGED Elsewhere
      BY DEF Refresh
<1>2. Well(c) /\ Follows(gcs, c)
      BY SoundFacts, RefreshTellingWell
<1>3. Orderly(c, gcs.handled, flights.done)
      BY SoundFacts, RefreshOrderly DEF Ordered
<1> HIDE DEF c
<1>4. c.handled = gcs.handled
      BY <1>2 DEF Follows
<1> QED BY <1>1, <1>2, <1>3, <1>4, TakenOrdered

LEMMA HandleCommandOrdered ==
    ASSUME Sound, Ordered, HandleCommand
    PROVE  Ordered'
<1> DEFINE h == gcs.handled
           i == h + 1
           b == [gcs EXCEPT !.handled = @ + 1]
           c == Handle(b, i)
           D == flights.done
<1>1. SetGcs(c) /\ UNCHANGED Elsewhere /\ gcs.handled < received
      BY DEF HandleCommand
<1>2. i \in Command /\ h \in Nat
      BY <1>1, SoundFacts DEF Command, NoCommand
<1>3. /\ Well(b) /\ b.handled = i /\ b.orders = gcs.orders /\ b.frames = gcs.frames
      /\ b.seq = gcs.seq /\ b.parked = gcs.parked /\ b.results = gcs.results
      BY SoundFacts, NextCommandWell
<1> HIDE DEF b
<1>4. Orderly(b, h, D)
      BY <1>3 DEF Ordered, Orderly
<1>5. Well(c) /\ Follows(b, c)
      BY <1>2, <1>3, SoundFacts, HandleWell
<1>6. Orderly(c, i, D)
      BY <1>2, <1>3, <1>4, SoundFacts, HandleOrderly
<1> HIDE DEF c, i
<1>7. c.handled = i
      BY <1>3, <1>5 DEF Follows
<1> QED BY <1>1, <1>5, <1>6, <1>7, TakenOrdered

LEMMA DialogEndsOrdered ==
    ASSUME Sound, Ordered, DialogEnds
    PROVE  Ordered'
<1>1. \E yes \in BOOLEAN :
          SetGcs(Resumed(gcs, yes)) /\ (yes => Last(gcs.frames).answer = "open")
      BY DEF DialogEnds
<1>2. PICK yes \in BOOLEAN :
          SetGcs(Resumed(gcs, yes)) /\ (yes => Last(gcs.frames).answer = "open")
      BY <1>1
<1> DEFINE c == Resumed(gcs, yes)
<1>3. UNCHANGED Elsewhere /\ gcs.frames # <<>>
      BY DEF DialogEnds
<1>4. Well(c) /\ Follows(gcs, c)
      BY <1>3, SoundFacts, ResumedWell
<1>5. Orderly(c, gcs.handled, flights.done)
      BY <1>2, <1>3, SoundFacts, ResumedOrderly DEF Ordered
<1>6. SetGcs(c)
      BY <1>2
<1> HIDE DEF c
<1>7. c.handled = gcs.handled
      BY <1>4 DEF Follows
<1> QED BY <1>3, <1>4, <1>5, <1>6, <1>7, TakenOrdered

LEMMA OperatorLandOrdered ==
    ASSUME Sound, Ordered, OperatorLand
    PROVE  Ordered'
<1> DEFINE b == Landing(gcs)
           c == Refreshed(b)
<1>1. SetGcs(c) /\ UNCHANGED Elsewhere /\ gcs.frames = <<>>
      BY DEF OperatorLand, Landing
<1>2. Well(b) /\ Follows(gcs, b)
      BY SoundFacts, LandingWell
<1>3. Shut(gcs.frames)
  <2>1. Len(<<>>) = 0
        BY EmptySeq
  <2> QED BY <1>1, <2>1 DEF Shut
<1>4. Orderly(c, gcs.handled, flights.done)
      BY <1>3, SoundFacts, LandingOrderly DEF Ordered
<1> HIDE DEF b
<1>5. Well(c) /\ Follows(b, c)
      BY <1>2, SoundFacts, RefreshedWell
<1> HIDE DEF c
<1>6. c.handled = gcs.handled
      BY <1>2, <1>5 DEF Follows
<1> QED BY <1>1, <1>4, <1>5, <1>6, TakenOrdered

LEMMA MediaOrdered ==
    ASSUME Sound, Ordered,
           \/ CatalogueRead
           \/ \E p \in flights.reached, ok \in BOOLEAN : CaptureReported(p[1], p[2], ok)
    PROVE  Ordered'
<1> DEFINE n == Len(gcs.orders)
<1>1. n \in Nat /\ gcs \in Station(n) /\ Env /\ Well(gcs)
      BY SoundFacts DEF Well
<1>2. ASSUME NEW c, Well(c), Projects(gcs, c), SetGcs(c), UNCHANGED Elsewhere
      PROVE  Ordered'
  <2>1. /\ c.orders = gcs.orders /\ c.seq = gcs.seq /\ c.handled = gcs.handled
        /\ Steady(gcs, c)
        BY <1>2 DEF Projects, Steady
  <2>2. Orderly(c, c.handled, flights.done)
        BY <2>1, SameOrderly DEF Ordered
  <2> QED BY <1>2, <2>2, TakenOrdered
<1>3. CASE CatalogueRead
  <2> DEFINE c == ObserveMedia(gcs)
  <2>1. SetGcs(c) /\ UNCHANGED Elsewhere
        BY <1>3 DEF CatalogueRead, MediaKeeps
  <2> HIDE DEF n
  <2>2. c \in Station(n) /\ Projects(gcs, c)
        BY <1>1, ObserveMediaType
  <2> HIDE DEF c
  <2>3. Well(c)
        BY <1>1, <2>2, ProjectsWell DEF n
  <2> QED BY <1>2, <2>1, <2>2, <2>3
<1>4. CASE \E p \in flights.reached, ok \in BOOLEAN : CaptureReported(p[1], p[2], ok)
  <2>1. PICK p \in flights.reached, ok \in BOOLEAN : CaptureReported(p[1], p[2], ok)
        BY <1>4
  <2> DEFINE t == p[1]
             i == p[2]
             c == ObserveCapture(gcs, t, i)
  <2>2. t \in Ticket /\ i \in Point /\ i \in 1..limit.points
        BY ReachedType
  <2>3. SetGcs(c) /\ UNCHANGED Elsewhere
        BY <2>1 DEF CaptureReported, Captured, MediaKeeps
  <2> HIDE DEF t, i, n
  <2>4. c \in Station(n) /\ Projects(gcs, c)
        BY <1>1, <2>2, ObserveCaptureType
  <2> HIDE DEF c
  <2>5. Well(c)
        BY <1>1, <2>4, ProjectsWell DEF n
  <2> QED BY <1>2, <2>3, <2>4, <2>5
<1> QED BY <1>3, <1>4

LEMMA ConnectedOrdered ==
    ASSUME Sound, Ordered, Connected
    PROVE  Ordered'
<1>1. gcs' = ConnectionRestored(gcs) /\ limit' = limit /\ flights' = flights /\ Well(gcs)
      BY SoundFacts DEF Connected, HandshakeDone
<1>2. /\ Steady(gcs, gcs') /\ gcs'.orders = gcs.orders /\ gcs'.seq = gcs.seq
      /\ gcs'.handled = gcs.handled
      BY <1>1 DEF ConnectionRestored, Well, Station, Steady
<1> QED BY <1>1, <1>2, KeptOrdered

LEMMA StandbyDelayOverOrdered ==
    ASSUME Sound, Ordered, StandbyDelayOver
    PROVE  Ordered'
<1> DEFINE q == [gcs.seq EXCEPT !.delay = FALSE]
<1>1. Well(gcs) /\ gcs.seq \in Sequences(Len(gcs.orders)) /\ gcs \in Station(Len(gcs.orders))
      BY SoundFacts DEF Well, Station
<1>2. gcs' = [gcs EXCEPT !.seq = q] /\ limit' = limit /\ flights' = flights
      BY DEF StandbyDelayOver, linkVars
<1>3. /\ q.command = gcs.seq.command /\ q.phase = gcs.seq.phase /\ q.ticket = gcs.seq.ticket
      BY <1>1 DEF Sequences
<1>4. gcs.seq # NoSequence
      BY DEF StandbyDelayOver, NoSequence
<1> HIDE DEF q
<1>5. /\ Steady(gcs, gcs') /\ gcs'.orders = gcs.orders /\ gcs'.seq = q
      /\ gcs'.handled = gcs.handled
      BY <1>1, <1>2 DEF Station, Steady
<1>6. Steers(gcs'.seq, gcs.orders, gcs.parked, gcs.handled, flights.done)
      BY <1>3, <1>5 DEF Ordered, Orderly, Steers
<1>7. Mild(gcs.seq, gcs'.seq)
      BY <1>3, <1>4, <1>5 DEF Mild
<1>8. Orderly(gcs', gcs'.handled, flights'.done)
      BY <1>2, <1>5, <1>6, <1>7, SeqOrderly DEF Ordered
<1> QED BY <1>2, <1>8, OrderedAfter

(***************************************************************************)
(* Results.                                                                *)
(***************************************************************************)
LEMMA ReportedOne ==
    ASSUME NEW o, NEW D, NEW r, Truthful(o, D, r)
    PROVE  Reported(<<r>>, o, D)
BY DEF Reported

LEMMA ReportedBoth ==
    ASSUME NEW A, NEW s \in Seq(A), NEW t \in Seq(A), NEW o, NEW D,
           Reported(s, o, D), Reported(t, o, D)
    PROVE  Reported(s \o t, o, D)
<1> DEFINE u == s \o t
<1>1. /\ Len(s) \in Nat /\ Len(t) \in Nat /\ Len(u) = Len(s) + Len(t)
      /\ \A i \in 1..(Len(s) + Len(t)) : u[i] = IF i <= Len(s) THEN s[i] ELSE t[i - Len(s)]
      BY ConcatProperties, LenProperties
<1> HIDE DEF u
<1> SUFFICES ASSUME NEW i \in 1..Len(u) PROVE Truthful(o, D, u[i])
    BY DEF Reported, u
<1>2. CASE i <= Len(s)
  <2>1. i \in 1..Len(s) /\ u[i] = s[i]
        BY <1>1, <1>2
  <2> QED BY <2>1 DEF Reported
<1>3. CASE ~(i <= Len(s))
  <2>1. i - Len(s) \in 1..Len(t) /\ u[i] = t[i - Len(s)]
        BY <1>1, <1>3
  <2> QED BY <2>1 DEF Reported
<1> QED BY <1>2, <1>3

LEMMA FinalTruthful ==
    ASSUME NEW t, NEW ok \in BOOLEAN, NEW D,
           ok => t \in D \/ gcs.orders[t].name = "clear_abnormal"
    PROVE  Truthful(gcs.orders, D, Final(t, ok))
BY DEF Truthful, Final, OrderOf

LEMMA ToldOrdered ==
    ASSUME Sound, Ordered, limit' = limit, NEW s \in Seq(Results(Len(gcs.orders))),
           gcs' = [gcs EXCEPT !.results = @ \o s],
           flights.done \subseteq flights'.done, flights'.done \subseteq 1..Len(gcs.orders),
           Reported(s, gcs.orders, flights'.done)
    PROVE  Ordered'
<1> DEFINE n == Len(gcs.orders)
           all == gcs.results \o s
           h == gcs.handled
           D == flights.done
           E == flights'.done
<1>1. n \in Nat /\ gcs \in Station(n) /\ Well(gcs) /\ gcs.results \in Seq(Results(n)) /\ h \in Nat
      BY SoundFacts DEF Well, Station
<1>2. Orderly(gcs, h, E)
  <2>1. Orderly(gcs, h, D) /\ h <= h /\ D \subseteq E /\ E \subseteq 1..Len(gcs.orders)
        BY <1>1 DEF Ordered
  <2> HIDE DEF h, D, E, n
  <2> QED BY <1>1, <2>1, WiderOrderly
<1>3. gcs' = [gcs EXCEPT !.results = all]
      OBVIOUS
<1>4. Reported(all, gcs.orders, E)
  <2>1. Reported(gcs.results, gcs.orders, E)
        BY <1>2 DEF Orderly
  <2> HIDE DEF n, E
  <2>2. s \in Seq(Results(n)) /\ Reported(s, gcs.orders, E)
        BY DEF n, E
  <2> QED BY <1>1, <2>1, <2>2, ReportedBoth
<1> HIDE DEF all, E
<1>5. /\ gcs'.orders = gcs.orders /\ gcs'.seq = gcs.seq /\ gcs'.frames = gcs.frames
      /\ gcs'.parked = gcs.parked /\ gcs'.handled = h /\ gcs'.results = all
      BY <1>1, <1>3 DEF Station
<1>6. Orderly(gcs', gcs'.handled, flights'.done)
      BY <1>2, <1>4, <1>5 DEF Orderly, E
<1> QED BY <1>6, OrderedAfter

\* What is told without the vehicle having succeeded.
LEMMA FailureOrdered ==
    ASSUME Sound, Ordered, limit' = limit, flights' = flights,
           NEW s \in Seq(Results(Len(gcs.orders))), gcs' = [gcs EXCEPT !.results = @ \o s],
           Reported(s, gcs.orders, flights.done)
    PROVE  Ordered'
<1>1. flights.done \subseteq 1..Len(gcs.orders)
      BY SoundParts DEF Flown
<1> QED BY <1>1, ToldOrdered

LEMMA SendRequestOrdered ==
    ASSUME Sound, Ordered, SendRequest
    PROVE  Ordered'
<1> DEFINE n == Len(gcs.orders)
           t == Head(gcs.queue)
           rest == Tail(gcs.queue)
           f == Final(t, FALSE)
           popped == [gcs EXCEPT !.queue = rest]
           all == Append(gcs.results, f)
           D == flights.done
<1>1. n \in Nat /\ gcs \in Station(n)
      BY SoundFacts DEF Well
<1>2. /\ gcs' = popped \/ gcs' = [popped EXCEPT !.results = all]
      /\ limit' = limit /\ flights' = flights
      BY DEF SendRequest, linkVars
<1>3. gcs.results \in Seq(Results(n)) /\ gcs.queue \in Seq(1..n) /\ gcs.queue # <<>>
      BY <1>1 DEF Station, SendRequest
<1>4. t \in 1..n
      BY <1>3, HeadTailProperties
<1>5. f \in Results(n) /\ Truthful(gcs.orders, D, f)
      BY <1>4, FinalType, FinalTruthful
<1>6. Reported(gcs.results, gcs.orders, D)
      BY DEF Ordered, Orderly
<1> HIDE DEF rest, f, t, n
<1>7. Reported(all, gcs.orders, D)
  <2>1. /\ Len(gcs.results) \in Nat /\ Len(all) = Len(gcs.results) + 1
        /\ all[Len(gcs.results) + 1] = f
        /\ \A i \in 1..Len(gcs.results) : all[i] = gcs.results[i]
        BY <1>3, <1>5, AppendProperties, LenProperties
  <2> HIDE DEF all
  <2> SUFFICES ASSUME NEW i \in 1..Len(all) PROVE Truthful(gcs.orders, D, all[i])
      BY DEF Reported
  <2>2. CASE i = Len(gcs.results) + 1
        BY <1>5, <2>1, <2>2
  <2>3. CASE i # Len(gcs.results) + 1
    <3>1. i \in 1..Len(gcs.results) /\ all[i] = gcs.results[i]
          BY <2>1, <2>3
    <3> QED BY <1>6, <3>1 DEF Reported
  <2> QED BY <2>2, <2>3
<1> HIDE DEF all
<1>8. /\ gcs'.orders = gcs.orders /\ gcs'.seq = gcs.seq /\ gcs'.frames = gcs.frames
      /\ gcs'.parked = gcs.parked /\ gcs'.handled = gcs.handled
      /\ gcs'.results = gcs.results \/ gcs'.results = all
      BY <1>1, <1>2 DEF Station
<1>9. Reported(gcs'.results, gcs.orders, D)
      BY <1>6, <1>7, <1>8
<1>10. Orderly(gcs', gcs'.handled, flights'.done)
       BY <1>2, <1>8, <1>9 DEF Ordered, Orderly
<1> QED BY <1>2, <1>10, OrderedAfter

LEMMA RequestTimesOutOrdered ==
    ASSUME Sound, Ordered, RequestTimesOut
    PROVE  Ordered'
<1>1. PICK t \in calls \cup lost : Tell(<<Final(t, FALSE)>>)
      BY DEF RequestTimesOut
<1>2. t \in 1..Len(gcs.orders)
      BY SoundParts
<1> DEFINE s == <<Final(t, FALSE)>>
<1>3. /\ s \in Seq(Results(Len(gcs.orders))) /\ gcs' = [gcs EXCEPT !.results = @ \o s]
      /\ Reported(s, gcs.orders, flights.done)
      BY <1>1, <1>2, FinalType, FinalTruthful, ReportedOne DEF Tell
<1> HIDE DEF s
<1>4. limit' = limit /\ flights' = flights
      BY DEF RequestTimesOut, linkVars
<1> QED BY <1>3, <1>4, FailureOrdered

LEMMA AnnouncedTruthful ==
    ASSUME Sound, NEW t \in 1..Len(gcs.orders), NEW D
    PROVE  Reported(Announced(t), gcs.orders, D)
<1> DEFINE n == Len(gcs.orders)
           f == [Final(t, TRUE) EXCEPT !.final = FALSE]
           g == <<f>>
           k == Cancelled
<1>1. Final(t, TRUE) \in Results(n)
      BY FinalType
<1>2. CASE gcs.orders[t].name = "clear_abnormal"
  <2>1. Announced(t) = <<Final(t, TRUE)>>
        BY <1>2 DEF Announced, OrderOf
  <2> QED BY <1>2, <2>1, FinalTruthful, ReportedOne
<1>3. CASE gcs.orders[t].name # "clear_abnormal"
  <2>1. Announced(t) = k \o g
        BY <1>3 DEF Announced, OrderOf
  <2>2. f \in Results(n) /\ ~f.final /\ f.name = gcs.orders[t].name /\ f.ticket = t
        BY <1>1 DEF Results, Final, OrderOf
  <2> HIDE DEF f
  <2>3. g \in Seq(Results(n)) /\ Reported(g, gcs.orders, D)
    <3> HIDE DEF n
    <3>1. g \in Seq(Results(n))
          BY <2>2
    <3>2. Truthful(gcs.orders, D, f)
          BY <2>2 DEF Truthful
    <3> QED BY <3>1, <3>2, ReportedOne
  <2>4. k \in Seq(Results(n)) /\ Reported(k, gcs.orders, D)
    <3>1. CASE veh.task \in {"takeoff", "waypoints"}
      <4>1. veh.ticket \in 1..n /\ k = <<Final(veh.ticket, FALSE)>>
            BY <3>1, FlightFacts DEF Cancelled
      <4> QED BY <4>1, FinalType, FinalTruthful, ReportedOne
    <3>2. CASE veh.task \notin {"takeoff", "waypoints"}
      <4>1. k = <<>>
            BY <3>2 DEF Cancelled
      <4> HIDE DEF k, n
      <4>2. <<>> \in Seq(Results(n)) /\ Len(<<>>) = 0
            BY EmptySeq
      <4> QED BY <4>1, <4>2 DEF Reported
    <3> QED BY <3>1, <3>2
  <2> HIDE DEF n, k, g
  <2> QED BY <2>1, <2>3, <2>4, ReportedBoth
<1> QED BY <1>2, <1>3

LEMMA VehicleAnswersOrdered ==
    ASSUME Sound, Ordered, NEW t \in calls, VehicleAnswers(t)
    PROVE  Ordered'
<1> DEFINE s == IF Accepts(t) THEN Announced(t) ELSE <<Final(t, FALSE)>>
<1>1. t \in 1..Len(gcs.orders)
      BY SoundParts
<1>2. /\ s \in Seq(Results(Len(gcs.orders))) /\ Reported(s, gcs.orders, flights.done)
  <2>1. CASE Accepts(t)
        BY <1>1, <2>1, AnnouncedType, AnnouncedTruthful
  <2>2. CASE ~Accepts(t)
        BY <1>1, <2>2, FinalType, FinalTruthful, ReportedOne
  <2> QED BY <2>1, <2>2
<1>3. gcs' = [gcs EXCEPT !.results = @ \o s]
      BY DEF VehicleAnswers, Tell
<1> HIDE DEF s
<1>4. limit' = limit /\ flights' = flights
      BY DEF VehicleAnswers, linkVars
<1> QED BY <1>2, <1>3, <1>4, FailureOrdered

LEMMA TaskFailsOrdered ==
    ASSUME Sound, Ordered, TaskFails
    PROVE  Ordered'
<1> DEFINE s == <<Final(veh.ticket, FALSE)>>
<1>1. veh.ticket \in 1..Len(gcs.orders)
      BY FlightFacts DEF TaskFails
<1>2. /\ s \in Seq(Results(Len(gcs.orders))) /\ gcs' = [gcs EXCEPT !.results = @ \o s]
      /\ Reported(s, gcs.orders, flights.done)
      BY <1>1, FinalType, FinalTruthful, ReportedOne DEF TaskFails, Tell
<1> HIDE DEF s
<1>3. limit' = limit /\ flights' = flights
      BY DEF TaskFails, VehicleKeeps, linkVars
<1> QED BY <1>2, <1>3, FailureOrdered

\* The ticket that has just succeeded is told.
LEMMA SuccessOrdered ==
    ASSUME Sound, Ordered, limit' = limit, NEW t \in 1..Len(gcs.orders),
           gcs' = [gcs EXCEPT !.results = @ \o <<Final(t, TRUE)>>],
           flights'.done = flights.done \cup {t}
    PROVE  Ordered'
<1> DEFINE s == <<Final(t, TRUE)>>
<1>1. /\ s \in Seq(Results(Len(gcs.orders)))
      /\ Reported(s, gcs.orders, flights'.done)
  <2>1. Truthful(gcs.orders, flights'.done, Final(t, TRUE))
        BY FinalTruthful
  <2> QED BY <2>1, FinalType, ReportedOne
<1>2. gcs' = [gcs EXCEPT !.results = @ \o s]
      OBVIOUS
<1> HIDE DEF s
<1>3. flights'.done \subseteq 1..Len(gcs.orders) /\ flights.done \subseteq flights'.done
      BY SoundParts DEF Flown
<1> QED BY <1>1, <1>2, <1>3, ToldOrdered

LEMMA LandsOrdered ==
    ASSUME Sound, Ordered, Lands
    PROVE  Ordered'
<1>1. veh.ticket \in 1..Len(gcs.orders)
      BY FlightFacts DEF Lands
<1>2. /\ limit' = limit /\ gcs' = [gcs EXCEPT !.results = @ \o <<Final(veh.ticket, TRUE)>>]
      BY DEF Lands, VehicleKeeps, linkVars, Tell
<1>3. flights'.done = flights.done \cup {veh.ticket}
      BY SoundParts DEF Lands, Flown
<1> QED BY <1>1, <1>2, <1>3, SuccessOrdered

LEMMA ReachesOrdered ==
    ASSUME Sound, Ordered, Reaches
    PROVE  Ordered'
<1> DEFINE last == veh.task = "takeoff" \/ veh.point = Size
<1>1. veh.ticket \in 1..Len(gcs.orders)
      BY FlightFacts DEF Reaches
<1>2. limit' = limit
      BY DEF Reaches, VehicleKeeps, linkVars
<1>3. CASE last
  <2>1. gcs' = [gcs EXCEPT !.results = @ \o <<Final(veh.ticket, TRUE)>>]
        BY <1>3 DEF Reaches, Tell
  <2>2. flights'.done = flights.done \cup {veh.ticket}
        BY <1>3, SoundParts DEF Reaches, Flown
  <2> QED BY <1>1, <1>2, <2>1, <2>2, SuccessOrdered
<1>4. CASE ~last
  <2> DEFINE s == <<>>
             n == Len(gcs.orders)
  <2>1. gcs' = [gcs EXCEPT !.results = @ \o s]
        BY <1>4 DEF Reaches, Tell
  <2>2. flights'.done = flights.done /\ flights.done \subseteq 1..n
        BY <1>4, SoundParts DEF Reaches, Flown
  <2> HIDE DEF n
  <2>3. s \in Seq(Results(n)) /\ Len(s) = 0
        BY EmptySeq
  <2> HIDE DEF s
  <2>4. Reported(s, gcs.orders, flights'.done)
        BY <2>3 DEF Reported
  <2> QED BY <1>2, <2>1, <2>2, <2>3, <2>4, ToldOrdered DEF n
<1> QED BY <1>3, <1>4

LEMMA InitOrdered ==
    ASSUME Init
    PROVE  Ordered
<1>1. /\ gcs.seq = NoSequence /\ gcs.frames = <<>> /\ gcs.handled = 0 /\ gcs.orders = <<>>
      /\ gcs.results = <<>> /\ gcs.parked = {} /\ flights.done = {}
      BY DEF Init
<1>2. Len(<<>>) = 0 /\ 0 \in Nat
      BY EmptySeq
<1>3. limit \in Limits
      BY InitSound DEF Sound, Ground
<1>4. Steers(NoSequence, <<>>, {}, 0, {})
      BY <1>2, <1>3, IdleSteers
<1>5. Lawful(<<>>, {}, 0, {})
      BY <1>2 DEF Lawful
<1>6. Stacked(<<>>, <<>>, {}, NoSequence, 0, {}) /\ Reported(<<>>, <<>>, {})
      BY <1>2 DEF Stacked, Reported
<1> QED BY <1>1, <1>4, <1>5, <1>6 DEF Ordered, Orderly

LEMMA NextOrdered ==
    ASSUME Sound, Ordered, [Next]_vars
    PROVE  Ordered'
<1>1. ASSUME limit' = limit, gcs' = gcs, flights' = flights PROVE Ordered'
      BY <1>1, KeptOrdered DEF Steady
<1>2. CASE LinkStep
  <2>1. gcs' = gcs /\ flights' = flights
        BY <1>2 DEF LinkStep, missionVars
  <2>2. limit' = limit
        BY <1>2 DEF LinkStep, OperatorStep, SupervisorStep, WriterStep, Connect, Disconnect,
                    StartSession, Woken, RunCall, SessionFails, WriterLooks, WriterTakes, WriterSent
  <2> QED BY <1>1, <2>1, <2>2
<1>3. CASE Connected
      BY <1>3, ConnectedOrdered
<1>4. CASE ReceiveCommand
      BY <1>1, <1>4 DEF ReceiveCommand
<1>5. CASE WindowStep
      BY <1>5, RefreshOrdered, HandleCommandOrdered, DialogEndsOrdered, StandbyDelayOverOrdered
      DEF WindowStep
<1>6. CASE RosStep
  <2>1. CASE StatusArrives
        BY <1>1, <2>1 DEF StatusArrives, linkVars
  <2> QED BY <1>6, <2>1, SendRequestOrdered, RequestTimesOutOrdered DEF RosStep
<1>7. CASE VehicleStep \/ FaultStep
  <2>1. CASE Arms \/ EntersLand \/ DisarmedInFlight \/ BecomesAbnormal
        BY <1>1, <2>1
        DEF Arms, EntersLand, DisarmedInFlight, BecomesAbnormal, VehicleKeeps, linkVars
  <2> QED BY <1>7, <2>1, VehicleAnswersOrdered, ReachesOrdered, LandsOrdered, TaskFailsOrdered,
             OperatorLandOrdered DEF VehicleStep, FaultStep
<1>8. CASE MediaStep
  <2>1. CASE \E p \in flights.reached : MediaSettles(p[1])
        BY <1>1, <2>1 DEF MediaSettles, Elsewhere, ReaderVars
  <2> QED BY <1>8, <2>1, MediaOrdered DEF MediaStep
<1>9. CASE UNCHANGED vars
      BY <1>1, <1>9 DEF vars, linkVars, missionVars
<1> QED BY <1>2, <1>3, <1>4, <1>5, <1>6, <1>7, <1>8, <1>9 DEF Next

LEMMA OrderedAlways == Spec => [](Sound /\ Ordered)
<1>1. Init => Sound /\ Ordered
      BY InitSound, InitOrdered
<1>2. (Sound /\ Ordered) /\ [Next]_vars => (Sound /\ Ordered)'
      BY NextSound, NextOrdered
<1> QED BY <1>1, <1>2, PTL DEF Spec

\* What the orders given say.
LEMMA OrderedSays ==
    ASSUME Sound, Ordered
    PROVE  LandPreempts /\ StagesInOrder
<1> DEFINE o == gcs.orders
           D == flights.done
<1>1. /\ DOMAIN o = 1..Len(o) /\ Len(o) \in Nat /\ \A i \in 1..Len(o) : o[i] \in Order
      /\ Lawful(o, gcs.parked, gcs.handled, D)
  <2>1. o \in Seq(Order)
        BY SoundFacts DEF Well, Station
  <2>2. DOMAIN o = 1..Len(o) /\ Len(o) \in Nat
        BY <2>1, LenProperties
  <2> QED BY <2>2, SoundParts DEF Ordered, Orderly
<1>2. LandPreempts
  <2> SUFFICES ASSUME NEW i \in DOMAIN o, NEW j \in DOMAIN o, i < j, Upstream(i), Upstream(j),
                      o[i].name = "land", o[j].name # "land"
               PROVE  o[j].command > o[i].command \/ o[j].command \in gcs.parked
      BY DEF LandPreempts
  <2>1. Behind(o, gcs.parked, i, j)
        BY <1>1 DEF Lawful
  <2>2. o[i].command < o[j].command \/ o[j].command \in gcs.parked
        BY <2>1 DEF Behind, LandsUpstream, Upstream
  <2>3. o[i].command \in Nat /\ o[j].command \in Nat
        BY <1>1 DEF Order, Command, NoCommand
  <2> QED BY <2>2, <2>3
<1>3. StagesInOrder
  <2> DEFINE flown(i, name) == \E j \in D : j < i /\ o[j] = [name |-> name, command |-> o[i].command]
  <2> SUFFICES ASSUME NEW i \in DOMAIN o, Upstream(i), limit.script[o[i].command] = "03"
               PROVE  /\ o[i].name = "waypoints" => flown(i, "takeoff")
                      /\ o[i].name = "land" => flown(i, "waypoints")
      BY DEF StagesInOrder
  <2>1. Earned(o, D, i, o[i].name, o[i].command) /\ Inspects(o[i].command)
        BY <1>1 DEF Lawful, Inspects, Upstream
  <2>2. \A name : Succeeded(o, D, i, name, o[i].command) => flown(i, name)
    <3> TAKE name
    <3> HAVE Succeeded(o, D, i, name, o[i].command)
    <3>1. PICK j \in D : j < i /\ o[j].name = name /\ o[j].command = o[i].command
          BY DEF Succeeded
    <3>2. o[j] \in Order
          BY <1>1 DEF Lawful
    <3>3. o[j] = [name |-> name, command |-> o[i].command]
          BY <3>1, <3>2 DEF Order
    <3> QED BY <3>1, <3>3
  <2> HIDE DEF flown
  <2> QED BY <2>1, <2>2 DEF Earned
<1> QED BY <1>2, <1>3

(***************************************************************************)
(* Theorems.                                                               *)
(***************************************************************************)
\* Every part of the mission stays of its type, for every script and every number of
\* tickets: no ticket, result or event appears that no order has caused, no mission is
\* reported beyond its points, and the telemetry queue never exceeds its limit.
THEOREM MissionTyped == Spec => []TypeOK
<1>1. Sound => TypeOK
      BY SoundTypeOK
<1> QED BY <1>1, SoundAlways, PTL

\* However sessions break, addresses change and events are published meanwhile, for every
\* address what was accepted is what was sent followed by what is still kept.
THEOREM EventsRetained == Spec => []RetainedKept
<1>1. Sound => RetainedKept
      BY SoundRetained
<1> QED BY <1>1, SoundAlways, PTL

\* In every handler, nested in whatever dialogs, a combined action under way keeps standby
\* blocked and unreported.
THEOREM StandbyStaysWithheld == Spec => []StandbyWithheld
<1>1. Sound => StandbyWithheld
      BY SoundRetained
<1> QED BY <1>1, SoundAlways, PTL

\* Once the LAND of an upstream command is ordered, no take-off and no waypoints of the same or
\* an earlier command are ordered after it, in whichever nested dialogs they waited; only a
\* command that had to wait for a countdown itself may.
THEOREM LandsPreempt == Spec => []LandPreempts
<1>1. Sound /\ Ordered => LandPreempts
      BY OrderedSays
<1> QED BY <1>1, OrderedAlways, PTL

\* An inspection orders its waypoints only after its own take-off succeeded, and its landing only
\* after its own waypoints did, whatever results of other tickets arrive meanwhile.
THEOREM StagesFollow == Spec => []StagesInOrder
<1>1. Sound /\ Ordered => StagesInOrder
      BY OrderedSays
<1> QED BY <1>1, OrderedAlways, PTL
=============================================================================
