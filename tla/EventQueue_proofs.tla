-------------------------- MODULE EventQueue_proofs --------------------------
(***************************************************************************)
(* Facts about the operations of the event queue, for every Frac, and      *)
(* those about sequences, finite sets and numbers that the proofs about    *)
(* the two daemons share.                                                  *)
(***************************************************************************)
EXTENDS EventQueue, FiniteSetTheorems, SequenceTheorems, WellFoundedInduction, TLAPS

\* Ranks are numbers: the last rank at a time is 0 or the rank of an event.
LEMMA LastRankNat ==
  ASSUME NEW q, NEW t, \A e \in q : e.rank \in Nat
  PROVE  LastRank(q, t) \in Nat
<1> DEFINE ranks == {e.rank : e \in {f \in q : f.at = t}}
           IsLast(r) == \A s \in ranks : s <= r
<1>1. ranks \subseteq Nat
  OBVIOUS
<1>2. CASE \E r \in ranks : IsLast(r)
  <2>1. (CHOOSE r \in ranks : IsLast(r)) \in ranks
    BY <1>2
  <2>2. LastRank(q, t) = CHOOSE r \in ranks : IsLast(r)
    BY <1>2 DEF LastRank
  <2> QED
    BY <1>1, <2>1, <2>2
<1>3. CASE ~ \E r \in ranks : IsLast(r)
  BY <1>3 DEF LastRank
<1> QED
  BY <1>2, <1>3

\* Adding an event changes its rank and nothing else.
LEMMA EnqueueMembers ==
  ASSUME NEW q, NEW S, NEW e \in Enqueue(q, S)
  PROVE  e \in q \/ \E f \in S : e = Ranked(f, LastRank(q, f.at) + f.rank)
BY DEF Enqueue

\* What is in the queue stays in the queue when events are added.
LEMMA EnqueueKeeps ==
  ASSUME NEW q, NEW S
  PROVE  q \subseteq Enqueue(q, S)
BY DEF Enqueue

\* Times computed from times are times.
LEMMA TimesInt ==
  ASSUME NEW t \in Int, NEW s \in Int
  PROVE  Sec(t) \in Int /\ At(t, s) \in Int
<1>1. Frac \in Nat \ {0}
  BY FracAssumption
<1>2. Sec(t) \in Int
  BY <1>1 DEF Sec
<1>3. (s - Sec(t)) * Frac \in Int
  BY <1>1, <1>2
<1> QED
  BY <1>2, <1>3 DEF At

\* An aligned execution is at a time that is a number too.
LEMMA AlignInt ==
  ASSUME NEW t \in Int, NEW ival \in Nat \ {0}
  PROVE  Align(t, ival) \in Int
<1> DEFINE p == ival * Frac
<1>1. p \in Nat \ {0}
  BY FracAssumption, SMTT(30)
<1>2. t \div p \in Int
  BY <1>1
<1>3. (t \div p + 1) * ival \in Int
  BY <1>2
<1>4. (t \div p + 1) * ival * Frac \in Int
  BY <1>3, FracAssumption
<1> QED
  BY <1>4 DEF Align

-----------------------------------------------------------------------------
(***************************************************************************)
(* Sequences.                                                              *)
(***************************************************************************)

\* A function on an initial segment of the numbers is a sequence.
LEMMA FunctionIsSeq ==
  ASSUME NEW n \in Nat, NEW T, NEW f \in [1 .. n -> T]
  PROVE  f \in Seq(T) /\ Len(f) = n /\ DOMAIN f = 1 .. n
<1>1. f \in Seq(T)
  BY SeqDef
<1>2. DOMAIN f = 1 .. n /\ DOMAIN f = 1 .. Len(f) /\ Len(f) \in Nat
  BY <1>1, LenProperties
<1> QED
  BY <1>1, <1>2

\* Appending keeps the numbers of the elements.
LEMMA Appended ==
  ASSUME NEW T, NEW s \in Seq(T), NEW t \in Seq(T)
  PROVE  /\ s \o t \in Seq(T)
         /\ DOMAIN s \subseteq DOMAIN (s \o t)
         /\ \A k \in DOMAIN t : Len(s) + k \in DOMAIN (s \o t)
         /\ \A i \in DOMAIN s : (s \o t)[i] = s[i]
         /\ \A k \in DOMAIN t : (s \o t)[Len(s) + k] = t[k]
         /\ \A i \in DOMAIN (s \o t) :
              i \notin DOMAIN s => \E k \in DOMAIN t : i = Len(s) + k
<1>1. /\ s \o t \in Seq(T)
      /\ Len(s \o t) = Len(s) + Len(t)
      /\ \A i \in 1 .. Len(s) + Len(t) :
            (s \o t)[i] = IF i <= Len(s) THEN s[i] ELSE t[i - Len(s)]
  BY ConcatProperties
<1>2. Len(s) \in Nat /\ Len(t) \in Nat
  BY LenProperties
<1>3. /\ DOMAIN s = 1 .. Len(s) /\ DOMAIN t = 1 .. Len(t)
      /\ DOMAIN (s \o t) = 1 .. Len(s) + Len(t)
  BY <1>1, LenProperties
<1>4. \A i \in DOMAIN s : (s \o t)[i] = s[i]
  BY <1>1, <1>2, <1>3
<1>5. ASSUME NEW k \in DOMAIN t
      PROVE  Len(s) + k \in DOMAIN (s \o t) /\ (s \o t)[Len(s) + k] = t[k]
  <2>1. k \in Nat /\ k >= 1 /\ k <= Len(t)
    BY <1>2, <1>3
  <2>2. Len(s) + k \in 1 .. Len(s) + Len(t) /\ ~(Len(s) + k <= Len(s))
        /\ (Len(s) + k) - Len(s) = k
    BY <1>2, <2>1
  <2> QED
    BY <1>1, <1>3, <2>2
<1>6. ASSUME NEW i \in DOMAIN (s \o t), i \notin DOMAIN s
      PROVE  \E k \in DOMAIN t : i = Len(s) + k
  <2>1. i - Len(s) \in DOMAIN t /\ i = Len(s) + (i - Len(s))
    BY <1>2, <1>3, <1>6
  <2> QED
    BY <2>1
<1> QED
  BY <1>1, <1>2, <1>3, <1>4, <1>5, <1>6

\* A function on the numbers of a sequence is a sequence of the same length.
LEMMA Mapped ==
  ASSUME NEW T, NEW s \in Seq(T), NEW U, NEW f \in [DOMAIN s -> U]
  PROVE  f \in Seq(U) /\ DOMAIN f = DOMAIN s
<1>1. DOMAIN s = 1 .. Len(s) /\ Len(s) \in Nat
  BY LenProperties
<1> QED
  BY <1>1, FunctionIsSeq

\* Appending changes no element and puts the new ones at the new numbers.
LEMMA AppendedValues ==
  ASSUME NEW T, NEW s \in Seq(T), NEW t \in Seq(T), NEW u, u = s \o t
  PROVE  /\ DOMAIN s \subseteq DOMAIN u
         /\ \A k \in DOMAIN t : Len(s) + k \in DOMAIN u
         /\ \A k \in DOMAIN t : u[Len(s) + k] = t[k]
         /\ \A i \in DOMAIN s : u[i] = s[i]
<1>1. DOMAIN s \subseteq DOMAIN u
  BY Appended
<1>2. \A k \in DOMAIN t : Len(s) + k \in DOMAIN u
  BY Appended
<1>3. \A k \in DOMAIN t : u[Len(s) + k] = t[k]
  <2> SUFFICES ASSUME NEW k \in DOMAIN t PROVE u[Len(s) + k] = t[k]
    OBVIOUS
  <2>1. (s \o t)[Len(s) + k] = t[k]
    BY Appended, SMTT(30)
  <2> QED
    BY <2>1
<1>4. \A i \in DOMAIN s : u[i] = s[i]
  <2> SUFFICES ASSUME NEW i \in DOMAIN s PROVE u[i] = s[i]
    OBVIOUS
  <2>1. (s \o t)[i] = s[i]
    BY Appended
  <2> QED
    BY <2>1
<1> QED
  BY <1>1, <1>2, <1>3, <1>4

-----------------------------------------------------------------------------
(***************************************************************************)
(* Numbers and finite sets.                                                *)
(***************************************************************************)

\* A set of numbers that is not empty has a least one.
LEMMA Least ==
  ASSUME NEW T \in SUBSET Nat, T # {}
  PROVE  \E n \in T : \A m \in T : n <= m
<1> DEFINE R == OpToRel(<, Nat)
<1>1. \E n \in T : \A m \in T : <<m, n>> \notin R
  <2>1. IsWellFoundedOn(R, Nat)
    BY NatLessThanWellFounded
  <2> HIDE DEF R
  <2> QED
    BY <2>1, WFMin
<1>2. \A m, n \in Nat : <<m, n>> \in R <=> m < n
  BY DEF OpToRel
<1> HIDE DEF R
<1>3. PICK n \in T : \A m \in T : <<m, n>> \notin R
  BY <1>1
<1>4. ASSUME NEW m \in T PROVE n <= m
  <2>1. ~(m < n)
    BY <1>2, <1>3
  <2> QED
    BY <2>1
<1> QED
  BY <1>4

\* The values of a function on a finite set are finitely many.
LEMMA FiniteImage ==
  ASSUME NEW S, IsFiniteSet(S), NEW f, DOMAIN f = S, f = [x \in S |-> f[x]]
  PROVE  IsFiniteSet({f[x] : x \in S})
<1> DEFINE T == {f[x] : x \in S}
<1>1. f \in Surjection(S, T)
  BY DEF Surjection
<1> QED
  BY <1>1, FS_Surjection

\* A finite set of numbers that is not empty has a greatest one: one that has the
\* fewest above it.
LEMMA Greatest ==
  ASSUME NEW S \in SUBSET Nat, S # {}, IsFiniteSet(S)
  PROVE  \E n \in S : \A m \in S : m <= n
<1> DEFINE Above(n) == {m \in S : n < m}
           T == {Cardinality(Above(n)) : n \in S}
<1>1. \A n \in S : IsFiniteSet(Above(n)) /\ Cardinality(Above(n)) \in Nat
  BY FS_Subset, FS_CardinalityType
<1>2. PICK n \in S : \A m \in S : Cardinality(Above(n)) <= Cardinality(Above(m))
  <2>1. T \in SUBSET Nat /\ T # {}
    BY <1>1
  <2>2. PICK c \in T : \A d \in T : c <= d
    BY <2>1, Least
  <2> QED
    BY <2>2
<1>3. ASSUME NEW m \in S, n < m PROVE FALSE
  <2>1. Above(m) \subseteq Above(n) /\ m \in Above(n) /\ m \notin Above(m)
    <3>1. \A k \in S : m < k => n < k
      BY <1>3
    <3>2. m \in Nat /\ ~(m < m)
      OBVIOUS
    <3> QED
      BY <1>3, <3>1, <3>2
  <2>2. Cardinality(Above(m)) <= Cardinality(Above(n))
    BY <2>1, <1>1, FS_Subset
  <2>3. Cardinality(Above(m)) # Cardinality(Above(n))
    BY <2>1, <1>1, FS_Subset
  <2>4. Cardinality(Above(n)) <= Cardinality(Above(m))
    BY <1>2
  <2> QED
    BY <1>1, <2>2, <2>3, <2>4
<1> QED
  BY <1>3

\* A sequence has finitely many positions.
LEMMA FinitePositions ==
  ASSUME NEW T, NEW s \in Seq(T)
  PROVE  IsFiniteSet(DOMAIN s)
<1>1. DOMAIN s = 1 .. Len(s) /\ Len(s) \in Int
  BY LenProperties
<1>2. IsFiniteSet(1 .. Len(s))
  BY <1>1, FS_Interval
<1> QED
  BY <1>1, <1>2

-----------------------------------------------------------------------------
(***************************************************************************)
(* Ticks and seconds.                                                      *)
(***************************************************************************)

\* A second is the last one that has begun.
LEMMA DivBounds ==
  ASSUME NEW t \in Int, NEW f \in Nat \ {0}
  PROVE  /\ t \div f \in Int
         /\ (t \div f) * f <= t
         /\ t < (t \div f) * f + f
OBVIOUS

\* It is the only number with that property.
LEMMA DivUnique ==
  ASSUME NEW t \in Int, NEW f \in Nat \ {0}, NEW q \in Int, q * f <= t, t < q * f + f
  PROVE  t \div f = q
<1> DEFINE p == t \div f
<1>1. p \in Int /\ p * f <= t /\ t < p * f + f
  BY DivBounds
<1> HIDE DEF p
<1>2. p * f \in Int /\ q * f \in Int
  BY <1>1
<1>3. p * f < q * f + f /\ q * f < p * f + f
  BY <1>1, <1>2
<1>4. p <= q
  BY <1>1, <1>3
<1>5. q <= p
  BY <1>1, <1>3
<1> QED
  BY <1>1, <1>4, <1>5 DEF p

\* Seconds do not go back.
LEMMA SecMonotone ==
  ASSUME NEW t \in Int, NEW u \in Int, t <= u
  PROVE  Sec(t) <= Sec(u)
<1>1. Frac \in Nat \ {0}
  BY FracAssumption
<1>2. /\ Sec(t) \in Int /\ Sec(t) * Frac <= t
      /\ Sec(u) \in Int /\ u < Sec(u) * Frac + Frac
  BY <1>1, DivBounds DEF Sec
<1>3. Sec(t) * Frac \in Int /\ Sec(u) * Frac \in Int
  BY <1>1, <1>2
<1>4. Sec(t) * Frac < Sec(u) * Frac + Frac
  BY <1>1, <1>2, <1>3
<1> QED
  BY <1>1, <1>2, <1>4

\* A whole number of seconds later, the second is that much later.
LEMMA SecLater ==
  ASSUME NEW t \in Int, NEW k \in Int
  PROVE  t + k * Frac \in Int /\ Sec(t + k * Frac) = Sec(t) + k
<1>1. Frac \in Nat \ {0}
  BY FracAssumption
<1>2. Sec(t) \in Int /\ Sec(t) * Frac <= t /\ t < Sec(t) * Frac + Frac
  BY <1>1, DivBounds DEF Sec
<1>3. k * Frac \in Int /\ Sec(t) * Frac \in Int
  BY <1>1, <1>2
<1>4. (Sec(t) + k) * Frac = Sec(t) * Frac + k * Frac
  BY <1>1, <1>2
<1> DEFINE u == t + k * Frac
           q == Sec(t) + k
<1>5. u \in Int /\ q \in Int /\ q * Frac <= u /\ u < q * Frac + Frac
  BY <1>1, <1>2, <1>3, <1>4
<1> HIDE DEF u, q
<1>6. u \div Frac = q
  BY <1>1, <1>5, DivUnique
<1> QED
  BY <1>5, <1>6 DEF Sec, u, q

\* An event made at tick t for second s expires in that second.
LEMMA SecOfAt ==
  ASSUME NEW t \in Int, NEW s \in Int
  PROVE  At(t, s) \in Int /\ Sec(At(t, s)) = s
<1>1. Sec(t) \in Int
  BY TimesInt
<1> DEFINE k == s - Sec(t)
<1>2. k \in Int /\ At(t, s) = t + k * Frac
  BY <1>1 DEF At
<1>3. Sec(t) + k = s
  BY <1>1
<1> HIDE DEF k
<1>4. t + k * Frac \in Int /\ Sec(t + k * Frac) = Sec(t) + k
  BY <1>2, SecLater
<1> QED
  BY <1>2, <1>3, <1>4

\* It is due at once when that second has begun, and later when it has not.
LEMMA AtDue ==
  ASSUME NEW t \in Int, NEW s \in Int
  PROVE  /\ s <= Sec(t) => At(t, s) <= t
         /\ s > Sec(t) => At(t, s) > t
<1> DEFINE n == Sec(t)
           d == (s - n) * Frac
<1>1. Frac \in Nat \ {0} /\ n \in Int
  BY FracAssumption, TimesInt
<1>2. At(t, s) = t + d
  BY DEF At
<1> HIDE DEF n
<1>3. d \in Int
  BY <1>1
<1>4. CASE s <= n
  <2>1. n - s \in Nat
    BY <1>1, <1>4
  <2>2. (n - s) * Frac >= 0
    BY <1>1, <2>1
  <2>3. (n - s) * Frac = - d
    BY <1>1
  <2> HIDE DEF d
  <2>4. d <= 0
    BY <1>3, <2>2, <2>3
  <2> QED
    BY <1>1, <1>2, <1>3, <1>4, <2>4 DEF n
<1>5. CASE s > n
  <2>1. s - n \in Nat \ {0}
    BY <1>1, <1>5
  <2>2. d > 0
    BY <1>1, <2>1
  <2> HIDE DEF d
  <2> QED
    BY <1>1, <1>2, <1>3, <1>5, <2>2 DEF n
<1> QED
  BY <1>1, <1>4, <1>5 DEF n

\* Of two seconds, the later one gives the later event.
LEMMA AtOrder ==
  ASSUME NEW t \in Int, NEW s \in Int, NEW r \in Int, s < r
  PROVE  At(t, s) < At(t, r)
<1>1. At(t, s) \in Int /\ At(t, r) \in Int
  BY TimesInt
<1>2. Sec(At(t, s)) = s /\ Sec(At(t, r)) = r
  BY SecOfAt
<1>3. ~(At(t, r) <= At(t, s))
  BY <1>1, <1>2, SecMonotone
<1> QED
  BY <1>1, <1>3

\* Alignment moves an event forward.
LEMMA AlignForward ==
  ASSUME NEW t \in Int, NEW ival \in Nat \ {0}
  PROVE  t <= Align(t, ival)
<1> DEFINE p == ival * Frac
<1>1. ival \in Nat \ {0} /\ Frac \in Nat \ {0}
  BY FracAssumption
<1>2. p \in Nat \ {0}
  BY <1>1, SMTT(30)
<1> DEFINE q == t \div p
<1>3. q \in Int /\ t < q * p + p
  <2> HIDE DEF p
  <2> QED
    BY <1>2, DivBounds
<1> HIDE DEF q
<1>4. (q + 1) * ival * Frac = q * p + p
  BY <1>1, <1>3, SMTT(30)
<1>5. Align(t, ival) = (q + 1) * ival * Frac
  BY DEF Align, q
<1>6. q * p \in Int
  BY <1>2, <1>3
<1> QED
  BY <1>2, <1>3, <1>4, <1>5, <1>6
=============================================================================
