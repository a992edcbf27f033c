--------------------------- MODULE SequenceLemmas ---------------------------
(***************************************************************************)
(* Facts about numbers and sequences that the proofs about the containers  *)
(* share.  Induction is stated for a set of numbers and not for a          *)
(* predicate, for no prover used here can instantiate an operator.         *)
(***************************************************************************)
EXTENDS Integers, Sequences, FiniteSets, SequenceTheorems, FiniteSetTheorems,
        FunctionTheorems, WellFoundedInduction, TLAPS

\* A set of natural numbers that is not empty has a least element.
LEMMA LeastNumber ==
    ASSUME NEW T, T \subseteq Nat, T /= {}
    PROVE  \E x \in T : \A y \in T : x <= y
  <1> DEFINE Less == OpToRel(<, Nat)
  <1>1. IsWellFoundedOn(Less, Nat)
    BY NatLessThanWellFounded, Zenon
  <1>2. \A x, y \in Nat : x < y => <<x, y>> \in Less
    BY DEF OpToRel
  <1> HIDE DEF Less
  <1>3. \E x \in T : \A y \in T : ~ (<<y, x>> \in Less)
    BY <1>1, WFMin, Zenon
  <1>4. PICK x \in T : \A y \in T : ~ (<<y, x>> \in Less)
    BY <1>3, Zenon
  <1>5. ASSUME NEW y \in T PROVE x <= y
    <2>1. x \in Nat /\ y \in Nat
      OBVIOUS
    <2>2. ~(y < x)
      BY <1>2, <1>4, <2>1, Zenon
    <2> QED
      BY <2>1, <2>2
  <1> QED
    BY <1>5

\* Induction up to a bound.
LEMMA UpTo ==
    ASSUME NEW n \in Nat, NEW S, 0 \in S, \A i \in 1..n : i - 1 \in S => i \in S
    PROVE  0..n \subseteq S
  <1> DEFINE left == (0..n) \ S
  <1> SUFFICES ASSUME left /= {} PROVE FALSE
    OBVIOUS
  <1>1. PICK i \in left : \A j \in left : i <= j
    <2>1. left \subseteq Nat
      OBVIOUS
    <2> HIDE DEF left
    <2> QED
      BY <2>1, LeastNumber
  <1>2. i \in 1..n /\ i - 1 \in 0..n /\ ~(i <= i - 1)
    OBVIOUS
  <1>3. i - 1 \in S
    BY <1>1, <1>2
  <1> QED
    BY <1>2, <1>3

\* A function on 1..n is a sequence of length n.
LEMMA FunctionIsSeq ==
    ASSUME NEW S, NEW n \in Nat, NEW f \in [1..n -> S]
    PROVE  /\ f \in Seq(S) /\ Len(f) = n /\ DOMAIN f = 1..n
  OBVIOUS

\* A sequence that repeats nothing is no longer than the set it draws from, is
\* shorter when it leaves one out, and has as many elements as it is long.
LEMMA DistinctFits ==
    ASSUME NEW S, IsFiniteSet(S), NEW s \in Seq(S),
           \A i, j \in DOMAIN s : s[i] = s[j] => i = j
    PROVE  LET range == {s[i] : i \in DOMAIN s} IN
           /\ Cardinality(S) \in Nat
           /\ Len(s) <= Cardinality(S)
           /\ range /= S => Len(s) < Cardinality(S)
           /\ Cardinality(range) = Len(s)
  <1> DEFINE range == {s[i] : i \in DOMAIN s}
  <1>1. /\ Len(s) \in Nat /\ DOMAIN s = 1..Len(s)
        /\ s \in [1..Len(s) -> S] /\ s \in [1..Len(s) -> range]
    OBVIOUS
  <1>2. IsFiniteSet(1..Len(s)) /\ Cardinality(1..Len(s)) = Len(s)
    <2>1. ASSUME NEW n \in Nat PROVE IsFiniteSet(1..n) /\ Cardinality(1..n) = n
      BY FS_Interval
    <2> QED
      BY <1>1, <2>1
  <1>3. s \in Injection(1..Len(s), S) /\ s \in Bijection(1..Len(s), range)
    BY <1>1 DEF Injection, Surjection, Bijection, IsInjective
  <1>4. Cardinality(S) \in Nat
    BY FS_CardinalityType
  <1>5. Len(s) <= Cardinality(S)
    BY <1>2, <1>3, FS_Injection
  <1>6. Cardinality(range) = Len(s)
    BY <1>2, <1>3, FS_Bijection DEF ExistsBijection
  <1>7. range \subseteq S
    BY <1>1
  <1>8. Cardinality(range) = Cardinality(S) => S = range
    BY <1>7, FS_Subset
  <1>9. range /= S => Len(s) < Cardinality(S)
    <2> HIDE DEF range
    <2> QED
      BY <1>1, <1>4, <1>5, <1>6, <1>8
  <1> QED
    BY <1>4, <1>5, <1>6, <1>9

-----------------------------------------------------------------------------
(* One element more, one element less.                                     *)

ElementsOf(s) == {s[i] : i \in 1..Len(s)}
Repeatless(s) == \A i, j \in 1..Len(s) : s[i] = s[j] => i = j

\* A sequence with an element more, at place k + 1.
Inserted(s, n, k, t) ==
    /\ Len(t) = Len(s) + 1
    /\ \A i \in 1..k : t[i] = s[i]
    /\ t[k + 1] = n
    /\ \A i \in k + 1..Len(s) : t[i + 1] = s[i]

\* A sequence without its element at k.
Removed(s, k, t) ==
    /\ Len(t) = Len(s) - 1
    /\ \A i \in 1..k - 1 : t[i] = s[i]
    /\ \A i \in k..Len(s) - 1 : t[i] = s[i + 1]

LEMMA SplitsAround ==
    ASSUME NEW S, NEW s \in Seq(S), NEW n \in S, NEW k \in 0..Len(s)
    PROVE  LET t == SubSeq(s, 1, k) \o <<n>> \o SubSeq(s, k + 1, Len(s)) IN
           t \in Seq(S) /\ Inserted(s, n, k, t)
  <1> DEFINE front == SubSeq(s, 1, k)
             rest == SubSeq(s, k + 1, Len(s))
             most == front \o <<n>>
             t == most \o rest
  <1>1. Len(s) \in Nat /\ k \in Nat /\ k <= Len(s) /\ \A i \in 1..Len(s) : s[i] \in S
    OBVIOUS
  <1>2. /\ front \in Seq(S) /\ Len(front) = k
        /\ \A i \in 1..k : front[i] = s[i]
    BY <1>1, SubSeqProperties
  <1>3. /\ rest \in Seq(S) /\ Len(rest) = Len(s) - k
        /\ \A i \in 1..Len(s) - k : rest[i] = s[k + i]
    BY <1>1, SubSeqProperties
  <1>4. <<n>> \in Seq(S) /\ Len(<<n>>) = 1 /\ <<n>>[1] = n
    OBVIOUS
  <1> HIDE DEF front, rest
  <1>5. /\ most \in Seq(S) /\ Len(most) = k + 1
        /\ \A i \in 1..k : most[i] = front[i]
        /\ most[k + 1] = n
    <2>1. /\ most \in Seq(S) /\ Len(most) = k + 1
          /\ \A i \in 1..k + 1 : most[i] = IF i <= k THEN front[i] ELSE <<n>>[i - k]
      BY <1>2, <1>4, ConcatProperties
    <2> HIDE DEF most
    <2>2. ~(k + 1 <= k) /\ k + 1 - k = 1 /\ k + 1 \in 1..k + 1
      BY <1>1
    <2>3. most[k + 1] = n
      BY <1>4, <2>1, <2>2
    <2> QED
      BY <1>1, <2>1, <2>3
  <1> HIDE DEF most
  <1>6. /\ t \in Seq(S) /\ Len(t) = Len(s) + 1
        /\ \A i \in 1..Len(s) + 1 : t[i] = IF i <= k + 1 THEN most[i] ELSE rest[i - (k + 1)]
    <2>1. /\ t \in Seq(S) /\ Len(t) = (k + 1) + (Len(s) - k)
          /\ \A i \in 1..(k + 1) + (Len(s) - k) :
                t[i] = IF i <= k + 1 THEN most[i] ELSE rest[i - (k + 1)]
      <3>1. /\ most \o rest \in Seq(S) /\ Len(most \o rest) = Len(most) + Len(rest)
            /\ \A i \in 1..Len(most) + Len(rest) :
                  (most \o rest)[i] = IF i <= Len(most) THEN most[i] ELSE rest[i - Len(most)]
        BY <1>3, <1>5, ConcatProperties
      <3> QED
        BY <1>3, <1>5, <3>1
    <2>2. (k + 1) + (Len(s) - k) = Len(s) + 1
      BY <1>1
    <2> QED
      BY <2>1, <2>2
  <1> HIDE DEF t
  <1>7. \A i \in 1..k : t[i] = s[i]
    BY <1>1, <1>2, <1>5, <1>6
  <1>8. t[k + 1] = n
    BY <1>1, <1>5, <1>6
  <1>9. ASSUME NEW i \in k + 1..Len(s) PROVE t[i + 1] = s[i]
    <2>1. /\ i + 1 \in 1..Len(s) + 1 /\ ~(i + 1 <= k + 1)
          /\ i + 1 - (k + 1) \in 1..Len(s) - k /\ k + (i + 1 - (k + 1)) = i
      BY <1>1
    <2>2. t[i + 1] = rest[i + 1 - (k + 1)]
      BY <1>6, <2>1
    <2>3. rest[i + 1 - (k + 1)] = s[k + (i + 1 - (k + 1))]
      BY <1>3, <2>1
    <2> QED
      BY <2>1, <2>2, <2>3
  <1> QED
    BY <1>6, <1>7, <1>8, <1>9 DEF Inserted, t, most, front, rest

LEMMA SplitsWithout ==
    ASSUME NEW S, NEW s \in Seq(S), NEW k \in 1..Len(s)
    PROVE  LET t == SubSeq(s, 1, k - 1) \o SubSeq(s, k + 1, Len(s)) IN
           t \in Seq(S) /\ Removed(s, k, t)
  <1> DEFINE front == SubSeq(s, 1, k - 1)
             rest == SubSeq(s, k + 1, Len(s))
             t == front \o rest
  <1>1. Len(s) \in Nat /\ k \in Nat \ {0} /\ k <= Len(s) /\ \A i \in 1..Len(s) : s[i] \in S
    OBVIOUS
  <1>2. /\ front \in Seq(S) /\ Len(front) = k - 1
        /\ \A i \in 1..k - 1 : front[i] = s[i]
    BY <1>1, SubSeqProperties
  <1>3. /\ rest \in Seq(S) /\ Len(rest) = Len(s) - k
        /\ \A i \in 1..Len(s) - k : rest[i] = s[k + i]
    BY <1>1, SubSeqProperties
  <1> HIDE DEF front, rest
  <1>4. /\ t \in Seq(S) /\ Len(t) = Len(s) - 1
        /\ \A i \in 1..Len(s) - 1 : t[i] = IF i <= k - 1 THEN front[i] ELSE rest[i - (k - 1)]
    <2>1. /\ t \in Seq(S) /\ Len(t) = (k - 1) + (Len(s) - k)
          /\ \A i \in 1..(k - 1) + (Len(s) - k) :
                t[i] = IF i <= k - 1 THEN front[i] ELSE rest[i - (k - 1)]
      <3>1. /\ front \o rest \in Seq(S) /\ Len(front \o rest) = Len(front) + Len(rest)
            /\ \A i \in 1..Len(front) + Len(rest) :
                  (front \o rest)[i] = IF i <= Len(front) THEN front[i] ELSE rest[i - Len(front)]
        BY <1>2, <1>3, ConcatProperties
      <3> QED
        BY <1>2, <1>3, <3>1
    <2>2. (k - 1) + (Len(s) - k) = Len(s) - 1
      BY <1>1
    <2> QED
      BY <2>1, <2>2
  <1> HIDE DEF t
  <1>5. \A i \in 1..k - 1 : t[i] = s[i]
    BY <1>1, <1>2, <1>4
  <1>6. ASSUME NEW i \in k..Len(s) - 1 PROVE t[i] = s[i + 1]
    <2>1. /\ i \in 1..Len(s) - 1 /\ ~(i <= k - 1)
          /\ i - (k - 1) \in 1..Len(s) - k /\ k + (i - (k - 1)) = i + 1
      BY <1>1
    <2> QED
      BY <1>3, <1>4, <2>1
  <1> QED
    BY <1>4, <1>5, <1>6 DEF Removed, t, front, rest

\* Nothing is repeated, and the elements are those and one more, or all but one.
LEMMA InsertedOnce ==
    ASSUME NEW S, NEW s \in Seq(S), NEW n, NEW k \in 0..Len(s), NEW t \in Seq(S),
           Inserted(s, n, k, t), Repeatless(s), n \notin ElementsOf(s)
    PROVE  Repeatless(t) /\ ElementsOf(t) = ElementsOf(s) \cup {n}
  <1>0. /\ \A i, j \in 1..Len(s) : s[i] = s[j] => i = j
        /\ \A i \in 1..Len(s) : s[i] /= n
    BY DEF Repeatless, ElementsOf
  <1>1. Len(s) \in Nat /\ k \in Nat /\ k <= Len(s) /\ Len(t) = Len(s) + 1
    BY DEF Inserted
  <1>2. ASSUME NEW i \in 1..Len(t)
        PROVE  \/ i \in 1..k /\ i \in 1..Len(s) /\ t[i] = s[i]
               \/ i = k + 1 /\ t[i] = n
               \/ i - 1 \in k + 1..Len(s) /\ i - 1 \in 1..Len(s) /\ t[i] = s[i - 1]
    <2>1. CASE i <= k
      BY <1>1, <2>1 DEF Inserted
    <2>2. CASE i = k + 1
      BY <2>2 DEF Inserted
    <2>3. CASE i > k + 1
      <3>1. i - 1 \in k + 1..Len(s) /\ i - 1 \in 1..Len(s) /\ i - 1 + 1 = i
        BY <1>1, <2>3
      <3>2. t[i - 1 + 1] = s[i - 1]
        BY <3>1 DEF Inserted
      <3> QED
        BY <3>1, <3>2
    <2> QED
      BY <1>1, <2>1, <2>2, <2>3
  <1>3. ASSUME NEW i \in 1..Len(t), NEW j \in 1..Len(t), t[i] = t[j] PROVE i = j
    <2>1. i \in Int /\ j \in Int
      BY <1>1
    <2>2. CASE t[i] = n
      BY <1>0, <1>2, <1>3, <2>1, <2>2
    <2>3. CASE t[i] /= n
      <3>1. \/ i \in 1..k /\ i \in 1..Len(s) /\ t[i] = s[i]
            \/ i - 1 \in k + 1..Len(s) /\ i - 1 \in 1..Len(s) /\ t[i] = s[i - 1]
        BY <1>2, <2>3
      <3>2. \/ j \in 1..k /\ j \in 1..Len(s) /\ t[j] = s[j]
            \/ j - 1 \in k + 1..Len(s) /\ j - 1 \in 1..Len(s) /\ t[j] = s[j - 1]
        BY <1>2, <1>3, <2>3
      <3> QED
        BY <1>0, <1>1, <1>3, <2>1, <3>1, <3>2
    <2> QED
      BY <2>2, <2>3
  <1>4. ASSUME NEW i \in 1..Len(s) PROVE \E j \in 1..Len(t) : t[j] = s[i]
    <2>1. CASE i <= k
      BY <1>1, <2>1 DEF Inserted
    <2>2. CASE i > k
      <3>1. i \in k + 1..Len(s) /\ i + 1 \in 1..Len(t)
        BY <1>1, <2>2
      <3>2. t[i + 1] = s[i]
        BY <3>1 DEF Inserted
      <3> QED
        BY <3>1, <3>2
    <2> QED
      BY <1>1, <2>1, <2>2
  <1>5. k + 1 \in 1..Len(t) /\ t[k + 1] = n
    BY <1>1 DEF Inserted
  <1>6. {t[i] : i \in 1..Len(t)} = {s[i] : i \in 1..Len(s)} \cup {n}
    <2>1. {t[i] : i \in 1..Len(t)} \subseteq {s[i] : i \in 1..Len(s)} \cup {n}
      BY <1>2
    <2>2. \A i \in 1..Len(s) : s[i] \in {t[j] : j \in 1..Len(t)}
      BY <1>4
    <2>3. n \in {t[i] : i \in 1..Len(t)}
      BY <1>5
    <2> QED
      BY <2>1, <2>2, <2>3
  <1> QED
    BY <1>3, <1>6 DEF Repeatless, ElementsOf

LEMMA RemovedOnce ==
    ASSUME NEW S, NEW s \in Seq(S), NEW k \in 1..Len(s), NEW t \in Seq(S),
           Removed(s, k, t), Repeatless(s)
    PROVE  Repeatless(t) /\ ElementsOf(t) = ElementsOf(s) \ {s[k]}
  <1>0. \A i, j \in 1..Len(s) : s[i] = s[j] => i = j
    BY DEF Repeatless
  <1>1. Len(s) \in Nat \ {0} /\ k \in Nat \ {0} /\ k <= Len(s) /\ Len(t) = Len(s) - 1
    BY DEF Removed
  <1>2. ASSUME NEW i \in 1..Len(t)
        PROVE  \/ i \in 1..k - 1 /\ i \in 1..Len(s) /\ t[i] = s[i]
               \/ i + 1 \in k + 1..Len(s) /\ i + 1 \in 1..Len(s) /\ t[i] = s[i + 1]
    <2>1. i \in 1..k - 1 \/ i \in k..Len(s) - 1
      BY <1>1
    <2> QED
      BY <1>1, <2>1 DEF Removed
  <1>3. ASSUME NEW i \in 1..Len(t), NEW j \in 1..Len(t), t[i] = t[j] PROVE i = j
    <2>1. i \in Int /\ j \in Int
      BY <1>1
    <2> QED
      BY <1>0, <1>1, <1>2, <1>3, <2>1
  <1>4. ASSUME NEW i \in 1..Len(s), i /= k PROVE \E j \in 1..Len(t) : t[j] = s[i]
    <2>1. CASE i < k
      BY <1>1, <2>1 DEF Removed
    <2>2. CASE i > k
      <3>1. i - 1 \in k..Len(s) - 1 /\ i - 1 \in 1..Len(t) /\ i - 1 + 1 = i
        BY <1>1, <2>2
      <3>2. t[i - 1] = s[i - 1 + 1]
        BY <3>1 DEF Removed
      <3> QED
        BY <3>1, <3>2
    <2> QED
      BY <1>1, <1>4, <2>1, <2>2
  <1>5. \A i \in 1..Len(t) : t[i] /= s[k]
    BY <1>0, <1>1, <1>2
  <1>6. {t[i] : i \in 1..Len(t)} = {s[i] : i \in 1..Len(s)} \ {s[k]}
    <2>1. {t[i] : i \in 1..Len(t)} \subseteq {s[i] : i \in 1..Len(s)} \ {s[k]}
      BY <1>2, <1>5
    <2>2. ASSUME NEW e \in {s[i] : i \in 1..Len(s)} \ {s[k]}
          PROVE  e \in {t[j] : j \in 1..Len(t)}
      <3>1. PICK i \in 1..Len(s) : e = s[i] /\ i /= k
        OBVIOUS
      <3> QED
        BY <1>4, <3>1
    <2> QED
      BY <2>1, <2>2
  <1> QED
    BY <1>3, <1>6 DEF Repeatless, ElementsOf
=============================================================================
