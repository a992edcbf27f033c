--------------------------- MODULE FlattenLemmas ---------------------------
(***************************************************************************)
(* FlattenSeq of the community modules, which the parser's proofs need: it *)
(* is a recursive function, so that it has a solution and only one is      *)
(* shown place by place.  And the pieces of a sequence, put together.      *)
(***************************************************************************)
EXTENDS SequenceLemmas
LOCAL INSTANCE SequencesExt

\* f is the flattening of the first n sequences of s, place by place.
Flattened(s, f, i) == f[i] = IF i = 1 THEN s[i] ELSE f[i - 1] \o s[i]
Flattens(s, n, f) == \A i \in 1..n : Flattened(s, f, i)

Alike(s, t, n) == \A i \in 1..n : s[i] = t[i]

\* The recursion behind FlattenSeq has one solution.
LEMMA FlattensExists ==
    ASSUME NEW S, NEW s \in Seq(Seq(S)), NEW n \in Nat, n <= Len(s)
    PROVE  \E f \in [1..n -> Seq(S)] : Flattens(s, n, f)
  <1> DEFINE done == {k \in 0..n : \E f \in [1..k -> Seq(S)] : Flattens(s, k, f)}
  <1>1. \A i \in 1..n : s[i] \in Seq(S)
    BY LenProperties
  <1>2. 0 \in done
    <2> DEFINE f == [i \in 1..0 |-> <<>>]
    <2>1. f \in [1..0 -> Seq(S)] /\ Flattens(s, 0, f)
      BY DEF Flattens
    <2> HIDE DEF f
    <2>2. \E h \in [1..0 -> Seq(S)] : Flattens(s, 0, h)
      BY <2>1
    <2>3. 0 \in 0..n
      OBVIOUS
    <2> QED
      BY <2>2, <2>3
  <1>3. ASSUME NEW k \in 1..n, k - 1 \in done PROVE k \in done
    <2>1. PICK g \in [1..k - 1 -> Seq(S)] : Flattens(s, k - 1, g)
      BY <1>3
    <2> DEFINE f == [i \in 1..k |-> IF i = k THEN IF k = 1 THEN s[k] ELSE g[k - 1] \o s[k]
                                            ELSE g[i]]
    <2>2. \A i \in 1..k : i = k \/ i \in 1..k - 1
      OBVIOUS
    <2>3. s[k] \in Seq(S)
      BY <1>1
    <2>4. k /= 1 => k - 1 \in 1..k - 1 /\ g[k - 1] \in Seq(S) /\ g[k - 1] \o s[k] \in Seq(S)
      BY <2>3, ConcatProperties
    <2>5. f \in [1..k -> Seq(S)]
      BY <2>2, <2>3, <2>4
    <2>6. ASSUME NEW i \in 1..k
          PROVE  f[i] = IF i = 1 THEN s[i] ELSE f[i - 1] \o s[i]
      <3>1. CASE i = k
        <4>1. k /= 1 => f[k - 1] = g[k - 1]
          OBVIOUS
        <4> QED
          BY <3>1, <4>1
      <3>2. CASE i \in 1..k - 1
        <4>1. i \in 1..k /\ i /= k /\ (i /= 1 => i - 1 \in 1..k /\ i - 1 /= k)
          BY <3>2
        <4>3. f[i] = g[i] /\ (i /= 1 => f[i - 1] = g[i - 1])
          BY <4>1
        <4>2. g[i] = IF i = 1 THEN s[i] ELSE g[i - 1] \o s[i]
          BY <2>1, <3>2 DEF Flattens, Flattened
        <4> QED
          BY <4>2, <4>3
      <3> QED
        BY <2>2, <3>1, <3>2
    <2> HIDE DEF f
    <2>7. Flattens(s, k, f)
      BY <2>6 DEF Flattens, Flattened
    <2> QED
      BY <2>5, <2>7
  <1>4. 0..n \subseteq done
    <2> HIDE DEF done
    <2> QED
      BY <1>2, <1>3, UpTo
  <1> QED
    BY <1>4

LEMMA FlattensOnce ==
    ASSUME NEW s, NEW t, NEW n \in Nat, NEW f, NEW g,
           Alike(s, t, n), Flattens(s, n, f), Flattens(t, n, g)
    PROVE  Alike(f, g, n)
  <1> DEFINE same == {i \in 0..n : i = 0 \/ f[i] = g[i]}
  <1>1. 0 \in same
    OBVIOUS
  <1>2. ASSUME NEW i \in 1..n, i - 1 \in same PROVE i \in same
    <2>1. /\ f[i] = IF i = 1 THEN s[i] ELSE f[i - 1] \o s[i]
          /\ g[i] = IF i = 1 THEN t[i] ELSE g[i - 1] \o t[i]
      BY DEF Flattens, Flattened
    <2>2. s[i] = t[i]
      BY DEF Alike
    <2>3. i /= 1 => f[i - 1] = g[i - 1]
      BY <1>2
    <2> QED
      BY <2>1, <2>2, <2>3
  <1>3. 0..n \subseteq same
    <2> HIDE DEF same
    <2> QED
      BY <1>1, <1>2, UpTo
  <1> QED
    BY <1>3 DEF Alike

\* FlattenSeq is that solution.
LEMMA FlattenFollows ==
    ASSUME NEW S, NEW s \in Seq(Seq(S)), Len(s) /= 0
    PROVE  \E f \in [1..Len(s) -> Seq(S)] : Flattens(s, Len(s), f) /\ FlattenSeq(s) = f[Len(s)]
  <1>1. Len(s) \in Nat
    BY LenProperties
  <1> DEFINE n == Len(s)
             P(f) == f = [i \in 1..n |-> IF i = 1 THEN s[i] ELSE f[i - 1] \o s[i]]
             flatten == CHOOSE f : P(f)
  <1>2. PICK f \in [1..n -> Seq(S)] : Flattens(s, n, f)
    <2>1. n \in Nat /\ n <= Len(s)
      BY <1>1
    <2> HIDE DEF n
    <2>2. \E f \in [1..n -> Seq(S)] : Flattens(s, n, f)
      BY <2>1, FlattensExists
    <2> QED
      BY <2>2
  <1>3. f = [i \in 1..n |-> IF i = 1 THEN s[i] ELSE f[i - 1] \o s[i]]
    <2>1. \A i \in 1..n : f[i] = IF i = 1 THEN s[i] ELSE f[i - 1] \o s[i]
      BY <1>2 DEF Flattens, Flattened
    <2> QED
      BY <2>1
  <1>4. flatten = [i \in 1..n |-> IF i = 1 THEN s[i] ELSE flatten[i - 1] \o s[i]]
    BY <1>3
  <1>5. FlattenSeq(s) = flatten[n]
    BY DEF FlattenSeq
  <1> HIDE DEF flatten
  <1>6. Flattens(s, n, flatten)
    <2>1. \A i \in 1..n : flatten[i] = IF i = 1 THEN s[i] ELSE flatten[i - 1] \o s[i]
      BY <1>4
    <2> QED
      BY <2>1 DEF Flattens, Flattened
  <1>7. \A i \in 1..n : f[i] = flatten[i]
    <2>1. Alike(s, s, n)
      BY DEF Alike
    <2>2. Alike(f, flatten, n)
      BY <1>1, <1>2, <1>6, <2>1, FlattensOnce
    <2> QED
      BY <2>2 DEF Alike
  <1>8. n \in 1..n
    BY <1>1
  <1>9. FlattenSeq(s) = f[n]
    BY <1>5, <1>7, <1>8
  <1> QED
    BY <1>2, <1>9

\* t begins with the n sequences of s and has one more; f and g flatten them.
OneMore(s, f, n, t, g, m) ==
    n \in Nat /\ n /= 0 /\ m = n + 1 /\ Alike(s, t, n) /\ Flattens(s, n, f) /\ Flattens(t, m, g)

Concatenated(a, b, c) == a = b \o c

LEMMA FlattensOneMore ==
    ASSUME NEW s, NEW f, NEW n, NEW t, NEW g, NEW m, OneMore(s, f, n, t, g, m)
    PROVE  Concatenated(g[m], f[n], t[m])
  <1>0. n \in Nat /\ n /= 0 /\ m = n + 1 /\ Alike(s, t, n) /\ Flattens(s, n, f) /\ Flattens(t, m, g)
    BY DEF OneMore
  <1>1. Flattens(t, n, g)
    <2>1. \A i \in 1..n : i \in 1..m
      BY <1>0
    <2> QED
      BY <1>0, <2>1 DEF Flattens
  <1>2. Alike(f, g, n)
    BY <1>0, <1>1, FlattensOnce
  <1>3. n \in 1..n /\ m \in 1..m /\ m /= 1 /\ m - 1 = n
    BY <1>0
  <1>4. Flattened(t, g, m)
    BY <1>0, <1>3 DEF Flattens
  <1>5. g[m] = g[m - 1] \o t[m]
    BY <1>3, <1>4, Zenon DEF Flattened
  <1>6. f[n] = g[n]
    BY <1>2, <1>3 DEF Alike
  <1> QED
    BY <1>3, <1>5, <1>6, Zenon DEF Concatenated

LEMMA FlattenAppended ==
    ASSUME NEW S, NEW s \in Seq(Seq(S)), NEW x \in Seq(S)
    PROVE  /\ FlattenSeq(s) \in Seq(S)
           /\ FlattenSeq(Append(s, x)) = FlattenSeq(s) \o x
  <1> DEFINE t == Append(s, x)
  <1>0. PICK n \in Nat : n = Len(s)
    BY LenProperties
  <1>6. PICK m \in Nat : m = n + 1
    OBVIOUS
  <1>1. /\ t \in Seq(Seq(S)) /\ Len(t) = m /\ t[m] = x
        /\ \A i \in 1..n : t[i] = s[i]
    BY <1>0, <1>6, AppendProperties, LenProperties
  <1> HIDE DEF t
  <1>2. PICK g \in [1..Len(t) -> Seq(S)] : Flattens(t, Len(t), g) /\ FlattenSeq(t) = g[Len(t)]
    <2>1. Len(t) /= 0
      BY <1>0, <1>6, <1>1
    <2> QED
      BY <1>1, <2>1, FlattenFollows
  <1>3. Flattens(t, m, g) /\ FlattenSeq(t) = g[m]
    BY <1>1, <1>2
  <1>4. CASE n = 0
    <2>1. s = <<>> /\ FlattenSeq(s) = <<>>
      BY <1>0, <1>4, EmptySeq DEF FlattenSeq
    <2>2. FlattenSeq(t) = x
      <3>1. 1 \in 1..m /\ m = 1
        BY <1>6, <1>4
      <3> QED
        BY <1>1, <1>3, <3>1 DEF Flattens, Flattened
    <2>3. <<>> \o x = x /\ <<>> \in Seq(S)
      OBVIOUS
    <2> QED
      BY <2>1, <2>2, <2>3 DEF t
  <1>5. CASE n /= 0
    <2>1. PICK f \in [1..n -> Seq(S)] : Flattens(s, n, f) /\ FlattenSeq(s) = f[n]
      BY <1>0, <1>5, FlattenFollows
    <2>2. Alike(s, t, n)
      BY <1>1 DEF Alike
    <2>3. Concatenated(g[m], f[n], t[m])
      <3>1. OneMore(s, f, n, t, g, m)
        BY <1>0, <1>3, <1>5, <1>6, <2>1, <2>2 DEF OneMore
      <3> QED
        BY <3>1, FlattensOneMore
    <2>4. n \in 1..n
      BY <1>5
    <2>5. FlattenSeq(t) = FlattenSeq(s) \o x
      BY <1>1, <1>3, <2>1, <2>3, Zenon DEF Concatenated
    <2> QED
      BY <2>1, <2>4, <2>5 DEF t
  <1> QED
    BY <1>4, <1>5

\* Two neighbouring pieces of a sequence are one.
LEMMA PiecesJoin ==
    ASSUME NEW S, NEW s \in Seq(S), NEW a \in Nat \ {0}, NEW b \in Nat, NEW c \in Nat,
           a <= b + 1, b <= c, c <= Len(s)
    PROVE  SubSeq(s, a, b) \o SubSeq(s, b + 1, c) = SubSeq(s, a, c)
  <1> DEFINE front == SubSeq(s, a, b)
             back == SubSeq(s, b + 1, c)
             whole == SubSeq(s, a, c)
  <1>1. \A i \in a..c : s[i] \in S
    OBVIOUS
  <1>2. /\ front \in Seq(S) /\ Len(front) = b - a + 1
        /\ \A i \in 1..b - a + 1 : front[i] = s[a + i - 1]
    BY <1>1, SubSeqProperties
  <1>3. /\ back \in Seq(S) /\ Len(back) = c - b
        /\ \A i \in 1..c - b : back[i] = s[b + i]
    <2>1. \A i \in b + 1..c : s[i] \in S
      BY <1>1
    <2>2. /\ back \in Seq(S) /\ Len(back) = IF b + 1 <= c THEN c - (b + 1) + 1 ELSE 0
          /\ \A i \in 1..c - (b + 1) + 1 : back[i] = s[b + 1 + i - 1]
      BY <2>1, SubSeqProperties
    <2> HIDE DEF back
    <2>3. c - (b + 1) + 1 = c - b /\ \A i \in Int : b + 1 + i - 1 = b + i
      OBVIOUS
    <2> QED
      BY <2>2, <2>3
  <1>4. /\ whole \in Seq(S) /\ Len(whole) = c - a + 1
        /\ \A i \in 1..c - a + 1 : whole[i] = s[a + i - 1]
    BY <1>1, SubSeqProperties
  <1> HIDE DEF front, back, whole
  <1>5. /\ front \o back \in Seq(S) /\ Len(front \o back) = c - a + 1
        /\ \A i \in 1..c - a + 1 : (front \o back)[i] =
                IF i <= b - a + 1 THEN front[i] ELSE back[i - (b - a + 1)]
    <2>1. Len(front) + Len(back) = c - a + 1
      BY <1>2, <1>3
    <2> QED
      BY <1>2, <1>3, <2>1, ConcatProperties
  <1>6. ASSUME NEW i \in 1..c - a + 1 PROVE (front \o back)[i] = whole[i]
    <2>1. CASE i <= b - a + 1
      <3>1. i \in 1..b - a + 1
        BY <2>1
      <3>2. front[i] = s[a + i - 1] /\ whole[i] = s[a + i - 1]
        BY <1>2, <1>4, <3>1
      <3> QED
        BY <1>5, <2>1, <3>2
    <2>2. CASE i > b - a + 1
      <3>1. i - (b - a + 1) \in 1..c - b /\ b + (i - (b - a + 1)) = a + i - 1 /\ ~(i <= b - a + 1)
        BY <2>2
      <3>2. back[i - (b - a + 1)] = s[a + i - 1] /\ whole[i] = s[a + i - 1]
        BY <1>3, <1>4, <3>1
      <3> QED
        BY <1>5, <3>1, <3>2
    <2>3. i <= b - a + 1 \/ i > b - a + 1
      OBVIOUS
    <2> QED
      BY <2>1, <2>2, <2>3
  <1>7. front \o back = whole
    BY <1>4, <1>5, <1>6, SeqEqual
  <1> QED
    BY <1>7 DEF front, back, whole

\* Two sequences that agree on a stretch have the same piece there.
LEMMA SamePiece ==
    ASSUME NEW S, NEW s \in Seq(S), NEW t \in Seq(S), NEW a \in Nat \ {0}, NEW b \in Nat,
           b <= Len(s), b <= Len(t), \A i \in a..b : s[i] = t[i]
    PROVE  SubSeq(s, a, b) = SubSeq(t, a, b)
  <1> DEFINE n == IF a <= b THEN b - a + 1 ELSE 0
             p == SubSeq(s, a, b)
             q == SubSeq(t, a, b)
  <1>1. \A i \in a..b : s[i] \in S /\ t[i] \in S
    BY LenProperties
  <1>2. /\ p \in Seq(S) /\ Len(p) = n
        /\ \A i \in 1..b - a + 1 : p[i] = s[a + i - 1]
    BY <1>1, SubSeqProperties
  <1>3. /\ q \in Seq(S) /\ Len(q) = n
        /\ \A i \in 1..b - a + 1 : q[i] = t[a + i - 1]
    BY <1>1, SubSeqProperties
  <1> HIDE DEF p, q
  <1>4. ASSUME NEW i \in 1..n PROVE p[i] = q[i]
    <2>1. i \in 1..b - a + 1 /\ a + i - 1 \in a..b
      OBVIOUS
    <2> QED
      BY <1>2, <1>3, <2>1
  <1>5. p = q
    <2>1. Len(p) = Len(q) /\ \A i \in 1..Len(p) : p[i] = q[i]
      BY <1>2, <1>3, <1>4
    <2> QED
      BY <1>2, <1>3, <2>1, SeqEqual
  <1> QED
    BY <1>5 DEF p, q

\* A piece of one place.
LEMMA OnePlace ==
    ASSUME NEW S, NEW s \in Seq(S), NEW a \in 1..Len(s)
    PROVE  SubSeq(s, a, a) = <<s[a]>>
  <1> DEFINE p == SubSeq(s, a, a)
             q == <<s[a]>>
  <1>1. a \in Int /\ s[a] \in S /\ \A i \in a..a : s[i] \in S
    BY LenProperties
  <1>2. p \in Seq(S) /\ Len(p) = 1 /\ p[1] = s[a]
    <2>1. /\ p \in Seq(S) /\ Len(p) = IF a <= a THEN a - a + 1 ELSE 0
          /\ \A i \in 1..a - a + 1 : p[i] = s[a + i - 1]
      BY <1>1, SubSeqProperties
    <2> HIDE DEF p
    <2>2. a - a + 1 = 1 /\ a + 1 - 1 = a /\ a <= a
      BY <1>1
    <2> QED
      BY <2>1, <2>2
  <1>3. q \in Seq(S) /\ Len(q) = 1 /\ q[1] = s[a]
    BY <1>1
  <1> HIDE DEF p, q
  <1>4. p = q
    <2>1. Len(p) = Len(q) /\ \A i \in 1..Len(p) : p[i] = q[i]
      BY <1>2, <1>3
    <2> QED
      BY <1>2, <1>3, <2>1, SeqEqual
  <1> QED
    BY <1>4 DEF p, q
=============================================================================
