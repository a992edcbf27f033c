-------------------------- MODULE LinkedListProofs --------------------------
(***************************************************************************)
(* Proofs about the linked list and its concurrent form, for any number of *)
(* nodes and of threads.                                                   *)
(***************************************************************************)
EXTENDS ConcurrentLinkedList, SequenceLemmas

USE ListAssumption, ThreadAssumption

Pointers == Nodes \cup {Null}

-----------------------------------------------------------------------------
(* Walking along the links.                                                *)

\* A walk of any length exists: Walk is defined by recursion, and CHOOSE finds
\* what there is.
LEMMA WalkExists ==
    ASSUME NEW link \in [Nodes -> Pointers], NEW from \in Pointers, NEW n \in Nat
    PROVE  \E w \in [0..n -> Pointers] :
              w[0] = from /\ \A i \in 1..n : w[i] = Through(link, w[i - 1])
  <1> DEFINE IsWalk(w, k) == w[0] = from /\ \A i \in 1..k : w[i] = Through(link, w[i - 1])
             S == {k \in 0..n : \E w \in [0..k -> Pointers] : IsWalk(w, k)}
  <1>1. 0 \in S
    <2> DEFINE start == [i \in 0..0 |-> from]
    <2>1. start \in [0..0 -> Pointers] /\ start[0] = from /\ 1..0 = {}
      OBVIOUS
    <2> HIDE DEF start
    <2>2. \E w \in [0..0 -> Pointers] : IsWalk(w, 0)
      BY <2>1
    <2> QED
      BY <2>2
  <1>2. ASSUME NEW k \in 1..n, k - 1 \in S PROVE k \in S
    <2>1. PICK w \in [0..k - 1 -> Pointers] : IsWalk(w, k - 1)
      BY <1>2
    <2> DEFINE longer == [i \in 0..k |-> IF i = k THEN Through(link, w[k - 1]) ELSE w[i]]
    <2>2. Through(link, w[k - 1]) \in Pointers
      BY DEF Through, Pointers
    <2>3. longer \in [0..k -> Pointers]
      BY <2>2
    <2>4. longer[0] = from
      BY <2>1
    <2>5. ASSUME NEW i \in 1..k PROVE longer[i] = Through(link, longer[i - 1])
      <3>1. i \in 0..k /\ i - 1 \in 0..k /\ i - 1 /= k /\ (i /= k => i \in 1..k - 1)
        OBVIOUS
      <3>2. longer[i - 1] = w[i - 1]
        BY <3>1
      <3>3. longer[i] = IF i = k THEN Through(link, w[k - 1]) ELSE w[i]
        BY <3>1
      <3>4. i /= k => w[i] = Through(link, w[i - 1])
        BY <2>1, <3>1
      <3> QED
        BY <3>2, <3>3, <3>4
    <2> HIDE DEF longer
    <2>6. \E v \in [0..k -> Pointers] : IsWalk(v, k)
      BY <2>3, <2>4, <2>5
    <2> HIDE DEF IsWalk
    <2> QED
      BY <2>6
  <1>3. 0..n \subseteq S
    <2> HIDE DEF S
    <2> QED
      BY <1>1, <1>2, UpTo
  <1> QED
    BY <1>3

LEMMA WalkGoesOn ==
    ASSUME NEW link \in [Nodes -> Pointers], NEW from \in Pointers
    PROVE  /\ Cardinality(Nodes) \in Nat
           /\ Walk(link, from)[0] = from
           /\ \A i \in 0..Cardinality(Nodes) : Walk(link, from)[i] \in Pointers
           /\ \A i \in 1..Cardinality(Nodes) :
                 Walk(link, from)[i] = Through(link, Walk(link, from)[i - 1])
  <1> DEFINE n == Cardinality(Nodes)
             walk == Walk(link, from)
  <1>1. n \in Nat
    BY FS_CardinalityType
  <1> HIDE DEF n
  <1>2. PICK w \in [0..n -> Pointers] :
            w[0] = from /\ \A i \in 1..n : w[i] = Through(link, w[i - 1])
    BY <1>1, WalkExists
  <1> USE DEF n
  <1>3. w = [i \in 0..n |-> IF i = 0 THEN from ELSE Through(link, w[i - 1])]
    <2>1. ASSUME NEW i \in 0..n
          PROVE  w[i] = IF i = 0 THEN from ELSE Through(link, w[i - 1])
      <3>1. i = 0 \/ i \in 1..n
        BY <1>1
      <3>2. i \in 1..n => i /= 0
        BY <1>1
      <3> QED
        BY <1>2, <3>1, <3>2
    <2> QED
      BY <1>2, <2>1
  <1>4. walk = [i \in 0..n |-> IF i = 0 THEN from ELSE Through(link, walk[i - 1])]
    BY <1>3 DEF Walk
  <1> HIDE DEF walk
  <1>5. walk[0] = from /\ \A i \in 1..n : walk[i] = Through(link, walk[i - 1])
    BY <1>1, <1>4
  <1> DEFINE agreed == {i \in 0..n : walk[i] = w[i]}
  <1>6. 0 \in agreed /\ \A i \in 1..n : i - 1 \in agreed => i \in agreed
    BY <1>1, <1>2, <1>5
  <1>7. 0..n \subseteq agreed
    <2> HIDE DEF agreed
    <2> QED
      BY <1>1, <1>6, UpTo
  <1>8. \A i \in 0..n : walk[i] \in Pointers
    BY <1>2, <1>7
  <1> QED
    BY <1>1, <1>5, <1>8 DEF walk

-----------------------------------------------------------------------------
(* The inductive invariant.                                                *)

\* No node is on the line twice.
Distinct == Repeatless(chain)

\* The nodes of a list are those of its line, skewed or not.
Owned == allocated => live = ElementsOf(chain) /\ length = Len(chain)

\* A list that was freed leaves nothing, or what a skewed list had lost.
NothingLeft == ~allocated => chain = <<>> /\ (~skewed => live = {})

\* Both directions of the links spell the line, until AddAt adds inside.
LinkedBothWays ==
    allocated /\ ~skewed =>
        /\ length = 0 => head = Null /\ tail = Null
        /\ length /= 0 => /\ head = chain[1] /\ prev[chain[1]] = Null
                          /\ tail = chain[length] /\ next[chain[length]] = Null
        /\ \A i \in 1..length - 1 : next[chain[i]] = chain[i + 1] /\ prev[chain[i + 1]] = chain[i]

IInv == ListTypeOK /\ Distinct /\ Owned /\ NothingLeft /\ LinkedBothWays

LEMMA Types ==
    ASSUME IInv
    PROVE  /\ allocated \in BOOLEAN /\ skewed \in BOOLEAN /\ ok \in BOOLEAN /\ fault \in Faults
           /\ head \in Pointers /\ tail \in Pointers /\ cursor \in Pointers
           /\ next \in [Nodes -> Pointers] /\ prev \in [Nodes -> Pointers]
           /\ live \subseteq Nodes /\ out \in Nodes \cup {NoNode}
           /\ chain \in Seq(Nodes) /\ Len(chain) \in Nat /\ DOMAIN chain = 1..Len(chain)
           /\ \A i \in 1..Len(chain) : chain[i] \in Nodes
           /\ Cardinality(Nodes) \in Nat /\ length \in 0..Cardinality(Nodes)
  <1>1. Cardinality(Nodes) \in Nat
    BY FS_CardinalityType
  <1> QED
    BY <1>1 DEF IInv, ListTypeOK, Pointers

\* Nodes on the line of a list, and room for one more.
LEMMA LineOfNodes ==
    ASSUME IInv, allocated
    PROVE  /\ length = Len(chain) /\ length \in Nat
           /\ \A i \in 1..length : chain[i] \in live /\ chain[i] \in Nodes
           /\ \A n \in live : n \in Nodes /\ \E i \in 1..length : n = chain[i]
           /\ \A i, j \in 1..length : chain[i] = chain[j] => i = j
           /\ \A n \in Nodes \ live : length < Cardinality(Nodes) /\ \A i \in 1..length : chain[i] /= n
  <1>1. length = Len(chain) /\ live = {chain[i] : i \in 1..Len(chain)} /\ live \subseteq Nodes
    BY Types DEF IInv, Owned, ElementsOf
  <1>2. \A i, j \in DOMAIN chain : chain[i] = chain[j] => i = j
    BY Types DEF IInv, Distinct, Repeatless
  <1>3. {chain[i] : i \in DOMAIN chain} /= Nodes => Len(chain) < Cardinality(Nodes)
    BY <1>2, Types, DistinctFits
  <1>4. ASSUME NEW n \in Nodes \ live PROVE length < Cardinality(Nodes)
    BY <1>1, <1>3, Types
  <1> QED
    BY <1>1, <1>2, <1>4, Types

-----------------------------------------------------------------------------
(* Adding and removing nodes, whatever becomes of the links.               *)

LEMMA AddingOwns ==
    ASSUME IInv, allocated, allocated', NEW n \in Nodes \ live, NEW k \in 0..length,
           Add(n), chain' \in Seq(Nodes), Inserted(chain, n, k, chain')
    PROVE  /\ Distinct' /\ Owned' /\ NothingLeft' /\ ~skewed
           /\ length' \in 0..Cardinality(Nodes) /\ length' = Len(chain') /\ length' = length + 1
           /\ live' \subseteq Nodes /\ ok' = TRUE /\ cursor' = cursor /\ out' = out
  <1>1. /\ live' = live \cup {n} /\ length' = length + 1 /\ ~skewed
        /\ ok' = TRUE /\ cursor' = cursor /\ out' = out
    BY DEF Add
  <1>2. length = Len(chain) /\ length \in Nat /\ length < Cardinality(Nodes)
        /\ live = ElementsOf(chain)
    BY LineOfNodes DEF IInv, Owned
  <1>3. Repeatless(chain') /\ ElementsOf(chain') = ElementsOf(chain) \cup {n}
    <2>1. /\ chain \in Seq(Nodes) /\ n \in Nodes /\ k \in 0..Len(chain)
          /\ n \notin ElementsOf(chain) /\ Repeatless(chain)
      BY <1>2, Types DEF IInv, Distinct
    <2> QED
      BY <2>1, InsertedOnce
  <1>4. Len(chain') = Len(chain) + 1
    BY DEF Inserted
  <1>5. /\ live' \subseteq Nodes /\ length' \in 0..Cardinality(Nodes)
        /\ length' = Len(chain')
    BY <1>1, <1>2, <1>4, Types
  <1>6. Distinct' /\ Owned' /\ NothingLeft'
    BY <1>1, <1>2, <1>3, <1>5 DEF Distinct, Owned, NothingLeft
  <1> QED
    BY <1>1, <1>5, <1>6

LEMMA RemovingOwns ==
    ASSUME IInv, allocated, allocated', NEW n \in live, NEW newNext, NEW newPrev,
           Unlink(n, newNext, newPrev)
    PROVE  /\ Distinct' /\ Owned' /\ NothingLeft'
           /\ length' \in 0..Cardinality(Nodes) /\ length' = length - 1 /\ length /= 0
           /\ live' \subseteq Nodes /\ ok' = TRUE /\ cursor' = cursor /\ skewed' = skewed
           /\ chain' \in Seq(Nodes) /\ Len(chain') = length'
           /\ \E k \in 1..length : /\ n = chain[k] /\ Removed(chain, k, chain')
                                   /\ chain' = SubSeq(chain, 1, k - 1) \o SubSeq(chain, k + 1, Len(chain))
  <1>1. /\ live' = live \ {n} /\ length' = length - 1 /\ chain' = Without(n)
        /\ ok' = TRUE /\ cursor' = cursor /\ skewed' = skewed
    BY DEF Unlink
  <1>2. PICK k \in 1..length : n = chain[k]
    BY LineOfNodes
  <1>3. length = Len(chain) /\ length \in Nat /\ live = ElementsOf(chain)
    BY LineOfNodes DEF IInv, Owned
  <1>4. Place(n) = k
    BY <1>2, <1>3, LineOfNodes, Types DEF Place
  <1>5. chain' = SubSeq(chain, 1, k - 1) \o SubSeq(chain, k + 1, Len(chain))
    BY <1>1, <1>4 DEF Without
  <1>6. chain' \in Seq(Nodes) /\ Removed(chain, k, chain')
    BY <1>3, <1>5, Types, SplitsWithout
  <1>7. Repeatless(chain') /\ ElementsOf(chain') = ElementsOf(chain) \ {n}
    <2>1. chain \in Seq(Nodes) /\ k \in 1..Len(chain) /\ Repeatless(chain)
      BY <1>3, Types DEF IInv, Distinct
    <2> QED
      BY <1>2, <1>6, <2>1, RemovedOnce
  <1>8. Len(chain') = Len(chain) - 1
    BY <1>6 DEF Removed
  <1>9. length' \in 0..Cardinality(Nodes) /\ length /= 0 /\ Len(chain') = length'
        /\ live' \subseteq Nodes
    BY <1>1, <1>2, <1>3, <1>8, Types
  <1>10. Distinct' /\ Owned' /\ NothingLeft'
    BY <1>1, <1>3, <1>7, <1>9 DEF Distinct, Owned, NothingLeft
  <1> QED
    BY <1>1, <1>2, <1>5, <1>6, <1>9, <1>10

-----------------------------------------------------------------------------
(* Adding.                                                                 *)

\* A call that follows an invalid pointer changes nothing but fault.
Faulting == /\ Usable
            /\ fault' \in {"null", "freed"}
            /\ UNCHANGED <<ends, links, cursor, ok, out, chain, skewed>>

LEMMA FaultingKeeps ==
    ASSUME IInv, Faulting
    PROVE  IInv'
  BY DEF Faulting, ends, links, Faults, IInv, ListTypeOK, Distinct, Owned, NothingLeft, LinkedBothWays

LEMMA AddStartKeeps ==
    ASSUME IInv, LinkedList_AddStart
    PROVE  IInv'
  <1>1. CASE Faulting
    BY <1>1, FaultingKeeps
  <1>2. ASSUME NEW n \in Nodes \ live,
               Usable, head \in live, Add(n), UNCHANGED <<allocated, fault, skewed>>,
               next' = [next EXCEPT ![n] = head],
               prev' = [prev EXCEPT ![n] = Null, ![head] = n],
               head' = n, tail' = IF length = 0 THEN n ELSE tail,
               chain' = <<n>> \o chain
        PROVE  IInv'
    <2>1. /\ chain' \in Seq(Nodes) /\ Inserted(chain, n, 0, chain')
          /\ 0 \in 0..length
      <3>1. SubSeq(chain, 1, 0) = <<>> /\ SubSeq(chain, 1, Len(chain)) = chain
        BY Types, SubSeqEmpty, SubSeqFull
      <3>2. <<>> \o <<n>> = <<n>>
        OBVIOUS
      <3> DEFINE t == SubSeq(chain, 1, 0) \o <<n>> \o SubSeq(chain, 0 + 1, Len(chain))
      <3>3. t \in Seq(Nodes) /\ Inserted(chain, n, 0, t)
        BY Types, SplitsAround
      <3>4. t = chain'
        BY <1>2, <3>1, <3>2
      <3> HIDE DEF t
      <3>5. 0 \in 0..length
        BY Types
      <3> QED
        BY <3>3, <3>4, <3>5
    <2>2. /\ Distinct' /\ Owned' /\ NothingLeft' /\ ~skewed
          /\ length' \in 0..Cardinality(Nodes) /\ length' = Len(chain') /\ length' = length + 1
          /\ live' \subseteq Nodes /\ ok' = TRUE /\ cursor' = cursor /\ out' = out
      BY <1>2, <2>1, AddingOwns DEF Usable
    <2>3. ListTypeOK'
      BY <1>2, <2>1, <2>2, Types DEF ListTypeOK, Pointers
    <2>4. /\ length \in Nat \ {0} /\ length = Len(chain) /\ 1 \in 1..length
          /\ head = chain[1] /\ head \in Nodes /\ head /= n
          /\ tail = chain[length] /\ next[chain[length]] = Null
      BY <1>2, <2>2, LineOfNodes, Types DEF Usable, IInv, LinkedBothWays
    <2>5. chain'[1] = n /\ \A i \in 1..length : chain'[i + 1] = chain[i]
      BY <2>1, <2>4 DEF Inserted
    <2>6. ASSUME NEW m \in Nodes, m /= n
          PROVE  next'[m] = next[m] /\ (m /= head => prev'[m] = prev[m])
      BY <1>2, <2>6, Types
    <2>7. next'[n] = head /\ prev'[n] = Null /\ prev'[head] = n
      BY <1>2, <2>4, Types
    <2>8. ASSUME NEW i \in 1..length
          PROVE  next'[chain'[i]] = chain'[i + 1] /\ prev'[chain'[i + 1]] = chain'[i]
      <3>1. CASE i = 1
        BY <2>4, <2>5, <2>7, <3>1
      <3>2. CASE i /= 1
        <4>1. /\ i - 1 \in 1..length - 1 /\ i - 1 \in 1..length /\ i - 1 + 1 = i
          BY <2>4, <3>2
        <4>2. next[chain[i - 1]] = chain[i] /\ prev[chain[i]] = chain[i - 1]
          BY <1>2, <2>2, <4>1 DEF Usable, IInv, LinkedBothWays
        <4>3. /\ chain[i - 1] \in Nodes /\ chain[i - 1] /= n
              /\ chain[i] \in Nodes /\ chain[i] /= n /\ chain[i] /= head
          BY <1>2, <2>4, <3>2, <4>1, LineOfNodes DEF Usable
        <4>4. chain'[i] = chain[i - 1] /\ chain'[i + 1] = chain[i]
          BY <2>5, <4>1
        <4> QED
          BY <2>6, <4>2, <4>3, <4>4
      <3> QED
        BY <3>1, <3>2
    <2>9. chain'[length + 1] = tail /\ next'[tail] = Null /\ tail \in Nodes
      <3>1. length \in 1..length /\ tail \in Nodes /\ tail /= n
        BY <1>2, <2>4, LineOfNodes DEF Usable
      <3> QED
        BY <2>4, <2>5, <2>6, <3>1
    <2>10. LinkedBothWays'
      <3>1. length' /= 0 /\ length' - 1 = length
        BY <2>2, <2>4
      <3> QED
        BY <1>2, <2>2, <2>4, <2>5, <2>7, <2>8, <2>9, <3>1 DEF LinkedBothWays
    <2> QED
      BY <2>2, <2>3, <2>10 DEF IInv
  <1> QED
    BY <1>1, <1>2 DEF LinkedList_AddStart, Call, Faulting

LEMMA AddEndKeeps ==
    ASSUME IInv, LinkedList_AddEnd
    PROVE  IInv'
  <1>1. CASE Faulting
    BY <1>1, FaultingKeeps
  <1>2. ASSUME NEW n \in Nodes \ live,
               Usable, length /= 0 => tail \in live, Add(n), UNCHANGED <<allocated, fault, skewed>>,
               prev' = LinkToTail(n),
               length = 0 => head' = n /\ next' = [next EXCEPT ![n] = Null],
               length /= 0 => next' = [next EXCEPT ![n] = Null, ![tail] = n] /\ head' = head,
               tail' = n, chain' = Append(chain, n)
        PROVE  IInv'
    <2>1. /\ chain' \in Seq(Nodes) /\ Len(chain') = Len(chain) + 1
          /\ \A i \in 1..Len(chain) : chain'[i] = chain[i]
          /\ chain'[Len(chain) + 1] = n
      BY <1>2, Types, AppendProperties
    <2>2. length \in Nat /\ length = Len(chain)
      BY <1>2, LineOfNodes DEF Usable
    <2>3. length \in 0..length /\ Inserted(chain, n, length, chain')
      BY <2>1, <2>2 DEF Inserted
    <2>4. /\ Distinct' /\ Owned' /\ NothingLeft' /\ ~skewed
          /\ length' \in 0..Cardinality(Nodes) /\ length' = Len(chain') /\ length' = length + 1
          /\ live' \subseteq Nodes /\ ok' = TRUE /\ cursor' = cursor /\ out' = out
      BY <1>2, <2>1, <2>3, AddingOwns DEF Usable
    <2>5. ListTypeOK'
      <3>1. prev' \in [Nodes -> Pointers] /\ next' \in [Nodes -> Pointers] /\ head' \in Pointers
        BY <1>2, Types, SMTT(20) DEF LinkToTail, Pointers
      <3> QED
        BY <1>2, <2>1, <2>4, <3>1, Types DEF ListTypeOK, Pointers
    <2>6. chain'[length + 1] = n /\ \A i \in 1..length : chain'[i] = chain[i]
      BY <2>1, <2>2
    <2>7. next'[n] = Null /\ prev'[n] = tail
      BY <1>2, Types DEF LinkToTail
    <2>8. CASE length = 0
      <3>1. length' = 1 /\ 1..length' - 1 = {} /\ chain'[1] = n
        BY <2>4, <2>6, <2>8
      <3>2. tail = Null
        BY <1>2, <2>4, <2>8 DEF Usable, IInv, LinkedBothWays
      <3>3. LinkedBothWays'
        BY <1>2, <2>7, <2>8, <3>1, <3>2 DEF LinkedBothWays
      <3> QED
        BY <2>4, <2>5, <3>3 DEF IInv
    <2>9. CASE length /= 0
      <3>1. /\ 1 \in 1..length /\ length \in 1..length /\ head = chain[1] /\ prev[chain[1]] = Null
            /\ tail = chain[length] /\ tail \in Nodes /\ tail /= n
        BY <1>2, <2>2, <2>4, <2>9, LineOfNodes DEF Usable, IInv, LinkedBothWays
      <3>2. next'[tail] = n
        BY <1>2, <2>9, <3>1, Types
      <3>3. ASSUME NEW m \in Nodes, m /= n
            PROVE  prev'[m] = prev[m] /\ (m /= tail => next'[m] = next[m])
        BY <1>2, <2>9, <3>3, Types DEF LinkToTail
      <3>4. ASSUME NEW i \in 1..length
            PROVE  next'[chain'[i]] = chain'[i + 1] /\ prev'[chain'[i + 1]] = chain'[i]
        <4>1. CASE i = length
          BY <2>6, <2>7, <3>1, <3>2, <4>1
        <4>2. CASE i /= length
          <5>1. i \in 1..length - 1 /\ i + 1 \in 1..length /\ length \in 1..length
            BY <2>2, <4>2
          <5>2. next[chain[i]] = chain[i + 1] /\ prev[chain[i + 1]] = chain[i]
            BY <1>2, <2>4, <5>1 DEF Usable, IInv, LinkedBothWays
          <5>3. /\ chain[i] \in Nodes /\ chain[i] /= n /\ chain[i] /= tail
                /\ chain[i + 1] \in Nodes /\ chain[i + 1] /= n
            BY <1>2, <3>1, <4>2, <5>1, LineOfNodes DEF Usable
          <5>4. chain'[i] = chain[i] /\ chain'[i + 1] = chain[i + 1]
            BY <2>6, <5>1
          <5> QED
            BY <3>3, <5>2, <5>3, <5>4
        <4> QED
          BY <4>1, <4>2
      <3>5. chain'[1] = head /\ head' = head /\ prev'[head] = Null
        <4>1. head \in Nodes /\ head /= n
          BY <1>2, <3>1, LineOfNodes DEF Usable
        <4> QED
          BY <1>2, <2>6, <2>9, <3>1, <3>3, <4>1
      <3>6. length' /= 0 /\ length' - 1 = length
        BY <2>2, <2>4
      <3>7. LinkedBothWays'
        BY <1>2, <2>4, <2>6, <2>7, <3>4, <3>5, <3>6 DEF LinkedBothWays
      <3> QED
        BY <2>4, <2>5, <3>7 DEF IInv
    <2> QED
      BY <2>8, <2>9
  <1> QED
    BY <1>1, <1>2 DEF LinkedList_AddEnd, Call, Faulting

LEMMA AddInsideKeeps ==
    ASSUME IInv, NEW idx \in Indices, AddInside(idx)
    PROVE  IInv'
  <1> DEFINE before == Walk(next, head)[idx]
  <1>1. CASE Faulting
    BY <1>1, FaultingKeeps
  <1>2. ASSUME NEW n \in Nodes \ live,
               Usable, Passed(next, head, idx + 1) \subseteq live, Add(n), UNCHANGED <<allocated, fault>>,
               prev' = [prev EXCEPT ![n] = before],
               next' = [next EXCEPT ![n] = next[before], ![before] = n],
               chain' = SubSeq(chain, 1, idx + 1) \o <<n>> \o SubSeq(chain, idx + 2, Len(chain)),
               skewed' = TRUE, UNCHANGED <<head, tail>>
        PROVE  IInv'
    <2>1. idx \in 1..length - 1 /\ length \in Nat /\ length = Len(chain)
      BY <1>2, LineOfNodes DEF AddInside, Usable
    <2>2. before \in Nodes
      <3>1. idx \in 0..idx + 1 - 1
        BY <2>1
      <3>2. before \in Passed(next, head, idx + 1)
        BY <3>1 DEF Passed
      <3> QED
        BY <1>2, <3>2, Types
    <2> HIDE DEF before
    <2>3. idx + 1 \in 0..length /\ chain' \in Seq(Nodes) /\ Inserted(chain, n, idx + 1, chain')
      <3>1. idx + 1 \in 0..Len(chain) /\ idx + 1 + 1 = idx + 2
        BY <2>1
      <3> DEFINE t == SubSeq(chain, 1, idx + 1) \o <<n>> \o SubSeq(chain, idx + 1 + 1, Len(chain))
      <3>2. t \in Seq(Nodes) /\ Inserted(chain, n, idx + 1, t)
        BY <3>1, Types, SplitsAround
      <3>3. t = chain'
        BY <1>2, <3>1
      <3> HIDE DEF t
      <3> QED
        BY <2>1, <3>1, <3>2, <3>3
    <2>4. /\ Distinct' /\ Owned' /\ NothingLeft'
          /\ length' \in 0..Cardinality(Nodes) /\ live' \subseteq Nodes
          /\ ok' = TRUE /\ cursor' = cursor /\ out' = out
      BY <1>2, <2>3, AddingOwns DEF Usable
    <2>5. ListTypeOK'
      <3>1. prev' \in [Nodes -> Pointers] /\ next' \in [Nodes -> Pointers]
        BY <1>2, <2>2, Types DEF Pointers
      <3>2. UNCHANGED <<allocated, fault, head, tail>> /\ skewed' = TRUE
        BY <1>2
      <3> QED
        BY <2>3, <2>4, <3>1, <3>2, Types DEF ListTypeOK, Pointers
    <2> QED
      BY <1>2, <2>4, <2>5 DEF IInv, LinkedBothWays
  <1> QED
    BY <1>1, <1>2 DEF AddInside, Call, Faulting

-----------------------------------------------------------------------------
(* Removing.                                                               *)

LEMMA UnlinkTypes ==
    ASSUME IInv, allocated, allocated' = allocated, fault' = fault, NEW n \in live,
           NEW newNext \in [Nodes -> Pointers], NEW newPrev \in [Nodes -> Pointers],
           Unlink(n, newNext, newPrev),
           head' \in Pointers, tail' \in Pointers, out' \in Nodes \cup {NoNode}
    PROVE  ListTypeOK' /\ Distinct' /\ Owned' /\ NothingLeft'
  <1>1. /\ Distinct' /\ Owned' /\ NothingLeft'
        /\ length' \in 0..Cardinality(Nodes) /\ live' \subseteq Nodes
        /\ ok' = TRUE /\ cursor' = cursor /\ skewed' = skewed /\ chain' \in Seq(Nodes)
    BY RemovingOwns
  <1>2. next' \in [Nodes -> Pointers] /\ prev' \in [Nodes -> Pointers]
    BY DEF Unlink, Pointers
  <1> QED
    BY <1>1, <1>2, Types DEF ListTypeOK, Pointers

\* The list from which a node was taken out, if that was a list.
LEMMA UnlinkMoves ==
    ASSUME IInv, allocated, allocated', NEW k \in 1..length,
           NEW newNext, NEW newPrev, Unlink(chain[k], newNext, newPrev)
    PROVE  /\ length' = length - 1
           /\ \A i \in 1..k - 1 : chain'[i] = chain[i]
           /\ \A i \in k..length - 1 : chain'[i] = chain[i + 1]
  <1>1. length = Len(chain) /\ chain[k] \in live
    BY LineOfNodes
  <1>2. PICK j \in 1..length : chain[k] = chain[j] /\ Removed(chain, j, chain')
    BY <1>1, RemovingOwns
  <1>3. j = k
    BY <1>2, LineOfNodes
  <1>4. length' = length - 1
    BY DEF Unlink
  <1> QED
    BY <1>1, <1>2, <1>3, <1>4 DEF Removed

LEMMA UnlinkFirst ==
    ASSUME IInv, allocated, allocated', ~skewed, length /= 0,
           Unlink(head, next, Unset(prev, Through(next, head))),
           head' = Through(next, head),
           tail' = IF head' = Null THEN Null ELSE tail
    PROVE  LinkedBothWays'
  <1>1. /\ length \in Nat \ {0} /\ 1 \in 1..length /\ length \in 1..length
        /\ head = chain[1] /\ head \in Nodes /\ tail = chain[length] /\ next[chain[length]] = Null
    BY LineOfNodes DEF IInv, LinkedBothWays
  <1>2. length' = length - 1 /\ \A i \in 1..length - 1 : chain'[i] = chain[i + 1]
    BY <1>1, UnlinkMoves
  <1>3. head' = IF length = 1 THEN Null ELSE chain[2]
    BY <1>1 DEF Through, IInv, LinkedBothWays
  <1>4. /\ next' = [next EXCEPT ![head] = Null]
        /\ prev' = [Unset(prev, head') EXCEPT ![head] = Null]
        /\ skewed' = skewed
    BY DEF Unlink
  <1>5. CASE length = 1
    <2>1. head' = Null /\ tail' = Null /\ length' = 0 /\ 1..length' - 1 = {}
      BY <1>2, <1>3, <1>5
    <2> QED
      BY <2>1 DEF LinkedBothWays
  <1>6. CASE length /= 1
    <2>1. /\ 2 \in 1..length /\ 1 \in 1..length - 1 /\ length - 1 \in 1..length - 1
          /\ length - 1 + 1 = length /\ length' /= 0
      BY <1>1, <1>2, <1>6
    <2>2. head' = chain[2] /\ head' \in Nodes /\ head' /= head /\ tail' = tail
      BY <1>1, <1>3, <1>6, <2>1, LineOfNodes
    <2>3. ASSUME NEW m \in Nodes, m /= head
          PROVE  next'[m] = next[m] /\ (m /= head' => prev'[m] = prev[m])
      BY <1>4, <2>2, <2>3, Types DEF Unset
    <2>4. prev'[head'] = Null
      BY <1>4, <2>2, Types DEF Unset, Pointers
    <2>5. chain'[1] = head' /\ chain'[length'] = tail'
      BY <1>1, <1>2, <2>1, <2>2
    <2>6. next'[tail'] = Null
      <3>1. tail \in Nodes /\ tail /= head
        BY <1>1, <1>6, LineOfNodes
      <3> QED
        BY <1>1, <2>2, <2>3, <3>1
    <2>7. ASSUME NEW i \in 1..length' - 1
          PROVE  next'[chain'[i]] = chain'[i + 1] /\ prev'[chain'[i + 1]] = chain'[i]
      <3>1. /\ i \in 1..length - 1 /\ i + 1 \in 1..length - 1 /\ i + 1 \in 1..length
            /\ i + 1 + 1 \in 1..length /\ i + 1 /= 1 /\ i + 1 + 1 /= 1 /\ i + 1 + 1 /= 2
        BY <1>1, <1>2
      <3>2. next[chain[i + 1]] = chain[i + 1 + 1] /\ prev[chain[i + 1 + 1]] = chain[i + 1]
        BY <3>1 DEF IInv, LinkedBothWays
      <3>3. /\ chain[i + 1] \in Nodes /\ chain[i + 1] /= head
            /\ chain[i + 1 + 1] \in Nodes /\ chain[i + 1 + 1] /= head /\ chain[i + 1 + 1] /= head'
        BY <1>1, <2>1, <2>2, <3>1, LineOfNodes
      <3> QED
        BY <1>2, <2>3, <3>1, <3>2, <3>3
    <2> QED
      BY <2>1, <2>4, <2>5, <2>6, <2>7 DEF LinkedBothWays
  <1> QED
    BY <1>5, <1>6

LEMMA UnlinkLast ==
    ASSUME IInv, allocated, allocated', ~skewed, length /= 0,
           Unlink(tail, Unset(next, Through(prev, tail)), prev),
           tail' = Through(prev, tail),
           head' = IF tail' = Null THEN Null ELSE head
    PROVE  LinkedBothWays'
  <1>1. /\ length \in Nat \ {0} /\ 1 \in 1..length /\ length \in 1..length
        /\ tail = chain[length] /\ tail \in Nodes /\ head = chain[1] /\ prev[chain[1]] = Null
    BY LineOfNodes DEF IInv, LinkedBothWays
  <1>2. length' = length - 1 /\ \A i \in 1..length - 1 : chain'[i] = chain[i]
    BY <1>1, UnlinkMoves
  <1>3. tail' = IF length = 1 THEN Null ELSE chain[length - 1]
    <2>1. length /= 1 => length - 1 \in 1..length - 1 /\ length - 1 + 1 = length
      BY <1>1
    <2> QED
      BY <1>1, <2>1 DEF Through, IInv, LinkedBothWays
  <1>4. /\ prev' = [prev EXCEPT ![tail] = Null]
        /\ next' = [Unset(next, tail') EXCEPT ![tail] = Null]
        /\ skewed' = skewed
    BY DEF Unlink
  <1>5. CASE length = 1
    <2>1. head' = Null /\ tail' = Null /\ length' = 0 /\ 1..length' - 1 = {}
      BY <1>2, <1>3, <1>5
    <2> QED
      BY <2>1 DEF LinkedBothWays
  <1>6. CASE length /= 1
    <2>1. /\ length - 1 \in 1..length /\ 1 \in 1..length - 1 /\ length - 1 \in 1..length - 1
          /\ length - 1 /= length /\ length' /= 0
      BY <1>1, <1>2, <1>6
    <2>2. tail' = chain[length - 1] /\ tail' \in Nodes /\ tail' /= tail /\ head' = head
      BY <1>1, <1>3, <1>6, <2>1, LineOfNodes
    <2>3. ASSUME NEW m \in Nodes, m /= tail
          PROVE  prev'[m] = prev[m] /\ (m /= tail' => next'[m] = next[m])
      BY <1>4, <2>2, <2>3, Types DEF Unset
    <2>4. next'[tail'] = Null
      BY <1>4, <2>2, Types DEF Unset, Pointers
    <2>5. chain'[1] = head' /\ chain'[length'] = tail'
      BY <1>1, <1>2, <2>1, <2>2
    <2>6. prev'[head'] = Null
      <3>1. head \in Nodes /\ head /= tail
        BY <1>1, <1>6, LineOfNodes
      <3> QED
        BY <1>1, <2>2, <2>3, <3>1
    <2>7. ASSUME NEW i \in 1..length' - 1
          PROVE  next'[chain'[i]] = chain'[i + 1] /\ prev'[chain'[i + 1]] = chain'[i]
      <3>1. /\ i \in 1..length - 1 /\ i + 1 \in 1..length - 1 /\ i \in 1..length
            /\ i + 1 \in 1..length /\ i /= length /\ i + 1 /= length /\ i /= length - 1
        BY <1>1, <1>2
      <3>2. next[chain[i]] = chain[i + 1] /\ prev[chain[i + 1]] = chain[i]
        BY <3>1 DEF IInv, LinkedBothWays
      <3>3. /\ chain[i] \in Nodes /\ chain[i] /= tail /\ chain[i] /= tail'
            /\ chain[i + 1] \in Nodes /\ chain[i + 1] /= tail
        BY <1>1, <2>1, <2>2, <3>1, LineOfNodes
      <3> QED
        BY <1>2, <2>3, <3>1, <3>2, <3>3
    <2> QED
      BY <2>1, <2>4, <2>5, <2>6, <2>7 DEF LinkedBothWays
  <1> QED
    BY <1>5, <1>6

LEMMA UnlinkInner ==
    ASSUME IInv, allocated, allocated', ~skewed, cursor \in live, cursor /= head, cursor /= tail,
           LET before == Through(prev, cursor)
               after == Through(next, cursor)
           IN  Unlink(cursor, [next EXCEPT ![before] = after], [prev EXCEPT ![after] = before]),
           UNCHANGED <<head, tail>>
    PROVE  LinkedBothWays'
  <1>1. PICK k \in 1..length : cursor = chain[k]
    BY LineOfNodes
  <1>2. /\ length \in Nat \ {0} /\ head = chain[1] /\ tail = chain[length]
        /\ prev[chain[1]] = Null /\ next[chain[length]] = Null
    BY <1>1, LineOfNodes DEF IInv, LinkedBothWays
  <1>3. /\ k /= 1 /\ k /= length /\ k - 1 \in 1..length - 1 /\ k \in 1..length - 1
        /\ k - 1 \in 1..length /\ k + 1 \in 1..length /\ 1 \in 1..length /\ length \in 1..length
        /\ k - 1 + 1 = k /\ k - 1 /= k + 1 /\ k /= k + 1 /\ k - 1 /= k
    BY <1>1, <1>2
  <1> DEFINE before == chain[k - 1]
             after == chain[k + 1]
  <1>4. /\ Through(prev, cursor) = before /\ Through(next, cursor) = after
        /\ cursor \in Nodes /\ before \in Nodes /\ after \in Nodes
        /\ before /= cursor /\ after /= cursor /\ before /= after
    BY <1>1, <1>3, LineOfNodes DEF Through, IInv, LinkedBothWays
  <1> HIDE DEF before, after
  <1>5. /\ next' = [[next EXCEPT ![before] = after] EXCEPT ![cursor] = Null]
        /\ prev' = [[prev EXCEPT ![after] = before] EXCEPT ![cursor] = Null]
        /\ skewed' = skewed
    BY <1>4 DEF Unlink
  <1>6. /\ length' = length - 1
        /\ \A i \in 1..k - 1 : chain'[i] = chain[i]
        /\ \A i \in k..length - 1 : chain'[i] = chain[i + 1]
    BY <1>1, UnlinkMoves
  <1>7. ASSUME NEW m \in Nodes, m /= cursor
        PROVE  /\ m /= before => next'[m] = next[m]
               /\ m /= after => prev'[m] = prev[m]
    BY <1>5, <1>7, Types
  <1>8. next'[before] = after /\ prev'[after] = before
    BY <1>4, <1>5, Types
  <1>9. chain'[1] = head /\ prev'[head] = Null
    <2>1. head \in Nodes /\ head /= after /\ head /= cursor
      BY <1>2, <1>3, LineOfNodes DEF after
    <2>2. 1 \in 1..k - 1
      BY <1>3
    <2> QED
      BY <1>2, <1>6, <1>7, <2>1, <2>2
  <1>10. chain'[length'] = tail /\ next'[tail] = Null
    <2>1. tail \in Nodes /\ tail /= before /\ tail /= cursor
      BY <1>2, <1>3, LineOfNodes DEF before
    <2>2. length - 1 \in k..length - 1 /\ length - 1 + 1 = length
      BY <1>2, <1>3
    <2> QED
      BY <1>2, <1>6, <1>7, <2>1, <2>2
  <1>11. ASSUME NEW i \in 1..length' - 1
         PROVE  next'[chain'[i]] = chain'[i + 1] /\ prev'[chain'[i + 1]] = chain'[i]
    <2>1. CASE i < k - 1
      <3>1. /\ i \in 1..length - 1 /\ i \in 1..k - 1 /\ i + 1 \in 1..k - 1
            /\ i \in 1..length /\ i + 1 \in 1..length
            /\ i /= k /\ i + 1 /= k /\ i /= k - 1 /\ i + 1 /= k + 1
        BY <1>2, <1>3, <1>6, <2>1
      <3>2. next[chain[i]] = chain[i + 1] /\ prev[chain[i + 1]] = chain[i]
        BY <3>1 DEF IInv, LinkedBothWays
      <3>3. /\ chain[i] \in Nodes /\ chain[i] /= cursor /\ chain[i] /= before
            /\ chain[i + 1] \in Nodes /\ chain[i + 1] /= cursor /\ chain[i + 1] /= after
        BY <1>1, <1>3, <3>1, LineOfNodes DEF before, after
      <3> QED
        BY <1>6, <1>7, <3>1, <3>2, <3>3
    <2>2. CASE i = k - 1
      <3>1. i \in 1..k - 1 /\ i + 1 = k /\ k \in k..length - 1
        BY <1>2, <1>3, <1>6, <2>2
      <3>2. chain'[i] = before /\ chain'[i + 1] = after
        BY <1>6, <2>2, <3>1 DEF before, after
      <3> QED
        BY <1>8, <3>2
    <2>3. CASE i > k - 1
      <3>1. /\ i \in k..length - 1 /\ i + 1 \in k..length - 1 /\ i + 1 \in 1..length - 1
            /\ i + 1 \in 1..length /\ i + 1 + 1 \in 1..length
            /\ i + 1 /= k /\ i + 1 + 1 /= k /\ i + 1 /= k - 1 /\ i + 1 + 1 /= k + 1
        BY <1>2, <1>3, <1>6, <2>3
      <3>2. next[chain[i + 1]] = chain[i + 1 + 1] /\ prev[chain[i + 1 + 1]] = chain[i + 1]
        BY <3>1 DEF IInv, LinkedBothWays
      <3>3. /\ chain[i + 1] \in Nodes /\ chain[i + 1] /= cursor /\ chain[i + 1] /= before
            /\ chain[i + 1 + 1] \in Nodes /\ chain[i + 1 + 1] /= cursor /\ chain[i + 1 + 1] /= after
        BY <1>1, <1>3, <3>1, LineOfNodes DEF before, after
      <3> QED
        BY <1>6, <1>7, <3>1, <3>2, <3>3
    <2> QED
      BY <1>3, <1>6, <2>1, <2>2, <2>3
  <1>12. length' /= 0
    BY <1>2, <1>3, <1>6
  <1> QED
    BY <1>9, <1>10, <1>11, <1>12 DEF LinkedBothWays

LEMMA PopStartKeeps ==
    ASSUME IInv, LinkedList_PopStart
    PROVE  IInv'
  <1> DEFINE nextHead == Through(next, head)
  <1>1. CASE Faulting
    BY <1>1, FaultingKeeps
  <1>2. ASSUME Usable, length /= 0, {head} \cup ({nextHead} \ {Null}) \subseteq live,
               out' = head, Unlink(head, next, Unset(prev, nextHead)),
               head' = nextHead, tail' = TailAfterPop(nextHead), UNCHANGED <<allocated, fault>>
        PROVE  IInv'
    <2>1. /\ head \in live /\ nextHead \in Pointers /\ nextHead \in live \cup {Null}
          /\ Unset(prev, nextHead) \in [Nodes -> Pointers]
      BY <1>2, Types DEF Through, Unset, Pointers
    <2>2. tail' = IF head' = Null THEN Null ELSE tail
      BY <1>2 DEF TailAfterPop
    <2>3. tail' \in Pointers /\ out' \in Nodes \cup {NoNode} /\ allocated /\ allocated'
      BY <1>2, <2>1, <2>2, Types DEF Pointers, Usable
    <2>4. ListTypeOK' /\ Distinct' /\ Owned' /\ NothingLeft'
      BY <1>2, <2>1, <2>3, Types, UnlinkTypes
    <2>5. LinkedBothWays'
      <3>1. CASE skewed
        BY <1>2, <3>1 DEF Unlink, LinkedBothWays
      <3>2. CASE ~skewed
        BY <1>2, <2>2, <2>3, <3>2, UnlinkFirst
      <3> QED
        BY <3>1, <3>2
    <2> QED
      BY <2>4, <2>5 DEF IInv
  <1> QED
    BY <1>1, <1>2 DEF LinkedList_PopStart, Call, Faulting

LEMMA PopEndKeeps ==
    ASSUME IInv, LinkedList_PopEnd
    PROVE  IInv'
  <1> DEFINE nextTail == Through(prev, tail)
  <1>1. CASE Faulting
    BY <1>1, FaultingKeeps
  <1>2. ASSUME Usable, length /= 0, {tail} \cup ({nextTail} \ {Null}) \subseteq live,
               out' = tail, Unlink(tail, Unset(next, nextTail), prev),
               tail' = nextTail, head' = IF nextTail = Null THEN Null ELSE head,
               UNCHANGED <<allocated, fault>>
        PROVE  IInv'
    <2>1. /\ tail \in live /\ nextTail \in Pointers
          /\ Unset(next, nextTail) \in [Nodes -> Pointers]
      BY <1>2, Types DEF Through, Unset, Pointers
    <2>2. head' \in Pointers /\ out' \in Nodes \cup {NoNode} /\ allocated /\ allocated'
      BY <1>2, <2>1, Types DEF Pointers, Usable
    <2>3. ListTypeOK' /\ Distinct' /\ Owned' /\ NothingLeft'
      BY <1>2, <2>1, <2>2, Types, UnlinkTypes
    <2>4. LinkedBothWays'
      <3>1. CASE skewed
        BY <1>2, <3>1 DEF Unlink, LinkedBothWays
      <3>2. CASE ~skewed
        BY <1>2, <2>2, <3>2, UnlinkLast
      <3> QED
        BY <3>1, <3>2
    <2> QED
      BY <2>3, <2>4 DEF IInv
  <1> QED
    BY <1>1, <1>2 DEF LinkedList_PopEnd, Call, Faulting

LEMMA RemoveOnlyKeeps ==
    ASSUME IInv, RemoveOnly
    PROVE  IInv'
  <1>1. CASE Faulting
    BY <1>1, FaultingKeeps
  <1>2. ASSUME Usable, length = 1, cursor \in live, Unlink(cursor, next, prev),
               head' = Null, tail' = Null, out' = out, UNCHANGED <<allocated, fault>>
        PROVE  IInv'
    <2>1. head' \in Pointers /\ tail' \in Pointers /\ out' \in Nodes \cup {NoNode}
          /\ allocated /\ allocated'
      BY <1>2, Types DEF Pointers, Usable
    <2>2. ListTypeOK' /\ Distinct' /\ Owned' /\ NothingLeft'
      BY <1>2, <2>1, Types, UnlinkTypes
    <2>3. length' = 0 /\ 1..length' - 1 = {}
      BY <1>2 DEF Unlink
    <2> QED
      BY <1>2, <2>2, <2>3 DEF IInv, LinkedBothWays
  <1> QED
    BY <1>1, <1>2 DEF RemoveOnly, Remove, Call, Faulting

LEMMA RemoveHeadKeeps ==
    ASSUME IInv, RemoveHead
    PROVE  IInv'
  <1> DEFINE after == Through(next, cursor)
  <1>1. CASE Faulting
    BY <1>1, FaultingKeeps
  <1>2. ASSUME Usable, head = cursor, {cursor, after} \subseteq live,
               Unlink(cursor, next, Unset(prev, after)), head' = after,
               UNCHANGED <<tail, out, allocated, fault>>
        PROVE  IInv'
    <2>1. /\ cursor \in live /\ after \in Nodes /\ after /= Null
          /\ Unset(prev, after) \in [Nodes -> Pointers]
      BY <1>2, Types DEF Unset, Pointers
    <2>2. head' \in Pointers /\ tail' \in Pointers /\ out' \in Nodes \cup {NoNode}
          /\ allocated /\ allocated'
      BY <1>2, <2>1, Types DEF Pointers, Usable
    <2>3. ListTypeOK' /\ Distinct' /\ Owned' /\ NothingLeft' /\ length /= 0
      BY <1>2, <2>1, <2>2, Types, UnlinkTypes, RemovingOwns
    <2>4. LinkedBothWays'
      <3>1. CASE skewed
        BY <1>2, <3>1 DEF Unlink, LinkedBothWays
      <3>2. CASE ~skewed
        <4>1. /\ Unlink(head, next, Unset(prev, Through(next, head)))
              /\ head' = Through(next, head) /\ tail' = IF head' = Null THEN Null ELSE tail
          BY <1>2, <2>1
        <4> QED
          BY <2>2, <2>3, <3>2, <4>1, UnlinkFirst
      <3> QED
        BY <3>1, <3>2
    <2> QED
      BY <2>3, <2>4 DEF IInv
  <1> QED
    BY <1>1, <1>2 DEF RemoveHead, Remove, Call, Faulting

LEMMA RemoveTailKeeps ==
    ASSUME IInv, RemoveTail
    PROVE  IInv'
  <1> DEFINE before == Through(prev, cursor)
  <1>1. CASE Faulting
    BY <1>1, FaultingKeeps
  <1>2. ASSUME Usable, tail = cursor, {cursor, before} \subseteq live,
               Unlink(cursor, Unset(next, before), prev), tail' = before,
               UNCHANGED <<head, out, allocated, fault>>
        PROVE  IInv'
    <2>1. /\ cursor \in live /\ before \in Nodes /\ before /= Null
          /\ Unset(next, before) \in [Nodes -> Pointers]
      BY <1>2, Types DEF Unset, Pointers
    <2>2. head' \in Pointers /\ tail' \in Pointers /\ out' \in Nodes \cup {NoNode}
          /\ allocated /\ allocated'
      BY <1>2, <2>1, Types DEF Pointers, Usable
    <2>3. ListTypeOK' /\ Distinct' /\ Owned' /\ NothingLeft' /\ length /= 0
      BY <1>2, <2>1, <2>2, Types, UnlinkTypes, RemovingOwns
    <2>4. LinkedBothWays'
      <3>1. CASE skewed
        BY <1>2, <3>1 DEF Unlink, LinkedBothWays
      <3>2. CASE ~skewed
        <4>1. /\ Unlink(tail, Unset(next, Through(prev, tail)), prev)
              /\ tail' = Through(prev, tail) /\ head' = IF tail' = Null THEN Null ELSE head
          BY <1>2, <2>1
        <4> QED
          BY <2>2, <2>3, <3>2, <4>1, UnlinkLast
      <3> QED
        BY <3>1, <3>2
    <2> QED
      BY <2>3, <2>4 DEF IInv
  <1> QED
    BY <1>1, <1>2 DEF RemoveTail, Remove, Call, Faulting

LEMMA RemoveInnerKeeps ==
    ASSUME IInv, RemoveInner
    PROVE  IInv'
  <1> DEFINE before == Through(prev, cursor)
             after == Through(next, cursor)
  <1>1. CASE Faulting
    BY <1>1, FaultingKeeps
  <1>2. ASSUME Usable, cursor \notin {head, tail}, {cursor, before, after} \subseteq live,
               Unlink(cursor, [next EXCEPT ![before] = after], [prev EXCEPT ![after] = before]),
               UNCHANGED <<head, tail, out, allocated, fault>>
        PROVE  IInv'
    <2>1. /\ cursor \in live
          /\ [next EXCEPT ![before] = after] \in [Nodes -> Pointers]
          /\ [prev EXCEPT ![after] = before] \in [Nodes -> Pointers]
      BY <1>2, Types DEF Pointers
    <2>2. head' \in Pointers /\ tail' \in Pointers /\ out' \in Nodes \cup {NoNode}
          /\ allocated /\ allocated'
      BY <1>2, Types DEF Pointers, Usable
    <2>3. ListTypeOK' /\ Distinct' /\ Owned' /\ NothingLeft'
      BY <1>2, <2>1, <2>2, Types, UnlinkTypes
    <2>4. LinkedBothWays'
      <3>1. CASE skewed
        BY <1>2, <3>1 DEF Unlink, LinkedBothWays
      <3>2. CASE ~skewed
        BY <1>2, <2>1, <2>2, <3>2, UnlinkInner
      <3> QED
        BY <3>1, <3>2
    <2> QED
      BY <2>3, <2>4 DEF IInv
  <1> QED
    BY <1>1, <1>2 DEF RemoveInner, Remove, Call, Faulting

-----------------------------------------------------------------------------
(* Reading.                                                                *)

\* Nothing but the cursor and what is handed out changes.
LEMMA ReadsKeep ==
    ASSUME IInv, UNCHANGED <<ends, links, chain, skewed, fault>>,
           ok' \in BOOLEAN, cursor' \in Pointers, out' \in Nodes \cup {NoNode}
    PROVE  IInv'
  BY DEF ends, links, Pointers, IInv, ListTypeOK, Distinct, Owned, NothingLeft, LinkedBothWays

\* What an index leads to is a node or NULL, on a skewed list as well.
LEMMA NodeAtIsPointer ==
    ASSUME IInv, NEW idx \in 0..length - 1
    PROVE  NodeAt(idx) \in Pointers
  <1>1. idx \in 0..Cardinality(Nodes)
    BY Types
  <1>2. CASE idx > length \div 2
    <2>1. length - 1 - idx \in 0..Cardinality(Nodes)
      BY Types
    <2> QED
      BY <1>2, <2>1, Types, WalkGoesOn DEF NodeAt
  <1>3. CASE ~(idx > length \div 2)
    BY <1>1, <1>3, Types, WalkGoesOn DEF NodeAt
  <1> QED
    BY <1>2, <1>3

LEMMA ReadKeeps ==
    ASSUME IInv, NEW idx \in Indices,
           LinkedList_PeekAt(idx) \/ LinkedList_NodeAt(idx) \/ PopInside(idx)
    PROVE  IInv'
  <1>1. CASE Faulting
    BY <1>1, FaultingKeeps
  <1>2. ASSUME idx \in 0..length - 1, Usable, NodeAt(idx) \in live, out' = NodeAt(idx), Reads,
               UNCHANGED <<cursor, allocated, fault>>
        PROVE  IInv'
    BY <1>2, Types, ReadsKeep DEF Reads, ends, links
  <1>3. ASSUME idx \in 0..length - 1, Usable, cursor' = NodeAt(idx), Reads,
               UNCHANGED <<out, allocated, fault>>
        PROVE  IInv'
    BY <1>3, Types, NodeAtIsPointer, ReadsKeep DEF Reads, ends, links
  <1>4. ASSUME Usable, Refuse, UNCHANGED <<allocated, fault>>
        PROVE  IInv'
    BY <1>4, Types, ReadsKeep DEF Refuse, ends, links
  <1> QED
    BY <1>1, <1>2, <1>3, <1>4
       DEF LinkedList_PeekAt, LinkedList_NodeAt, PopInside, Call, Faulting

LEMMA NextKeeps ==
    ASSUME IInv, LinkedList_Next
    PROVE  IInv'
  <1> DEFINE node == IF cursor = Null THEN head ELSE Through(next, cursor)
  <1>1. CASE Faulting
    BY <1>1, FaultingKeeps
  <1>2. ASSUME Usable, cursor' = Null, out' = NoNode, Reads, UNCHANGED <<allocated, fault>>
        PROVE  IInv'
    BY <1>2, Types, ReadsKeep DEF Reads, ends, links, Pointers
  <1>3. ASSUME Usable, node \in live, cursor' = node, out' = node, Reads,
               UNCHANGED <<allocated, fault>>
        PROVE  IInv'
    BY <1>3, Types, ReadsKeep DEF Reads, ends, links, Pointers
  <1> QED
    BY <1>1, <1>2, <1>3 DEF LinkedList_Next, Call, Faulting

LEMMA RefuseKeeps ==
    ASSUME IInv, RefuseIndex
    PROVE  IInv'
  <1>1. UNCHANGED <<ends, links, cursor, out, chain, skewed, fault>> /\ ok' = FALSE
    BY DEF RefuseIndex, Call, Refuse, ends
  <1> QED
    BY <1>1, Types, ReadsKeep

-----------------------------------------------------------------------------
(* The walks of a list that is not skewed.                                 *)

LEMMA WalkFromHead ==
    ASSUME IInv, allocated, ~skewed
    PROVE  \A i \in 0..Cardinality(Nodes) :
              Walk(next, head)[i] = IF i < length THEN chain[i + 1] ELSE Null
  <1> DEFINE walk == Walk(next, head)
             n == Cardinality(Nodes)
             place(i) == IF i < length THEN chain[i + 1] ELSE Null
             agreed == {i \in 0..n : walk[i] = place(i)}
  <1>1. n \in Nat /\ length \in Nat /\ length <= n
    BY Types
  <1>2. walk[0] = head /\ \A i \in 1..n : walk[i] = Through(next, walk[i - 1])
    BY Types, WalkGoesOn
  <1> HIDE DEF walk
  <1>3. 0 \in agreed
    <2>1. head = place(0)
      BY <1>1 DEF IInv, LinkedBothWays
    <2> QED
      BY <1>1, <1>2, <2>1
  <1>4. ASSUME NEW i \in 1..n, i - 1 \in agreed PROVE i \in agreed
    <2>1. walk[i] = Through(next, place(i - 1))
      BY <1>2, <1>4
    <2>2. Through(next, place(i - 1)) = place(i)
      <3>1. CASE i < length
        <4>1. i \in 1..length - 1 /\ i \in 1..length /\ i - 1 < length /\ i - 1 + 1 = i
          BY <1>1, <3>1
        <4>2. chain[i] \in Nodes /\ next[chain[i]] = chain[i + 1]
          BY <4>1, LineOfNodes DEF IInv, LinkedBothWays
        <4> QED
          BY <3>1, <4>1, <4>2 DEF Through
      <3>2. CASE i = length
        <4>1. i \in 1..length /\ i - 1 < length /\ i - 1 + 1 = i /\ ~(i < length) /\ length /= 0
          BY <1>1, <3>2
        <4>2. chain[i] \in Nodes /\ next[chain[i]] = Null
          BY <3>2, <4>1, LineOfNodes DEF IInv, LinkedBothWays
        <4> QED
          BY <4>1, <4>2 DEF Through
      <3>3. CASE i > length
        <4>1. ~(i - 1 < length) /\ ~(i < length)
          BY <1>1, <3>3
        <4> QED
          BY <4>1 DEF Through
      <3> QED
        BY <1>1, <3>1, <3>2, <3>3
    <2> QED
      BY <1>1, <2>1, <2>2
  <1>5. 0..n \subseteq agreed
    <2> HIDE DEF agreed
    <2> QED
      BY <1>1, <1>3, <1>4, UpTo
  <1> QED
    BY <1>5 DEF walk

LEMMA WalkFromTail ==
    ASSUME IInv, allocated, ~skewed
    PROVE  \A i \in 0..Cardinality(Nodes) :
              Walk(prev, tail)[i] = IF i < length THEN chain[length - i] ELSE Null
  <1> DEFINE walk == Walk(prev, tail)
             n == Cardinality(Nodes)
             place(i) == IF i < length THEN chain[length - i] ELSE Null
             agreed == {i \in 0..n : walk[i] = place(i)}
  <1>1. n \in Nat /\ length \in Nat /\ length <= n
    BY Types
  <1>2. walk[0] = tail /\ \A i \in 1..n : walk[i] = Through(prev, walk[i - 1])
    BY Types, WalkGoesOn
  <1> HIDE DEF walk
  <1>3. 0 \in agreed
    <2>1. length - 0 = length
      BY <1>1
    <2>2. tail = place(0)
      BY <1>1, <2>1 DEF IInv, LinkedBothWays
    <2> QED
      BY <1>1, <1>2, <2>2
  <1>4. ASSUME NEW i \in 1..n, i - 1 \in agreed PROVE i \in agreed
    <2>1. walk[i] = Through(prev, place(i - 1))
      BY <1>2, <1>4
    <2>2. Through(prev, place(i - 1)) = place(i)
      <3>1. CASE i < length
        <4>1. /\ length - i \in 1..length - 1 /\ length - i + 1 \in 1..length /\ i - 1 < length
              /\ length - (i - 1) = length - i + 1
          BY <1>1, <3>1
        <4>2. chain[length - i + 1] \in Nodes /\ prev[chain[length - i + 1]] = chain[length - i]
          BY <4>1, LineOfNodes DEF IInv, LinkedBothWays
        <4> QED
          BY <3>1, <4>1, <4>2 DEF Through
      <3>2. CASE i = length
        <4>1. 1 \in 1..length /\ i - 1 < length /\ length - (i - 1) = 1 /\ ~(i < length)
              /\ length /= 0
          BY <1>1, <3>2
        <4>2. chain[1] \in Nodes /\ prev[chain[1]] = Null
          BY <4>1, LineOfNodes DEF IInv, LinkedBothWays
        <4> QED
          BY <4>1, <4>2 DEF Through
      <3>3. CASE i > length
        <4>1. ~(i - 1 < length) /\ ~(i < length)
          BY <1>1, <3>3
        <4> QED
          BY <4>1 DEF Through
      <3> QED
        BY <1>1, <3>1, <3>2, <3>3
    <2> QED
      BY <1>1, <2>1, <2>2
  <1>5. 0..n \subseteq agreed
    <2> HIDE DEF agreed
    <2> QED
      BY <1>1, <1>3, <1>4, UpTo
  <1> QED
    BY <1>5 DEF walk

\* What LinkedList_Free reaches is the whole list.
LEMMA ReachedIsLine ==
    ASSUME IInv, allocated, ~skewed
    PROVE  Reached = live
  <1>1. ASSUME NEW i \in 0..Cardinality(Nodes)
        PROVE  Walk(next, head)[i] \in live \cup {Null}
    <2>1. i < length => i + 1 \in 1..length
      BY Types
    <2> QED
      BY <2>1, WalkFromHead, LineOfNodes
  <1>2. ASSUME NEW m \in live PROVE m \in Reached
    <2>1. PICK i \in 1..length : m = chain[i] /\ m \in Nodes
      BY LineOfNodes
    <2>2. i - 1 \in 0..Cardinality(Nodes) /\ i - 1 < length /\ i - 1 + 1 = i
      BY Types
    <2>3. Walk(next, head)[i - 1] = m
      BY <2>1, <2>2, WalkFromHead
    <2> QED
      BY <2>1, <2>2, <2>3 DEF Reached
  <1> QED
    BY <1>1, <1>2 DEF Reached

-----------------------------------------------------------------------------
(* The list itself.                                                        *)

LEMMA FreeKeeps ==
    ASSUME IInv, LinkedList_Free
    PROVE  IInv'
  <1>1. /\ allocated /\ ~allocated' /\ allocated' \in BOOLEAN
        /\ live' = live \ Reached /\ chain' = <<>> /\ ok' = TRUE
        /\ next' = [m \in Nodes |-> Null] /\ prev' = [m \in Nodes |-> Null]
        /\ UNCHANGED <<head, tail, length, cursor, fault, out, skewed>>
    BY DEF LinkedList_Free, Usable
  <1>2. ~skewed => live' = {}
    BY <1>1, ReachedIsLine
  <1>3. <<>> \in Seq(Nodes) /\ Repeatless(<<>>)
    BY EmptySeq DEF Repeatless
  <1>4. ListTypeOK'
    BY <1>1, <1>3, Types DEF ListTypeOK, Pointers
  <1> QED
    BY <1>1, <1>2, <1>3, <1>4 DEF IInv, Distinct, Owned, NothingLeft, LinkedBothWays

LEMMA CreateKeeps ==
    ASSUME IInv, LinkedList_Create
    PROVE  IInv'
  <1>1. /\ ~allocated /\ live = {} /\ allocated' = TRUE /\ chain = <<>>
        /\ head' = Null /\ tail' = Null /\ length' = 0 /\ cursor' = Null /\ ok' = TRUE
        /\ UNCHANGED <<live, next, prev, fault, out, chain, skewed>>
    BY DEF LinkedList_Create, links, IInv, NothingLeft
  <1>2. chain' = <<>> /\ Len(chain') = 0 /\ ElementsOf(<<>>) = {} /\ Repeatless(<<>>)
        /\ 1..length' - 1 = {}
    BY <1>1, EmptySeq DEF ElementsOf, Repeatless
  <1>3. ListTypeOK'
    BY <1>1, Types DEF ListTypeOK, Pointers
  <1> QED
    BY <1>1, <1>2, <1>3 DEF IInv, Distinct, Owned, NothingLeft, LinkedBothWays

LEMMA InitKeeps == Init => IInv
  <1> SUFFICES ASSUME Init PROVE IInv
    OBVIOUS
  <1>1. /\ chain = <<>> /\ chain \in Seq(Nodes) /\ Len(chain) = 0
        /\ ElementsOf(chain) = {} /\ Repeatless(chain) /\ 1..length - 1 = {}
    BY EmptySeq DEF Init, ElementsOf, Repeatless
  <1>2. ListTypeOK
    <2>1. Cardinality(Nodes) \in Nat
      BY FS_CardinalityType
    <2>2. length \in 0..Cardinality(Nodes)
      BY <2>1 DEF Init
    <2>3. next \in [Nodes -> Nodes \cup {Null}] /\ prev \in [Nodes -> Nodes \cup {Null}]
      BY DEF Init
    <2>4. {head, tail, cursor} \subseteq Nodes \cup {Null}
      BY DEF Init
    <2> QED
      BY <1>1, <2>2, <2>3, <2>4 DEF Init, ListTypeOK, Faults
  <1> QED
    BY <1>1, <1>2 DEF Init, IInv, Distinct, Owned, NothingLeft, LinkedBothWays

LEMMA OperationKeeps ==
    ASSUME IInv, Operation
    PROVE  IInv'
  BY AddStartKeeps, AddEndKeeps, AddInsideKeeps, PopStartKeeps, PopEndKeeps, RemoveOnlyKeeps,
     RemoveHeadKeeps, RemoveTailKeeps, RemoveInnerKeeps, ReadKeeps, NextKeeps, RefuseKeeps
     DEF Operation, LinkedList_RemoveNode

\* Every call has a name.
LEMMA OperationIsCall ==
    ASSUME Operation
    PROVE  call' \in Calls
  BY DEF Operation, LinkedList_AddStart, LinkedList_AddEnd, AddInside, LinkedList_PopStart,
     LinkedList_PopEnd, PopInside, LinkedList_RemoveNode, RemoveOnly, RemoveHead, RemoveTail,
     RemoveInner, Remove, LinkedList_PeekAt, LinkedList_NodeAt, LinkedList_Next, RefuseIndex,
     Call, Calls

\* The inductive invariant says that the links spell the line.
LEMMA LinksFollow == IInv => LinksSpellChain
  <1> SUFFICES ASSUME IInv, ~skewed PROVE LinksSpellChain
    BY DEF LinksSpellChain
  <1>1. /\ DOMAIN chain = 1..Len(chain) /\ Len(chain) \in Nat
        /\ \A i, j \in DOMAIN chain : chain[i] = chain[j] => i = j
    BY Types DEF IInv, Distinct, Repeatless
  <1>2. CASE ~allocated
    <2>1. chain = <<>> /\ live = {} /\ DOMAIN chain = {}
      BY <1>2 DEF IInv, NothingLeft
    <2> QED
      BY <1>1, <1>2, <2>1 DEF LinksSpellChain
  <1>3. CASE allocated
    <2>1. /\ live = {chain[i] : i \in DOMAIN chain} /\ length = Len(chain)
      BY <1>1, <1>3 DEF IInv, Owned, ElementsOf
    <2>2. head = ChainAt(1) /\ tail = ChainAt(length)
      BY <1>1, <1>3, <2>1 DEF IInv, LinkedBothWays, ChainAt
    <2>3. ASSUME NEW i \in DOMAIN chain
          PROVE  next[chain[i]] = ChainAt(i + 1) /\ prev[chain[i]] = ChainAt(i - 1)
      <3>1. next[chain[i]] = ChainAt(i + 1)
        <4>1. CASE i = length
          BY <1>1, <1>3, <2>1, <4>1 DEF IInv, LinkedBothWays, ChainAt
        <4>2. CASE i /= length
          <5>1. i \in 1..length - 1 /\ i + 1 \in DOMAIN chain
            BY <1>1, <2>1, <4>2
          <5> QED
            BY <1>3, <5>1 DEF IInv, LinkedBothWays, ChainAt
        <4> QED
          BY <4>1, <4>2
      <3>2. prev[chain[i]] = ChainAt(i - 1)
        <4>1. CASE i = 1
          BY <1>1, <1>3, <2>1, <4>1 DEF IInv, LinkedBothWays, ChainAt
        <4>2. CASE i /= 1
          <5>1. i - 1 \in 1..length - 1 /\ i - 1 \in DOMAIN chain /\ i - 1 + 1 = i
            BY <1>1, <2>1, <4>2
          <5>2. prev[chain[i - 1 + 1]] = chain[i - 1]
            BY <1>3, <5>1 DEF IInv, LinkedBothWays
          <5> QED
            BY <5>1, <5>2 DEF ChainAt
        <4> QED
          BY <4>1, <4>2
      <3> QED
        BY <3>1, <3>2
    <2> QED
      BY <1>1, <2>1, <2>2, <2>3 DEF LinksSpellChain
  <1> QED
    BY <1>2, <1>3

-----------------------------------------------------------------------------
(* The list under its mutex.                                               *)

ConcurrentIInv == IInv /\ ConcurrentTypeOK

LEMMA ConcurrentStep ==
    ASSUME ConcurrentIInv, [ConcurrentNext]_concurrentVars
    PROVE  ConcurrentIInv'
  <1>1. IInv /\ call \in Calls /\ waiting \subseteq Threads /\ freeing \in Threads \cup {NoThread} /\ exists \in BOOLEAN
    BY DEF ConcurrentIInv, ConcurrentTypeOK, TypeOK
  <1>2. UNCHANGED vars => IInv' /\ call' \in Calls
    BY <1>1 DEF vars, ends, links, IInv, ListTypeOK, Distinct, Owned, NothingLeft, LinkedBothWays
  <1>3. IInv' /\ call' \in Calls => TypeOK'
    BY DEF IInv, TypeOK
  <1>4. ASSUME NEW t \in Threads, Enter(t) PROVE ConcurrentIInv'
    BY <1>1, <1>2, <1>3, <1>4 DEF Enter, ConcurrentIInv, ConcurrentTypeOK
  <1>5. ASSUME NEW t \in Threads, Perform(t) PROVE ConcurrentIInv'
    BY <1>1, <1>3, <1>5, OperationKeeps, OperationIsCall DEF Perform, ConcurrentIInv, ConcurrentTypeOK
  <1>6. ASSUME NEW t \in Threads, FreeInner(t) PROVE ConcurrentIInv'
    <2>1. call' \in Calls
      BY <1>6 DEF FreeInner, LinkedList_Free, Calls
    <2> QED
      BY <1>1, <1>3, <1>6, <2>1, FreeKeeps DEF FreeInner, ConcurrentIInv, ConcurrentTypeOK
  <1>7. ASSUME NEW t \in Threads, FreeOuter(t) PROVE ConcurrentIInv'
    BY <1>1, <1>2, <1>3, <1>7 DEF FreeOuter, ConcurrentIInv, ConcurrentTypeOK
  <1>8. ASSUME NEW t \in Threads, LateCall(t) PROVE ConcurrentIInv'
    <2>1. IInv' /\ call' = call
      BY <1>1, <1>8 DEF LateCall, ends, links, Faults, IInv, ListTypeOK, Distinct, Owned, NothingLeft,
                        LinkedBothWays
    <2> QED
      BY <1>1, <1>3, <1>8, <2>1 DEF LateCall, ConcurrentIInv, ConcurrentTypeOK
  <1>9. CASE ConcurrentLinkedList_Create
    <2>1. call' \in Calls
      BY <1>9 DEF ConcurrentLinkedList_Create, LinkedList_Create, Calls
    <2> QED
      BY <1>1, <1>3, <1>9, <2>1, CreateKeeps
         DEF ConcurrentLinkedList_Create, ConcurrentIInv, ConcurrentTypeOK
  <1>10. CASE UNCHANGED concurrentVars
    BY <1>1, <1>2, <1>3, <1>10 DEF concurrentVars, ConcurrentIInv, ConcurrentTypeOK
  <1> QED
    BY <1>4, <1>5, <1>6, <1>7, <1>8, <1>9, <1>10 DEF ConcurrentNext

LEMMA ConcurrentStart == ConcurrentInit => ConcurrentIInv
  BY InitKeeps DEF ConcurrentInit, ConcurrentIInv, ConcurrentTypeOK, TypeOK, IInv, Init, Calls

\* The inductive invariant of the list under its mutex, for any number of nodes
\* and threads.
THEOREM Invariance == ConcurrentSpec => []ConcurrentIInv
  BY ConcurrentStart, ConcurrentStep, PTL DEF ConcurrentSpec

\* Every variable keeps to its values, length to the number of nodes.
THEOREM TypeCorrect == ConcurrentSpec => []ConcurrentTypeOK
  <1>1. ConcurrentIInv => ConcurrentTypeOK
    BY DEF ConcurrentIInv
  <1> QED
    BY <1>1, Invariance, PTL

\* Until AddAt adds inside the list, its links spell the order of the nodes in
\* both directions, and each node is on it once, is freed once and is not left
\* behind, for any number of nodes and threads.
THEOREM LinksCorrect == ConcurrentSpec => []LinksSpellChain
  <1>1. ConcurrentIInv => LinksSpellChain
    BY LinksFollow DEF ConcurrentIInv
  <1> QED
    BY <1>1, Invariance, PTL

-----------------------------------------------------------------------------
(* The pointers that calls follow.                                         *)

LEMMA PassedIsLive ==
    ASSUME IInv, allocated, ~skewed, NEW k \in 0..length
    PROVE  Passed(next, head, k) \subseteq live /\ Passed(prev, tail, k) \subseteq live
  <1>1. ASSUME NEW i \in 0..k - 1
        PROVE  /\ i \in 0..Cardinality(Nodes) /\ i < length
               /\ i + 1 \in 1..length /\ length - i \in 1..length
    BY Types
  <1>2. ASSUME NEW i \in 0..k - 1
        PROVE  Walk(next, head)[i] \in live /\ Walk(prev, tail)[i] \in live
    BY <1>1, WalkFromHead, WalkFromTail, LineOfNodes
  <1> QED
    BY <1>2 DEF Passed

\* An index leads to the same place from either end, by way of live nodes.
LEMMA IndexLeads ==
    ASSUME IInv, allocated, ~skewed, NEW idx \in 0..length - 1
    PROVE  /\ NodeAt(idx) = chain[idx + 1] /\ chain[idx + 1] \in live /\ idx + 1 \in 1..length
           /\ PassedTo(idx) \subseteq live
  <1>1. /\ length \in Nat \ {0} /\ idx + 1 \in 1..length /\ idx < length
        /\ idx \in 0..Cardinality(Nodes) /\ length - 1 - idx \in 0..Cardinality(Nodes)
        /\ length - 1 - idx < length /\ length - (length - 1 - idx) = idx + 1
        /\ length - 1 - idx \in 0..length /\ idx \in 0..length
    BY Types
  <1>2. head = chain[1] /\ tail = chain[length]
    BY <1>1 DEF IInv, LinkedBothWays
  <1>3. /\ Walk(next, head)[idx] = chain[idx + 1]
        /\ Walk(prev, tail)[length - 1 - idx] = chain[idx + 1]
    BY <1>1, WalkFromHead, WalkFromTail
  <1>4. NodeAt(idx) = chain[idx + 1]
    BY <1>1, <1>2, <1>3 DEF NodeAt
  <1>5. PassedTo(idx) \subseteq live
    BY <1>1, PassedIsLive DEF PassedTo
  <1> QED
    BY <1>1, <1>4, <1>5, LineOfNodes

\* The ends of a list and the neighbours of its nodes.
LEMMA Neighbours ==
    ASSUME IInv, allocated, ~skewed
    PROVE  /\ length /= 0 => head \in live /\ tail \in live
           /\ \A m \in live : /\ Through(next, m) \in live \cup {Null}
                              /\ Through(prev, m) \in live \cup {Null}
                              /\ m /= tail => Through(next, m) \in live
                              /\ m /= head => Through(prev, m) \in live
  <1>1. length /= 0 => /\ 1 \in 1..length /\ length \in 1..length
                       /\ head = chain[1] /\ tail = chain[length]
    BY LineOfNodes DEF IInv, LinkedBothWays
  <1>2. ASSUME NEW m \in live
        PROVE  /\ m = tail => Through(next, m) = Null
               /\ m /= tail => Through(next, m) \in live
               /\ m = head => Through(prev, m) = Null
               /\ m /= head => Through(prev, m) \in live
    <2>1. PICK i \in 1..length : m = chain[i] /\ m \in Nodes
      BY LineOfNodes
    <2>2. length \in Nat /\ length /= 0
      BY <2>1, LineOfNodes
    <2>3. m = tail => Through(next, m) = Null
      BY <2>1, <2>2, <1>1 DEF Through, IInv, LinkedBothWays
    <2>4. m = head => Through(prev, m) = Null
      BY <2>1, <2>2, <1>1 DEF Through, IInv, LinkedBothWays
    <2>5. ASSUME m /= tail PROVE Through(next, m) \in live
      <3>1. i \in 1..length - 1 /\ i + 1 \in 1..length
        BY <1>1, <2>1, <2>2, <2>5
      <3> QED
        BY <2>1, <3>1, LineOfNodes DEF Through, IInv, LinkedBothWays
    <2>6. ASSUME m /= head PROVE Through(prev, m) \in live
      <3>1. i - 1 \in 1..length - 1 /\ i - 1 \in 1..length /\ i - 1 + 1 = i
        BY <1>1, <2>1, <2>2, <2>6
      <3>2. prev[chain[i - 1 + 1]] = chain[i - 1]
        BY <3>1 DEF IInv, LinkedBothWays
      <3> QED
        BY <2>1, <3>1, <3>2, LineOfNodes DEF Through
    <2> QED
      BY <2>3, <2>4, <2>5, <2>6
  <1> QED
    BY <1>1, <1>2, LineOfNodes

LEMMA ReadIsSound ==
    ASSUME IInv, ~skewed, NEW idx \in Indices,
           AddInside(idx) \/ LinkedList_PeekAt(idx) \/ LinkedList_NodeAt(idx) \/ PopInside(idx)
    PROVE  fault' = fault
  <1>0. CASE ~allocated
    BY <1>0 DEF AddInside, LinkedList_PeekAt, LinkedList_NodeAt, PopInside, Call, Usable
  <1>1. CASE allocated /\ AddInside(idx)
    <2>1. idx + 1 \in 0..length
      BY <1>1, Types DEF AddInside
    <2>2. Passed(next, head, idx + 1) \subseteq live
      BY <1>1, <2>1, PassedIsLive
    <2> QED
      BY <1>1, <2>2 DEF AddInside, Call
  <1>2. CASE allocated /\ ~AddInside(idx)
    <2>1. idx \in 0..length - 1
      BY <1>2, Types DEF LinkedList_PeekAt, LinkedList_NodeAt, PopInside
    <2>2. PassedTo(idx) \subseteq live /\ NodeAt(idx) \in live
      BY <1>2, <2>1, IndexLeads
    <2> QED
      BY <1>2, <2>2 DEF LinkedList_PeekAt, LinkedList_NodeAt, PopInside, Call
  <1> QED
    BY <1>0, <1>1, <1>2

LEMMA EndsAreSound ==
    ASSUME IInv, ~skewed,
           LinkedList_AddEnd \/ LinkedList_PopStart \/ LinkedList_PopEnd \/ RefuseIndex
    PROVE  fault' = fault
  <1>1. allocated
    BY DEF LinkedList_AddEnd, LinkedList_PopStart, LinkedList_PopEnd, RefuseIndex, Call, Usable
  <1>2. length /= 0 => /\ head \in live /\ tail \in live
                       /\ Through(next, head) \in live \cup {Null}
                       /\ Through(prev, tail) \in live \cup {Null}
    BY <1>1, Neighbours
  <1>3. CASE LinkedList_AddEnd
    BY <1>2, <1>3 DEF LinkedList_AddEnd, Call
  <1>4. CASE LinkedList_PopStart
    BY <1>2, <1>4 DEF LinkedList_PopStart, Call
  <1>5. CASE LinkedList_PopEnd
    BY <1>2, <1>5 DEF LinkedList_PopEnd, Call
  <1>6. CASE RefuseIndex
    BY <1>6 DEF RefuseIndex, Call
  <1> QED
    BY <1>3, <1>4, <1>5, <1>6

LEMMA OperationFaults ==
    ASSUME IInv, Operation, fault' /= fault
    PROVE  CallersFault
  <1> SUFFICES ASSUME ~skewed PROVE CallersFault
    BY DEF CallersFault
  <1>1. CASE LinkedList_AddStart
    <2>1. allocated /\ head \notin live
      BY <1>1 DEF LinkedList_AddStart, Call, Usable
    <2>2. length = 0
      BY <2>1, Neighbours
    <2> QED
      BY <1>1, <2>2 DEF CallersFault
  <1>2. CASE LinkedList_RemoveNode
    <2>1. allocated
      BY <1>2 DEF LinkedList_RemoveNode, RemoveOnly, RemoveHead, RemoveTail, RemoveInner, Remove, Call, Usable
    <2>2. CASE cursor \notin live
      BY <1>2, <2>2 DEF CallersFault, LinkedList_RemoveNode
    <2>3. CASE cursor \in live
      <3>1. length \in Nat /\ length /= 0 /\ \E k \in 1..length : cursor = chain[k]
        BY <2>1, <2>3, LineOfNodes
      <3>2. PICK k \in 1..length : cursor = chain[k]
        BY <3>1
      <3>3. head = chain[1] /\ tail = chain[length]
        BY <2>1, <3>1 DEF IInv, LinkedBothWays
      <3>4. length /= 1 => ~(cursor = head /\ cursor = tail)
        <4>1. 1 \in 1..length /\ length \in 1..length
          BY <3>1
        <4> QED
          BY <2>1, <3>3, <4>1, LineOfNodes
      <3>5. /\ cursor /= tail => Through(next, cursor) \in live
            /\ cursor /= head => Through(prev, cursor) \in live
        BY <2>1, <2>3, Neighbours
      <3>6. fault' = fault
        <4>1. CASE RemoveOnly
          BY <2>3, <4>1 DEF RemoveOnly, Remove, Call
        <4>2. CASE RemoveHead
          BY <2>3, <3>4, <3>5, <4>2 DEF RemoveHead, Remove, Call
        <4>3. CASE RemoveTail
          BY <2>3, <3>5, <4>3 DEF RemoveTail, Remove, Call
        <4>4. CASE RemoveInner
          BY <2>3, <3>5, <4>4 DEF RemoveInner, Remove, Call
        <4> QED
          BY <1>2, <4>1, <4>2, <4>3, <4>4 DEF LinkedList_RemoveNode
      <3> QED
        BY <3>6
    <2> QED
      BY <2>2, <2>3
  <1>3. CASE LinkedList_Next
    <2>1. allocated
      BY <1>3 DEF LinkedList_Next, Call, Usable
    <2>2. CASE cursor \notin live \cup {Null} \/ (cursor /= Null /\ cursor = tail)
      BY <1>3, <2>2 DEF CallersFault
    <2>3. CASE cursor \in live \cup {Null} /\ ~(cursor /= Null /\ cursor = tail)
      <3>1. length /= 0 => head \in live
        BY <2>1, Neighbours
      <3>2. cursor /= Null => Through(next, cursor) \in live
        BY <2>1, <2>3, Neighbours
      <3>3. fault' = fault
        BY <1>3, <2>3, <3>1, <3>2 DEF LinkedList_Next, Call
      <3> QED
        BY <3>3
    <2> QED
      BY <2>2, <2>3
  <1> QED
    BY <1>1, <1>2, <1>3, ReadIsSound, EndsAreSound DEF Operation

\* Whatever the threads interleave, a pointer followed under the mutex is to a
\* live node, but for the callers' faults and the calls that overlap Free.
THEOREM FaultsCorrect == ConcurrentSpec => FaultsAreCallers
  <1>1. ASSUME ConcurrentIInv, [ConcurrentNext]_concurrentVars
        PROVE  [fault' /= fault => CallersFault \/ \E t \in waiting : LateCall(t)]_concurrentVars
    <2> SUFFICES ASSUME fault' /= fault PROVE CallersFault \/ \E t \in waiting : LateCall(t)
      OBVIOUS
    <2>1. IInv
      BY <1>1 DEF ConcurrentIInv
    <2>2. ASSUME NEW t \in Threads, Perform(t) PROVE CallersFault
      BY <2>1, <2>2, OperationFaults DEF Perform
    <2>3. ASSUME NEW t \in Threads, LateCall(t) PROVE \E s \in waiting : LateCall(s)
      BY <2>3 DEF LateCall
    <2>4. ASSUME NEW t \in Threads, Enter(t) \/ FreeInner(t) \/ FreeOuter(t) PROVE FALSE
      BY <2>4 DEF Enter, FreeInner, FreeOuter, LinkedList_Free, vars
    <2>5. ~ConcurrentLinkedList_Create /\ ~UNCHANGED concurrentVars
      BY DEF ConcurrentLinkedList_Create, LinkedList_Create, concurrentVars, vars
    <2> QED
      BY <1>1, <2>2, <2>3, <2>4, <2>5 DEF ConcurrentNext
  <1> QED
    BY <1>1, Invariance, PTL DEF ConcurrentSpec, FaultsAreCallers

-----------------------------------------------------------------------------
(* Every call is one of the line's.                                        *)

USE DEF Line!Done

\* A call that does not fault had pointers to live nodes.
LEMMA Sound ==
    ASSUME Usable, fault' = fault
    PROVE  ~(fault' = "null") /\ ~(fault' = "freed")
  BY DEF Usable

LEMMA Room ==
    ASSUME IInv, allocated, NEW n \in Nodes \ live
    PROVE  Line!CanPush
  BY LineOfNodes DEF Line!CanPush

LEMMA Something ==
    ASSUME IInv, allocated, length /= 0
    PROVE  Line!CanPop
  <1>1. Len(chain) /= 0
    BY LineOfNodes
  <1> QED
    BY <1>1, EmptySeq DEF Line!CanPop

LEMMA AddsToLine ==
    ASSUME IInv, fault' = fault, LinkedList_AddStart \/ LinkedList_AddEnd
    PROVE  Line!ListNext
  <1>1. allocated /\ allocated' = allocated /\ fault = "none"
    BY Sound DEF LinkedList_AddStart, LinkedList_AddEnd, Call, Usable
  <1>2. CASE LinkedList_AddStart
    <2>1. PICK n \in Nodes \ live : /\ chain' = <<n>> \o chain /\ ok' = TRUE /\ out' = out
                                 /\ call' = <<"pushFront">>
      BY <1>1, <1>2, Sound DEF LinkedList_AddStart, Call, Add
    <2>2. Line!PushFront(n) /\ n \in Nodes
      BY <1>1, <2>1, Room DEF Line!PushFront
    <2> QED
      BY <2>2 DEF Line!ListNext, Line!DequeNext
  <1>3. CASE LinkedList_AddEnd
    <2>1. PICK n \in Nodes \ live : /\ chain' = Append(chain, n) /\ ok' = TRUE /\ out' = out
                                 /\ call' = <<"push">>
      BY <1>1, <1>3, Sound DEF LinkedList_AddEnd, Call, Add
    <2>2. Line!Push(n) /\ n \in Nodes
      BY <1>1, <2>1, Room DEF Line!Push
    <2> QED
      BY <2>2 DEF Line!ListNext, Line!DequeNext, Line!Next
  <1> QED
    BY <1>2, <1>3

LEMMA PopStartPops ==
    ASSUME IInv, ~skewed, fault' = fault, LinkedList_PopStart
    PROVE  Line!Pop
  <1>1. /\ allocated /\ allocated' = allocated /\ length /= 0 /\ out' = head /\ head \in live
        /\ call' = <<"pop">>
        /\ Unlink(head, next, Unset(prev, Through(next, head)))
    BY Sound DEF LinkedList_PopStart, Call, Usable
  <1>2. /\ length \in Nat \ {0} /\ length = Len(chain) /\ 1 \in 1..length /\ head = chain[1]
        /\ chain \in Seq(Nodes)
    BY <1>1, LineOfNodes, Types DEF IInv, LinkedBothWays
  <1>3. /\ length' = length - 1 /\ \A i \in 1..length - 1 : chain'[i] = chain[i + 1]
    BY <1>1, <1>2, UnlinkMoves
  <1>4. chain' \in Seq(Nodes) /\ Len(chain') = length' /\ ok' = TRUE
    BY <1>1, RemovingOwns
  <1>5. Line!CanPop
    BY <1>1, Something
  <1>6. /\ Tail(chain) \in Seq(Nodes) /\ Len(Tail(chain)) = length - 1
        /\ \A i \in 1..length - 1 : Tail(chain)[i] = chain[i + 1]
        /\ Head(chain) = chain[1]
    BY <1>2, <1>5, HeadTailProperties DEF Line!CanPop
  <1>7. chain' = Tail(chain)
    BY <1>3, <1>4, <1>6, SeqEqual
  <1> QED
    BY <1>1, <1>2, <1>4, <1>5, <1>6, <1>7 DEF Line!Pop

LEMMA PopEndPops ==
    ASSUME IInv, ~skewed, fault' = fault, LinkedList_PopEnd
    PROVE  Line!PopBack
  <1>1. /\ allocated /\ allocated' = allocated /\ length /= 0 /\ out' = tail /\ tail \in live
        /\ call' = <<"popBack">>
        /\ Unlink(tail, Unset(next, Through(prev, tail)), prev)
    BY Sound DEF LinkedList_PopEnd, Call, Usable
  <1>2. /\ length \in Nat \ {0} /\ length = Len(chain) /\ length \in 1..length
        /\ tail = chain[length] /\ chain \in Seq(Nodes)
    BY <1>1, LineOfNodes, Types DEF IInv, LinkedBothWays
  <1>3. /\ length' = length - 1 /\ \A i \in 1..length - 1 : chain'[i] = chain[i]
    BY <1>1, <1>2, UnlinkMoves
  <1>4. chain' \in Seq(Nodes) /\ Len(chain') = length' /\ ok' = TRUE
    BY <1>1, RemovingOwns
  <1> DEFINE rest == SubSeq(chain, 1, Len(chain) - 1)
  <1>5. /\ rest \in Seq(Nodes) /\ Len(rest) = length - 1
        /\ \A i \in 1..length - 1 : rest[i] = chain[i]
    <2>1. \A i \in 1..length - 1 : chain[i] \in Nodes
      BY <1>1, LineOfNodes
    <2>2. /\ rest \in Seq(Nodes)
          /\ Len(rest) = IF 1 <= length - 1 THEN length - 1 - 1 + 1 ELSE 0
          /\ \A i \in 1..length - 1 - 1 + 1 : rest[i] = chain[1 + i - 1]
      BY <1>2, <2>1, SubSeqProperties
    <2> HIDE DEF rest
    <2> QED
      BY <1>2, <2>2
  <1> HIDE DEF rest
  <1>6. chain' = rest
    BY <1>3, <1>4, <1>5, SeqEqual
  <1>7. Line!CanPop
    BY <1>1, Something
  <1> QED
    BY <1>1, <1>2, <1>4, <1>6, <1>7 DEF Line!PopBack, rest

LEMMA RemovesFromLine ==
    ASSUME IInv, fault' = fault, LinkedList_RemoveNode
    PROVE  Line!ListNext
  <1>1. /\ allocated /\ allocated' = allocated /\ cursor \in live /\ out' = out
        /\ call' = <<"remove">>
        /\ \E newNext, newPrev : Unlink(cursor, newNext, newPrev)
    BY Sound DEF LinkedList_RemoveNode, RemoveOnly, RemoveHead, RemoveTail, RemoveInner, Remove, Call, Usable
  <1>2. PICK newNext, newPrev : Unlink(cursor, newNext, newPrev)
    BY <1>1
  <1>3. /\ length /= 0 /\ ok' = TRUE
        /\ \E k \in 1..length :
              chain' = SubSeq(chain, 1, k - 1) \o SubSeq(chain, k + 1, Len(chain))
    BY <1>1, <1>2, RemovingOwns
  <1>4. length = Len(chain) /\ DOMAIN chain = 1..Len(chain)
    BY <1>1, LineOfNodes, Types
  <1>5. PICK k \in DOMAIN chain :
            chain' = SubSeq(chain, 1, k - 1) \o SubSeq(chain, k + 1, Len(chain))
    BY <1>3, <1>4
  <1>6. Line!Remove
    BY <1>1, <1>3, <1>5, Something DEF Line!Remove, Line!WithoutAt
  <1> QED
    BY <1>6 DEF Line!ListNext

\* The item at an index is read, or found.
LEMMA PeekReads ==
    ASSUME IInv, ~skewed, fault' = fault, NEW idx \in Indices, LinkedList_PeekAt(idx)
    PROVE  Line!ReadAt(idx)
  <1>1. /\ allocated /\ allocated' = allocated /\ idx \in 0..length - 1
        /\ out' = NodeAt(idx) /\ call' = <<"at", idx>> /\ ok' = TRUE /\ chain' = chain
    BY Sound DEF LinkedList_PeekAt, Call, Usable, Reads
  <1>2. NodeAt(idx) = chain[idx + 1] /\ length = Len(chain)
    BY <1>1, IndexLeads, LineOfNodes
  <1> QED
    BY <1>1, <1>2 DEF Line!ReadAt, Line!Inside

LEMMA NodeAtLocates ==
    ASSUME IInv, ~skewed, fault' = fault, NEW idx \in Indices, LinkedList_NodeAt(idx)
    PROVE  Line!Locate(idx) /\ cursor' = chain[idx + 1]
  <1>1. /\ allocated /\ allocated' = allocated /\ idx \in 0..length - 1
        /\ cursor' = NodeAt(idx) /\ call' = <<"nodeAt", idx>> /\ ok' = TRUE
        /\ out' = out /\ chain' = chain
    BY Sound DEF LinkedList_NodeAt, Call, Usable, Reads
  <1>2. NodeAt(idx) = chain[idx + 1] /\ length = Len(chain)
    BY <1>1, IndexLeads, LineOfNodes
  <1> QED
    BY <1>1, <1>2 DEF Line!Locate, Line!Inside

LEMMA NextReads ==
    ASSUME IInv, fault' = fault, LinkedList_Next
    PROVE  Line!GoOn
  <1>1. /\ allocated /\ allocated' = allocated /\ call' = <<"next">> /\ ok' = TRUE
        /\ chain' = chain
    BY Sound DEF LinkedList_Next, Call, Usable, Reads
  <1>2. length = Len(chain) /\ DOMAIN chain = 1..Len(chain) /\ chain \in Seq(Nodes)
    BY <1>1, LineOfNodes, Types
  <1>3. CASE length = 0
    <2>1. out' = NoNode
      BY <1>3, Sound DEF LinkedList_Next, Call, Usable
    <2>2. chain = <<>>
      BY <1>2, <1>3, EmptySeq
    <2> QED
      BY <1>1, <2>1, <2>2 DEF Line!GoOn
  <1>4. CASE length /= 0
    <2>1. out' \in live
      BY <1>4, Sound DEF LinkedList_Next, Call, Usable
    <2>2. \E i \in DOMAIN chain : out' = chain[i]
      BY <1>1, <1>2, <2>1, LineOfNodes
    <2> QED
      BY <1>1, <2>2 DEF Line!GoOn
  <1> QED
    BY <1>3, <1>4

\* Next goes from a node, or from before the first, to the one behind it.
LEMMA NextGoesOn ==
    ASSUME IInv, ~skewed, fault' = fault, LinkedList_Next,
           NEW i \in 0..length - 1, cursor = ChainAt(i)
    PROVE  cursor' = chain[i + 1]
  <1>1. allocated /\ length /= 0 /\ length = Len(chain) /\ DOMAIN chain = 1..length
    <2>1. allocated
      BY DEF LinkedList_Next, Call, Usable
    <2> QED
      BY <2>1, LineOfNodes, Types
  <1>2. cursor' = IF cursor = Null THEN head ELSE Through(next, cursor)
    BY <1>1, Sound DEF LinkedList_Next, Call, Usable
  <1>3. CASE i = 0
    <2>1. cursor = Null
      BY <1>1, <1>3 DEF ChainAt
    <2> QED
      BY <1>1, <1>2, <1>3, <2>1 DEF IInv, LinkedBothWays
  <1>4. CASE i /= 0
    <2>1. i \in 1..length - 1 /\ i \in 1..length
      BY <1>1, <1>4, Types
    <2>2. cursor = chain[i] /\ cursor \in Nodes
      BY <1>1, <2>1, LineOfNodes DEF ChainAt
    <2>3. next[chain[i]] = chain[i + 1]
      BY <1>1, <2>1 DEF IInv, LinkedBothWays
    <2> QED
      BY <1>2, <2>2, <2>3 DEF Through
  <1> QED
    BY <1>3, <1>4

\* What the list refuses, the line refuses; PopAt inside the list refuses more.
LEMMA RefusesOnLine ==
    ASSUME IInv, RefuseIndex
    PROVE  Line!ListNext
  <1>1. allocated /\ allocated' = allocated /\ ok' = FALSE /\ chain' = chain /\ out' = out
    BY DEF RefuseIndex, Call, Usable, Refuse
  <1>2. length = Len(chain) /\ length \in Nat
    BY <1>1, LineOfNodes
  <1> USE DEF Line!Refused
  <1>3. ASSUME NEW c \in {"pop", "popBack", "peek", "peekBack"}, length = 0, call' = <<c>>
        PROVE  Line!ListNext
    <2>1. ~Line!CanPop
      BY <1>2, <1>3, Types, EmptySeq DEF Line!CanPop
    <2>2. Line!Refuse \/ Line!DequeRefuse
      BY <1>1, <1>3, <2>1 DEF Line!Refuse, Line!DequeRefuse
    <2> QED
      BY <2>2 DEF Line!ListNext, Line!DequeNext, Line!Next
  <1>4. ASSUME NEW c \in {"popAt", "at", "nodeAt"}, NEW idx \in Indices, idx >= length,
               call' = <<c, idx>>
        PROVE  Line!ListNext
    <2>1. ~Line!Inside(idx) /\ idx \in Line!Indices
      BY <1>2, <1>4, Types DEF Line!Inside, Line!Indices, Indices
    <2>2. Line!DequeRefuse \/ Line!ListRefuse
      BY <1>1, <1>4, <2>1 DEF Line!DequeRefuse, Line!ListRefuse
    <2> QED
      BY <2>2 DEF Line!ListNext, Line!DequeNext
  <1>5. ASSUME NEW idx \in Indices, idx > length, call' = <<"pushAt", idx>>
        PROVE  Line!ListNext
    <2>1. idx > Len(chain) /\ idx \in Line!Indices
      BY <1>2, <1>5 DEF Line!Indices, Indices
    <2>2. Line!ListRefuse
      BY <1>1, <1>5, <2>1 DEF Line!ListRefuse
    <2> QED
      BY <2>2 DEF Line!ListNext
  <1> QED
    BY <1>3, <1>4, <1>5 DEF RefuseIndex, Call

PopAtRefuses == \E i \in 1..Len(chain) - 2 : Line!Refused(<<"popAt", i>>)

LEMMA PopInsideRefuses ==
    ASSUME IInv, fault' = fault, NEW idx \in Indices, PopInside(idx)
    PROVE  PopAtRefuses
  <1>1. /\ allocated /\ allocated' = allocated /\ idx \in 1..length - 2
        /\ call' = <<"popAt", idx>> /\ ok' = FALSE /\ chain' = chain /\ out' = out
    BY Sound DEF PopInside, Call, Usable, Refuse
  <1>2. length = Len(chain)
    BY <1>1, LineOfNodes
  <1> QED
    BY <1>1, <1>2 DEF PopAtRefuses, Line!Refused

LEMMA OperationIsLines ==
    ASSUME IInv, ~skewed', fault' = fault, Operation
    PROVE  Line!ListNext \/ PopAtRefuses
  <1>1. ~skewed
    BY Sound DEF Operation, LinkedList_AddStart, LinkedList_AddEnd, AddInside, LinkedList_PopStart,
       LinkedList_PopEnd, PopInside, LinkedList_RemoveNode, RemoveOnly, RemoveHead, RemoveTail,
       RemoveInner, Remove, LinkedList_PeekAt, LinkedList_NodeAt, LinkedList_Next, RefuseIndex,
       Refuse, Reads, Call, Usable, Unlink, Add
  <1>2. ASSUME NEW idx \in Indices PROVE ~AddInside(idx)
    BY <1>1, Sound DEF AddInside, Call, Usable
  <1>3. Indices = Line!Indices
    BY DEF Indices, Line!Indices
  <1> USE DEF Line!ListNext, Line!DequeNext, Line!Next
  <1>4. CASE LinkedList_PopStart \/ LinkedList_PopEnd
    BY <1>1, <1>4, PopStartPops, PopEndPops
  <1>5. ASSUME NEW idx \in Indices, LinkedList_PeekAt(idx) \/ LinkedList_NodeAt(idx)
        PROVE  Line!ListNext
    BY <1>1, <1>3, <1>5, PeekReads, NodeAtLocates
  <1>6. CASE LinkedList_Next
    BY <1>6, NextReads
  <1> HIDE DEF Line!ListNext, Line!DequeNext, Line!Next
  <1> QED
    BY <1>2, <1>4, <1>5, <1>6, AddsToLine, RemovesFromLine, RefusesOnLine, PopInsideRefuses
       DEF Operation

\* What a step does to the line, in the words of ActsAsLine.
StepActsAsLine ==
    fault' = fault /\ ~skewed' =>
        /\ \/ Line!ListNext
           \/ \E i \in 1..Len(chain) - 2 : Line!Refused(<<"popAt", i>>)
           \/ UNCHANGED Line!vars
        /\ \A idx \in Indices : LinkedList_NodeAt(idx) => cursor' = chain[idx + 1]
        /\ \A i \in 0..length - 1 :
              LinkedList_Next /\ cursor = ChainAt(i) => cursor' = chain[i + 1]

LEMMA StepIsLines ==
    ASSUME ConcurrentIInv, [ConcurrentNext]_concurrentVars
    PROVE  StepActsAsLine
  <1> SUFFICES ASSUME fault' = fault, ~skewed' PROVE
                  /\ Line!ListNext \/ PopAtRefuses \/ UNCHANGED Line!vars
                  /\ \A idx \in Indices : LinkedList_NodeAt(idx) => cursor' = chain[idx + 1]
                  /\ \A i \in 0..length - 1 :
                        LinkedList_Next /\ cursor = ChainAt(i) => cursor' = chain[i + 1]
    BY DEF StepActsAsLine, PopAtRefuses
  <1>1. IInv
    BY DEF ConcurrentIInv
  <1>2. Line!ListNext \/ PopAtRefuses \/ UNCHANGED Line!vars
    <2> USE DEF Line!ListNext, Line!DequeNext, Line!Next
    <2>1. ASSUME NEW t \in Threads, Perform(t) PROVE Line!ListNext \/ PopAtRefuses
      <3> HIDE DEF Line!ListNext
      <3> QED
        BY <1>1, <2>1, OperationIsLines DEF Perform
    <2>2. ASSUME NEW t \in Threads, FreeInner(t) PROVE Line!ListNext
      BY <2>2 DEF FreeInner, LinkedList_Free, Usable, Line!Close
    <2>3. ASSUME NEW t \in Threads, Enter(t) \/ FreeOuter(t) PROVE UNCHANGED Line!vars
      BY <2>3 DEF Enter, FreeOuter, vars, ends, Line!vars
    <2>4. ASSUME NEW t \in Threads PROVE ~LateCall(t)
      BY DEF LateCall
    <2>5. CASE ConcurrentLinkedList_Create
      <3>1. chain = <<>>
        BY <1>1, <2>5 DEF ConcurrentLinkedList_Create, LinkedList_Create, IInv, NothingLeft
      <3>2. Line!Reopen
        BY <2>5, <3>1, Types, <1>1
           DEF ConcurrentLinkedList_Create, LinkedList_Create, Line!Reopen
      <3> QED
        BY <3>2
    <2>6. CASE UNCHANGED concurrentVars
      BY <2>6 DEF concurrentVars, vars, ends, Line!vars
    <2> HIDE DEF Line!ListNext, Line!DequeNext, Line!Next
    <2> QED
      BY <2>1, <2>2, <2>3, <2>4, <2>5, <2>6 DEF ConcurrentNext
  <1>3. ASSUME NEW idx \in Indices, LinkedList_NodeAt(idx) PROVE cursor' = chain[idx + 1]
    <2>1. ~skewed
      BY <1>3, Sound DEF LinkedList_NodeAt, Call, Usable, Reads
    <2> QED
      BY <1>1, <1>3, <2>1, NodeAtLocates
  <1>4. ASSUME NEW i \in 0..length - 1, LinkedList_Next, cursor = ChainAt(i)
        PROVE  cursor' = chain[i + 1]
    <2>1. ~skewed
      BY <1>4, Sound DEF LinkedList_Next, Call, Usable, Reads
    <2> QED
      BY <1>1, <1>4, <2>1, NextGoesOn
  <1> QED
    BY <1>2, <1>3, <1>4

\* Every call does to the nodes what the call of its name does to a line of items
\* and refuses only what the line cannot carry out; excepted are the calls that
\* fault, AddAt inside the list and what comes after it, and PopAt inside the
\* list, which refuses an item that is there.
THEOREM LineCorrect == ConcurrentSpec => ActsAsLine
  <1>1. ConcurrentInit => Line!Init
    BY DEF ConcurrentInit, Init, Line!Init
  <1>2. ConcurrentIInv /\ [ConcurrentNext]_concurrentVars => [StepActsAsLine]_vars
    BY StepIsLines
  <1>3. ConcurrentSpec => Line!Init
    BY <1>1 DEF ConcurrentSpec
  <1>4. ConcurrentSpec => [][StepActsAsLine]_vars
    BY <1>2, Invariance, PTL DEF ConcurrentSpec
  <1>5. [][StepActsAsLine]_vars <=>
          [][fault' = fault /\ ~skewed' =>
                /\ \/ Line!ListNext
                   \/ \E i \in 1..Len(chain) - 2 : Line!Refused(<<"popAt", i>>)
                   \/ UNCHANGED Line!vars
                /\ \A idx \in Indices : LinkedList_NodeAt(idx) => cursor' = chain[idx + 1]
                /\ \A i \in 0..length - 1 :
                      LinkedList_Next /\ cursor = ChainAt(i) => cursor' = chain[i + 1]]_vars
    BY PTL DEF StepActsAsLine
  <1> QED
    BY <1>3, <1>4, <1>5 DEF ActsAsLine
=============================================================================
