----------------------------- MODULE QueueProofs -----------------------------
(***************************************************************************)
(* Proofs about the queue, for any number of nodes and any values: the     *)
(* pointers spell the line of pushed nodes, Queue_Free releases what is    *)
(* queued, and the list of nodes implements the Fifo.                      *)
(***************************************************************************)
EXTENDS Queue, SequenceLemmas

USE QueueAssumption DEF Done, Line!Done

\* A queue that was freed has nothing on it: Queue_Create starts from there.
FreedIsEmpty == ~allocated => chain = <<>>

IInv == WellFormed /\ FreedIsEmpty

-----------------------------------------------------------------------------
(* The line of nodes.                                                      *)

LEMMA ChainFacts ==
    ASSUME IInv
    PROVE  /\ chain \in Seq(Nodes) /\ Len(chain) \in Nat /\ DOMAIN chain = 1..Len(chain)
           /\ \A i \in 1..Len(chain) : chain[i] \in Nodes /\ chain[i] \in live
           /\ \A i, j \in 1..Len(chain) : chain[i] = chain[j] => i = j
           /\ chain = <<>> <=> Len(chain) = 0
           /\ \A n \in live : \E i \in 1..Len(chain) : n = chain[i]
  <1>1. /\ chain \in Seq(Nodes) /\ Len(chain) \in Nat /\ DOMAIN chain = 1..Len(chain)
        /\ \A i \in 1..Len(chain) : chain[i] \in Nodes
    BY DEF IInv, WellFormed, TypeOK
  <1>2. chain = <<>> <=> Len(chain) = 0
    BY <1>1, EmptySeq
  <1> QED
    BY <1>1, <1>2 DEF IInv, WellFormed, NodesOwned

\* The ends of the line of a queue.
LEMMA Ends ==
    ASSUME IInv, allocated
    PROVE  /\ length = Len(chain)
           /\ Len(chain) = 0 => head = Null /\ tail = Null
           /\ Len(chain) /= 0 => /\ head = chain[1] /\ head \in Nodes
                                 /\ tail = chain[Len(chain)] /\ tail \in Nodes
           /\ \A i \in 1..Len(chain) :
                 next[chain[i]] = IF i = Len(chain) THEN Null ELSE chain[i + 1]
  <1>1. length = Len(chain)
    BY DEF IInv, WellFormed, PointersSpellChain
  <1>2. Len(chain) = 0 => head = Null /\ tail = Null
    BY ChainFacts DEF IInv, WellFormed, PointersSpellChain
  <1>3. Len(chain) /= 0 => 1 \in 1..Len(chain) /\ Len(chain) \in 1..Len(chain)
    BY ChainFacts
  <1>4. Len(chain) /= 0 => head = chain[1] /\ tail = chain[Len(chain)]
    BY ChainFacts DEF IInv, WellFormed, PointersSpellChain
  <1>5. \A i \in 1..Len(chain) :
            next[chain[i]] = IF i = Len(chain) THEN Null ELSE chain[i + 1]
    BY ChainFacts DEF IInv, WellFormed, PointersSpellChain
  <1> QED
    BY <1>1, <1>2, <1>3, <1>4, <1>5, ChainFacts

\* The walk of Queue_Free follows the line and stays at NULL behind it.
LEMMA WalkFollowsLine ==
    ASSUME IInv, allocated
    PROVE  /\ Cardinality(Nodes) \in Nat /\ Len(chain) <= Cardinality(Nodes)
           /\ \A i \in 0..Cardinality(Nodes) :
                 Walk[i] = IF i < Len(chain) THEN chain[i + 1] ELSE Null
  <1> DEFINE n == Cardinality(Nodes)
             at == [i \in 0..n |-> IF i < Len(chain) THEN chain[i + 1] ELSE Null]
  <1>1. n \in Nat /\ Len(chain) <= n
    BY DistinctFits, ChainFacts
  <1>2. at = [i \in 0..n |-> IF i = 0 THEN head
                             ELSE IF at[i - 1] = Null THEN Null ELSE next[at[i - 1]]]
    <2>1. ASSUME NEW i \in 0..n
          PROVE  at[i] = IF i = 0 THEN head
                         ELSE IF at[i - 1] = Null THEN Null ELSE next[at[i - 1]]
      <3>1. CASE i = 0
        BY <1>1, <3>1, Ends, ChainFacts
      <3>2. CASE i /= 0 /\ i - 1 < Len(chain)
        <4>1. i \in 1..Len(chain) /\ i - 1 \in 0..n /\ i - 1 + 1 = i
          BY <1>1, <3>2, ChainFacts
        <4>2. at[i - 1] = chain[i] /\ chain[i] \in Nodes
          BY <3>2, <4>1, ChainFacts
        <4>3. next[chain[i]] = IF i = Len(chain) THEN Null ELSE chain[i + 1]
          BY <4>1, Ends
        <4>4. i = Len(chain) <=> ~(i < Len(chain))
          <5>1. Len(chain) \in Nat
            BY ChainFacts
          <5> QED
            BY <4>1, <5>1
        <4> QED
          BY <3>2, <4>2, <4>3, <4>4
      <3>3. CASE i /= 0 /\ ~(i - 1 < Len(chain))
        BY <1>1, <3>3, ChainFacts
      <3> QED
        BY <3>1, <3>2, <3>3
    <2> QED
      BY <2>1
  <1>3. Walk = [i \in 0..n |-> IF i = 0 THEN head
                               ELSE IF Walk[i - 1] = Null THEN Null ELSE next[Walk[i - 1]]]
    <2> HIDE DEF at
    <2> QED
      BY <1>2 DEF Walk
  <1> HIDE DEF at
  <1>4. /\ Walk[0] = at[0]
        /\ \A i \in 1..n : at[i - 1] = Walk[i - 1] => at[i] = Walk[i]
    BY <1>1, <1>2, <1>3
  <1> DEFINE agreed == {i \in 0..n : at[i] = Walk[i]}
  <1>5. 0 \in agreed /\ \A i \in 1..n : i - 1 \in agreed => i \in agreed
    BY <1>1, <1>4
  <1>6. 0..n \subseteq agreed
    <2> HIDE DEF agreed
    <2> QED
      BY <1>1, <1>5, UpTo
  <1>7. \A i \in 0..n : Walk[i] = at[i]
    BY <1>6
  <1> QED
    BY <1>1, <1>7 DEF at

\* What the walk reaches is the line, node by node.
LEMMA ReachedIsLine ==
    ASSUME IInv, allocated
    PROVE  /\ Reached = live /\ Cardinality(Reached) = Len(chain)
           /\ \A i \in 1..Len(chain) : Walk[i - 1] = chain[i]
  <1>1. ASSUME NEW i \in 1..Len(chain)
        PROVE  i - 1 \in 0..Cardinality(Nodes) /\ Walk[i - 1] = chain[i]
    <2>1. Len(chain) \in Nat
      BY ChainFacts
    <2>2. i - 1 \in 0..Cardinality(Nodes) /\ i - 1 < Len(chain) /\ i - 1 + 1 = i
      BY <2>1, WalkFollowsLine
    <2> QED
      BY <2>2, WalkFollowsLine
  <1>2. \A i \in 0..Cardinality(Nodes) : Walk[i] = Null \/ \E j \in 1..Len(chain) : Walk[i] = chain[j]
    <2>1. ASSUME NEW i \in 0..Cardinality(Nodes), i < Len(chain)
          PROVE  Walk[i] = chain[i + 1] /\ i + 1 \in 1..Len(chain)
      <3>1. Len(chain) \in Nat /\ Cardinality(Nodes) \in Nat
        BY ChainFacts, WalkFollowsLine
      <3> QED
        BY <2>1, <3>1, WalkFollowsLine
    <2> QED
      BY <2>1, WalkFollowsLine
  <1>3. Reached = {chain[i] : i \in DOMAIN chain}
    <2>1. Reached \subseteq {chain[i] : i \in DOMAIN chain}
      BY <1>2, ChainFacts DEF Reached
    <2>2. ASSUME NEW i \in DOMAIN chain PROVE chain[i] \in Reached
      BY <1>1, ChainFacts DEF Reached
    <2> QED
      BY <2>1, <2>2
  <1>4. Cardinality({chain[i] : i \in DOMAIN chain}) = Len(chain)
    BY DistinctFits, ChainFacts
  <1> QED
    BY <1>1, <1>3, <1>4 DEF IInv, WellFormed, NodesOwned

-----------------------------------------------------------------------------
(* Every operation keeps the invariant.                                    *)

LEMMA InitIInv == Init => IInv
  <1> SUFFICES ASSUME Init PROVE IInv
    OBVIOUS
  <1>1. chain = <<>> /\ DOMAIN chain = {} /\ Len(chain) = 0
    BY EmptySeq DEF Init
  <1> QED
    BY <1>1 DEF Init, IInv, WellFormed, TypeOK, PointersSpellChain, NodesOwned, FreedIsEmpty, Calls

LEMMA PushIInv ==
    ASSUME IInv, NEW v \in Values, Queue_Push(v)
    PROVE  IInv'
  <1>1. PICK n \in Nodes \ live :
           /\ live' = live \cup {n}
           /\ data' = [data EXCEPT ![n] = v]
           /\ next' = IF tail = Null THEN [next EXCEPT ![n] = Null]
                      ELSE [next EXCEPT ![n] = Null, ![tail] = n]
           /\ tail' = n
           /\ head' = HeadAfterPush(n)
           /\ chain' = Append(chain, n)
    BY DEF Queue_Push
  <1>2. /\ allocated /\ allocated' /\ length' = length + 1 /\ ok' = TRUE /\ call' \in Calls
        /\ UNCHANGED <<released, out>>
    BY DEF Queue_Push, IInv, WellFormed, TypeOK, Calls
  <1>3. /\ chain' \in Seq(Nodes) /\ Len(chain') = Len(chain) + 1
        /\ DOMAIN chain' = 1..Len(chain) + 1
        /\ \A i \in 1..Len(chain) : chain'[i] = chain[i]
        /\ chain'[Len(chain) + 1] = n
    <2>1. chain \in Seq(Nodes) /\ n \in Nodes
      BY <1>1, ChainFacts
    <2> QED
      BY <1>1, <2>1, AppendProperties
  <1>4. TypeOK'
    <2>1. next' \in [Nodes -> Nodes \cup {Null}]
      BY <1>1 DEF IInv, WellFormed, TypeOK
    <2>2. head' \in Nodes \cup {Null}
      BY <1>1 DEF IInv, WellFormed, TypeOK, HeadAfterPush
    <2>3. data' \in [Nodes -> Values \cup {NoValue}] /\ live' \subseteq Nodes
      BY <1>1 DEF IInv, WellFormed, TypeOK
    <2>4. tail' \in Nodes \cup {Null} /\ length' \in Nat
      BY <1>1, <1>2 DEF IInv, WellFormed, TypeOK
    <2> QED
      BY <1>2, <1>3, <2>1, <2>2, <2>3, <2>4 DEF IInv, WellFormed, TypeOK
  <1>5. Len(chain) \in Nat
    BY ChainFacts
  <1>6. PointersSpellChain'
    <2>1. length' = Len(chain')
      BY <1>2, <1>3, Ends
    <2>2. chain' /= <<>>
      BY <1>3, <1>5, EmptySeq
    <2>3. head' = chain'[1]
      BY <1>1, <1>2, <1>3, <1>5, Ends, ChainFacts DEF HeadAfterPush
    <2>4. tail' = chain'[Len(chain')]
      BY <1>1, <1>3
    <2>5. ASSUME NEW i \in 1..Len(chain) + 1
          PROVE  next'[chain'[i]] = IF i = Len(chain') THEN Null ELSE chain'[i + 1]
      <3>1. next \in [Nodes -> Nodes \cup {Null}] /\ n \in Nodes /\ n /= tail
        BY <1>1, <1>2, <1>5, Ends, ChainFacts DEF IInv, WellFormed, TypeOK
      <3>2. CASE i = Len(chain) + 1
        <4>1. next'[n] = Null
          BY <1>1, <3>1
        <4> QED
          BY <1>3, <3>2, <4>1
      <3>3. CASE i = Len(chain)
        <4>1. Len(chain) /= 0 /\ i \in 1..Len(chain)
          BY <1>5, <3>3
        <4>2. chain'[i] = tail /\ tail \in Nodes
          BY <1>2, <1>3, <3>3, <4>1, Ends
        <4>3. next'[tail] = n
          BY <1>1, <3>1, <4>2
        <4> QED
          BY <1>3, <1>5, <3>3, <4>2, <4>3
      <3>4. CASE i < Len(chain)
        <4>1. i \in 1..Len(chain) /\ i + 1 \in 1..Len(chain) /\ Len(chain) /= 0
              /\ Len(chain) \in 1..Len(chain) /\ i /= Len(chain) /\ i /= Len(chain) + 1
          BY <1>5, <3>4
        <4>2. /\ chain'[i] = chain[i] /\ chain[i] \in Nodes /\ chain[i] /= n
              /\ chain'[i + 1] = chain[i + 1] /\ chain[i] /= tail
          BY <1>1, <1>2, <1>3, <4>1, Ends, ChainFacts
        <4>3. next'[chain[i]] = next[chain[i]]
          BY <1>1, <3>1, <4>2
        <4>4. next[chain[i]] = chain[i + 1]
          BY <1>2, <4>1, Ends
        <4> QED
          BY <1>3, <4>1, <4>2, <4>3, <4>4
      <3> QED
        BY <1>5, <3>2, <3>3, <3>4
    <2> QED
      BY <1>3, <2>1, <2>2, <2>3, <2>4, <2>5 DEF PointersSpellChain
  <1>7. NodesOwned'
    <2>1. \A i \in DOMAIN chain' : i = Len(chain) + 1 \/ i \in 1..Len(chain)
      BY <1>3, <1>5
    <2>2. live' = {chain'[i] : i \in DOMAIN chain'}
      <3>1. ASSUME NEW m \in live' PROVE \E i \in DOMAIN chain' : m = chain'[i]
        BY <1>1, <1>3, <1>5, ChainFacts
      <3>2. ASSUME NEW i \in DOMAIN chain' PROVE chain'[i] \in live'
        BY <1>1, <1>3, <2>1, ChainFacts
      <3> QED
        BY <3>1, <3>2
    <2>3. ASSUME NEW i \in DOMAIN chain', NEW j \in DOMAIN chain', chain'[i] = chain'[j]
          PROVE  i = j
      BY <1>1, <1>3, <2>1, <2>3, ChainFacts
    <2> QED
      BY <2>2, <2>3 DEF NodesOwned
  <1> QED
    BY <1>2, <1>4, <1>6, <1>7 DEF IInv, WellFormed, FreedIsEmpty

LEMMA PopIInv ==
    ASSUME IInv, Queue_Pop
    PROVE  IInv'
  <1>1. /\ allocated /\ allocated' /\ length /= 0
        /\ out' = data[head] /\ live' = live \ {head} /\ length' = length - 1
        /\ head' = next[head] /\ tail' = TailAfterPop(next[head])
        /\ chain' = Tail(chain) /\ ok' = TRUE /\ call' \in Calls
        /\ UNCHANGED <<data, next, released>>
    BY DEF Queue_Pop, IInv, WellFormed, TypeOK, Calls
  <1>2. /\ length = Len(chain) /\ Len(chain) \in Nat \ {0} /\ chain /= <<>>
        /\ head = chain[1] /\ head \in Nodes /\ tail = chain[Len(chain)] /\ tail \in Nodes
    BY <1>1, Ends, ChainFacts
  <1>3. /\ chain' \in Seq(Nodes) /\ Len(chain') = Len(chain) - 1
        /\ DOMAIN chain' = 1..Len(chain) - 1
        /\ \A i \in 1..Len(chain) - 1 : chain'[i] = chain[i + 1]
    BY <1>1, <1>2, ChainFacts, HeadTailProperties
  <1>4. TypeOK'
    BY <1>1, <1>2, <1>3 DEF IInv, WellFormed, TypeOK, TailAfterPop
  <1>5. PointersSpellChain'
    <2>1. length' = Len(chain')
      BY <1>1, <1>2, <1>3
    <2>2. next[head] = IF Len(chain) = 1 THEN Null ELSE chain[2]
      <3>1. 1 \in 1..Len(chain)
        BY <1>2
      <3> QED
        BY <1>1, <1>2, <3>1, Ends
    <2>3. CASE Len(chain) = 1
      <3>1. chain' = <<>>
        BY <1>3, <2>3, EmptySeq
      <3>2. head' = Null /\ tail' = Null
        BY <1>1, <2>2, <2>3 DEF TailAfterPop
      <3> QED
        BY <1>3, <2>1, <2>3, <3>1, <3>2 DEF PointersSpellChain
    <2>4. CASE Len(chain) /= 1
      <3>1. chain' /= <<>> /\ 1 \in 1..Len(chain) - 1 /\ 2 \in 1..Len(chain)
            /\ Len(chain) - 1 \in 1..Len(chain) - 1
        BY <1>2, <1>3, <2>4, EmptySeq
      <3>2. head' = chain'[1]
        BY <1>1, <1>2, <1>3, <2>2, <2>4, <3>1
      <3>3. tail' = chain'[Len(chain')]
        <4>1. chain'[Len(chain) - 1] = chain[Len(chain)]
          BY <1>2, <1>3, <3>1
        <4>2. tail' = tail
          BY <1>1, <2>2, <2>4, <3>1, ChainFacts DEF TailAfterPop
        <4> QED
          BY <1>2, <1>3, <4>1, <4>2
      <3>4. ASSUME NEW i \in 1..Len(chain) - 1
            PROVE  next'[chain'[i]] = IF i = Len(chain') THEN Null ELSE chain'[i + 1]
        <4>1. i + 1 \in 1..Len(chain)
          BY <1>2
        <4>2. next[chain[i + 1]] = IF i + 1 = Len(chain) THEN Null ELSE chain[i + 1 + 1]
          BY <1>1, <4>1, Ends
        <4>3. i + 1 = Len(chain) \/ i + 1 \in 1..Len(chain) - 1
          BY <1>2
        <4>4. i + 1 = Len(chain) <=> i = Len(chain')
          BY <1>2, <1>3
        <4> QED
          BY <1>1, <1>3, <4>2, <4>3, <4>4
      <3> QED
        BY <1>3, <2>1, <3>1, <3>2, <3>3, <3>4 DEF PointersSpellChain
    <2> QED
      BY <2>3, <2>4
  <1>6. NodesOwned'
    <2>1. \A i \in DOMAIN chain' : i + 1 \in 1..Len(chain) /\ i + 1 /= 1
                                   /\ chain'[i] = chain[i + 1]
      BY <1>2, <1>3
    <2>2. live' = {chain'[i] : i \in DOMAIN chain'}
      <3>1. ASSUME NEW m \in live' PROVE \E i \in DOMAIN chain' : m = chain'[i]
        <4>1. PICK i \in 1..Len(chain) : m = chain[i]
          BY <1>1, ChainFacts
        <4>2. i /= 1
          BY <1>1, <1>2, <4>1
        <4>3. i - 1 \in 1..Len(chain) - 1 /\ i - 1 + 1 = i
          BY <1>2, <4>2
        <4> QED
          BY <1>3, <4>1, <4>3
      <3>2. ASSUME NEW i \in DOMAIN chain' PROVE chain'[i] \in live'
        <4>1. 1 \in 1..Len(chain)
          BY <1>2
        <4> QED
          BY <1>1, <1>2, <2>1, <4>1, ChainFacts
      <3> QED
        BY <3>1, <3>2
    <2>3. ASSUME NEW i \in DOMAIN chain', NEW j \in DOMAIN chain', chain'[i] = chain'[j]
          PROVE  i = j
      <3>1. i + 1 = j + 1
        BY <2>1, <2>3, ChainFacts
      <3>2. i \in Int /\ j \in Int
        BY <1>3
      <3> QED
        BY <3>1, <3>2
    <2> QED
      BY <2>2, <2>3 DEF NodesOwned
  <1> QED
    BY <1>1, <1>4, <1>5, <1>6 DEF IInv, WellFormed, FreedIsEmpty

\* Looking at the head, and a refusal, leave the queue alone.
LEMMA ReadIInv ==
    ASSUME IInv, Queue_Peek \/ RefuseEmpty
    PROVE  IInv'
  <1>1. UNCHANGED <<allocated, head, tail, length, live, data, next, released, chain>>
    BY DEF Queue_Peek, RefuseEmpty
  <1>2. call' \in Calls /\ ok' \in BOOLEAN /\ out' \in Values \cup {NoValue}
    <2>1. CASE Queue_Peek
      BY <2>1, Ends, ChainFacts DEF Queue_Peek, IInv, WellFormed, TypeOK, Calls
    <2>2. CASE RefuseEmpty
      BY <2>2 DEF RefuseEmpty, IInv, WellFormed, TypeOK, Calls
    <2> QED
      BY <2>1, <2>2
  <1> QED
    BY <1>1, <1>2 DEF IInv, WellFormed, TypeOK, PointersSpellChain, NodesOwned, FreedIsEmpty

\* What the deallocator gets when the queue is freed.
LEMMA Releases ==
    ASSUME IInv, Queue_Free
    PROVE  released' = Contents
  <1>1. /\ allocated
        /\ released' = [i \in 1..Cardinality(Reached) |-> data[Walk[i - 1]]]
    BY DEF Queue_Free
  <1>2. released' = [i \in 1..Len(chain) |-> data[chain[i]]]
    BY <1>1, ReachedIsLine
  <1> QED
    BY <1>2, ChainFacts DEF Contents

\* What Contents is: the data of the nodes of the line.
ContentsSpellChain ==
    /\ Contents \in Seq(Values \cup {NoValue})
    /\ Len(Contents) = Len(chain)
    /\ DOMAIN Contents = 1..Len(chain)
    /\ \A i \in 1..Len(chain) : Contents[i] = data[chain[i]]

LEMMA ContentsIsSeq == IInv => ContentsSpellChain
  <1> SUFFICES ASSUME IInv PROVE ContentsSpellChain
    OBVIOUS
  <1>1. /\ Contents = [i \in 1..Len(chain) |-> data[chain[i]]] /\ Len(chain) \in Nat
    BY ChainFacts DEF Contents
  <1>2. Contents \in [1..Len(chain) -> Values \cup {NoValue}]
    BY <1>1, ChainFacts DEF IInv, WellFormed, TypeOK
  <1> QED
    BY <1>1, <1>2, FunctionIsSeq DEF ContentsSpellChain

LEMMA FreeIInv ==
    ASSUME IInv, Queue_Free
    PROVE  IInv'
  <1>1. /\ allocated /\ allocated' = FALSE /\ live' = live \ Reached /\ chain' = <<>>
        /\ ok' = TRUE /\ call' \in Calls /\ UNCHANGED <<head, tail, length, data, next, out>>
    BY DEF Queue_Free, Calls
  <1>2. live' = {}
    BY <1>1, ReachedIsLine
  <1>3. DOMAIN chain' = {} /\ chain' \in Seq(Nodes)
    BY <1>1
  <1>4. released' \in Seq(Values \cup {NoValue})
    BY Releases, ContentsIsSeq DEF ContentsSpellChain
  <1>5. TypeOK'
    BY <1>1, <1>2, <1>3, <1>4 DEF IInv, WellFormed, TypeOK
  <1>6. (PointersSpellChain /\ NodesOwned)'
    BY <1>1, <1>2, <1>3 DEF PointersSpellChain, NodesOwned
  <1> QED
    BY <1>1, <1>2, <1>3, <1>5, <1>6 DEF IInv, WellFormed, FreedIsEmpty

LEMMA CreateIInv ==
    ASSUME IInv, Queue_Create
    PROVE  IInv'
  <1>1. chain = <<>> /\ DOMAIN chain = {} /\ Len(chain) = 0 /\ chain' = chain
    BY EmptySeq DEF Queue_Create, IInv, FreedIsEmpty
  <1>2. <<>> \in Seq(Values \cup {NoValue}) /\ <<"open">> \in Calls
    BY EmptySeq DEF Calls
  <1> QED
    BY <1>1, <1>2 DEF Queue_Create, IInv, WellFormed, TypeOK, PointersSpellChain, NodesOwned,
                      FreedIsEmpty

LEMMA StepIInv ==
    ASSUME IInv, [Next]_vars
    PROVE  IInv'
  <1>1. CASE UNCHANGED vars
    BY <1>1 DEF vars, IInv, WellFormed, TypeOK, PointersSpellChain, NodesOwned, FreedIsEmpty
  <1> QED
    BY <1>1, PushIInv, PopIInv, ReadIInv, FreeIInv, CreateIInv DEF Next

\* The inductive invariant of the queue, for any number of nodes.
THEOREM Invariance == Spec => []IInv
  BY InitIInv, StepIInv, PTL DEF Spec

\* The pointers of Queue_t and of its nodes spell the line of pushed nodes, and
\* each node is owned once, for any number of nodes.
THEOREM PointersCorrect == Spec => []WellFormed
  <1>1. IInv => WellFormed
    BY DEF IInv
  <1> QED
    BY <1>1, Invariance, PTL

\* Queue_Free hands the deallocator every value still queued, once each and in
\* order, for any number of nodes.
THEOREM FreeCorrect == Spec => FreeReleasesContents
  <1>1. IInv /\ [Next]_vars => [Queue_Free => released' = Contents]_vars
    BY Releases
  <1> QED
    BY <1>1, Invariance, PTL DEF Spec, FreeReleasesContents

-----------------------------------------------------------------------------
(* Every operation is one of the Fifo's.                                   *)

\* What is on the queue after an operation, from the nodes that are on it.
LEMMA ContentsAre ==
    ASSUME IInv', NEW line \in Seq(Values \cup {NoValue}), Len(line) = Len(chain'),
           \A i \in 1..Len(line) : line[i] = data'[chain'[i]]
    PROVE  Contents' = line
  <1>1. ContentsSpellChain'
    BY ContentsIsSeq, PTL
  <1> QED
    BY <1>1, SeqEqual DEF ContentsSpellChain

LEMMA ContentsKept ==
    ASSUME UNCHANGED <<data, chain>>
    PROVE  Contents' = Contents
  BY DEF Contents

LEMMA PushPushes ==
    ASSUME IInv, IInv', NEW v \in Values, Queue_Push(v)
    PROVE  Line!Push(v)
  <1>1. PICK n \in Nodes \ live :
           data' = [data EXCEPT ![n] = v] /\ chain' = Append(chain, n)
    BY DEF Queue_Push
  <1>2. /\ allocated /\ allocated' = allocated /\ out' = out
        /\ ok' = TRUE /\ call' = <<"push">>
    BY DEF Queue_Push
  <1>3. /\ Len(chain') = Len(chain) + 1 /\ Len(chain) \in Nat
        /\ \A i \in 1..Len(chain) : chain'[i] = chain[i]
        /\ chain'[Len(chain) + 1] = n
    <2>1. chain \in Seq(Nodes) /\ n \in Nodes
      BY <1>1, ChainFacts
    <2> QED
      BY <1>1, <2>1, AppendProperties, ChainFacts
  <1>4. /\ Append(Contents, v) \in Seq(Values \cup {NoValue})
        /\ Len(Append(Contents, v)) = Len(chain) + 1
        /\ \A i \in 1..Len(chain) : Append(Contents, v)[i] = data[chain[i]]
        /\ Append(Contents, v)[Len(chain) + 1] = v
    BY ContentsIsSeq, AppendProperties DEF ContentsSpellChain
  <1>5. ASSUME NEW i \in 1..Len(chain) + 1
        PROVE  Append(Contents, v)[i] = data'[chain'[i]]
    <2>1. n \in Nodes /\ data \in [Nodes -> Values \cup {NoValue}]
      BY DEF IInv, WellFormed, TypeOK
    <2>2. CASE i = Len(chain) + 1
      BY <1>1, <1>3, <1>4, <2>1, <2>2
    <2>3. CASE i \in 1..Len(chain)
      <3>1. chain[i] \in Nodes /\ chain[i] /= n
        BY <1>1, <2>3, ChainFacts
      <3> QED
        BY <1>1, <1>3, <1>4, <2>1, <2>3, <3>1
    <2>4. i = Len(chain) + 1 \/ i \in 1..Len(chain)
      BY <1>3
    <2> QED
      BY <2>2, <2>3, <2>4
  <1>6. Contents' = Append(Contents, v)
    BY <1>3, <1>4, <1>5, ContentsAre
  <1>7. Len(Contents) < Cardinality(Nodes)
    <2>1. {chain[i] : i \in DOMAIN chain} /= Nodes
      BY <1>1, ChainFacts
    <2>2. chain \in Seq(Nodes) /\ \A i, j \in DOMAIN chain : chain[i] = chain[j] => i = j
      BY ChainFacts
    <2>3. Len(chain) < Cardinality(Nodes)
      BY <2>1, <2>2, DistinctFits
    <2> QED
      BY <2>3, ContentsIsSeq DEF ContentsSpellChain
  <1> QED
    BY <1>2, <1>6, <1>7 DEF Line!Push, Line!CanPush

\* The oldest value is that of the head.
LEMMA HeadIsOldest ==
    ASSUME IInv, allocated, length /= 0
    PROVE  Line!CanPop /\ Head(Contents) = data[head] /\ Len(chain) \in Nat \ {0}
  <1>1. Len(chain) \in Nat \ {0} /\ head = chain[1]
    BY Ends, ChainFacts
  <1>2. Len(Contents) /= 0 /\ Contents \in Seq(Values \cup {NoValue})
    BY <1>1, ContentsIsSeq DEF ContentsSpellChain
  <1>3. Contents /= <<>> /\ Head(Contents) = Contents[1]
    BY <1>2, EmptySeq
  <1>4. 1 \in 1..Len(chain)
    BY <1>1
  <1>5. Contents[1] = data[chain[1]]
    BY <1>4, ContentsIsSeq DEF ContentsSpellChain
  <1> QED
    BY <1>1, <1>3, <1>5 DEF Line!CanPop

LEMMA PopPops ==
    ASSUME IInv, IInv', Queue_Pop
    PROVE  Line!Pop
  <1>1. /\ allocated /\ length /= 0 /\ out' = data[head] /\ chain' = Tail(chain) /\ ok' = TRUE
        /\ allocated' = allocated /\ data' = data /\ call' = <<"pop">>
    BY DEF Queue_Pop
  <1>2. Line!CanPop /\ Head(Contents) = data[head] /\ Len(chain) \in Nat \ {0}
    BY <1>1, HeadIsOldest
  <1>3. /\ Contents \in Seq(Values \cup {NoValue}) /\ Contents /= <<>>
        /\ chain \in Seq(Nodes) /\ chain /= <<>>
    BY <1>2, ContentsIsSeq, ChainFacts DEF Line!CanPop, ContentsSpellChain
  <1>4. /\ Tail(Contents) \in Seq(Values \cup {NoValue})
        /\ Len(Tail(Contents)) = Len(chain) - 1
        /\ \A i \in 1..Len(chain) - 1 : Tail(Contents)[i] = Contents[i + 1]
        /\ Len(chain') = Len(chain) - 1
        /\ \A i \in 1..Len(chain) - 1 : chain'[i] = chain[i + 1]
    BY <1>1, <1>3, ContentsIsSeq, HeadTailProperties DEF ContentsSpellChain
  <1>5. ASSUME NEW i \in 1..Len(chain) - 1
        PROVE  Tail(Contents)[i] = data'[chain'[i]]
    <2>1. i + 1 \in 1..Len(chain)
      BY <1>2
    <2> QED
      BY <1>1, <1>4, <2>1, ContentsIsSeq DEF ContentsSpellChain
  <1>6. Contents' = Tail(Contents)
    BY <1>4, <1>5, ContentsAre
  <1> QED
    BY <1>1, <1>2, <1>6 DEF Line!Pop

LEMMA PeekPeeks ==
    ASSUME IInv, Queue_Peek
    PROVE  Line!Peek
  BY HeadIsOldest, ContentsKept DEF Queue_Peek, Line!Peek

LEMMA RefuseRefuses ==
    ASSUME IInv, RefuseEmpty
    PROVE  Line!Refuse
  <1>1. Len(chain) = 0
    BY Ends, ChainFacts DEF RefuseEmpty
  <1>2. Contents = <<>>
    BY <1>1, ContentsIsSeq, EmptySeq DEF ContentsSpellChain
  <1> QED
    BY <1>2, ContentsKept DEF RefuseEmpty, Line!CanPop, Line!Refused, Line!Refuse

\* Without nodes there is nothing on the queue.
LEMMA NothingOnIt ==
    ASSUME chain = <<>>
    PROVE  Contents = <<>>
  <1>1. DOMAIN chain = {}
    OBVIOUS
  <1> QED
    BY <1>1 DEF Contents

LEMMA FreeCloses ==
    ASSUME IInv, Queue_Free
    PROVE  Line!Close
  <1>1. Contents' = <<>>
    <2>1. chain' = <<>> /\ DOMAIN chain' = {}
      BY DEF Queue_Free
    <2> QED
      BY <2>1 DEF Contents
  <1> QED
    BY <1>1 DEF Queue_Free, Line!Close

LEMMA CreateReopens ==
    ASSUME IInv, Queue_Create
    PROVE  Line!Reopen
  <1>1. Contents = <<>>
    BY NothingOnIt DEF Queue_Create, IInv, FreedIsEmpty
  <1> QED
    BY <1>1, ContentsKept DEF Queue_Create, Line!Reopen

\* The list of nodes behaves like a first-in first-out line of as many values
\* as there are nodes, for any number of nodes and any values.
THEOREM Refinement == Spec => ImplementsFifo
  <1>1. Init => Line!Init
    BY NothingOnIt DEF Init, Line!Init
  <1>2. ASSUME IInv, IInv', [Next]_vars
        PROVE  [Line!Next]_(Line!vars)
    <2>1. CASE UNCHANGED vars
      BY <2>1, ContentsKept DEF vars, Line!vars
    <2> QED
      BY <1>2, <2>1, PushPushes, PopPops, PeekPeeks, RefuseRefuses, FreeCloses, CreateReopens
         DEF Next, Line!Next
  <1> QED
    BY <1>1, <1>2, Invariance, PTL DEF Spec, Line!Spec, ImplementsFifo
=============================================================================
