-------------------------- MODULE RingBufferProofs --------------------------
(***************************************************************************)
(* Proofs about RingBuffer, for any capacity and any values: its indices   *)
(* always describe one run of slots, and what is in that run is the line   *)
(* of a Deque.                                                             *)
(***************************************************************************)
EXTENDS RingBuffer, SequenceLemmas

USE RingAssumption DEF Done, Line!Done

-----------------------------------------------------------------------------
(* The indices.                                                            *)

LEMMA InitWellFormed == Init => WellFormed
  BY DEF Init, WellFormed, TypeOK, TailFollowsRun, Wrap, Slots, Calls

\* A slot's neighbours and a wrapped index are slots.
LEMMA Neighbours ==
    ASSUME NEW i \in Slots
    PROVE  /\ After(i) \in Slots /\ Before(i) \in Slots
           /\ After(i) = Wrap(i + 1)
           /\ \A n \in 0..Capacity : Wrap(i + n) \in Slots
  BY DEF Slots, After, Before, Wrap

LEMMA WellFormedStep == WellFormed /\ [Next]_vars => WellFormed'
  <1> SUFFICES ASSUME WellFormed, [Next]_vars PROVE WellFormed'
    OBVIOUS
  <1> USE DEF WellFormed, TypeOK, TailFollowsRun
  <1>1. ASSUME NEW v \in Values, Append_(v) PROVE WellFormed'
    <2>1. call' \in Calls
      BY <1>1 DEF Append_, Calls
    <2>2. TypeOK'
      <3>1. arr' \in [Slots -> Values] /\ tail' \in Slots
        BY <1>1, Neighbours DEF Append_
      <3>2. count' \in 0..Capacity
        BY <1>1 DEF Append_, CanAdd
      <3> QED
        BY <1>1, <2>1, <3>1, <3>2 DEF Append_
    <2>3. TailFollowsRun'
      BY <1>1 DEF Append_, CanAdd, Slots, After, Wrap
    <2> QED
      BY <2>2, <2>3
  <1>2. ASSUME NEW v \in Values, Prepend(v) PROVE WellFormed'
    <2>1. arr' \in [Slots -> Values] /\ head' \in Slots /\ tail' = tail
      BY <1>2, Neighbours DEF Prepend
    <2> QED
      BY <1>2, <2>1 DEF Prepend, CanAdd, Slots, Before, Wrap, Calls
  <1>3. CASE PeekFirst \/ PeekLast
    BY <1>3, Neighbours DEF PeekFirst, PeekLast, Calls
  <1>4. CASE PopFirst
    <2>1. TypeOK'
      <3>1. head' \in Slots /\ out' \in Values /\ call' \in Calls
        BY <1>4, Neighbours DEF PopFirst, Calls
      <3>2. count' \in 0..Capacity
        BY <1>4 DEF PopFirst, CanRemove
      <3> QED
        BY <1>4, <3>1, <3>2 DEF PopFirst
    <2>2. TailFollowsRun'
      BY <1>4 DEF PopFirst, CanRemove, Slots, After, Wrap
    <2> QED
      BY <2>1, <2>2
  <1>5. CASE PopLast
    <2>1. tail' \in Slots /\ out' \in Values
      BY <1>5, Neighbours DEF PopLast
    <2> QED
      BY <1>5, <2>1 DEF PopLast, CanRemove, Slots, Before, Wrap, Calls
  <1>6. ASSUME NEW index \in Slots, GetAt(index) PROVE WellFormed'
    <2>1. SlotAt(index) \in Slots /\ <<"at", index>> \in Calls
      BY DEF SlotAt, Slots, Calls, Indices
    <2> QED
      BY <1>6, <2>1 DEF GetAt
  <1>7. CASE Refuse \/ Free
    <2>1. call' \in Calls
      BY <1>7 DEF Refuse, Fail, Free, Calls
    <2> QED
      BY <1>7, <2>1 DEF Refuse, Fail, Free
  <1>8. CASE Create
    BY <1>8 DEF Create, Slots, Wrap, Calls
  <1>9. CASE UNCHANGED vars
    BY <1>9 DEF vars
  <1> QED
    BY <1>1, <1>2, <1>3, <1>4, <1>5, <1>6, <1>7, <1>8, <1>9 DEF Next

-----------------------------------------------------------------------------
(* The elements.                                                           *)

\* What Contents is: the slots of the run, in order.
ContentsSpellRun ==
    /\ Contents \in Seq(Values)
    /\ Len(Contents) = IF allocated THEN count ELSE 0
    /\ DOMAIN Contents = 1..Len(Contents)
    /\ allocated => \A i \in 1..count : Contents[i] = arr[Wrap(head + i - 1)]
    /\ Contents = <<>> <=> ~allocated \/ count = 0

LEMMA Elements == WellFormed => ContentsSpellRun
  <1> SUFFICES ASSUME WellFormed PROVE ContentsSpellRun
    OBVIOUS
  <1> USE DEF WellFormed, TypeOK, Contents, ContentsSpellRun
  <1>1. CASE ~allocated
    BY <1>1, EmptySeq
  <1>2. CASE allocated
    <2> DEFINE run == [i \in 1..count |-> arr[Wrap(head + i - 1)]]
    <2>1. ASSUME NEW i \in 1..count PROVE Wrap(head + i - 1) \in Slots
      BY DEF Wrap, Slots
    <2>2. run \in [1..count -> Values]
      BY <2>1
    <2>3. count \in Nat /\ Contents = run
      BY <1>2
    <2>4. /\ run \in Seq(Values) /\ Len(run) = count /\ DOMAIN run = 1..count
          /\ \A i \in 1..count : run[i] = arr[Wrap(head + i - 1)]
      BY <2>2, <2>3, FunctionIsSeq
    <2>5. run = <<>> <=> count = 0
      BY <2>3, <2>4, EmptySeq
    <2> QED
      BY <1>2, <2>3, <2>4, <2>5
  <1> QED
    BY <1>1, <1>2

\* What is in a ring that is allocated is told by count and the slots.
LEMMA ContentsAre ==
    ASSUME WellFormed', allocated', NEW line \in Seq(Values), Len(line) = count',
           \A i \in 1..Len(line) : line[i] = arr'[Wrap(head' + i - 1)]
    PROVE  Contents' = line
  <1>1. ContentsSpellRun'
    BY Elements, PTL
  <1> QED
    BY <1>1, SeqEqual DEF ContentsSpellRun

-----------------------------------------------------------------------------
(* Every operation is one of the Deque's.                                  *)

LEMMA AppendAppends ==
    ASSUME WellFormed, WellFormed', NEW v \in Values, Append_(v)
    PROVE  Line!Push(v)
  <1>0. ContentsSpellRun
    BY Elements
  <1>1. /\ allocated /\ allocated' /\ count < Capacity /\ count' = count + 1 /\ head' = head
        /\ ok' = TRUE /\ call' = <<"push">> /\ out' = out
        /\ count \in Nat /\ head \in Slots /\ tail = Wrap(head + count)
        /\ arr \in [Slots -> Values] /\ arr' = [arr EXCEPT ![tail] = v]
    BY DEF Append_, CanAdd, WellFormed, TypeOK, TailFollowsRun
  <1>2. Contents \in Seq(Values) /\ Len(Contents) = count
    BY <1>0, <1>1 DEF ContentsSpellRun
  <1>3. /\ Append(Contents, v) \in Seq(Values) /\ Len(Append(Contents, v)) = count + 1
        /\ \A i \in 1..count : Append(Contents, v)[i] = Contents[i]
        /\ Append(Contents, v)[count + 1] = v
    BY <1>2, AppendProperties
  <1>4. ASSUME NEW i \in 1..count + 1
        PROVE  Append(Contents, v)[i] = arr'[Wrap(head' + i - 1)]
    <2>1. CASE i = count + 1
      <3>1. Wrap(head' + i - 1) = tail /\ tail \in Slots
        BY <1>1, <2>1 DEF Wrap, Slots
      <3> QED
        BY <1>1, <1>3, <2>1, <3>1
    <2>2. CASE i \in 1..count
      <3>1. Wrap(head + i - 1) \in Slots /\ Wrap(head + i - 1) /= tail
        BY <1>1, <2>2 DEF Wrap, Slots
      <3> QED
        BY <1>0, <1>1, <1>3, <2>2, <3>1 DEF ContentsSpellRun
    <2>3. i = count + 1 \/ i \in 1..count
      <3>1. count \in Nat
        BY <1>1
      <3> QED
        BY <3>1
    <2> QED
      BY <2>1, <2>2, <2>3
  <1>5. Contents' = Append(Contents, v)
    BY <1>1, <1>3, <1>4, ContentsAre
  <1> QED
    BY <1>1, <1>2, <1>5 DEF Line!Push, Line!CanPush

LEMMA PrependPrepends ==
    ASSUME WellFormed, WellFormed', NEW v \in Values, Prepend(v)
    PROVE  Line!PushFront(v)
  <1>0. ContentsSpellRun
    BY Elements
  <1>1. /\ allocated /\ allocated' /\ count < Capacity /\ count' = count + 1
        /\ head' = Before(head) /\ ok' = TRUE /\ call' = <<"pushFront">> /\ out' = out
        /\ count \in Nat /\ head \in Slots
        /\ arr \in [Slots -> Values] /\ arr' = [arr EXCEPT ![Before(head)] = v]
    BY DEF Prepend, CanAdd, WellFormed, TypeOK
  <1>2. Contents \in Seq(Values) /\ Len(Contents) = count
    BY <1>0, <1>1 DEF ContentsSpellRun
  <1>3. /\ <<v>> \o Contents \in Seq(Values) /\ Len(<<v>> \o Contents) = count + 1
        /\ \A i \in 1..count + 1 :
              (<<v>> \o Contents)[i] = IF i = 1 THEN v ELSE Contents[i - 1]
    <2>1. <<v>> \in Seq(Values) /\ Len(<<v>>) = 1 /\ <<v>>[1] = v
      OBVIOUS
    <2> QED
      BY <1>1, <1>2, <2>1, ConcatProperties
  <1>4. ASSUME NEW i \in 1..count + 1
        PROVE  (<<v>> \o Contents)[i] = arr'[Wrap(head' + i - 1)]
    <2>1. CASE i = 1
      <3>1. Wrap(head' + i - 1) = Before(head) /\ Before(head) \in Slots
        BY <1>1, <2>1 DEF Wrap, Slots, Before
      <3> QED
        BY <1>1, <1>3, <2>1, <3>1
    <2>2. CASE i /= 1
      <3>1. /\ Wrap(head' + i - 1) \in Slots /\ Wrap(head' + i - 1) /= Before(head)
            /\ Wrap(head' + i - 1) = Wrap(head + (i - 1) - 1)
        BY <1>1, <2>2 DEF Wrap, Slots, Before
      <3>2. i - 1 \in 1..count
        BY <1>1, <2>2
      <3>3. (<<v>> \o Contents)[i] = arr[Wrap(head + (i - 1) - 1)]
        BY <1>0, <1>1, <1>3, <2>2, <3>2 DEF ContentsSpellRun
      <3> QED
        BY <1>1, <3>1, <3>3
    <2> QED
      BY <2>1, <2>2
  <1>5. Contents' = <<v>> \o Contents
    BY <1>1, <1>3, <1>4, ContentsAre
  <1> QED
    BY <1>1, <1>2, <1>5 DEF Line!PushFront, Line!CanPush

\* The first and the last element, and what can be taken.
LEMMA EndsOfRun ==
    ASSUME WellFormed, CanRemove
    PROVE  /\ Line!CanPop
           /\ Contents \in Seq(Values) /\ Len(Contents) = count /\ count \in Nat \ {0}
           /\ Head(Contents) = arr[head] /\ Contents[count] = arr[Before(tail)]
  <1>0. ContentsSpellRun
    BY Elements
  <1>1. /\ allocated /\ count \in 1..Capacity /\ head \in Slots /\ tail = Wrap(head + count)
    BY DEF CanRemove, WellFormed, TypeOK, TailFollowsRun
  <1>2. Wrap(head + 1 - 1) = head /\ Wrap(head + count - 1) = Before(tail)
    BY <1>1 DEF Wrap, Slots, Before
  <1>3. Contents \in Seq(Values) /\ Len(Contents) = count /\ Contents /= <<>>
    BY <1>0, <1>1 DEF ContentsSpellRun
  <1>4. Head(Contents) = Contents[1]
    BY <1>3
  <1>5. Contents[1] = arr[Wrap(head + 1 - 1)] /\ Contents[count] = arr[Wrap(head + count - 1)]
    BY <1>0, <1>1 DEF ContentsSpellRun
  <1> QED
    BY <1>1, <1>2, <1>3, <1>4, <1>5 DEF Line!CanPop

\* An operation that leaves the ring as it is leaves its contents.
LEMMA ContentsKept ==
    ASSUME UNCHANGED <<allocated, arr, head, tail, count>>
    PROVE  Contents' = Contents
  BY DEF Contents

LEMMA PopFirstPops ==
    ASSUME WellFormed, WellFormed', PopFirst
    PROVE  Line!Pop
  <1>0. ContentsSpellRun
    BY Elements
  <1>1. /\ allocated /\ allocated' /\ count' = count - 1 /\ count \in 1..Capacity
        /\ head' = After(head) /\ head \in Slots /\ arr' = arr /\ CanRemove
    BY DEF PopFirst, CanRemove, WellFormed, TypeOK
  <1>2. /\ Line!CanPop /\ Contents \in Seq(Values) /\ Len(Contents) = count
        /\ Head(Contents) = arr[head]
    BY <1>1, EndsOfRun
  <1>3. /\ Tail(Contents) \in Seq(Values) /\ Len(Tail(Contents)) = count'
        /\ \A i \in 1..count' : Tail(Contents)[i] = Contents[i + 1]
    BY <1>1, <1>2, EmptySeq, HeadTailProperties
  <1>4. ASSUME NEW i \in 1..count'
        PROVE  Tail(Contents)[i] = arr'[Wrap(head' + i - 1)]
    <2>1. i + 1 \in 1..count /\ Wrap(head' + i - 1) = Wrap(head + (i + 1) - 1)
      BY <1>1 DEF After, Wrap, Slots
    <2> QED
      BY <1>0, <1>1, <1>3, <2>1 DEF ContentsSpellRun
  <1>5. Contents' = Tail(Contents)
    BY <1>1, <1>3, <1>4, ContentsAre
  <1> QED
    BY <1>2, <1>5 DEF Line!Pop, PopFirst

LEMMA PopLastPops ==
    ASSUME WellFormed, WellFormed', PopLast
    PROVE  Line!PopBack
  <1>0. ContentsSpellRun
    BY Elements
  <1>1. /\ allocated /\ allocated' /\ count' = count - 1 /\ count \in 1..Capacity
        /\ head' = head /\ head \in Slots /\ arr' = arr /\ CanRemove
    BY DEF PopLast, CanRemove, WellFormed, TypeOK
  <1>2. /\ Line!CanPop /\ Contents \in Seq(Values) /\ Len(Contents) = count
        /\ Contents[count] = arr[Before(tail)]
    BY <1>1, EndsOfRun
  <1> DEFINE rest == SubSeq(Contents, 1, Len(Contents) - 1)
  <1>3. \A i \in 1..count : Contents[i] \in Values
    BY <1>2, ElementOfSeq
  <1>4. /\ rest \in Seq(Values) /\ Len(rest) = count'
        /\ \A i \in 1..count' : rest[i] = Contents[i]
    BY <1>1, <1>2, <1>3, SubSeqProperties
  <1> HIDE DEF rest
  <1>5. ASSUME NEW i \in 1..count'
        PROVE  rest[i] = arr'[Wrap(head' + i - 1)]
    <2>1. i \in 1..count
      BY <1>1
    <2> QED
      BY <1>0, <1>1, <1>4, <2>1 DEF ContentsSpellRun
  <1>6. Contents' = rest
    BY <1>1, <1>4, <1>5, ContentsAre
  <1> QED
    BY <1>2, <1>6 DEF Line!PopBack, PopLast, rest

LEMMA GetAtReads ==
    ASSUME WellFormed, NEW index \in Slots, GetAt(index)
    PROVE  index \in Line!Indices /\ Line!ReadAt(index)
  <1>0. ContentsSpellRun
    BY Elements
  <1>1. /\ allocated /\ index < count /\ count \in 0..Capacity /\ head \in Slots /\ index \in Nat
    BY DEF GetAt, WellFormed, TypeOK, Slots
  <1>2. SlotAt(index) = Wrap(head + (index + 1) - 1)
    BY <1>1 DEF SlotAt, Wrap, Slots
  <1>3. index \in 0..Len(Contents) - 1 /\ Contents[index + 1] = arr[SlotAt(index)]
    BY <1>0, <1>1, <1>2 DEF ContentsSpellRun
  <1>4. index \in Line!Indices
    BY <1>1 DEF Line!Indices
  <1> QED
    BY <1>1, <1>3, <1>4, ContentsKept DEF Line!ReadAt, Line!Inside, GetAt

LEMMA RefuseRefuses ==
    ASSUME WellFormed, Refuse
    PROVE  Line!Refuse \/ Line!DequeRefuse
  <1>1. /\ Len(Contents) = IF allocated THEN count ELSE 0
        /\ Contents = <<>> <=> ~allocated \/ count = 0
    BY Elements DEF ContentsSpellRun
  <1>2. count \in 0..Capacity
    BY DEF WellFormed, TypeOK
  <1>3. CASE ~CanAdd /\ \E c \in {"push", "pushFront"} : Fail(<<c>>)
    <2>1. ~Line!CanPush
      BY <1>1, <1>2, <1>3 DEF CanAdd, Line!CanPush
    <2> QED
      BY <1>3, <2>1, ContentsKept DEF Fail, Line!Refused, Line!Refuse, Line!DequeRefuse
  <1>4. CASE ~CanRemove /\ \E c \in {"peek", "peekBack", "pop", "popBack"} : Fail(<<c>>)
    <2>1. ~Line!CanPop
      BY <1>1, <1>4 DEF CanRemove, Line!CanPop
    <2> QED
      BY <1>4, <2>1, ContentsKept DEF Fail, Line!Refused, Line!Refuse, Line!DequeRefuse
  <1>5. ASSUME NEW index \in Indices, ~allocated \/ index >= count, Fail(<<"at", index>>)
        PROVE  Line!DequeRefuse
    <2>1. index \in Line!Indices /\ ~Line!Inside(index)
      BY <1>1, <1>2, <1>5 DEF Indices, Line!Indices, Line!Inside
    <2> QED
      BY <1>5, <2>1, ContentsKept DEF Fail, Line!Refused, Line!DequeRefuse
  <1> QED
    BY <1>3, <1>4, <1>5 DEF Refuse

LEMMA StepSimulation == WellFormed /\ WellFormed' /\ [Next]_vars => [Line!DequeNext]_Line!vars
  <1> SUFFICES ASSUME WellFormed, WellFormed', [Next]_vars
               PROVE  Line!DequeNext \/ UNCHANGED Line!vars
    BY DEF Line!vars
  <1>1. ASSUME NEW v \in Values, Append_(v) PROVE Line!DequeNext
    BY <1>1, AppendAppends DEF Line!DequeNext, Line!Next
  <1>2. ASSUME NEW v \in Values, Prepend(v) PROVE Line!DequeNext
    BY <1>2, PrependPrepends DEF Line!DequeNext
  <1>3. CASE PeekFirst
    BY <1>3, EndsOfRun, ContentsKept DEF PeekFirst, Line!DequeNext, Line!Next, Line!Peek
  <1>4. CASE PeekLast
    BY <1>4, EndsOfRun, ContentsKept DEF PeekLast, Line!PeekBack, Line!DequeNext
  <1>5. CASE PopFirst
    BY <1>5, PopFirstPops DEF Line!DequeNext, Line!Next
  <1>6. CASE PopLast
    BY <1>6, PopLastPops DEF Line!DequeNext
  <1>7. ASSUME NEW index \in Slots, GetAt(index) PROVE Line!DequeNext
    BY <1>7, GetAtReads DEF Line!DequeNext
  <1>8. CASE Refuse
    BY <1>8, RefuseRefuses DEF Line!DequeNext, Line!Next
  <1>9. CASE Free
    BY <1>9 DEF Free, Contents, Line!DequeNext, Line!Next, Line!Close
  <1>10. CASE Create
    <2>1. Contents' = <<>>
      <3>1. ContentsSpellRun'
        BY Elements, PTL
      <3> QED
        BY <1>10, <3>1 DEF ContentsSpellRun, Create
    <2> QED
      BY <1>10, <2>1 DEF Create, Line!DequeNext, Line!Next, Line!Reopen
  <1>11. CASE UNCHANGED vars
    BY <1>11 DEF vars, Contents, Line!vars
  <1> QED
    BY <1>1, <1>2, <1>3, <1>4, <1>5, <1>6, <1>7, <1>8, <1>9, <1>10, <1>11 DEF Next

LEMMA InitSimulation == Init => Line!Init
  <1> SUFFICES ASSUME Init PROVE Line!Init
    OBVIOUS
  <1>1. Contents = <<>>
    BY InitWellFormed, Elements DEF ContentsSpellRun, Init
  <1> QED
    BY <1>1 DEF Init, Line!Init

-----------------------------------------------------------------------------
(* The theorems.                                                           *)

\* The indices of a ring of any capacity stay in the array and agree with the
\* count, wherever the run wraps.
THEOREM IndicesCorrect == Spec => []WellFormed
  BY InitWellFormed, WellFormedStep, PTL DEF Spec

\* A ring buffer of any capacity is a double-ended queue: appended, prepended,
\* popped at either end and read by index, it never loses or reorders anything.
THEOREM Refinement == Spec => ImplementsDeque
  BY InitSimulation, StepSimulation, IndicesCorrect, PTL
     DEF Spec, ImplementsDeque, Line!DequeSpec
=============================================================================
