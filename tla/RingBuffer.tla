----------------------------- MODULE RingBuffer -----------------------------
(***************************************************************************)
(* The ring buffer of src/modules/utility/include/generic_ring_buffer.h,   *)
(* one action per operation.  It is the thread pool's store of worker      *)
(* handles and worker arguments.  Every operation reports success in ok    *)
(* and hands a value out in out; the NULL tests of its arguments are left  *)
(* out, rb->arr == NULL (after RingBuffer_Free) is not.                    *)
(***************************************************************************)
EXTENDS Integers, Sequences

CONSTANTS Values, Capacity, NoValue

Slots == 0..Capacity - 1

ASSUME RingAssumption == /\ Capacity \in Nat \ {0}
                         /\ Values /= {}
                         /\ NoValue \notin Values

VARIABLES allocated,  \* rb->arr is not NULL
          arr,        \* its slots
          head, tail, count,
          call,       \* history: the last call, by its name in Deque
          ok, out     \* what it returned, and what was handed out last

vars == <<allocated, arr, head, tail, count, call, ok, out>>

\* Those that GetAt is called with, past the end too.
Indices == 0..Capacity
Calls == {<<"open">>, <<"push">>, <<"pushFront">>, <<"peek">>, <<"peekBack">>,
          <<"pop">>, <<"popBack">>, <<"close">>} \cup ({"at"} \X Indices)

TypeOK == /\ allocated \in BOOLEAN
          /\ arr \in [Slots -> Values]
          /\ head \in Slots
          /\ tail \in Slots
          /\ count \in 0..Capacity
          /\ call \in Calls
          /\ ok \in BOOLEAN
          /\ out \in Values \cup {NoValue}

\* RingBuffer_Create: the slots hold whatever malloc returned.
Init == /\ allocated = TRUE
        /\ arr \in [Slots -> Values]
        /\ head = 0
        /\ tail = 0
        /\ count = 0
        /\ call = <<"open">>
        /\ ok = TRUE
        /\ out = NoValue

\* Fault: the index stops at the first slot.
BeforeClamped(i) == IF i = 0 THEN 0 ELSE i - 1

\* The index after and before i, as the code wraps them.
After(i)  == IF i + 1 = Capacity THEN 0 ELSE i + 1
Before(i) == IF i = 0 THEN Capacity - 1 ELSE i - 1

Done(c) == call' = c /\ ok' = TRUE
Fail(c) == /\ call' = c /\ ok' = FALSE
           /\ UNCHANGED <<allocated, arr, head, tail, count, out>>

CanAdd    == allocated /\ count /= Capacity
CanRemove == allocated /\ count /= 0

Append_(v) ==
    /\ CanAdd
    /\ arr' = [arr EXCEPT ![tail] = v]
    /\ tail' = After(tail)
    /\ count' = count + 1
    /\ Done(<<"push">>)
    /\ UNCHANGED <<allocated, head, out>>

\* Fault: the slot is written before head moves.
PrependAfterHead(v) ==
    /\ CanAdd
    /\ head' = Before(head)
    /\ arr' = [arr EXCEPT ![head] = v]
    /\ count' = count + 1
    /\ Done(<<"pushFront">>)
    /\ UNCHANGED <<allocated, tail, out>>

Prepend(v) ==
    /\ CanAdd
    /\ head' = Before(head)
    /\ arr' = [arr EXCEPT ![Before(head)] = v]
    /\ count' = count + 1
    /\ Done(<<"pushFront">>)
    /\ UNCHANGED <<allocated, tail, out>>

PeekFirst ==
    /\ CanRemove
    /\ out' = arr[head]
    /\ Done(<<"peek">>)
    /\ UNCHANGED <<allocated, arr, head, tail, count>>

PeekLast ==
    /\ CanRemove
    /\ out' = arr[Before(tail)]
    /\ Done(<<"peekBack">>)
    /\ UNCHANGED <<allocated, arr, head, tail, count>>

PopFirst ==
    /\ CanRemove
    /\ out' = arr[head]
    /\ head' = After(head)
    /\ count' = count - 1
    /\ Done(<<"pop">>)
    /\ UNCHANGED <<allocated, arr, tail>>

PopLast ==
    /\ CanRemove
    /\ tail' = Before(tail)
    /\ out' = arr[Before(tail)]
    /\ count' = count - 1
    /\ Done(<<"popBack">>)
    /\ UNCHANGED <<allocated, arr, head>>

\* The slot of the element at an index, without a division.
SlotAt(index) == IF index >= Capacity - head THEN index - (Capacity - head)
                                             ELSE index + head

GetAt(index) ==
    /\ allocated
    /\ index < count
    /\ out' = arr[SlotAt(index)]
    /\ Done(<<"at", index>>)
    /\ UNCHANGED <<allocated, arr, head, tail, count>>

\* An addition to a full ring, a removal from an empty one, an index past
\* the end, or any of them after RingBuffer_Free.
Refuse ==
    \/ ~CanAdd /\ \E c \in {"push", "pushFront"} : Fail(<<c>>)
    \/ ~CanRemove /\ \E c \in {"peek", "peekBack", "pop", "popBack"} : Fail(<<c>>)
    \/ \E index \in Indices : (~allocated \/ index >= count) /\ Fail(<<"at", index>>)

Free == /\ allocated
        /\ allocated' = FALSE
        /\ Done(<<"close">>)
        /\ UNCHANGED <<arr, head, tail, count, out>>

Create == /\ ~allocated
          /\ allocated' = TRUE
          /\ arr' \in [Slots -> Values]
          /\ head' = 0
          /\ tail' = 0
          /\ count' = 0
          /\ Done(<<"open">>)
          /\ UNCHANGED out

Next == \/ \E v \in Values : Append_(v) \/ Prepend(v)
        \/ PeekFirst
        \/ PeekLast
        \/ PopFirst
        \/ PopLast
        \/ \E index \in Slots : GetAt(index)
        \/ Refuse
        \/ Free
        \/ Create

Spec == Init /\ [][Next]_vars

-----------------------------------------------------------------------------
Wrap(i) == IF i >= Capacity THEN i - Capacity ELSE i

\* tail is count slots behind head.
TailFollowsRun == tail = Wrap(head + count)

\* head, tail and count, which the operations move one at a time, stay inside the
\* array and keep describing one run of slots: a full and an empty ring, both
\* with head = tail, differ by count only.
WellFormed == TypeOK /\ TailFollowsRun

\* The elements in order, read from head.
Contents == IF allocated THEN [i \in 1..count |-> arr[Wrap(head + i - 1)]]
                         ELSE <<>>

Line == INSTANCE Deque WITH open <- allocated, items <- Contents

\* Every operation, wherever the run wraps, is one of a double-ended queue's:
\* it returns what that queue returns and loses or reorders nothing.
ImplementsDeque == Line!DequeSpec
=============================================================================
