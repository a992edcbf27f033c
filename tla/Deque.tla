------------------------------- MODULE Deque -------------------------------
(***************************************************************************)
(* The bounded double-ended line that RingBuffer_t promises: a Fifo that   *)
(* can also be filled at the front, emptied at the back and read by index, *)
(* which counts from 0.                                                    *)
(***************************************************************************)
EXTENDS Fifo

Indices == 0..Capacity
Inside(i) == i \in 0..Len(items) - 1

PushFront(v) == /\ CanPush
                /\ items' = <<v>> \o items
                /\ Done(<<"pushFront">>)
                /\ UNCHANGED <<open, out>>

PopBack == /\ CanPop
           /\ out' = items[Len(items)]
           /\ items' = SubSeq(items, 1, Len(items) - 1)
           /\ Done(<<"popBack">>)
           /\ UNCHANGED open

PeekBack == /\ CanPop
            /\ out' = items[Len(items)]
            /\ Done(<<"peekBack">>)
            /\ UNCHANGED <<open, items>>

ReadAt(i) == /\ open /\ Inside(i)
             /\ out' = items[i + 1]
             /\ Done(<<"at", i>>)
             /\ UNCHANGED <<open, items>>

DequeRefuse == \/ ~CanPush /\ Refused(<<"pushFront">>)
               \/ ~CanPop /\ \E c \in {"popBack", "peekBack"} : Refused(<<c>>)
               \/ \E i \in Indices : ~Inside(i) /\ Refused(<<"at", i>>)

DequeNext == \/ Next
             \/ \E v \in Values : PushFront(v)
             \/ PopBack
             \/ PeekBack
             \/ \E i \in Indices : ReadAt(i)
             \/ DequeRefuse

DequeSpec == Init /\ [][DequeNext]_vars
=============================================================================
