-------------------------------- MODULE Fifo --------------------------------
(***************************************************************************)
(* A bounded first-in first-out line of values: what Queue_t promises, and *)
(* the part of RingBuffer_t the thread pool uses.  call is the last call,  *)
(* ok what it returned and out what was handed out last: a call that       *)
(* cannot be carried out, and only such a call, says so and changes        *)
(* nothing else.                                                           *)
(***************************************************************************)
EXTENDS Integers, Sequences

CONSTANTS Values, Capacity, NoValue

VARIABLES open, items, call, ok, out

vars == <<open, items, call, ok, out>>

Init == /\ open = TRUE
        /\ items = <<>>
        /\ call = <<"open">>
        /\ ok = TRUE
        /\ out = NoValue

Done(c)    == call' = c /\ ok' = TRUE
Refused(c) == call' = c /\ ok' = FALSE /\ UNCHANGED <<open, items, out>>

CanPush == open /\ Len(items) < Capacity
CanPop  == open /\ items /= <<>>

Push(v) == /\ CanPush
           /\ items' = Append(items, v)
           /\ Done(<<"push">>)
           /\ UNCHANGED <<open, out>>

Pop == /\ CanPop
       /\ out' = Head(items)
       /\ items' = Tail(items)
       /\ Done(<<"pop">>)
       /\ UNCHANGED open

Peek == /\ CanPop
        /\ out' = Head(items)
        /\ Done(<<"peek">>)
        /\ UNCHANGED <<open, items>>

\* Releases the line with everything in it.
Close == /\ open
         /\ open' = FALSE
         /\ items' = <<>>
         /\ Done(<<"close">>)
         /\ UNCHANGED out

Reopen == /\ ~open
          /\ open' = TRUE
          /\ items' = <<>>
          /\ Done(<<"open">>)
          /\ UNCHANGED out

\* Closing an empty line may be refused: Queue_Free does, the other lines do not.
Refuse == \/ ~CanPush /\ Refused(<<"push">>)
          \/ ~CanPop /\ \E c \in {"pop", "peek", "close"} : Refused(<<c>>)

Next == \/ \E v \in Values : Push(v)
        \/ Pop
        \/ Peek
        \/ Close
        \/ Reopen
        \/ Refuse

Spec == Init /\ [][Next]_vars
=============================================================================
