-------------------------------- MODULE List --------------------------------
(***************************************************************************)
(* The line that LinkedList_t promises: a Deque whose items can be found   *)
(* one after the other or by index and taken from the inside.              *)
(***************************************************************************)
EXTENDS Deque

WithoutAt(i) == SubSeq(items, 1, i - 1) \o SubSeq(items, i + 1, Len(items))

Remove == /\ CanPop
          /\ \E i \in DOMAIN items : items' = WithoutAt(i)
          /\ Done(<<"remove">>)
          /\ UNCHANGED <<open, out>>

PopAt(i) == /\ open /\ Inside(i)
            /\ out' = items[i + 1]
            /\ items' = WithoutAt(i + 1)
            /\ Done(<<"popAt", i>>)
            /\ UNCHANGED open

\* An item is found, to be removed or gone on from.
Locate(i) == /\ open /\ Inside(i)
             /\ Done(<<"nodeAt", i>>)
             /\ UNCHANGED <<open, items, out>>

\* The next item, or none when there are no items.
GoOn == /\ open
        /\ \/ items = <<>> /\ out' = NoValue
           \/ \E i \in DOMAIN items : out' = items[i]
        /\ Done(<<"next">>)
        /\ UNCHANGED <<open, items>>

ListRefuse == \E i \in Indices :
    \/ ~Inside(i) /\ \E c \in {"popAt", "nodeAt"} : Refused(<<c, i>>)
    \/ i > Len(items) /\ Refused(<<"pushAt", i>>)

ListNext == \/ DequeNext
            \/ Remove
            \/ \E i \in Indices : PopAt(i) \/ Locate(i)
            \/ GoOn
            \/ ListRefuse
=============================================================================
