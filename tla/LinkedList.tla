----------------------------- MODULE LinkedList -----------------------------
(***************************************************************************)
(* The doubly linked list of src/modules/utility/src/linked_list.c, node   *)
(* by node.  A node stands for the data it holds.  cursor is the node that *)
(* the clients keep between calls: NodeAt hands it out, Next moves it,     *)
(* RemoveNode takes it.                                                    *)
(*                                                                         *)
(* A call that follows NULL or a freed node is undefined behaviour: fault  *)
(* says which it was and nothing is modelled after it.  NULL arguments, a  *)
(* failing malloc and nodes of another list are left out.  call has the    *)
(* names of module List; AddAt, PopAt and PeekAt at either end of the list *)
(* do what the calls of that end do.                                       *)
(***************************************************************************)
EXTENDS Integers, Sequences, FiniteSets

CONSTANTS Nodes,    \* addresses for nodes; bound on the list's length
          Null,
          NoNode    \* nothing handed out yet

ASSUME ListAssumption == /\ IsFiniteSet(Nodes)
                         /\ Null \notin Nodes
                         /\ NoNode \notin Nodes \cup {Null}

VARIABLES allocated,   \* the LinkedList_t exists
          head, tail, length,
          live,        \* the nodes malloc'ed and not yet freed
          next, prev,  \* their links
          cursor,      \* a ListNode_t * that a client holds
          fault,       \* the invalid pointer that was followed
          call,        \* history: the last call, by its name in List
          ok, out,     \* what it returned and handed out
          chain,       \* history: the nodes added and not removed, in order
          skewed       \* history: AddAt has added between two nodes, and the two
                       \* directions of the list disagree since

ends == <<allocated, head, tail, length>>
links == <<live, next, prev>>
vars == <<ends, links, cursor, fault, call, ok, out, chain, skewed>>

Faults == {"none", "null", "freed"}

Indices == 0..Cardinality(Nodes)

Calls == {<<"open">>, <<"close">>, <<"push">>, <<"pushFront">>, <<"pop">>, <<"popBack">>,
          <<"peek">>, <<"peekBack">>, <<"remove">>, <<"next">>}
         \cup {"pushAt", "popAt", "at", "nodeAt"} \X Indices

ListTypeOK ==
    /\ allocated \in BOOLEAN
    /\ {head, tail, cursor} \subseteq Nodes \cup {Null}
    /\ length \in 0..Cardinality(Nodes)
    /\ live \subseteq Nodes
    /\ next \in [Nodes -> Nodes \cup {Null}]
    /\ prev \in [Nodes -> Nodes \cup {Null}]
    /\ fault \in Faults
    /\ ok \in BOOLEAN
    /\ out \in Nodes \cup {NoNode}
    /\ chain \in Seq(Nodes)
    /\ skewed \in BOOLEAN

TypeOK == ListTypeOK /\ call \in Calls

Init == /\ allocated = TRUE
        /\ head = Null /\ tail = Null /\ length = 0
        /\ live = {}
        /\ next = [n \in Nodes |-> Null] /\ prev = [n \in Nodes |-> Null]
        /\ cursor = Null
        /\ fault = "none"
        /\ call = <<"open">> /\ ok = TRUE /\ out = NoNode
        /\ chain = <<>> /\ skewed = FALSE

-----------------------------------------------------------------------------
(* Calls and pointers.                                                     *)

Usable == allocated /\ fault = "none"

\* A call that follows these pointers: it has its effect if they all are live
\* nodes and is undefined behaviour, by one of the others, otherwise.
Call(c, pointers, effect) ==
    /\ Usable
    /\ call' = c
    /\ IF pointers \subseteq live
       THEN effect /\ UNCHANGED <<allocated, fault>>
       ELSE /\ \/ Null \in pointers /\ fault' = "null"
               \/ ~(pointers \subseteq live \cup {Null}) /\ fault' = "freed"
            /\ UNCHANGED <<ends, links, cursor, ok, out, chain, skewed>>

Through(link, n) == IF n \in Nodes THEN link[n] ELSE Null

\* Walk(link, from)[i] is the node i links away from a node.
Walk(link, from) ==
    LET walk[i \in 0..Cardinality(Nodes)] ==
            IF i = 0 THEN from ELSE Through(link, walk[i - 1])
    IN  walk
Passed(link, from, steps) == {Walk(link, from)[i] : i \in 0..steps - 1}

\* The line without one of its nodes.
Place(n) == CHOOSE i \in DOMAIN chain : chain[i] = n
Without(n) == SubSeq(chain, 1, Place(n) - 1) \o SubSeq(chain, Place(n) + 1, Len(chain))

-----------------------------------------------------------------------------
(* Adding.                                                                 *)

Add(n) == /\ ~skewed   \* bound: nothing is added after an AddAt inside
          /\ live' = live \cup {n}
          /\ length' = length + 1
          /\ ok' = TRUE
          /\ UNCHANGED <<cursor, out>>

\* ll->head->prev is written whether or not there is a head.
LinkedList_AddStart ==
    Call(<<"pushFront">>, {head}, \E n \in Nodes \ live :
        /\ Add(n)
        /\ next' = [next EXCEPT ![n] = head]
        /\ prev' = [prev EXCEPT ![n] = Null, ![head] = n]
        /\ head' = n
        /\ tail' = IF length = 0 THEN n ELSE tail
        /\ chain' = <<n>> \o chain
        /\ UNCHANGED skewed)

\* Fault: the new node does not know the one before it.
ForgetTail(n) == [prev EXCEPT ![n] = Null]
LinkToTail(n) == [prev EXCEPT ![n] = tail]

LinkedList_AddEnd ==
    Call(<<"push">>, IF length = 0 THEN {} ELSE {tail}, \E n \in Nodes \ live :
        /\ Add(n)
        /\ prev' = LinkToTail(n)
        /\ IF length = 0
           THEN head' = n /\ next' = [next EXCEPT ![n] = Null]
           ELSE next' = [next EXCEPT ![n] = Null, ![tail] = n] /\ UNCHANGED head
        /\ tail' = n
        /\ chain' = Append(chain, n)
        /\ UNCHANGED skewed)

\* LinkedList_AddAt between two nodes; index 0 and length are the calls above.
\* The node goes behind the one at the index; the one after it and tail are
\* not told.
AddInside(idx) ==
    /\ idx \in 1..length - 1
    /\ Call(<<"pushAt", idx>>, Passed(next, head, idx + 1), \E n \in Nodes \ live :
          LET before == Walk(next, head)[idx] IN
          /\ Add(n)
          /\ prev' = [prev EXCEPT ![n] = before]
          /\ next' = [next EXCEPT ![n] = next[before], ![before] = n]
          /\ chain' = SubSeq(chain, 1, idx + 1) \o <<n>> \o SubSeq(chain, idx + 2, Len(chain))
          /\ skewed' = TRUE
          /\ UNCHANGED <<head, tail>>)

-----------------------------------------------------------------------------
(* Removing: the links of a freed node are cleared, for nothing may read   *)
(* them.                                                                   *)

Unlink(n, newNext, newPrev) ==
    /\ live' = live \ {n}
    /\ next' = [newNext EXCEPT ![n] = Null]
    /\ prev' = [newPrev EXCEPT ![n] = Null]
    /\ length' = length - 1
    /\ ok' = TRUE
    /\ chain' = Without(n)
    /\ UNCHANGED <<cursor, skewed>>

Unset(link, n) == IF n = Null THEN link ELSE [link EXCEPT ![n] = Null]

\* Fault: a list that becomes empty keeps its tail.
TailAlways(nextHead) == tail
TailAfterPop(nextHead) == IF nextHead = Null THEN Null ELSE tail

LinkedList_PopStart ==
    /\ length /= 0
    /\ LET nextHead == Through(next, head) IN
       Call(<<"pop">>, {head} \cup ({nextHead} \ {Null}),
           /\ out' = head
           /\ Unlink(head, next, Unset(prev, nextHead))
           /\ head' = nextHead
           /\ tail' = TailAfterPop(nextHead))

LinkedList_PopEnd ==
    /\ length /= 0
    /\ LET nextTail == Through(prev, tail) IN
       Call(<<"popBack">>, {tail} \cup ({nextTail} \ {Null}),
           /\ out' = tail
           /\ Unlink(tail, Unset(next, nextTail), prev)
           /\ tail' = nextTail
           /\ head' = IF nextTail = Null THEN Null ELSE head)

\* LinkedList_RemoveNode of the cursor, which is left dangling.
Remove(pointers, effect) == Call(<<"remove">>, pointers, effect)

RemoveOnly ==
    /\ length = 1
    /\ Remove({cursor}, Unlink(cursor, next, prev) /\ head' = Null /\ tail' = Null /\ UNCHANGED out)

RemoveHead ==
    /\ length /= 1 /\ head = cursor
    /\ LET after == Through(next, cursor) IN
       Remove({cursor, after}, Unlink(cursor, next, Unset(prev, after)) /\ head' = after /\ UNCHANGED <<tail, out>>)

RemoveTail ==
    /\ length /= 1 /\ head /= cursor /\ tail = cursor
    /\ LET before == Through(prev, cursor) IN
       Remove({cursor, before}, Unlink(cursor, Unset(next, before), prev) /\ tail' = before /\ UNCHANGED <<head, out>>)

RemoveInner ==
    /\ length /= 1 /\ cursor \notin {head, tail}
    /\ LET before == Through(prev, cursor)
           after == Through(next, cursor)
       IN  Remove({cursor, before, after},
               /\ Unlink(cursor, [next EXCEPT ![before] = after], [prev EXCEPT ![after] = before])
               /\ UNCHANGED <<head, tail, out>>)

LinkedList_RemoveNode ==
    cursor /= Null /\ (RemoveOnly \/ RemoveHead \/ RemoveTail \/ RemoveInner)

-----------------------------------------------------------------------------
(* Reading.                                                                *)

\* The node at an index, looked for from the nearer end, and the nodes that
\* are passed on the way.  Fault: from the tail, one step too many.
NodeOneOff(idx) ==
    IF idx = 0 THEN head
    ELSE IF idx = length - 1 THEN tail
    ELSE IF idx > length \div 2 THEN Walk(prev, tail)[length - idx]
    ELSE Walk(next, head)[idx]

NodeAt(idx) ==
    IF idx = 0 THEN head
    ELSE IF idx = length - 1 THEN tail
    ELSE IF idx > length \div 2 THEN Walk(prev, tail)[length - 1 - idx]
    ELSE Walk(next, head)[idx]

PassedTo(idx) ==
    IF idx \in {0, length - 1} THEN {}
    ELSE IF idx > length \div 2 THEN Passed(prev, tail, length - 1 - idx)
    ELSE Passed(next, head, idx)

Reads == ok' = TRUE /\ UNCHANGED <<head, tail, length, links, chain, skewed>>

LinkedList_PeekAt(idx) ==
    /\ idx \in 0..length - 1
    /\ Call(<<"at", idx>>, PassedTo(idx) \cup {NodeAt(idx)},
            out' = NodeAt(idx) /\ Reads /\ UNCHANGED cursor)

LinkedList_NodeAt(idx) ==
    /\ idx \in 0..length - 1
    /\ Call(<<"nodeAt", idx>>, PassedTo(idx), cursor' = NodeAt(idx) /\ Reads /\ UNCHANGED out)

\* The next node is read before it is known to exist.
LinkedList_Next ==
    IF length = 0
    THEN Call(<<"next">>, {}, cursor' = Null /\ out' = NoNode /\ Reads)
    ELSE LET node == IF cursor = Null THEN head ELSE Through(next, cursor)
         IN  Call(<<"next">>, ({cursor} \ {Null}) \cup {node},
                  cursor' = node /\ out' = node /\ Reads)

Refuse == ok' = FALSE /\ UNCHANGED <<head, tail, length, links, cursor, out, chain, skewed>>

\* Pops and peeks of an empty list, and indices past the end.  Fault: a pop
\* counts before it looks.
RefuseCounted == Usable /\ length' = length - 1 /\ call' = <<"pop">> /\ ok' = FALSE
                 /\ UNCHANGED <<allocated, fault, head, tail, links, cursor, out, chain, skewed>>
RefuseIndex ==
    \/ length = 0 /\ \E c \in {"pop", "popBack", "peek", "peekBack"} : Call(<<c>>, {}, Refuse)
    \/ \E idx \in Indices :
          \/ idx >= length /\ \E c \in {"popAt", "at", "nodeAt"} : Call(<<c, idx>>, {}, Refuse)
          \/ idx > length /\ Call(<<"pushAt", idx>>, {}, Refuse)

\* LinkedList_PopAt inside the list takes the success of NodeAt for an error;
\* at either end it is PopStart or PopEnd.
PopInside(idx) == idx \in 1..length - 2 /\ Call(<<"popAt", idx>>, PassedTo(idx), Refuse)

-----------------------------------------------------------------------------
(* The list itself.                                                        *)

\* Fault: the walk ends at the last node.
AllButTail == {Walk(next, head)[i] : i \in 0..Cardinality(Nodes)} \ {Null, tail}
Reached == {Walk(next, head)[i] : i \in 0..Cardinality(Nodes)} \ {Null}

LinkedList_Free ==
    /\ Usable
    /\ Reached \subseteq live
    /\ live' = live \ Reached
    /\ allocated' = FALSE
    /\ next' = [n \in Nodes |-> Null] /\ prev' = [n \in Nodes |-> Null]
    /\ chain' = <<>>
    /\ call' = <<"close">> /\ ok' = TRUE
    /\ UNCHANGED <<head, tail, length, cursor, fault, out, skewed>>

LinkedList_Create ==
    /\ ~allocated
    /\ live = {}
    /\ allocated' = TRUE
    /\ head' = Null /\ tail' = Null /\ length' = 0
    /\ cursor' = Null
    /\ call' = <<"open">> /\ ok' = TRUE
    /\ UNCHANGED <<links, fault, out, chain, skewed>>

Operation == \/ LinkedList_AddStart \/ LinkedList_AddEnd \/ \E idx \in Indices : AddInside(idx)
             \/ LinkedList_PopStart \/ LinkedList_PopEnd \/ \E idx \in Indices : PopInside(idx)
             \/ LinkedList_RemoveNode
             \/ \E idx \in Indices : LinkedList_PeekAt(idx) \/ LinkedList_NodeAt(idx)
             \/ LinkedList_Next
             \/ RefuseIndex

Next == Operation \/ LinkedList_Free \/ LinkedList_Create

Spec == Init /\ [][Next]_vars

-----------------------------------------------------------------------------
(* Properties.                                                             *)

ChainAt(i) == IF i \in DOMAIN chain THEN chain[i] ELSE Null

\* Until AddAt adds inside the list: the links spell the order of the nodes in
\* both directions, each node is on the list once and is freed once, none is left
\* behind, after Free neither, and head and tail are NULL together with a length
\* of 0 (the comment's "Law 1").
LinksSpellChain ==
    ~skewed =>
        /\ live = {chain[i] : i \in DOMAIN chain}
        /\ \A i, j \in DOMAIN chain : chain[i] = chain[j] => i = j
        /\ allocated =>
            /\ length = Len(chain)
            /\ head = ChainAt(1)
            /\ tail = ChainAt(length)
            /\ \A i \in DOMAIN chain : /\ next[chain[i]] = ChainAt(i + 1)
                                       /\ prev[chain[i]] = ChainAt(i - 1)

\* Only three calls of a list follow an invalid pointer: AddStart on an empty
\* list, Next behind the last node, and Next or RemoveNode with a cursor whose
\* node was removed since.  After an AddAt inside, others may.
CallersFault ==
    \/ skewed
    \/ length = 0 /\ LinkedList_AddStart
    \/ cursor /= Null /\ cursor = tail /\ LinkedList_Next
    \/ cursor \notin live \cup {Null} /\ (LinkedList_Next \/ LinkedList_RemoveNode)

Line == INSTANCE List WITH open <- allocated, items <- chain, NoValue <- NoNode,
                           Values <- Nodes, Capacity <- Cardinality(Nodes)

\* Every call does to the nodes what the call of its name does to a line of items,
\* and refuses only where the line has nothing to give or no such place.  Three
\* kinds of calls are excepted: those that fault, AddAt inside the list (and what
\* comes after it), and PopAt inside the list, which refuses although the item is
\* there.  An index means the same place whichever end it is looked for from, and
\* Next goes from each node to the one behind it.
ActsAsLine ==
    Line!Init /\ [][fault' = fault /\ ~skewed' =>
                      /\ \/ Line!ListNext
                         \/ \E i \in 1..Len(chain) - 2 : Line!Refused(<<"popAt", i>>)
                         \/ UNCHANGED Line!vars
                      /\ \A idx \in Indices : LinkedList_NodeAt(idx) => cursor' = chain[idx + 1]
                      /\ \A i \in 0..length - 1 :
                            LinkedList_Next /\ cursor = ChainAt(i) => cursor' = chain[i + 1]]_vars
=============================================================================
