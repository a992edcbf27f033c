-------------------------------- MODULE Queue --------------------------------
(***************************************************************************)
(* The linked queue of src/modules/utility/src/queue.c, node by node: the  *)
(* nodes malloc hands out, their data and next fields, and the head, tail  *)
(* and length of Queue_t.  It is the thread pool's task queue.  The NULL   *)
(* tests of arguments are left out; malloc is assumed to succeed, as       *)
(* Queue_Push does.                                                        *)
(***************************************************************************)
EXTENDS Integers, Sequences, FiniteSets

CONSTANTS
    Nodes,     \* addresses for nodes; bound on the queue's length
    Values,    \* the data pointers
    Null,
    NoValue

ASSUME QueueAssumption == /\ IsFiniteSet(Nodes)
                          /\ Null \notin Nodes
                          /\ NoValue \notin Values

VARIABLES allocated,  \* the Queue_t exists
          head, tail, length,
          live,       \* the nodes malloc'ed and not yet freed
          data, next, \* their fields
          released,   \* the values the deallocator got in the last Queue_Free
          call,       \* history: the last call, by its name in Fifo
          ok, out,    \* what it returned, and what was handed out last
          chain       \* history: the nodes pushed and not popped, oldest first

vars == <<allocated, head, tail, length, live, data, next, released, call, ok,
          out, chain>>

Calls == {<<"open">>, <<"push">>, <<"pop">>, <<"peek">>, <<"close">>}

TypeOK == /\ allocated \in BOOLEAN
          /\ head \in Nodes \cup {Null}
          /\ tail \in Nodes \cup {Null}
          /\ length \in Nat
          /\ live \subseteq Nodes
          /\ data \in [Nodes -> Values \cup {NoValue}]
          /\ next \in [Nodes -> Nodes \cup {Null}]
          /\ released \in Seq(Values \cup {NoValue})
          /\ call \in Calls
          /\ ok \in BOOLEAN
          /\ out \in Values \cup {NoValue}
          /\ chain \in Seq(Nodes)

Init == /\ allocated = TRUE
        /\ head = Null
        /\ tail = Null
        /\ length = 0
        /\ live = {}
        /\ data = [n \in Nodes |-> NoValue]
        /\ next = [n \in Nodes |-> Null]
        /\ released = <<>>
        /\ call = <<"open">>
        /\ ok = TRUE
        /\ out = NoValue
        /\ chain = <<>>

Done(c) == call' = c /\ ok' = TRUE

\* Fault: head always follows the new node.
HeadAtNew(n) == n

HeadAfterPush(n) == IF head = Null THEN n ELSE head

\* The new node goes behind the tail, or is the tail of an empty queue.
Queue_Push(v) ==
    /\ allocated
    /\ \E n \in Nodes \ live :
          /\ live' = live \cup {n}
          /\ data' = [data EXCEPT ![n] = v]
          /\ next' = IF tail = Null THEN [next EXCEPT ![n] = Null]
                     ELSE [next EXCEPT ![n] = Null, ![tail] = n]
          /\ tail' = n
          /\ head' = HeadAfterPush(n)
          /\ chain' = Append(chain, n)
    /\ length' = length + 1
    /\ Done(<<"push">>)
    /\ UNCHANGED <<allocated, released, out>>

\* Fault: tail is left at the freed node.
TailKept(newHead) == tail

TailAfterPop(newHead) == IF newHead = Null THEN Null ELSE tail

Queue_Pop ==
    /\ allocated
    /\ length /= 0
    /\ out' = data[head]
    /\ live' = live \ {head}
    /\ length' = length - 1
    /\ head' = next[head]
    /\ tail' = TailAfterPop(next[head])
    /\ chain' = Tail(chain)
    /\ Done(<<"pop">>)
    /\ UNCHANGED <<allocated, data, next, released>>

Queue_Peek ==
    /\ allocated
    /\ length /= 0
    /\ out' = data[head]
    /\ Done(<<"peek">>)
    /\ UNCHANGED <<allocated, head, tail, length, live, data, next, released,
                   chain>>

\* Queue_Pop, Queue_Peek and Queue_Free return false on an empty queue; the
\* Queue_t itself is then not freed.
RefuseEmpty ==
    /\ allocated
    /\ \/ length = 0 /\ call' \in {<<"pop">>, <<"peek">>}
       \/ head = Null /\ call' = <<"close">>
    /\ ok' = FALSE
    /\ UNCHANGED <<allocated, head, tail, length, live, data, next, released,
                   out, chain>>

\* Walk[i] is the node i steps behind the head.
Walk[i \in 0..Cardinality(Nodes)] ==
    IF i = 0 THEN head ELSE IF Walk[i - 1] = Null THEN Null ELSE next[Walk[i - 1]]

\* Fault: the walk ends when cur->next is NULL.
ReachedButLast == {Walk[i] : i \in 0..Cardinality(Nodes)} \ {Null, tail}

\* The nodes the walk of Queue_Free reaches, in order, up to NULL.
Reached == {Walk[i] : i \in 0..Cardinality(Nodes)} \ {Null}

\* Every node from head to NULL: its data to the deallocator, then freed.
Queue_Free ==
    /\ allocated
    /\ head /= Null
    /\ released' = [i \in 1..Cardinality(Reached) |-> data[Walk[i - 1]]]
    /\ live' = live \ Reached
    /\ allocated' = FALSE
    /\ Done(<<"close">>)
    /\ chain' = <<>>
    /\ UNCHANGED <<head, tail, length, data, next, out>>

Queue_Create ==
    /\ ~allocated
    /\ allocated' = TRUE
    /\ head' = Null
    /\ tail' = Null
    /\ length' = 0
    /\ released' = <<>>
    /\ Done(<<"open">>)
    /\ UNCHANGED <<live, data, next, out, chain>>

Next == \/ \E v \in Values : Queue_Push(v)
        \/ Queue_Pop
        \/ Queue_Peek
        \/ RefuseEmpty
        \/ Queue_Free
        \/ Queue_Create

Spec == Init /\ [][Next]_vars

-----------------------------------------------------------------------------
\* head and tail are the ends of the line of pushed nodes, each node's next is
\* the one behind it, the last one's is NULL, and length counts them.
PointersSpellChain ==
    allocated =>
        /\ length = Len(chain)
        /\ head = (IF chain = <<>> THEN Null ELSE chain[1])
        /\ tail = (IF chain = <<>> THEN Null ELSE chain[Len(chain)])
        /\ \A i \in DOMAIN chain :
              next[chain[i]] = IF i = Len(chain) THEN Null ELSE chain[i + 1]

\* The live nodes are those of the line, and no node is on it twice.
NodesOwned ==
    /\ live = {chain[i] : i \in DOMAIN chain}
    /\ \A i, j \in DOMAIN chain : chain[i] = chain[j] => i = j

\* The pointers of Queue_t and of its nodes spell the line of pushed nodes, a
\* queue emptied by pops is as good as a new one, and each node is freed once:
\* none is left behind, after Queue_Free neither.
WellFormed == TypeOK /\ PointersSpellChain /\ NodesOwned

Contents == [i \in DOMAIN chain |-> data[chain[i]]]

\* Queue_Free hands the deallocator every value still queued, once each and
\* in order.
FreeReleasesContents == [][Queue_Free => released' = Contents]_vars

Line == INSTANCE Fifo WITH open <- allocated, items <- Contents,
                           Capacity <- Cardinality(Nodes)

\* The list of nodes implements a first-in first-out line.
ImplementsFifo == Line!Spec
=============================================================================
