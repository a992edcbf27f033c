------------------------ MODULE ConcurrentLinkedList ------------------------
(***************************************************************************)
(* The list of src/modules/utility/src/concurrent_linked_list.c: threads   *)
(* that call a LinkedList_t under a mutex.  What a thread does between     *)
(* lock and unlock is one step, for the others cannot see less of it; what *)
(* ConcurrentLinkedList_Free does after its unlock is another.  The cursor *)
(* is shared: a node handed out to one thread may be removed by another    *)
(* before the first comes back with it.  The mutex is taken for a good one *)
(* although Create copies it by value.                                     *)
(***************************************************************************)
EXTENDS LinkedList

CONSTANTS Threads,
          NoThread    \* nobody is inside ConcurrentLinkedList_Free

ASSUME ThreadAssumption == NoThread \notin Threads

VARIABLES waiting,    \* the threads that called and have not got the mutex
          freeing,    \* the thread between the unlock of Free and free(cll)
          exists      \* the ConcurrentLinkedList_t is allocated

concurrentVars == <<vars, waiting, freeing, exists>>

ConcurrentTypeOK == /\ TypeOK
                    /\ waiting \subseteq Threads
                    /\ freeing \in Threads \cup {NoThread}
                    /\ exists \in BOOLEAN

ConcurrentInit == Init /\ waiting = {} /\ freeing = NoThread /\ exists = TRUE

\* The callers' contract is that no call begins once Free has had the mutex.
Enter(t) == /\ allocated /\ fault = "none"
            /\ t \notin waiting
            /\ waiting' = waiting \cup {t}
            /\ UNCHANGED <<vars, freeing, exists>>

\* Lock, the call of the inner list, unlock.
Perform(t) == /\ t \in waiting
              /\ Operation
              /\ waiting' = waiting \ {t}
              /\ UNCHANGED <<freeing, exists>>

\* Lock, LinkedList_Free, unlock.
FreeInner(t) == /\ t \in waiting
                /\ LinkedList_Free
                /\ waiting' = waiting \ {t}
                /\ freeing' = t
                /\ UNCHANGED exists

\* pthread_mutex_destroy and free(cll).
FreeOuter(t) == /\ freeing = t
                /\ freeing' = NoThread
                /\ exists' = FALSE
                /\ UNCHANGED <<vars, waiting>>

\* A thread that waited while the list was freed gets the mutex and calls a
\* freed list, or still waits for a mutex that is freed.
LateCall(t) == /\ t \in waiting
               /\ ~allocated /\ fault = "none"
               /\ fault' = "freed"
               /\ waiting' = waiting \ {t}
               /\ UNCHANGED <<ends, links, cursor, call, ok, out, chain, skewed, freeing, exists>>

ConcurrentLinkedList_Create ==
    /\ ~exists /\ waiting = {}
    /\ LinkedList_Create
    /\ exists' = TRUE
    /\ UNCHANGED <<waiting, freeing>>

ConcurrentNext == \/ \E t \in Threads : \/ Enter(t) \/ Perform(t) \/ FreeInner(t)
                                        \/ FreeOuter(t) \/ LateCall(t)
                  \/ ConcurrentLinkedList_Create

ConcurrentSpec == ConcurrentInit /\ [][ConcurrentNext]_concurrentVars

-----------------------------------------------------------------------------
\* Threads follow an invalid pointer in three calls of the list only (see
\* CallersFault), one of them because another thread removed the node between
\* two calls, and by a call that overlaps Free: whatever else they interleave,
\* every pointer followed under the mutex is to a live node.
FaultsAreCallers ==
    [][fault' /= fault => CallersFault \/ \E t \in waiting : LateCall(t)]_concurrentVars
=============================================================================
