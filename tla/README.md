# Verification of server-c

TLA+ models of the HTTP server under `src/modules`, TLC configurations that
check them on small instances, and TLAPS proofs of every safety property and
every refinement that those runs check.

    tlc -config pool_safety.cfg MCThreadPool.tla     # any run of PROJECT.json
    tlapm ServerProofs.tla                           # any module of proofs

## The system

The program is one process with two threads. `main` calls `server_Run`, which
opens a listening socket, two epoll instances and an eventfd, starts the reader
thread and accepts connections. The reader thread waits on the second epoll,
reads from clients and hands what it read to the parser. A utility library
holds containers and a thread pool that the server does not use yet.

| Part | Source | State | Operations | What can be hard |
| --- | --- | --- | --- | --- |
| Server main loop | `app/src/server.c` | `g_isServerAlive`, two epolls, stop event, listening socket | `server_Run`, `mainLoopAction`, SIGTERM handler | setup that fails half way, shutdown with the other thread blocked, descriptors reused |
| Client reader | `http/src/client_reader.c` | `g_parserContexts[fd]`, the batch of events, `errno` | `clientReaderRoutine`, `getContext`, `freeContext`, `readFromClient` | edge-triggered events with one `recv` each, order of free / unregister / close |
| Request parser | `http/src/client_parser.c` | `ParserContext`: buffer, state, two ranges, request | `Parser_TryParseRequest`, `findStartLine`, `findHeaders`, `parseStartLine`, `parseParams` | input cut anywhere, a loop that must return, positions at the ends of the buffer |
| Requests, query parameters | `http/src/request.c`, `client_parser.c`, `common.c` | `HttpRequest`, the list of pairs | `parseStartLine`, `parseParams`, `HttpRequest_Free`, `NKString_CopyFrom` | eight allocations that may fail, tokens without a key or a value |
| Thread pool | `utility/src/thread_pool.c` | counters, task queue, ring of workers, two mutexes, two condition variables | `Create`, `Start`, `Stop`, `Free`, `Submit`, `threadFunction` | lost wakeups, rollback, order, memory of tasks |
| Queue | `utility/src/queue.c` | head, tail, length, nodes | `Create`, `Push`, `Pop`, `Peek`, `Free` | the empty and the one-element queue |
| Generic ring buffer | `utility/include/generic_ring_buffer.h` | slots, head, tail, count | append, prepend, peeks, pops, `GetAt` | indices that wrap both ways |
| int32 ring buffer | `utility/src/ring_buffer.c` | as above | as above | used by nothing |
| Linked list | `utility/src/linked_list.c` | nodes, head, tail, length | at the ends, by index, by node, `Next` | both links at the ends, nodes kept between calls; the parser uses `AddEnd`, `PopStart`, `Free` |
| Concurrent linked list | `utility/src/concurrent_linked_list.c` | a list and a mutex | as above, locked | nodes handed out of the lock, `Free` while others wait; used by nothing |

How they interact: the main thread puts connections into `g_clientsEpoll`, the
reader takes them out; both share the process's descriptor table,
`g_isServerAlive` and `threadFailed`; the stop event and SIGTERM wake the
reader; the reader calls the parser synchronously, so a parse that does not
return stops every client. The thread pool keeps its tasks in a Queue and its
threads in ring buffers of the generic kind. The parser collects query
parameters in a linked list.

What makes each part correct:

- server and reader: a descriptor's context and events belong to the connection
  open there; an open connection is registered; unread bytes are announced;
  nothing the reader uses goes away before it; a stop, or a failed reader, ends
  the server;
- parser: ranges stay in what was received, a call concludes from the bytes it finds
  what a single call on all of them would, a settled request stays settled, a parse
  returns;
- request: the parameters are the query's, in order and complete; whichever
  allocation fails, each block is freed once;
- pool: tasks run once and in order, counters agree, workers are created and
  joined exactly once, no use after free, queued tasks start, `Free` returns;
- containers: each call does what its name says to the sequence, or is refused because
  the sequence cannot carry it out, and no node leaks.

## Modules

| Module | Models | State and actions |
| --- | --- | --- |
| `TaskService` | what the pool promises | `pending`, `running`, `done`, `mode` |
| `ThreadPool` | `thread_pool.c` | one program counter per worker and per caller; an action per shared access of `threadFunction`, `Start`, `Stop`, `Free`; `Submit` in one step, all of it being under `mutexQueue` |
| `Fifo`, `Queue` | a queue; `queue.c` | nodes with `next`, `head`, `tail`; an action per function |
| `Deque`, `RingBuffer` | a bounded double-ended queue; `generic_ring_buffer.h` | slots, `head`, `tail`, `count`; an action per function |
| `List`, `LinkedList` | a `Deque` with places; `linked_list.c` | nodes with `next` and `prev`, `head`, `tail`, `length`, the node a client keeps; an action per function and branch |
| `ConcurrentLinkedList` | `concurrent_linked_list.c` | extends `LinkedList` with the threads that wait for the mutex; a call under the mutex is one step, `Free` two |
| `Server` | `server.c` and `client_reader.c` with the kernel between them | the descriptor table, epoll's interest and ready lists and the clients' input on one side; `mpc` and `rpc`, where the two threads are, on the other; an action per system call |
| `Parse` | what a parse promises the reader | `busy`, `settled`; `Server` steps by it, `Parser` implements it |
| `Request` | `parseStartLine`, `parseParams`, `request.c`, `NKString_CopyFrom` | the request, the token at hand, the list of pairs, the heap by named blocks; an action per allocation or token |
| `Parser` | `client_parser.c` | extends `Request` with `buffer`, `state`, `startLine`, `headers`; an action per exit of `findStartLine`, `findHeaders` and the loop |
| `ThreadPoolProofs`, `QueueProofs`, `RingBufferProofs`, `LinkedListProofs`, `ServerProofs`, `ParserProofs` | theorems about the module of that name; those of the list are about `ConcurrentLinkedList`, those of the parser also about `Request` | |
| `SequenceLemmas`, `FlattenLemmas` | facts that the proofs share: least numbers, sequences without repetitions, `FlattenSeq` | |

`MCThreadPool`, `MCServer` and the other MC modules give the constants their
values for TLC. Definitions whose comment begins with "Fault:" are not part of a
specification: each is a bug that the definition after it could have had, and
`PROJECT.json` names the property that finds it.

In `Fifo`, `Deque` and `List` a call that cannot be carried out, and only such a call,
is refused: `Refuse`, `DequeRefuse` and `ListRefuse` name what each of them may refuse,
which is what a full or an empty line or an index past the end cannot give. `call`, a
history variable there and in the three modules that implement them, is the last call
by its name, with its index if it has one, so that an operation is compared with the
one of its name: a pop that reported an empty line, or another place, would show.

### Thread pool

`isRunning` is written without `mutexQueue`, so a worker's test of it (line 82),
its wait (84) and its second test (87) are separate steps, and so are clearing
it, the broadcast and each join in the caller. `phase` (has a `Free` begun, is
the pool gone), `drainMark` (what was scheduled when a waiting `Free` found the
queue empty) and `spurious` are not in the code. A call that fails at its first
test changes nothing and is a stutter. The model takes it as the caller's
contract that no call begins after a `Free` has begun.

### Server

A client is a connection. Bytes are counted. `file` is the part of the
descriptor table available to connections; `accept` takes the lowest free entry
and fails when there is none. `ready` holds the edges that `epoll_wait` has not
returned: input sets one, `EPOLL_CTL_ADD` sets one if input is waiting, and a
returned edge is gone. The stop event is level-triggered. `events` pairs each
descriptor with the connection it was returned for; that second half, like
`owner` of a context, is only there for properties. SIGTERM runs its handler in
either thread and ends that thread's `epoll_wait` with EINTR. `errno` is
modelled because a full buffer is reported as -1 without a system call and the
caller then looks at what the last failing one left.

What a parse does is `Parse`: an unsettled context stays so, settles, or is never
returned from; a settled one stays settled and is returned from. `ParseReturns` and
`ParseSpins` use its `Outcomes` and `MayLoop`, and `Parser` implements the same
module (`ImplementsParse`), so neither side can change alone.

Assumed: the descriptor limit of the process is at most `MAX_FDS`, the size of
`g_parserContexts`, which the code does not test; the write to the stop event
succeeds; `socket_option_setNonBlocking` of the main socket succeeds.

### Parser and Request

A byte is CR, LF, SP, one of `? & =`, `M` for the name of a method (one byte
here), or `X` for any other. `Inputs` is what clients may send; they may cut it
anywhere. A loop iteration that changes nothing is the code going round for ever:
under fairness the call then never returns.

`Request` follows `parseStartLine` and `parseParams` one allocation or token at a
time. Any of the allocations from the request to the last parameter may fail, up to
`MaxFaults` of them. The heap is a set of blocks named for what they hold, a pair
and its strings also for their place in the list; `Reachable` is what the parser
could still free. `FreeContext` is the reader's `freeContext`, which ends with
`ParserContext_Free`.

`parseHeaders` is a stub that returns -1, so a request with headers always ends as
`BadRequestError`, and one without headers is `Complete` before its start line was
looked at. `ParserContext_Free` calls `NKBUffer_Empty` (line 70), which does not
exist; the model reads it as `NKBuffer_Empty`. Left out: a failing
`ParserContext_Init`, NUL bytes (where `strncpy` stops), and windows of more than
`UINT16_MAX` bytes, which the buffer cannot hold.

### Linked lists

`cursor` is the `ListNode_t *` a client holds: `NodeAt` hands it out, `Next` moves
it, `RemoveNode` takes it and leaves it dangling. `Call(c, pointers, effect)` is the
call `c`, which follows these pointers: it has its effect if all are live nodes, and
otherwise `fault` says whether NULL or a freed node was followed and nothing
happens after. `skewed` records that `AddAt` has added between two nodes: the
links of the two directions disagree from then on. Removals and reads go on then,
additions do not. `PopInside` is `PopAt` inside the list as the code has it: it refuses
an item that is there. `ActsAsLine` compares every call with `List` and excepts exactly
the calls that fault, the lists that are skewed, and that refusal.

In `ConcurrentLinkedList` every call between lock and unlock is a step of the inner
list, the cursor is shared, and a thread may wait for the mutex while another is in
`Free`. No call begins once `Free` has had the mutex.

## Runs

| Run | Instance | Shows |
| --- | --- | --- |
| `pool_safety` | 3 workers, 2 callers, 3 tasks, 1 spurious wakeup | all safety properties of the pool, and that it implements `TaskService` |
| `pool_liveness` | 2 workers, 2 callers, 3 tasks | queued tasks start; a draining `Free` passes its wait; joins end unless a wakeup was lost |
| `pool_free_hangs` | 1 worker, 1 caller | violated: `ThreadPool_Free` returns |
| `pool_arg_kept` | 1 worker, 1 caller | violated: a heap argument is freed after the run |
| `queue` | 4 nodes | pointers spell a list, nodes are owned once, `Free` releases each content once, `Fifo` |
| `ring_buffer` | 4 slots | indices follow the elements, `Deque` |
| `linked_list` | 5 nodes, 2 threads | both directions spell one list until an `AddAt` inside, which calls can follow an invalid pointer, and that all others but `PopAt` inside do and refuse what `List` does |
| `server_safety` | 3 connections, 2 descriptors, batches of 2, buffer of 2, 1 failing call | descriptor reuse, registration, announcement of input, shutdown order, released descriptors |
| `server_liveness` | 2 connections, 1 descriptor | shutdown ends, a failed reader ends the server, input is read, closed peers are released |
| `parser` | buffer of 18, four families of inputs, 2 failing allocations | ranges, the verdict of a call against the bytes it finds, parameters against the query, memory, `Parse`, return |
| `parser_spins` | inputs of 8 bytes | violated: incomplete headers make the parse return |
| `parser_empty_line` | inputs of 8 bytes | violated: headers end at the first empty line |

Why the bounds suffice. Pool: two workers are needed for a task overtaking
another, a third for one that waits while both are busy; two callers for a call
meeting another; three tasks for one running, one queued and one submitted from
a task. Server: three connections over two descriptors is the smallest instance
in which a descriptor is reused while another connection stays open; batches of
two leave an event behind, with the stop event a third; a buffer of two can be
filled in one or in two reads. Queue and ring: four elements wrap the ring, and
pass through the empty, the one-element and the full state in every order. Linked
list: a place is first looked for from the tail, more than one link away, in a list
of five; two threads are one that acts and one whose cursor goes stale or whose
call overlaps `Free`. Parser: `Cuts` are all words of eight bytes over CR, LF and
another byte, which is a start line of two, its separator and the end of headers;
`FullBuffers` are the same five bytes at the end of a buffer that they fill;
`Lines` are all start lines of up to four bytes, enough for a method, a target and
both spaces to be missing, empty or present; `Queries` are all queries of up to
five bytes, which make three tokens, empty ones, and ones with `=` first, last,
twice or not at all. Two failing allocations are a copy that fails unnoticed and
the failure after it.

Deadlock is not checked where the system may stop: a pool that is freed or has
no more tasks, a server that has returned, a parser whose buffer is full.

### Fairness

`pool_liveness` assumes that each worker and each call in progress is scheduled
and that task functions return; nothing is assumed of clients, of failures or of
spurious wakeups. A thread that waits for a mutex needs only weak fairness here
because every critical section in the model ends in a few steps of a thread
that is scheduled. `server_liveness` assumes both threads are scheduled: a
timeout of the main loop is a step of its own, and the choice whether a parse
returns is left to the model. `parser_spins` and `parser` assume the loop of
`Parser_TryParseRequest` is executed; no allocation is obliged to fail and no byte
to arrive.

### Findings

1. `ThreadPool_Free`, `Stop` and the rollback of `Start` may never return: a worker
   that tested `isRunning` and has not waited yet misses the broadcast
   (`pool_free_hangs`; the tests say "must not block").
2. The argument of a task that ran is never freed (`pool_arg_kept`; a test says the
   pool frees it).
3. Headers that arrive in pieces keep the reader thread in the parser's loop
   (`parser_spins`; a comment says "continue reading from client"). It follows that
   SIGTERM does not stop the server then: `StopCompletes` has that exception.
4. A request without headers whose body, in the same piece, holds an empty line is
   taken for one with headers (`parser_empty_line`; a test is named
   `StopsAtFirstEmptyLine`).

More facts, which the properties and actions in brackets name:

- an end of stream that arrives together with data is never noticed
  (`ClosedPeerIsReleased` is stated for one that arrives alone);
- a failed `pthread_create` jumps past the close of the stop event, which stays open
  (`server.c:201`). `DescriptorsReleased` admits that after this failure and nothing
  after any other. It is about the descriptors `server_Run` opens for itself: accepted
  connections belong to the reader, which leaves those that are open when it ends as
  they are;
- a query token that begins with `=` keeps the loop of `parseParams` where it is
  (`client_parser.c:392`; `StaysAtToken` in `ReturnsUnlessLooping`);
- an empty token takes the `&` behind it into the next key (366; `ParamsSpellQuery`);
- the `HttpRequest` struct of a refused request and the copy of the query are
  dropped without `free` (320, 233), and so are the strings of a pair that
  `LinkedList_AddEnd` refuses (406) (`BlocksAccounted`);
- a string that could not be copied is silently empty, and a query that could not
  be copied has no parameters (`CopyFrom`);
- `LinkedList_AddStart` on an empty list writes through NULL (`linked_list.c:82`),
  `LinkedList_Next` behind the last node reads through it (407), and neither it nor
  `RemoveNode` can tell a freed node (`CallersFault`);
- `LinkedList_PopAt` inside the list takes the success of `NodeAt` for an error,
  returns 1 and removes nothing (235; `PopInside`, which `ActsAsLine` excepts: without
  that exception TLC finds it on a list of three);
- when the bytes come makes a difference although where they are cut does not: X X CR LF
  CR LF is a `Complete` request, which no later byte can change, while the same bytes and
  one more CR LF in the same piece are a bad one (`client_parser.c:145`, 164; the cause
  is that of finding 4, and `VerdictFollowsBytes` speaks of one call only);
- `LinkedList_AddAt` inside the list adds behind the index and not at it (150), and
  tells neither `tail` nor the node after the new one: two nodes, `AddAt(list, 1, d)`
  and two `PopEnd` leave `head` and `tail` NULL with a length of 1, which "Law 1"
  above the struct excludes (`AddInside`; `LinksSpellChain` excepts such lists);
- `ConcurrentLinkedList_Create` copies an initialized mutex by value (32; the model
  takes the copy for a good mutex), and `Free` destroys it under the calls that wait
  for it (49; `LateCall`).

## Proofs

Each safety property and each refinement of a passing run is also a theorem, for
every value of the constants that the assumption of its module admits. Those
assumptions say that sizes and bounds are natural numbers (sizes at least one, at
most 255 workers because the count is a `uint8_t`), that sets of nodes are
finite, and that a value standing for "none" is no real one. No theorem has
another hypothesis.

A property is seldom inductive as it stands. Each module of proofs has an
inductive invariant `IInv` (`WellFormed` itself for the ring), which TLC was given
before it was proved, lemmas that a step keeps each part it can disturb, and
theorems that combine them.

### Thread pool

`IInv` adds what the code relies on:

- `QueueLock`, `PoolLock`: a worker is in its critical section exactly while it
  owns `mutexQueue`; at most one call is past its trylock, and where it is and
  which call it is fit together;
- `WorkerRing`: the ring lists exactly the threads that exist, each once, in
  creation order, a suffix of `1..WorkersCount` while they are joined;
- `RunState`: what `isRunning`, the ring and the arguments are at each point of a
  call in progress;
- `PopGuarded`: a worker past its wait with `isRunning` set has a task in the queue.
  `isRunning` may be cleared between its two loads but not set again, because
  setting it needs a ring without workers;
- `TaskOrder`: the queue is an interval of ids that begins at `tasksStarted`, which
  gives order, uniqueness and the counters;
- `Memory`: queued and running tasks are allocated.

For the refinement, `pending` is the queue, `running` the tasks of busy workers,
`done` the started ones that are not running, and `mode` follows the ring and
`phase`; `StepSimulation` maps each action to a step of the service or a stutter.

### Server

`IInv`, in `Server.tla`, holds the run's properties together with

- `ConnectionsDistinct`: a connection is at one descriptor or once in the backlog,
  so an accepted one is open nowhere else;
- `WatchedAreOpen`, `WatchedOnly`: epoll watches open connections only, and
  contexts and events are of watched ones. This is where the order of `freeContext`,
  `EPOLL_CTL_DEL` and `close` matters: after an early `close` the rest would befall
  the next connection with that descriptor;
- `ReaderAtConnection`: the connection the reader is busy with stays open until
  the reader closes it, and none of the events left is for it, since `epoll_wait`
  returns a descriptor once in a batch;
- `Lifetimes`: what is open before each step of the setup, and that the reader
  exists exactly while everything is. `ReaderOutlived` follows from it, and
  `DescriptorsReleased` from it and the step that returns: that step leaves the stop
  event open when it comes from a failed `pthread_create` and nothing otherwise.

`UnreadDataIsAnnounced` is inductive with the rest: input sets an edge, an edge is
lost only when it becomes an event, an event only when it is handled, and a `recv`
that leaves something behind has filled the context, which is the exception.

### Queue, ring buffer and linked lists

`RingBufferProofs`: head, tail and count keep the elements at consecutive slots.
`Neighbours` says what going on and going back by one do at both ends of the array;
for `Deque`, the contents are the run of `count` slots from `head`.

`QueueProofs`: `WellFormed`, and that a freed queue holds no nodes. `Queue_Free`
walks from `head` while it removes; that its walk reaches exactly the nodes of the
line, however long, is shown place by place (`WalkFollowsLine`), and gives
`FreeReleasesContents`. For `Fifo`, the contents are the data along the line.

`LinkedListProofs`: a chain without repetitions (`Distinct`), exactly the nodes that
are live (`Owned`, `NothingLeft`), and what `next` and `prev` say at each of its
places (`LinkedBothWays`), with what is still true once `AddAt` has added inside.
`FaultsAreCallers` follows because an index leads to a live node and so do the
links of one (`IndexLeads`, `Neighbours`); `ActsAsLine` is one lemma per operation, and
for the refusals `RefusesOnLine`: an empty list is an empty line, and an index past its
length is one past the line's.
All of it is stated for the list under concurrent callers, whose inner steps are
those of the plain one.

### Parser and requests

Two invariants side by side, one about the bytes and one about the request.

- `BytesIInv`: what lies before the start line is blank (`SkippedIsBlank`), the line
  ends at the first CR LF behind it (`LineIsEnded`), the headers at the double one
  (`HeadersAreEnded`). Bytes are only appended, so a first occurrence stays the first
  (`OccurrencesStay`), wherever the input was cut. `CallFollowsBytes` says at each point
  of a call what the bytes seen so far amount to; when the call returns, that is
  `VerdictFollowsBytes`;
- `RequestIInv`: a request is built only within a parse (`OnlyWhileParsing`), each
  stage finds what the stages before it left (`StepByStep`), and the heap is what is
  reachable and what was dropped (`BlocksAccounted`), with one lemma per allocation,
  success and failure. `LineRead` joins the two: past its first stage, the start
  line in the buffer has the parts that the code reads.

`ParamsSpellQuery` rests on `ListSpellsQuery`: while no allocation has failed, the
pairs so far are the query up to the place where the next token begins, written out
pair by pair. `TokenCut` and `TokenSpelled` say where `parseParams` cuts a token and
that the pair writes it out again, `PairSpells` that the list grows by it. The
property writes the list with `FlattenSeq`, a recursive function; `FlattenLemmas`
proves that such a function exists and is unique and what appending does to it.

For `Parse`, `busy` is `parsing` and `settled` follows `state`; a step inside a
call settles the request or is a stutter.

### Only model-checked

Liveness, which is beyond the prover: `QueuedTaskStarts`, `DrainEnds`,
`JoinEndsUnlessWakeupLost`, `StopCompletes`, `ReaderFailureStopsServer`,
`WaitingClientIsHeard`, `ClosedPeerIsReleased`, `ReturnsUnlessLooping`. The
refinements are of the steps; no abstract specification here promises fairness.

Induction has its own form here: the library's rules take a predicate as a
parameter, which the installed provers cannot instantiate. The proofs collect the
numbers for which a fact holds in a set and use that a set of natural numbers has a
least element (`LeastNumber`, `UpTo`).

## Not modelled, and the plan

Still to do: an abstract service of connections (waiting, served, closed, and the
server's own life) that `Server` implements, with the step-by-step proof of it.

Left out for good: the int32 ring buffer, an unused earlier copy of the generic
one; the helpers of bytes and socket options, which have no state of their own;
`main`, the Makefile, logging and the texts of messages; the array of headers,
which `parseHeaders` never fills. Todo entries of `todo.txt`, such as closing idle
clients, have no code yet.
