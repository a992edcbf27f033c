------------------------------- MODULE Server -------------------------------
(***************************************************************************)
(* The running server: the main thread of server_Run, which accepts        *)
(* connections, the reader thread of clientReaderRoutine, which reads from *)
(* them, the two epoll instances between them, the clients and SIGTERM.    *)
(*                                                                         *)
(* A client is one connection; a peer that connects again is another       *)
(* client.  Bytes are counted, not looked at.  What the parser makes of    *)
(* them is what Parse, which Parser implements, leaves open.               *)
(***************************************************************************)
EXTENDS Integers, Sequences, FiniteSets

CONSTANTS Clients,     \* the connections that may be made
          MaxFds,      \* how many descriptors the process has left for them
          BufferSize,  \* REQUEST_HEADERS_BUFFER_SIZE
          MaxBytes,    \* bound: the bytes one client sends
          MaxEvents,   \* MAX_SIMULTANEOUS_READ_EVENTS
          MaxFaults,   \* bound: the system calls and allocations that fail
          NoClient,    \* no connection at a descriptor
          NoContext    \* no parser context at a descriptor

\* ParserContext_t; owner, the client whose bytes it holds, is not in the code.
Context == [length : 0..BufferSize, settled : BOOLEAN, owner : Clients]

ASSUME ServerAssumption ==
    /\ MaxFds \in Nat \ {0}
    /\ BufferSize \in Nat \ {0}
    /\ MaxBytes \in Nat
    /\ MaxEvents \in Nat \ {0}
    /\ MaxFaults \in Nat
    /\ NoClient \notin Clients
    /\ NoContext \notin Context

VARIABLES
    \* the kernel
    backlog,      \* connections waiting to be accepted, oldest first
    file,         \* the descriptor table: the connection open at each descriptor
    watched,      \* the connections in g_clientsEpoll
    ready,        \* those with an edge not yet returned by epoll_wait
    inbox,        \* the bytes received from each client and not yet read
    ended,        \* the clients that closed their end
    connected,    \* the clients that ever connected
    stopSignal,   \* stopEventFd was written
    opened,       \* what server_Run has opened and not closed
    \* shared by the two threads
    alive,        \* g_isServerAlive
    threadFailed, \* clientReaderArg.threadFailed
    \* the main thread
    mpc,          \* where server_Run is
    clientFd,     \* the descriptor accept returned
    \* the reader thread
    rpc,          \* where clientReaderRoutine is
    events,       \* the events of the last epoll_wait not yet handled
    activeFd,     \* the descriptor of the event being handled
    context,      \* g_parserContexts
    errno,        \* the reader's errno: "retry" (EAGAIN, EINTR) or "other"
    \* bound
    faults        \* calls that may still fail

kernel == <<backlog, file, watched, ready, inbox, ended, connected>>
peers  == <<inbox, ended, connected>>
mainThread == <<mpc, clientFd>>
reader == <<rpc, events, activeFd, context, errno>>
shared == <<alive, threadFailed, stopSignal, opened>>
vars   == <<kernel, shared, mainThread, reader, faults>>

Fds == 1..MaxFds
StopFd == 0

Descriptors == {"mainSocket", "mainEpoll", "clientsEpoll", "stopEvent"}

\* The labels at the end of server_Run: each falls through to the next.
closeMainSocket == {"mainSocket"}
closeMainEpoll == {"mainEpoll"} \cup closeMainSocket
closeAllEpolls == {"clientsEpoll"} \cup closeMainEpoll
\* Fault: the label does not fall through.
CloseStopOnly == {"stopEvent"}
closeStopEventFd == {"stopEvent"} \cup closeAllEpolls

\* server_Run's preparations, in order: what each opens, which comes next, and
\* the label its failure jumps to.
Rung(opens, next, label) == [opens |-> opens, next |-> next, label |-> label]
Setup == [socket       |-> Rung({"mainSocket"}, "mainEpoll", {}),
          mainEpoll    |-> Rung({"mainEpoll"}, "clientsEpoll", closeMainSocket),
          clientsEpoll |-> Rung({"clientsEpoll"}, "watchSocket", closeMainEpoll),
          watchSocket  |-> Rung({}, "stopEvent", closeAllEpolls),
          stopEvent    |-> Rung({"stopEvent"}, "watchStop", closeAllEpolls),
          watchStop    |-> Rung({}, "thread", closeStopEventFd),
          thread       |-> Rung({}, "loop", closeAllEpolls)]

Event == [fd : Fds, of : Clients] \cup {[fd |-> StopFd, of |-> NoClient]}

TypeOK ==
    /\ backlog \in Seq(Clients)
    /\ file \in [Fds -> Clients \cup {NoClient}]
    /\ watched \subseteq Clients /\ ready \subseteq watched
    /\ inbox \in [Clients -> 0..MaxBytes]
    /\ ended \subseteq connected /\ connected \subseteq Clients
    /\ stopSignal \in BOOLEAN /\ opened \subseteq Descriptors
    /\ alive \in BOOLEAN /\ threadFailed \in BOOLEAN
    /\ mpc \in DOMAIN Setup \cup {"loop", "wait", "accept", "register", "stop",
                                  "signal", "join", "returned"}
    /\ clientFd \in Fds
    /\ rpc \in {"none", "start", "loop", "wait", "handle", "parse", "spin",
                "free", "unwatch", "close", "done"}
    /\ events \subseteq Event
    /\ activeFd \in Fds
    /\ context \in [Fds -> Context \cup {NoContext}]
    /\ errno \in {"retry", "other"}
    /\ faults \in 0..MaxFaults

Init ==
    /\ backlog = <<>> /\ file = [f \in Fds |-> NoClient]
    /\ watched = {} /\ ready = {}
    /\ inbox = [c \in Clients |-> 0] /\ ended = {} /\ connected = {}
    /\ stopSignal = FALSE /\ opened = {}
    /\ alive = TRUE /\ threadFailed = FALSE
    /\ mpc = "socket" /\ clientFd = 1
    /\ rpc = "none" /\ events = {} /\ activeFd = 1
    /\ context = [f \in Fds |-> NoContext]
    /\ errno = "other" /\ faults = MaxFaults

Fault == faults > 0 /\ faults' = faults - 1
NoFault == UNCHANGED faults

Open(c) == \E f \in Fds : file[f] = c
Waiting(c) == \E i \in DOMAIN backlog : backlog[i] = c
FreeFds == {f \in Fds : file[f] = NoClient}

-----------------------------------------------------------------------------
(* Clients and signals.                                                    *)

\* The bytes of c the reader has read.
Received(c) == IF \E f \in Fds : context[f] /= NoContext /\ context[f].owner = c
               THEN context[CHOOSE f \in Fds : context[f] /= NoContext /\ context[f].owner = c].length
               ELSE 0

Connect(c) == /\ c \notin connected
              /\ "mainSocket" \in opened
              /\ connected' = connected \cup {c}
              /\ backlog' = Append(backlog, c)
              /\ UNCHANGED <<file, watched, ready, inbox, ended, shared, mainThread, reader, faults>>

\* Input from c puts its connection on the ready list, if it is watched.
Announce(c) == ready' = ready \cup ({c} \cap watched)

Send(c) == /\ Open(c) \/ Waiting(c)
           /\ c \notin ended
           /\ inbox[c] + Received(c) < MaxBytes
           /\ inbox' = [inbox EXCEPT ![c] = @ + 1]
           /\ Announce(c)
           /\ UNCHANGED <<backlog, file, watched, ended, connected, shared, mainThread, reader, faults>>

PeerCloses(c) == /\ Open(c) \/ Waiting(c)
                 /\ c \notin ended
                 /\ ended' = ended \cup {c}
                 /\ Announce(c)
                 /\ UNCHANGED <<backlog, file, watched, inbox, connected, shared, mainThread, reader, faults>>

\* SIGTERM runs handleProcSignal in either thread; epoll_wait of that thread
\* fails with EINTR.
Sigterm ==
    /\ alive
    /\ mpc \notin {"returned"}
    /\ alive' = FALSE
    /\ \/ /\ mpc = "wait"
          /\ mpc' = "loop"
          /\ UNCHANGED <<rpc, errno>>
       \/ /\ rpc = "wait"
          /\ rpc' = "loop"
          /\ errno' = "retry"
          /\ UNCHANGED mpc
       \/ /\ (mpc /= "wait") \/ (rpc \notin {"wait", "none", "done"})
          /\ UNCHANGED <<mpc, rpc, errno>>
    /\ UNCHANGED <<kernel, threadFailed, stopSignal, opened, clientFd, events, activeFd, context, faults>>

-----------------------------------------------------------------------------
(* The main thread.                                                        *)

SetupStep == /\ mpc \in DOMAIN Setup
             /\ opened' = opened \cup Setup[mpc].opens
             /\ mpc' = Setup[mpc].next
             /\ rpc' = IF mpc = "thread" THEN "start" ELSE rpc
             /\ UNCHANGED <<kernel, alive, threadFailed, stopSignal, clientFd, events, activeFd, context, errno, faults>>

SetupFails == /\ mpc \in DOMAIN Setup
              /\ Fault
              /\ opened' = opened \ Setup[mpc].label
              /\ mpc' = "returned"
              /\ UNCHANGED <<kernel, alive, threadFailed, stopSignal, clientFd, reader>>

\* Fault: the reader's failure goes unnoticed.
StopOnSignalOnly == ~alive

\* The test of the main loop, and the test of threadFailed after it.
MustStop == ~alive \/ threadFailed

MainGoto(from, to) == /\ mpc = from
                      /\ mpc' = to
                      /\ UNCHANGED <<kernel, shared, clientFd, reader>>

MainTest == MainGoto("loop", IF MustStop THEN "stop" ELSE "wait") /\ NoFault
MainWake == backlog /= <<>> /\ MainGoto("wait", "accept") /\ NoFault
MainTimeout == backlog = <<>> /\ MainGoto("wait", "loop") /\ NoFault
MainWaitFails == MainGoto("wait", "stop") /\ Fault

\* accept takes the lowest free descriptor.
Accept == /\ mpc = "accept"
          /\ backlog /= <<>>
          /\ \E f \in FreeFds :
                /\ \A g \in FreeFds : f <= g
                /\ clientFd' = f
                /\ file' = [file EXCEPT ![f] = Head(backlog)]
          /\ backlog' = Tail(backlog)
          /\ mpc' = "register"
          /\ UNCHANGED <<watched, ready, peers, shared, reader, faults>>

AcceptDrained == backlog = <<>> /\ MainGoto("accept", "loop") /\ NoFault

\* Any other error of accept, a full descriptor table among them, ends the loop.
AcceptFails == MainGoto("accept", "stop") /\ ((FreeFds = {} /\ NoFault) \/ Fault)

\* A connection added with input waiting is ready at once.
Register == /\ mpc = "register"
            /\ LET c == file[clientFd] IN
                  /\ watched' = watched \cup {c}
                  /\ ready' = IF inbox[c] > 0 \/ c \in ended THEN ready \cup {c} ELSE ready
            /\ mpc' = "accept"
            /\ UNCHANGED <<backlog, file, peers, shared, clientFd, reader, faults>>

\* O_NONBLOCK cannot be set or epoll_ctl fails: the connection is closed.
RegisterFails == /\ mpc = "register"
                 /\ Fault
                 /\ file' = [file EXCEPT ![clientFd] = NoClient]
                 /\ inbox' = [inbox EXCEPT ![file[clientFd]] = 0]
                 /\ mpc' = "accept"
                 /\ UNCHANGED <<backlog, watched, ready, ended, connected, shared, clientFd, reader>>

StopServer == /\ mpc = "stop"
              /\ alive' = FALSE
              /\ mpc' = "signal"
              /\ UNCHANGED <<kernel, threadFailed, stopSignal, opened, clientFd, reader, faults>>

\* Fault: the event is not written.
WriteNothing == UNCHANGED stopSignal
WriteStop == stopSignal' = TRUE

SignalStop == /\ mpc = "signal"
              /\ WriteStop
              /\ mpc' = "join"
              /\ UNCHANGED <<kernel, alive, threadFailed, opened, clientFd, reader, faults>>

\* Fault: the thread is left to itself.
Detached == TRUE
Joined == rpc = "done"

JoinReader == /\ mpc = "join"
              /\ Joined
              /\ opened' = opened \ closeStopEventFd
              /\ mpc' = "returned"
              /\ UNCHANGED <<kernel, alive, threadFailed, stopSignal, clientFd, reader, faults>>

MainStep == \/ SetupStep \/ SetupFails
            \/ MainTest \/ MainWake \/ MainTimeout \/ MainWaitFails
            \/ Accept \/ AcceptDrained \/ AcceptFails \/ Register \/ RegisterFails
            \/ StopServer \/ SignalStop \/ JoinReader

-----------------------------------------------------------------------------
(* The reader thread.                                                      *)

AfterEvent(rest) == IF rest = {} THEN "loop" ELSE "handle"

ReaderGoto(from, to) == /\ rpc = from
                        /\ rpc' = to
                        /\ UNCHANGED <<mainThread, alive, stopSignal, opened>>

ReaderStart == /\ ReaderGoto("start", "loop")
               /\ UNCHANGED <<kernel, threadFailed, events, activeFd, context, errno, faults>>

ReaderTest == /\ ReaderGoto("loop", IF alive THEN "wait" ELSE "done")
              /\ UNCHANGED <<kernel, threadFailed, events, activeFd, context, errno, faults>>

\* The table of contexts cannot be allocated, or epoll_wait fails.
ReaderFails == /\ ReaderGoto("start", "done") \/ ReaderGoto("wait", "done")
               /\ Fault
               /\ threadFailed' = TRUE
               /\ UNCHANGED <<kernel, events, activeFd, context, errno>>

\* What epoll_wait can return: an edge is returned once, the stop event, which
\* is level-triggered, for as long as it is set.
Pending == {e \in Event : IF e.fd = StopFd THEN stopSignal
                          ELSE e.of \in ready /\ file[e.fd] = e.of}

ReaderWake == /\ rpc = "wait"
              /\ \E batch \in SUBSET Pending :
                    /\ batch /= {}
                    /\ Cardinality(batch) <= MaxEvents
                    /\ batch /= Pending => Cardinality(batch) = MaxEvents
                    /\ events' = batch
                    /\ ready' = ready \ {e.of : e \in batch}
              /\ rpc' = "handle"
              /\ UNCHANGED <<backlog, file, watched, peers, shared, mainThread, activeFd, context, errno, faults>>

\* The thread returns at once; events after this one are dropped.
HandleStop == /\ ReaderGoto("handle", "done")
              /\ \E e \in events : e.fd = StopFd
              /\ events' = {}
              /\ UNCHANGED <<kernel, threadFailed, activeFd, context, errno, faults>>

\* Fault: epoll_ctl comes after close; the context is freed after close.
UnwatchLast == <<"free", "close", "unwatch">>
FreeLast == <<"unwatch", "close", "free">>

\* closeClient's statements, in order.
ClosingOrder == <<"free", "unwatch", "close">>
AfterClosing(step) ==
    LET i == CHOOSE i \in 1..3 : ClosingOrder[i] = step
    IN  IF i = 3 THEN AfterEvent(events) ELSE ClosingOrder[i + 1]

\* getContext: the context of a descriptor, made when there is none.
ContextAt(f) == IF context[f] = NoContext
                THEN [length |-> 0, settled |-> FALSE, owner |-> file[f]]
                ELSE context[f]

\* Fault: the loop comes back to an event it has handled.
StayOnEvent(e) == events' = IF Cardinality(events) > 1 THEN events ELSE {}

\* The loop takes an event.
TakeEvent(e) == events' = events \ {e}
Handling(e) == /\ rpc = "handle"
               /\ e.fd /= StopFd
               /\ TakeEvent(e)
               /\ activeFd' = e.fd

ContextFails(e) == /\ Handling(e)
                   /\ context[e.fd] = NoContext
                   /\ Fault
                   /\ errno' = "other"
                   /\ rpc' = ClosingOrder[1]
                   /\ UNCHANGED <<kernel, shared, mainThread, context>>

\* -1 without a recv: what happens next depends on the last call that failed.
BufferFull(e) == /\ Handling(e)
                 /\ ContextAt(e.fd).length >= BufferSize
                 /\ rpc' = IF errno = "retry" THEN AfterEvent(events') ELSE ClosingOrder[1]
                 /\ UNCHANGED <<kernel, shared, mainThread, context, errno, faults>>

\* Fault: a recv of fixed size; the requested size taken for the received one.
ReadOne(available, space) == 1
ReadRequested(available, space) == space

\* One recv, of everything that is there and fits.
ReadLength(available, space) == IF available < space THEN available ELSE space

ReadData(e) ==
    LET c == file[e.fd]
        ctx == ContextAt(e.fd)
        read == ReadLength(inbox[c], BufferSize - ctx.length)
    IN  /\ Handling(e)
        /\ ctx.length < BufferSize
        /\ inbox[c] > 0
        /\ inbox' = [inbox EXCEPT ![c] = @ - read]
        /\ context' = [context EXCEPT ![e.fd] = [ctx EXCEPT !.length = @ + read]]
        /\ rpc' = "parse"
        /\ UNCHANGED <<backlog, file, watched, ready, ended, connected, shared, mainThread, errno, faults>>

\* Fault: a recv of 0 bytes is taken for EAGAIN.
EndIgnored == AfterEvent(events')

\* End of stream, or a reset connection.
AfterEnd == ClosingOrder[1]

ReadEnd(e) == /\ Handling(e)
              /\ ContextAt(e.fd).length < BufferSize
              /\ inbox[file[e.fd]] = 0
              /\ file[e.fd] \in ended
              /\ context' = [context EXCEPT ![e.fd] = ContextAt(e.fd)]
              /\ errno' \in {errno, "other"}
              /\ rpc' = AfterEnd
              /\ UNCHANGED <<kernel, shared, mainThread, faults>>

\* EAGAIN: an earlier recv had taken what the event announced.
ReadNothing(e) == /\ Handling(e)
                  /\ ContextAt(e.fd).length < BufferSize
                  /\ inbox[file[e.fd]] = 0
                  /\ file[e.fd] \notin ended
                  /\ context' = [context EXCEPT ![e.fd] = ContextAt(e.fd)]
                  /\ errno' = "retry"
                  /\ rpc' = AfterEvent(events')
                  /\ UNCHANGED <<kernel, shared, mainThread, faults>>

Handle == \/ HandleStop
          \/ \E e \in events : \/ ContextFails(e) \/ BufferFull(e)
                               \/ ReadData(e) \/ ReadEnd(e) \/ ReadNothing(e)

\* Parser_TryParseRequest by its contract.
Parsing == INSTANCE Parse WITH busy <- rpc \in {"parse", "spin"},
                               settled <- context[activeFd].settled

\* A parse that runs out of memory refuses the request.
ParseReturns ==
    /\ rpc = "parse"
    /\ \E settled \in Parsing!Outcomes(context[activeFd].settled) :
          /\ context' = [context EXCEPT ![activeFd].settled = settled]
          /\ \/ NoFault /\ UNCHANGED errno
             \/ /\ settled /\ ~context[activeFd].settled
                /\ Fault /\ errno' = "other"
    /\ rpc' = AfterEvent(events)
    /\ UNCHANGED <<kernel, shared, mainThread, events, activeFd>>

ParseSpins == /\ ReaderGoto("parse", "spin")
              /\ Parsing!MayLoop(context[activeFd].settled)
              /\ UNCHANGED <<kernel, threadFailed, events, activeFd, context, errno, faults>>

FreeContext == /\ rpc = "free"
               /\ context' = [context EXCEPT ![activeFd] = NoContext]
               /\ rpc' = AfterClosing("free")
               /\ UNCHANGED <<kernel, shared, mainThread, events, activeFd, errno, faults>>

\* epoll_ctl goes by the descriptor: what is open there now is removed.
Unwatch == /\ rpc = "unwatch"
           /\ watched' = watched \ {file[activeFd]}
           /\ ready' = ready \ {file[activeFd]}
           /\ rpc' = AfterClosing("unwatch")
           /\ UNCHANGED <<backlog, file, peers, shared, mainThread, events, activeFd, context, errno, faults>>

\* The kernel forgets a closed connection, its input and its registration.
Close == /\ rpc = "close"
         /\ file' = [file EXCEPT ![activeFd] = NoClient]
         /\ watched' = watched \ {file[activeFd]}
         /\ ready' = ready \ {file[activeFd]}
         /\ inbox' = [inbox EXCEPT ![file[activeFd]] = 0]
         /\ rpc' = AfterClosing("close")
         /\ UNCHANGED <<backlog, ended, connected, shared, mainThread, events, activeFd, context, errno, faults>>

ReaderStep == \/ ReaderStart \/ ReaderFails \/ ReaderTest \/ ReaderWake
              \/ Handle
              \/ ParseReturns \/ ParseSpins
              \/ FreeContext \/ Unwatch \/ Close

-----------------------------------------------------------------------------

Next == \/ \E c \in Clients : Connect(c) \/ Send(c) \/ PeerCloses(c)
        \/ Sigterm
        \/ MainStep
        \/ ReaderStep

Spec == Init /\ [][Next]_vars

\* Both threads are scheduled; a parse may or may not return.
FairSpec == Spec /\ WF_vars(MainStep) /\ WF_vars(ReaderStep)

-----------------------------------------------------------------------------
(* Safety.                                                                 *)

\* A parser context belongs to the connection that is open at its descriptor:
\* getContext never continues, for a new client, what another one had sent.
ContextOfConnection ==
    \A f \in Fds : context[f] /= NoContext => file[f] = context[f].owner

\* An event is handled for the connection it was returned for: no descriptor
\* in the reader's batch was closed and given to another client meanwhile.
EventForItsConnection ==
    \A e \in events : e.fd /= StopFd => file[e.fd] = e.of

\* A connection the server keeps open is watched, except between accept and
\* epoll_ctl in the main thread and between epoll_ctl and close in the reader.
OpenIsWatched ==
    \A f \in Fds : file[f] /= NoClient =>
        \/ file[f] \in watched
        \/ mpc = "register" /\ clientFd = f
        \/ rpc = "close" /\ activeFd = f

\* Events are edges and each is answered with a single recv, yet unread bytes
\* are always announced by an event to come, unless the buffer is full.
UnreadDataIsAnnounced ==
    \A f \in Fds : (file[f] \in watched /\ inbox[file[f]] > 0) =>
        \/ file[f] \in ready
        \/ \E e \in events : e.fd = f
        \/ activeFd = f /\ rpc \in {"free", "unwatch", "close"}
        \/ context[f] /= NoContext /\ context[f].length = BufferSize
        \/ rpc = "done"

\* The reader uses the epoll instance, the stop event and server_Run's local
\* clientReaderArg: none is gone while the reader may still use it.
ReaderOutlived ==
    rpc \notin {"none", "done"} => mpc /= "returned" /\ opened = Descriptors

\* Whichever preparation fails, and when the server stops, server_Run returns
\* with its own descriptors, the listening socket, both epoll instances and the
\* stop event, closed; the stop event is left by a failed pthread_create and by
\* nothing else.  (Connections are the reader's: those still open stay open.)
DescriptorsReleased ==
    [][mpc' = "returned" => opened' = IF mpc = "thread" THEN {"stopEvent"} ELSE {}]_mpc

-----------------------------------------------------------------------------
(* Why the safety properties hold.                                         *)

\* A connection is in one place: at one descriptor or once in the backlog.
ConnectionsDistinct ==
    /\ \A f, g \in Fds : file[f] = file[g] /\ file[f] /= NoClient => f = g
    /\ \A i, j \in DOMAIN backlog : backlog[i] = backlog[j] => i = j
    /\ \A i \in DOMAIN backlog : backlog[i] \in connected /\ ~Open(backlog[i])
    /\ \A f \in Fds : file[f] /= NoClient => file[f] \in connected

\* Only open connections are watched; the one accepted last is not, until it
\* is registered.
WatchedAreOpen ==
    /\ \A c \in watched : Open(c)
    /\ mpc = "register" => /\ file[clientFd] /= NoClient
                           /\ file[clientFd] \notin watched

\* The reader is busy with activeFd: its connection is open, and watched until
\* it is unwatched; none of the events left is for it.
ReaderAtConnection ==
    rpc \in {"parse", "spin", "free", "unwatch", "close"} =>
        /\ file[activeFd] /= NoClient
        /\ file[activeFd] \in watched <=> rpc /= "close"
        /\ rpc = "close" => ~(mpc = "register" /\ clientFd = activeFd)
        /\ rpc \in {"parse", "spin"} => context[activeFd] /= NoContext
        /\ rpc \in {"unwatch", "close"} => context[activeFd] = NoContext
        /\ \A e \in events : e.fd /= activeFd

\* Events and contexts are of watched connections; between two batches there
\* are no events.
WatchedOnly ==
    /\ \A e \in events : e.fd /= StopFd => e.of \in watched
    /\ \A f \in Fds : context[f] /= NoContext => file[f] \in watched
    /\ rpc \in {"none", "start", "loop", "wait", "done"} => events = {}

\* What is open before each of the preparations.
OpenedBefore == [socket       |-> {},
                 mainEpoll    |-> {"mainSocket"},
                 clientsEpoll |-> {"mainSocket", "mainEpoll"},
                 watchSocket  |-> Descriptors \ {"stopEvent"},
                 stopEvent    |-> Descriptors \ {"stopEvent"},
                 watchStop    |-> Descriptors,
                 thread       |-> Descriptors]

\* The reader thread exists when everything is prepared, and no longer when
\* any of it is closed.
Lifetimes ==
    /\ mpc \in DOMAIN Setup => opened = OpenedBefore[mpc] /\ rpc = "none"
    /\ mpc \notin DOMAIN Setup \cup {"returned"} => opened = Descriptors /\ rpc /= "none"
    /\ mpc = "returned" => \/ rpc = "done" /\ opened = {}
                           \/ rpc = "none" /\ opened \subseteq {"stopEvent"}

\* Together they are inductive.
IInv == /\ TypeOK
        /\ ConnectionsDistinct /\ WatchedAreOpen
        /\ ReaderAtConnection /\ WatchedOnly
        /\ ContextOfConnection /\ EventForItsConnection
        /\ OpenIsWatched /\ UnreadDataIsAnnounced
        /\ Lifetimes

-----------------------------------------------------------------------------
(* Liveness.                                                               *)

Stopping == ~alive \/ mpc = "returned" \/ rpc \in {"spin", "done"}

RoomFor(c) == \A f \in Fds : file[f] = c /\ context[f] /= NoContext
                                => context[f].length < BufferSize

\* SIGTERM, or an error of the main loop, ends the server, unless the reader
\* is inside a parse that does not return.
StopCompletes == ~alive ~> (mpc = "returned" \/ rpc = "spin")

\* A reader thread that fails takes the server down with it.
ReaderFailureStopsServer == threadFailed ~> mpc = "returned"

\* What a client sends before it is accepted is read, or the connection ends.
WaitingClientIsHeard ==
    \A c \in Clients : (Waiting(c) /\ inbox[c] > 0)
                          ~> (inbox[c] = 0 \/ ~RoomFor(c) \/ Stopping)

\* A peer that closes after all it sent was read is noticed: its descriptor is
\* released.  (An end of stream that arrives together with data is not.)
ClosedPeerIsReleased ==
    \A c \in Clients : (c \in ready /\ c \in ended /\ inbox[c] = 0 /\ RoomFor(c))
                          ~> (~Open(c) \/ Stopping)
=============================================================================
