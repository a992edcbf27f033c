---------------------------- MODULE ServerProofs ----------------------------
(***************************************************************************)
(* Proofs about Server, for any number of connections, descriptors, bytes  *)
(* and failing calls.                                                      *)
(*                                                                         *)
(* The safety properties follow from the inductive invariant IInv.  Each   *)
(* part of IInv has a lemma that a step keeps it, with a step per action   *)
(* that touches the part's variables.                                      *)
(***************************************************************************)
EXTENDS Server, SequenceTheorems, TLAPS

-----------------------------------------------------------------------------
(* Tables and sequences.                                                   *)

\* The preparations, spelled out.
LEMMA Rungs ==
    /\ DOMAIN Setup = {"socket", "mainEpoll", "clientsEpoll", "watchSocket",
                       "stopEvent", "watchStop", "thread"}
    /\ Setup["socket"] = Rung({"mainSocket"}, "mainEpoll", {})
    /\ Setup["mainEpoll"] = Rung({"mainEpoll"}, "clientsEpoll", closeMainSocket)
    /\ Setup["clientsEpoll"] = Rung({"clientsEpoll"}, "watchSocket", closeMainEpoll)
    /\ Setup["watchSocket"] = Rung({}, "stopEvent", closeAllEpolls)
    /\ Setup["stopEvent"] = Rung({"stopEvent"}, "watchStop", closeAllEpolls)
    /\ Setup["watchStop"] = Rung({}, "thread", closeStopEventFd)
    /\ Setup["thread"] = Rung({}, "loop", closeAllEpolls)
  BY DEF Setup

\* closeClient frees the context, removes the descriptor from epoll, closes it.
LEMMA Closing ==
    /\ ClosingOrder[1] = "free"
    /\ AfterClosing("free") = "unwatch"
    /\ AfterClosing("unwatch") = "close"
    /\ AfterClosing("close") = AfterEvent(events)
  <1> DEFINE Place(step) == CHOOSE i \in 1..3 : ClosingOrder[i] = step
  <1>1. /\ ClosingOrder[1] = "free"
        /\ ClosingOrder[2] = "unwatch"
        /\ ClosingOrder[3] = "close"
    BY DEF ClosingOrder
  <1>2. \A i \in 1..3 : i = 1 \/ i = 2 \/ i = 3
    OBVIOUS
  <1>3. Place("free") = 1
    BY <1>1, <1>2
  <1>4. Place("unwatch") = 2
    BY <1>1, <1>2
  <1>5. Place("close") = 3
    BY <1>1, <1>2
  <1> QED
    BY <1>1, <1>3, <1>4, <1>5 DEF AfterClosing

\* What the reader does after an event.
LEMMA AfterEventIs ==
    ASSUME NEW rest
    PROVE  /\ AfterEvent(rest) \in {"loop", "handle"}
           /\ AfterEvent(rest) = "loop" <=> rest = {}
  BY DEF AfterEvent

\* accept takes the oldest connection of the backlog.
LEMMA Oldest ==
    ASSUME TypeOK, backlog /= <<>>
    PROVE  /\ 1 \in DOMAIN backlog
           /\ Head(backlog) = backlog[1]
           /\ Head(backlog) \in Clients
           /\ Tail(backlog) \in Seq(Clients)
           /\ DOMAIN Tail(backlog) \subseteq Nat \ {0}
           /\ \A i \in DOMAIN Tail(backlog) :
                 i + 1 \in DOMAIN backlog /\ Tail(backlog)[i] = backlog[i + 1]
  BY EmptySeq, HeadTailProperties, LenProperties DEF TypeOK

\* A new connection goes behind the others.
LEMMA Newest ==
    ASSUME TypeOK, NEW c \in Clients
    PROVE  /\ Append(backlog, c) \in Seq(Clients)
           /\ \A i \in DOMAIN Append(backlog, c) :
                 \/ i \in DOMAIN backlog /\ Append(backlog, c)[i] = backlog[i]
                 \/ i = Len(backlog) + 1 /\ Append(backlog, c)[i] = c
  BY AppendProperties, LenProperties DEF TypeOK

LEMMA ReceivedIsNat ==
    ASSUME TypeOK, NEW c \in Clients
    PROVE  Received(c) \in Nat
  <1> DEFINE Of(f) == context[f] /= NoContext /\ context[f].owner = c
  <1>1. CASE \E f \in Fds : Of(f)
    <2>1. (CHOOSE f \in Fds : Of(f)) \in Fds /\ Of(CHOOSE f \in Fds : Of(f))
      BY <1>1
    <2> QED
      BY <1>1, <2>1 DEF TypeOK, Context, Received
  <1>2. CASE ~\E f \in Fds : Of(f)
    BY <1>2 DEF Received
  <1> QED
    BY <1>1, <1>2

\* An event that is not the stop event is one of a connection.
LEMMA EventOfConnection ==
    ASSUME IInv, NEW e \in events, e.fd /= StopFd
    PROVE  /\ e.fd \in Fds /\ e.of \in Clients
           /\ file[e.fd] = e.of
           /\ file[e.fd] \in watched
           /\ ContextAt(e.fd) \in Context
           /\ ContextAt(e.fd).owner = file[e.fd]
  <1>1. e.fd \in Fds /\ e.of \in Clients
    BY DEF IInv, TypeOK, Event, StopFd
  <1>2. file[e.fd] = e.of /\ file[e.fd] \in watched
    BY DEF IInv, EventForItsConnection, WatchedOnly
  <1>3. ContextAt(e.fd) \in Context /\ ContextAt(e.fd).owner = file[e.fd]
    BY <1>1, <1>2, ServerAssumption DEF IInv, TypeOK, Context, ContextAt, ContextOfConnection
  <1> QED
    BY <1>1, <1>2, <1>3

\* One recv takes what is there or fills the buffer.
LEMMA ReadLengthIs ==
    ASSUME NEW available \in Nat, NEW space \in Nat
    PROVE  /\ ReadLength(available, space) \in Nat
           /\ ReadLength(available, space) <= available
           /\ ReadLength(available, space) <= space
           /\ ReadLength(available, space) \in {available, space}
  BY DEF ReadLength

\* A recv moves bytes from the connection to its context: all there are, or as
\* many as fill the buffer.
LEMMA DataRead ==
    ASSUME IInv, NEW e \in events, ReadData(e)
    PROVE  /\ e.fd \in Fds /\ file[e.fd] \in Clients
           /\ context' \in [Fds -> Context \cup {NoContext}]
           /\ inbox' \in [Clients -> 0..MaxBytes]
           /\ context'[e.fd] \in Context /\ context'[e.fd].owner = file[e.fd]
           /\ \A f \in Fds \ {e.fd} : context'[f] = context[f]
           /\ \A c \in Clients \ {file[e.fd]} : inbox'[c] = inbox[c]
           /\ inbox'[file[e.fd]] = 0 \/ context'[e.fd].length = BufferSize
  <1> USE ServerAssumption
  <1> DEFINE c    == file[e.fd]
             ctx  == ContextAt(e.fd)
             read == ReadLength(inbox[c], BufferSize - ctx.length)
             new  == [length |-> ctx.length + read, settled |-> ctx.settled, owner |-> ctx.owner]
  <1>0. /\ inbox \in [Clients -> 0..MaxBytes]
        /\ context \in [Fds -> Context \cup {NoContext}]
    BY DEF IInv, TypeOK
  <1>1. /\ e.fd \in Fds /\ c \in Clients
        /\ ctx.length \in 0..BufferSize /\ ctx.settled \in BOOLEAN /\ ctx.owner = c
        /\ ctx = [length |-> ctx.length, settled |-> ctx.settled, owner |-> ctx.owner]
    BY EventOfConnection DEF ReadData, Handling, Context, IInv, TypeOK
  <1>2. inbox[c] \in 0..MaxBytes /\ BufferSize - ctx.length \in Nat
    BY <1>0, <1>1
  <1>3. /\ read \in Nat /\ read <= inbox[c] /\ read <= BufferSize - ctx.length
        /\ read \in {inbox[c], BufferSize - ctx.length}
    <2>1. inbox[c] \in Nat
      BY <1>2
    <2> HIDE DEF c, ctx
    <2> QED
      BY <1>2, <2>1, ReadLengthIs DEF read
  <1>4. /\ inbox' = [inbox EXCEPT ![c] = @ - read]
        /\ context' = [context EXCEPT ![e.fd] = [ctx EXCEPT !.length = @ + read]]
    BY DEF ReadData
  <1> HIDE DEF read, ctx, c
  <1>5. [ctx EXCEPT !.length = @ + read] = new
    BY <1>1
  <1>6. new \in Context /\ new.owner = c /\ new.length = ctx.length + read
    BY <1>1, <1>2, <1>3 DEF Context
  <1>7. context' = [context EXCEPT ![e.fd] = new]
    BY <1>4, <1>5
  <1> HIDE DEF new
  <1>8. inbox[c] - read \in 0..MaxBytes
    BY <1>2, <1>3
  <1>9. /\ inbox' \in [Clients -> 0..MaxBytes] /\ inbox'[c] = inbox[c] - read
        /\ \A d \in Clients \ {c} : inbox'[d] = inbox[d]
    BY <1>0, <1>1, <1>4, <1>8
  <1>10. /\ context' \in [Fds -> Context \cup {NoContext}] /\ context'[e.fd] = new
         /\ \A f \in Fds \ {e.fd} : context'[f] = context[f]
    BY <1>0, <1>1, <1>6, <1>7
  <1>11. inbox'[c] = 0 \/ new.length = BufferSize
    BY <1>1, <1>2, <1>3, <1>6, <1>9
  <1> QED
    BY <1>1, <1>6, <1>9, <1>10, <1>11 DEF c

\* A parse that returns has settled the request of the context or has not.
LEMMA ParseSettles ==
    ASSUME IInv, ParseReturns
    PROVE  /\ context' \in [Fds -> Context \cup {NoContext}]
           /\ \A f \in Fds :
                 /\ context'[f] /= NoContext <=> context[f] /= NoContext
                 /\ context[f] /= NoContext => /\ context'[f].length = context[f].length
                                               /\ context'[f].owner = context[f].owner
  <1>1. /\ activeFd \in Fds
        /\ context \in [Fds -> Context \cup {NoContext}]
        /\ context[activeFd] /= NoContext
    BY DEF IInv, TypeOK, ReaderAtConnection, ParseReturns
  <1>2. PICK settled \in BOOLEAN : context' = [context EXCEPT ![activeFd].settled = settled]
    BY DEF ParseReturns, Parsing!Outcomes
  <1>3. context[activeFd] \in Context
    BY <1>1
  <1>4. /\ [context[activeFd] EXCEPT !.settled = settled] \in Context
        /\ [context[activeFd] EXCEPT !.settled = settled].length = context[activeFd].length
        /\ [context[activeFd] EXCEPT !.settled = settled].owner = context[activeFd].owner
    BY <1>3 DEF Context
  <1>5. context' = [context EXCEPT ![activeFd] = [context[activeFd] EXCEPT !.settled = settled]]
    BY <1>2
  <1> QED
    BY <1>1, <1>4, <1>5, ServerAssumption

-----------------------------------------------------------------------------
LEMMA InitIInv == Init => IInv
  <1> SUFFICES ASSUME Init PROVE IInv
    OBVIOUS
  <1> USE ServerAssumption DEF Init
  <1>1. TypeOK
    <2>1. backlog \in Seq(Clients)
      BY EmptySeq
    <2>2. clientFd \in Fds /\ activeFd \in Fds
      BY DEF Fds
    <2>3. mpc \in DOMAIN Setup
      BY Rungs
    <2>4. /\ file \in [Fds -> Clients \cup {NoClient}]
          /\ context \in [Fds -> Context \cup {NoContext}]
          /\ inbox \in [Clients -> 0..MaxBytes]
          /\ faults \in 0..MaxFaults
      OBVIOUS
    <2> QED
      BY <2>1, <2>2, <2>3, <2>4 DEF TypeOK
  <1>2. ConnectionsDistinct /\ WatchedAreOpen
    BY Rungs DEF ConnectionsDistinct, WatchedAreOpen
  <1>3. ReaderAtConnection /\ WatchedOnly
    BY DEF ReaderAtConnection, WatchedOnly
  <1>4. ContextOfConnection /\ EventForItsConnection /\ OpenIsWatched /\ UnreadDataIsAnnounced
    BY DEF ContextOfConnection, EventForItsConnection, OpenIsWatched, UnreadDataIsAnnounced
  <1>5. Lifetimes
    BY Rungs DEF Lifetimes, OpenedBefore
  <1> QED
    BY <1>1, <1>2, <1>3, <1>4, <1>5 DEF IInv

-----------------------------------------------------------------------------
(* Types.                                                                  *)

LEMMA MainTypes == ASSUME IInv, MainStep PROVE TypeOK'
  <1> USE ServerAssumption DEF TypeOK, Fault, NoFault, shared, reader, peers, kernel
  <1>0. TypeOK
    BY DEF IInv
  <1>1. CASE SetupStep
    <2>1. Setup[mpc].opens \subseteq Descriptors
      BY <1>1, Rungs DEF SetupStep, Rung, Descriptors
    <2>2. mpc' \in DOMAIN Setup \cup {"loop"}
      BY <1>1, Rungs DEF SetupStep, Rung
    <2> QED
      BY <1>0, <1>1, <2>1, <2>2 DEF SetupStep
  <1>2. CASE SetupFails
    BY <1>0, <1>2 DEF SetupFails
  <1>3. CASE \/ MainTest \/ MainWake \/ MainTimeout \/ MainWaitFails
             \/ AcceptDrained \/ AcceptFails
    BY <1>0, <1>3 DEF MainTest, MainWake, MainTimeout, MainWaitFails,
                      AcceptDrained, AcceptFails, MainGoto
  <1>4. CASE Accept
    <2>1. Head(backlog) \in Clients /\ Tail(backlog) \in Seq(Clients)
      BY <1>0, <1>4, Oldest DEF Accept
    <2> QED
      BY <1>0, <1>4, <2>1 DEF Accept, FreeFds
  <1>5. CASE Register
    <2>1. file[clientFd] \in Clients
      BY <1>0, <1>5 DEF Register, IInv, WatchedAreOpen
    <2> QED
      BY <1>0, <1>5, <2>1 DEF Register
  <1>6. CASE RegisterFails
    <2>1. file[clientFd] \in Clients
      BY <1>0, <1>6 DEF RegisterFails, IInv, WatchedAreOpen
    <2> QED
      BY <1>0, <1>6, <2>1 DEF RegisterFails
  <1>7. CASE StopServer
    BY <1>0, <1>7 DEF StopServer
  <1>8. CASE SignalStop
    BY <1>0, <1>8 DEF SignalStop, WriteStop
  <1>9. CASE JoinReader
    BY <1>0, <1>9 DEF JoinReader
  <1> QED
    BY <1>1, <1>2, <1>3, <1>4, <1>5, <1>6, <1>7, <1>8, <1>9 DEF MainStep

LEMMA ReaderTypes == ASSUME IInv, ReaderStep PROVE TypeOK'
  <1> USE ServerAssumption DEF TypeOK, Fault, NoFault, shared, mainThread, peers, kernel
  <1>0. TypeOK
    BY DEF IInv
  <1>1. CASE ReaderStart \/ ReaderFails \/ ReaderTest
    <2>1. CASE ReaderFails
      BY <1>0, <2>1 DEF ReaderFails, ReaderGoto
    <2>2. CASE ReaderStart \/ ReaderTest
      BY <1>0, <2>2 DEF ReaderStart, ReaderTest, ReaderGoto
    <2> QED
      BY <1>1, <2>1, <2>2
  <1>2. CASE ReaderWake
    BY <1>0, <1>2 DEF ReaderWake, Pending
  <1>3. CASE HandleStop
    BY <1>0, <1>3 DEF HandleStop, ReaderGoto
  <1>4. ASSUME NEW e \in events, ContextFails(e) \/ BufferFull(e) PROVE TypeOK'
    <2>1. e.fd \in Fds
      BY <1>4, EventOfConnection DEF ContextFails, BufferFull, Handling
    <2>2. CASE ContextFails(e)
      BY <1>0, <2>1, <2>2, Closing DEF ContextFails, Handling, TakeEvent
    <2>3. CASE BufferFull(e)
      <3>1. rpc' \in {"loop", "handle", "free"}
        BY <2>3, Closing, AfterEventIs DEF BufferFull
      <3> QED
        BY <1>0, <2>1, <2>3, <3>1 DEF BufferFull, Handling, TakeEvent
    <2> QED
      BY <1>4, <2>2, <2>3
  <1>5. ASSUME NEW e \in events, ReadData(e) PROVE TypeOK'
    BY <1>0, <1>5, DataRead DEF ReadData, Handling, TakeEvent
  <1>6. ASSUME NEW e \in events, ReadEnd(e) \/ ReadNothing(e) PROVE TypeOK'
    <2>1. e.fd \in Fds /\ ContextAt(e.fd) \in Context
      BY <1>6, EventOfConnection DEF ReadEnd, ReadNothing, Handling
    <2>2. CASE ReadEnd(e)
      BY <1>0, <2>1, <2>2, Closing DEF ReadEnd, Handling, TakeEvent, AfterEnd
    <2>3. CASE ReadNothing(e)
      BY <1>0, <2>1, <2>3, AfterEventIs DEF ReadNothing, Handling, TakeEvent
    <2> QED
      BY <1>6, <2>2, <2>3
  <1>7. CASE ParseReturns
    <2>1. errno' \in {"retry", "other"} /\ faults' \in 0..MaxFaults
      BY <1>0, <1>7 DEF ParseReturns
    <2>2. context' \in [Fds -> Context \cup {NoContext}] /\ rpc' \in {"loop", "handle"}
      BY <1>7, AfterEventIs, ParseSettles DEF ParseReturns
    <2>3. UNCHANGED <<kernel, shared, mainThread, events, activeFd>>
      BY <1>7 DEF ParseReturns
    <2> QED
      BY <1>0, <2>1, <2>2, <2>3
  <1>8. CASE ParseSpins
    BY <1>0, <1>8 DEF ParseSpins, ReaderGoto
  <1>9. CASE FreeContext \/ Unwatch \/ Close
    <2>1. CASE FreeContext
      BY <1>0, <2>1, Closing DEF FreeContext
    <2>2. CASE Unwatch
      BY <1>0, <2>2, Closing DEF Unwatch
    <2>3. CASE Close
      <3>1. file[activeFd] \in Clients
        BY <1>0, <2>3 DEF Close, IInv, ReaderAtConnection
      <3> QED
        BY <1>0, <2>3, <3>1, Closing, AfterEventIs DEF Close
    <2> QED
      BY <1>9, <2>1, <2>2, <2>3
  <1> QED
    BY <1>1, <1>2, <1>3, <1>4, <1>5, <1>6, <1>7, <1>8, <1>9 DEF ReaderStep, Handle

LEMMA TypeStep == IInv /\ [Next]_vars => TypeOK'
  <1> SUFFICES ASSUME IInv, [Next]_vars PROVE TypeOK'
    OBVIOUS
  <1> USE ServerAssumption DEF TypeOK, shared, mainThread, reader, kernel, vars
  <1>0. TypeOK
    BY DEF IInv
  <1>1. ASSUME NEW c \in Clients, Connect(c) PROVE TypeOK'
    BY <1>0, <1>1, Newest DEF Connect
  <1>2. ASSUME NEW c \in Clients, Send(c) PROVE TypeOK'
    <2>1. inbox[c] + 1 \in 0..MaxBytes
      BY <1>0, <1>2, ReceivedIsNat DEF Send
    <2> QED
      BY <1>0, <1>2, <2>1 DEF Send, Announce
  <1>3. ASSUME NEW c \in Clients, PeerCloses(c) PROVE TypeOK'
    <2>1. c \in connected
      BY <1>0, <1>3 DEF PeerCloses, Open, Waiting, IInv, ConnectionsDistinct
    <2> QED
      BY <1>0, <1>3, <2>1 DEF PeerCloses, Announce
  <1>4. CASE Sigterm
    BY <1>0, <1>4 DEF Sigterm
  <1>5. CASE UNCHANGED vars
    BY <1>0, <1>5
  <1> QED
    BY <1>1, <1>2, <1>3, <1>4, <1>5, MainTypes, ReaderTypes DEF Next

-----------------------------------------------------------------------------
(* Connections.                                                            *)

\* Connections move in four actions.
LEMMA ConnectionsMove ==
    ASSUME [Next]_vars
    PROVE  \/ \E c \in Clients : Connect(c)
           \/ Accept \/ RegisterFails \/ Close
           \/ UNCHANGED <<backlog, file, connected>>
  BY DEF Next, vars, kernel, peers, Send, PeerCloses, Sigterm, MainStep, SetupStep, SetupFails,
         MainTest, MainWake, MainTimeout, MainWaitFails, MainGoto, AcceptDrained, AcceptFails,
         Register, StopServer, SignalStop, JoinReader, ReaderStep, ReaderStart, ReaderFails,
         ReaderTest, ReaderWake, ReaderGoto, Handle, HandleStop, ContextFails, BufferFull,
         ReadData, ReadEnd, ReadNothing, ParseReturns, ParseSpins, FreeContext, Unwatch

\* What accept does to the table of descriptors.
LEMMA Accepted ==
    ASSUME IInv, Accept
    PROVE  /\ clientFd' \in Fds /\ file[clientFd'] = NoClient
           /\ file' = [file EXCEPT ![clientFd'] = backlog[1]]
           /\ backlog[1] \in Clients /\ backlog[1] \in connected
           /\ ~Open(backlog[1])
           /\ backlog' = Tail(backlog)
           /\ context[clientFd'] = NoContext
  <1>1. TypeOK /\ backlog /= <<>>
    BY DEF IInv, Accept
  <1>2. clientFd' \in Fds /\ file[clientFd'] = NoClient
    BY DEF Accept, FreeFds
  <1>3. /\ backlog[1] \in Clients /\ backlog[1] \in connected /\ ~Open(backlog[1])
        /\ Head(backlog) = backlog[1]
    BY <1>1, Oldest DEF IInv, ConnectionsDistinct
  <1>4. context[clientFd'] = NoContext
    BY <1>1, <1>2, ServerAssumption DEF IInv, TypeOK, Context, ContextOfConnection
  <1> QED
    BY <1>1, <1>2, <1>3, <1>4 DEF Accept

LEMMA ConnectionsStep == IInv /\ [Next]_vars => ConnectionsDistinct'
  <1> SUFFICES ASSUME IInv, [Next]_vars PROVE ConnectionsDistinct'
    OBVIOUS
  <1> USE ServerAssumption DEF ConnectionsDistinct, Open
  <1>0. TypeOK /\ ConnectionsDistinct
    BY DEF IInv
  <1>1. ASSUME NEW c \in Clients, Connect(c) PROVE ConnectionsDistinct'
    <2>1. /\ backlog' = Append(backlog, c) /\ connected' = connected \cup {c}
          /\ file' = file /\ c \notin connected
      BY <1>1 DEF Connect
    <2>2. \A i \in DOMAIN backlog : backlog[i] /= c
      BY <1>0, <2>1
    <2>3. \A f \in Fds : file[f] /= c
      BY <1>0, <2>1
    <2>4. \A i \in DOMAIN backlog' :
             \/ i \in DOMAIN backlog /\ backlog'[i] = backlog[i]
             \/ i = Len(backlog) + 1 /\ backlog'[i] = c
      BY <1>0, <2>1, Newest
    <2> QED
      BY <1>0, <2>1, <2>2, <2>3, <2>4
  <1>2. CASE Accept
    <2>1. /\ \A i \in DOMAIN backlog' : i + 1 \in DOMAIN backlog /\ backlog'[i] = backlog[i + 1]
          /\ 1 \in DOMAIN backlog /\ DOMAIN backlog' \subseteq Nat \ {0}
      BY <1>0, <1>2, Oldest DEF Accept
    <2>2. \A i \in DOMAIN backlog' : backlog'[i] /= backlog[1]
      BY <1>0, <2>1
    <2>3. ASSUME NEW i \in DOMAIN backlog', NEW j \in DOMAIN backlog', backlog'[i] = backlog'[j]
          PROVE  i = j
      <3>1. /\ i \in Nat /\ j \in Nat
            /\ i + 1 \in DOMAIN backlog /\ j + 1 \in DOMAIN backlog
            /\ backlog[i + 1] = backlog[j + 1]
        BY <2>1, <2>3
      <3>2. i + 1 = j + 1
        BY <1>0, <3>1
      <3> QED
        BY <3>1, <3>2
    <2>4. connected' = connected
      BY <1>2 DEF Accept, peers
    <2>5. \A f \in Fds : file'[f] = IF f = clientFd' THEN backlog[1] ELSE file[f]
      BY <1>0, <1>2, Accepted DEF TypeOK
    <2>6. \A f \in Fds : file[f] /= backlog[1]
      BY <1>2, Accepted
    <2>7. \A i \in DOMAIN backlog' : backlog'[i] \in connected /\ \A f \in Fds : file[f] /= backlog'[i]
      BY <1>0, <2>1
    <2> QED
      BY <1>0, <1>2, <2>2, <2>3, <2>4, <2>5, <2>6, <2>7, Accepted
  <1>3. CASE RegisterFails \/ Close
    <2>1. \A i \in DOMAIN backlog : backlog[i] \in Clients
      BY <1>0, LenProperties, ElementOfSeq DEF TypeOK
    <2>2. /\ backlog' = backlog /\ connected' = connected
          /\ \A f \in Fds : file'[f] \in {file[f], NoClient}
      BY <1>0, <1>3 DEF TypeOK, RegisterFails, Close, peers
    <2> QED
      BY <1>0, <2>1, <2>2
  <1>4. CASE UNCHANGED <<backlog, file, connected>>
    BY <1>0, <1>4
  <1> QED
    BY <1>1, <1>2, <1>3, <1>4, ConnectionsMove

-----------------------------------------------------------------------------
(* Registration with epoll.                                                *)

\* The main thread reaches "register" by Accept only, and it does nothing to
\* the reader but start it and interrupt its wait.
LEMMA MainFrame ==
    ASSUME [Next]_vars
    PROVE  \/ Accept \/ Register \/ RegisterFails
           \/ ReaderStep /\ UNCHANGED mainThread
           \/ /\ (mpc /= "register" /\ mpc' /= "register") \/ UNCHANGED mainThread
              /\ UNCHANGED <<file, watched, activeFd, context, events>>
              /\ rpc' = rpc \/ (rpc = "wait" /\ rpc' = "loop") \/ (mpc = "thread" /\ rpc' = "start")
  <1>1. CASE \E c \in Clients : Connect(c) \/ Send(c) \/ PeerCloses(c)
    BY <1>1 DEF Connect, Send, PeerCloses, reader
  <1>2. CASE ReaderStep
    BY <1>2 DEF ReaderStep, ReaderStart, ReaderFails, ReaderTest, ReaderWake, ReaderGoto, Handle,
         HandleStop, ContextFails, BufferFull, ReadData, ReadEnd, ReadNothing, ParseReturns,
         ParseSpins, FreeContext, Unwatch, Close
  <1>3. CASE Sigterm
    BY <1>3 DEF Sigterm, kernel, mainThread
  <1>4. CASE SetupStep
    BY <1>4, Rungs DEF SetupStep, Rung, kernel
  <1>5. CASE \/ SetupFails \/ MainTest \/ MainWake \/ MainTimeout \/ MainWaitFails
             \/ AcceptDrained \/ AcceptFails \/ StopServer \/ SignalStop \/ JoinReader
    BY <1>5, Rungs DEF SetupFails, MainTest, MainWake, MainTimeout, MainWaitFails, MainGoto,
                AcceptDrained, AcceptFails, StopServer, SignalStop, JoinReader, kernel, reader
  <1>6. CASE UNCHANGED vars
    BY <1>6 DEF vars, kernel, reader
  <1> QED
    BY <1>1, <1>2, <1>3, <1>4, <1>5, <1>6 DEF Next, MainStep

\* The descriptor and registration of connections change in five actions.
LEMMA WatchFrame ==
    ASSUME [Next]_vars
    PROVE  \/ Accept \/ Register \/ RegisterFails \/ Unwatch \/ Close
           \/ UNCHANGED <<file, watched>>
  BY DEF Next, vars, kernel, peers, Connect, Send, PeerCloses, Sigterm, MainStep, SetupStep,
         SetupFails, MainTest, MainWake, MainTimeout, MainWaitFails, MainGoto, AcceptDrained,
         AcceptFails, StopServer, SignalStop, JoinReader, ReaderStep, ReaderStart, ReaderFails,
         ReaderTest, ReaderWake, ReaderGoto, Handle, HandleStop, ContextFails, BufferFull,
         ReadData, ReadEnd, ReadNothing, ParseReturns, ParseSpins, FreeContext

LEMMA WatchedStep == IInv /\ [Next]_vars => WatchedAreOpen'
  <1> SUFFICES ASSUME IInv, [Next]_vars PROVE WatchedAreOpen'
    OBVIOUS
  <1> USE ServerAssumption DEF WatchedAreOpen, Open
  <1>0. TypeOK /\ WatchedAreOpen /\ ConnectionsDistinct
    BY DEF IInv
  <1>1. CASE Accept
    <2>1. /\ \A f \in Fds : file'[f] = IF f = clientFd' THEN backlog[1] ELSE file[f]
          /\ watched' = watched
      BY <1>0, <1>1, Accepted DEF TypeOK, Accept
    <2>2. file[clientFd'] = NoClient /\ clientFd' \in Fds
      BY <1>1, Accepted
    <2>3. backlog[1] \in Clients /\ backlog[1] \notin watched
      BY <1>0, <1>1, Accepted
    <2>4. watched \subseteq Clients
      BY <1>0 DEF TypeOK
    <2> QED
      BY <1>0, <2>1, <2>2, <2>3, <2>4
  <1>2. CASE Register
    BY <1>0, <1>2 DEF Register, TypeOK
  <1>3. CASE RegisterFails
    <2>1. /\ \A f \in Fds : file'[f] = IF f = clientFd THEN NoClient ELSE file[f]
          /\ watched' = watched /\ mpc' = "accept"
          /\ file[clientFd] \notin watched
      BY <1>0, <1>3 DEF TypeOK, RegisterFails
    <2> QED
      BY <1>0, <2>1
  <1>4. CASE Unwatch
    BY <1>0, <1>4 DEF Unwatch, mainThread
  <1>5. CASE Close
    <2>1. /\ \A f \in Fds : file'[f] = IF f = activeFd THEN NoClient ELSE file[f]
          /\ watched' = watched \ {file[activeFd]}
          /\ UNCHANGED <<mpc, clientFd>>
      BY <1>0, <1>5 DEF TypeOK, Close, mainThread
    <2>2. ~(mpc = "register" /\ clientFd = activeFd)
      BY <1>5 DEF IInv, ReaderAtConnection, Close
    <2>3. clientFd \in Fds /\ activeFd \in Fds
      BY <1>0 DEF TypeOK
    <2> QED
      BY <1>0, <2>1, <2>2, <2>3
  <1>6. CASE UNCHANGED <<file, watched>> /\ (mpc' /= "register" \/ UNCHANGED mainThread)
    BY <1>0, <1>6 DEF mainThread
  <1> QED
    BY <1>1, <1>2, <1>3, <1>4, <1>5, <1>6, MainFrame, WatchFrame

\* Whatever the reader does, the connection it is busy with stays as it is
\* until it closes it.
LEMMA ReaderAtStep == IInv /\ [Next]_vars => ReaderAtConnection'
  <1> SUFFICES ASSUME IInv, [Next]_vars PROVE ReaderAtConnection'
    OBVIOUS
  <1> USE ServerAssumption DEF ReaderAtConnection
  <1>0. TypeOK /\ ReaderAtConnection /\ WatchedAreOpen /\ ConnectionsDistinct
    BY DEF IInv
  <1>1. CASE Accept
    <2>1. /\ \A f \in Fds : file'[f] = IF f = clientFd' THEN backlog[1] ELSE file[f]
          /\ UNCHANGED <<watched, rpc, activeFd, context, events>>
      BY <1>0, <1>1, Accepted DEF TypeOK, Accept, reader
    <2>2. file[clientFd'] = NoClient
      BY <1>1, Accepted
    <2>3. activeFd \in Fds
      BY <1>0 DEF TypeOK
    <2> QED
      BY <1>0, <2>1, <2>2, <2>3
  <1>2. CASE Register
    <2>1. /\ UNCHANGED <<file, rpc, activeFd, context, events>>
          /\ watched' = watched \cup {file[clientFd]} /\ mpc = "register" /\ mpc' = "accept"
      BY <1>2 DEF Register, reader
    <2>2. rpc = "close" => file[activeFd] /= file[clientFd]
      BY <1>0, <2>1 DEF ConnectionsDistinct, TypeOK
    <2> QED
      BY <1>0, <2>1, <2>2
  <1>3. CASE RegisterFails
    <2>1. /\ UNCHANGED <<watched, rpc, activeFd, context, events>> /\ mpc = "register" /\ mpc' = "accept"
          /\ \A f \in Fds : file'[f] = IF f = clientFd THEN NoClient ELSE file[f]
          /\ file[clientFd] \notin watched
          /\ activeFd \in Fds
      BY <1>0, <1>3 DEF RegisterFails, reader, TypeOK, WatchedAreOpen
    <2> QED
      BY <1>0, <2>1
  <1>4. CASE /\ UNCHANGED <<file, watched, activeFd, context, events>>
             /\ mpc' /= "register" \/ UNCHANGED mainThread
             /\ rpc' = rpc \/ (rpc = "wait" /\ rpc' = "loop") \/ (mpc = "thread" /\ rpc' = "start")
    BY <1>0, <1>4 DEF mainThread
  <1>5. ASSUME UNCHANGED mainThread, ReaderStep PROVE ReaderAtConnection'
    <2>1. CASE rpc' \notin {"parse", "spin", "free", "unwatch", "close"}
      BY <2>1
    <2>2. ASSUME NEW e \in events, ContextFails(e) \/ BufferFull(e) \/ ReadData(e)
                                     \/ ReadEnd(e) \/ ReadNothing(e)
          PROVE  ReaderAtConnection'
      <3>1. /\ e.fd \in Fds /\ file[e.fd] \in watched /\ file[e.fd] = e.of /\ e.of \in Clients
            /\ activeFd' = e.fd /\ events' = events \ {e}
            /\ UNCHANGED <<file, watched>>
        BY <2>2, EventOfConnection DEF ContextFails, BufferFull, ReadData, ReadEnd, ReadNothing,
             Handling, TakeEvent, kernel
      <3>2. \A d \in events' : d.fd /= e.fd
        <4> SUFFICES ASSUME NEW d \in events', d.fd = e.fd PROVE FALSE
          OBVIOUS
        <4>1. d \in events /\ d /= e /\ e.fd /= StopFd
          BY <2>2, <3>1 DEF ContextFails, BufferFull, ReadData, ReadEnd, ReadNothing, Handling
        <4>2. d.of = e.of
          BY <3>1, <4>1 DEF IInv, EventForItsConnection
        <4>3. d = [fd |-> d.fd, of |-> d.of] /\ e = [fd |-> e.fd, of |-> e.of]
          BY <1>0, <4>1 DEF TypeOK, Event
        <4> QED
          BY <4>1, <4>2, <4>3
      <3>3. rpc' \in {"parse", "free", "loop", "handle"}
        BY <2>2, Closing, AfterEventIs DEF ContextFails, BufferFull, ReadData, ReadEnd,
             ReadNothing, AfterEnd
      <3>4. rpc' = "parse" => context'[e.fd] /= NoContext
        <4>1. CASE ReadData(e)
          BY <2>2, <4>1, DataRead, ServerAssumption
        <4>2. CASE ~ReadData(e)
          BY <2>2, <4>2, Closing, AfterEventIs DEF ContextFails, BufferFull, ReadEnd,
               ReadNothing, AfterEnd
        <4> QED
          BY <4>1, <4>2
      <3> QED
        BY <3>1, <3>2, <3>3, <3>4
    <2>3. CASE ParseSpins
      BY <1>0, <1>5, <2>3 DEF ParseSpins, ReaderGoto, kernel, mainThread
    <2>4. CASE FreeContext
      BY <1>0, <1>5, <2>4, Closing DEF FreeContext, TypeOK, kernel, mainThread
    <2>5. CASE Unwatch
      <3>1. /\ rpc = "unwatch" /\ rpc' = "close"
            /\ UNCHANGED <<file, activeFd, context, events>>
            /\ watched' = watched \ {file[activeFd]}
        BY <2>5, Closing DEF Unwatch
      <3>2. ~(mpc = "register" /\ clientFd = activeFd)
        BY <1>0, <3>1 DEF WatchedAreOpen
      <3> QED
        BY <1>0, <1>5, <3>1, <3>2 DEF mainThread
    <2> QED
      BY <1>5, <2>1, <2>2, <2>3, <2>4, <2>5, Closing, AfterEventIs
         DEF ReaderStep, ReaderStart, ReaderFails, ReaderTest, ReaderWake, ReaderGoto, Handle,
             HandleStop, ParseReturns, Close
  <1> QED
    BY <1>1, <1>2, <1>3, <1>4, <1>5, MainFrame

-----------------------------------------------------------------------------
(* Events and contexts.                                                    *)

\* What handling an event does to everything but its context and its input.
LEMMA EventHandled ==
    ASSUME IInv, NEW e \in events,
           ContextFails(e) \/ BufferFull(e) \/ ReadData(e) \/ ReadEnd(e) \/ ReadNothing(e)
    PROVE  /\ e.fd \in Fds /\ file[e.fd] \in watched /\ file[e.fd] = e.of /\ e.of \in Clients
           /\ activeFd' = e.fd /\ events' = events \ {e} /\ rpc = "handle"
           /\ \A d \in events' : d.fd /= e.fd
           /\ rpc' \in {"parse", "free", AfterEvent(events')}
           /\ UNCHANGED <<kernel, shared, mainThread>> \/ ReadData(e)
           /\ UNCHANGED <<backlog, file, watched, ready, ended, connected, shared, mainThread>>
  <1>1. e.fd /= StopFd /\ activeFd' = e.fd /\ events' = events \ {e} /\ rpc = "handle"
    BY DEF ContextFails, BufferFull, ReadData, ReadEnd, ReadNothing, Handling, TakeEvent
  <1>2. /\ e.fd \in Fds /\ file[e.fd] \in watched /\ file[e.fd] = e.of /\ e.of \in Clients
    BY <1>1, EventOfConnection
  <1>3. ASSUME NEW d \in events', d.fd = e.fd PROVE FALSE
    <2>1. d \in events /\ d /= e
      BY <1>1
    <2>2. d.of = e.of
      BY <1>1, <1>2, <1>3, <2>1 DEF IInv, EventForItsConnection
    <2>3. d = [fd |-> d.fd, of |-> d.of] /\ e = [fd |-> e.fd, of |-> e.of]
      BY <2>1 DEF IInv, TypeOK, Event
    <2> QED
      BY <1>3, <2>1, <2>2, <2>3
  <1>4. rpc' \in {"parse", "free", AfterEvent(events')}
    BY Closing DEF ContextFails, BufferFull, ReadData, ReadEnd, ReadNothing, AfterEnd
  <1>5. /\ UNCHANGED <<kernel, shared, mainThread>> \/ ReadData(e)
        /\ UNCHANGED <<backlog, file, watched, ready, ended, connected, shared, mainThread>>
    BY DEF ContextFails, BufferFull, ReadData, ReadEnd, ReadNothing, kernel, peers
  <1> QED
    BY <1>1, <1>2, <1>3, <1>4, <1>5

\* What handling an event does to its context.
LEMMA EventContext ==
    ASSUME IInv, NEW e \in events,
           ContextFails(e) \/ BufferFull(e) \/ ReadData(e) \/ ReadEnd(e) \/ ReadNothing(e)
    PROVE  /\ \A f \in Fds \ {e.fd} : context'[f] = context[f]
           /\ context'[e.fd] /= NoContext => context'[e.fd].owner = file[e.fd]
  <1>1. CASE ReadData(e)
    BY <1>1, DataRead
  <1>2. CASE ContextFails(e) \/ BufferFull(e)
    BY <1>2, EventHandled DEF ContextFails, BufferFull, IInv, ContextOfConnection
  <1>3. CASE ReadEnd(e) \/ ReadNothing(e)
    <2>1. e.fd \in Fds /\ ContextAt(e.fd).owner = file[e.fd]
      BY <1>3, EventOfConnection DEF ReadEnd, ReadNothing, Handling
    <2>2. context' = [context EXCEPT ![e.fd] = ContextAt(e.fd)]
      BY <1>3 DEF ReadEnd, ReadNothing
    <2> QED
      BY <2>1, <2>2 DEF IInv, TypeOK
  <1> QED
    BY <1>1, <1>2, <1>3

LEMMA EventsStep == IInv /\ [Next]_vars => EventForItsConnection' /\ WatchedOnly'
  <1> SUFFICES ASSUME IInv, [Next]_vars PROVE EventForItsConnection' /\ WatchedOnly'
    OBVIOUS
  <1> USE ServerAssumption DEF EventForItsConnection, WatchedOnly
  <1>0. TypeOK /\ EventForItsConnection /\ WatchedOnly /\ WatchedAreOpen /\ ReaderAtConnection
    BY DEF IInv
  <1>1. \A e \in events : e.fd /= StopFd => e.fd \in Fds /\ file[e.fd] /= NoClient
    BY EventOfConnection
  <1>2. CASE Accept
    <2>1. /\ \A f \in Fds : file'[f] = IF f = clientFd' THEN backlog[1] ELSE file[f]
          /\ UNCHANGED <<watched, rpc, activeFd, context, events>>
          /\ file[clientFd'] = NoClient /\ context[clientFd'] = NoContext
      BY <1>0, <1>2, Accepted DEF TypeOK, Accept, reader
    <2> QED
      BY <1>0, <1>1, <2>1
  <1>3. CASE Register
    BY <1>0, <1>3 DEF Register, reader
  <1>4. CASE RegisterFails
    <2>1. /\ \A f \in Fds : file'[f] = IF f = clientFd THEN NoClient ELSE file[f]
          /\ UNCHANGED <<watched, rpc, activeFd, context, events>>
          /\ file[clientFd] \notin watched
      BY <1>0, <1>4 DEF RegisterFails, reader, TypeOK, WatchedAreOpen
    <2> QED
      BY <1>0, <1>1, <2>1
  <1>5. CASE /\ UNCHANGED <<file, watched, activeFd, context, events>>
             /\ rpc' = rpc \/ (rpc = "wait" /\ rpc' = "loop") \/ (mpc = "thread" /\ rpc' = "start")
    BY <1>0, <1>5, Rungs DEF IInv, Lifetimes
  <1>6. ASSUME NEW e \in events, ContextFails(e) \/ BufferFull(e) \/ ReadData(e)
                                   \/ ReadEnd(e) \/ ReadNothing(e)
        PROVE EventForItsConnection' /\ WatchedOnly'
    BY <1>0, <1>6, EventHandled, EventContext, AfterEventIs
  <1>7. CASE ReaderWake
    <2>1. /\ events' \subseteq Pending /\ UNCHANGED <<file, watched, context>> /\ rpc' = "handle"
      BY <1>7 DEF ReaderWake
    <2>2. \A e \in Pending : e.fd /= StopFd => e.of \in watched /\ file[e.fd] = e.of
      BY <1>0 DEF Pending, TypeOK
    <2> QED
      BY <1>0, <2>1, <2>2
  <1>8. CASE HandleStop \/ ReaderStart \/ ReaderFails \/ ReaderTest
    BY <1>0, <1>8 DEF HandleStop, ReaderStart, ReaderFails, ReaderTest, ReaderGoto, kernel
  <1>9. CASE ParseReturns \/ ParseSpins
    <2>1. /\ UNCHANGED <<file, watched, events>> /\ rpc' \in {"spin", AfterEvent(events)}
          /\ \A f \in Fds : context'[f] /= NoContext => context[f] /= NoContext
      <3>1. CASE ParseSpins
        BY <3>1 DEF ParseSpins, ReaderGoto, kernel
      <3>2. CASE ParseReturns
        BY <1>0, <3>2 DEF ParseReturns, kernel, TypeOK, ReaderAtConnection
      <3> QED
        BY <1>9, <3>1, <3>2
    <2> QED
      BY <1>0, <2>1, AfterEventIs
  <1>10. CASE FreeContext
    <2>1. /\ UNCHANGED <<file, watched, events>> /\ rpc' = "unwatch"
          /\ \A f \in Fds : context'[f] \in {context[f], NoContext}
      BY <1>0, <1>10, Closing DEF FreeContext, kernel, TypeOK
    <2> QED
      BY <1>0, <2>1
  <1>11. CASE Unwatch \/ Close
    <2>1. /\ UNCHANGED <<events, context>>
          /\ rpc' \in {"close", AfterEvent(events)}
          /\ watched' = watched \ {file[activeFd]}
          /\ \A f \in Fds : f /= activeFd => file'[f] = file[f]
          /\ context[activeFd] = NoContext
          /\ activeFd \in Fds
      BY <1>0, <1>11, Closing DEF Unwatch, Close, TypeOK, ReaderAtConnection
    <2>2. \A f \in Fds : file[f] = file[activeFd] => f = activeFd
      BY <1>0, <1>11 DEF IInv, ConnectionsDistinct, Unwatch, Close, ReaderAtConnection, TypeOK
    <2>3. \A e \in events : e.fd /= activeFd
      BY <1>0, <1>11 DEF ReaderAtConnection, Unwatch, Close
    <2> QED
      BY <1>0, <1>1, <2>1, <2>2, <2>3, AfterEventIs
  <1> QED
    BY <1>2, <1>3, <1>4, <1>5, <1>6, <1>7, <1>8, <1>9, <1>10, <1>11, MainFrame
       DEF ReaderStep, Handle

\* Contexts change in the reader, descriptors under them do not.
LEMMA ContextStep == IInv /\ [Next]_vars => ContextOfConnection'
  <1> SUFFICES ASSUME IInv, [Next]_vars PROVE ContextOfConnection'
    OBVIOUS
  <1> USE ServerAssumption DEF ContextOfConnection
  <1>0. TypeOK /\ ContextOfConnection /\ WatchedOnly /\ ReaderAtConnection
    BY DEF IInv
  <1>1. CASE Accept
    <2>1. /\ \A f \in Fds : file'[f] = IF f = clientFd' THEN backlog[1] ELSE file[f]
          /\ context' = context /\ context[clientFd'] = NoContext
      BY <1>0, <1>1, Accepted DEF TypeOK, Accept, reader
    <2> QED
      BY <1>0, <2>1
  <1>2. CASE RegisterFails
    <2>1. /\ \A f \in Fds : file'[f] = IF f = clientFd THEN NoClient ELSE file[f]
          /\ context' = context /\ file[clientFd] \notin watched
      BY <1>0, <1>2 DEF TypeOK, RegisterFails, reader, IInv, WatchedAreOpen
    <2> QED
      BY <1>0, <2>1 DEF WatchedOnly
  <1>3. CASE Close
    <2>1. /\ \A f \in Fds : file'[f] = IF f = activeFd THEN NoClient ELSE file[f]
          /\ context' = context /\ context[activeFd] = NoContext
      BY <1>0, <1>3 DEF TypeOK, Close, ReaderAtConnection
    <2> QED
      BY <1>0, <2>1
  <1>4. ASSUME NEW e \in events, ContextFails(e) \/ BufferFull(e) \/ ReadData(e)
                                   \/ ReadEnd(e) \/ ReadNothing(e)
        PROVE ContextOfConnection'
    BY <1>0, <1>4, EventHandled, EventContext
  <1>5. CASE ParseReturns
    BY <1>0, <1>5, ParseSettles DEF ParseReturns, kernel
  <1>6. CASE FreeContext
    BY <1>0, <1>6 DEF FreeContext, TypeOK, kernel
  <1>7. CASE UNCHANGED <<file, context>>
    BY <1>0, <1>7
  <1>8. CASE Register \/ HandleStop \/ ReaderStart \/ ReaderFails \/ ReaderTest \/ ReaderWake
             \/ ParseSpins \/ Unwatch
    BY <1>7, <1>8 DEF Register, reader, HandleStop, ReaderStart, ReaderFails, ReaderTest, ReaderGoto,
                ReaderWake, ParseSpins, Unwatch, kernel
  <1> QED
    BY <1>1, <1>2, <1>3, <1>4, <1>5, <1>6, <1>7, <1>8, MainFrame DEF ReaderStep, Handle

-----------------------------------------------------------------------------
(* Nothing is forgotten: open connections are watched, unread bytes are    *)
(* announced.                                                              *)

LEMMA OpenStep == IInv /\ [Next]_vars => OpenIsWatched'
  <1> SUFFICES ASSUME IInv, [Next]_vars PROVE OpenIsWatched'
    OBVIOUS
  <1> USE ServerAssumption DEF OpenIsWatched
  <1>0. TypeOK /\ OpenIsWatched /\ ReaderAtConnection /\ WatchedAreOpen
    BY DEF IInv
  <1>1. CASE Accept
    <2>1. /\ \A f \in Fds : file'[f] = IF f = clientFd' THEN backlog[1] ELSE file[f]
          /\ UNCHANGED <<watched, rpc, activeFd>> /\ mpc = "accept" /\ mpc' = "register"
      BY <1>0, <1>1, Accepted DEF TypeOK, Accept, reader
    <2> QED
      BY <1>0, <2>1
  <1>2. CASE Register
    BY <1>0, <1>2 DEF Register, reader
  <1>3. CASE RegisterFails
    <2>1. /\ \A f \in Fds : file'[f] = IF f = clientFd THEN NoClient ELSE file[f]
          /\ UNCHANGED <<watched, rpc, activeFd>>
      BY <1>0, <1>3 DEF TypeOK, RegisterFails, reader
    <2> QED
      BY <1>0, <2>1
  <1>4. CASE /\ (mpc /= "register" /\ mpc' /= "register") \/ UNCHANGED mainThread
             /\ UNCHANGED <<file, watched>>
             /\ rpc /= "close" \/ UNCHANGED <<rpc, activeFd>>
    BY <1>0, <1>4 DEF mainThread
  <1>5. CASE Unwatch
    <2>1. /\ UNCHANGED <<file, activeFd, mainThread>> /\ watched' = watched \ {file[activeFd]}
          /\ rpc = "unwatch" /\ rpc' = "close" /\ activeFd \in Fds
      BY <1>0, <1>5, Closing DEF Unwatch, TypeOK
    <2>2. \A f \in Fds : file[f] = file[activeFd] => f = activeFd
      BY <1>0, <2>1 DEF IInv, ConnectionsDistinct, ReaderAtConnection
    <2> QED
      BY <1>0, <2>1, <2>2 DEF mainThread
  <1>6. CASE Close
    <2>1. /\ \A f \in Fds : file'[f] = IF f = activeFd THEN NoClient ELSE file[f]
          /\ watched' = watched \ {file[activeFd]} /\ UNCHANGED mainThread
          /\ activeFd \in Fds /\ file[activeFd] /= NoClient
      BY <1>0, <1>6 DEF Close, TypeOK, ReaderAtConnection
    <2>2. \A f \in Fds : file[f] = file[activeFd] => f = activeFd
      BY <1>0, <2>1 DEF IInv, ConnectionsDistinct
    <2> QED
      BY <1>0, <2>1, <2>2 DEF mainThread
  <1>7. CASE ReaderStep /\ ~Unwatch /\ ~Close
    <2>1. UNCHANGED <<file, watched>> /\ rpc /= "close"
      BY <1>7 DEF ReaderStep, Handle, HandleStop, ReaderStart, ReaderFails, ReaderTest, ReaderGoto,
           ReaderWake, ContextFails, BufferFull, ReadData, ReadEnd, ReadNothing, Handling,
           ParseReturns, ParseSpins, FreeContext, kernel
    <2>2. UNCHANGED mainThread
      BY <1>7 DEF ReaderStep, Handle, HandleStop, ReaderStart, ReaderFails, ReaderTest, ReaderGoto,
           ReaderWake, ContextFails, BufferFull, ReadData, ReadEnd, ReadNothing, Handling,
           ParseReturns, ParseSpins, FreeContext, mainThread
    <2> QED
      BY <1>4, <2>1, <2>2
  <1>8. mpc = "thread" => rpc = "none"
    BY Rungs DEF IInv, Lifetimes
  <1> QED
    BY <1>1, <1>2, <1>3, <1>4, <1>5, <1>6, <1>7, <1>8, MainFrame

\* What is left for the main thread, the clients and signals when the reader
\* stands still: inputs are announced, nothing is taken off the ready list.
LEMMA UnreadStep == IInv /\ [Next]_vars => UnreadDataIsAnnounced'
  <1> SUFFICES ASSUME IInv, [Next]_vars PROVE UnreadDataIsAnnounced'
    OBVIOUS
  <1> USE ServerAssumption DEF UnreadDataIsAnnounced
  <1>0. TypeOK /\ UnreadDataIsAnnounced
    BY DEF IInv
  <1>1. ASSUME NEW c \in Clients, Send(c) \/ PeerCloses(c) \/ Connect(c) PROVE UnreadDataIsAnnounced'
    <2>1. /\ UNCHANGED <<file, watched, events, activeFd, rpc, context>>
          /\ ready \subseteq ready'
          /\ \A d \in watched : d \in ready' \/ inbox'[d] = inbox[d]
      BY <1>0, <1>1 DEF Send, PeerCloses, Connect, Announce, reader, TypeOK
    <2> QED
      BY <1>0, <2>1
  <1>2. CASE Accept
    <2>1. /\ \A f \in Fds : file'[f] = IF f = clientFd' THEN backlog[1] ELSE file[f]
          /\ UNCHANGED <<watched, ready, inbox, events, activeFd, rpc, context>>
          /\ backlog[1] \notin watched
      BY <1>0, <1>2, Accepted DEF TypeOK, Accept, reader, peers, IInv, WatchedAreOpen
    <2> QED
      BY <1>0, <2>1
  <1>3. CASE Register
    <2>1. /\ UNCHANGED <<file, inbox, events, activeFd, rpc, context>>
          /\ watched' = watched \cup {file[clientFd]}
          /\ ready' = IF inbox[file[clientFd]] > 0 \/ file[clientFd] \in ended
                      THEN ready \cup {file[clientFd]} ELSE ready
      BY <1>3 DEF Register, reader, peers
    <2> QED
      BY <1>0, <2>1
  <1>4. CASE RegisterFails
    <2>1. /\ \A f \in Fds : file'[f] = IF f = clientFd THEN NoClient ELSE file[f]
          /\ UNCHANGED <<watched, ready, events, activeFd, rpc, context>>
          /\ \A c \in watched : inbox'[c] = inbox[c]
          /\ NoClient \notin watched
      BY <1>0, <1>4 DEF RegisterFails, reader, TypeOK, IInv, WatchedAreOpen
    <2> QED
      BY <1>0, <2>1
  <1>5. CASE ReaderStep
    <2>1. CASE ReaderWake
      <3> SUFFICES ASSUME NEW f \in Fds, file[f] \in watched, inbox[file[f]] > 0
                   PROVE  file[f] \in ready' \/ (\E e \in events' : e.fd = f)
                          \/ (context[f] /= NoContext /\ context[f].length = BufferSize)
        BY <2>1 DEF ReaderWake, peers
      <3>1. /\ rpc = "wait" /\ events = {}
            /\ events' \subseteq Pending /\ ready' = ready \ {e.of : e \in events'}
        BY <2>1 DEF ReaderWake, IInv, WatchedOnly
      <3>2. file[f] \in ready \/ (context[f] /= NoContext /\ context[f].length = BufferSize)
        BY <1>0, <3>1
      <3>3. ASSUME NEW e \in events', e.of = file[f] PROVE e.fd = f
        <4>1. e \in Pending /\ e.of \in Clients
          BY <1>0, <3>1, <3>3 DEF TypeOK
        <4>2. e.fd \in Fds /\ file[e.fd] = e.of
          BY <4>1, ServerAssumption DEF Pending, Event, Fds, StopFd
        <4> QED
          BY <3>3, <4>1, <4>2 DEF IInv, ConnectionsDistinct
      <3> QED
        BY <3>1, <3>2, <3>3
    <2>2. ASSUME NEW e \in events, ContextFails(e) \/ BufferFull(e) \/ ReadData(e)
                                     \/ ReadEnd(e) \/ ReadNothing(e)
          PROVE  UnreadDataIsAnnounced'
      <3>1. /\ UNCHANGED <<file, watched, ready>> /\ events' = events \ {e} /\ activeFd' = e.fd
            /\ rpc = "handle" /\ e.fd \in Fds /\ file[e.fd] \in Clients
            /\ \A f \in Fds \ {e.fd} : context'[f] = context[f]
        BY <2>2, EventHandled, EventContext
      <3>2. ASSUME NEW f \in Fds, f /= e.fd, file[f] \in watched
            PROVE  inbox'[file[f]] = inbox[file[f]]
        <4>1. file[f] /= file[e.fd]
          BY <1>0, <3>1, <3>2 DEF IInv, ConnectionsDistinct, TypeOK
        <4>2. CASE ReadData(e)
          BY <1>0, <3>2, <4>1, <4>2, DataRead DEF TypeOK
        <4>3. CASE ~ReadData(e)
          BY <2>2, <4>3 DEF ContextFails, BufferFull, ReadEnd, ReadNothing, kernel
        <4> QED
          BY <4>2, <4>3
      <3>3. \/ rpc' = "free" \/ inbox'[file[e.fd]] = 0
            \/ context'[e.fd] /= NoContext /\ context'[e.fd].length = BufferSize
        <4>1. CASE ContextFails(e)
          BY <4>1, Closing DEF ContextFails
        <4>2. CASE BufferFull(e)
          <5>1. ContextAt(e.fd).length >= BufferSize /\ context' = context
            BY <4>2 DEF BufferFull
          <5>2. context[e.fd] /= NoContext
            BY <5>1 DEF ContextAt
          <5>3. context[e.fd] \in Context
            BY <1>0, <3>1, <5>2 DEF TypeOK
          <5>4. context[e.fd].length = BufferSize
            BY <5>1, <5>2, <5>3 DEF ContextAt, Context
          <5> QED
            BY <5>1, <5>2, <5>4
        <4>3. CASE ReadData(e)
          BY <4>3, DataRead
        <4>4. CASE ReadEnd(e) \/ ReadNothing(e)
          BY <4>4 DEF ReadEnd, ReadNothing, kernel
        <4> QED
          BY <2>2, <4>1, <4>2, <4>3, <4>4
      <3> SUFFICES ASSUME NEW f \in Fds, file[f] \in watched, inbox'[file[f]] > 0
                   PROVE \/ file[f] \in ready
                         \/ \E d \in events' : d.fd = f
                         \/ activeFd' = f /\ rpc' \in {"free", "unwatch", "close"}
                         \/ context'[f] /= NoContext /\ context'[f].length = BufferSize
        BY <3>1
      <3>5. CASE f = e.fd
        BY <3>1, <3>3, <3>5
      <3>6. CASE f /= e.fd
        <4>1. inbox[file[f]] > 0 /\ context'[f] = context[f]
          BY <3>1, <3>2, <3>6
        <4>2. \/ file[f] \in ready
              \/ \E d \in events : d.fd = f
              \/ context[f] /= NoContext /\ context[f].length = BufferSize
          BY <1>0, <3>1, <4>1
        <4> QED
          BY <3>1, <3>6, <4>1, <4>2
      <3> QED
        BY <3>5, <3>6
    <2>3. CASE HandleStop \/ ReaderStart \/ ReaderFails \/ ReaderTest
      <3>1. UNCHANGED <<file, watched, ready, inbox, context>>
        BY <2>3 DEF HandleStop, ReaderStart, ReaderFails, ReaderTest, ReaderGoto, kernel, peers
      <3>2. /\ events' = events \/ rpc' = "done"
            /\ rpc \notin {"free", "unwatch", "close", "done"}
        BY <2>3 DEF HandleStop, ReaderStart, ReaderFails, ReaderTest, ReaderGoto
      <3> QED
        BY <1>0, <3>1, <3>2
    <2>4. CASE ParseReturns \/ ParseSpins
      <3>1. /\ UNCHANGED <<file, watched, ready, inbox, events>> /\ rpc = "parse"
        BY <2>4 DEF ParseReturns, ParseSpins, ReaderGoto, kernel, peers
      <3>2. \A f \in Fds : context[f] /= NoContext =>
                context'[f] /= NoContext /\ context'[f].length = context[f].length
        BY <2>4, ParseSettles DEF ParseSpins
      <3> QED
        BY <1>0, <3>1, <3>2
    <2>5. CASE FreeContext
      BY <1>0, <2>5, Closing DEF FreeContext, TypeOK, kernel, peers
    <2>6. CASE Unwatch
      <3>1. /\ UNCHANGED <<file, inbox, events, activeFd, context>>
            /\ rpc = "unwatch" /\ rpc' = "close"
            /\ watched' = watched \ {file[activeFd]} /\ ready' = ready \ {file[activeFd]}
        BY <2>6, Closing DEF Unwatch, peers
      <3> QED
        BY <1>0, <3>1
    <2>7. CASE Close
      <3>1. /\ \A f \in Fds : file'[f] = IF f = activeFd THEN NoClient ELSE file[f]
            /\ watched' = watched \ {file[activeFd]} /\ ready' = ready \ {file[activeFd]}
            /\ \A c \in watched' : inbox'[c] = inbox[c]
            /\ NoClient \notin watched
            /\ UNCHANGED <<events, activeFd, context>> /\ rpc = "close"
        BY <1>0, <2>7 DEF Close, TypeOK
      <3> QED
        BY <1>0, <3>1
    <2> QED
      BY <1>5, <2>1, <2>2, <2>3, <2>4, <2>5, <2>6, <2>7 DEF ReaderStep, Handle
  <1>6. ASSUME Sigterm \/ UNCHANGED vars \/ (MainStep /\ ~Accept /\ ~Register /\ ~RegisterFails)
        PROVE  UnreadDataIsAnnounced'
    <2>1. UNCHANGED <<file, watched, ready, inbox, events, activeFd, context>>
      BY <1>6 DEF Sigterm, vars, MainStep, SetupStep, SetupFails, MainTest, MainWake, MainTimeout,
           MainWaitFails, MainGoto, AcceptDrained, AcceptFails, StopServer, SignalStop, JoinReader,
           kernel, peers, reader
    <2>2. rpc' = rpc \/ rpc \in {"wait", "none"}
      BY <1>6, Rungs DEF Sigterm, vars, MainStep, SetupStep, SetupFails, MainTest, MainWake, MainTimeout,
           MainWaitFails, MainGoto, AcceptDrained, AcceptFails, StopServer, SignalStop, JoinReader,
           reader, IInv, Lifetimes
    <2> QED
      BY <1>0, <2>1, <2>2
  <1> QED
    BY <1>1, <1>2, <1>3, <1>4, <1>5, <1>6 DEF Next

-----------------------------------------------------------------------------
(* Beginning and end.                                                      *)

\* The reader thread begins when the main thread creates it and ends by itself.
LEMMA ReaderRuns ==
    ASSUME ReaderStep
    PROVE  /\ rpc \notin {"none", "done"} /\ rpc' /= "none"
           /\ UNCHANGED <<mpc, opened>>
  BY Closing, AfterEventIs
     DEF ReaderStep, ReaderStart, ReaderFails, ReaderTest, ReaderWake, ReaderGoto, Handle, HandleStop,
         ContextFails, BufferFull, ReadData, ReadEnd, ReadNothing, Handling, AfterEnd, ParseReturns,
         ParseSpins, FreeContext, Unwatch, Close, mainThread, shared

LEMMA LifetimesStep == IInv /\ [Next]_vars => Lifetimes'
  <1> SUFFICES ASSUME IInv, [Next]_vars PROVE Lifetimes'
    OBVIOUS
  <1> USE Rungs DEF Lifetimes
  <1>0. TypeOK /\ Lifetimes
    BY DEF IInv
  <1>1. CASE SetupStep
    BY <1>0, <1>1 DEF SetupStep, Rung, OpenedBefore, Descriptors
  <1>2. CASE SetupFails
    <2>1. /\ rpc' = rpc /\ rpc = "none" /\ mpc' = "returned"
          /\ opened' = OpenedBefore[mpc] \ Setup[mpc].label
      BY <1>0, <1>2 DEF SetupFails, reader
    <2>2. OpenedBefore[mpc] \ Setup[mpc].label \subseteq {"stopEvent"}
      BY <1>2 DEF SetupFails, Rung, OpenedBefore, Descriptors, closeMainSocket, closeMainEpoll,
                  closeAllEpolls, closeStopEventFd
    <2> QED
      BY <2>1, <2>2
  <1>3. CASE JoinReader
    <2>1. /\ rpc = "done" /\ rpc' = rpc /\ mpc = "join" /\ mpc' = "returned"
          /\ opened' = opened \ closeStopEventFd
      BY <1>3 DEF JoinReader, Joined, reader
    <2>2. opened = Descriptors
      BY <1>0, <2>1
    <2>3. Descriptors \ closeStopEventFd = {}
      BY DEF Descriptors, closeStopEventFd, closeAllEpolls, closeMainEpoll, closeMainSocket
    <2> QED
      BY <2>1, <2>2, <2>3
  <1>4. CASE \/ MainTest \/ MainWake \/ MainTimeout \/ MainWaitFails \/ Accept \/ AcceptDrained
             \/ AcceptFails \/ Register \/ RegisterFails \/ StopServer \/ SignalStop
    BY <1>0, <1>4 DEF MainTest, MainWake, MainTimeout, MainWaitFails, MainGoto, Accept, AcceptDrained,
         AcceptFails, Register, RegisterFails, StopServer, SignalStop, shared, reader
  <1>5. CASE Sigterm
    BY <1>0, <1>5 DEF Sigterm
  <1>6. CASE ReaderStep
    BY <1>0, <1>6, ReaderRuns
  <1>7. ASSUME NEW c \in Clients, Connect(c) \/ Send(c) \/ PeerCloses(c) PROVE Lifetimes'
    BY <1>0, <1>7 DEF Connect, Send, PeerCloses, shared, mainThread, reader
  <1>8. CASE UNCHANGED vars
    BY <1>0, <1>8 DEF vars, shared, mainThread, reader
  <1> QED
    BY <1>1, <1>2, <1>3, <1>4, <1>5, <1>6, <1>7, <1>8 DEF Next, MainStep

-----------------------------------------------------------------------------
(* The theorems.                                                           *)

\* IInv holds in every reachable state: the basis of everything below.
THEOREM Invariance == Spec => []IInv
  <1>1. IInv /\ [Next]_vars => IInv'
    BY TypeStep, ConnectionsStep, WatchedStep, ReaderAtStep, EventsStep, ContextStep,
       OpenStep, UnreadStep, LifetimesStep DEF IInv
  <1> QED
    BY InitIInv, <1>1, PTL DEF Spec

\* The variables keep their types: no client's bytes pass the bound, no
\* context is longer than its buffer, no watched connection is unknown.
THEOREM TypeCorrect == Spec => []TypeOK
  <1>1. IInv => TypeOK
    BY DEF IInv
  <1> QED
    BY <1>1, Invariance, PTL

\* A context is never continued for a client other than its own, although the
\* main thread is given descriptors that the reader has just closed.
THEOREM ContextCorrect == Spec => []ContextOfConnection
  <1>1. IInv => ContextOfConnection
    BY DEF IInv
  <1> QED
    BY <1>1, Invariance, PTL

\* However many events a batch holds, none is handled for another client.
THEOREM EventCorrect == Spec => []EventForItsConnection
  <1>1. IInv => EventForItsConnection
    BY DEF IInv
  <1> QED
    BY <1>1, Invariance, PTL

\* No connection is open and forgotten by epoll.
THEOREM WatchCorrect == Spec => []OpenIsWatched
  <1>1. IInv => OpenIsWatched
    BY DEF IInv
  <1> QED
    BY <1>1, Invariance, PTL

\* One recv per edge is enough: what it leaves behind does not fit the buffer.
THEOREM UnreadCorrect == Spec => []UnreadDataIsAnnounced
  <1>1. IInv => UnreadDataIsAnnounced
    BY DEF IInv
  <1> QED
    BY <1>1, Invariance, PTL

\* While the reader thread runs, everything it was given still exists.
THEOREM ReaderCorrect == Spec => []ReaderOutlived
  <1>1. IInv => ReaderOutlived
    BY Rungs DEF IInv, TypeOK, Lifetimes, ReaderOutlived
  <1> QED
    BY <1>1, Invariance, PTL

\* Whichever preparation fails, server_Run returns with its descriptors closed,
\* but for the stop event when the thread cannot be created.
THEOREM ReleaseCorrect == Spec => DescriptorsReleased
  <1>1. ASSUME IInv, [Next]_vars, mpc' /= mpc, mpc' = "returned"
        PROVE  opened' = IF mpc = "thread" THEN {"stopEvent"} ELSE {}
    <2>1. CASE SetupFails
      <3>1. mpc \in DOMAIN Setup /\ opened = OpenedBefore[mpc] /\ opened' = opened \ Setup[mpc].label
        BY <1>1, <2>1 DEF SetupFails, IInv, Lifetimes
      <3> QED
        BY <3>1, Rungs DEF Rung, OpenedBefore, Descriptors, closeStopEventFd, closeAllEpolls,
                           closeMainEpoll, closeMainSocket
    <2>2. CASE JoinReader
      <3>1. mpc = "join" /\ opened' = opened \ closeStopEventFd
        BY <2>2 DEF JoinReader
      <3>2. opened = Descriptors
        BY <1>1, <3>1, Rungs DEF IInv, Lifetimes
      <3> QED
        BY <3>1, <3>2 DEF Descriptors, closeStopEventFd, closeAllEpolls, closeMainEpoll, closeMainSocket
    <2>3. CASE SetupStep
      BY <1>1, <2>3, Rungs DEF SetupStep, Rung
    <2>4. CASE ReaderStep
      BY <1>1, <2>4, ReaderRuns
    <2>5. CASE \/ MainTest \/ MainWake \/ MainTimeout \/ MainWaitFails \/ Accept \/ AcceptDrained
               \/ AcceptFails \/ Register \/ RegisterFails \/ StopServer \/ SignalStop
      BY <1>1, <2>5 DEF MainTest, MainWake, MainTimeout, MainWaitFails, MainGoto, Accept, AcceptDrained,
           AcceptFails, Register, RegisterFails, StopServer, SignalStop
    <2> QED
      BY <1>1, <2>1, <2>2, <2>3, <2>4, <2>5
         DEF Next, MainStep, Connect, Send, PeerCloses, Sigterm, mainThread, vars
  <1>2. IInv /\ [Next]_vars => [mpc' = "returned" => opened' = IF mpc = "thread" THEN {"stopEvent"} ELSE {}]_mpc
    BY <1>1
  <1> QED
    BY <1>2, Invariance, PTL DEF Spec, DescriptorsReleased
=============================================================================
