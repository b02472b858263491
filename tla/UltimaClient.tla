---------------------------- MODULE UltimaClient ----------------------------
(***************************************************************************)
(* The connection engine of the MT4 connector: class UltimaClient of       *)
(* Connectors/MT4/UltimaConnector, which keeps one TCP connection to the   *)
(* Ultima server alive, logs in on it and writes the packets the expert    *)
(* advisor (EA) hands to send().                                           *)
(*                                                                         *)
(* One thread runs io_service::run(), so handlers are atomic steps.  The   *)
(* model keeps the completions queued for that thread in FIFO order        *)
(* (ready), the operations the operating system still owns (connectOp,     *)
(* reading, inFlight) and the single deadline timer.  A closure that       *)
(* io.dispatch posts from the EA thread is one step, Send: running it late *)
(* cannot be told from posting it late, because the EA learns nothing from *)
(* the posting.                                                            *)
(*                                                                         *)
(* External, modelled from how the code uses them: boost::asio (closing a  *)
(* socket completes its operations with an error; the range async_connect  *)
(* closes and reopens the socket, and reports operation_aborted when it    *)
(* finds the socket closed) and the server end of the connection (a        *)
(* temporary connection ignores everything but Login).                     *)
(***************************************************************************)
EXTENDS Naturals, Sequences, FiniteSets

CONSTANTS
  Orders,      \* the distinct order snapshots the EA can report
  None,        \* no snapshot: lastSent at start, seen in a fresh session
  HostName,    \* ServerAddress is a host name, so that resolving it may throw
  MaxBuffers,  \* bound: packets in sendBuffers
  MaxFaults    \* bound: lost connections, failed connects, EA restarts

ASSUME UltimaClientAssumption ==
  /\ None \notin Orders
  /\ HostName \in BOOLEAN
  /\ MaxBuffers \in Nat \ {0}
  /\ MaxFaults \in Nat

VARIABLES
  connecting,   \* UltimaClient::connecting
  socket,       \* "closed", "opened" (a handle, no connection), "connected"
  connectOp,    \* an async_connect is outstanding
  reading,      \* number of outstanding async_read_some
  inFlight,     \* packets given to async_send, not yet completed
  ready,        \* completions waiting for the io thread
  timer,        \* the reconnect timer is armed
  sendBuffers,  \* UltimaClient::sendBuffers
  lastSent,     \* UltimaClient::lastSentOpenedOrdersPacket
  ioAlive,      \* FALSE once an exception or undefined behaviour ended the
                \*   process; the model says nothing of it afterwards
  orders,       \* the EA's orders as the next UpdateOrders will report them
  server,       \* the server's end: "none", "temporary", "registered"
  seen,         \* last snapshot the registered session received
  faults,       \* faults so far (bounds the model)
  stale         \* history: reconnect() has closed a socket one of whose
                \*   reads had got data, its handler still to run, and
                \*   there has been a read since

ops      == <<socket, connectOp, reading, inFlight, ready>>
peer     == <<server, seen>>
program  == <<connecting, ops, timer, sendBuffers, lastSent, ioAlive, orders,
              peer, faults>>
vars     == <<program, stale>>

(***************************************************************************)
(* Packets.  Tick stands for every packet send() treats alike: prices,     *)
(* command results and order history.                                      *)
(***************************************************************************)
Login            == [id |-> "Login", orders |-> None]
Tick             == [id |-> "Tick", orders |-> None]
OpenedOrders(o)  == [id |-> "OpenedOrders", orders |-> o]
Packet           == [id : {"Login", "Tick", "OpenedOrders"},
                     orders : Orders \cup {None}]

Ops        == {"reconnect", "connect", "read", "write", "timer"}
Completion == [op : Ops, ok : BOOLEAN]
Done(op, ok) == [op |-> op, ok |-> ok]

(* Whether, at most once, and how often op occurs in the queue q.          *)
Has(q, op)       == \E i \in DOMAIN q : q[i].op = op
AtMostOne(q, op) == \A i, j \in DOMAIN q : q[i].op = op /\ q[j].op = op => i = j
Count(q, op)     == Cardinality({i \in DOMAIN q : q[i].op = op})

(* Reads that will call doRead() or postReconnect().                       *)
Reads == reading + Count(ready, "read")

ProgramTyped ==
  /\ connecting \in BOOLEAN
  /\ socket \in {"closed", "opened", "connected"}
  /\ connectOp \in BOOLEAN
  /\ reading \in Nat
  /\ inFlight \in Seq(Packet)
  /\ ready \in Seq(Completion)
  /\ timer \in BOOLEAN
  /\ sendBuffers \in Seq(Packet)
  /\ Len(sendBuffers) <= MaxBuffers
  /\ lastSent \in Orders \cup {None}
  /\ ioAlive \in BOOLEAN
  /\ orders \in Orders
  /\ server \in {"none", "temporary", "registered"}
  /\ seen \in Orders \cup {None}
  /\ faults \in 0..MaxFaults

TypeOK == ProgramTyped /\ stale \in BOOLEAN

-----------------------------------------------------------------------------
(* The constructor and connect(): a fresh object whose first reconnect()   *)
(* has been dispatched to the io thread.                                   *)
Init ==
  /\ connecting = FALSE
  /\ socket = "closed"
  /\ connectOp = FALSE
  /\ reading = 0
  /\ inFlight = <<>>
  /\ ready = <<Done("reconnect", TRUE)>>
  /\ timer = FALSE
  /\ sendBuffers = <<>>
  /\ lastSent = None
  /\ ioAlive = TRUE
  /\ orders \in Orders
  /\ server = "none"
  /\ seen = None
  /\ faults = 0
  /\ stale = FALSE

-----------------------------------------------------------------------------
(* Completions, all failed, of the operations outstanding on the socket.   *)
Aborted ==
  (IF connectOp THEN <<Done("connect", FALSE)>> ELSE <<>>)
    \o [i \in 1..reading |-> Done("read", FALSE)]
    \o [i \in 1..Len(inFlight) |-> Done("write", FALSE)]

(* The socket is closed, and left as state: q is the queue of the io       *)
(* thread without the handler now running.                                 *)
DropSocket(q, state, op) ==
  /\ socket' = state
  /\ connectOp' = op
  /\ reading' = 0
  /\ inFlight' = <<>>
  /\ ready' = q \o Aborted
  /\ server' = "none"
  /\ seen' = None

(* doWrite(): async_send of b fails at once on an unconnected socket.      *)
DoWrite(q, b) ==
  /\ IF socket = "connected"
       THEN inFlight' = Append(inFlight, b) /\ ready' = q
       ELSE inFlight' = inFlight /\ ready' = Append(q, Done("write", FALSE))
  /\ UNCHANGED <<socket, connectOp, reading>>

(* async_connect(), as reconnect() calls it.                               *)
StartConnect(q) ==
  /\ connecting' = TRUE
  /\ DropSocket(q, "opened", TRUE)
  /\ UNCHANGED ioAlive

(* Mutant: reconnect() without the test of connecting.                     *)
ReconnectAlways(q) == StartConnect(q)

(* The body of reconnect() that runs in the io thread.                     *)
Reconnect(q) ==
  \/ /\ connecting
     /\ ready' = q
     /\ UNCHANGED <<connecting, socket, connectOp, reading, inFlight, peer,
                    ioAlive>>
  \/ /\ ~connecting
     /\ StartConnect(q)
  \/ /\ ~connecting
     /\ HostName                 \* resolver::resolve throws out of io.run()
     /\ connecting' = TRUE
     /\ ioAlive' = FALSE
     /\ ready' = q
     /\ UNCHANGED <<socket, connectOp, reading, inFlight, peer>>

(* Mutant: a failed read or write that forgets postReconnect().            *)
CloseOnly(q) ==
  /\ DropSocket(q, "closed", FALSE)
  /\ UNCHANGED <<connecting, sendBuffers, ioAlive, timer>>

(* The shutdown, close, postReconnect of a failed read or write.           *)
CloseAndPostReconnect(q) ==
  /\ DropSocket(q, "closed", FALSE)
  /\ timer' = TRUE
  /\ UNCHANGED <<connecting, sendBuffers, ioAlive>>

-----------------------------------------------------------------------------
(* Handlers: the io thread takes the first completion and runs it.         *)
Running(op) == ioAlive /\ ready # <<>> /\ Head(ready).op = op
Rest        == Tail(ready)

RunReconnect ==
  /\ Running("reconnect") \/ Running("timer")
  /\ Reconnect(Rest)
  /\ UNCHANGED <<timer, sendBuffers, lastSent, orders, faults>>

(* Connected: clear the buffers, send Login (what is left to send is       *)
(* buffers), start reads reads.                                            *)
LogIn(buffers, reads) ==
  /\ sendBuffers' = buffers
  /\ inFlight' = Append(inFlight, Login)
  /\ reading' = reading + reads
  /\ UNCHANGED <<socket, connectOp, timer, ioAlive>>

ConnectFailed ==
  /\ timer' = TRUE
  /\ UNCHANGED <<socket, connectOp, reading, inFlight, sendBuffers, ioAlive>>

(* Whether the connect handler gets no error: the range connect turns      *)
(* success into operation_aborted when the socket was closed meanwhile.    *)
ConnectOk == Head(ready).ok /\ socket # "closed"

ConnectDone ==
  /\ Running("connect")
  /\ ready' = Rest
  /\ UNCHANGED <<lastSent, orders, peer, faults>>

(* set_option() throws out of io.run(): the connection is gone already.    *)
OptionThrows ==
  /\ ConnectOk /\ server = "none"
  /\ ioAlive' = FALSE
  /\ UNCHANGED <<socket, connectOp, reading, inFlight, timer, sendBuffers>>

(* Mutants of the connect handler: doRead() is called a second time;       *)
(* connecting is not reset after a failure.                                *)
HandleConnectReadsTwice ==
  /\ ConnectDone
  /\ connecting' = FALSE
  /\ \/ ConnectOk /\ LogIn(<<Login>>, 2)
     \/ OptionThrows
     \/ ~ConnectOk /\ ConnectFailed

HandleConnectKeepsFlag ==
  /\ ConnectDone
  /\ \/ ConnectOk /\ LogIn(<<Login>>, 1) /\ connecting' = FALSE
     \/ OptionThrows /\ connecting' = FALSE
     \/ ~ConnectOk /\ ConnectFailed /\ UNCHANGED connecting

(* The lambda given to async_connect.                                      *)
HandleConnect ==
  /\ ConnectDone
  /\ connecting' = FALSE
  /\ \/ ConnectOk /\ LogIn(<<Login>>, 1)
     \/ OptionThrows
     \/ ~ConnectOk /\ ConnectFailed

WriteDone(ok) ==
  /\ Running("write")
  /\ Head(ready).ok = ok
  /\ UNCHANGED <<lastSent, orders, faults>>

WriteFailed == WriteDone(FALSE) /\ CloseAndPostReconnect(Rest)

(* pop_front(), with packet p next to write.                               *)
PopAndWrite(p) ==
  /\ WriteDone(TRUE)
  /\ Len(sendBuffers) > 1
  /\ sendBuffers' = Tail(sendBuffers)
  /\ DoWrite(Rest, p)
  /\ UNCHANGED <<connecting, timer, ioAlive, peer>>

(* pop_front() with nothing left to write.  Of an empty deque it is        *)
(* undefined behaviour.                                                    *)
PopLast ==
  /\ WriteDone(TRUE)
  /\ Len(sendBuffers) <= 1
  /\ sendBuffers' = <<>>
  /\ ioAlive' = (sendBuffers # <<>>)
  /\ ready' = Rest
  /\ UNCHANGED <<connecting, timer, socket, connectOp, reading, inFlight, peer>>

(* Mutant: doWrite() before pop_front().                                   *)
HandleWriteBeforePop == WriteFailed \/ PopAndWrite(Head(sendBuffers)) \/ PopLast

(* handleWrite().                                                          *)
HandleWrite == WriteFailed \/ PopAndWrite(sendBuffers[2]) \/ PopLast

(* The lambda given to async_read_some.  What handlePackets() does with    *)
(* the bytes is the subject of module Framing.                             *)
HandleRead ==
  /\ Running("read")
  /\ \/ /\ ~Head(ready).ok
        /\ CloseAndPostReconnect(Rest)
     \/ /\ Head(ready).ok
        /\ IF socket = "connected"
             THEN reading' = reading + 1 /\ ready' = Rest
             ELSE reading' = reading /\ ready' = Append(Rest, Done("read", FALSE))
        /\ UNCHANGED <<connecting, timer, socket, connectOp, inFlight,
                       sendBuffers, ioAlive, peer>>
  /\ UNCHANGED <<lastSent, orders, faults>>

(* send<id>(p) goes on unless p is the snapshot it sent last.              *)
Sending(p) ==
  /\ ioAlive
  /\ Len(sendBuffers) < MaxBuffers
  /\ p.id = "OpenedOrders" => p.orders # lastSent
  /\ UNCHANGED <<connecting, timer, ioAlive, orders, peer, faults>>

Remember(p) == lastSent' = IF p.id = "OpenedOrders" THEN p.orders ELSE lastSent

(* Mutants of send(): doWrite() also while a write is under way; a packet  *)
(* that comes during a write is dropped; the snapshot is not remembered    *)
(* when a write is under way.                                              *)
SendAlwaysWrites(p) ==
  /\ Sending(p)
  /\ Remember(p)
  /\ sendBuffers' = Append(sendBuffers, p)
  /\ DoWrite(ready, p)

SendDropsWhenBusy(p) ==
  /\ Sending(p)
  /\ Remember(p)
  /\ IF sendBuffers = <<>>
       THEN sendBuffers' = Append(sendBuffers, p) /\ DoWrite(ready, p)
       ELSE UNCHANGED <<sendBuffers, ops>>

SendForgetsWhenBusy(p) ==
  /\ Sending(p)
  /\ sendBuffers' = Append(sendBuffers, p)
  /\ IF sendBuffers = <<>>
       THEN DoWrite(ready, p) /\ Remember(p)
       ELSE UNCHANGED <<ops, lastSent>>

(* The closure of send<id>(packet), run by the io thread.                  *)
Send(p) ==
  /\ Sending(p)
  /\ Remember(p)
  /\ sendBuffers' = Append(sendBuffers, p)
  /\ IF sendBuffers = <<>>
       THEN DoWrite(ready, p)
       ELSE UNCHANGED ops

SendTick == Send(Tick)

(* UpdateOrders() of the DLL, called by the EA on every timer event.       *)
UpdateOrders == Send(OpenedOrders(orders))

-----------------------------------------------------------------------------
(* The operating system, the network and the server (external).            *)

Fault == faults < MaxFaults /\ faults' = faults + 1

ConnectCompletes ==
  /\ ioAlive
  /\ connectOp
  /\ connectOp' = FALSE
  /\ \/ /\ socket' = "connected"
        /\ server' = "temporary"
        /\ ready' = Append(ready, Done("connect", TRUE))
        /\ UNCHANGED faults
     \/ /\ Fault
        /\ ready' = Append(ready, Done("connect", FALSE))
        /\ UNCHANGED <<socket, server>>
  /\ UNCHANGED <<connecting, reading, inFlight, timer, sendBuffers, lastSent,
                 ioAlive, orders, seen>>

(* The connection is cut, or the server closes it.                         *)
ConnectionLost ==
  /\ server # "none"
  /\ Fault
  /\ server' = "none"
  /\ seen' = None
  /\ UNCHANGED <<connecting, ops, timer, sendBuffers, lastSent, ioAlive, orders>>

(* What the server does with packet p on this connection.                  *)
Receive(p) ==
  /\ server' = IF p.id = "Login" THEN "registered" ELSE server
  /\ seen' = IF p.id = "OpenedOrders" /\ server = "registered"
               THEN p.orders ELSE seen

(* A write on a dead connection may still be accepted by the kernel.       *)
WriteCompletes ==
  /\ ioAlive
  /\ inFlight # <<>>
  /\ inFlight' = Tail(inFlight)
  /\ \E ok \in BOOLEAN :
       /\ server # "none" => ok
       /\ ready' = Append(ready, Done("write", ok))
  /\ IF server = "none" THEN UNCHANGED peer ELSE Receive(Head(inFlight))
  /\ UNCHANGED <<connecting, socket, connectOp, reading, timer, sendBuffers,
                 lastSent, ioAlive, orders, faults>>

(* Data from a registered server, or the end of a dead connection.         *)
ReadCompletes ==
  /\ ioAlive
  /\ reading > 0
  /\ server # "temporary"
  /\ reading' = reading - 1
  /\ ready' = Append(ready, Done("read", server = "registered"))
  /\ UNCHANGED <<connecting, socket, connectOp, inFlight, timer, sendBuffers,
                 lastSent, ioAlive, orders, peer, faults>>

(* 15 seconds have passed since expires_from_now().                        *)
TimerExpires ==
  /\ ioAlive
  /\ timer
  /\ timer' = FALSE
  /\ ready' = Append(ready, Done("timer", TRUE))
  /\ UNCHANGED <<connecting, socket, connectOp, reading, inFlight, sendBuffers,
                 lastSent, ioAlive, orders, peer, faults>>

OrdersChange ==
  /\ orders' \in Orders \ {orders}
  /\ UNCHANGED <<connecting, ops, timer, sendBuffers, lastSent, ioAlive, peer,
                 faults>>

(* OnDeinit then OnInit: the client is destroyed (its socket closed, the   *)
(* io thread joined, everything queued in it dropped) and a new one made.  *)
(* After a crash it is the terminal that is started again.                 *)
Reinitialize ==
  /\ Fault
  /\ connecting' = FALSE
  /\ socket' = "closed"
  /\ connectOp' = FALSE
  /\ reading' = 0
  /\ inFlight' = <<>>
  /\ ready' = <<Done("reconnect", TRUE)>>
  /\ timer' = FALSE
  /\ sendBuffers' = <<>>
  /\ lastSent' = None
  /\ ioAlive' = TRUE
  /\ server' = "none"
  /\ seen' = None
  /\ UNCHANGED orders

-----------------------------------------------------------------------------
IoThread == RunReconnect \/ HandleConnect \/ HandleWrite \/ HandleRead

System == ConnectCompletes \/ WriteCompletes \/ ReadCompletes

(* reconnect() closes a socket one of whose reads has got data already:    *)
(* that read goes on, on the socket as it will be by then.                 *)
LeavesRead ==
  /\ ~connecting /\ connecting'
  /\ \E i \in DOMAIN Rest : Rest[i] = Done("read", TRUE)

Step ==
  \/ IoThread
  \/ SendTick
  \/ UpdateOrders
  \/ System
  \/ TimerExpires
  \/ ConnectionLost
  \/ OrdersChange
  \/ Reinitialize

Next ==
  /\ Step
  /\ stale' = (Reads' > 0 /\ (stale \/ LeavesRead))

(* The io thread runs what is queued, the operating system completes what  *)
(* it owns, and the EA's timer keeps calling UpdateOrders (strongly fair   *)
(* only because MaxBuffers, which the code does not have, disables it).    *)
Fairness ==
  /\ WF_program(IoThread)
  /\ WF_program(ConnectCompletes)
  /\ WF_program(WriteCompletes)
  /\ WF_program(ReadCompletes)
  /\ WF_program(TimerExpires)
  /\ SF_program(UpdateOrders)

Spec == Init /\ [][Next]_vars /\ Fairness

-----------------------------------------------------------------------------
(* Properties                                                              *)

(* The flag connecting, which is all that keeps a second async_connect     *)
(* from closing the socket of the first (UltimaClient.cpp:56), is set      *)
(* exactly while one connect is outstanding or its completion is queued.   *)
ConnectingIsExact ==
  ioAlive => /\ connecting <=> connectOp \/ Has(ready, "connect")
             /\ connectOp => ~Has(ready, "connect")
             /\ AtMostOne(ready, "connect")

(* Whatever fails in whatever order, something is left that leads to a     *)
(* connection: a read that will end with it, the timer, a connect, or a    *)
(* completion queued for the io thread that sets one of these up.          *)
NeverStranded ==
  ioAlive => \/ reading > 0
             \/ timer
             \/ connecting
             \/ \E op \in {"reconnect", "timer", "read"} : Has(ready, op)

(* When nothing is under way, a registered session has seen either no      *)
(* snapshot or the one UltimaClient believes it sent last: the server is   *)
(* never left with an outdated one.                                        *)
ServerNeverStale ==
  /\ ioAlive
  /\ server = "registered"
  /\ ready = <<>>
  /\ inFlight = <<>>
  => seen \in {None, lastSent}

(* Packets written but not yet popped from sendBuffers by handleWrite().   *)
Writes == Len(inFlight) + Count(ready, "write")

(* One async_read_some at a time: all of them share the one buffer         *)
(* (UltimaClient.cpp:134), and handlePackets() needs the stream in order.  *)
(* It holds whatever fails and however late the timer is run, also when    *)
(* reconnect() closes a live session, except after it has closed one whose *)
(* read had data that handleRead() had not taken yet: that read goes on,   *)
(* beside the new session's own until both have ended.                     *)
SingleReader == stale \/ Reads <= 1

(* handleWrite() pops one buffer for each async_send and the code relies on *)
(* having at most one of them under way, its packet in sendBuffers.        *)
Disciplined == Writes <= 1 /\ (Writes = 1 => sendBuffers # <<>>)

(* The only step that breaks this discipline is the connect handler: it    *)
(* clears sendBuffers under the write that a send() started between the    *)
(* operating system's connect and the handler (UltimaClient.cpp:72-76).    *)
OverlapOnlyAtLogin ==
  [][Disciplined => Disciplined' \/ (connecting /\ ~connecting' /\ Writes = 1)]_vars

(* While the discipline holds, the buffer handleWrite() pops is the one    *)
(* that was written: the packet in flight is the front of sendBuffers.     *)
FrontIsInFlight ==
  Disciplined /\ inFlight # <<>> => Head(sendBuffers) = Head(inFlight)

(* The timer expires while a completion waits for the io thread.  If that  *)
(* is a failure it arms the timer again, and reconnect(), run for the old  *)
(* expiry, will have its new session closed by the next (cpp:100-129).     *)
OvertakenExpiry == TimerExpires /\ ready # <<>>

(* Once faults stop, the client is registered for good, however often a    *)
(* failure raced with the timer before: it must only not do so each time   *)
(* for ever.  ~ioAlive stands for the three ways the process may die:      *)
(* pop_front() of the empty deque after the race of OverlapOnlyAtLogin,    *)
(* resolve() (cpp:61) and set_option() (cpp:70), which throw.              *)
EventuallyRegistered ==
  <>[][~OvertakenExpiry]_vars => <>[](server = "registered" \/ ~ioAlive)

(* A snapshot that differs from the last one handed to send() reaches the  *)
(* server, unless the session or the process ends (as in                   *)
(* EventuallyRegistered) or the orders change again first.  A snapshot     *)
(* handed to send() before the session, and lost with the one before, is   *)
(* not sent again: lastSent = o then, and nothing is claimed.              *)
ChangeReachesServer ==
  \A o \in Orders :
    (server = "registered" /\ orders = o /\ lastSent # o)
      ~> (seen = o \/ server # "registered" \/ orders # o \/ ~ioAlive)

=============================================================================
