------------------------- MODULE UltimaClientProofs -------------------------
(***************************************************************************)
(* Theorems about UltimaClient, for every set of snapshots and every bound. *)
(* Type correctness comes first; with it, ConnectingIsExact and            *)
(* NeverStranded are each inductive.  What one session of the client does  *)
(* with its buffers, its reads and the snapshots it sends rests on both    *)
(* the types and the exactness of the flag connecting.                     *)
(***************************************************************************)
EXTENDS UltimaClient, SequenceTheorems, FiniteSetTheorems, FunctionTheorems, TLAPS

-----------------------------------------------------------------------------
(* Lemmas on the queue of completions.                                     *)

(* What Has and AtMostOne become when a completion is appended.            *)
LEMMA QueueAppend ==
  ASSUME NEW q \in Seq(Completion), NEW c \in Completion, NEW op
  PROVE  /\ Append(q, c) \in Seq(Completion)
         /\ Has(Append(q, c), op) <=> Has(q, op) \/ c.op = op
         /\ AtMostOne(q, op) /\ (c.op = op => ~Has(q, op))
              => AtMostOne(Append(q, c), op)
<1> DEFINE a == Append(q, c)
<1>1. /\ a \in Seq(Completion)
      /\ Len(a) = Len(q) + 1
      /\ \A i \in 1..Len(q) : a[i] = q[i]
      /\ a[Len(q) + 1] = c
  BY AppendProperties
<1>2. DOMAIN q = 1..Len(q) /\ DOMAIN a = 1..(Len(q) + 1) /\ Len(q) \in Nat
  BY <1>1, LenProperties
<1>3. \A i \in DOMAIN a : (i \in DOMAIN q /\ a[i] = q[i]) \/ (i = Len(q) + 1 /\ a[i] = c)
  BY <1>1, <1>2
<1>4. DOMAIN q \subseteq DOMAIN a /\ Len(q) + 1 \in DOMAIN a
  BY <1>2
<1>5. Has(a, op) <=> Has(q, op) \/ c.op = op
  BY <1>1, <1>2, <1>3, <1>4 DEF Has
<1>6. ASSUME AtMostOne(q, op), c.op = op => ~Has(q, op)
      PROVE  AtMostOne(a, op)
  BY <1>3, <1>6 DEF Has, AtMostOne
<1> QED BY <1>1, <1>5, <1>6

(* What they become when the io thread takes the first completion.         *)
LEMMA QueueTail ==
  ASSUME NEW q \in Seq(Completion), q # <<>>, NEW op
  PROVE  /\ Tail(q) \in Seq(Completion)
         /\ Head(q) \in Completion
         /\ Has(q, op) <=> Head(q).op = op \/ Has(Tail(q), op)
         /\ AtMostOne(q, op) => /\ AtMostOne(Tail(q), op)
                                /\ Head(q).op = op => ~Has(Tail(q), op)
<1> DEFINE t == Tail(q)
<1>1. /\ t \in Seq(Completion)
      /\ Head(q) \in Completion
      /\ Len(t) = Len(q) - 1
      /\ \A i \in 1..Len(t) : t[i] = q[i + 1]
  BY HeadTailProperties
<1>2. Head(q) = q[1] /\ Len(q) \in Nat \ {0} /\ DOMAIN q = 1..Len(q) /\ DOMAIN t = 1..Len(t)
  BY <1>1, LenProperties, EmptySeq
<1>3. \A i \in DOMAIN t : i + 1 \in DOMAIN q /\ t[i] = q[i + 1] /\ i \in Nat /\ i + 1 # 1
  BY <1>1, <1>2
<1>4. \A i \in DOMAIN q : i = 1 \/ (i - 1 \in DOMAIN t /\ t[i - 1] = q[i])
  BY <1>1, <1>2
<1>5. 1 \in DOMAIN q
  BY <1>2
<1>6. Has(q, op) <=> Head(q).op = op \/ Has(t, op)
  BY <1>2, <1>3, <1>4, <1>5 DEF Has
<1>7. ASSUME AtMostOne(q, op)
      PROVE  AtMostOne(t, op) /\ (Head(q).op = op => ~Has(t, op))
  BY <1>2, <1>3, <1>5, <1>7 DEF Has, AtMostOne
<1> QED BY <1>1, <1>6, <1>7

(* What they become when the completions r of a closed socket are queued.  *)
LEMMA QueueConcat ==
  ASSUME NEW q \in Seq(Completion), NEW r \in Seq(Completion), NEW op
  PROVE  /\ q \o r \in Seq(Completion)
         /\ Has(q \o r, op) <=> Has(q, op) \/ Has(r, op)
         /\ AtMostOne(q, op) /\ AtMostOne(r, op) /\ ~(Has(q, op) /\ Has(r, op))
              => AtMostOne(q \o r, op)
<1> DEFINE s == q \o r
<1>1. /\ s \in Seq(Completion)
      /\ Len(s) = Len(q) + Len(r)
      /\ \A i \in 1..(Len(q) + Len(r)) :
           s[i] = IF i <= Len(q) THEN q[i] ELSE r[i - Len(q)]
  BY ConcatProperties
<1>2. /\ Len(q) \in Nat /\ Len(r) \in Nat
      /\ DOMAIN q = 1..Len(q) /\ DOMAIN r = 1..Len(r)
      /\ DOMAIN s = 1..(Len(q) + Len(r))
  BY <1>1, LenProperties
<1> HIDE DEF s
<1>3. \A i \in DOMAIN s : \/ i \in DOMAIN q /\ s[i] = q[i]
                          \/ i - Len(q) \in DOMAIN r /\ s[i] = r[i - Len(q)]
  BY <1>1, <1>2
<1>4. \A i \in DOMAIN q : i \in DOMAIN s /\ s[i] = q[i]
  BY <1>1, <1>2
<1>5. \A i \in DOMAIN r : i + Len(q) \in DOMAIN s /\ s[i + Len(q)] = r[i]
  BY <1>1, <1>2
<1>6. Has(s, op) <=> Has(q, op) \/ Has(r, op)
  BY <1>3, <1>4, <1>5 DEF Has
<1>7. ASSUME AtMostOne(q, op), AtMostOne(r, op), ~(Has(q, op) /\ Has(r, op))
      PROVE  AtMostOne(s, op)
  <2> SUFFICES ASSUME NEW i \in DOMAIN s, NEW j \in DOMAIN s,
                      s[i].op = op, s[j].op = op
               PROVE  i = j
    BY DEF AtMostOne
  <2>1. i \in Int /\ j \in Int
    BY <1>2
  <2>2. CASE i \in DOMAIN q /\ s[i] = q[i] /\ j \in DOMAIN q /\ s[j] = q[j]
    BY <1>7, <2>2 DEF AtMostOne
  <2>3. CASE /\ i - Len(q) \in DOMAIN r /\ s[i] = r[i - Len(q)]
             /\ j - Len(q) \in DOMAIN r /\ s[j] = r[j - Len(q)]
    <3>1. i - Len(q) = j - Len(q)
      BY <1>7, <2>3 DEF AtMostOne
    <3> QED BY <3>1, <2>1, <1>2
  <2>4. CASE Has(q, op) /\ Has(r, op)
    BY <2>4, <1>7
  <2> QED BY <1>3, <2>2, <2>3, <2>4 DEF Has
<1> QED BY <1>1, <1>6, <1>7 DEF s

(* What closing the socket queues: a connect exactly when one was          *)
(* outstanding, a read exactly when one was, never a reconnect or a timer. *)
LEMMA AbortedCompletions ==
  ASSUME ProgramTyped
  PROVE  /\ Aborted \in Seq(Completion)
         /\ Has(Aborted, "connect") <=> connectOp
         /\ AtMostOne(Aborted, "connect")
         /\ Has(Aborted, "read") <=> reading > 0
<1> DEFINE con == IF connectOp THEN <<Done("connect", FALSE)>> ELSE <<>>
           rds == [i \in 1..reading |-> Done("read", FALSE)]
           wrs == [i \in 1..Len(inFlight) |-> Done("write", FALSE)]
<1>1. \A op \in Ops : Done(op, FALSE) \in Completion /\ Done(op, FALSE).op = op
  BY DEF Done, Completion
<1>2. /\ con \in Seq(Completion)
      /\ Has(con, "connect") <=> connectOp
      /\ ~Has(con, "read")
      /\ AtMostOne(con, "connect")
  BY <1>1 DEF Has, AtMostOne, Ops, Done
<1>3. reading \in Nat /\ Len(inFlight) \in Nat
  BY LenProperties DEF ProgramTyped
<1>4. /\ rds \in Seq(Completion)
      /\ ~Has(rds, "connect")
      /\ Has(rds, "read") <=> reading > 0
  <2>1. Done("read", FALSE) \in Completion /\ Done("read", FALSE).op = "read"
    BY <1>1 DEF Ops
  <2>2. rds \in Seq(Completion)
    <3>1. rds \in [1..reading -> Completion]
      BY <2>1
    <3> QED BY <1>3, <3>1, SeqDef
  <2>3. DOMAIN rds = 1..reading /\ \A i \in 1..reading : rds[i].op = "read"
    BY <2>1
  <2>4. reading > 0 => 1 \in 1..reading
    BY <1>3
  <2>5. 1..reading # {} => reading > 0
    BY <1>3
  <2> QED BY <2>2, <2>3, <2>4, <2>5 DEF Has
<1>5. /\ wrs \in Seq(Completion)
      /\ ~Has(wrs, "connect")
      /\ ~Has(wrs, "read")
  <2>1. Done("write", FALSE) \in Completion /\ Done("write", FALSE).op = "write"
    BY <1>1 DEF Ops
  <2>2. wrs \in Seq(Completion)
    <3>1. wrs \in [1..Len(inFlight) -> Completion]
      BY <2>1
    <3> QED BY <1>3, <3>1, SeqDef
  <2>3. \A i \in DOMAIN wrs : wrs[i].op = "write"
    BY <2>1
  <2> QED BY <2>2, <2>3 DEF Has
<1>6. Aborted = (con \o rds) \o wrs
  BY DEF Aborted
<1> HIDE DEF con, rds, wrs
<1>7. \A q : \A op : ~Has(q, op) => AtMostOne(q, op)
  BY DEF Has, AtMostOne
<1>8. /\ con \o rds \in Seq(Completion)
      /\ Has(con \o rds, "connect") <=> connectOp
      /\ AtMostOne(con \o rds, "connect")
  BY <1>2, <1>4, <1>7, QueueConcat
<1>9. Has(con \o rds, "read") <=> reading > 0
  BY <1>2, <1>4, QueueConcat
<1>10. /\ Aborted \in Seq(Completion)
       /\ Has(Aborted, "connect") <=> connectOp
       /\ AtMostOne(Aborted, "connect")
  BY <1>5, <1>6, <1>7, <1>8, QueueConcat
<1>11. Has(Aborted, "read") <=> reading > 0
  BY <1>5, <1>6, <1>8, <1>9, QueueConcat
<1> QED BY <1>10, <1>11

-----------------------------------------------------------------------------
(* Type correctness.                                                       *)

LEMMA Packets ==
  /\ Login \in Packet /\ Tick \in Packet
  /\ \A o \in Orders : OpenedOrders(o) \in Packet
BY DEF Login, Tick, OpenedOrders, Packet

LEMMA Completions == \A op \in Ops : \A ok \in BOOLEAN : Done(op, ok) \in Completion
BY DEF Done, Completion

LEMMA FirstReconnect == <<Done("reconnect", TRUE)>> \in Seq(Completion)
<1>1. Done("reconnect", TRUE) \in Completion
  BY Completions DEF Ops
<1>2. <<Done("reconnect", TRUE)>> = Append(<<>>, Done("reconnect", TRUE))
  OBVIOUS
<1>3. <<>> \in Seq(Completion)
  BY EmptySeq
<1> QED BY <1>1, <1>2, <1>3, AppendProperties

LEMMA FaultTyped == ProgramTyped /\ Fault => faults' \in 0..MaxFaults
BY UltimaClientAssumption DEF ProgramTyped, Fault

(* The part of the state that DropSocket and DoWrite set keeps its type.   *)
SocketTyped ==
  /\ socket \in {"closed", "opened", "connected"}
  /\ connectOp \in BOOLEAN
  /\ reading \in Nat
  /\ inFlight \in Seq(Packet)
  /\ ready \in Seq(Completion)

LEMMA DropSocketTyped ==
  ASSUME ProgramTyped, NEW q \in Seq(Completion),
         NEW state \in {"closed", "opened"}, NEW op \in BOOLEAN,
         DropSocket(q, state, op)
  PROVE  SocketTyped' /\ server' = "none" /\ seen' = None
<1>1. ready' \in Seq(Completion)
  BY AbortedCompletions, QueueConcat DEF DropSocket
<1> QED BY <1>1 DEF DropSocket, SocketTyped

LEMMA DoWriteTyped ==
  ASSUME ProgramTyped, NEW q \in Seq(Completion), NEW b \in Packet, DoWrite(q, b)
  PROVE  SocketTyped'
<1>1. Append(q, Done("write", FALSE)) \in Seq(Completion)
  BY Completions, QueueAppend DEF Ops
<1>2. Append(inFlight, b) \in Seq(Packet)
  BY AppendProperties DEF ProgramTyped
<1>3. inFlight' \in Seq(Packet) /\ ready' \in Seq(Completion)
  BY <1>1, <1>2 DEF DoWrite, ProgramTyped
<1> QED BY <1>3 DEF DoWrite, SocketTyped, ProgramTyped

(* The queue behind the completion that runs.                              *)
LEMMA RestTyped ==
  ASSUME ProgramTyped, NEW op, Running(op)
  PROVE  Rest \in Seq(Completion) /\ Head(ready) \in Completion
BY QueueTail DEF ProgramTyped, Running, Rest

LEMMA TypeStep == ProgramTyped /\ [Next]_vars => ProgramTyped'
<1> SUFFICES ASSUME ProgramTyped, [Next]_vars PROVE ProgramTyped'
  OBVIOUS
<1> USE UltimaClientAssumption
<1>1. CASE RunReconnect
  <2>1. Rest \in Seq(Completion)
    BY <1>1, RestTyped DEF RunReconnect
  <2>2. CASE StartConnect(Rest)
    <3>1. SocketTyped' /\ server' = "none" /\ seen' = None
      BY <2>1, <2>2, DropSocketTyped DEF StartConnect
    <3> QED BY <1>1, <2>2, <3>1 DEF RunReconnect, StartConnect, SocketTyped, ProgramTyped
  <2>3. CASE ready' = Rest /\ UNCHANGED <<socket, connectOp, reading, inFlight, peer>>
    BY <1>1, <2>1, <2>3 DEF RunReconnect, Reconnect, StartConnect, ProgramTyped, peer
  <2> QED BY <1>1, <2>2, <2>3 DEF RunReconnect, Reconnect
<1>2. CASE HandleConnect
  <2>1. Rest \in Seq(Completion)
    BY <1>2, RestTyped DEF HandleConnect, ConnectDone
  <2>2. <<Login>> \in Seq(Packet) /\ Len(<<Login>>) <= MaxBuffers
    BY Packets
  <2>3. Append(inFlight, Login) \in Seq(Packet)
    BY Packets, AppendProperties DEF ProgramTyped
  <2>4. CASE LogIn(<<Login>>, 1)
    <3>1. reading' \in Nat /\ inFlight' \in Seq(Packet)
      BY <2>3, <2>4 DEF LogIn, ProgramTyped
    <3>2. sendBuffers' \in Seq(Packet) /\ Len(sendBuffers') <= MaxBuffers
      BY <2>2, <2>4 DEF LogIn
    <3>3. UNCHANGED <<socket, connectOp, timer, ioAlive>>
      BY <2>4 DEF LogIn
    <3>4. connecting' = FALSE /\ ready' = Rest
      BY <1>2 DEF HandleConnect, ConnectDone
    <3> QED BY <1>2, <2>1, <3>1, <3>2, <3>3, <3>4 DEF HandleConnect, ConnectDone, ProgramTyped, peer
  <2>5. CASE ConnectFailed
    BY <1>2, <2>1, <2>5 DEF HandleConnect, ConnectDone, ConnectFailed, ProgramTyped, peer
  <2>6. CASE OptionThrows
    BY <1>2, <2>1, <2>6 DEF HandleConnect, ConnectDone, OptionThrows, ProgramTyped, peer
  <2> QED BY <1>2, <2>4, <2>5, <2>6 DEF HandleConnect
<1>3. CASE HandleWrite
  <2>1. Rest \in Seq(Completion)
    BY <1>3, RestTyped DEF HandleWrite, WriteFailed, PopAndWrite, PopLast, WriteDone
  <2>2. CASE WriteFailed
    <3>1. SocketTyped' /\ server' = "none" /\ seen' = None
      BY <2>1, <2>2, DropSocketTyped DEF WriteFailed, CloseAndPostReconnect
    <3> QED BY <2>2, <3>1
          DEF WriteFailed, WriteDone, CloseAndPostReconnect, SocketTyped, ProgramTyped
  <2>3. CASE PopAndWrite(sendBuffers[2])
    <3>1. sendBuffers[2] \in Packet /\ Tail(sendBuffers) \in Seq(Packet)
          /\ Len(Tail(sendBuffers)) <= MaxBuffers
      BY <2>3, HeadTailProperties DEF PopAndWrite, ProgramTyped
    <3>2. SocketTyped'
      BY <2>1, <2>3, <3>1, DoWriteTyped DEF PopAndWrite
    <3> QED BY <2>3, <3>1, <3>2 DEF PopAndWrite, WriteDone, SocketTyped, ProgramTyped, peer
  <2>4. CASE PopLast
    BY <2>1, <2>4 DEF PopLast, WriteDone, ProgramTyped, peer
  <2> QED BY <1>3, <2>2, <2>3, <2>4 DEF HandleWrite
<1>4. CASE HandleRead
  <2>1. Rest \in Seq(Completion)
    BY <1>4, RestTyped DEF HandleRead
  <2>2. CASE CloseAndPostReconnect(Rest)
    <3>1. SocketTyped' /\ server' = "none" /\ seen' = None
      BY <2>1, <2>2, DropSocketTyped DEF CloseAndPostReconnect
    <3> QED BY <1>4, <2>2, <3>1 DEF HandleRead, CloseAndPostReconnect, SocketTyped, ProgramTyped
  <2>3. CASE ~CloseAndPostReconnect(Rest)
    <3>1. Append(Rest, Done("read", FALSE)) \in Seq(Completion)
      BY <2>1, Completions, QueueAppend DEF Ops
    <3>2. ready' \in Seq(Completion)
      BY <1>4, <2>1, <2>3, <3>1 DEF HandleRead
    <3>3. reading' \in Nat
      <4>1. reading' = reading + 1 \/ reading' = reading
        BY <1>4, <2>3 DEF HandleRead
      <4> QED BY <4>1 DEF ProgramTyped
    <3> QED BY <1>4, <2>3, <3>2, <3>3 DEF HandleRead, ProgramTyped, peer
  <2> QED BY <2>2, <2>3
<1>5. ASSUME NEW p \in Packet, Send(p) PROVE ProgramTyped'
  <2>1. Append(sendBuffers, p) \in Seq(Packet)
        /\ Len(Append(sendBuffers, p)) <= MaxBuffers
    BY <1>5, AppendProperties DEF Send, Sending, ProgramTyped
  <2>2. SocketTyped'
    BY <1>5, DoWriteTyped DEF Send, SocketTyped, ProgramTyped, ops
  <2>3. p.orders \in Orders \cup {None}
    BY DEF Packet
  <2> QED BY <1>5, <2>1, <2>2, <2>3 DEF Send, Sending, Remember, SocketTyped, ProgramTyped, peer
<1>6. CASE SendTick
  BY <1>5, <1>6, Packets DEF SendTick
<1>7. CASE UpdateOrders
  BY <1>5, <1>7, Packets DEF UpdateOrders, ProgramTyped
<1>8. CASE ConnectCompletes
  <2>1. \A ok \in BOOLEAN : Append(ready, Done("connect", ok)) \in Seq(Completion)
    BY Completions, QueueAppend DEF Ops, ProgramTyped
  <2>2. ready' \in Seq(Completion)
    BY <1>8, <2>1 DEF ConnectCompletes
  <2>3. faults' \in 0..MaxFaults
    BY <1>8, FaultTyped DEF ConnectCompletes, ProgramTyped
  <2> QED BY <1>8, <2>2, <2>3 DEF ConnectCompletes, ProgramTyped
<1>9. CASE WriteCompletes
  <2>1. \A ok \in BOOLEAN : Append(ready, Done("write", ok)) \in Seq(Completion)
    BY Completions, QueueAppend DEF Ops, ProgramTyped
  <2>2. Head(inFlight) \in Packet /\ Tail(inFlight) \in Seq(Packet)
    BY <1>9, HeadTailProperties DEF WriteCompletes, ProgramTyped
  <2>3. server' \in {"none", "temporary", "registered"} /\ seen' \in Orders \cup {None}
    BY <1>9, <2>2 DEF WriteCompletes, Receive, Packet, ProgramTyped, peer
  <2> QED BY <1>9, <2>1, <2>2, <2>3 DEF WriteCompletes, ProgramTyped
<1>10. CASE ReadCompletes
  <2>1. \A ok \in BOOLEAN : Append(ready, Done("read", ok)) \in Seq(Completion)
    BY Completions, QueueAppend DEF Ops, ProgramTyped
  <2>2. ready' \in Seq(Completion)
    BY <1>10, <2>1 DEF ReadCompletes
  <2>3. reading' \in Nat
    BY <1>10 DEF ReadCompletes, ProgramTyped
  <2> QED BY <1>10, <2>2, <2>3 DEF ReadCompletes, ProgramTyped, peer
<1>11. CASE TimerExpires
  <2>1. Append(ready, Done("timer", TRUE)) \in Seq(Completion)
    BY Completions, QueueAppend DEF Ops, ProgramTyped
  <2> QED BY <1>11, <2>1 DEF TimerExpires, ProgramTyped, peer
<1>12. CASE ConnectionLost
  BY <1>12 DEF ConnectionLost, Fault, ProgramTyped, ops
<1>13. CASE OrdersChange
  BY <1>13 DEF OrdersChange, ProgramTyped, ops, peer
<1>14. CASE Reinitialize
  <2>1. faults' \in 0..MaxFaults
    BY <1>14, FaultTyped DEF Reinitialize
  <2>2. ready' \in Seq(Completion)
    BY <1>14, FirstReconnect DEF Reinitialize
  <2>3. inFlight' \in Seq(Packet) /\ sendBuffers' \in Seq(Packet) /\ Len(sendBuffers') <= MaxBuffers
    BY <1>14, EmptySeq DEF Reinitialize
  <2> QED BY <1>14, <2>1, <2>2, <2>3 DEF Reinitialize, ProgramTyped
<1>15. CASE UNCHANGED vars
  BY <1>15 DEF vars, program, ops, peer, ProgramTyped
<1> QED BY <1>1, <1>2, <1>3, <1>4, <1>6, <1>7, <1>8, <1>9, <1>10, <1>11,
           <1>12, <1>13, <1>14, <1>15 DEF Next, Step, IoThread, System

LEMMA InitTyped == Init => ProgramTyped
<1> SUFFICES ASSUME Init PROVE ProgramTyped
  OBVIOUS
<1>1. ready \in Seq(Completion)
  BY FirstReconnect DEF Init
<1>2. inFlight \in Seq(Packet) /\ sendBuffers \in Seq(Packet) /\ Len(sendBuffers) <= MaxBuffers
  BY EmptySeq, UltimaClientAssumption DEF Init
<1>3. faults \in 0..MaxFaults /\ reading \in Nat
  BY UltimaClientAssumption DEF Init
<1>4. /\ connecting \in BOOLEAN /\ connectOp \in BOOLEAN /\ timer \in BOOLEAN
      /\ ioAlive \in BOOLEAN /\ socket = "closed" /\ server = "none"
      /\ lastSent = None /\ seen = None /\ orders \in Orders
  BY DEF Init
<1> QED BY <1>1, <1>2, <1>3, <1>4 DEF ProgramTyped

(* No step of the program disturbs the types of its state.                 *)
LEMMA ProgramTypeCorrect == Spec => []ProgramTyped
BY InitTyped, TypeStep, PTL DEF Spec

(* The types of the client's members, the io queue and the peer, in every  *)
(* reachable state; sendBuffers never outgrows its bound, which is where   *)
(* the clear() of the connect handler matters.                             *)
THEOREM TypeCorrect == Spec => []TypeOK
<1>1. Init => TypeOK
  BY InitTyped DEF Init, TypeOK
<1>2. ProgramTyped /\ TypeOK /\ [Next]_vars => TypeOK'
  BY TypeStep DEF TypeOK, Next, vars
<1> QED BY <1>1, <1>2, ProgramTypeCorrect, PTL DEF Spec

-----------------------------------------------------------------------------
(* The flag connecting.                                                    *)

(* ConnectingIsExact, of a flag c, an outstanding connect o and a queue q. *)
Exact(c, o, q) ==
  /\ c <=> o \/ Has(q, "connect")
  /\ o => ~Has(q, "connect")
  /\ AtMostOne(q, "connect")

LEMMA ExactUnfolds == ConnectingIsExact <=> (ioAlive => Exact(connecting, connectOp, ready))
BY DEF ConnectingIsExact, Exact

LEMMA AbsentIsOnce == \A q : \A op : ~Has(q, op) => AtMostOne(q, op)
BY DEF Has, AtMostOne

(* Queueing the completion of another operation changes nothing.           *)
LEMMA ExactAppend ==
  ASSUME NEW c, NEW o, NEW q \in Seq(Completion), NEW d \in Completion,
         d.op # "connect", Exact(c, o, q)
  PROVE  Exact(c, o, Append(q, d))
<1>1. Has(Append(q, d), "connect") <=> Has(q, "connect")
  BY QueueAppend
<1>2. AtMostOne(Append(q, d), "connect")
  BY QueueAppend DEF Exact
<1> QED BY <1>1, <1>2 DEF Exact

(* Taking the completion of another operation changes nothing either.      *)
LEMMA ExactTail ==
  ASSUME NEW c, NEW o, NEW q \in Seq(Completion), q # <<>>,
         Head(q).op # "connect", Exact(c, o, q)
  PROVE  Exact(c, o, Tail(q))
<1>1. Has(q, "connect") <=> Has(Tail(q), "connect")
  BY QueueTail
<1>2. AtMostOne(Tail(q), "connect")
  BY QueueTail DEF Exact
<1> QED BY <1>1, <1>2 DEF Exact

(* Closing the socket turns an outstanding connect into a queued one.      *)
LEMMA ExactClose ==
  ASSUME ProgramTyped, NEW q \in Seq(Completion), Exact(connecting, connectOp, q)
  PROVE  Exact(connecting, FALSE, q \o Aborted)
<1>1. /\ Aborted \in Seq(Completion)
      /\ Has(Aborted, "connect") <=> connectOp
      /\ AtMostOne(Aborted, "connect")
  BY AbortedCompletions
<1>2. Has(q \o Aborted, "connect") <=> Has(q, "connect") \/ connectOp
  BY <1>1, QueueConcat
<1>3. AtMostOne(q \o Aborted, "connect")
  BY <1>1, QueueConcat DEF Exact
<1> QED BY <1>2, <1>3 DEF Exact

LEMMA ConnectingStep == ProgramTyped /\ ConnectingIsExact /\ [Next]_vars => ConnectingIsExact'
<1> SUFFICES ASSUME ProgramTyped, ConnectingIsExact, [Next]_vars, ioAlive'
             PROVE  Exact(connecting, connectOp, ready)'
  BY ExactUnfolds DEF ConnectingIsExact, Exact
<1>a. ready \in Seq(Completion) /\ connecting \in BOOLEAN /\ connectOp \in BOOLEAN
  BY DEF ProgramTyped
<1>b. ASSUME NEW op, Running(op)
      PROVE  /\ Exact(connecting, connectOp, ready)
             /\ ready # <<>> /\ Head(ready).op = op /\ Rest = Tail(ready)
             /\ Rest \in Seq(Completion)
             /\ op # "connect" => Exact(connecting, connectOp, Rest)
  BY <1>a, <1>b, ExactUnfolds, RestTyped, ExactTail DEF Running, Rest
<1>1. CASE RunReconnect
  <2>1. PICK op \in {"reconnect", "timer"} : Running(op)
    BY <1>1 DEF RunReconnect
  <2>2. Exact(connecting, connectOp, Rest) /\ Rest \in Seq(Completion)
    BY <1>b, <2>1
  <2>3. CASE connecting /\ ready' = Rest /\ UNCHANGED <<connecting, connectOp>>
    BY <2>2, <2>3
  <2>4. CASE ~connecting /\ StartConnect(Rest)
    <3>1. ~Has(Rest, "connect") /\ ~connectOp
      BY <2>2, <2>4 DEF Exact
    <3>2. ~Has(Rest \o Aborted, "connect")
      BY <2>2, <3>1, AbortedCompletions, QueueConcat
    <3> QED BY <2>4, <3>2, AbsentIsOnce DEF StartConnect, DropSocket, Exact
  <2> QED BY <1>1, <2>3, <2>4 DEF RunReconnect, Reconnect
<1>2. CASE HandleConnect
  <2>1. Running("connect")
    BY <1>2 DEF HandleConnect, ConnectDone
  <2>2. ~Has(Rest, "connect") /\ ~connectOp
    BY <1>a, <1>b, <2>1, QueueTail DEF Exact
  <2>3. ready' = Rest /\ connecting' = FALSE /\ connectOp' = connectOp
    BY <1>2 DEF HandleConnect, ConnectDone, LogIn, OptionThrows, ConnectFailed
  <2> QED BY <2>2, <2>3, AbsentIsOnce DEF Exact
<1>3. ASSUME NEW op, op # "connect", Running(op), CloseAndPostReconnect(Rest)
      PROVE  Exact(connecting, connectOp, ready)'
  BY <1>b, <1>3, ExactClose DEF CloseAndPostReconnect, DropSocket
<1>4. ASSUME NEW q \in Seq(Completion), Exact(connecting, connectOp, q),
             NEW b, DoWrite(q, b), UNCHANGED connecting
      PROVE  Exact(connecting, connectOp, ready)'
  <2>1. Done("write", FALSE) \in Completion /\ Done("write", FALSE).op # "connect"
    BY DEF Done, Completion, Ops
  <2> QED BY <1>4, <2>1, ExactAppend DEF DoWrite
<1>5. CASE HandleWrite
  <2>1. Running("write")
    BY <1>5 DEF HandleWrite, WriteFailed, PopAndWrite, PopLast, WriteDone
  <2>2. CASE WriteFailed
    BY <1>3, <2>1, <2>2 DEF WriteFailed
  <2>3. CASE PopAndWrite(sendBuffers[2])
    BY <1>b, <1>4, <2>1, <2>3 DEF PopAndWrite
  <2>4. CASE PopLast
    BY <1>b, <2>1, <2>4 DEF PopLast
  <2> QED BY <1>5, <2>2, <2>3, <2>4 DEF HandleWrite
<1>6. CASE HandleRead
  <2>1. Running("read")
    BY <1>6 DEF HandleRead
  <2>2. CASE CloseAndPostReconnect(Rest)
    BY <1>3, <2>1, <2>2
  <2>3. CASE ready' = Rest /\ UNCHANGED <<connecting, connectOp>>
    BY <1>b, <2>1, <2>3
  <2>4. CASE ready' = Append(Rest, Done("read", FALSE)) /\ UNCHANGED <<connecting, connectOp>>
    <3>1. Done("read", FALSE) \in Completion /\ Done("read", FALSE).op # "connect"
      BY DEF Done, Completion, Ops
    <3>2. Exact(connecting, connectOp, Rest) /\ Rest \in Seq(Completion)
      BY <1>b, <2>1
    <3>3. Exact(connecting, connectOp, Append(Rest, Done("read", FALSE)))
      BY <3>1, <3>2, ExactAppend
    <3> QED BY <2>4, <3>3
  <2> QED BY <1>6, <2>2, <2>3, <2>4 DEF HandleRead
<1>7. ASSUME NEW p, Send(p) PROVE Exact(connecting, connectOp, ready)'
  <2>1. Exact(connecting, connectOp, ready) /\ UNCHANGED connecting
    BY <1>7, ExactUnfolds DEF Send, Sending
  <2> QED BY <1>a, <1>4, <1>7, <2>1 DEF Send, ops
<1>8. CASE SendTick
  BY <1>7, <1>8 DEF SendTick
<1>9. CASE UpdateOrders
  BY <1>7, <1>9 DEF UpdateOrders
<1>10. CASE ConnectCompletes
  <2>1. connecting /\ ~Has(ready, "connect") /\ connectOp
    BY <1>10, ExactUnfolds DEF ConnectCompletes, Exact
  <2>2. PICK ok \in BOOLEAN : ready' = Append(ready, Done("connect", ok))
    BY <1>10 DEF ConnectCompletes
  <2>3. Done("connect", ok) \in Completion /\ Done("connect", ok).op = "connect"
    BY DEF Done, Completion, Ops
  <2>4. Has(ready', "connect") /\ AtMostOne(ready', "connect")
    BY <1>a, <2>1, <2>2, <2>3, QueueAppend, AbsentIsOnce
  <2> QED BY <1>10, <2>1, <2>4 DEF ConnectCompletes, Exact
<1>11. ASSUME ioAlive, UNCHANGED <<connecting, connectOp>>,
              NEW op \in {"read", "write", "timer"}, NEW ok \in BOOLEAN,
              ready' = Append(ready, Done(op, ok))
       PROVE  Exact(connecting, connectOp, ready)'
  <2>1. Done(op, ok) \in Completion /\ Done(op, ok).op # "connect"
    BY DEF Done, Completion, Ops
  <2> QED BY <1>a, <1>11, <2>1, ExactUnfolds, ExactAppend
<1>12. CASE WriteCompletes
  BY <1>11, <1>12 DEF WriteCompletes
<1>13. CASE ReadCompletes
  <2>1. (server = "registered") \in BOOLEAN
    OBVIOUS
  <2> QED BY <1>11, <1>13, <2>1 DEF ReadCompletes
<1>14. CASE TimerExpires
  BY <1>11, <1>14 DEF TimerExpires
<1>15. CASE Reinitialize
  <2>1. ~Has(<<Done("reconnect", TRUE)>>, "connect")
    BY DEF Has, Done
  <2> QED BY <1>15, <2>1, AbsentIsOnce DEF Reinitialize, Exact
<1>16. CASE UNCHANGED <<connecting, connectOp, ready, ioAlive>>
  BY <1>16, ExactUnfolds DEF Exact
<1> QED BY <1>1, <1>2, <1>5, <1>6, <1>8, <1>9, <1>10, <1>12, <1>13, <1>14, <1>15, <1>16
        DEF Next, Step, IoThread, System, ConnectionLost, OrdersChange, vars, program, ops

(* connecting is TRUE exactly while one async_connect is outstanding or    *)
(* its completion is queued, so reconnect() never closes the socket of a   *)
(* connect under way (UltimaClient.cpp:56), and never refuses for good.    *)
THEOREM ConnectingCorrect == Spec => []ConnectingIsExact
<1>1. Init => ConnectingIsExact
  BY DEF Init, ConnectingIsExact, Has, AtMostOne, Done
<1> QED BY <1>1, ConnectingStep, ProgramTypeCorrect, PTL DEF Spec

-----------------------------------------------------------------------------
(* What is left that leads to a connection.                                *)

HasSource(q) == \E op \in {"reconnect", "timer", "read"} : Has(q, op)

LEMMA StrandedUnfolds ==
  NeverStranded <=> (ioAlive => reading > 0 \/ timer \/ connecting \/ HasSource(ready))
BY DEF NeverStranded, HasSource

(* A queue that grows keeps what it has.                                   *)
LEMMA SourceAppend ==
  ASSUME NEW q \in Seq(Completion), NEW c \in Completion
  PROVE  HasSource(q) \/ c.op \in {"reconnect", "timer", "read"} => HasSource(Append(q, c))
BY QueueAppend DEF HasSource

LEMMA SourceTail ==
  ASSUME NEW q \in Seq(Completion), q # <<>>, HasSource(q),
         Head(q).op \notin {"reconnect", "timer", "read"}
  PROVE  HasSource(Tail(q))
BY QueueTail DEF HasSource

LEMMA StrandedStep == ProgramTyped /\ NeverStranded /\ [Next]_vars => NeverStranded'
<1> DEFINE Source == reading > 0 \/ timer \/ connecting \/ HasSource(ready)
<1> SUFFICES ASSUME ProgramTyped, NeverStranded, [Next]_vars, ioAlive'
             PROVE  Source'
  BY DEF NeverStranded, HasSource
<1>a. ready \in Seq(Completion) /\ reading \in Nat /\ connecting \in BOOLEAN
  BY DEF ProgramTyped
<1>b. ASSUME ioAlive PROVE Source
  BY <1>b, StrandedUnfolds
<1>1. CASE RunReconnect
  <2>1. connecting' = TRUE
    BY <1>1, <1>a DEF RunReconnect, Reconnect, StartConnect
  <2> QED BY <2>1
<1>2. CASE HandleConnect
  <2>1. CASE ConnectFailed
    BY <2>1 DEF ConnectFailed
  <2>2. CASE LogIn(<<Login>>, 1)
    BY <1>a, <2>2 DEF LogIn
  <2> QED BY <1>2, <2>1, <2>2 DEF HandleConnect, OptionThrows
<1>3. CASE \E q : CloseAndPostReconnect(q)
  BY <1>3 DEF CloseAndPostReconnect
<1>4. ASSUME UNCHANGED <<reading, timer, connecting>>, ioAlive,
             HasSource(ready) => HasSource(ready')
      PROVE  Source'
  BY <1>b, <1>4
<1>5. ASSUME NEW q \in Seq(Completion), NEW b, DoWrite(q, b)
      PROVE  (HasSource(q) => HasSource(ready')) /\ UNCHANGED reading
  <2>1. Done("write", FALSE) \in Completion
    BY DEF Done, Completion, Ops
  <2> QED BY <1>5, <2>1, SourceAppend DEF DoWrite
<1>6. CASE HandleWrite
  <2>1. Running("write")
    BY <1>6 DEF HandleWrite, WriteFailed, PopAndWrite, PopLast, WriteDone
  <2>2. /\ HasSource(ready) => HasSource(Rest)
        /\ Rest \in Seq(Completion) /\ ioAlive
    BY <1>a, <2>1, SourceTail, QueueTail DEF Running, Rest
  <2>3. CASE WriteFailed
    BY <1>3, <2>3 DEF WriteFailed
  <2>4. CASE PopAndWrite(sendBuffers[2])
    BY <1>4, <1>5, <2>2, <2>4 DEF PopAndWrite
  <2>5. CASE PopLast
    BY <1>4, <2>2, <2>5 DEF PopLast
  <2> QED BY <1>6, <2>3, <2>4, <2>5 DEF HandleWrite
<1>7. CASE HandleRead
  <2>1. CASE CloseAndPostReconnect(Rest)
    BY <1>3, <2>1
  <2>2. CASE reading' = reading + 1
    BY <1>a, <2>2
  <2>3. CASE ready' = Append(Rest, Done("read", FALSE))
    <3>1. Rest \in Seq(Completion)
      BY <1>7, RestTyped DEF HandleRead
    <3>2. Done("read", FALSE) \in Completion /\ Done("read", FALSE).op = "read"
      BY DEF Done, Completion, Ops
    <3> QED BY <2>3, <3>1, <3>2, SourceAppend
  <2> QED BY <1>7, <2>1, <2>2, <2>3 DEF HandleRead
<1>8. ASSUME NEW p, Send(p) PROVE Source'
  <2>1. UNCHANGED <<timer, connecting>> /\ ioAlive
    BY <1>8 DEF Send, Sending
  <2>2. (HasSource(ready) => HasSource(ready')) /\ UNCHANGED reading
    BY <1>a, <1>5, <1>8 DEF Send, ops
  <2> QED BY <1>4, <2>1, <2>2
<1>9. CASE SendTick
  BY <1>8, <1>9 DEF SendTick
<1>10. CASE UpdateOrders
  BY <1>8, <1>10 DEF UpdateOrders
<1>11. ASSUME NEW op \in Ops, NEW ok \in BOOLEAN, ready' = Append(ready, Done(op, ok))
       PROVE  /\ HasSource(ready) => HasSource(ready')
              /\ op \in {"timer", "read"} => HasSource(ready')
  <2>1. Done(op, ok) \in Completion /\ Done(op, ok).op = op
    BY DEF Done, Completion
  <2> QED BY <1>a, <1>11, <2>1, SourceAppend
<1>12. CASE ConnectCompletes
  <2>1. HasSource(ready) => HasSource(ready')
    BY <1>11, <1>12 DEF ConnectCompletes, Ops
  <2> QED BY <1>4, <1>12, <2>1 DEF ConnectCompletes
<1>13. CASE WriteCompletes
  <2>1. HasSource(ready) => HasSource(ready')
    BY <1>11, <1>13 DEF WriteCompletes, Ops
  <2> QED BY <1>4, <1>13, <2>1 DEF WriteCompletes
<1>14. CASE ReadCompletes
  <2>1. (server = "registered") \in BOOLEAN
    OBVIOUS
  <2> QED BY <1>11, <1>14, <2>1 DEF ReadCompletes, Ops
<1>15. CASE TimerExpires
  BY <1>11, <1>15 DEF TimerExpires, Ops
<1>16. CASE Reinitialize
  BY <1>16 DEF Reinitialize, HasSource, Has, Done
<1>17. CASE UNCHANGED <<reading, timer, connecting, ready, ioAlive>>
  BY <1>4, <1>17
<1> QED BY <1>1, <1>2, <1>6, <1>7, <1>9, <1>10, <1>12, <1>13, <1>14, <1>15, <1>16, <1>17
        DEF Next, Step, IoThread, System, ConnectionLost, OrdersChange, vars, program, ops

(* Whatever fails, a live client keeps a read, the timer, a connect or a   *)
(* queued completion that leads back to a connection.                      *)
THEOREM NeverStrandedCorrect == Spec => []NeverStranded
<1>1. Init => NeverStranded
  BY DEF Init, NeverStranded, Has, Done
<1> QED BY <1>1, StrandedStep, ProgramTypeCorrect, PTL DEF Spec

-----------------------------------------------------------------------------
(* Counting the completions of an operation.                               *)

Positions(q, op) == {i \in DOMAIN q : q[i].op = op}

LEMMA CountIsPositions == \A q, op : Count(q, op) = Cardinality(Positions(q, op))
BY DEF Count, Positions

LEMMA PositionsFinite ==
  ASSUME NEW q \in Seq(Completion), NEW op
  PROVE  IsFiniteSet(Positions(q, op)) /\ Count(q, op) \in Nat
<1>1. DOMAIN q = 1..Len(q) /\ Len(q) \in Nat
  BY LenProperties
<1>2. IsFiniteSet(1..Len(q))
  BY <1>1, FS_Interval
<1>3. Positions(q, op) \in SUBSET (1..Len(q))
  BY <1>1 DEF Positions
<1> QED BY <1>2, <1>3, FS_Subset, FS_CardinalityType, CountIsPositions

LEMMA CountAbsent ==
  ASSUME NEW q \in Seq(Completion), NEW op
  PROVE  Count(q, op) = 0 <=> ~Has(q, op)
<1>1. Positions(q, op) = {} <=> ~Has(q, op)
  BY DEF Positions, Has
<1> QED BY <1>1, PositionsFinite, CountIsPositions, FS_EmptySet

LEMMA CountAppend ==
  ASSUME NEW q \in Seq(Completion), NEW c \in Completion, NEW op
  PROVE  Count(Append(q, c), op) = Count(q, op) + (IF c.op = op THEN 1 ELSE 0)
<1> DEFINE a == Append(q, c)
<1>1. /\ DOMAIN q = 1..Len(q) /\ DOMAIN a = 1..(Len(q) + 1) /\ Len(q) \in Nat
      /\ \A i \in 1..Len(q) : a[i] = q[i]
      /\ a[Len(q) + 1] = c
  BY AppendProperties, LenProperties
<1> HIDE DEF a
<1>2. Positions(a, op) = Positions(q, op) \cup (IF c.op = op THEN {Len(q) + 1} ELSE {})
  BY <1>1 DEF Positions
<1>3. Len(q) + 1 \notin Positions(q, op)
  BY <1>1 DEF Positions
<1>4. CASE c.op = op
  <2>1. Positions(a, op) = Positions(q, op) \cup {Len(q) + 1}
    BY <1>2, <1>4
  <2>2. Cardinality(Positions(q, op) \cup {Len(q) + 1}) = Cardinality(Positions(q, op)) + 1
    BY <1>3, PositionsFinite, FS_AddElement
  <2>3. Count(a, op) = Count(q, op) + 1
    BY <2>1, <2>2, CountIsPositions
  <2>4. (IF c.op = op THEN 1 ELSE 0) = 1
    BY <1>4
  <2> QED BY <2>3, <2>4, Zenon DEF a
<1>5. CASE c.op # op
  <2>1. Count(q, op) \in Nat
    BY PositionsFinite
  <2>2. Positions(a, op) = Positions(q, op)
    BY <1>2, <1>5
  <2>3. Count(a, op) = Count(q, op) /\ Count(q, op) + 0 = Count(q, op)
    BY <2>1, <2>2, CountIsPositions
  <2>4. (IF c.op = op THEN 1 ELSE 0) = 0
    BY <1>5
  <2> QED BY <2>3, <2>4, Zenon DEF a
<1> QED BY <1>4, <1>5

(* A set of positions moved by k has as many of them.                      *)
LEMMA Moved ==
  ASSUME NEW S \in SUBSET Nat, IsFiniteSet(S), NEW k \in Nat
  PROVE  LET T == {i + k : i \in S}
         IN  IsFiniteSet(T) /\ Cardinality(T) = Cardinality(S)
<1> DEFINE T == {i + k : i \in S}
           f == [i \in S |-> i + k]
<1>1. f \in [S -> T] /\ \A i \in S : f[i] = i + k
  OBVIOUS
<1>2. \A i, j \in S : f[i] = f[j] => i = j
  <2> TAKE i, j \in S
  <2>1. i \in Nat /\ j \in Nat /\ f[i] = i + k /\ f[j] = j + k
    OBVIOUS
  <2> HIDE DEF f
  <2> QED BY <2>1
<1>3. \A t \in T : \E i \in S : f[i] = t
  OBVIOUS
<1> HIDE DEF f, T
<1>4. f \in Bijection(S, T)
  BY <1>1, <1>2, <1>3, Fun_IsBij, Zenon
<1>5. ExistsBijection(S, T)
  BY <1>4 DEF ExistsBijection
<1>6. IsFiniteSet(T) /\ Cardinality(T) = Cardinality(S)
  BY <1>5, FS_Bijection
<1> QED BY <1>6 DEF T

LEMMA CountConcat ==
  ASSUME NEW q \in Seq(Completion), NEW r \in Seq(Completion), NEW op
  PROVE  Count(q \o r, op) = Count(q, op) + Count(r, op)
<1> DEFINE s == q \o r
           T == {i + Len(q) : i \in Positions(r, op)}
<1>1. /\ Len(q) \in Nat /\ Len(r) \in Nat
      /\ DOMAIN q = 1..Len(q) /\ DOMAIN r = 1..Len(r)
      /\ DOMAIN s = 1..(Len(q) + Len(r))
      /\ \A i \in 1..(Len(q) + Len(r)) :
           s[i] = IF i <= Len(q) THEN q[i] ELSE r[i - Len(q)]
  BY ConcatProperties, LenProperties
<1> HIDE DEF s
<1>2. Positions(r, op) \in SUBSET Nat
  BY <1>1 DEF Positions
<1>3. IsFiniteSet(T) /\ Cardinality(T) = Cardinality(Positions(r, op))
  BY <1>1, <1>2, PositionsFinite, Moved
<1>4. Positions(s, op) = Positions(q, op) \cup T
  <2>1. ASSUME NEW i \in Positions(s, op) PROVE i \in Positions(q, op) \cup T
    <3>1. i \in 1..(Len(q) + Len(r)) /\ s[i].op = op
      BY <1>1 DEF Positions
    <3>2. CASE i <= Len(q)
      BY <1>1, <3>1, <3>2 DEF Positions
    <3>3. CASE ~(i <= Len(q))
      <4>1. i - Len(q) \in 1..Len(r) /\ s[i] = r[i - Len(q)] /\ i = (i - Len(q)) + Len(q)
        BY <1>1, <3>1, <3>3
      <4>2. i - Len(q) \in Positions(r, op)
        BY <1>1, <3>1, <4>1 DEF Positions
      <4> QED BY <4>1, <4>2
    <3> QED BY <3>2, <3>3
  <2>2. ASSUME NEW i \in Positions(q, op) PROVE i \in Positions(s, op)
    BY <1>1 DEF Positions
  <2>3. ASSUME NEW i \in Positions(r, op) PROVE i + Len(q) \in Positions(s, op)
    <3>1. i \in 1..Len(r) /\ r[i].op = op
      BY <1>1 DEF Positions
    <3>2. i + Len(q) \in 1..(Len(q) + Len(r)) /\ ~(i + Len(q) <= Len(q))
          /\ (i + Len(q)) - Len(q) = i
      BY <1>1, <3>1
    <3> QED BY <1>1, <3>1, <3>2 DEF Positions
  <2> QED BY <2>1, <2>2, <2>3
<1>5. Positions(q, op) \cap T = {}
  <2> SUFFICES ASSUME NEW i \in Positions(r, op), i + Len(q) \in Positions(q, op)
               PROVE  FALSE
    OBVIOUS
  <2>1. i \in 1..Len(r) /\ i + Len(q) \in 1..Len(q)
    BY <1>1 DEF Positions
  <2> QED BY <1>1, <2>1
<1> HIDE DEF T
<1>6. Cardinality(Positions(s, op))
        = Cardinality(Positions(q, op)) + Cardinality(Positions(r, op)) - 0
  BY <1>3, <1>4, <1>5, PositionsFinite, FS_Union, FS_EmptySet
<1>7. Count(q, op) \in Nat /\ Count(r, op) \in Nat
  BY PositionsFinite
<1> QED BY <1>6, <1>7, CountIsPositions DEF s

LEMMA CountTail ==
  ASSUME NEW q \in Seq(Completion), q # <<>>, NEW op
  PROVE  Count(q, op) = Count(Tail(q), op) + (IF Head(q).op = op THEN 1 ELSE 0)
<1> DEFINE t == Tail(q)
           T == {i + 1 : i \in Positions(t, op)}
<1>1. /\ t \in Seq(Completion) /\ Len(t) = Len(q) - 1 /\ Head(q) = q[1]
      /\ \A i \in 1..Len(t) : t[i] = q[i + 1]
      /\ Len(q) \in Nat \ {0} /\ Len(t) \in Nat
      /\ DOMAIN q = 1..Len(q) /\ DOMAIN t = 1..Len(t)
  BY HeadTailProperties, LenProperties, EmptySeq
<1> HIDE DEF t
<1>2. Positions(t, op) \in SUBSET Nat
  BY <1>1 DEF Positions
<1>3. IsFiniteSet(T) /\ Cardinality(T) = Cardinality(Positions(t, op))
  BY <1>1, <1>2, PositionsFinite, Moved
<1>4. Positions(q, op) = T \cup (IF Head(q).op = op THEN {1} ELSE {})
  <2>1. ASSUME NEW i \in Positions(q, op), i # 1 PROVE i \in T
    <3>1. i \in 1..Len(q) /\ q[i].op = op
      BY <1>1 DEF Positions
    <3>2. i - 1 \in 1..Len(t) /\ t[i - 1] = q[(i - 1) + 1] /\ (i - 1) + 1 = i
      BY <1>1, <2>1, <3>1
    <3>3. i - 1 \in Positions(t, op)
      BY <1>1, <3>1, <3>2 DEF Positions
    <3> QED BY <3>2, <3>3
  <2>2. ASSUME NEW i \in Positions(t, op) PROVE i + 1 \in Positions(q, op)
    BY <1>1 DEF Positions
  <2>3. 1 \in Positions(q, op) <=> Head(q).op = op
    BY <1>1 DEF Positions
  <2> QED BY <2>1, <2>2, <2>3
<1>5. 1 \notin T
  BY <1>1 DEF Positions
<1> HIDE DEF T
<1>6. Count(t, op) \in Nat
  BY <1>1, PositionsFinite
<1>7. CASE Head(q).op = op
  <2>1. Positions(q, op) = T \cup {1}
    BY <1>4, <1>7
  <2>2. Cardinality(T \cup {1}) = Cardinality(T) + 1
    BY <1>3, <1>5, FS_AddElement
  <2>3. Count(q, op) = Count(t, op) + 1
    BY <1>3, <2>1, <2>2, CountIsPositions
  <2>4. (IF Head(q).op = op THEN 1 ELSE 0) = 1
    BY <1>7
  <2> QED BY <2>3, <2>4, Zenon DEF t
<1>8. CASE Head(q).op # op
  <2>1. Positions(q, op) = T
    BY <1>4, <1>8
  <2>2. Count(q, op) = Count(t, op) /\ Count(t, op) + 0 = Count(t, op)
    BY <1>3, <1>6, <2>1, CountIsPositions
  <2>3. (IF Head(q).op = op THEN 1 ELSE 0) = 0
    BY <1>8
  <2> QED BY <2>2, <2>3, Zenon DEF t
<1> QED BY <1>7, <1>8

(* n completions of one operation, as Aborted queues them.                 *)
Failures(op, n) == [i \in 1..n |-> Done(op, FALSE)]

LEMMA FailuresCount ==
  ASSUME NEW op \in Ops, NEW n \in Nat
  PROVE  /\ Failures(op, n) \in Seq(Completion)
         /\ Count(Failures(op, n), op) = n
         /\ \A o \in Ops \ {op} : Count(Failures(op, n), o) = 0
<1> DEFINE r == Failures(op, n)
<1>1. Done(op, FALSE) \in Completion /\ Done(op, FALSE).op = op
  BY DEF Done, Completion
<1>2. r \in [1..n -> Completion] /\ DOMAIN r = 1..n /\ \A i \in 1..n : r[i].op = op
  BY <1>1 DEF Failures
<1> HIDE DEF r
<1>3. r \in Seq(Completion)
  BY <1>2, SeqDef
<1>4. Positions(r, op) = 1..n
  BY <1>2 DEF Positions
<1>5. Cardinality(1..n) = n
  <2>1. 1 \in Int /\ n \in Int
    OBVIOUS
  <2>2. Cardinality(1..n) = IF 1 > n THEN 0 ELSE n - 1 + 1
    BY <2>1, FS_Interval
  <2> QED BY <2>2
<1>6. Count(r, op) = n
  BY <1>4, <1>5, CountIsPositions
<1>7. ASSUME NEW o \in Ops \ {op} PROVE Count(r, o) = 0
  <2>1. ~Has(r, o)
    BY <1>2, <1>7 DEF Has
  <2> QED BY <1>3, <2>1, CountAbsent
<1>8. r \in Seq(Completion) /\ Count(r, op) = n /\ \A o \in Ops \ {op} : Count(r, o) = 0
  BY <1>3, <1>6, <1>7
<1> QED BY <1>8 DEF r

(* Closing the socket queues a completion for every write in flight, and   *)
(* for every read that is outstanding, but nothing that calls reconnect(). *)
LEMMA AbortedCounts ==
  ASSUME ProgramTyped
  PROVE  /\ Count(Aborted, "write") = Len(inFlight) /\ Count(Aborted, "read") = reading
<1> DEFINE con == IF connectOp THEN <<Done("connect", FALSE)>> ELSE <<>>
           rds == Failures("read", reading)
           wrs == Failures("write", Len(inFlight))
<1>1. \A op \in Ops : Done(op, FALSE) \in Completion /\ Done(op, FALSE).op = op
  BY DEF Done, Completion
<1>2. con \in Seq(Completion) /\ \A op \in Ops \ {"connect"} : ~Has(con, op)
  BY <1>1 DEF Has, Ops, Done
<1>3. reading \in Nat /\ Len(inFlight) \in Nat
  BY LenProperties DEF ProgramTyped
<1>4. "read" \in Ops /\ "write" \in Ops
  BY DEF Ops
<1>5. /\ rds \in Seq(Completion) /\ Count(rds, "read") = reading
      /\ \A op \in Ops \ {"read"} : Count(rds, op) = 0
  <2>1. rds \in Seq(Completion)
    BY <1>3, <1>4, FailuresCount, Zenon
  <2>2. Count(rds, "read") = reading
    BY <1>3, <1>4, FailuresCount, Zenon
  <2>3. \A op \in Ops \ {"read"} : Count(rds, op) = 0
    BY <1>3, <1>4, FailuresCount, Zenon
  <2> QED BY <2>1, <2>2, <2>3
<1>6. /\ wrs \in Seq(Completion) /\ Count(wrs, "write") = Len(inFlight)
      /\ \A op \in Ops \ {"write"} : Count(wrs, op) = 0
  <2>1. wrs \in Seq(Completion)
    BY <1>3, <1>4, FailuresCount, Zenon
  <2>2. Count(wrs, "write") = Len(inFlight)
    BY <1>3, <1>4, FailuresCount, Zenon
  <2>3. \A op \in Ops \ {"write"} : Count(wrs, op) = 0
    BY <1>3, <1>4, FailuresCount, Zenon
  <2> QED BY <2>1, <2>2, <2>3
<1>7. \A op \in Ops \ {"connect"} : Count(con, op) = 0
  BY <1>2, CountAbsent
<1>8. Aborted = (con \o rds) \o wrs
  BY DEF Aborted, Failures
<1> HIDE DEF con, rds, wrs
<1>9. \A op \in Ops :
        Count(Aborted, op) = (Count(con, op) + Count(rds, op)) + Count(wrs, op)
  <2> TAKE op \in Ops
  <2>1. con \o rds \in Seq(Completion)
    BY <1>2, <1>5, ConcatProperties
  <2>2. Count((con \o rds) \o wrs, op) = Count(con \o rds, op) + Count(wrs, op)
    BY <1>6, <2>1, CountConcat
  <2>3. Count(con \o rds, op) = Count(con, op) + Count(rds, op)
    BY <1>2, <1>5, CountConcat
  <2> QED BY <1>8, <2>2, <2>3, Zenon
<1>10. Count(Aborted, "write") = Len(inFlight) /\ Count(Aborted, "read") = reading
  BY <1>3, <1>5, <1>6, <1>7, <1>9 DEF Ops
<1> QED BY <1>10

-----------------------------------------------------------------------------
(* The writes of the client.  Each step does one of four things with them. *)

(* Nothing, but that a send() may queue a packet behind others.            *)
KeepsWrites ==
  /\ Writes' = Writes
  /\ inFlight' = inFlight
  /\ \/ sendBuffers' = sendBuffers
     \/ sendBuffers # <<>> /\ \E p \in Packet : sendBuffers' = Append(sendBuffers, p)

(* The operating system is rid of one or of all of them.                   *)
HandsBack ==
  /\ Writes' = Writes
  /\ \/ inFlight' = <<>>
     \/ inFlight # <<>> /\ inFlight' = Tail(inFlight)
  /\ sendBuffers' = sendBuffers

(* The completion of one is handled and no other begins, or all are        *)
(* forgotten with the object.                                              *)
EndsWrites ==
  /\ Writes' = Writes - 1 \/ Writes' = 0
  /\ inFlight' = <<>> \/ sendBuffers' = <<>>

(* One begins, of the packet that is now the front of sendBuffers: after   *)
(* another, into empty buffers or as the Login of a new connection.        *)
BeginsWrite ==
  /\ sendBuffers' # <<>>
  /\ \/ inFlight' = Append(inFlight, Head(sendBuffers'))
     \/ inFlight' = inFlight /\ Has(ready', "write")
  /\ \/ Writes' = Writes
     \/ Writes' = Writes + 1 /\ (sendBuffers = <<>> \/ (connecting /\ ~connecting'))

WritesSound ==
  /\ Len(inFlight) \in Nat /\ Count(ready, "write") \in Nat /\ Writes \in Nat
  /\ Len(inFlight) = 0 <=> inFlight = <<>>
  /\ Count(ready, "write") = 0 <=> ~Has(ready, "write")

LEMMA WritesTyped == ProgramTyped => WritesSound
<1> SUFFICES ASSUME ProgramTyped PROVE WritesSound
  OBVIOUS
<1>1. Len(inFlight) \in Nat /\ Count(ready, "write") \in Nat
  BY LenProperties, PositionsFinite DEF ProgramTyped
<1>2. Len(inFlight) = 0 <=> inFlight = <<>>
  BY EmptySeq DEF ProgramTyped
<1>3. Count(ready, "write") = 0 <=> ~Has(ready, "write")
  BY CountAbsent DEF ProgramTyped
<1> QED BY <1>1, <1>2, <1>3 DEF Writes, WritesSound

LEMMA WritesTypedNext == ProgramTyped' => WritesSound'
BY WritesTyped, PTL

(* Queueing a completion, and taking the first one.                        *)
LEMMA WriteQueued ==
  ASSUME NEW q \in Seq(Completion), NEW op \in Ops, NEW ok \in BOOLEAN
  PROVE  /\ Append(q, Done(op, ok)) \in Seq(Completion)
         /\ op # "write" => Count(Append(q, Done(op, ok)), "write") = Count(q, "write")
         /\ op = "write" => /\ Count(Append(q, Done(op, ok)), "write") = Count(q, "write") + 1
                            /\ Has(Append(q, Done(op, ok)), "write")
<1>1. Done(op, ok) \in Completion /\ Done(op, ok).op = op
  BY DEF Done, Completion
<1>2. Count(q, "write") \in Nat
  BY PositionsFinite
<1>3. Count(Append(q, Done(op, ok)), "write")
        = Count(q, "write") + (IF Done(op, ok).op = "write" THEN 1 ELSE 0)
  BY <1>1, CountAppend
<1> QED BY <1>1, <1>2, <1>3, QueueAppend

LEMMA WriteTaken ==
  ASSUME ProgramTyped, NEW op, Running(op)
  PROVE  /\ ioAlive /\ Rest \in Seq(Completion) /\ Count(Rest, "write") \in Nat
         /\ Count(ready, "write") = Count(Rest, "write") + (IF op = "write" THEN 1 ELSE 0)
         /\ Has(ready, op)
<1>1. ready \in Seq(Completion) /\ ready # <<>> /\ Head(ready).op = op /\ Rest = Tail(ready)
  BY DEF ProgramTyped, Running, Rest
<1>2. Rest \in Seq(Completion) /\ Has(ready, op)
  BY <1>1, QueueTail
<1>3. Count(Rest, "write") \in Nat
  BY <1>2, PositionsFinite
<1>4. Count(ready, "write") = Count(Rest, "write") + (IF op = "write" THEN 1 ELSE 0)
  BY <1>1, CountTail
<1> QED BY <1>2, <1>3, <1>4 DEF Running

LEMMA WritesClosed ==
  ASSUME ProgramTyped, NEW q \in Seq(Completion), NEW state, NEW op, DropSocket(q, state, op)
  PROVE  inFlight' = <<>> /\ Writes' = Len(inFlight) + Count(q, "write")
<1>1. inFlight' = <<>> /\ ready' = q \o Aborted
  BY DEF DropSocket
<1>2. Count(q \o Aborted, "write") = Count(q, "write") + Len(inFlight)
  BY AbortedCompletions, AbortedCounts, CountConcat
<1>3. Len(inFlight) \in Nat /\ Count(q, "write") \in Nat /\ Len(<<>>) = 0
  BY PositionsFinite, WritesTyped DEF WritesSound
<1> QED BY <1>1, <1>2, <1>3 DEF Writes

LEMMA WritesStep ==
  ASSUME ProgramTyped, ConnectingIsExact, [Next]_vars
  PROVE  KeepsWrites \/ HandsBack \/ EndsWrites \/ BeginsWrite
<1>a. ready \in Seq(Completion) /\ inFlight \in Seq(Packet) /\ sendBuffers \in Seq(Packet)
  BY DEF ProgramTyped
<1>b. /\ Len(inFlight) \in Nat /\ Count(ready, "write") \in Nat
      /\ Len(inFlight) = 0 <=> inFlight = <<>>
  BY WritesTyped DEF WritesSound
<1>1. CASE UNCHANGED <<inFlight, sendBuffers, ready>>
  BY <1>1 DEF KeepsWrites, Writes
<1>2. ASSUME NEW op \in Ops \ {"write"}, NEW ok \in BOOLEAN,
             ready' = Append(ready, Done(op, ok)), UNCHANGED <<inFlight, sendBuffers>>
      PROVE  KeepsWrites
  <2>1. Count(ready', "write") = Count(ready, "write")
    BY <1>a, <1>2, WriteQueued
  <2> QED BY <1>2, <2>1 DEF KeepsWrites, Writes
<1>3. ASSUME NEW q \in Seq(Completion), NEW b, DoWrite(q, b)
      PROVE  /\ Len(inFlight') + Count(ready', "write") = (Len(inFlight) + Count(q, "write")) + 1
             /\ inFlight' = Append(inFlight, b) \/ (inFlight' = inFlight /\ Has(ready', "write"))
  <2>1. Count(q, "write") \in Nat
    BY PositionsFinite
  <2>2. CASE inFlight' = Append(inFlight, b) /\ ready' = q
    <3>1. Len(inFlight') = Len(inFlight) + 1
      BY <1>a, <2>2, AppendProperties
    <3> QED BY <1>b, <2>1, <2>2, <3>1
  <2>3. CASE inFlight' = inFlight /\ ready' = Append(q, Done("write", FALSE))
    <3>1. Count(ready', "write") = Count(q, "write") + 1 /\ Has(ready', "write")
      BY <2>3, WriteQueued DEF Ops
    <3>2. Len(inFlight') = Len(inFlight)
      BY <2>3
    <3>3. Len(inFlight') + Count(ready', "write") = (Len(inFlight) + Count(q, "write")) + 1
      BY <1>b, <2>1, <3>1, <3>2
    <3> QED BY <2>3, <3>1, <3>3
  <2> QED BY <1>3, <2>2, <2>3 DEF DoWrite
<1>4. CASE RunReconnect
  <2>1. PICK op \in {"reconnect", "timer"} : Running(op)
    BY <1>4 DEF RunReconnect
  <2>2. Rest \in Seq(Completion) /\ Count(ready, "write") = Count(Rest, "write")
    <3>1. (IF op = "write" THEN 1 ELSE 0) = 0
      BY <2>1
    <3> QED BY <2>1, <3>1, WriteTaken
  <2>3. sendBuffers' = sendBuffers
    BY <1>4 DEF RunReconnect
  <2>4. CASE ready' = Rest /\ inFlight' = inFlight
    BY <2>2, <2>3, <2>4 DEF KeepsWrites, Writes
  <2>5. CASE StartConnect(Rest)
    <3>1. inFlight' = <<>> /\ Writes' = Len(inFlight) + Count(Rest, "write")
      BY <2>2, <2>5, WritesClosed DEF StartConnect
    <3> QED BY <2>2, <2>3, <3>1 DEF HandsBack, Writes
  <2> QED BY <1>4, <2>4, <2>5 DEF RunReconnect, Reconnect
<1>5. CASE HandleConnect
  <2>1. Running("connect") /\ ready' = Rest
    BY <1>5 DEF HandleConnect, ConnectDone
  <2>2. Count(ready, "write") = Count(Rest, "write") /\ Has(ready, "connect") /\ ioAlive
    <3>1. (IF "connect" = "write" THEN 1 ELSE 0) = 0
      OBVIOUS
    <3> QED BY <2>1, <3>1, WriteTaken
  <2>3. CASE ConnectFailed
    BY <2>1, <2>2, <2>3 DEF ConnectFailed, KeepsWrites, Writes
  <2>4. CASE LogIn(<<Login>>, 1)
    <3>1. connecting /\ ~connecting'
      BY <1>5, <2>2 DEF HandleConnect, ConnectingIsExact
    <3>2. sendBuffers' # <<>> /\ Head(sendBuffers') = Login
      BY <2>4 DEF LogIn
    <3>3. inFlight' = Append(inFlight, Login) /\ Len(inFlight') = Len(inFlight) + 1
      BY <1>a, <2>4, Packets, AppendProperties DEF LogIn
    <3>4. Writes' = Writes + 1
      BY <1>b, <2>1, <2>2, <3>3 DEF Writes
    <3> QED BY <3>1, <3>2, <3>3, <3>4 DEF BeginsWrite
  <2>5. CASE OptionThrows
    BY <2>1, <2>2, <2>5 DEF OptionThrows, KeepsWrites, Writes
  <2> QED BY <1>5, <2>3, <2>4, <2>5 DEF HandleConnect
<1>6. CASE HandleWrite
  <2>1. Running("write")
    BY <1>6 DEF HandleWrite, WriteFailed, PopAndWrite, PopLast, WriteDone
  <2>2. /\ Rest \in Seq(Completion) /\ Count(Rest, "write") \in Nat
        /\ Count(ready, "write") = Count(Rest, "write") + 1
    <3>1. (IF "write" = "write" THEN 1 ELSE 0) = 1
      OBVIOUS
    <3> QED BY <2>1, <3>1, WriteTaken
  <2>3. CASE WriteFailed
    <3>1. inFlight' = <<>> /\ Writes' = Len(inFlight) + Count(Rest, "write")
      BY <2>2, <2>3, WritesClosed DEF WriteFailed, CloseAndPostReconnect
    <3> QED BY <1>b, <2>2, <3>1 DEF EndsWrites, Writes
  <2>4. CASE PopAndWrite(sendBuffers[2])
    <3>1. sendBuffers' = Tail(sendBuffers) /\ Len(sendBuffers) > 1 /\ sendBuffers # <<>>
      BY <2>4 DEF PopAndWrite
    <3>2. Len(sendBuffers) \in Nat
      BY <1>a, LenProperties
    <3>3. /\ Tail(sendBuffers) \in Seq(Packet) /\ Len(Tail(sendBuffers)) = Len(sendBuffers) - 1
          /\ \A i \in 1..Len(Tail(sendBuffers)) : Tail(sendBuffers)[i] = sendBuffers[i + 1]
      BY <1>a, <3>1, HeadTailProperties
    <3>4. 1 \in 1..Len(Tail(sendBuffers)) /\ 1 + 1 = 2
      BY <3>1, <3>2, <3>3
    <3>5. sendBuffers' # <<>> /\ Head(sendBuffers') = sendBuffers[2]
      <4>1. Len(Tail(sendBuffers)) # 0 /\ Tail(sendBuffers)[1] = sendBuffers[2]
        BY <3>1, <3>2, <3>3, <3>4
      <4> QED BY <3>1, <4>1, EmptySeq
    <3>6. Writes' = Writes
      BY <1>b, <1>3, <2>2, <2>4 DEF PopAndWrite, Writes
    <3>7. \/ inFlight' = Append(inFlight, sendBuffers[2])
          \/ inFlight' = inFlight /\ Has(ready', "write")
      BY <1>3, <2>2, <2>4 DEF PopAndWrite
    <3> QED BY <3>5, <3>6, <3>7 DEF BeginsWrite
  <2>5. CASE PopLast
    <3>1. sendBuffers' = <<>> /\ ready' = Rest /\ inFlight' = inFlight
      BY <2>5 DEF PopLast
    <3> QED BY <1>b, <2>2, <3>1 DEF EndsWrites, Writes
  <2> QED BY <1>6, <2>3, <2>4, <2>5 DEF HandleWrite
<1>7. CASE HandleRead
  <2>1. Running("read")
    BY <1>7 DEF HandleRead
  <2>2. Rest \in Seq(Completion) /\ Count(ready, "write") = Count(Rest, "write")
    <3>1. (IF "read" = "write" THEN 1 ELSE 0) = 0
      OBVIOUS
    <3> QED BY <2>1, <3>1, WriteTaken
  <2>3. CASE CloseAndPostReconnect(Rest)
    <3>1. inFlight' = <<>> /\ Writes' = Len(inFlight) + Count(Rest, "write")
      BY <2>2, <2>3, WritesClosed DEF CloseAndPostReconnect
    <3> QED BY <2>2, <2>3, <3>1 DEF CloseAndPostReconnect, HandsBack, Writes
  <2>4. CASE ready' = Rest /\ UNCHANGED <<inFlight, sendBuffers>>
    BY <2>2, <2>4 DEF KeepsWrites, Writes
  <2>5. CASE ready' = Append(Rest, Done("read", FALSE)) /\ UNCHANGED <<inFlight, sendBuffers>>
    <3>1. Count(ready', "write") = Count(Rest, "write")
      BY <2>2, <2>5, WriteQueued DEF Ops
    <3> QED BY <2>2, <2>5, <3>1 DEF KeepsWrites, Writes
  <2> QED BY <1>7, <2>3, <2>4, <2>5 DEF HandleRead
<1>8. ASSUME NEW p \in Packet, Send(p) PROVE KeepsWrites \/ BeginsWrite
  <2>1. sendBuffers' = Append(sendBuffers, p)
    BY <1>8 DEF Send
  <2>2. CASE sendBuffers # <<>>
    <3>1. inFlight' = inFlight /\ ready' = ready
      BY <1>8, <2>2 DEF Send, ops
    <3> QED BY <2>1, <2>2, <3>1 DEF KeepsWrites, Writes
  <2>3. CASE sendBuffers = <<>>
    <3>1. DoWrite(ready, p)
      BY <1>8, <2>3 DEF Send
    <3>2. sendBuffers' # <<>> /\ Head(sendBuffers') = p
      BY <2>1, <2>3
    <3>3. Writes' = Writes + 1
      BY <1>a, <1>3, <3>1 DEF Writes
    <3>4. inFlight' = Append(inFlight, p) \/ (inFlight' = inFlight /\ Has(ready', "write"))
      BY <1>a, <1>3, <3>1
    <3> QED BY <2>3, <3>2, <3>3, <3>4 DEF BeginsWrite
  <2> QED BY <2>2, <2>3
<1>9. CASE SendTick
  BY <1>8, <1>9, Packets DEF SendTick
<1>10. CASE UpdateOrders
  BY <1>8, <1>10, Packets DEF UpdateOrders, ProgramTyped
<1>11. CASE ConnectCompletes
  <2>1. PICK ok \in BOOLEAN : ready' = Append(ready, Done("connect", ok))
    BY <1>11 DEF ConnectCompletes
  <2> QED BY <1>2, <1>11, <2>1 DEF ConnectCompletes, Ops
<1>12. CASE WriteCompletes
  <2>1. PICK ok \in BOOLEAN : ready' = Append(ready, Done("write", ok))
    BY <1>12 DEF WriteCompletes
  <2>2. Count(ready', "write") = Count(ready, "write") + 1
    BY <1>a, <2>1, WriteQueued DEF Ops
  <2>3. inFlight # <<>> /\ inFlight' = Tail(inFlight) /\ sendBuffers' = sendBuffers
    BY <1>12 DEF WriteCompletes
  <2>4. Len(inFlight') = Len(inFlight) - 1
    BY <1>a, <2>3, HeadTailProperties
  <2>5. Writes' = Writes
    BY <1>b, <2>2, <2>4 DEF Writes
  <2> QED BY <2>3, <2>5 DEF HandsBack
<1>13. CASE ReadCompletes
  <2>1. (server = "registered") \in BOOLEAN
    OBVIOUS
  <2> QED BY <1>2, <1>13, <2>1 DEF ReadCompletes, Ops
<1>14. CASE TimerExpires
  BY <1>2, <1>14 DEF TimerExpires, Ops
<1>15. CASE Reinitialize
  <2>1. inFlight' = <<>> /\ ready' = Append(<<>>, Done("reconnect", TRUE))
    BY <1>15 DEF Reinitialize
  <2>2. <<>> \in Seq(Completion) /\ Len(<<>>) = 0
    BY EmptySeq
  <2>3. Count(<<>>, "write") = 0
    <3>1. ~Has(<<>>, "write")
      BY DEF Has
    <3> QED BY <2>2, <3>1, CountAbsent
  <2>4. Count(ready', "write") = 0
    BY <2>1, <2>2, <2>3, WriteQueued DEF Ops
  <2> QED BY <2>1, <2>2, <2>4 DEF EndsWrites, Writes
<1> QED BY <1>1, <1>4, <1>5, <1>6, <1>7, <1>9, <1>10, <1>11, <1>12, <1>13, <1>14, <1>15
        DEF Next, Step, IoThread, System, ConnectionLost, OrdersChange, vars, program, ops

(* Only the connect handler starts a write beside another one.  The        *)
(* property is of steps, so the theorem rests on what holds before them.   *)
THEOREM OverlapCorrect == Spec => OverlapOnlyAtLogin
<1>1. ASSUME ProgramTyped, ConnectingIsExact, [Next]_vars, Disciplined
      PROVE  Disciplined' \/ (connecting /\ ~connecting' /\ Writes = 1)
  <2>1. Writes \in Nat /\ Writes <= 1 /\ (Writes = 1 => sendBuffers # <<>>)
    BY <1>1, WritesTyped DEF WritesSound, Disciplined
  <2>2. CASE KeepsWrites
    <3>1. sendBuffers # <<>> => sendBuffers' # <<>>
      BY <1>1, <2>2, AppendProperties, EmptySeq DEF KeepsWrites, ProgramTyped
    <3> QED BY <2>1, <2>2, <3>1 DEF KeepsWrites, Disciplined
  <2>3. CASE HandsBack
    BY <2>1, <2>3 DEF HandsBack, Disciplined
  <2>4. CASE EndsWrites
    <3>1. Writes' \in Nat
      BY <1>1, TypeStep, WritesTypedNext DEF WritesSound
    <3>2. Writes' <= 0
      BY <2>1, <2>4 DEF EndsWrites
    <3> QED BY <3>1, <3>2 DEF Disciplined
  <2>5. CASE BeginsWrite
    BY <2>1, <2>5 DEF BeginsWrite, Disciplined
  <2> QED BY <1>1, <2>2, <2>3, <2>4, <2>5, WritesStep
<1> QED BY <1>1, ProgramTypeCorrect, ConnectingCorrect, PTL DEF Spec, OverlapOnlyAtLogin

(* One write, its packet in flight and something in sendBuffers: the front *)
(* of sendBuffers is that packet.  Every step preserves this by itself.    *)
FrontInv ==
  Writes = 1 /\ inFlight # <<>> /\ sendBuffers # <<>> => Head(sendBuffers) = Head(inFlight)

LEMMA FrontStep ==
  ASSUME ProgramTyped, ConnectingIsExact, FrontInv, [Next]_vars PROVE FrontInv'
<1> SUFFICES ASSUME Writes' = 1, inFlight' # <<>>, sendBuffers' # <<>>
             PROVE  Head(sendBuffers') = Head(inFlight')
  BY DEF FrontInv
<1>1. inFlight \in Seq(Packet) /\ sendBuffers \in Seq(Packet)
  BY DEF ProgramTyped
<1>2. /\ Len(inFlight) \in Nat /\ Count(ready, "write") \in Nat
      /\ Len(inFlight) = 0 <=> inFlight = <<>>
  BY WritesTyped DEF WritesSound
<1>3. ProgramTyped'
  BY TypeStep
<1>4. /\ Len(inFlight') \in Nat /\ Count(ready', "write") \in Nat
      /\ Len(inFlight') = 0 <=> inFlight' = <<>>
      /\ Count(ready', "write") = 0 <=> ~Has(ready', "write")
  BY <1>3, WritesTypedNext DEF WritesSound
<1>5. Len(inFlight') = 1 /\ Count(ready', "write") = 0
  <2>1. Len(inFlight') + Count(ready', "write") = 1
    BY DEF Writes
  <2>2. Len(inFlight') # 0
    BY <1>4
  <2>3. \A m, n \in Nat : m + n = 1 /\ m # 0 => m = 1 /\ n = 0
    OBVIOUS
  <2>4. Len(inFlight') \in Nat /\ Count(ready', "write") \in Nat
    BY <1>4
  <2> QED BY <2>1, <2>2, <2>3, <2>4, Zenon
<1>6. CASE KeepsWrites
  <2>1. Head(sendBuffers) = Head(inFlight) /\ inFlight' = inFlight
    <3>1. sendBuffers # <<>>
      BY <1>6 DEF KeepsWrites
    <3> QED BY <1>6, <3>1 DEF KeepsWrites, FrontInv
  <2>2. ASSUME NEW p \in Packet, sendBuffers # <<>>, sendBuffers' = Append(sendBuffers, p)
        PROVE  Head(sendBuffers') = Head(sendBuffers)
    BY <1>1, <2>2, AppendProperties, EmptySeq
  <2> QED BY <1>6, <2>1, <2>2 DEF KeepsWrites
<1>7. CASE HandsBack
  <2>1. inFlight # <<>> /\ inFlight' = Tail(inFlight) /\ Writes = 1
    BY <1>7 DEF HandsBack
  <2>2. Len(inFlight') = Len(inFlight) - 1
    BY <1>1, <2>1, HeadTailProperties
  <2> QED BY <1>2, <1>5, <2>1, <2>2 DEF Writes
<1>8. CASE EndsWrites
  BY <1>8 DEF EndsWrites
<1>9. CASE BeginsWrite
  <2>1. inFlight' = Append(inFlight, Head(sendBuffers'))
    BY <1>4, <1>5, <1>9 DEF BeginsWrite
  <2>2. Head(sendBuffers') \in Packet
    BY <1>3, HeadTailProperties DEF ProgramTyped
  <2>3. Len(inFlight') = Len(inFlight) + 1 /\ inFlight'[Len(inFlight) + 1] = Head(sendBuffers')
    BY <1>1, <2>1, <2>2, AppendProperties
  <2>4. inFlight'[1] = Head(sendBuffers')
    BY <1>2, <1>5, <2>3
  <2> QED BY <2>4
<1> QED BY <1>6, <1>7, <1>8, <1>9, WritesStep

(* handleWrite() pops what was written, as long as the discipline holds.   *)
THEOREM FrontCorrect == Spec => []FrontIsInFlight
<1>1. Init => FrontInv
  BY DEF Init, FrontInv
<1>2. ProgramTyped /\ FrontInv => FrontIsInFlight
  <2> SUFFICES ASSUME ProgramTyped, FrontInv, Disciplined, inFlight # <<>>
               PROVE  Head(sendBuffers) = Head(inFlight)
    BY DEF FrontIsInFlight
  <2>1. Writes = 1
    BY WritesTyped DEF WritesSound, Writes, Disciplined
  <2> QED BY <2>1 DEF Disciplined, FrontInv
<1> QED BY <1>1, <1>2, FrontStep, ProgramTypeCorrect, ConnectingCorrect, PTL DEF Spec

-----------------------------------------------------------------------------
(* The packets under way, and what the session that gets them will have    *)
(* seen.                                                                   *)

Holds(s, id) == \E i \in DOMAIN s : s[i].id = id

(* The packets of sendBuffers behind the one that was written, and all     *)
(* that the connection is still to carry.                                  *)
After(b) == IF b = <<>> THEN <<>> ELSE Tail(b)
Behind   == After(sendBuffers)
Stream   == inFlight \o Behind

(* s[i] is a snapshot that the server will take in: no Login follows it.   *)
Effective(s, i) ==
  i \in DOMAIN s /\ s[i].id = "OpenedOrders" /\ \A j \in DOMAIN s : s[j].id = "Login" => j < i

(* A session whose server is in state sv and has seen the snapshot sn,     *)
(* with the packets s under way, ends up with the snapshot last or none.   *)
Converges(s, sv, sn, last) ==
  /\ \A i, j \in DOMAIN s : s[i].id = "Login" /\ s[j].id = "Login" => i = j
  /\ sv = "registered" => ~Holds(s, "Login")
  /\ sv # "registered" => sn = None
  /\ \A i \in DOMAIN s :
       Effective(s, i) /\ (\A j \in DOMAIN s : j > i => s[j].id # "OpenedOrders")
         => s[i].orders = last
  /\ (\A i \in DOMAIN s : ~Effective(s, i)) => sn \in {None, last}

LEMMA PacketAppend ==
  ASSUME NEW s \in Seq(Packet), NEW p \in Packet
  PROVE  /\ Append(s, p) \in Seq(Packet)
         /\ DOMAIN s = 1..Len(s) /\ Len(s) \in Nat
         /\ DOMAIN Append(s, p) = 1..(Len(s) + 1)
         /\ \A i \in DOMAIN s : i \in DOMAIN Append(s, p) /\ Append(s, p)[i] = s[i] /\ i < Len(s) + 1
         /\ \A i \in DOMAIN Append(s, p) : i \in DOMAIN s \/ i = Len(s) + 1
         /\ Len(s) + 1 \in DOMAIN Append(s, p) /\ Append(s, p)[Len(s) + 1] = p
         /\ \A id : Holds(Append(s, p), id) <=> Holds(s, id) \/ p.id = id
<1> DEFINE a == Append(s, p)
<1>1. /\ a \in Seq(Packet) /\ Len(a) = Len(s) + 1
      /\ \A i \in 1..Len(s) : a[i] = s[i]
      /\ a[Len(s) + 1] = p
  BY AppendProperties
<1>2. DOMAIN s = 1..Len(s) /\ DOMAIN a = 1..(Len(s) + 1) /\ Len(s) \in Nat
  BY <1>1, LenProperties
<1> HIDE DEF a
<1>3. \A i \in DOMAIN s : i \in DOMAIN a /\ a[i] = s[i] /\ i < Len(s) + 1
  BY <1>1, <1>2
<1>4. \A i \in DOMAIN a : i \in DOMAIN s \/ i = Len(s) + 1
  BY <1>2
<1>5. Len(s) + 1 \in DOMAIN a
  BY <1>2
<1>6. \A id : Holds(a, id) <=> Holds(s, id) \/ p.id = id
  BY <1>1, <1>3, <1>4, <1>5 DEF Holds
<1> QED BY <1>1, <1>2, <1>3, <1>4, <1>5, <1>6 DEF a

LEMMA PacketTail ==
  ASSUME NEW s \in Seq(Packet), s # <<>>
  PROVE  /\ Tail(s) \in Seq(Packet) /\ Head(s) \in Packet
         /\ 1 \in DOMAIN s /\ s[1] = Head(s)
         /\ \A i \in DOMAIN s : i \in Int
         /\ \A i \in DOMAIN Tail(s) : i \in Int /\ i + 1 \in DOMAIN s /\ Tail(s)[i] = s[i + 1]
                                      /\ i + 1 # 1 /\ 1 < i + 1
         /\ \A i \in DOMAIN s : i = 1 \/ (i - 1 \in DOMAIN Tail(s) /\ Tail(s)[i - 1] = s[i])
         /\ \A id : Holds(s, id) <=> Holds(Tail(s), id) \/ Head(s).id = id
<1> DEFINE t == Tail(s)
<1>1. /\ t \in Seq(Packet) /\ Head(s) \in Packet /\ Len(t) = Len(s) - 1
      /\ \A i \in 1..Len(t) : t[i] = s[i + 1]
  BY HeadTailProperties
<1>2. DOMAIN s = 1..Len(s) /\ DOMAIN t = 1..Len(t) /\ Len(s) \in Nat \ {0} /\ Head(s) = s[1]
  BY <1>1, LenProperties, EmptySeq
<1> HIDE DEF t
<1>3. \A i \in DOMAIN t : i \in Int /\ i + 1 \in DOMAIN s /\ t[i] = s[i + 1] /\ i + 1 # 1 /\ 1 < i + 1
  BY <1>1, <1>2
<1>4. \A i \in DOMAIN s : i = 1 \/ (i - 1 \in DOMAIN t /\ t[i - 1] = s[i])
  BY <1>1, <1>2
<1>5. 1 \in DOMAIN s /\ \A i \in DOMAIN s : i \in Int
  BY <1>2
<1>6. \A id : Holds(s, id) <=> Holds(t, id) \/ Head(s).id = id
  BY <1>2, <1>3, <1>4, <1>5 DEF Holds
<1> QED BY <1>1, <1>2, <1>3, <1>4, <1>5, <1>6 DEF t

(* send() adds a packet, and remembers it when it is a snapshot.           *)
LEMMA ConvergesAppend ==
  ASSUME NEW s \in Seq(Packet), NEW p \in Packet, p.id # "Login",
         NEW sv, NEW sn, NEW last, Converges(s, sv, sn, last),
         NEW new, new = IF p.id = "OpenedOrders" THEN p.orders ELSE last
  PROVE  Converges(Append(s, p), sv, sn, new)
<1> DEFINE a == Append(s, p)
<1>1. /\ \A i \in DOMAIN s : i \in DOMAIN a /\ a[i] = s[i] /\ i < Len(s) + 1
      /\ \A i \in DOMAIN a : i \in DOMAIN s \/ i = Len(s) + 1
      /\ Len(s) + 1 \in DOMAIN a /\ a[Len(s) + 1] = p
      /\ \A id : Holds(a, id) <=> Holds(s, id) \/ p.id = id
  BY PacketAppend
<1> HIDE DEF a
<1>2. \A i, j \in DOMAIN a : a[i].id = "Login" /\ a[j].id = "Login" => i = j
  BY <1>1 DEF Converges
<1>3. (sv = "registered" => ~Holds(a, "Login")) /\ (sv # "registered" => sn = None)
  BY <1>1 DEF Converges
<1>4. \A i \in DOMAIN s : Effective(a, i) <=> Effective(s, i)
  BY <1>1 DEF Effective
<1>5. ASSUME p.id = "OpenedOrders" PROVE Converges(a, sv, sn, new)
  <2>1. Effective(a, Len(s) + 1)
    BY <1>1, <1>5 DEF Effective
  <2>2. ASSUME NEW i \in DOMAIN a,
               Effective(a, i), \A j \in DOMAIN a : j > i => a[j].id # "OpenedOrders"
        PROVE  a[i].orders = new
    BY <1>1, <1>5, <2>2
  <2> QED BY <1>1, <1>2, <1>3, <2>1, <2>2 DEF Converges
<1>6. ASSUME p.id # "OpenedOrders" PROVE Converges(a, sv, sn, new)
  <2>1. new = last /\ ~Effective(a, Len(s) + 1)
    BY <1>1, <1>6 DEF Effective
  <2>2. ASSUME NEW i \in DOMAIN a,
               Effective(a, i), \A j \in DOMAIN a : j > i => a[j].id # "OpenedOrders"
        PROVE  a[i].orders = new
    <3>1. i \in DOMAIN s /\ Effective(s, i)
      BY <1>1, <1>4, <2>1, <2>2
    <3>2. \A j \in DOMAIN s : j > i => s[j].id # "OpenedOrders"
      BY <1>1, <2>2
    <3> QED BY <1>1, <2>1, <3>1, <3>2 DEF Converges
  <2>3. (\A i \in DOMAIN a : ~Effective(a, i)) => sn \in {None, new}
    BY <1>1, <1>4, <2>1 DEF Converges
  <2> QED BY <1>2, <1>3, <2>2, <2>3 DEF Converges
<1> QED BY <1>5, <1>6 DEF a

(* The server takes in the first packet.                                   *)
LEMMA ConvergesTail ==
  ASSUME NEW s \in Seq(Packet), s # <<>>, NEW sv \in {"temporary", "registered"},
         NEW sn, NEW last, Converges(s, sv, sn, last), NEW sv2, NEW sn2,
         sv2 = IF Head(s).id = "Login" THEN "registered" ELSE sv,
         sn2 = IF Head(s).id = "OpenedOrders" /\ sv = "registered" THEN Head(s).orders ELSE sn
  PROVE  Converges(Tail(s), sv2, sn2, last)
<1> DEFINE t == Tail(s)
<1>1. /\ 1 \in DOMAIN s /\ s[1] = Head(s)
      /\ \A i \in DOMAIN s : i \in Int
      /\ \A i \in DOMAIN t : i \in Int /\ i + 1 \in DOMAIN s /\ t[i] = s[i + 1]
                             /\ i + 1 # 1 /\ 1 < i + 1
      /\ \A i \in DOMAIN s : i = 1 \/ (i - 1 \in DOMAIN t /\ t[i - 1] = s[i])
      /\ \A id : Holds(s, id) <=> Holds(t, id) \/ Head(s).id = id
  BY PacketTail
<1> HIDE DEF t
<1>2. \A i, j \in DOMAIN t : t[i].id = "Login" /\ t[j].id = "Login" => i = j
  <2> SUFFICES ASSUME NEW i \in DOMAIN t, NEW j \in DOMAIN t,
                      t[i].id = "Login", t[j].id = "Login"
               PROVE  i = j
    OBVIOUS
  <2>1. /\ i \in Int /\ j \in Int /\ i + 1 \in DOMAIN s /\ j + 1 \in DOMAIN s
        /\ s[i + 1].id = "Login" /\ s[j + 1].id = "Login"
    BY <1>1, Zenon
  <2>2. i + 1 = j + 1
    BY <2>1, Zenon DEF Converges
  <2> QED BY <2>1, <2>2
<1>3. Head(s).id = "Login" => ~Holds(t, "Login")
  BY <1>1 DEF Converges, Holds
<1>4. sv2 = "registered" => ~Holds(t, "Login")
  BY <1>1, <1>3 DEF Converges
<1>5. sv2 # "registered" => sn2 = None
  BY DEF Converges
<1>6. \A i \in DOMAIN t : Effective(t, i) <=> Effective(s, i + 1)
  <2> SUFFICES ASSUME NEW i \in DOMAIN t PROVE Effective(t, i) <=> Effective(s, i + 1)
    OBVIOUS
  <2>1. i \in Int /\ i + 1 \in DOMAIN s /\ t[i] = s[i + 1] /\ 1 < i + 1
    BY <1>1
  <2>2. ASSUME Effective(t, i), NEW j \in DOMAIN s, s[j].id = "Login" PROVE j < i + 1
    <3>1. CASE j = 1
      BY <2>1, <3>1
    <3>2. CASE j # 1
      <4>1. j - 1 \in DOMAIN t /\ t[j - 1] = s[j] /\ j \in Int
        BY <1>1, <3>2
      <4>2. j - 1 < i
        BY <2>2, <4>1 DEF Effective
      <4> QED BY <2>1, <4>1, <4>2
    <3> QED BY <3>1, <3>2
  <2>3. ASSUME Effective(s, i + 1), NEW j \in DOMAIN t, t[j].id = "Login" PROVE j < i
    <3>1. j \in Int /\ j + 1 \in DOMAIN s /\ s[j + 1].id = "Login"
      BY <1>1, <2>3
    <3>2. j + 1 < i + 1
      BY <2>3, <3>1 DEF Effective
    <3> QED BY <2>1, <3>1, <3>2
  <2> QED BY <2>1, <2>2, <2>3 DEF Effective
<1>7. ASSUME NEW i \in DOMAIN t,
             Effective(t, i), \A j \in DOMAIN t : j > i => t[j].id # "OpenedOrders"
      PROVE  t[i].orders = last
  <2>1. i \in Int /\ i + 1 \in DOMAIN s /\ t[i] = s[i + 1] /\ Effective(s, i + 1)
    BY <1>1, <1>6, <1>7
  <2>2. ASSUME NEW j \in DOMAIN s, j > i + 1 PROVE s[j].id # "OpenedOrders"
    <3>1. j \in Int /\ j # 1
      BY <1>1, <2>1, <2>2
    <3>2. j - 1 \in DOMAIN t /\ t[j - 1] = s[j] /\ j - 1 > i
      BY <1>1, <2>1, <2>2, <3>1
    <3> QED BY <1>7, <3>2
  <2> QED BY <2>1, <2>2 DEF Converges
<1>8. ASSUME \A i \in DOMAIN t : ~Effective(t, i) PROVE sn2 \in {None, last}
  <2>1. \A i \in DOMAIN s : i # 1 => ~Effective(s, i)
    <3> SUFFICES ASSUME NEW i \in DOMAIN s, i # 1 PROVE ~Effective(s, i)
      OBVIOUS
    <3>1. i \in Int /\ i - 1 \in DOMAIN t /\ (i - 1) + 1 = i
      BY <1>1
    <3> QED BY <1>6, <1>8, <3>1
  <2>2. CASE ~Effective(s, 1)
    <3>1. sn \in {None, last}
      BY <2>1, <2>2 DEF Converges
    <3>2. Head(s).id = "OpenedOrders" => sv # "registered"
      BY <1>1, <2>2 DEF Converges, Effective, Holds
    <3> QED BY <3>1, <3>2
  <2>3. CASE Effective(s, 1)
    <3>1. Head(s).id = "OpenedOrders"
      BY <1>1, <2>3 DEF Effective
    <3>2. CASE sv = "registered"
      <4>1. ~Holds(s, "Login")
        BY <3>2 DEF Converges
      <4>2. \A j \in DOMAIN s : s[j].id = "OpenedOrders" => Effective(s, j)
        BY <4>1 DEF Effective, Holds
      <4>3. \A j \in DOMAIN s : j > 1 => s[j].id # "OpenedOrders"
        BY <2>1, <4>2
      <4>4. s[1].orders = last
        BY <1>1, <2>3, <4>3 DEF Converges
      <4> QED BY <1>1, <3>1, <3>2, <4>4
    <3>3. CASE sv # "registered"
      BY <3>3 DEF Converges
    <3> QED BY <3>2, <3>3
  <2> QED BY <2>2, <2>3
<1>9. Converges(t, sv2, sn2, last)
  BY <1>2, <1>4, <1>5, <1>7, <1>8 DEF Converges
<1> QED BY <1>9 DEF t

(* The connect handler appends the Login of a connection on which nothing  *)
(* was sent but what the temporary session ignores.                        *)
LEMMA ConvergesLogin ==
  ASSUME NEW s \in Seq(Packet), ~Holds(s, "Login"), NEW last
  PROVE  Converges(Append(s, Login), "temporary", None, last)
<1> DEFINE a == Append(s, Login)
<1>1. /\ \A i \in DOMAIN s : i \in DOMAIN a /\ a[i] = s[i] /\ i < Len(s) + 1
      /\ \A i \in DOMAIN a : i \in DOMAIN s \/ i = Len(s) + 1
      /\ Len(s) + 1 \in DOMAIN a /\ a[Len(s) + 1] = Login
      /\ Len(s) \in Nat /\ DOMAIN s = 1..Len(s)
  BY PacketAppend, Packets
<1> HIDE DEF a
<1>2. Login.id = "Login" /\ "Login" # "OpenedOrders"
  BY DEF Login
<1>3. \A i, j \in DOMAIN a : a[i].id = "Login" /\ a[j].id = "Login" => i = j
  BY <1>1 DEF Holds
<1>4. \A i \in DOMAIN a : ~Effective(a, i)
  <2> SUFFICES ASSUME NEW i \in DOMAIN a, Effective(a, i) PROVE FALSE
    OBVIOUS
  <2>1. Len(s) + 1 < i
    BY <1>1, <1>2 DEF Effective
  <2>2. i \in 1..Len(s) \/ i = Len(s) + 1
    BY <1>1
  <2> QED BY <1>1, <2>1, <2>2
<1> QED BY <1>3, <1>4 DEF Converges, a

-----------------------------------------------------------------------------
(* How the parts of one connection hang together.                          *)

(* The operating system has reported a connection to the io thread.        *)
Connected(q) == \E i \in DOMAIN q : q[i] = Done("connect", TRUE)

(* An outstanding connect leaves the socket opened and empty; a server     *)
(* has a connected socket; while connecting, a connected socket has its    *)
(* completion queued, and its server has not been sent a Login; only a     *)
(* registered session has seen anything.                                   *)
Wiring ==
  /\ connectOp => inFlight = <<>> /\ socket = "opened" /\ server = "none"
  /\ server # "none" => socket = "connected"
  /\ connecting /\ socket = "connected" => Connected(ready)
  /\ connecting /\ server # "none" => server = "temporary" /\ ~Holds(inFlight, "Login")
  /\ server # "registered" => seen = None

(* A Login is written at once: none waits in sendBuffers.                  *)
WiringInv == ~Holds(Behind, "Login") /\ (ioAlive => Wiring)

LEMMA ConnectedAppend ==
  ASSUME NEW q \in Seq(Completion), NEW op \in Ops, NEW ok \in BOOLEAN,
         Connected(q) \/ (op = "connect" /\ ok)
  PROVE  Connected(Append(q, Done(op, ok)))
<1> DEFINE d == Done(op, ok)
           a == Append(q, d)
<1>1. d \in Completion
  BY Completions
<1>2. /\ \A i \in 1..Len(q) : a[i] = q[i]
      /\ a[Len(q) + 1] = d
      /\ DOMAIN a = 1..(Len(q) + 1) /\ DOMAIN q = 1..Len(q) /\ Len(q) \in Nat
  BY <1>1, AppendProperties, LenProperties
<1>3. op = "connect" /\ ok => d = Done("connect", TRUE)
  OBVIOUS
<1> HIDE DEF a, d
<1>4. Len(q) + 1 \in DOMAIN a /\ \A i \in DOMAIN q : i \in DOMAIN a /\ a[i] = q[i]
  BY <1>2
<1>5. Connected(a)
  BY <1>2, <1>3, <1>4 DEF Connected
<1> QED BY <1>5 DEF a, d

LEMMA ConnectedTail ==
  ASSUME NEW q \in Seq(Completion), q # <<>>, Connected(q)
  PROVE  /\ Head(q).op # "connect" => Connected(Tail(q))
         /\ Head(q).op = "connect" /\ AtMostOne(q, "connect") => Head(q).ok = TRUE
<1>1. PICK i \in DOMAIN q : q[i] = Done("connect", TRUE)
  BY DEF Connected
<1>2. q[i].op = "connect" /\ q[i].ok = TRUE
  BY <1>1 DEF Done
<1>3. /\ DOMAIN q = 1..Len(q) /\ DOMAIN Tail(q) = 1..Len(Tail(q))
      /\ Len(Tail(q)) = Len(q) - 1 /\ Len(q) \in Nat \ {0} /\ Head(q) = q[1]
      /\ \A j \in 1..Len(Tail(q)) : Tail(q)[j] = q[j + 1]
  BY HeadTailProperties, LenProperties, EmptySeq
<1>4. ASSUME Head(q).op # "connect" PROVE Connected(Tail(q))
  <2>1. i # 1
    BY <1>2, <1>3, <1>4
  <2>2. i - 1 \in 1..Len(Tail(q)) /\ (i - 1) + 1 = i
    BY <1>3, <2>1
  <2> QED BY <1>1, <1>3, <2>2 DEF Connected
<1>5. ASSUME Head(q).op = "connect", AtMostOne(q, "connect") PROVE Head(q).ok = TRUE
  <2>1. 1 \in DOMAIN q
    BY <1>3
  <2>2. i = 1
    BY <1>2, <1>3, <1>5, <2>1 DEF AtMostOne
  <2> QED BY <1>2, <1>3, <2>2
<1> QED BY <1>4, <1>5

(* What waits in sendBuffers when a packet is added, and when the first is *)
(* popped and the next is written.                                         *)
LEMMA AfterAppend ==
  ASSUME NEW b \in Seq(Packet), NEW p \in Packet
  PROVE  After(Append(b, p)) = IF b = <<>> THEN <<>> ELSE Append(After(b), p)
<1>1. Append(b, p) # <<>>
  <2>1. Len(Append(b, p)) = Len(b) + 1 /\ Len(b) \in Nat /\ Len(<<>>) = 0
    BY AppendProperties, LenProperties, EmptySeq
  <2> QED BY <2>1
<1> QED BY <1>1, HeadTailAppend DEF After

LEMMA AfterTail ==
  ASSUME NEW b \in Seq(Packet), Len(b) > 1
  PROVE  /\ After(b) \in Seq(Packet) /\ After(b) # <<>>
         /\ Head(After(b)) = b[2] /\ b[2] \in Packet
         /\ After(Tail(b)) = Tail(After(b))
<1>1. Len(b) \in Nat /\ Len(<<>>) = 0
  BY LenProperties, EmptySeq
<1>2. b # <<>>
  BY <1>1
<1>3. /\ Tail(b) \in Seq(Packet) /\ Len(Tail(b)) = Len(b) - 1
      /\ \A i \in 1..Len(Tail(b)) : Tail(b)[i] = b[i + 1]
  BY <1>2, HeadTailProperties
<1>4. 1 \in 1..Len(Tail(b)) /\ 1 + 1 = 2 /\ Len(Tail(b)) # 0
  BY <1>1, <1>3
<1>5. Tail(b) # <<>> /\ Tail(b)[1] = b[2]
  BY <1>1, <1>3, <1>4
<1>6. Head(Tail(b)) = b[2] /\ b[2] \in Packet
  BY <1>3, <1>5, HeadTailProperties
<1> QED BY <1>2, <1>3, <1>5, <1>6 DEF After

LEMMA AfterTyped == \A b \in Seq(Packet) : After(b) \in Seq(Packet)
BY HeadTailProperties, EmptySeq DEF After

LEMMA SentIsNoLogin ==
  /\ Tick \in Packet /\ Tick.id # "Login"
  /\ \A o \in Orders : OpenedOrders(o) \in Packet /\ OpenedOrders(o).id # "Login"
BY Packets DEF Tick, OpenedOrders

LEMMA HoldsNothing == \A id : ~Holds(<<>>, id)
BY DEF Holds

(* sendBuffers gets no Login but as its only packet.                       *)
LEMMA BehindStep ==
  ASSUME ProgramTyped, ~Holds(Behind, "Login"), [Next]_vars
  PROVE  ~Holds(Behind', "Login")
<1>a. sendBuffers \in Seq(Packet) /\ Len(sendBuffers) \in Nat
  BY LenProperties DEF ProgramTyped
<1>1. CASE sendBuffers' = sendBuffers
  BY <1>1 DEF Behind
<1>2. CASE sendBuffers' = <<>>
  BY <1>2, HoldsNothing DEF Behind, After
<1>3. CASE sendBuffers' = <<Login>>
  <2>1. After(<<Login>>) = <<>>
    BY DEF After
  <2> QED BY <1>3, <2>1, HoldsNothing DEF Behind
<1>4. ASSUME NEW p \in Packet, p.id # "Login", sendBuffers' = Append(sendBuffers, p)
      PROVE  ~Holds(Behind', "Login")
  <2>1. Behind' = IF sendBuffers = <<>> THEN <<>> ELSE Append(Behind, p)
    BY <1>a, <1>4, AfterAppend DEF Behind
  <2>2. Behind \in Seq(Packet)
    BY <1>a, AfterTyped DEF Behind
  <2>3. ~Holds(Append(Behind, p), "Login")
    BY <1>4, <2>2, PacketAppend
  <2> QED BY <2>1, <2>3, HoldsNothing
<1>5. CASE PopAndWrite(sendBuffers[2])
  <2>1. Behind # <<>> /\ Behind \in Seq(Packet) /\ Behind' = Tail(Behind)
    BY <1>a, <1>5, AfterTail DEF PopAndWrite, Behind
  <2> QED BY <2>1, PacketTail
<1>6. CASE RunReconnect \/ HandleRead \/ WriteFailed \/ System \/ TimerExpires
  BY <1>1, <1>6 DEF RunReconnect, HandleRead, CloseAndPostReconnect, WriteFailed,
                    System, ConnectCompletes, WriteCompletes, ReadCompletes, TimerExpires
<1>7. CASE HandleConnect
  BY <1>1, <1>3, <1>7 DEF HandleConnect, LogIn, OptionThrows, ConnectFailed
<1>8. CASE PopLast \/ Reinitialize
  BY <1>2, <1>8 DEF PopLast, Reinitialize
<1>9. CASE SendTick
  BY <1>4, <1>9, SentIsNoLogin DEF SendTick, Send
<1>10. CASE UpdateOrders
  BY <1>4, <1>10, SentIsNoLogin DEF UpdateOrders, Send, ProgramTyped
<1> QED BY <1>1, <1>5, <1>6, <1>7, <1>8, <1>9, <1>10
        DEF Next, Step, IoThread, HandleWrite, ConnectionLost, OrdersChange, vars, program

LEMMA WiringStep ==
  ASSUME ProgramTyped, ConnectingIsExact, WiringInv, [Next]_vars, ioAlive'
  PROVE  Wiring'
<1>a. /\ ready \in Seq(Completion) /\ inFlight \in Seq(Packet) /\ sendBuffers \in Seq(Packet)
      /\ connecting \in BOOLEAN /\ server \in {"none", "temporary", "registered"}
  BY DEF ProgramTyped
<1>b. ioAlive => Wiring
  BY DEF WiringInv
<1>c. ASSUME NEW op, op # "connect", Running(op)
      PROVE  Rest \in Seq(Completion) /\ (Connected(ready) => Connected(Rest)) /\ ioAlive
  BY <1>a, <1>c, ConnectedTail, RestTyped DEF Running, Rest
<1>d. ASSUME NEW q \in Seq(Completion), NEW op \in Ops, NEW ok \in BOOLEAN
      PROVE  Connected(q) => Connected(Append(q, Done(op, ok)))
  BY <1>d, ConnectedAppend
<1>1. ASSUME ioAlive, UNCHANGED <<connecting, socket, connectOp, inFlight, peer>>,
             Connected(ready) => Connected(ready')
      PROVE  Wiring'
  BY <1>b, <1>1 DEF Wiring, peer
<1>2. ASSUME NEW q, NEW state, NEW op, DropSocket(q, state, op),
             state # "connected", op => state = "opened"
      PROVE  Wiring'
  BY <1>2 DEF DropSocket, Wiring
<1>3. ASSUME NEW q \in Seq(Completion), Connected(ready) => Connected(q), ioAlive,
             NEW b \in Packet, b.id # "Login", DoWrite(q, b), UNCHANGED <<connecting, peer>>
      PROVE  Wiring'
  <2>1. CASE socket = "connected"
    <3>1. ~connectOp /\ inFlight' = Append(inFlight, b) /\ ready' = q
          /\ UNCHANGED <<socket, connectOp>>
      BY <1>b, <1>3, <2>1 DEF DoWrite, Wiring
    <3>2. Holds(inFlight', "Login") <=> Holds(inFlight, "Login")
      BY <1>a, <1>3, <3>1, PacketAppend
    <3> QED BY <1>b, <1>3, <3>1, <3>2 DEF Wiring, peer
  <2>2. CASE socket # "connected"
    <3>1. UNCHANGED <<inFlight, socket, connectOp>>
      BY <1>3, <2>2 DEF DoWrite
    <3> QED BY <1>b, <1>3, <2>2, <3>1 DEF Wiring, peer
  <2> QED BY <2>1, <2>2
<1>4. CASE RunReconnect
  <2>1. PICK op \in {"reconnect", "timer"} : Running(op)
    BY <1>4 DEF RunReconnect
  <2>2. CASE StartConnect(Rest)
    BY <1>2, <2>2 DEF StartConnect
  <2>3. CASE ready' = Rest /\ UNCHANGED <<connecting, socket, connectOp, inFlight, peer>>
    BY <1>1, <1>c, <2>1, <2>3
  <2> QED BY <1>4, <2>2, <2>3 DEF RunReconnect, Reconnect
<1>5. CASE HandleConnect
  <2>1. ~connectOp
    BY <1>5, <1>a, QueueTail DEF HandleConnect, ConnectDone, Running, ConnectingIsExact
  <2>2. ioAlive /\ connecting' = FALSE /\ UNCHANGED <<socket, connectOp, peer>>
    BY <1>5 DEF HandleConnect, ConnectDone, Running, LogIn, OptionThrows, ConnectFailed
  <2> QED BY <1>b, <2>1, <2>2 DEF Wiring, peer
<1>6. CASE HandleWrite
  <2>1. Running("write")
    BY <1>6 DEF HandleWrite, WriteFailed, PopAndWrite, PopLast, WriteDone
  <2>2. CASE WriteFailed
    BY <1>2, <2>2 DEF WriteFailed, CloseAndPostReconnect
  <2>3. CASE PopAndWrite(sendBuffers[2])
    <3>1. sendBuffers[2] \in Packet /\ sendBuffers[2].id # "Login"
      <4>1. /\ Behind \in Seq(Packet) /\ Behind # <<>>
            /\ Head(Behind) = sendBuffers[2] /\ sendBuffers[2] \in Packet
        BY <1>a, <2>3, AfterTail DEF PopAndWrite, Behind
      <4> QED BY <4>1, PacketTail DEF WiringInv
    <3> QED BY <1>3, <1>c, <2>1, <2>3, <3>1 DEF PopAndWrite
  <2>4. CASE PopLast
    BY <1>1, <1>c, <2>1, <2>4 DEF PopLast
  <2> QED BY <1>6, <2>2, <2>3, <2>4 DEF HandleWrite
<1>7. CASE HandleRead
  <2>1. Running("read")
    BY <1>7 DEF HandleRead
  <2>2. CASE CloseAndPostReconnect(Rest)
    BY <1>2, <2>2 DEF CloseAndPostReconnect
  <2>3. CASE ready' = Rest /\ UNCHANGED <<connecting, socket, connectOp, inFlight, peer>>
    BY <1>1, <1>c, <2>1, <2>3
  <2>4. CASE /\ ready' = Append(Rest, Done("read", FALSE))
             /\ UNCHANGED <<connecting, socket, connectOp, inFlight, peer>>
    <3>1. Rest \in Seq(Completion) /\ (Connected(ready) => Connected(Rest)) /\ ioAlive
      BY <1>c, <2>1
    <3>2. Connected(Rest) => Connected(ready')
      BY <1>d, <2>4, <3>1 DEF Ops
    <3> QED BY <1>1, <2>4, <3>1, <3>2
  <2> QED BY <1>7, <2>2, <2>3, <2>4 DEF HandleRead
<1>8. ASSUME NEW p \in Packet, p.id # "Login", Send(p) PROVE Wiring'
  <2>1. ioAlive /\ UNCHANGED <<connecting, peer>>
    BY <1>8 DEF Send, Sending
  <2>2. CASE sendBuffers = <<>>
    BY <1>a, <1>3, <1>8, <2>1, <2>2 DEF Send
  <2>3. CASE sendBuffers # <<>>
    BY <1>1, <1>8, <2>1, <2>3 DEF Send, ops
  <2> QED BY <2>2, <2>3
<1>9. CASE SendTick
  BY <1>8, <1>9, SentIsNoLogin DEF SendTick
<1>10. CASE UpdateOrders
  BY <1>8, <1>10, SentIsNoLogin DEF UpdateOrders, ProgramTyped
<1>11. CASE ConnectCompletes
  <2>1. /\ inFlight = <<>> /\ socket = "opened" /\ server = "none" /\ seen = None
        /\ connectOp' = FALSE /\ UNCHANGED <<connecting, inFlight, seen>>
    BY <1>11, <1>b DEF ConnectCompletes, Wiring
  <2>2. CASE /\ socket' = "connected" /\ server' = "temporary"
             /\ ready' = Append(ready, Done("connect", TRUE))
    <3>1. Connected(ready')
      BY <1>a, <2>2, ConnectedAppend DEF Ops
    <3> QED BY <2>1, <2>2, <3>1, HoldsNothing DEF Wiring
  <2>3. CASE UNCHANGED <<socket, server>>
    BY <2>1, <2>3 DEF Wiring
  <2> QED BY <1>11, <2>2, <2>3 DEF ConnectCompletes
<1>12. CASE WriteCompletes
  <2>1. /\ ioAlive /\ inFlight # <<>> /\ inFlight' = Tail(inFlight)
        /\ UNCHANGED <<connecting, socket, connectOp>>
    BY <1>12 DEF WriteCompletes
  <2>2. ~connectOp
    BY <1>b, <2>1 DEF Wiring
  <2>3. Connected(ready) => Connected(ready')
    <3>1. PICK ok \in BOOLEAN : ready' = Append(ready, Done("write", ok))
      BY <1>12 DEF WriteCompletes
    <3> QED BY <1>a, <1>d, <3>1 DEF Ops
  <2>4. Holds(inFlight, "Login") <=> Holds(inFlight', "Login") \/ Head(inFlight).id = "Login"
    BY <1>a, <2>1, PacketTail
  <2>5. CASE server = "none"
    BY <1>12, <1>b, <2>1, <2>2, <2>3, <2>5 DEF WriteCompletes, Wiring, peer
  <2>6. CASE server # "none"
    <3>1. Receive(Head(inFlight))
      BY <1>12, <2>6 DEF WriteCompletes
    <3>2. /\ server' = IF Head(inFlight).id = "Login" THEN "registered" ELSE server
          /\ server # "registered" => seen' = seen
      BY <3>1 DEF Receive
    <3>3. server' # "registered" => seen' = None
      BY <1>b, <2>1, <3>2 DEF Wiring
    <3>4. connecting' => server' = "temporary" /\ ~Holds(inFlight', "Login")
      BY <1>b, <2>1, <2>4, <2>6, <3>2 DEF Wiring
    <3>5. socket' = "connected"
      BY <1>b, <2>1, <2>6 DEF Wiring
    <3> QED BY <1>b, <2>1, <2>2, <2>3, <3>3, <3>4, <3>5 DEF Wiring
  <2> QED BY <2>5, <2>6
<1>13. CASE ReadCompletes
  <2>1. (server = "registered") \in BOOLEAN
    OBVIOUS
  <2>2. Connected(ready) => Connected(ready')
    BY <1>13, <1>a, <1>d, <2>1 DEF ReadCompletes, Ops
  <2> QED BY <1>1, <1>13, <2>2 DEF ReadCompletes
<1>14. CASE TimerExpires
  <2>1. Connected(ready) => Connected(ready')
    BY <1>14, <1>a, <1>d DEF TimerExpires, Ops
  <2> QED BY <1>1, <1>14, <2>1 DEF TimerExpires
<1>15. CASE ConnectionLost
  BY <1>b, <1>15 DEF ConnectionLost, ops, Wiring
<1>16. CASE Reinitialize
  BY <1>16 DEF Reinitialize, Wiring
<1>17. CASE UNCHANGED <<connecting, ops, ioAlive, peer>>
  BY <1>1, <1>17 DEF ops
<1> QED BY <1>4, <1>5, <1>6, <1>7, <1>9, <1>10, <1>11, <1>12, <1>13, <1>14, <1>15, <1>16, <1>17
        DEF Next, Step, IoThread, System, OrdersChange, vars, program

(* The wiring holds in every reachable state.                              *)
LEMMA WiringCorrect == Spec => []WiringInv
<1>1. Init => WiringInv
  BY HoldsNothing DEF Init, WiringInv, Wiring, Behind, After
<1>2. ProgramTyped /\ ConnectingIsExact /\ WiringInv /\ [Next]_vars => WiringInv'
  BY BehindStep, WiringStep DEF WiringInv
<1> QED BY <1>1, <1>2, ProgramTypeCorrect, ConnectingCorrect, PTL DEF Spec

-----------------------------------------------------------------------------
(* The snapshots of a session.                                             *)

(* A connection that the connect handler has logged in on.                 *)
Up == ioAlive /\ ~connecting /\ server # "none"

(* While something is in sendBuffers a write is under way.                 *)
Pumped == sendBuffers # <<>> => inFlight # <<>> \/ Has(ready, "write")

SessionInv == Up => Converges(Stream, server, seen, lastSent) /\ Pumped

LEMMA StreamTyped == ProgramTyped => Behind \in Seq(Packet) /\ Stream \in Seq(Packet)
BY AfterTyped, ConcatProperties DEF ProgramTyped, Behind, Stream

(* Taking an element from the front of the first of two sequences, adding  *)
(* one at the end of the second, and moving one from the second to the     *)
(* first.                                                                  *)
LEMMA ConcatTail ==
  ASSUME NEW s \in Seq(Packet), s # <<>>, NEW t \in Seq(Packet)
  PROVE  s \o t # <<>> /\ Head(s \o t) = Head(s) /\ Tail(s \o t) = Tail(s) \o t
<1>1. Head(s) \in Packet /\ Tail(s) \in Seq(Packet) /\ Len(Tail(s)) = Len(s) - 1
      /\ \A i \in 1..Len(Tail(s)) : Tail(s)[i] = s[i + 1]
  BY HeadTailProperties
<1>2. Len(s) \in Nat \ {0} /\ Len(t) \in Nat /\ Len(<<>>) = 0
  BY LenProperties, EmptySeq
<1>3. /\ s \o t \in Seq(Packet) /\ Len(s \o t) = Len(s) + Len(t)
      /\ \A i \in 1..(Len(s) + Len(t)) :
           (s \o t)[i] = IF i <= Len(s) THEN s[i] ELSE t[i - Len(s)]
  BY ConcatProperties
<1> DEFINE u == s \o t
           v == Tail(s) \o t
<1>4. /\ v \in Seq(Packet) /\ Len(v) = Len(Tail(s)) + Len(t)
      /\ \A i \in 1..(Len(Tail(s)) + Len(t)) :
           v[i] = IF i <= Len(Tail(s)) THEN Tail(s)[i] ELSE t[i - Len(Tail(s))]
  BY <1>1, ConcatProperties
<1>5. u # <<>>
  BY <1>2, <1>3
<1>6. /\ Tail(u) \in Seq(Packet) /\ Len(Tail(u)) = Len(u) - 1
      /\ \A i \in 1..Len(Tail(u)) : Tail(u)[i] = u[i + 1]
  BY <1>3, <1>5, HeadTailProperties
<1>7. Head(u) = Head(s)
  <2>1. u[1] = s[1]
    BY <1>2, <1>3
  <2> QED BY <2>1
<1> HIDE DEF u, v
<1>8. Len(Tail(u)) = Len(v)
  BY <1>1, <1>2, <1>3, <1>4, <1>6 DEF u
<1>9. ASSUME NEW i \in 1..Len(Tail(u)) PROVE Tail(u)[i] = v[i]
  <2>1. i \in 1..(Len(Tail(s)) + Len(t)) /\ i + 1 \in 1..(Len(s) + Len(t)) /\ i \in Nat
    BY <1>1, <1>2, <1>3, <1>6 DEF u
  <2>2. CASE i <= Len(Tail(s))
    <3>1. v[i] = Tail(s)[i] /\ Tail(s)[i] = s[i + 1]
      BY <1>1, <1>2, <1>4, <2>1, <2>2
    <3>2. u[i + 1] = s[i + 1]
      BY <1>1, <1>2, <1>3, <2>1, <2>2 DEF u
    <3> QED BY <1>6, <3>1, <3>2
  <2>3. CASE ~(i <= Len(Tail(s)))
    <3>1. v[i] = t[i - Len(Tail(s))]
      BY <1>4, <2>1, <2>3
    <3>2. u[i + 1] = t[(i + 1) - Len(s)] /\ (i + 1) - Len(s) = i - Len(Tail(s))
      BY <1>1, <1>2, <1>3, <2>1, <2>3 DEF u
    <3> QED BY <1>6, <3>1, <3>2
  <2> QED BY <2>2, <2>3
<1>10. Tail(u) = v
  BY <1>4, <1>6, <1>8, <1>9, SeqEqual
<1> QED BY <1>5, <1>7, <1>10 DEF u, v

LEMMA ConcatAppend ==
  ASSUME NEW s \in Seq(Packet), NEW t \in Seq(Packet), NEW p \in Packet
  PROVE  s \o Append(t, p) = Append(s \o t, p)
<1>1. <<p>> \in Seq(Packet)
  <2>1. <<p>> = Append(<<>>, p) /\ <<>> \in Seq(Packet)
    BY EmptySeq
  <2> QED BY <2>1, AppendProperties
<1>2. s \o t \in Seq(Packet)
  BY ConcatProperties
<1>3. Append(t, p) = t \o <<p>> /\ Append(s \o t, p) = (s \o t) \o <<p>>
  BY <1>2, AppendIsConcat
<1> QED BY <1>1, <1>3, ConcatAssociative

LEMMA ConcatMove ==
  ASSUME NEW s \in Seq(Packet), NEW t \in Seq(Packet), t # <<>>
  PROVE  Append(s, Head(t)) \o Tail(t) = s \o t
<1>1. Head(t) \in Packet /\ Tail(t) \in Seq(Packet)
  BY HeadTailProperties
<1>2. <<Head(t)>> \in Seq(Packet)
  <2>1. <<Head(t)>> = Append(<<>>, Head(t)) /\ <<>> \in Seq(Packet)
    BY EmptySeq
  <2> QED BY <1>1, <2>1, AppendProperties
<1>3. Append(s, Head(t)) = s \o <<Head(t)>>
  BY <1>1, AppendIsConcat
<1>4. (s \o <<Head(t)>>) \o Tail(t) = s \o (<<Head(t)>> \o Tail(t))
  BY <1>1, <1>2, ConcatAssociative
<1>5. <<Head(t)>> \o Tail(t) = t
  <2> DEFINE h == <<Head(t)>>
             u == h \o Tail(t)
  <2>1. Len(h) = 1 /\ h[1] = Head(t) /\ h \in Seq(Packet)
    BY <1>2
  <2>2. /\ Len(Tail(t)) = Len(t) - 1 /\ Head(t) = t[1] /\ Len(t) \in Nat \ {0}
        /\ \A i \in 1..Len(Tail(t)) : Tail(t)[i] = t[i + 1]
    BY HeadTailProperties, EmptySeq
  <2> HIDE DEF h
  <2>3. /\ u \in Seq(Packet) /\ Len(u) = Len(h) + Len(Tail(t))
        /\ \A i \in 1..(Len(h) + Len(Tail(t))) :
             u[i] = IF i <= Len(h) THEN h[i] ELSE Tail(t)[i - Len(h)]
    BY <1>1, <2>1, ConcatProperties
  <2> HIDE DEF u
  <2>4. Len(u) = Len(t)
    BY <2>1, <2>2, <2>3
  <2>5. ASSUME NEW i \in 1..Len(u) PROVE u[i] = t[i]
    <3>1. i \in 1..Len(t) /\ i \in 1..(Len(h) + Len(Tail(t))) /\ i \in Nat
      BY <2>2, <2>3, <2>4
    <3>2. CASE i = 1
      BY <2>1, <2>2, <2>3, <3>1, <3>2
    <3>3. CASE i # 1
      <4>1. ~(i <= 1) /\ i - 1 \in 1..Len(Tail(t)) /\ (i - 1) + 1 = i
        BY <2>2, <3>1, <3>3
      <4>2. u[i] = Tail(t)[i - 1]
        BY <2>1, <2>3, <3>1, <4>1
      <4> QED BY <2>2, <4>1, <4>2
    <3> QED BY <3>2, <3>3
  <2>6. u = t
    BY <2>3, <2>4, <2>5, SeqEqual
  <2> QED BY <2>6 DEF u, h
<1> QED BY <1>3, <1>4, <1>5

LEMMA AfterLast == \A b \in Seq(Packet) : Len(b) <= 1 => After(b) = <<>>
<1> SUFFICES ASSUME NEW b \in Seq(Packet), Len(b) <= 1, b # <<>> PROVE Tail(b) = <<>>
  BY DEF After
<1>1. Len(b) = 1
  <2>1. Len(b) \in Nat \ {0}
    BY EmptySeq
  <2>2. \A n \in Nat \ {0} : n <= 1 => n = 1
    OBVIOUS
  <2> QED BY <2>1, <2>2, Zenon
<1>2. Tail(b) \in Seq(Packet) /\ Len(Tail(b)) = Len(b) - 1
  BY HeadTailProperties
<1>3. Len(Tail(b)) = 0
  BY <1>1, <1>2
<1> QED BY <1>2, <1>3, EmptySeq

LEMMA SessionStep ==
  ASSUME ProgramTyped, ConnectingIsExact, WiringInv, SessionInv, [Next]_vars, Up'
  PROVE  Converges(Stream, server, seen, lastSent)' /\ Pumped'
<1>a. /\ ready \in Seq(Completion) /\ inFlight \in Seq(Packet) /\ sendBuffers \in Seq(Packet)
      /\ connecting \in BOOLEAN /\ server \in {"none", "temporary", "registered"}
  BY DEF ProgramTyped
<1>b. ioAlive' /\ ~connecting' /\ server' # "none"
  BY DEF Up
<1>c. ioAlive => Wiring
  BY DEF WiringInv
<1>d. Behind \in Seq(Packet) /\ Stream \in Seq(Packet)
  BY StreamTyped
<1>1. ASSUME ioAlive, UNCHANGED <<connecting, inFlight, sendBuffers, server, seen, lastSent>>,
             Has(ready, "write") => Has(ready', "write")
      PROVE  Converges(Stream, server, seen, lastSent)' /\ Pumped'
  <2>1. Up
    BY <1>b, <1>1 DEF Up
  <2>2. Stream' = Stream
    BY <1>1 DEF Stream, Behind
  <2>3. Converges(Stream, server, seen, lastSent) /\ Pumped
    BY <2>1 DEF SessionInv
  <2> QED BY <1>1, <2>2, <2>3 DEF Pumped
<1>e. ASSUME NEW op, op # "write", Running(op)
      PROVE  Rest \in Seq(Completion) /\ (Has(ready, "write") => Has(Rest, "write")) /\ ioAlive
  BY <1>a, <1>e, QueueTail DEF Running, Rest
<1>f. ASSUME NEW q \in Seq(Completion), NEW op \in Ops, NEW ok \in BOOLEAN
      PROVE  /\ Has(q, "write") => Has(Append(q, Done(op, ok)), "write")
             /\ op = "write" => Has(Append(q, Done(op, ok)), "write")
  <2>1. Done(op, ok) \in Completion /\ Done(op, ok).op = op
    BY DEF Done, Completion
  <2> QED BY <2>1, QueueAppend
<1>2. CASE RunReconnect
  <2>1. connecting' = TRUE
    BY <1>2, <1>a DEF RunReconnect, Reconnect, StartConnect
  <2> QED BY <1>b, <2>1
<1>3. CASE HandleConnect
  <2>1. /\ ioAlive /\ ready # <<>> /\ Head(ready).op = "connect"
        /\ UNCHANGED <<server, seen, lastSent>>
    BY <1>3 DEF HandleConnect, ConnectDone, Running, peer
  <2>2. connecting /\ AtMostOne(ready, "connect")
    BY <1>a, <2>1, QueueTail DEF ConnectingIsExact
  <2>3. /\ server = "temporary" /\ ~Holds(inFlight, "Login") /\ seen = None
        /\ socket = "connected" /\ Connected(ready)
    BY <1>b, <1>c, <2>1, <2>2 DEF Wiring
  <2>4. Head(ready).ok = TRUE
    BY <1>a, <2>1, <2>2, <2>3, ConnectedTail
  <2>5. inFlight' = Append(inFlight, Login) /\ sendBuffers' = <<Login>>
    BY <1>3, <2>3, <2>4 DEF HandleConnect, ConnectOk, OptionThrows, LogIn
  <2>6. Append(inFlight, Login) \in Seq(Packet) /\ Append(inFlight, Login) # <<>>
    BY <1>a, Packets, AppendProperties
  <2>7. Stream' = Append(inFlight, Login)
    <3>1. After(<<Login>>) = <<>>
      BY DEF After
    <3>2. Stream' = Append(inFlight, Login) \o <<>>
      BY <2>5, <3>1 DEF Stream, Behind
    <3> QED BY <2>6, <3>2, ConcatEmptySeq
  <2>8. Converges(Append(inFlight, Login), "temporary", None, lastSent')
    BY <1>a, <2>3, ConvergesLogin
  <2> QED BY <2>1, <2>3, <2>5, <2>6, <2>7, <2>8 DEF Pumped
<1>4. CASE HandleWrite
  <2>1. Running("write") /\ UNCHANGED lastSent
    BY <1>4 DEF HandleWrite, WriteFailed, PopAndWrite, PopLast, WriteDone
  <2>2. CASE WriteFailed
    BY <1>b, <2>2 DEF WriteFailed, CloseAndPostReconnect, DropSocket
  <2>3. CASE PopAndWrite(sendBuffers[2])
    <3>1. ioAlive /\ UNCHANGED <<connecting, server, seen, ioAlive>>
      BY <2>1, <2>3 DEF PopAndWrite, Running, peer
    <3>2. Up
      BY <1>b, <3>1 DEF Up
    <3>3. /\ Behind # <<>> /\ Head(Behind) = sendBuffers[2] /\ sendBuffers[2] \in Packet
          /\ Behind' = Tail(Behind)
      BY <1>a, <2>3, AfterTail DEF PopAndWrite, Behind
    <3>4. inFlight' = Append(inFlight, Head(Behind))
      BY <1>c, <2>3, <3>2, <3>3 DEF PopAndWrite, DoWrite, Up, Wiring
    <3>5. Stream' = Stream
      BY <1>a, <1>d, <3>3, <3>4, ConcatMove DEF Stream
    <3>6. inFlight' # <<>>
      BY <1>a, <3>3, <3>4, AppendProperties
    <3>7. Converges(Stream, server, seen, lastSent)
      BY <3>2 DEF SessionInv
    <3> QED BY <2>1, <3>1, <3>5, <3>6, <3>7 DEF Pumped
  <2>4. CASE PopLast
    <3>1. ioAlive /\ UNCHANGED <<connecting, server, seen, inFlight>> /\ sendBuffers' = <<>>
      BY <2>1, <2>4 DEF PopLast, Running, peer
    <3>2. Up
      BY <1>b, <3>1 DEF Up
    <3>3. Behind = <<>> /\ Behind' = <<>>
      BY <1>a, <2>4, <3>1, AfterLast DEF PopLast, Behind, After
    <3>4. Stream' = Stream
      BY <3>1, <3>3 DEF Stream
    <3>5. Converges(Stream, server, seen, lastSent)
      BY <3>2 DEF SessionInv
    <3> QED BY <2>1, <3>1, <3>4, <3>5 DEF Pumped
  <2> QED BY <1>4, <2>2, <2>3, <2>4 DEF HandleWrite
<1>5. CASE HandleRead
  <2>1. Running("read") /\ UNCHANGED lastSent
    BY <1>5 DEF HandleRead
  <2>2. CASE CloseAndPostReconnect(Rest)
    BY <1>b, <2>2 DEF CloseAndPostReconnect, DropSocket
  <2>3. CASE ready' = Rest /\ UNCHANGED <<connecting, inFlight, sendBuffers, peer>>
    BY <1>1, <1>e, <2>1, <2>3 DEF peer
  <2>4. CASE /\ ready' = Append(Rest, Done("read", FALSE))
             /\ UNCHANGED <<connecting, inFlight, sendBuffers, peer>>
    <3>1. Rest \in Seq(Completion) /\ (Has(ready, "write") => Has(Rest, "write")) /\ ioAlive
      BY <1>e, <2>1
    <3>2. Has(Rest, "write") => Has(ready', "write")
      BY <1>f, <2>4, <3>1 DEF Ops
    <3> QED BY <1>1, <2>1, <2>4, <3>1, <3>2 DEF peer
  <2> QED BY <1>5, <2>2, <2>3, <2>4 DEF HandleRead
<1>6. ASSUME NEW p \in Packet, p.id # "Login", Send(p)
      PROVE  Converges(Stream, server, seen, lastSent)' /\ Pumped'
  <2>1. /\ ioAlive /\ UNCHANGED <<connecting, server, seen>>
        /\ sendBuffers' = Append(sendBuffers, p)
        /\ lastSent' = IF p.id = "OpenedOrders" THEN p.orders ELSE lastSent
    BY <1>6 DEF Send, Sending, Remember, peer
  <2>2. Up
    BY <1>b, <2>1 DEF Up
  <2>3. Converges(Stream, server, seen, lastSent) /\ Pumped
    BY <2>2 DEF SessionInv
  <2>4. Converges(Append(Stream, p), server, seen, lastSent')
    BY <1>d, <1>6, <2>1, <2>3, ConvergesAppend
  <2>5. Behind' = IF sendBuffers = <<>> THEN <<>> ELSE Append(Behind, p)
    BY <1>a, <2>1, AfterAppend DEF Behind
  <2>6. CASE sendBuffers = <<>>
    <3>1. inFlight' = Append(inFlight, p)
      BY <1>6, <1>c, <2>2, <2>6 DEF Send, DoWrite, Up, Wiring
    <3>2. Behind = <<>>
      BY <2>6 DEF Behind, After
    <3>3. Append(inFlight, p) \in Seq(Packet) /\ Append(inFlight, p) # <<>>
      BY <1>a, AppendProperties
    <3>4. Stream = inFlight /\ Stream' = Append(inFlight, p)
      BY <1>a, <2>5, <2>6, <3>1, <3>2, <3>3, ConcatEmptySeq DEF Stream
    <3> QED BY <2>1, <2>4, <3>1, <3>3, <3>4 DEF Pumped
  <2>7. CASE sendBuffers # <<>>
    <3>1. inFlight' = inFlight /\ ready' = ready
      BY <1>6, <2>7 DEF Send, ops
    <3>2. Stream' = Append(Stream, p)
      BY <1>a, <1>d, <2>5, <2>7, <3>1, ConcatAppend DEF Stream
    <3> QED BY <2>1, <2>3, <2>4, <2>7, <3>1, <3>2 DEF Pumped
  <2> QED BY <2>6, <2>7
<1>7. CASE SendTick
  BY <1>6, <1>7, SentIsNoLogin DEF SendTick
<1>8. CASE UpdateOrders
  BY <1>6, <1>8, SentIsNoLogin DEF UpdateOrders, ProgramTyped
<1>9. CASE ConnectCompletes
  <2>1. connecting /\ connecting' = connecting
    BY <1>9 DEF ConnectCompletes, ConnectingIsExact
  <2> QED BY <1>b, <2>1
<1>10. CASE WriteCompletes
  <2>1. /\ ioAlive /\ inFlight # <<>> /\ inFlight' = Tail(inFlight)
        /\ UNCHANGED <<connecting, sendBuffers, lastSent>>
    BY <1>10 DEF WriteCompletes
  <2>2. server # "none"
    BY <1>10, <1>b DEF WriteCompletes, peer
  <2>3. Converges(Stream, server, seen, lastSent)
    BY <1>b, <2>1, <2>2 DEF SessionInv, Up
  <2>4. Behind' = Behind
    BY <2>1 DEF Behind
  <2>5. Stream # <<>> /\ Head(Stream) = Head(inFlight) /\ Stream' = Tail(Stream)
    BY <1>a, <1>d, <2>1, <2>4, ConcatTail DEF Stream
  <2>6. /\ server' = IF Head(Stream).id = "Login" THEN "registered" ELSE server
        /\ seen' = IF Head(Stream).id = "OpenedOrders" /\ server = "registered"
                     THEN Head(Stream).orders ELSE seen
    BY <1>10, <2>2, <2>5 DEF WriteCompletes, Receive
  <2>7. server \in {"temporary", "registered"}
    BY <1>a, <2>2
  <2>8. Converges(Tail(Stream), server', seen', lastSent)
    BY <1>d, <2>3, <2>5, <2>6, <2>7, ConvergesTail
  <2>9. Has(ready', "write")
    <3>1. PICK ok \in BOOLEAN : ready' = Append(ready, Done("write", ok))
      BY <1>10 DEF WriteCompletes
    <3> QED BY <1>a, <1>f, <3>1 DEF Ops
  <2> QED BY <2>1, <2>5, <2>8, <2>9 DEF Pumped
<1>11. CASE ReadCompletes
  <2>1. (server = "registered") \in BOOLEAN
    OBVIOUS
  <2>2. Has(ready, "write") => Has(ready', "write")
    BY <1>11, <1>a, <1>f, <2>1 DEF ReadCompletes, Ops
  <2> QED BY <1>1, <1>11, <2>2 DEF ReadCompletes, peer
<1>12. CASE TimerExpires
  <2>1. Has(ready, "write") => Has(ready', "write")
    BY <1>12, <1>a, <1>f DEF TimerExpires, Ops
  <2> QED BY <1>1, <1>12, <2>1 DEF TimerExpires, peer
<1>13. CASE ConnectionLost \/ Reinitialize
  BY <1>13, <1>b DEF ConnectionLost, Reinitialize
<1>14. CASE UNCHANGED <<connecting, ops, sendBuffers, lastSent, ioAlive, peer>>
  BY <1>1, <1>14, <1>b DEF ops, peer
<1> QED BY <1>2, <1>3, <1>4, <1>5, <1>7, <1>8, <1>9, <1>10, <1>11, <1>12, <1>13, <1>14
        DEF Next, Step, IoThread, System, OrdersChange, vars, program

(* Every live session that the connect handler logged in on converges to   *)
(* the snapshot UltimaClient sent last, so that none is left with an older *)
(* one when nothing is under way.  A session of a client that is still     *)
(* connecting is temporary, by the wiring.                                 *)
THEOREM NeverStaleCorrect == Spec => []ServerNeverStale
<1>1. Init => SessionInv
  BY DEF Init, SessionInv, Up
<1>2. ProgramTyped /\ ConnectingIsExact /\ WiringInv /\ SessionInv /\ [Next]_vars => SessionInv'
  BY SessionStep DEF SessionInv
<1>3. ProgramTyped /\ WiringInv /\ SessionInv => ServerNeverStale
  <2> SUFFICES ASSUME ProgramTyped, WiringInv, SessionInv, ioAlive, server = "registered",
                      ready = <<>>, inFlight = <<>>
               PROVE  seen \in {None, lastSent}
    BY DEF ServerNeverStale
  <2>1. Up
    BY DEF Up, WiringInv, Wiring
  <2>2. Converges(Stream, server, seen, lastSent) /\ Pumped
    BY <2>1 DEF SessionInv
  <2>3. ~Has(ready, "write")
    BY DEF Has
  <2>4. sendBuffers = <<>>
    BY <2>2, <2>3 DEF Pumped
  <2>5. Stream = <<>>
    BY <2>4 DEF Stream, Behind, After
  <2> QED BY <2>2, <2>5 DEF Converges
<1> QED BY <1>1, <1>2, <1>3, WiringCorrect, ProgramTypeCorrect, ConnectingCorrect, PTL DEF Spec

-----------------------------------------------------------------------------
(* The reads of the client.                                                *)

(* A read whose handler will call postReconnect(), on a socket that        *)
(* reconnect() has closed, is handled before the connect that it started.  *)
EndsFirst(q) ==
  \A i \in DOMAIN q :
    q[i].op = "read" => /\ ~q[i].ok
                        /\ \A j \in DOMAIN q : q[j].op = "connect" => i < j

(* Without a stale read there is one read; when a new connect is under     *)
(* way, it is one that ends before the new session begins.                 *)
Reader ==
  /\ Reads <= 1
  /\ (ioAlive /\ connecting) => (reading = 0 /\ EndsFirst(ready))

ReaderInv == stale \/ Reader

LEMMA NoReads ==
  ASSUME NEW q \in Seq(Completion), Count(q, "read") = 0
  PROVE  EndsFirst(q)
BY CountAbsent DEF EndsFirst, Has

LEMMA ReadQueued ==
  ASSUME NEW q \in Seq(Completion), NEW op \in Ops, NEW ok \in BOOLEAN
  PROVE  LET a == Append(q, Done(op, ok))
         IN  /\ a \in Seq(Completion) /\ Count(q, "read") \in Nat
             /\ op # "read" => Count(a, "read") = Count(q, "read")
             /\ op = "read" => Count(a, "read") = Count(q, "read") + 1
             /\ (op # "read" /\ EndsFirst(q)) => EndsFirst(a)
<1> DEFINE d == Done(op, ok)
           a == Append(q, d)
<1>1. d \in Completion /\ d.op = op /\ d.ok = ok
  BY DEF Done, Completion
<1>2. Count(q, "read") \in Nat
  BY PositionsFinite
<1>3. Count(a, "read") = Count(q, "read") + (IF d.op = "read" THEN 1 ELSE 0)
  BY <1>1, CountAppend
<1>4. /\ a \in Seq(Completion) /\ \A j \in 1..Len(q) : a[j] = q[j]
      /\ a[Len(q) + 1] = d /\ DOMAIN a = 1..(Len(q) + 1)
      /\ DOMAIN q = 1..Len(q) /\ Len(q) \in Nat
  BY <1>1, AppendProperties, LenProperties
<1>5. op # "read" => Count(a, "read") = Count(q, "read")
  BY <1>1, <1>2, <1>3
<1>6. op = "read" => Count(a, "read") = Count(q, "read") + 1
  BY <1>1, <1>2, <1>3
<1> HIDE DEF a, d
<1>7. ASSUME op # "read", EndsFirst(q) PROVE EndsFirst(a)
  <2> SUFFICES ASSUME NEW i \in DOMAIN a, a[i].op = "read"
               PROVE  ~a[i].ok /\ \A j \in DOMAIN a : a[j].op = "connect" => i < j
    BY DEF EndsFirst
  <2>1. i \in 1..Len(q) /\ a[i] = q[i]
    BY <1>1, <1>4, <1>7
  <2>2. ~q[i].ok /\ \A j \in 1..Len(q) : q[j].op = "connect" => i < j
    BY <1>4, <1>7, <2>1 DEF EndsFirst
  <2>3. \A j \in DOMAIN a : j \in 1..Len(q) \/ i < j
    BY <1>4, <2>1
  <2> QED BY <1>4, <2>1, <2>2, <2>3
<1> QED BY <1>2, <1>4, <1>5, <1>6, <1>7 DEF a, d

LEMMA ReadTaken ==
  ASSUME ProgramTyped, NEW op, Running(op)
  PROVE  /\ ioAlive /\ Rest \in Seq(Completion) /\ Count(Rest, "read") \in Nat
         /\ op # "read" => Count(ready, "read") = Count(Rest, "read")
         /\ op = "read" => Count(ready, "read") = Count(Rest, "read") + 1
         /\ EndsFirst(ready) => /\ EndsFirst(Rest)
                                /\ op = "connect" => Count(ready, "read") = 0
                                /\ op = "read" => ~Head(ready).ok
<1>1. /\ ready \in Seq(Completion) /\ ready # <<>> /\ Head(ready).op = op
      /\ Rest = Tail(ready) /\ ioAlive
  BY DEF ProgramTyped, Running, Rest
<1>2. Rest \in Seq(Completion)
  BY <1>1, QueueTail
<1>3. Count(Rest, "read") \in Nat
  BY <1>2, PositionsFinite
<1>4. Count(ready, "read") = Count(Rest, "read") + (IF op = "read" THEN 1 ELSE 0)
  BY <1>1, CountTail
<1>5. op # "read" => Count(ready, "read") = Count(Rest, "read")
  BY <1>3, <1>4
<1>6. op = "read" => Count(ready, "read") = Count(Rest, "read") + 1
  BY <1>3, <1>4
<1>7. /\ DOMAIN ready = 1..Len(ready) /\ DOMAIN Rest = 1..Len(Rest)
      /\ Len(Rest) = Len(ready) - 1 /\ Len(ready) \in Nat \ {0}
      /\ \A j \in 1..Len(Rest) : Rest[j] = ready[j + 1]
  BY <1>1, <1>2, HeadTailProperties, LenProperties, EmptySeq
<1>8. 1 \in DOMAIN ready /\ Head(ready) = ready[1] /\ \A i \in DOMAIN ready : ~(i < 1)
  BY <1>1, <1>7
<1>9. ASSUME EndsFirst(ready)
      PROVE  /\ EndsFirst(Rest) /\ (op = "read" => ~Head(ready).ok)
             /\ op = "connect" => Count(ready, "read") = 0
  <2>1. \A j \in DOMAIN Rest : j + 1 \in DOMAIN ready /\ Rest[j] = ready[j + 1] /\ j \in Nat
    BY <1>7
  <2>2. \A i, j \in DOMAIN Rest : i + 1 < j + 1 => i < j
    BY <1>7
  <2>3. EndsFirst(Rest)
    BY <1>9, <2>1, <2>2 DEF EndsFirst
  <2>4. op = "read" => ~Head(ready).ok
    BY <1>1, <1>8, <1>9 DEF EndsFirst
  <2>5. op = "connect" => ~Has(ready, "read")
    BY <1>1, <1>8, <1>9 DEF EndsFirst, Has
  <2> QED BY <1>1, <2>3, <2>4, <2>5, CountAbsent
<1> QED BY <1>1, <1>2, <1>3, <1>5, <1>6, <1>9

(* Closing the socket ends the read that was outstanding.                  *)
LEMMA AbortedFail == ProgramTyped => \A i \in DOMAIN Aborted : ~Aborted[i].ok
<1> SUFFICES ASSUME ProgramTyped PROVE \A i \in DOMAIN Aborted : ~Aborted[i].ok
  OBVIOUS
<1> DEFINE Fails(q) == q \in Seq(Completion) /\ \A i \in DOMAIN q : ~q[i].ok
           con == IF connectOp THEN <<Done("connect", FALSE)>> ELSE <<>>
           rds == [i \in 1..reading |-> Done("read", FALSE)]
           wrs == [i \in 1..Len(inFlight) |-> Done("write", FALSE)]
<1>1. \A op \in Ops : Done(op, FALSE) \in Completion /\ ~Done(op, FALSE).ok
  BY DEF Done, Completion
<1>2. reading \in Nat /\ Len(inFlight) \in Nat
  BY LenProperties DEF ProgramTyped
<1>3. Fails(con)
  <2>1. CASE connectOp
    <3>1. PICK c \in Completion : c = Done("connect", FALSE) /\ ~c.ok
      BY <1>1 DEF Ops
    <3>2. con = <<c>>
      BY <2>1, <3>1
    <3> HIDE DEF con
    <3>3. con \in Seq(Completion) /\ \A i \in DOMAIN con : con[i] = c
      BY <3>2
    <3> QED BY <3>1, <3>3
  <2>2. CASE ~connectOp
    BY <2>2
  <2> QED BY <2>1, <2>2
<1>4. ASSUME NEW n \in Nat, NEW op \in Ops PROVE Fails([i \in 1..n |-> Done(op, FALSE)])
  <2>1. [i \in 1..n |-> Done(op, FALSE)] \in [1..n -> Completion]
    BY <1>1
  <2>2. [i \in 1..n |-> Done(op, FALSE)] \in Seq(Completion)
    BY <2>1, SeqDef
  <2> QED BY <1>1, <2>2
<1>5. Fails(rds) /\ Fails(wrs)
  BY <1>2, <1>4 DEF Ops
<1>6. ASSUME NEW q, NEW r, Fails(q), Fails(r) PROVE Fails(q \o r)
  <2>1. /\ q \o r \in Seq(Completion) /\ Len(q \o r) = Len(q) + Len(r)
        /\ \A i \in 1..(Len(q) + Len(r)) :
             (q \o r)[i] = IF i <= Len(q) THEN q[i] ELSE r[i - Len(q)]
    BY <1>6, ConcatProperties
  <2>2. /\ Len(q) \in Nat /\ Len(r) \in Nat /\ DOMAIN q = 1..Len(q) /\ DOMAIN r = 1..Len(r)
        /\ DOMAIN (q \o r) = 1..(Len(q) + Len(r))
    BY <1>6, <2>1, LenProperties
  <2>3. \A i \in 1..(Len(q) + Len(r)) : i \in 1..Len(q) \/ i - Len(q) \in 1..Len(r)
    BY <2>2
  <2>4. \A i \in 1..Len(q) : i <= Len(q)
    BY <2>2
  <2>5. \A i \in 1..(Len(q) + Len(r)) : i \notin 1..Len(q) => ~(i <= Len(q))
    BY <2>2
  <2> QED BY <1>6, <2>1, <2>2, <2>3, <2>4, <2>5
<1>7. Aborted = (con \o rds) \o wrs
  BY DEF Aborted
<1> HIDE DEF con, rds, wrs
<1>8. Fails(Aborted)
  BY <1>3, <1>5, <1>6, <1>7
<1> QED BY <1>8

(* What closing the socket leaves of the reads behind the queue q.         *)
LEMMA ReadsClosed ==
  ASSUME ProgramTyped, NEW q \in Seq(Completion), NEW state, NEW op, DropSocket(q, state, op)
  PROVE  /\ reading' = 0 /\ ready' \in Seq(Completion)
         /\ Reads' = reading + Count(q, "read")
         /\ (reading = 0 /\ EndsFirst(q)) => EndsFirst(ready')
         /\ (/\ ~connectOp /\ ~Has(q, "connect")
             /\ \A i \in DOMAIN q : q[i] # Done("read", TRUE)) => EndsFirst(ready')
<1>1. reading' = 0 /\ ready' = q \o Aborted
  BY DEF DropSocket
<1>2. /\ Aborted \in Seq(Completion) /\ (Has(Aborted, "connect") <=> connectOp)
      /\ (Has(Aborted, "read") <=> reading > 0)
  BY AbortedCompletions
<1>3. Count(q \o Aborted, "read") = Count(q, "read") + reading
  BY <1>2, AbortedCounts, CountConcat
<1>4. reading \in Nat /\ Count(q, "read") \in Nat
  BY PositionsFinite DEF ProgramTyped
<1>5. q \o Aborted \in Seq(Completion)
      /\ (Has(q \o Aborted, "connect") <=> Has(q, "connect") \/ connectOp)
  BY <1>2, QueueConcat
<1> DEFINE s == q \o Aborted
<1>6. /\ Len(q) \in Nat /\ Len(Aborted) \in Nat /\ DOMAIN q = 1..Len(q)
      /\ DOMAIN Aborted = 1..Len(Aborted) /\ DOMAIN s = 1..(Len(q) + Len(Aborted))
      /\ \A i \in 1..(Len(q) + Len(Aborted)) :
           s[i] = IF i <= Len(q) THEN q[i] ELSE Aborted[i - Len(q)]
  BY <1>2, <1>5, ConcatProperties, LenProperties
<1> HIDE DEF s
<1>7. ASSUME NEW i \in DOMAIN s
      PROVE  \/ i \in DOMAIN q /\ s[i] = q[i]
             \/ i - Len(q) \in DOMAIN Aborted /\ s[i] = Aborted[i - Len(q)] /\ Len(q) < i
  BY <1>6, <1>7
<1>8. ASSUME reading = 0, EndsFirst(q) PROVE EndsFirst(s)
  <2> SUFFICES ASSUME NEW i \in DOMAIN s, s[i].op = "read"
               PROVE  ~s[i].ok /\ \A j \in DOMAIN s : s[j].op = "connect" => i < j
    BY DEF EndsFirst
  <2>1. ~Has(Aborted, "read")
    BY <1>2, <1>8
  <2>2. i \in DOMAIN q /\ s[i] = q[i]
    BY <1>7, <2>1 DEF Has
  <2>3. \A j \in DOMAIN s : Len(q) < j => i < j
    BY <1>6, <2>2
  <2> QED BY <1>7, <1>8, <2>2, <2>3 DEF EndsFirst
<1>9. ASSUME ~connectOp, ~Has(q, "connect"), \A i \in DOMAIN q : q[i] # Done("read", TRUE)
      PROVE  EndsFirst(s)
  <2>1. ~Has(s, "connect")
    BY <1>5, <1>9 DEF s
  <2>2. \A i \in DOMAIN q : q[i] \in Completion
    BY <1>6, ElementOfSeq
  <2>3. \A i \in DOMAIN q : q[i].op = "read" => ~q[i].ok
    BY <1>9, <2>2 DEF Completion, Done
  <2>4. \A i \in DOMAIN s : s[i].op = "read" => ~s[i].ok
    BY <1>7, <2>3, AbortedFail
  <2> QED BY <2>1, <2>4 DEF EndsFirst, Has
<1>10. Reads' = reading + Count(q, "read")
  BY <1>1, <1>3, <1>4 DEF Reads
<1>11. ready' = s /\ ready' \in Seq(Completion)
  BY <1>1, <1>5 DEF s
<1> QED BY <1>1, <1>8, <1>9, <1>10, <1>11

LEMMA ReaderStep ==
  ASSUME ProgramTyped, ProgramTyped', ConnectingIsExact, ReaderInv, [Next]_vars, ~stale'
  PROVE  Reader'
<1>a. /\ ready \in Seq(Completion) /\ reading \in Nat
      /\ connecting \in BOOLEAN /\ connectOp \in BOOLEAN /\ ioAlive \in BOOLEAN
  BY DEF ProgramTyped
<1>b. /\ Count(ready, "read") \in Nat /\ Reads = reading + Count(ready, "read") /\ Reads \in Nat
      /\ Reads = 0 => reading = 0 /\ Count(ready, "read") = 0
  <2>1. Count(ready, "read") \in Nat
    BY <1>a, PositionsFinite
  <2> QED BY <1>a, <2>1 DEF Reads
(* When no read is left there is nothing to show.                          *)
<1>1. CASE Reads' = 0
  <2>1. ready' \in Seq(Completion) /\ reading' \in Nat /\ Count(ready', "read") \in Nat
    BY PositionsFinite DEF ProgramTyped
  <2>2. reading' = 0 /\ Count(ready', "read") = 0
    BY <1>1, <2>1 DEF Reads
  <2> QED BY <1>1, <2>1, <2>2, NoReads DEF Reader
<1>2. CASE UNCHANGED vars
  <2>1. Reader
    BY <1>2 DEF vars, ReaderInv
  <2> QED BY <1>2, <2>1 DEF vars, program, ops, Reader, Reads
<1>3. CASE Reads' # 0 /\ Step /\ stale' = (Reads' > 0 /\ (stale \/ LeavesRead))
  <2>1. Reads' \in Nat
    <3>1. ready' \in Seq(Completion) /\ reading' \in Nat /\ Count(ready', "read") \in Nat
      BY PositionsFinite DEF ProgramTyped
    <3> QED BY <3>1 DEF Reads
  <2>2. ~stale /\ ~LeavesRead
    <3>1. Reads' > 0
      BY <1>3, <2>1
    <3>2. stale' = (Reads' > 0 /\ (stale \/ LeavesRead)) /\ ~stale'
      BY <1>3
    <3> QED BY <3>1, <3>2, Zenon
  <2>3. Reads <= 1 /\ ((ioAlive /\ connecting) => (reading = 0 /\ EndsFirst(ready)))
    BY <2>2 DEF ReaderInv, Reader
  (* Steps that only queue, or take, something that is not a read.         *)
  <2>4. ASSUME UNCHANGED <<connecting, reading>>, ioAlive, NEW q \in Seq(Completion),
               NEW op \in Ops \ {"read"}, NEW ok \in BOOLEAN,
               Count(q, "read") = Count(ready, "read"), EndsFirst(ready) => EndsFirst(q),
               ready' = q \/ ready' = Append(q, Done(op, ok))
        PROVE  Reader'
    <3>1. Count(ready', "read") = Count(ready, "read") /\ (EndsFirst(ready) => EndsFirst(ready'))
      <4>1. CASE ready' = q
        BY <2>4, <4>1
      <4>2. CASE ready' = Append(q, Done(op, ok))
        <5>1. /\ Count(Append(q, Done(op, ok)), "read") = Count(q, "read")
              /\ EndsFirst(q) => EndsFirst(Append(q, Done(op, ok)))
          BY ReadQueued
        <5>2. EndsFirst(q) => EndsFirst(ready')
          BY <4>2, <5>1
        <5> QED BY <2>4, <4>2, <5>1, <5>2
      <4> QED BY <2>4, <4>1, <4>2
    <3> QED BY <1>b, <2>3, <2>4, <3>1 DEF Reader, Reads
  <2>5. ASSUME NEW op \in Ops \ {"read"}, Running(op), CloseAndPostReconnect(Rest)
        PROVE  Reader'
    <3>1. /\ ioAlive /\ Rest \in Seq(Completion) /\ Count(Rest, "read") = Count(ready, "read")
          /\ EndsFirst(ready) => EndsFirst(Rest)
      BY <2>5, ReadTaken
    <3>2. DropSocket(Rest, "closed", FALSE) /\ connecting' = connecting
      BY <2>5 DEF CloseAndPostReconnect
    <3>3. /\ reading' = 0 /\ Reads' = reading + Count(Rest, "read")
          /\ (reading = 0 /\ EndsFirst(Rest)) => EndsFirst(ready')
      BY <3>1, <3>2, ReadsClosed
    <3>4. Reads' = Reads
      BY <1>b, <3>1, <3>3
    <3> QED BY <2>3, <3>1, <3>2, <3>3, <3>4 DEF Reader
  <2>6. ASSUME NEW q \in Seq(Completion), NEW b, DoWrite(q, b), ioAlive,
               Count(q, "read") = Count(ready, "read"), EndsFirst(ready) => EndsFirst(q),
               UNCHANGED connecting
        PROVE  Reader'
    <3>1. reading' = reading /\ (ready' = q \/ ready' = Append(q, Done("write", FALSE)))
      BY <2>6 DEF DoWrite
    <3>2. "write" \in Ops \ {"read"} /\ FALSE \in BOOLEAN
      BY DEF Ops
    <3> QED BY <2>4, <2>6, <3>1, <3>2
  <2>7. CASE RunReconnect
    <3>1. PICK op \in {"reconnect", "timer"} : Running(op)
      BY <2>7 DEF RunReconnect
    <3>2. /\ ioAlive /\ Rest \in Seq(Completion) /\ Count(Rest, "read") = Count(ready, "read")
          /\ EndsFirst(ready) => EndsFirst(Rest)
      BY <3>1, ReadTaken
    <3>3. CASE ~connecting /\ StartConnect(Rest)
      <4>1. DropSocket(Rest, "opened", TRUE) /\ connecting'
        BY <3>3 DEF StartConnect
      <4>2. ~connectOp /\ ~Has(Rest, "connect")
        BY <1>a, <3>1, <3>2, <3>3, QueueTail DEF ConnectingIsExact, Running, Rest
      <4>3. \A i \in DOMAIN Rest : Rest[i] # Done("read", TRUE)
        BY <2>2, <3>3, <4>1 DEF LeavesRead
      <4>4. reading' = 0 /\ Reads' = reading + Count(Rest, "read") /\ EndsFirst(ready')
        BY <3>2, <4>1, <4>2, <4>3, ReadsClosed
      <4>5. Reads' = Reads
        BY <1>b, <3>2, <4>4
      <4> QED BY <2>3, <4>4, <4>5 DEF Reader
    <3>4. CASE /\ ready' = Rest /\ reading' = reading
               /\ connecting' = connecting \/ ~ioAlive'
      <4>1. Reads' = Reads
        BY <3>2, <3>4 DEF Reads
      <4> QED BY <2>3, <3>2, <3>4, <4>1 DEF Reader
    <3> QED BY <2>7, <3>3, <3>4 DEF RunReconnect, Reconnect
  <2>8. CASE HandleConnect
    <3>1. Running("connect") /\ ready' = Rest /\ connecting' = FALSE
      BY <2>8 DEF HandleConnect, ConnectDone
    <3>2. /\ ioAlive /\ Rest \in Seq(Completion) /\ Count(Rest, "read") = Count(ready, "read")
          /\ EndsFirst(ready) => Count(ready, "read") = 0
      BY <3>1, ReadTaken
    <3>3. connecting
      BY <1>a, <3>1, QueueTail DEF ConnectingIsExact, Running
    <3>4. reading = 0 /\ Count(Rest, "read") = 0
      BY <2>3, <3>2, <3>3
    <3>5. reading' \in {0, 1}
      BY <2>8, <3>4 DEF HandleConnect, LogIn, OptionThrows, ConnectFailed
    <3>6. Reads' <= 1
      BY <3>1, <3>4, <3>5 DEF Reads
    <3> QED BY <3>1, <3>6 DEF Reader
  <2>9. CASE HandleWrite
    <3>1. Running("write") /\ "write" \in Ops \ {"read"} /\ FALSE \in BOOLEAN
      BY <2>9 DEF HandleWrite, WriteFailed, PopAndWrite, PopLast, WriteDone, Ops
    <3>2. /\ ioAlive /\ Rest \in Seq(Completion) /\ Count(Rest, "read") = Count(ready, "read")
          /\ EndsFirst(ready) => EndsFirst(Rest)
      BY <3>1, ReadTaken
    <3>3. CASE WriteFailed
      BY <2>5, <3>1, <3>3 DEF WriteFailed
    <3>4. CASE PopAndWrite(sendBuffers[2])
      BY <2>6, <3>2, <3>4 DEF PopAndWrite
    <3>5. CASE PopLast
      <4>1. ready' = Rest /\ UNCHANGED <<connecting, reading>>
        BY <3>5 DEF PopLast
      <4> QED BY <2>4, <3>1, <3>2, <4>1
    <3> QED BY <2>9, <3>3, <3>4, <3>5 DEF HandleWrite
  <2>10. CASE HandleRead
    <3>1. Running("read")
      BY <2>10 DEF HandleRead
    <3>2. /\ ioAlive /\ Rest \in Seq(Completion) /\ Count(Rest, "read") \in Nat
          /\ Count(ready, "read") = Count(Rest, "read") + 1
          /\ EndsFirst(ready) => EndsFirst(Rest) /\ ~Head(ready).ok
      BY <3>1, ReadTaken
    <3>3. reading = 0 /\ Count(Rest, "read") = 0 /\ Reads = 1
      BY <1>a, <1>b, <2>3, <3>2
    <3>4. CASE CloseAndPostReconnect(Rest)
      <4>1. DropSocket(Rest, "closed", FALSE)
        BY <3>4 DEF CloseAndPostReconnect
      <4>2. Reads' = reading + Count(Rest, "read")
        BY <3>2, <4>1, ReadsClosed
      <4> QED BY <1>3, <3>3, <4>2
    <3>5. CASE /\ Head(ready).ok /\ connecting' = connecting
               /\ \/ reading' = reading + 1 /\ ready' = Rest
                  \/ reading' = reading /\ ready' = Append(Rest, Done("read", FALSE))
      <4>1. ~connecting
        BY <2>3, <3>2, <3>5
      <4>2. Count(Append(Rest, Done("read", FALSE)), "read") = Count(Rest, "read") + 1
        BY <3>2, ReadQueued DEF Ops
      <4>3. \/ reading' = 1 /\ Count(ready', "read") = 0
            \/ reading' = 0 /\ Count(ready', "read") = 1
        <5>1. CASE reading' = reading + 1 /\ ready' = Rest
          BY <3>3, <5>1
        <5>2. CASE reading' = reading /\ ready' = Append(Rest, Done("read", FALSE))
          <6>1. Count(ready', "read") = 0 + 1
            BY <3>3, <4>2, <5>2
          <6>2. reading' = 0
            BY <3>3, <5>2
          <6> QED BY <6>1, <6>2
        <5> QED BY <3>5, <5>1, <5>2
      <4>4. Reads' = 1
        BY <4>3 DEF Reads
      <4> QED BY <3>5, <4>1, <4>4 DEF Reader
    <3> QED BY <2>10, <3>4, <3>5 DEF HandleRead
  <2>11. ASSUME NEW p, Send(p) PROVE Reader'
    <3>1. ioAlive /\ UNCHANGED connecting
      BY <2>11 DEF Send, Sending
    <3>2. CASE sendBuffers = <<>>
      BY <1>a, <2>6, <2>11, <3>1, <3>2 DEF Send
    <3>3. CASE sendBuffers # <<>>
      BY <2>3, <2>11, <3>1, <3>3 DEF Send, ops, Reader, Reads
    <3> QED BY <3>2, <3>3
  <2>12. CASE SendTick \/ UpdateOrders
    BY <2>11, <2>12 DEF SendTick, UpdateOrders
  <2>13. CASE ConnectCompletes \/ WriteCompletes \/ TimerExpires
    <3>1. PICK op \in Ops \ {"read"}, ok \in BOOLEAN : ready' = Append(ready, Done(op, ok))
      BY <2>13 DEF ConnectCompletes, WriteCompletes, TimerExpires, Ops
    <3>2. ioAlive /\ UNCHANGED <<connecting, reading>>
      BY <2>13 DEF ConnectCompletes, WriteCompletes, TimerExpires
    <3> QED BY <1>a, <2>4, <3>1, <3>2
  <2>14. CASE ReadCompletes
    <3>1. (server = "registered") \in BOOLEAN /\ "read" \in Ops
      BY DEF Ops
    <3>2. /\ ioAlive /\ connecting' = connecting /\ reading > 0 /\ reading' = reading - 1
          /\ ready' = Append(ready, Done("read", server = "registered"))
      BY <2>14 DEF ReadCompletes
    <3>3. ~connecting
      BY <1>a, <2>3, <3>2
    <3>4. Count(ready', "read") = Count(ready, "read") + 1
      BY <1>a, <3>1, <3>2, ReadQueued
    <3>5. Reads' = Reads
      BY <1>a, <1>b, <3>2, <3>4 DEF Reads
    <3> QED BY <2>3, <3>2, <3>3, <3>5 DEF Reader
  <2>15. CASE Reinitialize
    <3>1. /\ ready' = Append(<<>>, Done("reconnect", TRUE)) /\ <<>> \in Seq(Completion)
          /\ reading' = 0
      BY <2>15, EmptySeq DEF Reinitialize
    <3>2. ~Has(<<>>, "read") /\ (Count(<<>>, "read") = 0 <=> ~Has(<<>>, "read"))
      <4>1. ~Has(<<>>, "read")
        BY DEF Has
      <4> QED BY <3>1, <4>1, CountAbsent
    <3>3. Count(ready', "read") = 0
      BY <3>1, <3>2, ReadQueued DEF Ops
    <3> QED BY <1>3, <3>1, <3>3 DEF Reads
  <2>16. CASE ConnectionLost \/ OrdersChange
    BY <2>3, <2>16 DEF ConnectionLost, OrdersChange, ops, Reader, Reads
  <2> QED BY <1>3, <2>7, <2>8, <2>9, <2>10, <2>12, <2>13, <2>14, <2>15, <2>16
          DEF Step, IoThread, System
<1> QED BY <1>1, <1>2, <1>3 DEF Next

(* One read at a time, also over failures, timers that are late and        *)
(* sessions that reconnect() closes, as long as none of those had data     *)
(* that was still to be handled.                                           *)
THEOREM SingleReaderCorrect == Spec => []SingleReader
<1>1. Init => ReaderInv
  <2> SUFFICES ASSUME Init PROVE Reader
    BY DEF ReaderInv
  <2>1. /\ ready = Append(<<>>, Done("reconnect", TRUE)) /\ <<>> \in Seq(Completion)
        /\ reading = 0 /\ ~connecting
    BY EmptySeq DEF Init
  <2>2. ~Has(<<>>, "read") /\ (Count(<<>>, "read") = 0 <=> ~Has(<<>>, "read"))
    <3>1. ~Has(<<>>, "read")
      BY DEF Has
    <3> QED BY <2>1, <3>1, CountAbsent
  <2>3. Count(ready, "read") = 0
    BY <2>1, <2>2, ReadQueued DEF Ops
  <2> QED BY <2>1, <2>3 DEF Reader, Reads
<1>2. ProgramTyped /\ ProgramTyped' /\ ConnectingIsExact /\ ReaderInv /\ [Next]_vars => ReaderInv'
  BY ReaderStep DEF ReaderInv
<1>3. ReaderInv => SingleReader
  BY DEF ReaderInv, Reader, SingleReader
<1> QED BY <1>1, <1>2, <1>3, ProgramTypeCorrect, ConnectingCorrect, PTL DEF Spec

=============================================================================
