------------------------- MODULE CommandQueuesProofs -------------------------
(***************************************************************************)
(* Theorems about CommandQueues, for every set of kinds the server sends   *)
(* and any number of commands and restarts.                                *)
(***************************************************************************)
EXTENDS CommandQueues, Integers, SequenceTheorems, TLAPS

------------------------------------------------------------------------------
(* The arithmetic of an unsigned counter of Limit values.                  *)

LEMMA Remainder ==
  ASSUME NEW q \in Nat, NEW m \in 0..(Limit - 1)
  PROVE  (Limit * q + m) % Limit = m
BY CommandQueuesAssumption, SMTT(30)

LEMMA Quotient ==
  ASSUME NEW n \in Nat
  PROVE  \E q \in Nat : n = Limit * q + (n % Limit) /\ n % Limit \in 0..(Limit - 1)
<1>1. n = Limit * (n \div Limit) + (n % Limit) /\ n % Limit \in 0..(Limit - 1)
  BY CommandQueuesAssumption, SMTT(30)
<1>2. n \div Limit \in Nat
  BY CommandQueuesAssumption, SMTT(30)
<1> QED BY <1>1, <1>2

(* One increment more is one increment of the remainder.                   *)
LEMMA Wrapped ==
  ASSUME NEW n \in Nat
  PROVE  /\ n % Limit \in 0..(Limit - 1)
         /\ n < Limit => n % Limit = n
         /\ (n + 1) % Limit = Up(n % Limit)
<1>1. PICK q \in Nat : n = Limit * q + (n % Limit) /\ n % Limit \in 0..(Limit - 1)
  BY Quotient
<1>2. PICK m \in 0..(Limit - 1) : m = n % Limit
  BY <1>1
<1>3. n < Limit => n % Limit = n
  BY CommandQueuesAssumption, SMTT(30)
<1>4. CASE m = Limit - 1
  <2>1. n + 1 = Limit * (q + 1) + 0
    BY <1>1, <1>2, <1>4, CommandQueuesAssumption
  <2>2. q + 1 \in Nat /\ 0 \in 0..(Limit - 1)
    BY CommandQueuesAssumption
  <2>3. (Limit * (q + 1) + 0) % Limit = 0
    BY <2>2, Remainder
  <2>4. (n + 1) % Limit = 0
    BY <2>1, <2>3
  <2>5. Up(m) = 0
    BY <1>4 DEF Up
  <2> QED BY <1>1, <1>2, <1>3, <2>4, <2>5
<1>5. CASE m # Limit - 1
  <2>1. n + 1 = Limit * q + (m + 1)
    BY <1>1, <1>2, <1>5, CommandQueuesAssumption
  <2>2. m + 1 \in 0..(Limit - 1)
    BY <1>2, <1>5, CommandQueuesAssumption
  <2>3. (Limit * q + (m + 1)) % Limit = m + 1
    BY <2>2, Remainder
  <2>4. (n + 1) % Limit = m + 1
    BY <2>1, <2>3
  <2>5. Up(m) = m + 1
    BY <1>5 DEF Up
  <2> QED BY <1>1, <1>2, <1>3, <2>4, <2>5
<1> QED BY <1>4, <1>5

LEMMA OneLess ==
  \A b, x, y \in Nat : y # 0 /\ y <= x =>
    /\ b + ((x - y) + (y - 1)) \in Nat
    /\ b + x = (b + ((x - y) + (y - 1))) + 1
OBVIOUS

LEMMA UpDown ==
  \A c \in 0..(Limit - 1) :
    /\ Up(c) \in 0..(Limit - 1)
    /\ Down(c) \in 0..(Limit - 1)
    /\ Down(Up(c)) = c
BY CommandQueuesAssumption DEF Up, Down

------------------------------------------------------------------------------
(* The counter.                                                            *)

Total(q) ==
  Len(q["SymbolRegister"]) + Len(q["CloseOrder"]) + Len(q["CloseOrderBy"])
    + Len(q["OpenOrder"]) + Len(q["ModifyOrder"]) + Len(q["HistoryOrdersRequest"])

(* Replacing one queue changes the total by the change of its length.      *)
LEMMA TotalExcept ==
  ASSUME NEW q \in [Kinds -> Seq(Nat)], NEW k \in Kinds, NEW s \in Seq(Nat)
  PROVE  /\ Total(q) \in Nat
         /\ Total([q EXCEPT ![k] = s]) = (Total(q) - Len(q[k])) + Len(s)
         /\ Len(q[k]) <= Total(q)
<1> DEFINE r == [q EXCEPT ![k] = s]
<1>1. /\ \A j \in Kinds : Len(q[j]) \in Nat
      /\ Len(s) \in Nat
  BY LenProperties
<1>2. \A j \in Kinds : r[j] = IF j = k THEN s ELSE q[j]
  OBVIOUS
<1> HIDE DEF r
<1>3. Total(r) = (Total(q) - Len(q[k])) + Len(s)
  <2>1. CASE k = "SymbolRegister"
    <3>1. r["SymbolRegister"] = s
      BY <1>2, <2>1
    <3>2. /\ r["CloseOrder"] = q["CloseOrder"]
          /\ r["CloseOrderBy"] = q["CloseOrderBy"]
          /\ r["OpenOrder"] = q["OpenOrder"]
          /\ r["ModifyOrder"] = q["ModifyOrder"]
          /\ r["HistoryOrdersRequest"] = q["HistoryOrdersRequest"]
      BY <1>2, <2>1 DEF Kinds
    <3> QED BY <1>1, <2>1, <3>1, <3>2 DEF Total, Kinds
  <2>2. CASE k = "CloseOrder"
    <3>1. r["CloseOrder"] = s
      BY <1>2, <2>2
    <3>2. /\ r["SymbolRegister"] = q["SymbolRegister"]
          /\ r["CloseOrderBy"] = q["CloseOrderBy"]
          /\ r["OpenOrder"] = q["OpenOrder"]
          /\ r["ModifyOrder"] = q["ModifyOrder"]
          /\ r["HistoryOrdersRequest"] = q["HistoryOrdersRequest"]
      BY <1>2, <2>2 DEF Kinds
    <3> QED BY <1>1, <2>2, <3>1, <3>2 DEF Total, Kinds
  <2>3. CASE k = "CloseOrderBy"
    <3>1. r["CloseOrderBy"] = s
      BY <1>2, <2>3
    <3>2. /\ r["SymbolRegister"] = q["SymbolRegister"]
          /\ r["CloseOrder"] = q["CloseOrder"]
          /\ r["OpenOrder"] = q["OpenOrder"]
          /\ r["ModifyOrder"] = q["ModifyOrder"]
          /\ r["HistoryOrdersRequest"] = q["HistoryOrdersRequest"]
      BY <1>2, <2>3 DEF Kinds
    <3> QED BY <1>1, <2>3, <3>1, <3>2 DEF Total, Kinds
  <2>4. CASE k = "OpenOrder"
    <3>1. r["OpenOrder"] = s
      BY <1>2, <2>4
    <3>2. /\ r["SymbolRegister"] = q["SymbolRegister"]
          /\ r["CloseOrder"] = q["CloseOrder"]
          /\ r["CloseOrderBy"] = q["CloseOrderBy"]
          /\ r["ModifyOrder"] = q["ModifyOrder"]
          /\ r["HistoryOrdersRequest"] = q["HistoryOrdersRequest"]
      BY <1>2, <2>4 DEF Kinds
    <3> QED BY <1>1, <2>4, <3>1, <3>2 DEF Total, Kinds
  <2>5. CASE k = "ModifyOrder"
    <3>1. r["ModifyOrder"] = s
      BY <1>2, <2>5
    <3>2. /\ r["SymbolRegister"] = q["SymbolRegister"]
          /\ r["CloseOrder"] = q["CloseOrder"]
          /\ r["CloseOrderBy"] = q["CloseOrderBy"]
          /\ r["OpenOrder"] = q["OpenOrder"]
          /\ r["HistoryOrdersRequest"] = q["HistoryOrdersRequest"]
      BY <1>2, <2>5 DEF Kinds
    <3> QED BY <1>1, <2>5, <3>1, <3>2 DEF Total, Kinds
  <2>6. CASE k = "HistoryOrdersRequest"
    <3>1. r["HistoryOrdersRequest"] = s
      BY <1>2, <2>6
    <3>2. /\ r["SymbolRegister"] = q["SymbolRegister"]
          /\ r["CloseOrder"] = q["CloseOrder"]
          /\ r["CloseOrderBy"] = q["CloseOrderBy"]
          /\ r["OpenOrder"] = q["OpenOrder"]
          /\ r["ModifyOrder"] = q["ModifyOrder"]
      BY <1>2, <2>6 DEF Kinds
    <3> QED BY <1>1, <2>6, <3>1, <3>2 DEF Total, Kinds
  <2> QED BY <2>1, <2>2, <2>3, <2>4, <2>5, <2>6 DEF Kinds
<1>4. Total(q) \in Nat /\ Len(q[k]) <= Total(q)
  BY <1>1 DEF Total, Kinds
<1> QED BY <1>3, <1>4 DEF r

LEMMA DrainKinds == \A p \in 1..6 : DrainOrder[p] \in Kinds
BY DEF DrainOrder, Kinds

LEMMA DrainDistinct == \A p, r \in 1..6 : DrainOrder[p] = DrainOrder[r] => p = r
BY DEF DrainOrder

CountInv == TypeOK /\ CountIsExact

(* The EA is at one of the six queues exactly in the middle of a round.    *)
Paced == IF pc = "draining" THEN pos \in 1..6 ELSE pos = 7

LEMMA CountStep == CountInv /\ Paced /\ [Next]_vars => CountInv'
<1> SUFFICES ASSUME CountInv, Paced, [Next]_vars PROVE CountInv'
  OBVIOUS
<1> USE CommandQueuesAssumption
<1>a. /\ TypeOK /\ commandsInQueues = (base + Total(queue)) % Limit
      /\ queue \in [Kinds -> Seq(Nat)] /\ base \in Nat
  <2>1. Queued = Total(queue)
    BY DEF Queued, Total
  <2>2. base \in 0..(Limit - 1) /\ queue \in [Kinds -> Seq(Nat)]
    BY DEF CountInv, TypeOK
  <2> QED BY <2>1, <2>2 DEF CountInv, CountIsExact
<1>b. Len(received) \in Nat
  BY <1>a, LenProperties DEF TypeOK
<1>c. ASSUME UNCHANGED client PROVE CountIsExact'
  BY <1>c, <1>a DEF CountIsExact, Queued, Total, client
<1>1. ASSUME NEW k \in Sent, Push(k) PROVE CountInv'
  <2>1. k \in Kinds
    OBVIOUS
  <2>2. /\ Append(queue[k], Len(received) + 1) \in Seq(Nat)
        /\ Len(Append(queue[k], Len(received) + 1)) = Len(queue[k]) + 1
    BY <1>a, <1>b, <2>1, AppendProperties
  <2>3. /\ received' \in Seq(Kinds)
        /\ Len(received') = Len(received) + 1
    BY <1>1, <1>a, <2>1, AppendProperties DEF Push, TypeOK
  <2>4. queue' \in [Kinds -> Seq(Nat)]
    BY <1>1, <1>a, <2>1, <2>2 DEF Push
  <2>5. /\ commandsInQueues' = (base + Total(queue')) % Limit
        /\ commandsInQueues' \in 0..(Limit - 1)
    <3>1. queue' = [queue EXCEPT ![k] = Append(queue[k], Len(received) + 1)]
      BY <1>1 DEF Push
    <3>2. /\ Total(queue') = (Total(queue) - Len(queue[k])) + (Len(queue[k]) + 1)
          /\ Total(queue) \in Nat /\ Len(queue[k]) \in Nat
      BY <1>a, <2>1, <2>2, <3>1, TotalExcept, LenProperties
    <3>3. PICK n \in Nat : n = base + Total(queue) /\ base + Total(queue') = n + 1
      BY <1>a, <3>2
    <3>4. commandsInQueues' = Up(n % Limit)
      BY <1>1, <1>a, <3>3 DEF Push
    <3> QED BY <3>3, <3>4, Wrapped, UpDown
  <2>6. roundStart' \in 0..Len(received')
    BY <1>1, <1>a, <1>b, <2>3 DEF Push, TypeOK
  <2> QED BY <1>1, <1>a, <2>3, <2>4, <2>5, <2>6
        DEF Push, CountInv, CountIsExact, Queued, Total, TypeOK
<1>2. ASSUME NEW found \in BOOLEAN, Answer(found) PROVE CountInv'
  <2>1. roundStart' \in 0..Len(received) /\ skipped' \in 0..2 /\ pos' \in 1..7
    BY <1>2, <1>a, <1>b DEF Answer, TypeOK
  <2>2. pc' \in {"idle", "waiting", "draining"}
    BY <1>2 DEF Answer
  <2> QED BY <1>2, <1>a, <1>c, <2>1, <2>2 DEF Answer, client, history, CountInv, TypeOK
<1>3. CASE OnTimer
  <2>1. CASE Answer(TRUE)
    BY <1>2, <2>1
  <2>2. CASE pc' = "waiting" /\ UNCHANGED <<pos, roundStart, skipped, client, history, restarts>>
    BY <1>a, <1>c, <2>2 DEF client, history, CountInv, TypeOK
  <2> QED BY <1>3, <2>1, <2>2 DEF OnTimer
<1>4. CASE Execute
  <2> DEFINE k == DrainOrder[pos]
  <2>1. k \in Kinds /\ pos \in 1..6
    BY <1>4, DrainKinds DEF Execute, Paced
  <2>2. queue[k] # <<>> /\ queue[k] \in Seq(Nat)
    BY <1>4, <1>a, <2>1 DEF Execute, Handle, Take
  <2>3. /\ Tail(queue[k]) \in Seq(Nat)
        /\ Len(Tail(queue[k])) = Len(queue[k]) - 1
        /\ Head(queue[k]) \in Nat
        /\ Len(queue[k]) \in Nat \ {0}
    BY <2>2, HeadTailProperties, LenProperties, EmptySeq
  <2> HIDE DEF k
  <2>4. /\ queue' = [queue EXCEPT ![k] = Tail(queue[k])]
        /\ commandsInQueues' = Down(commandsInQueues)
        /\ executed' = Append(executed, Head(queue[k]))
        /\ pos' = pos
        /\ pc' \in {"idle", "draining"}
        /\ UNCHANGED <<base, received, gone, roundStart, skipped, restarts>>
    BY <1>4 DEF Execute, Handle, Take, k
  <2>5. queue' \in [Kinds -> Seq(Nat)]
    BY <1>a, <2>1, <2>3, <2>4
  <2>6. /\ commandsInQueues' = (base + Total(queue')) % Limit
        /\ commandsInQueues' \in 0..(Limit - 1)
    <3>1. /\ Total(queue') = (Total(queue) - Len(queue[k])) + (Len(queue[k]) - 1)
          /\ Total(queue) \in Nat /\ Len(queue[k]) <= Total(queue)
      BY <1>a, <2>1, <2>3, <2>4, TotalExcept
    <3>2. PICK n \in Nat : n = base + Total(queue') /\ base + Total(queue) = n + 1
      <4>1. /\ base + Total(queue') \in Nat
            /\ base + Total(queue) = (base + Total(queue')) + 1
        <5>1. PICK x \in Nat : x = Total(queue)
          BY <3>1
        <5>2. PICK y \in Nat : y = Len(queue[k]) /\ y # 0 /\ y <= x
          BY <2>3, <3>1, <5>1
        <5>3. Total(queue') = (x - y) + (y - 1)
          BY <3>1, <5>1, <5>2
        <5>4. /\ base + ((x - y) + (y - 1)) \in Nat
              /\ base + x = (base + ((x - y) + (y - 1))) + 1
          <6>1. base \in Nat /\ y # 0 /\ y <= x
            BY <1>a, <5>2
          <6> HIDE CommandQueuesAssumption
          <6> QED BY <6>1, OneLess, Zenon
        <5> QED BY <5>1, <5>3, <5>4, Zenon
      <4> QED BY <4>1
    <3>3. commandsInQueues' = Down(Up(n % Limit))
      BY <1>a, <2>4, <3>2, Wrapped
    <3> QED BY <3>2, <3>3, Wrapped, UpDown, <2>4
  <2>7. executed' \in Seq(Nat)
    BY <1>a, <2>3, <2>4, AppendProperties DEF TypeOK
  <2> QED BY <1>a, <2>4, <2>5, <2>6, <2>7 DEF CountInv, CountIsExact, Queued, Total, TypeOK
<1>5. CASE NextQueue
  <2>1. pos' \in 1..7
    BY <1>5 DEF NextQueue, Paced
  <2>2. pc' \in {"idle", "draining"}
    BY <1>5 DEF NextQueue
  <2> QED BY <1>5, <1>a, <1>c, <2>1, <2>2 DEF NextQueue, client, history, CountInv, TypeOK
<1>6. CASE Restart
  <2>1. /\ queue' = Empty /\ Empty \in [Kinds -> Seq(Nat)]
        /\ commandsInQueues' = base' /\ base' \in 0..(Limit - 1)
    BY <1>6, EmptySeq DEF Restart, Empty
  <2>2. Total(Empty) = 0
    BY DEF Total, Empty, Kinds
  <2>3. gone' \subseteq Nat
    BY <1>6, <1>b DEF Restart, Numbers
  <2>4. restarts' \in 0..MaxRestarts
    BY <1>6, <1>a DEF Restart, TypeOK
  <2>5. CountIsExact'
    <3>1. (base' + 0) % Limit = base'
      <4>1. PICK b \in 0..(Limit - 1) : b = base'
        BY <2>1
      <4>2. b \in Nat /\ b < Limit /\ b + 0 = b
        <5>1. Limit \in Nat
          BY CommandQueuesAssumption
        <5> HIDE CommandQueuesAssumption
        <5> QED BY <5>1
      <4>3. b % Limit = b
        BY <4>2, Wrapped
      <4>4. (b + 0) % Limit = b
        BY <4>2, <4>3
      <4> QED BY <4>1, <4>4
    <3> QED BY <2>1, <2>2, <3>1 DEF CountIsExact, Queued, Total
  <2>6. UNCHANGED <<pc, pos, received, executed, roundStart>> /\ skipped' = 0
    BY <1>6 DEF Restart
  <2> QED BY <1>a, <2>1, <2>3, <2>4, <2>5, <2>6 DEF CountInv, TypeOK
<1>7. CASE UNCHANGED vars
  BY <1>7, <1>a, <1>c DEF vars, client, ea, history, CountInv, TypeOK
<1> QED BY <1>1, <1>2, <1>3, <1>4, <1>5, <1>6, <1>7 DEF Next, Expert, Wake, Timeout

LEMMA PacedStep == TypeOK /\ Paced /\ [Next]_vars => Paced'
<1> SUFFICES ASSUME TypeOK, Paced, [Next]_vars PROVE Paced'
  OBVIOUS
<1> USE DEF Paced, TypeOK
<1>1. ASSUME NEW k \in Sent, Push(k) PROVE Paced'
  BY <1>1 DEF Push
<1>2. ASSUME NEW found \in BOOLEAN, Answer(found) PROVE Paced'
  BY <1>2 DEF Answer
<1>3. CASE OnTimer
  BY <1>2, <1>3 DEF OnTimer
<1>4. CASE Execute
  BY <1>4 DEF Execute, Handle, Take
<1>5. CASE NextQueue
  BY <1>5 DEF NextQueue
<1>6. CASE Restart
  BY <1>6 DEF Restart
<1>7. CASE UNCHANGED vars
  BY <1>7 DEF vars, ea
<1> QED BY <1>1, <1>2, <1>3, <1>4, <1>5, <1>6, <1>7 DEF Next, Expert, Wake, Timeout

LEMMA CountInit == Init => CountInv /\ Paced
<1> SUFFICES ASSUME Init PROVE CountInv /\ Paced
  OBVIOUS
<1>1. Empty \in [Kinds -> Seq(Nat)] /\ \A k \in Kinds : Len(Empty[k]) = 0
  BY EmptySeq DEF Empty
<1>2. /\ queue = Empty /\ commandsInQueues = base /\ base \in 0..(Limit - 1)
      /\ CountIsExact
  <2>1. /\ queue = Empty /\ commandsInQueues = base /\ base \in 0..(Limit - 1)
    BY CommandQueuesAssumption DEF Init
  <2>2. Queued = 0
    BY <1>1, <2>1 DEF Queued, Kinds
  <2>3. (base + 0) % Limit = base
    BY <2>1, Wrapped, CommandQueuesAssumption
  <2> QED BY <2>1, <2>2, <2>3 DEF CountIsExact
<1>3. received \in Seq(Kinds) /\ executed \in Seq(Nat) /\ Len(received) = 0
  BY EmptySeq DEF Init
<1>4. /\ roundStart \in 0..Len(received) /\ skipped \in 0..2
      /\ restarts \in 0..MaxRestarts /\ gone \subseteq Nat
  BY <1>3, CommandQueuesAssumption DEF Init
<1>5. pc = "idle" /\ pos = 7
  BY DEF Init
<1> QED BY <1>1, <1>2, <1>3, <1>4, <1>5 DEF CountInv, TypeOK, Paced

------------------------------------------------------------------------------
(* What each operation does to the elements of the queues.                 *)

(* The front of a queue is taken: every element that stays had a place.    *)
LEMMA TailElements ==
  ASSUME NEW s \in Seq(Nat), s # <<>>
  PROVE  /\ Head(s) = s[1] /\ 1 \in DOMAIN s
         /\ Tail(s) \in Seq(Nat)
         /\ \A i \in DOMAIN Tail(s) : i + 1 \in DOMAIN s /\ Tail(s)[i] = s[i + 1]
         /\ \A i \in DOMAIN s : i = 1 \/ (i - 1 \in DOMAIN Tail(s) /\ Tail(s)[i - 1] = s[i])
         /\ DOMAIN s \subseteq Nat
BY HeadTailProperties, LenProperties, EmptySeq

(* An element is pushed: it comes last.                                    *)
LEMMA AppendElements ==
  ASSUME NEW s \in Seq(Nat), NEW n \in Nat
  PROVE  /\ Append(s, n) \in Seq(Nat)
         /\ Append(s, n)[Len(s) + 1] = n
         /\ \A i \in DOMAIN s : i \in DOMAIN Append(s, n) /\ Append(s, n)[i] = s[i] /\ i <= Len(s)
         /\ DOMAIN Append(s, n) = DOMAIN s \cup {Len(s) + 1}
         /\ DOMAIN s \subseteq Nat /\ Len(s) \in Nat
BY AppendProperties, LenProperties

LEMMA RoundStep == TypeOK /\ Paced /\ RoundDrains /\ [Next]_vars => RoundDrains'
<1> SUFFICES ASSUME TypeOK, Paced, RoundDrains, [Next]_vars PROVE RoundDrains'
  OBVIOUS
<1>a. /\ queue \in [Kinds -> Seq(Nat)] /\ pos \in 1..7
      /\ Len(received) \in Nat /\ roundStart \in 0..Len(received)
  BY LenProperties DEF TypeOK
<1>b. \A p \in 1..(pos - 1) : p \in 1..6 /\ p # pos /\ DrainOrder[p] \in Kinds
  <2>1. \A p \in 1..(pos - 1) : p \in 1..6 /\ p # pos
    BY <1>a
  <2> QED BY <2>1, DrainKinds
<1>1. ASSUME NEW k \in Sent, Push(k) PROVE RoundDrains'
  <2>1. k \in Kinds
    BY CommandQueuesAssumption
  <2>2. queue' = [queue EXCEPT ![k] = Append(queue[k], Len(received) + 1)]
    BY <1>1 DEF Push
  <2>3. \A j \in Kinds : \A i \in DOMAIN queue'[j] :
          (i \in DOMAIN queue[j] /\ queue'[j][i] = queue[j][i]) \/ queue'[j][i] > roundStart
    BY <1>a, <2>1, <2>2, AppendElements
  <2> QED BY <1>1, <1>a, <1>b, <2>3 DEF Push, RoundDrains
<1>2. ASSUME Answer(TRUE) PROVE RoundDrains'
  <2>1. pos' = 1
    BY <1>2 DEF Answer
  <2>2. 1..(1 - 1) = {}
    OBVIOUS
  <2> QED BY <2>1, <2>2 DEF RoundDrains
<1>3. CASE Execute
  <2>1. /\ queue' = [queue EXCEPT ![DrainOrder[pos]] = Tail(queue[DrainOrder[pos]])]
        /\ UNCHANGED <<pos, roundStart>> /\ pos \in 1..6
    BY <1>3 DEF Execute, Handle, Take, Paced
  <2>2. \A p \in 1..(pos - 1) : DrainOrder[p] # DrainOrder[pos] /\ DrainOrder[p] \in Kinds
    BY <1>b, <2>1, DrainDistinct
  <2>3. \A p \in 1..(pos - 1) : queue'[DrainOrder[p]] = queue[DrainOrder[p]]
    BY <1>a, <2>1, <2>2
  <2> QED BY <2>1, <2>3 DEF RoundDrains
<1>4. CASE NextQueue
  <2>1. /\ queue[DrainOrder[pos]] = <<>> /\ pos' = pos + 1
        /\ UNCHANGED <<queue, roundStart>> /\ pos \in 1..6
    BY <1>4 DEF NextQueue, client, Paced
  <2>2. \A p \in 1..(pos' - 1) : p \in 1..(pos - 1) \/ p = pos
    BY <2>1
  <2>3. \A p \in 1..(pos' - 1) : \A i \in DOMAIN queue[DrainOrder[p]] :
          queue[DrainOrder[p]][i] > roundStart
    <3>1. DOMAIN queue[DrainOrder[pos]] = {}
      BY <2>1
    <3>2. ASSUME NEW p \in 1..(pos' - 1), NEW i \in DOMAIN queue[DrainOrder[p]]
          PROVE  queue[DrainOrder[p]][i] > roundStart
      <4>1. p \in 1..(pos - 1)
        BY <2>2, <3>1, <3>2
      <4> QED BY <3>2, <4>1 DEF RoundDrains
    <3> QED BY <3>2
  <2> QED BY <2>1, <2>3 DEF RoundDrains
<1>5. CASE Restart
  <2>1. \A k \in Kinds : queue'[k] = <<>>
    BY <1>5 DEF Restart, Empty
  <2>2. UNCHANGED <<pos, roundStart>>
    BY <1>5 DEF Restart
  <2> QED BY <1>b, <2>1, <2>2 DEF RoundDrains
<1>6. CASE UNCHANGED <<queue, pos, roundStart>>
  BY <1>6 DEF RoundDrains
<1>7. CASE OnTimer \/ Wake
  <2>1. CASE Answer(TRUE)
    BY <1>2, <2>1
  <2> QED BY <1>7, <1>6, <2>1 DEF OnTimer, Wake, client
<1>8. CASE Timeout
  <2>1. UNCHANGED <<queue, roundStart>> /\ pos' = pos
    BY <1>8 DEF Timeout, Answer, client, Paced
  <2> QED BY <2>1 DEF RoundDrains
<1> QED BY <1>1, <1>3, <1>4, <1>5, <1>6, <1>7, <1>8 DEF Next, Expert, vars, client, ea

(* The state invariant of a round, and what it rests on.                   *)
LEMMA Invariants == Init /\ [][Next]_vars => [](CountInv /\ Paced /\ RoundDrains)
<1>1. Init => CountInv /\ Paced /\ RoundDrains
  <2>1. Init => RoundDrains
    BY DrainKinds DEF Init, RoundDrains, Empty
  <2> QED BY <2>1, CountInit
<1>2. CountInv => TypeOK
  BY DEF CountInv
<1> QED BY <1>1, <1>2, CountStep, PacedStep, RoundStep, PTL

(* The types of the queues, the counter and the EA's place in its round.   *)
THEOREM TypeCorrect == Spec => []TypeOK
<1>1. CountInv => TypeOK
  BY DEF CountInv
<1> QED BY <1>1, Invariants, PTL DEF Spec

(* The counter is, in every reachable state, the number of commands in the *)
(* six queues on top of the value the memory held when the client was      *)
(* made: the increments and decrements of the two threads never part from  *)
(* what they count, also when the counter wraps.                           *)
THEOREM CountCorrect == Spec => []CountIsExact
<1>1. CountInv => CountIsExact
  BY DEF CountInv
<1> QED BY <1>1, Invariants, PTL DEF Spec

(* A round of OnTimer() executes every command that was queued when it     *)
(* began: at its end all that is queued came later.                        *)
THEOREM RoundCorrect == Spec => []RoundDrains
BY Invariants, PTL DEF Spec

------------------------------------------------------------------------------
(* The queues implement CommandPipe.                                       *)

(* What a received command leaves of Placed when it is pushed.             *)
LEMMA PlacedPush ==
  ASSUME TypeOK, Placed, NEW k \in Sent, Push(k)
  PROVE  Placed'
<1> DEFINE n == Len(received) + 1
<1>a. /\ k \in Kinds /\ queue \in [Kinds -> Seq(Nat)] /\ received \in Seq(Kinds)
      /\ Len(received) \in Nat /\ n \in Nat
  BY CommandQueuesAssumption, LenProperties DEF TypeOK
<1>1. /\ queue' = [queue EXCEPT ![k] = Append(queue[k], n)]
      /\ received' = Append(received, k)
      /\ UNCHANGED <<executed, gone>>
  BY DEF Push
<1>2. /\ Numbers' = Numbers \cup {n}
      /\ \A m \in Numbers : received'[m] = received[m] /\ m < n
      /\ received'[n] = k
  <2>1. /\ Len(received') = Len(received) + 1
        /\ \A m \in 1..Len(received) : received'[m] = received[m]
        /\ received'[Len(received) + 1] = k
    BY <1>a, <1>1, AppendProperties
  <2> QED BY <1>a, <2>1 DEF Numbers
<1>3. Done' = Done /\ gone' = gone
  BY <1>1 DEF Done
<1> HIDE DEF n
<1>4. n \notin Numbers
  BY <1>a, <1>2 DEF Numbers
<1>5. /\ queue'[k] = Append(queue[k], n)
      /\ \A j \in Kinds : j # k => queue'[j] = queue[j]
  BY <1>a, <1>1
<1>6. \A i \in DOMAIN queue'[k] :
        \/ i \in DOMAIN queue[k] /\ queue'[k][i] = queue[k][i] /\ i <= Len(queue[k])
        \/ i = Len(queue[k]) + 1 /\ queue'[k][i] = n
  <2>1. /\ DOMAIN queue'[k] = DOMAIN queue[k] \cup {Len(queue[k]) + 1}
        /\ queue'[k][Len(queue[k]) + 1] = n
        /\ \A i \in DOMAIN queue[k] : queue'[k][i] = queue[k][i] /\ i <= Len(queue[k])
    <3>1. queue[k] \in Seq(Nat) /\ queue'[k] = Append(queue[k], n)
      BY <1>a, <1>5
    <3>2. \A i \in DOMAIN queue[k] : i <= Len(queue[k])
      BY <1>a, <3>1, AppendElements
    <3>3. /\ DOMAIN Append(queue[k], n) = DOMAIN queue[k] \cup {Len(queue[k]) + 1}
          /\ Append(queue[k], n)[Len(queue[k]) + 1] = n
          /\ \A i \in DOMAIN queue[k] : Append(queue[k], n)[i] = queue[k][i]
      BY <1>a, <3>1, AppendElements
    <3> QED BY <3>1, <3>2, <3>3
  <2> QED BY <2>1
<1>7. \A j \in Kinds : \A i \in DOMAIN queue[j] : i \in DOMAIN queue'[j] /\ queue'[j][i] = queue[j][i]
  <2>1. \A i \in DOMAIN queue[k] : i \in DOMAIN Append(queue[k], n) /\ Append(queue[k], n)[i] = queue[k][i]
    BY <1>a, AppendElements
  <2> QED BY <1>5, <2>1
<1>8. (Done \cup gone \subseteq Numbers)'
  BY <1>2, <1>3 DEF Placed
<1>9. ASSUME NEW j \in Kinds, NEW i \in DOMAIN queue'[j]
      PROVE  /\ queue'[j][i] \in Numbers' \ (Done' \cup gone')
             /\ received'[queue'[j][i]] = j
  <2>1. CASE i \in DOMAIN queue[j] /\ queue'[j][i] = queue[j][i]
    BY <1>2, <1>3, <2>1 DEF Placed
  <2>2. CASE j = k /\ queue'[j][i] = n
    BY <1>2, <1>3, <1>4, <2>2 DEF Placed
  <2> QED BY <1>5, <1>6, <1>9, <2>1, <2>2
<1>10. ASSUME NEW j \in Kinds, NEW i \in DOMAIN queue'[j], NEW h \in DOMAIN queue'[j], i < h
       PROVE  queue'[j][i] < queue'[j][h]
  <2>1. CASE j # k
    BY <1>5, <1>10, <2>1 DEF Placed
  <2>2. CASE j = k
    <3>1. CASE h \in DOMAIN queue[k] /\ i \in DOMAIN queue[k]
      BY <1>7, <1>10, <2>2, <3>1, <1>a DEF Placed
    <3>2. CASE h = Len(queue[k]) + 1 /\ i \in DOMAIN queue[k]
      <4>1. queue[k][i] \in Numbers /\ queue'[k][i] = queue[k][i] /\ queue'[k][h] = n
        BY <1>a, <1>5, <1>7, <3>2, AppendElements DEF Placed
      <4> QED BY <1>2, <2>2, <4>1
    <3>3. i \in DOMAIN queue[k]
      <4>1. Len(queue[k]) \in Nat /\ DOMAIN queue'[k] = DOMAIN queue[k] \cup {Len(queue[k]) + 1}
            /\ \A m \in DOMAIN queue[k] : m <= Len(queue[k])
        BY <1>a, <1>5, AppendElements
      <4>2. h \in Nat /\ h <= Len(queue[k]) + 1
        BY <1>10, <2>2, <4>1, <1>a, AppendElements
      <4> QED BY <1>10, <2>2, <4>1, <4>2
    <3> QED BY <1>6, <1>10, <2>2, <3>1, <3>2, <3>3
  <2> QED BY <2>1, <2>2
<1>11. ASSUME NEW m \in Numbers' \ (Done' \cup gone')
       PROVE  \E i \in DOMAIN queue'[received'[m]] : queue'[received'[m]][i] = m
  <2>1. CASE m = n
    <3>1. Len(queue[k]) + 1 \in DOMAIN queue'[k] /\ queue'[k][Len(queue[k]) + 1] = n
      BY <1>a, <1>5, AppendElements
    <3> QED BY <1>2, <2>1, <3>1
  <2>2. CASE m \in Numbers
    <3>1. received[m] \in Kinds /\ received'[m] = received[m]
      BY <1>a, <1>2, <2>2, ElementOfSeq DEF Numbers
    <3>2. PICK i \in DOMAIN queue[received[m]] : queue[received[m]][i] = m
      BY <1>3, <1>11, <2>2 DEF Placed
    <3> QED BY <1>7, <3>1, <3>2
  <2> QED BY <1>2, <2>1, <2>2
<1> QED BY <1>8, <1>9, <1>10, <1>11 DEF Placed

(* ... and when a command of kind k is executed.                           *)
LEMMA PlacedExecute ==
  ASSUME TypeOK, Placed, Paced, Execute
  PROVE  /\ Placed'
         /\ \E n \in Numbers : Pipe!Execute(n)
<1> DEFINE k == DrainOrder[pos]
           n == Head(queue[k])
<1>1. k \in Kinds
  BY DrainKinds DEF Execute, Paced
<1>2. /\ queue[k] # <<>>
      /\ queue' = [queue EXCEPT ![k] = Tail(queue[k])]
      /\ executed' = Append(executed, n)
      /\ UNCHANGED <<received, gone>>
  BY DEF Execute, Handle, Take
<1> HIDE DEF k
<1>a. /\ queue \in [Kinds -> Seq(Nat)] /\ queue[k] \in Seq(Nat)
      /\ received \in Seq(Kinds) /\ executed \in Seq(Nat)
  BY <1>1 DEF TypeOK
<1>3. /\ n = queue[k][1] /\ 1 \in DOMAIN queue[k]
      /\ queue'[k] = Tail(queue[k])
      /\ \A i \in DOMAIN queue'[k] : i + 1 \in DOMAIN queue[k] /\ queue'[k][i] = queue[k][i + 1]
      /\ \A i \in DOMAIN queue[k] : i = 1 \/ (i - 1 \in DOMAIN queue'[k] /\ queue'[k][i - 1] = queue[k][i])
      /\ DOMAIN queue[k] \subseteq Nat /\ DOMAIN queue'[k] \subseteq Nat
  BY <1>a, <1>1, <1>2, TailElements, LenProperties
<1> HIDE DEF n
<1>4. n \in Numbers \ (Done \cup gone) /\ received[n] = k /\ n \in Nat
  <2>1. n \in Numbers \ (Done \cup gone) /\ received[n] = k
    BY <1>1, <1>3 DEF Placed
  <2> QED BY <2>1 DEF Numbers
<1>5. \A j \in Kinds : j # k => queue'[j] = queue[j]
  BY <1>a, <1>1, <1>2
<1>6. Done' = Done \cup {n} /\ Numbers' = Numbers
  <2>1. n \in Nat
    BY <1>4
  <2>2. \A i \in DOMAIN executed' : (i \in DOMAIN executed /\ executed'[i] = executed[i]) \/ executed'[i] = n
    <3>1. /\ DOMAIN executed' = DOMAIN executed \cup {Len(executed) + 1}
          /\ executed'[Len(executed) + 1] = n
          /\ \A i \in DOMAIN executed : executed'[i] = executed[i]
      BY <1>a, <1>2, <2>1, AppendElements
    <3> QED BY <3>1
  <2>3. /\ \A i \in DOMAIN executed : i \in DOMAIN executed' /\ executed'[i] = executed[i]
        /\ Len(executed) + 1 \in DOMAIN executed' /\ executed'[Len(executed) + 1] = n
    BY <1>a, <1>2, <2>1, AppendElements
  <2>4. Done' = {executed'[i] : i \in DOMAIN executed'} /\ Done = {executed[i] : i \in DOMAIN executed}
    BY DEF Done
  <2>5. /\ \A i \in DOMAIN executed' : executed'[i] \in Done \cup {n}
        /\ \A i \in DOMAIN executed : executed[i] \in Done'
        /\ n \in Done'
    <3>1. \A i \in DOMAIN executed' : executed'[i] \in Done \cup {n}
      BY <2>2, <2>4
    <3>2. (\A i \in DOMAIN executed : executed[i] \in Done') /\ n \in Done'
      BY <2>3, <2>4
    <3> QED BY <3>1, <3>2
  <2>6. Done' = Done \cup {n}
    BY <2>4, <2>5
  <2>7. received' = received
    BY <1>2
  <2>8. Numbers' = Numbers
    BY <2>7 DEF Numbers
  <2> QED BY <2>6, <2>8
<1>7. \A i \in DOMAIN queue[k] : i # 1 => n < queue[k][i]
  <2>1. \A i \in DOMAIN queue[k] : i # 1 => 1 < i
    <3>1. DOMAIN queue[k] = 1..Len(queue[k]) /\ Len(queue[k]) \in Nat
      BY <1>a, LenProperties
    <3> QED BY <3>1
  <2>2. \A i, j \in DOMAIN queue[k] : i < j => queue[k][i] < queue[k][j]
    BY <1>1 DEF Placed
  <2> QED BY <1>3, <2>1, <2>2
<1>8. \A i \in DOMAIN queue'[k] : n < queue'[k][i] /\ queue'[k][i] # n
  <2> SUFFICES ASSUME NEW i \in DOMAIN queue'[k]
               PROVE  n < queue'[k][i] /\ queue'[k][i] # n
    OBVIOUS
  <2>1. i + 1 \in DOMAIN queue[k] /\ i + 1 # 1 /\ queue'[k][i] = queue[k][i + 1]
    BY <1>3
  <2>2. queue[k][i + 1] \in Nat
    BY <1>a, <2>1
  <2> QED BY <1>4, <1>7, <2>1, <2>2
<1>9. (Done \cup gone \subseteq Numbers)'
  BY <1>2, <1>4, <1>6 DEF Placed
<1>10. ASSUME NEW j \in Kinds, NEW i \in DOMAIN queue'[j]
       PROVE  /\ queue'[j][i] \in Numbers' \ (Done' \cup gone')
              /\ received'[queue'[j][i]] = j
  <2>1. CASE j # k
    BY <1>2, <1>4, <1>5, <1>6, <1>10, <2>1 DEF Placed
  <2>2. CASE j = k
    BY <1>2, <1>3, <1>6, <1>8, <1>10, <2>2 DEF Placed
  <2> QED BY <2>1, <2>2
<1>11. ASSUME NEW j \in Kinds, NEW i \in DOMAIN queue'[j], NEW h \in DOMAIN queue'[j], i < h
       PROVE  queue'[j][i] < queue'[j][h]
  <2>1. CASE j # k
    BY <1>5, <1>11, <2>1 DEF Placed
  <2>2. CASE j = k
    <3>1. i \in DOMAIN queue'[k] /\ h \in DOMAIN queue'[k] /\ i \in Nat /\ h \in Nat
      BY <1>3, <1>11, <2>2
    <3>2. /\ i + 1 \in DOMAIN queue[k] /\ queue'[k][i] = queue[k][i + 1]
          /\ h + 1 \in DOMAIN queue[k] /\ queue'[k][h] = queue[k][h + 1]
      BY <1>3, <3>1
    <3>3. i + 1 < h + 1
      BY <1>11, <3>1
    <3>4. queue[k][i + 1] < queue[k][h + 1]
      BY <1>1, <3>2, <3>3 DEF Placed
    <3> QED BY <2>2, <3>2, <3>4
  <2> QED BY <2>1, <2>2
<1>12. ASSUME NEW m \in Numbers' \ (Done' \cup gone')
       PROVE  \E i \in DOMAIN queue'[received'[m]] : queue'[received'[m]][i] = m
  <2>1. m \in Numbers \ (Done \cup gone) /\ m # n
    BY <1>2, <1>6, <1>12
  <2>2. PICK i \in DOMAIN queue[received[m]] : queue[received[m]][i] = m
    BY <2>1 DEF Placed
  <2>3. received[m] \in Kinds /\ received'[m] = received[m]
    BY <1>a, <1>2, <2>1, ElementOfSeq DEF Numbers
  <2>4. CASE received[m] # k
    BY <1>5, <2>2, <2>3, <2>4
  <2>5. CASE received[m] = k
    <3>1. i # 1
      BY <1>3, <2>1, <2>2, <2>5
    <3>2. i \in DOMAIN queue[k] /\ queue[k][i] = m
      BY <2>2, <2>5
    <3>3. i - 1 \in DOMAIN queue'[k] /\ queue'[k][i - 1] = m
      BY <1>3, <3>1, <3>2
    <3> QED BY <2>3, <2>5, <3>3
  <2> QED BY <2>4, <2>5
<1>13. Placed'
  BY <1>9, <1>10, <1>11, <1>12 DEF Placed
<1>14. ASSUME NEW m \in Numbers, m < n, received[m] = received[n]
       PROVE  m \in Done \cup gone
  <2> SUFFICES ASSUME m \notin Done \cup gone PROVE FALSE
    OBVIOUS
  <2>1. PICK i \in DOMAIN queue[k] : queue[k][i] = m
    BY <1>4, <1>14 DEF Placed
  <2>2. i = 1 \/ n < m
    BY <1>7, <2>1
  <2>3. m \in Nat
    BY DEF Numbers
  <2> QED BY <1>3, <1>4, <1>14, <2>1, <2>2, <2>3
<1>15. Pipe!Execute(n)
  BY <1>2, <1>4, <1>6, <1>14 DEF Pipe!Execute, Pipe!Numbers, Numbers
<1> QED BY <1>4, <1>13, <1>15

LEMMA PlacedStep == TypeOK /\ Paced /\ Placed /\ [Next]_vars => Placed'
<1> SUFFICES ASSUME TypeOK, Paced, Placed, [Next]_vars PROVE Placed'
  OBVIOUS
<1>1. ASSUME NEW k \in Sent, Push(k) PROVE Placed'
  BY <1>1, PlacedPush
<1>2. CASE Execute
  BY <1>2, PlacedExecute
<1>3. CASE Restart
  <2>1. \A k \in Kinds : queue'[k] = <<>> /\ DOMAIN queue'[k] = {}
    BY <1>3 DEF Restart, Empty
  <2>2. Numbers' = Numbers /\ Done' = Done /\ gone' = Numbers \ Done
    BY <1>3 DEF Restart, Numbers, Done
  <2> QED BY <2>1, <2>2 DEF Placed
<1>4. CASE UNCHANGED <<queue, received, executed, gone>>
  BY <1>4 DEF Placed, Numbers, Done
<1> QED BY <1>1, <1>2, <1>3, <1>4
        DEF Next, Expert, OnTimer, Wake, Timeout, Answer, NextQueue, vars, client, history

(* Every command received is in exactly one place, in the order of receipt. *)
THEOREM PlacedCorrect == Spec => []Placed
<1>1. Init => Placed
  BY EmptySeq DEF Init, Placed, Numbers, Done, Empty
<1>2. CountInv => TypeOK
  BY DEF CountInv
<1> QED BY <1>1, <1>2, Invariants, PlacedStep, PTL DEF Spec

(* Each command is executed at most once, in the order of receipt among    *)
(* those of its kind, and only the removal of the EA loses any: whatever   *)
(* the interleaving of io thread and EA, the queues implement CommandPipe. *)
THEOREM ImplementsPipe == Spec => PipeSpec
<1>1. Init => Pipe!Init
  BY DEF Init, Pipe!Init, Done
<1>2. TypeOK /\ Paced /\ Placed /\ [Next]_vars => [Pipe!Next]_Pipe!vars
  <2> SUFFICES ASSUME TypeOK, Paced, Placed, [Next]_vars
               PROVE  Pipe!Next \/ UNCHANGED <<received, Done, gone>>
    BY DEF Pipe!vars
  <2>1. ASSUME NEW k \in Sent, Push(k) PROVE Pipe!Next
    <3>1. k \in Kinds
      BY CommandQueuesAssumption
    <3> QED BY <2>1, <3>1 DEF Push, Pipe!Next, Pipe!Receive, Done
  <2>2. CASE Execute
    <3>1. PICK n \in Numbers : Pipe!Execute(n)
      BY <2>2, PlacedExecute
    <3> QED BY <3>1 DEF Pipe!Next, Pipe!Numbers, Numbers
  <2>3. CASE Restart
    BY <2>3 DEF Restart, Pipe!Next, Pipe!Drop, Pipe!Numbers, Numbers, Done
  <2>4. CASE UNCHANGED <<received, executed, gone>>
    BY <2>4 DEF Done
  <2> QED BY <2>1, <2>2, <2>3, <2>4
          DEF Next, Expert, OnTimer, Wake, Timeout, Answer, NextQueue, vars, client, history
<1>3. CountInv => TypeOK
  BY DEF CountInv
<1> QED BY <1>1, <1>2, <1>3, Invariants, PlacedCorrect, PTL DEF Spec, PipeSpec, Pipe!Spec


------------------------------------------------------------------------------
(* The timer events that pass a command over.                              *)

(* What is queued was received and is not executed.                        *)
Within == Total(queue) + Len(executed) <= Len(received)

LEMMA WithinStep == TypeOK /\ Paced /\ Within /\ [Next]_vars => Within'
<1> SUFFICES ASSUME TypeOK, Paced, Within, [Next]_vars PROVE Within'
  OBVIOUS
<1>a. /\ queue \in [Kinds -> Seq(Nat)] /\ received \in Seq(Kinds) /\ executed \in Seq(Nat)
      /\ Len(received) \in Nat /\ Len(executed) \in Nat
  BY LenProperties DEF TypeOK
<1>b. Total(queue) \in Nat
  <2>1. "OpenOrder" \in Kinds /\ queue["OpenOrder"] \in Seq(Nat)
    BY <1>a DEF Kinds
  <2> QED BY <1>a, <2>1, TotalExcept
<1>1. ASSUME NEW k \in Sent, Push(k) PROVE Within'
  <2>1. k \in Kinds
    BY CommandQueuesAssumption
  <2>2. /\ Append(queue[k], Len(received) + 1) \in Seq(Nat)
        /\ Len(Append(queue[k], Len(received) + 1)) = Len(queue[k]) + 1
        /\ Len(queue[k]) \in Nat
    BY <1>a, <2>1, AppendProperties, LenProperties
  <2>3. Len(received') = Len(received) + 1 /\ executed' = executed
    BY <1>1, <1>a, <2>1, AppendProperties DEF Push
  <2>4. queue' = [queue EXCEPT ![k] = Append(queue[k], Len(received) + 1)]
    BY <1>1 DEF Push
  <2>5. Total(queue') = (Total(queue) - Len(queue[k])) + (Len(queue[k]) + 1)
    BY <1>a, <2>1, <2>2, <2>4, TotalExcept
  <2> QED BY <1>a, <1>b, <2>2, <2>3, <2>5 DEF Within
<1>2. CASE Execute
  <2>1. PICK k \in Kinds : /\ queue[k] # <<>>
                           /\ queue' = [queue EXCEPT ![k] = Tail(queue[k])]
                           /\ executed' = Append(executed, Head(queue[k]))
                           /\ received' = received
    BY <1>2, DrainKinds DEF Execute, Handle, Take, Paced
  <2>2. /\ Tail(queue[k]) \in Seq(Nat)
        /\ Len(Tail(queue[k])) = Len(queue[k]) - 1
        /\ Head(queue[k]) \in Nat
        /\ Len(queue[k]) \in Nat
    BY <1>a, <2>1, HeadTailProperties, LenProperties, EmptySeq
  <2>3. Len(executed') = Len(executed) + 1
    BY <1>a, <2>1, <2>2, AppendProperties
  <2>4. Total(queue') = (Total(queue) - Len(queue[k])) + (Len(queue[k]) - 1)
    BY <1>a, <2>1, <2>2, TotalExcept
  <2> QED BY <1>a, <1>b, <2>1, <2>2, <2>3, <2>4 DEF Within
<1>3. CASE Restart
  <2>1. queue' = Empty /\ UNCHANGED <<received, executed>>
    BY <1>3 DEF Restart
  <2>2. Total(Empty) = 0
    BY DEF Total, Empty, Kinds
  <2> QED BY <1>a, <1>b, <2>1, <2>2 DEF Within
<1>4. CASE UNCHANGED <<queue, received, executed>>
  BY <1>4 DEF Within
<1> QED BY <1>1, <1>2, <1>3, <1>4
        DEF Next, Expert, OnTimer, Wake, Timeout, Answer, NextQueue, vars, client, history

(* As long as the counter has not wrapped it shows every command.          *)
LEMMA Shown ==
  CountInv /\ Within /\ ~Wraps => commandsInQueues = base + Queued /\ Queued \in Nat
<1> SUFFICES ASSUME CountInv, Within, ~Wraps
             PROVE  commandsInQueues = base + Queued /\ Queued \in Nat
  OBVIOUS
<1>1. /\ queue \in [Kinds -> Seq(Nat)] /\ base \in Nat
      /\ Len(received) \in Nat /\ Len(executed) \in Nat
      /\ Queued = Total(queue)
  BY LenProperties DEF CountInv, TypeOK, Queued, Total
<1>2. Total(queue) \in Nat
  <2>1. "OpenOrder" \in Kinds /\ queue["OpenOrder"] \in Seq(Nat)
    BY <1>1 DEF Kinds
  <2> QED BY <1>1, <2>1, TotalExcept
<1>3. PICK n \in Nat : n = base + Queued
  BY <1>1, <1>2
<1>4. n < Limit
  <2>1. Queued <= Len(received)
    BY <1>1, <1>2 DEF Within
  <2>2. base + Len(received) < Limit
    BY <1>1, CommandQueuesAssumption DEF Wraps
  <2> QED BY <1>1, <1>2, <1>3, <2>1, <2>2, CommandQueuesAssumption
<1>5. n % Limit = n
  BY <1>4, Wrapped
<1> QED BY <1>1, <1>2, <1>3, <1>5 DEF CountInv, CountIsExact

(* A command was passed over: the EA has not looked again, and the counter *)
(* still shows it to the next timer event.                                 *)
PassedOver ==
  \/ Wraps
  \/ /\ skipped \in {0, 1}
     /\ skipped = 1 => pc = "idle" /\ Queued > 0

LEMMA PassedOverStep ==
  CountInv /\ Within /\ PassedOver /\ [Next]_vars => PassedOver'
<1> SUFFICES ASSUME CountInv, Within, PassedOver, [Next]_vars, ~Wraps'
             PROVE  PassedOver'
  BY DEF PassedOver
<1>a. /\ base \in Nat /\ Len(received) \in Nat /\ skipped \in 0..2
      /\ received \in Seq(Kinds) /\ queue \in [Kinds -> Seq(Nat)]
  BY LenProperties DEF CountInv, TypeOK
<1>1. CASE Restart
  BY <1>1 DEF Restart, PassedOver
<1>2. ASSUME ~Restart PROVE ~Wraps /\ base' = base
  <2>1. ASSUME NEW k \in Sent, Push(k) PROVE base' = base /\ Len(received') = Len(received) + 1
    BY <2>1, <1>a, AppendProperties, CommandQueuesAssumption DEF Push
  <2>2. CASE UNCHANGED <<base, received>>
    BY <2>2 DEF Wraps
  <2>3. CASE \E k \in Sent : Push(k)
    BY <1>a, <2>1, <2>3, CommandQueuesAssumption DEF Wraps
  <2> QED BY <1>2, <2>2, <2>3
          DEF Next, Expert, OnTimer, Wake, Timeout, Answer, Execute, Handle, Take,
              NextQueue, vars, client, history
<1>b. ASSUME ~Wraps, base' = base
      PROVE  /\ commandsInQueues = base + Queued /\ Queued \in Nat
             /\ skipped \in {0, 1} /\ (skipped = 1 => pc = "idle" /\ Queued > 0)
  BY <1>b, Shown DEF PassedOver
<1>3. ASSUME NEW k \in Sent, Push(k), ~Wraps, base' = base PROVE PassedOver'
  <2>1. UNCHANGED <<pc, skipped>>
    BY <1>3 DEF Push
  <2>2. Queued > 0 => Queued' > 0
    <3>1. k \in Kinds
      BY CommandQueuesAssumption
    <3>2. /\ Append(queue[k], Len(received) + 1) \in Seq(Nat)
          /\ Len(Append(queue[k], Len(received) + 1)) = Len(queue[k]) + 1
          /\ Len(queue[k]) \in Nat
      BY <1>a, <3>1, AppendProperties, LenProperties
    <3>3. queue' = [queue EXCEPT ![k] = Append(queue[k], Len(received) + 1)]
      BY <1>3 DEF Push
    <3>4. Total(queue') = (Total(queue) - Len(queue[k])) + (Len(queue[k]) + 1) /\ Total(queue) \in Nat
      BY <1>a, <3>1, <3>2, <3>3, TotalExcept
    <3>5. Total(queue) = Queued /\ Total(queue') = Queued'
      BY DEF Total, Queued
    <3> QED BY <3>2, <3>4, <3>5
  <2> QED BY <1>b, <1>3, <2>1, <2>2 DEF PassedOver
<1>c. UNCHANGED client => Queued' = Queued
  BY DEF client, Queued
<1>4. ASSUME OnTimer, ~Wraps, base' = base PROVE PassedOver'
  <2>1. CASE Answer(TRUE)
    BY <2>1 DEF Answer, PassedOver
  <2>2. CASE /\ commandsInQueues = 0
             /\ UNCHANGED <<skipped, client>>
    <3>1. Queued = 0
      BY <1>a, <1>b, <1>4, <2>2
    <3>2. skipped = 0
      BY <1>b, <1>4, <3>1
    <3> QED BY <2>2, <3>2 DEF PassedOver
  <2> QED BY <1>4, <2>1, <2>2 DEF OnTimer
<1>5. CASE Wake
  BY <1>5 DEF Wake, Answer, PassedOver
<1>6. ASSUME Timeout, ~Wraps, base' = base PROVE PassedOver'
  <2>1. skipped = 0
    BY <1>b, <1>6 DEF Timeout
  <2>2. /\ pc' = "idle" /\ UNCHANGED client
        /\ skipped' = IF Queued = 0 THEN 0 ELSE 1
    BY <1>6, <2>1 DEF Timeout, Answer
  <2>3. Queued' = Queued /\ Queued \in Nat
    BY <1>b, <1>c, <1>6, <2>2
  <2> QED BY <2>1, <2>2, <2>3 DEF PassedOver
<1>7. ASSUME Execute \/ NextQueue, ~Wraps, base' = base PROVE PassedOver'
  <2>1. pc = "draining" /\ skipped' = skipped
    BY <1>7 DEF Execute, Handle, Take, NextQueue
  <2>2. skipped = 0
    BY <1>b, <1>7, <2>1
  <2> QED BY <2>1, <2>2 DEF PassedOver
<1>8. ASSUME UNCHANGED vars, ~Wraps PROVE PassedOver'
  <2>1. UNCHANGED <<skipped, pc, client>>
    BY <1>8 DEF vars, ea
  <2> QED BY <1>c, <1>8, <2>1 DEF PassedOver
<1> QED BY <1>1, <1>2, <1>3, <1>4, <1>5, <1>6, <1>7, <1>8 DEF Next, Expert

(* The wait of one millisecond misses a command only when it comes as the  *)
(* wait ends, and the next timer event finds the counter above zero: no    *)
(* command is passed over twice, whatever the io thread does meanwhile,    *)
(* until the counter, begun at any value, may have wrapped.                *)
THEOREM SkippedCorrect == Spec => []SkippedOnce
<1>1. Init => PassedOver /\ Within
  <2>1. Init => PassedOver
    BY DEF Init, PassedOver
  <2>2. Init => Within
    <3>1. Total(Empty) = 0
      BY DEF Total, Empty, Kinds
    <3> QED BY <3>1, EmptySeq DEF Init, Within
  <2> QED BY <2>1, <2>2
<1>2. CountInv => TypeOK
  BY DEF CountInv
<1>3. PassedOver => SkippedOnce
  BY DEF PassedOver, SkippedOnce
<1> QED BY <1>1, <1>2, <1>3, Invariants, WithinStep, PassedOverStep, PTL DEF Spec

==============================================================================
