------------------------- MODULE TradeExecutionProofs -------------------------
(***************************************************************************)
(* Theorems about TradeExecution: what the reports of the expert are worth *)
(* whatever the broker does, for any number of commands, retries and       *)
(* tickets.                                                                *)
(***************************************************************************)
EXTENDS TradeExecution, SequenceTheorems, FiniteSetTheorems,
        WellFoundedInduction, TLAPS

------------------------------------------------------------------------------
(* Commands and tickets                                                    *)

(* A set of numbers has a least one.                                       *)
LEMMA Least ==
  ASSUME NEW S \in SUBSET Nat, S # {}
  PROVE  \E n \in S : \A m \in S : n <= m
<1>1. PICK n \in S : \A m \in S : <<m, n>> \notin OpToRel(<, Nat)
  BY WFMin, NatLessThanWellFounded, Zenon
<1>2. ASSUME NEW m \in S PROVE ~(m < n)
  BY <1>1, Zenon DEF OpToRel
<1>3. \A k, m \in Nat : ~(m < k) => k <= m
  OBVIOUS
<1> QED BY <1>2, <1>3

LEMMA NewTicketIsFree == Free # {} => NewTicket \in Free
<1>1. Free \in SUBSET Nat
  BY TradeAssumption DEF Free, Tickets
<1> QED BY <1>1, Least DEF NewTicket

(* The fields a command of each kind has.                                  *)
LEMMA CommandFields ==
  ASSUME NEW c \in Commands
  PROVE  /\ c.op \in {"market", "pending", "invalid", "close", "modify", "closeBy"}
         /\ c.retries \in Nat \ {0}
         /\ c.op \in {"close", "modify", "closeBy"} => c.order \in Tickets
         /\ c.op = "closeBy" => c.orderBy \in Tickets
         /\ c.op \in {"market", "pending"} => c.sl \in BOOLEAN
BY TradeAssumption DEF Commands, Tickets

LEMMA Received ==
  ASSUME TypeOK
  PROVE  /\ id \in Nat /\ id <= MaxCommands /\ MaxCommands \in Nat
         /\ \A i \in 1..id : i \in Ids /\ received[i] \in Commands
         /\ \A i \in Ids : i > id \/ i \in 1..id
<1>1. received \in Seq(Commands) /\ id <= MaxCommands /\ MaxCommands \in Nat
  BY TradeAssumption DEF TypeOK
<1>2. id \in Nat /\ \A i \in 1..id : received[i] \in Commands
  BY <1>1, LenProperties, ElementOfSeq DEF id
<1> QED BY <1>1, <1>2 DEF Ids

LEMMA OpenedFinite ==
  ASSUME NEW i
  PROVE  IsFiniteSet(OpenedBy(i)) /\ Cardinality(OpenedBy(i)) \in Nat
<1>1. IsFiniteSet(Tickets)
  BY FS_Interval, TradeAssumption DEF Tickets
<1>2. OpenedBy(i) \subseteq Tickets
  BY DEF OpenedBy
<1> QED BY <1>1, <1>2, FS_Subset, FS_CardinalityType

------------------------------------------------------------------------------
(* The invariant                                                           *)

(* The commands that had to do with order n.                               *)
Marks(n) == {orders[n].opener, orders[n].closer, orders[n].modifier}

(* Only commands received have left a mark, none on a ticket not given out. *)
Books ==
  /\ \A n \in Tickets :
       /\ Marks(n) \subseteq 0..id
       /\ orders[n].type = "none" => orders[n] = NoSuchOrder
  /\ \A i \in Ids : i > id => unheard[i] = 0

(* The last attempt succeeded.  (Before an attempt `modified' is anything.) *)
Acked == pc \in {"inspect", "report"} /\ done

(* Where the handler is: the retries run out exactly when it goes on to    *)
(* report a failure.                                                       *)
Handler ==
  pc # "idle" =>
    /\ id \in Ids
    /\ cmd.op # "invalid"
    /\ IF cmd.op = "close" THEN how \in {"close", "delete"} ELSE how = cmd.op
    /\ t <= cmd.retries
    /\ t = cmd.retries => pc = "report" /\ ~done
    /\ pc = "report" /\ ~done => t = cmd.retries
    /\ pc = "asleep" => ~done
    /\ pc = "inspect" => done /\ how = "market"
    /\ realStopLoss => pc = "report" /\ order \in Tickets /\ orders[order].hadSL

(* What command i was to do is done; n is the order it opened, if it opens. *)
Achieved(i, n) ==
  LET c == received[i]
  IN  CASE Opens(c) -> n \in OpenedBy(i)
        [] c.op = "close" -> orders[c.order].closer = i /\ ~orders[c.order].open
        [] c.op = "closeBy" ->
             \A m \in {c.order, c.orderBy} : orders[m].closer = i /\ ~orders[m].open
        [] c.op = "modify" -> orders[c.order].modifier >= i

(* The command in the handler: each attempt so far opened an order at most, *)
(* and what it did was acknowledged or has gone unheard.                   *)
Current ==
  pc # "idle" =>
    /\ Acked => Achieved(id, order)
    /\ ~Acked => \A n \in Tickets : id \in Marks(n) => unheard[id] > 0
    /\ Cardinality(OpenedBy(id)) <= t + (IF pc = "asleep" \/ Acked THEN 1 ELSE 0)
    /\ Opens(cmd) =>
         Cardinality(OpenedBy(id)) = unheard[id] + (IF Acked THEN 1 ELSE 0)

(* The report of command i is the truth.                                   *)
Honest(i) ==
  reports[i] # <<>> =>
    /\ ReportOf(i).result # "Error" =>
         /\ Achieved(i, ReportOf(i).order)
         /\ (received[i].op = "market" /\ received[i].sl /\ ReportOf(i).result = "OK")
              => orders[ReportOf(i).order].hadSL
    /\ ReportOf(i).result = "Error" =>
         \A n \in Tickets : i \in Marks(n) => unheard[i] > 0

Counted(i) ==
  Finished(i) =>
    /\ Cardinality(OpenedBy(i)) <= received[i].retries
    /\ Opens(received[i]) =>
         Cardinality(OpenedBy(i)) =
           unheard[i] + IF ReportOf(i).result = "Error" THEN 0 ELSE 1

TradeInv ==
  /\ TypeOK /\ Books /\ Handler /\ Current /\ ReportedOnce
  /\ \A i \in Ids : Honest(i) /\ Counted(i)

(* The invariant says what the properties say.                             *)
LEMMA TradeInvImplies ==
  TradeInv => ReportedOnce /\ OKMeansDone /\ ErrorMeansUnheard /\ OpensCounted
<1> SUFFICES ASSUME TradeInv
             PROVE  ReportedOnce /\ OKMeansDone /\ ErrorMeansUnheard /\ OpensCounted
  OBVIOUS
<1>1. ErrorMeansUnheard /\ OpensCounted /\ ReportedOnce
  BY DEF TradeInv, ErrorMeansUnheard, OpensCounted, Honest, Counted, Marks
<1>2. OKMeansDone
  <2> SUFFICES ASSUME NEW i \in Ids, reports[i] # <<>>, ReportOf(i).result # "Error"
               PROVE  LET c == received[i]
                      IN  CASE Opens(c) ->
                                 /\ ReportOf(i).order \in OpenedBy(i)
                                 /\ (c.op = "market" /\ c.sl /\ ReportOf(i).result = "OK")
                                      => orders[ReportOf(i).order].hadSL
                            [] c.op = "close" ->
                                 orders[c.order].closer = i /\ ~orders[c.order].open
                            [] c.op = "closeBy" ->
                                 \A n \in {c.order, c.orderBy} :
                                   orders[n].closer = i /\ ~orders[n].open
                            [] c.op = "modify" -> orders[c.order].modifier >= i
    BY DEF OKMeansDone
  <2>1. /\ Achieved(i, ReportOf(i).order)
        /\ (received[i].op = "market" /\ received[i].sl /\ ReportOf(i).result = "OK")
             => orders[ReportOf(i).order].hadSL
    BY DEF TradeInv, Honest
  <2>2. received[i].op \in {"market", "pending", "invalid", "close", "modify", "closeBy"}
    <3>1. TypeOK /\ Len(reports[i]) # 0
      BY EmptySeq, LenProperties DEF TradeInv, TypeOK
    <3>2. Finished(i)
      BY <3>1 DEF TradeInv, ReportedOnce
    <3>3. i \in 1..id
      <4>1. id \in Nat /\ i \in Nat /\ (i > id \/ i \in 1..id)
        BY <3>1, Received DEF Ids
      <4>2. i < id \/ i = id
        BY <3>2 DEF Finished
      <4> QED BY <4>1, <4>2
    <3> QED BY <3>1, <3>3, Received, CommandFields
  <2> QED BY <2>1, <2>2 DEF Achieved, Opens
<1> QED BY <1>1, <1>2

------------------------------------------------------------------------------
(* What a step does to the orders                                          *)

(* Order n is left to itself but for the commands in who: a ticket given   *)
(* out keeps its command and its first stop loss, an order closed stays so. *)
Kept(n, who) ==
  /\ orders'[n].type = "none" => orders'[n] = NoSuchOrder
  /\ orders'[n].opener \in {orders[n].opener} \cup who
  /\ orders'[n].closer \in {orders[n].closer} \cup who
  /\ orders'[n].modifier \in {orders[n].modifier} \cup who
  /\ orders[n].type # "none" =>
       /\ orders'[n].type # "none"
       /\ orders'[n].opener = orders[n].opener
       /\ orders'[n].hadSL = orders[n].hadSL
       /\ ~orders[n].open => ~orders'[n].open /\ orders'[n].closer = orders[n].closer

Moved(who) == orders' \in [Tickets -> Orders] /\ \A n \in Tickets : Kept(n, who)

LEMMA NotMoved == TypeOK /\ Books /\ orders' = orders => Moved({})
BY DEF TypeOK, Books, Moved, Kept

LEMMA BrokerMoves ==
  ASSUME TypeOK, Books, NEW n \in Tickets, Fill(n) \/ BrokerCloses(n)
  PROVE  Moved({})
<1>a. orders \in [Tickets -> Orders] /\ orders[n] \in Orders
  BY DEF TypeOK
<1>1. orders[n].type # "none"
  BY DEF Books, Fill, BrokerCloses, IsOpen, NoSuchOrder
<1>2. CASE Fill(n)
  <2>1. orders' = [orders EXCEPT ![n] = [orders[n] EXCEPT !.type = "market"]]
    BY <1>2 DEF Fill
  <2>2. orders'[n] = [orders[n] EXCEPT !.type = "market"] /\ orders'[n] \in Orders
    BY <1>a, <2>1 DEF Orders
  <2>3. \A m \in Tickets : m # n => orders'[m] = orders[m]
    BY <1>a, <2>1
  <2>4. Kept(n, {})
    BY <1>a, <1>1, <2>2 DEF Kept, Orders
  <2> QED BY <1>a, <2>1, <2>2, <2>3, <2>4 DEF Moved, Kept, Books
<1>3. CASE BrokerCloses(n)
  <2>1. orders' = [orders EXCEPT ![n] = [orders[n] EXCEPT !.open = FALSE]]
    BY <1>3 DEF BrokerCloses
  <2>2. orders'[n] = [orders[n] EXCEPT !.open = FALSE] /\ orders'[n] \in Orders
    BY <1>a, <2>1 DEF Orders
  <2>3. \A m \in Tickets : m # n => orders'[m] = orders[m]
    BY <1>a, <2>1
  <2>4. Kept(n, {})
    BY <1>a, <1>1, <2>2 DEF Kept, Orders
  <2> QED BY <1>a, <2>1, <2>2, <2>3, <2>4 DEF Moved, Kept, Books
<1> QED BY <1>2, <1>3

(* A request carried out: the order opened is a new one of the command,    *)
(* and no other request opens any.                                         *)
LEMMA CarryOutMoves ==
  ASSUME TypeOK, Books, Handler, pc # "idle", UNCHANGED received,
         NEW n \in Tickets, CarryOut(n)
  PROVE  /\ Moved({id})
         /\ Achieved(id, n)'
         /\ IF Opens(cmd)
              THEN n \notin OpenedBy(id) /\ OpenedBy(id)' = OpenedBy(id) \cup {n}
              ELSE OpenedBy(id)' = OpenedBy(id)
<1> DEFINE c == cmd
<1>a. /\ orders \in [Tickets -> Orders]
      /\ id \in Ids /\ id # 0 /\ id \in 0..MaxCommands
      /\ c \in Commands /\ c.op # "invalid"
      /\ IF c.op = "close" THEN how \in {"close", "delete"} ELSE how = c.op
  <2>1. id \in Ids
    BY DEF Handler
  <2>2. id \in Nat /\ id # 0 /\ id \in 0..MaxCommands /\ id \in 1..id
    BY <2>1, Received DEF Ids
  <2>3. c \in Commands
    BY <2>2, Received DEF cmd
  <2> QED BY <2>1, <2>2, <2>3 DEF Handler, TypeOK
<1>b. c = cmd /\ id' = id /\ received'[id] = c /\ received[id] = c
  BY DEF cmd, id
<1>f. /\ c.op \in {"market", "pending", "invalid", "close", "modify", "closeBy"}
      /\ c.op \in {"close", "modify", "closeBy"} => c.order \in Tickets
      /\ c.op = "closeBy" => c.orderBy \in Tickets
      /\ c.op \in {"market", "pending"} => c.sl \in BOOLEAN
  BY <1>a, CommandFields
<1> HIDE DEF c
<1>c. \A m \in Tickets : orders[m] \in Orders /\ (orders[m].type = "none" => orders[m] = NoSuchOrder)
  BY <1>a DEF Books
<1>1. CASE how \in {"market", "pending"}
  <2>1. /\ Free # {} /\ n = NewTicket
        /\ \E sl \in {FALSE, c.sl} :
             orders' = [orders EXCEPT ![n] = [Placed(how) EXCEPT !.opener = id, !.hadSL = sl]]
    BY <1>1, <1>b DEF CarryOut
  <2>2. PICK sl \in {FALSE, c.sl} :
          orders' = [orders EXCEPT ![n] = [Placed(how) EXCEPT !.opener = id, !.hadSL = sl]]
    BY <2>1
  <2>3. c.op \in {"market", "pending"} /\ sl \in BOOLEAN /\ Opens(c)
    BY <1>a, <1>f, <1>1 DEF Opens
  <2>4. orders[n] = NoSuchOrder
    BY <1>c, <2>1, NewTicketIsFree DEF Free
  <2>5. /\ orders'[n] = [type |-> how, open |-> TRUE, opener |-> id, closer |-> 0,
                         modifier |-> 0, hadSL |-> sl]
        /\ \A m \in Tickets : m # n => orders'[m] = orders[m]
    BY <1>a, <2>2 DEF Placed, NoSuchOrder
  <2>6. orders'[n] \in Orders
    BY <1>a, <1>1, <2>3, <2>5, TradeAssumption DEF Orders
  <2>7. Kept(n, {id})
    BY <1>1, <2>4, <2>5 DEF Kept, NoSuchOrder
  <2>8. Moved({id})
    BY <1>a, <1>c, <2>2, <2>5, <2>6, <2>7 DEF Moved, Kept
  <2>9. n \notin OpenedBy(id) /\ OpenedBy(id)' = OpenedBy(id) \cup {n}
    BY <1>a, <2>4, <2>5, <1>b DEF OpenedBy, NoSuchOrder
  <2>10. Achieved(id, n)'
    BY <1>b, <2>3, <2>9 DEF Achieved
  <2> QED BY <1>b, <2>3, <2>8, <2>9, <2>10
<1>2. CASE how \in {"close", "delete"}
  <2>1. /\ n = c.order /\ orders[n].open
        /\ orders' = [orders EXCEPT ![n].open = FALSE, ![n].closer = id]
    BY <1>2, <1>b DEF CarryOut, IsOpen
  <2>2. c.op = "close" /\ ~Opens(c)
    BY <1>a, <1>f, <1>2 DEF Opens
  <2>3. orders[n].type # "none" /\ orders[n] \in Orders
    BY <1>c, <2>1 DEF NoSuchOrder
  <2>4. /\ orders'[n] = [orders[n] EXCEPT !.open = FALSE, !.closer = id]
        /\ \A m \in Tickets : m # n => orders'[m] = orders[m]
    BY <1>a, <2>1
  <2>5. /\ orders'[n] \in Orders
        /\ orders'[n].closer = id /\ ~orders'[n].open
        /\ orders'[n].opener = orders[n].opener /\ orders'[n].hadSL = orders[n].hadSL
        /\ orders'[n].type = orders[n].type /\ orders'[n].modifier = orders[n].modifier
    BY <1>a, <2>3, <2>4 DEF Orders
  <2>6. Kept(n, {id})
    BY <2>1, <2>3, <2>5 DEF Kept
  <2>7. Moved({id})
    BY <1>a, <1>c, <2>1, <2>4, <2>5, <2>6 DEF Moved, Kept
  <2>8. OpenedBy(id)' = OpenedBy(id)
    BY <1>b, <2>4, <2>5 DEF OpenedBy
  <2>9. Achieved(id, n)'
    BY <1>b, <2>1, <2>2, <2>5 DEF Achieved
  <2> QED BY <1>b, <2>2, <2>7, <2>8, <2>9
<1>3. CASE how = "closeBy"
  <2> DEFINE b == c.orderBy
  <2>1. /\ n = c.order /\ n # b
        /\ orders[n].open /\ orders[b].open
        /\ orders' = [orders EXCEPT ![n].open = FALSE, ![n].closer = id,
                                    ![b].open = FALSE, ![b].closer = id]
    BY <1>3, <1>b DEF CarryOut, IsOpen
  <2>2. c.op = "closeBy" /\ ~Opens(c) /\ b \in Tickets
    BY <1>a, <1>f, <1>3 DEF Opens
  <2> HIDE DEF b
  <2>3. \A m \in {n, b} : orders[m].type # "none" /\ orders[m] \in Orders
    BY <1>c, <2>1, <2>2 DEF NoSuchOrder
  <2>4. /\ orders'[n] = [orders[n] EXCEPT !.open = FALSE, !.closer = id]
        /\ orders'[b] = [orders[b] EXCEPT !.open = FALSE, !.closer = id]
        /\ \A m \in Tickets : m \notin {n, b} => orders'[m] = orders[m]
    BY <1>a, <2>1, <2>2
  <2>5. ASSUME NEW m \in {n, b}
        PROVE  /\ orders'[m] \in Orders
               /\ orders'[m].closer = id /\ ~orders'[m].open
               /\ orders'[m].opener = orders[m].opener /\ orders'[m].hadSL = orders[m].hadSL
               /\ orders'[m].type = orders[m].type /\ orders'[m].modifier = orders[m].modifier
    <3>1. orders'[m] = [orders[m] EXCEPT !.open = FALSE, !.closer = id] /\ orders[m] \in Orders
      BY <2>3, <2>4
    <3> QED BY <1>a, <3>1 DEF Orders
  <2>6. \A m \in {n, b} : Kept(m, {id})
    BY <2>1, <2>3, <2>5 DEF Kept
  <2>7. orders' \in [Tickets -> Orders]
    <3>1. DOMAIN orders' = Tickets /\ \A m \in Tickets : orders'[m] \in Orders
      BY <1>a, <1>c, <2>1, <2>4, <2>5
    <3>2. orders' = [m \in DOMAIN orders' |-> orders'[m]]
      BY <1>a, <2>1
    <3> QED BY <3>1, <3>2
  <2>8. Moved({id})
    BY <1>c, <2>4, <2>6, <2>7 DEF Moved, Kept
  <2>9. OpenedBy(id)' = OpenedBy(id)
    BY <1>b, <2>4, <2>5 DEF OpenedBy
  <2>10. Achieved(id, n)'
    BY <1>b, <2>1, <2>2, <2>5 DEF Achieved, b
  <2> QED BY <1>b, <2>2, <2>8, <2>9, <2>10
<1>4. CASE how = "modify"
  <2>1. /\ n = c.order /\ orders[n].open
        /\ orders' = [orders EXCEPT ![n].modifier = id]
    BY <1>4, <1>b DEF CarryOut
  <2>2. c.op = "modify" /\ ~Opens(c)
    BY <1>a, <1>f, <1>4 DEF Opens
  <2>3. orders[n].type # "none" /\ orders[n] \in Orders
    BY <1>c, <2>1 DEF NoSuchOrder
  <2>4. /\ orders'[n] = [orders[n] EXCEPT !.modifier = id]
        /\ \A m \in Tickets : m # n => orders'[m] = orders[m]
    BY <1>a, <2>1
  <2>5. /\ orders'[n] \in Orders
        /\ orders'[n].modifier = id /\ orders'[n].open = orders[n].open
        /\ orders'[n].opener = orders[n].opener /\ orders'[n].hadSL = orders[n].hadSL
        /\ orders'[n].type = orders[n].type /\ orders'[n].closer = orders[n].closer
    BY <1>a, <2>3, <2>4 DEF Orders
  <2>6. Kept(n, {id})
    BY <2>1, <2>3, <2>5 DEF Kept
  <2>7. Moved({id})
    BY <1>a, <1>c, <2>1, <2>4, <2>5, <2>6 DEF Moved, Kept
  <2>8. OpenedBy(id)' = OpenedBy(id)
    BY <1>b, <2>4, <2>5 DEF OpenedBy
  <2>9. Achieved(id, n)'
    BY <1>a, <1>b, <2>1, <2>2, <2>5 DEF Achieved, Ids
  <2> QED BY <1>b, <2>2, <2>7, <2>8, <2>9
<1> QED BY <1>a, <1>f, <1>1, <1>2, <1>3, <1>4

------------------------------------------------------------------------------
(* What a step leaves of a command that is through                         *)

LEMMA PastKept ==
  ASSUME TypeOK, Books, NEW who \in SUBSET {id}, Moved(who),
         NEW i \in 1..id, i \notin who, received'[i] = received[i]
  PROVE  /\ OpenedBy(i)' = OpenedBy(i)
         /\ \A n : Achieved(i, n) => Achieved(i, n)'
         /\ \A n \in Tickets : i \in Marks(n)' => i \in Marks(n)
         /\ \A n \in Tickets : orders[n].hadSL => orders'[n].hadSL
<1>a. /\ id \in Nat /\ i \in Nat /\ i # 0 /\ i <= id /\ received[i] \in Commands
      /\ orders \in [Tickets -> Orders]
  BY Received DEF TypeOK
<1>b. \A n \in Tickets :
        /\ Kept(n, who)
        /\ orders[n].type = "none" => orders[n] = NoSuchOrder
        /\ orders[n] \in Orders
  BY <1>a DEF Moved, Books
<1>1. \A n \in Tickets : orders'[n].opener = i <=> orders[n].opener = i
  BY <1>a, <1>b DEF Kept, NoSuchOrder
<1>2. OpenedBy(i)' = OpenedBy(i)
  BY <1>1 DEF OpenedBy
<1>3. \A n \in Tickets : i \in Marks(n)' => i \in Marks(n)
  BY <1>a, <1>b DEF Kept, Marks
<1>4. \A n \in Tickets : orders[n].hadSL => orders'[n].hadSL
  BY <1>b DEF Kept, NoSuchOrder
<1>5. \A n \in Tickets : orders[n].closer = i /\ ~orders[n].open
                           => orders'[n].closer = i /\ ~orders'[n].open
  BY <1>a, <1>b DEF Kept, NoSuchOrder
<1>6. \A n \in Tickets : orders[n].modifier >= i => orders'[n].modifier >= i
  BY <1>a, <1>b DEF Kept
<1>7. ASSUME NEW n, Achieved(i, n) PROVE Achieved(i, n)'
  <2> DEFINE c == received[i]
  <2>1. /\ c.op \in {"market", "pending", "invalid", "close", "modify", "closeBy"}
        /\ c.op \in {"close", "modify", "closeBy"} => c.order \in Tickets
        /\ c.op = "closeBy" => c.orderBy \in Tickets
        /\ received'[i] = c
    BY <1>a, CommandFields
  <2>2. CASE Opens(c)
    <3>1. n \in OpenedBy(i)
      BY <1>7, <2>2 DEF Achieved, Opens
    <3>2. n \in OpenedBy(i)' /\ Opens(received'[i])
      BY <1>2, <2>1, <2>2, <3>1
    <3> QED BY <3>2 DEF Achieved, Opens
  <2>3. CASE c.op = "close"
    BY <1>5, <1>7, <2>1, <2>3 DEF Achieved, Opens
  <2>4. CASE c.op = "closeBy"
    BY <1>5, <1>7, <2>1, <2>4 DEF Achieved, Opens
  <2>5. CASE c.op = "modify"
    BY <1>6, <1>7, <2>1, <2>5 DEF Achieved, Opens
  <2> QED BY <2>1, <2>2, <2>3, <2>4, <2>5 DEF Opens
<1> QED BY <1>2, <1>3, <1>4, <1>7

(* Its report stays true.                                                  *)
LEMMA HonestKept ==
  ASSUME TypeOK, Books, NEW who \in SUBSET {id}, Moved(who),
         NEW i \in 1..id, i \notin who, Honest(i),
         received'[i] = received[i], reports'[i] = reports[i], unheard'[i] = unheard[i]
  PROVE  Honest(i)'
<1>a. /\ \A n : Achieved(i, n) => Achieved(i, n)'
      /\ \A n \in Tickets : i \in Marks(n)' => i \in Marks(n)
      /\ \A n \in Tickets : orders[n].hadSL => orders'[n].hadSL
  BY PastKept
<1>r. PICK r : r = ReportOf(i)
  OBVIOUS
<1>1. SUFFICES ASSUME reports[i] # <<>> PROVE Honest(i)'
  BY DEF Honest
<1>2. ReportOf(i)' = r
  BY <1>r DEF ReportOf
<1>3. ASSUME r.result # "Error"
      PROVE  /\ Achieved(i, r.order)'
             /\ (received[i].op = "market" /\ received[i].sl /\ r.result = "OK")
                  => orders'[r.order].hadSL
  <2>1. /\ Achieved(i, r.order)
        /\ (received[i].op = "market" /\ received[i].sl /\ r.result = "OK")
             => orders[r.order].hadSL
    BY <1>r, <1>1, <1>3 DEF Honest
  <2>2. received[i].op = "market" => r.order \in Tickets
    BY <2>1 DEF Achieved, Opens, OpenedBy
  <2>3. Achieved(i, r.order)'
    BY <1>a, <2>1
  <2> QED BY <1>a, <2>1, <2>2, <2>3
<1>4. ASSUME r.result = "Error", NEW n \in Tickets, i \in Marks(n)'
      PROVE  unheard'[i] > 0
  BY <1>a, <1>r, <1>1, <1>4 DEF Honest
<1> QED BY <1>2, <1>3, <1>4 DEF Honest

LEMMA NoReport ==
  ASSUME TypeOK, ReportedOnce, NEW i \in Ids, ~Finished(i)
  PROVE  reports[i] = <<>>
<1>1. Len(reports[i]) = 0 /\ reports[i] \in Seq(Reports)
  BY DEF TypeOK, ReportedOnce
<1> QED BY <1>1, EmptySeq

(* ... and so does the count of the orders it opened.                      *)
LEMMA CountedKept ==
  ASSUME TypeOK, Books, NEW who \in SUBSET {id}, Moved(who),
         NEW i \in 1..id, i \notin who, Counted(i), Finished(i),
         received'[i] = received[i], reports'[i] = reports[i], unheard'[i] = unheard[i]
  PROVE  Counted(i)'
<1>1. OpenedBy(i)' = OpenedBy(i)
  BY PastKept
<1>2. ReportOf(i)' = ReportOf(i)
  BY DEF ReportOf
<1>3. Cardinality(OpenedBy(i))' = Cardinality(OpenedBy(i))
  BY <1>1
<1> QED BY <1>2, <1>3 DEF Counted

(* A step that neither receives nor reports a command leaves the reports   *)
(* true; who are the commands at work in it.                               *)
LEMMA QuietStep ==
  ASSUME TradeInv, NEW who \in SUBSET {id}, Moved(who),
         who # {} => pc # "idle",
         UNCHANGED <<received, reports>>,
         pc' = "idle" <=> pc = "idle",
         \A i \in Ids : i \notin who => unheard'[i] = unheard[i]
  PROVE  ReportedOnce' /\ Books' /\ \A i \in Ids : Honest(i)' /\ Counted(i)'
<1>a. TypeOK /\ Books /\ ReportedOnce /\ \A i \in Ids : Honest(i) /\ Counted(i)
  BY DEF TradeInv
<1>b. id' = id /\ id \in Nat
  BY <1>a, Received DEF id
<1>1. \A i : Finished(i)' <=> Finished(i)
  BY <1>b DEF Finished
<1>2. ReportedOnce'
  BY <1>a, <1>1 DEF ReportedOnce
<1>3. Books'
  <2>1. ASSUME NEW n \in Tickets
        PROVE  /\ Marks(n)' \subseteq 0..id
               /\ orders'[n].type = "none" => orders'[n] = NoSuchOrder
    <3>1. Kept(n, who) /\ Marks(n) \subseteq 0..id /\ who \subseteq 0..id
      BY <1>a, <1>b DEF Moved, Books
    <3> QED BY <3>1 DEF Kept, Marks
  <2>2. ASSUME NEW i \in Ids, i > id PROVE unheard'[i] = 0
    <3>1. i # id
      BY <1>b, <2>2 DEF Ids
    <3> QED BY <1>a, <2>2, <3>1 DEF Books
  <2> QED BY <1>b, <2>1, <2>2 DEF Books
<1>4. ASSUME NEW i \in Ids PROVE Honest(i)' /\ Counted(i)'
  <2>1. CASE Finished(i)
    <3>1. i \in 1..id /\ i \notin who
      <4>1. i \in Nat /\ (i > id \/ i \in 1..id)
        BY <1>a, Received DEF Ids
      <4> QED BY <1>b, <4>1, <2>1 DEF Finished
    <3>2. Honest(i)'
      BY <1>a, <3>1, HonestKept
    <3>3. Counted(i)'
      BY <1>a, <2>1, <3>1, CountedKept
    <3> QED BY <3>2, <3>3
  <2>2. CASE ~Finished(i)
    <3>1. reports'[i] = <<>> /\ ~Finished(i)'
      BY <1>a, <1>1, <2>2, NoReport
    <3> QED BY <3>1 DEF Honest, Counted
  <2> QED BY <2>1, <2>2
<1> QED BY <1>2, <1>3, <1>4

(* A step without an attempt leaves the account of the command in the      *)
(* handler right.                                                          *)
LEMMA CurrentKept ==
  ASSUME TypeOK, Books, Handler, Current, Moved({}), UNCHANGED <<received, unheard>>,
         pc # "idle", Acked' <=> Acked, Acked => order' = order,
         NEW b \in Nat, b = t + (IF pc = "asleep" \/ Acked THEN 1 ELSE 0),
         NEW c \in Nat, c = t' + (IF pc' = "asleep" \/ Acked' THEN 1 ELSE 0), b <= c
  PROVE  Current'
<1>a. id \in 1..id /\ id' = id /\ received'[id] = received[id]
  BY Received DEF Handler, id, Ids
<1>b. /\ OpenedBy(id)' = OpenedBy(id)
      /\ \A n : Achieved(id, n) => Achieved(id, n)'
      /\ \A n \in Tickets : id \in Marks(n)' => id \in Marks(n)
  <2>1. PICK i : i = id
    OBVIOUS
  <2>2. /\ OpenedBy(i)' = OpenedBy(i)
        /\ \A n : Achieved(i, n) => Achieved(i, n)'
        /\ \A n \in Tickets : i \in Marks(n)' => i \in Marks(n)
    BY <1>a, <2>1, PastKept
  <2> QED BY <1>a, <2>1, <2>2
<1>c. Cardinality(OpenedBy(id)) \in Nat
  BY OpenedFinite
<1>d. Cardinality(OpenedBy(id))' = Cardinality(OpenedBy(id))
  BY <1>b
<1>1. Acked' => Achieved(id, order)'
  <2> SUFFICES ASSUME Acked' PROVE Achieved(id, order)'
    OBVIOUS
  <2>1. PICK n : n = order
    OBVIOUS
  <2>2. Achieved(id, n)'
    BY <1>b, <2>1 DEF Current
  <2> QED BY <2>1, <2>2
<1>2. ~Acked' => \A n \in Tickets : id \in Marks(n)' => unheard'[id] > 0
  BY <1>b DEF Current
<1>3. Cardinality(OpenedBy(id))' <= c
  BY <1>c, <1>d DEF Current
<1>4. Opens(cmd') =>
        Cardinality(OpenedBy(id))' = unheard'[id] + (IF Acked' THEN 1 ELSE 0)
  <2>1. cmd' = cmd
    BY <1>a DEF cmd
  <2> QED BY <1>d, <2>1 DEF Current
<1> QED BY <1>a, <1>1, <1>2, <1>3, <1>4 DEF Current

------------------------------------------------------------------------------
(* The steps of the handler                                                *)

(* The steps of TradeInv that read the command in the handler.             *)
LEMMA InHandler ==
  ASSUME TradeInv, pc # "idle"
  PROVE  /\ id \in Ids /\ id \in 1..id /\ id \in Nat /\ id # 0
         /\ cmd \in Commands /\ cmd = received[id]
         /\ cmd.retries \in Nat \ {0} /\ t \in Nat
         /\ Opens(cmd) <=> how \in {"market", "pending"}
         /\ how = "market" => cmd.op = "market"
<1>1. id \in Ids /\ id \in 1..id /\ id \in Nat /\ id # 0
  BY Received DEF TradeInv, Handler, Ids
<1>2. cmd \in Commands /\ cmd = received[id] /\ t \in Nat
  BY <1>1, Received DEF TradeInv, TypeOK, cmd
<1>3. /\ cmd.op \in {"market", "pending", "invalid", "close", "modify", "closeBy"}
      /\ cmd.retries \in Nat \ {0}
  BY <1>2, CommandFields
<1> QED BY <1>1, <1>2, <1>3 DEF TradeInv, Handler, Opens

LEMMA WaitStep == TradeInv /\ WaitForTradeContext => TradeInv'
<1> SUFFICES ASSUME TradeInv, WaitForTradeContext PROVE TradeInv'
  OBVIOUS
<1>a. /\ pc = "waiting" /\ pc' \in {"waiting", "attempt"}
      /\ UNCHANGED <<orders, busy, received, how, t, done, order, realStopLoss,
                     reports, unheard>>
  BY DEF WaitForTradeContext
<1>b. TypeOK /\ Books /\ Handler /\ Current /\ ReportedOnce
  BY DEF TradeInv
<1>c. /\ id \in Ids /\ id \in Nat /\ cmd.retries \in Nat /\ t \in Nat
      /\ id' = id /\ cmd' = cmd
  BY <1>a, InHandler DEF id, cmd
<1>1. Moved({})
  BY <1>a, <1>b, NotMoved
<1>2. ReportedOnce' /\ Books' /\ \A i \in Ids : Honest(i)' /\ Counted(i)'
  BY <1>a, <1>1, QuietStep
<1>3. TypeOK'
  <2>1. waits' \in 0..MaxWaits
    BY <1>b, TradeAssumption DEF TypeOK, WaitForTradeContext
  <2> QED BY <1>a, <1>b, <1>c, <2>1 DEF TypeOK
<1>4. Handler'
  BY <1>a, <1>b, <1>c DEF Handler
<1>5. Current'
  <2>1. ~Acked /\ ~Acked'
    BY <1>a DEF Acked
  <2>2. /\ t = t + (IF pc = "asleep" \/ Acked THEN 1 ELSE 0)
        /\ t = t' + (IF pc' = "asleep" \/ Acked' THEN 1 ELSE 0)
    BY <1>a, <1>c, <2>1
  <2> QED BY <1>a, <1>b, <1>c, <1>1, <2>1, <2>2, CurrentKept
<1> QED BY <1>2, <1>3, <1>4, <1>5 DEF TradeInv

LEMMA RetryStep == TradeInv /\ Retry => TradeInv'
<1> SUFFICES ASSUME TradeInv, Retry PROVE TradeInv'
  OBVIOUS
<1>a. /\ pc = "asleep" /\ t' = t + 1
      /\ pc' = IF t' < cmd.retries THEN "waiting" ELSE "report"
      /\ UNCHANGED <<orders, busy, received, how, waits, done, order, realStopLoss,
                     reports, unheard>>
  BY DEF Retry
<1>b. TypeOK /\ Books /\ Handler /\ Current /\ ReportedOnce
  BY DEF TradeInv
<1>c. /\ id \in Ids /\ id \in Nat /\ cmd.retries \in Nat /\ t \in Nat
      /\ id' = id /\ cmd' = cmd
  BY <1>a, InHandler DEF id, cmd
<1>d. /\ ~done /\ t <= cmd.retries /\ t # cmd.retries /\ t' \in Nat
      /\ t' <= cmd.retries /\ pc' \in {"waiting", "report"}
      /\ t' = cmd.retries <=> pc' = "report"
  BY <1>a, <1>b, <1>c DEF Handler
<1>1. Moved({})
  BY <1>a, <1>b, NotMoved
<1>2. ReportedOnce' /\ Books' /\ \A i \in Ids : Honest(i)' /\ Counted(i)'
  BY <1>a, <1>d, <1>1, QuietStep
<1>3. TypeOK'
  BY <1>a, <1>b, <1>c, <1>d DEF TypeOK
<1>4. Handler'
  BY <1>a, <1>b, <1>c, <1>d DEF Handler
<1>5. Current'
  <2>1. ~Acked /\ ~Acked'
    BY <1>a, <1>d DEF Acked
  <2>2. /\ t + 1 = t + (IF pc = "asleep" \/ Acked THEN 1 ELSE 0)
        /\ t + 1 = t' + (IF pc' = "asleep" \/ Acked' THEN 1 ELSE 0)
    BY <1>a, <1>c, <1>d, <2>1
  <2>3. t + 1 \in Nat /\ t + 1 <= t + 1
    BY <1>c
  <2> QED BY <1>a, <1>b, <1>c, <1>1, <2>1, <2>2, <2>3, CurrentKept
<1> QED BY <1>2, <1>3, <1>4, <1>5 DEF TradeInv

LEMMA InspectStep == TradeInv /\ Inspect => TradeInv'
<1> SUFFICES ASSUME TradeInv, Inspect PROVE TradeInv'
  OBVIOUS
<1>a. /\ pc = "inspect" /\ pc' = "report"
      /\ realStopLoss' \in {FALSE, orders[order].hadSL}
      /\ UNCHANGED <<orders, busy, received, how, t, waits, done, order, reports, unheard>>
  BY DEF Inspect
<1>b. TypeOK /\ Books /\ Handler /\ Current /\ ReportedOnce
  BY DEF TradeInv
<1>c. /\ id \in Ids /\ id \in Nat /\ cmd.retries \in Nat /\ t \in Nat
      /\ id' = id /\ cmd' = cmd /\ cmd = received[id]
      /\ how = "market" => Opens(cmd)
  BY <1>a, InHandler DEF id, cmd
<1>d. done /\ how = "market" /\ Acked /\ Acked'
  BY <1>a, <1>b DEF Handler, Acked
<1>e. order \in Tickets
  <2>1. Achieved(id, order)
    BY <1>a, <1>b, <1>d DEF Current
  <2> QED BY <1>c, <1>d, <2>1 DEF Achieved, OpenedBy, Opens
<1>f. realStopLoss' \in BOOLEAN /\ (realStopLoss' => orders[order].hadSL)
  BY <1>a, <1>b, <1>e DEF TypeOK, Orders
<1>1. Moved({})
  BY <1>a, <1>b, NotMoved
<1>2. ReportedOnce' /\ Books' /\ \A i \in Ids : Honest(i)' /\ Counted(i)'
  BY <1>a, <1>1, QuietStep
<1>3. TypeOK'
  BY <1>a, <1>b, <1>c, <1>f DEF TypeOK
<1>4. Handler'
  BY <1>a, <1>b, <1>c, <1>d, <1>e, <1>f DEF Handler
<1>5. Current'
  <2>1. /\ t + 1 = t + (IF pc = "asleep" \/ Acked THEN 1 ELSE 0)
        /\ t + 1 = t' + (IF pc' = "asleep" \/ Acked' THEN 1 ELSE 0)
        /\ t + 1 \in Nat /\ t + 1 <= t + 1
    BY <1>a, <1>c, <1>d
  <2> QED BY <1>a, <1>b, <1>d, <1>1, <2>1, CurrentKept
<1> QED BY <1>2, <1>3, <1>4, <1>5 DEF TradeInv

(* The broker, the other experts of the terminal, and a stuttering step.   *)
LEMMA OutsideStep ==
  ASSUME TradeInv, Moved({}), busy' \in BOOLEAN,
         UNCHANGED <<received, handler, reports, unheard>>
  PROVE  TradeInv'
<1>a. UNCHANGED <<received, pc, how, t, waits, done, order, realStopLoss, reports, unheard>>
  BY DEF handler
<1>b. TypeOK /\ Books /\ Handler /\ Current /\ ReportedOnce
  BY DEF TradeInv
<1>c. id' = id /\ cmd' = cmd
  BY <1>a DEF id, cmd
<1>1. ReportedOnce' /\ Books' /\ \A i \in Ids : Honest(i)' /\ Counted(i)'
  BY <1>a, QuietStep
<1>2. TypeOK'
  BY <1>a, <1>b, <1>c DEF TypeOK, Moved
<1>3. CASE pc = "idle"
  BY <1>a, <1>1, <1>2, <1>3 DEF TradeInv, Handler, Current
<1>4. CASE pc # "idle"
  <2>1. id \in 1..id /\ t \in Nat
    BY <1>4, InHandler
  <2>2. Handler'
    <3>1. \A n \in Tickets : orders[n].hadSL => orders'[n].hadSL
      BY <1>b DEF Moved, Kept, Books, NoSuchOrder
    <3> QED BY <1>a, <1>b, <1>c, <3>1 DEF Handler
  <2>3. Acked' <=> Acked
    BY <1>a DEF Acked
  <2>4. PICK b \in Nat : b = t + (IF pc = "asleep" \/ Acked THEN 1 ELSE 0)
    BY <2>1
  <2>5. b = t' + (IF pc' = "asleep" \/ Acked' THEN 1 ELSE 0) /\ b <= b
    BY <1>a, <2>3, <2>4
  <2>6. Current'
    BY <1>a, <1>b, <1>4, <2>3, <2>4, <2>5, CurrentKept
  <2> QED BY <1>1, <1>2, <2>2, <2>6 DEF TradeInv
<1> QED BY <1>3, <1>4

(* An attempt that was refused.                                            *)
LEMMA RefusedStep ==
  ASSUME TradeInv, pc = "attempt", Failed,
         UNCHANGED <<orders, busy, received, how, t, waits, reports, unheard>>
  PROVE  TradeInv'
<1>a. pc' = "asleep" /\ done' = FALSE /\ order' = NoOrder /\ UNCHANGED realStopLoss
  BY DEF Failed
<1>b. TypeOK /\ Books /\ Handler /\ Current /\ ReportedOnce
  BY DEF TradeInv
<1>c. /\ id \in Ids /\ id \in Nat /\ cmd.retries \in Nat /\ t \in Nat
      /\ id' = id /\ cmd' = cmd
  BY InHandler DEF id, cmd
<1>1. Moved({})
  BY <1>b, NotMoved
<1>2. ReportedOnce' /\ Books' /\ \A i \in Ids : Honest(i)' /\ Counted(i)'
  BY <1>a, <1>1, QuietStep
<1>3. TypeOK'
  BY <1>a, <1>b, <1>c DEF TypeOK
<1>4. Handler'
  BY <1>a, <1>b, <1>c DEF Handler
<1>5. Current'
  <2>1. ~Acked /\ ~Acked'
    BY <1>a DEF Acked
  <2>2. /\ t = t + (IF pc = "asleep" \/ Acked THEN 1 ELSE 0)
        /\ t + 1 = t' + (IF pc' = "asleep" \/ Acked' THEN 1 ELSE 0)
        /\ t + 1 \in Nat /\ t <= t + 1
    BY <1>a, <1>c, <2>1
  <2> QED BY <1>a, <1>b, <1>c, <1>1, <2>1, <2>2, CurrentKept
<1> QED BY <1>2, <1>3, <1>4, <1>5 DEF TradeInv

(* An attempt the broker carried out, heard of or not.                     *)
LEMMA CarriedOutStep ==
  ASSUME TradeInv, pc = "attempt", NEW n \in Tickets, Acknowledged(n) \/ Unheard(n),
         UNCHANGED <<busy, received, how, t, waits, reports>>
  PROVE  TradeInv'
<1>b. TypeOK /\ Books /\ Handler /\ Current /\ ReportedOnce
  BY DEF TradeInv
<1>c. /\ id \in Ids /\ id \in Nat /\ cmd.retries \in Nat /\ t \in Nat /\ id # 0
      /\ id' = id /\ cmd' = cmd /\ cmd = received[id]
      /\ Opens(cmd) <=> how \in {"market", "pending"}
      /\ how = "market" => cmd.op = "market"
  BY InHandler DEF id, cmd
<1>d. /\ unheard[id] \in Nat
      /\ Acknowledged(n) => unheard' = unheard
      /\ Unheard(n) => /\ unheard' = [unheard EXCEPT ![id] = unheard[id] + 1]
                       /\ unheard' \in [Ids -> Nat] /\ unheard'[id] = unheard[id] + 1
  BY <1>b, <1>c DEF TypeOK, Acknowledged, Unheard
<1>e. /\ Acknowledged(n) => /\ done' = TRUE
                            /\ order' = (IF how \in {"market", "pending"} THEN n ELSE NoOrder)
                            /\ pc' = (IF how = "market" THEN "inspect" ELSE "report")
      /\ Unheard(n) => done' = FALSE /\ order' = NoOrder /\ pc' = "asleep"
      /\ realStopLoss' = realStopLoss /\ ~realStopLoss
      /\ t < cmd.retries
  BY <1>b, <1>c DEF Acknowledged, Unheard, Failed, Handler, TypeOK
<1>f. Acked' <=> Acknowledged(n)
  <2>1. Acknowledged(n) => Acked'
    BY <1>e DEF Acked
  <2>2. Unheard(n) => ~Acked'
    BY <1>e DEF Acked
  <2>3. ~(Acknowledged(n) /\ Unheard(n))
    BY <1>e
  <2> QED BY <2>1, <2>2, <2>3
<1>1. /\ Moved({id})
      /\ Achieved(id, n)'
      /\ IF Opens(cmd)
           THEN n \notin OpenedBy(id) /\ OpenedBy(id)' = OpenedBy(id) \cup {n}
           ELSE OpenedBy(id)' = OpenedBy(id)
  <2>1. CarryOut(n)
    BY DEF Acknowledged, Unheard
  <2> QED BY <1>b, <2>1, CarryOutMoves
<1>2. ReportedOnce' /\ Books' /\ \A i \in Ids : Honest(i)' /\ Counted(i)'
  <2>1. \A i \in Ids : i \notin {id} => unheard'[i] = unheard[i]
    BY <1>b, <1>c, <1>d DEF TypeOK
  <2>2. pc' # "idle"
    BY <1>e
  <2> QED BY <1>1, <2>1, <2>2, QuietStep
<1>3. TypeOK'
  BY <1>b, <1>c, <1>d, <1>e, <1>1 DEF TypeOK, Moved
<1>4. Handler'
  BY <1>b, <1>c, <1>e DEF Handler
<1>5. Current'
  <2>1. Acked' => Achieved(id, order)'
    <3> SUFFICES ASSUME Acked' PROVE Achieved(id, order)'
      OBVIOUS
    <3>1. CASE Opens(cmd)
      <4>1. order' = n
        BY <1>c, <1>e, <1>f, <3>1
      <4> QED BY <1>1, <4>1
    <3>2. CASE ~Opens(cmd)
      <4>1. PICK c \in Commands : c = received'[id'] /\ ~Opens(c)
        BY <1>c, <3>2, InHandler
      <4>2. c.op \in {"close", "modify", "closeBy"}
        BY <4>1, CommandFields DEF Opens
      <4> QED BY <1>1, <4>1, <4>2 DEF Achieved, Opens
    <3> QED BY <3>1, <3>2
  <2>2. ~Acked' => unheard'[id] > 0
    BY <1>d, <1>f
  <2>3. /\ Cardinality(OpenedBy(id)) \in Nat
        /\ Cardinality(OpenedBy(id))' = Cardinality(OpenedBy(id))
             + (IF Opens(cmd) THEN 1 ELSE 0)
    <3>1. IsFiniteSet(OpenedBy(id)) /\ Cardinality(OpenedBy(id)) \in Nat
      BY OpenedFinite
    <3> QED BY <1>1, <3>1, FS_AddElement
  <2>4. ~Acked
    BY DEF Acked
  <2>5. /\ Cardinality(OpenedBy(id)) <= t
        /\ Opens(cmd) => Cardinality(OpenedBy(id)) = unheard[id]
    BY <1>b, <1>c, <1>d, <2>3, <2>4 DEF Current
  <2>6. Cardinality(OpenedBy(id))' <= t' + (IF pc' = "asleep" \/ Acked' THEN 1 ELSE 0)
    <3>1. pc' = "asleep" \/ Acked'
      BY <1>e, <1>f
    <3> QED BY <1>c, <2>3, <2>5, <3>1
  <2>7. Opens(cmd) =>
          Cardinality(OpenedBy(id))' = unheard'[id] + (IF Acked' THEN 1 ELSE 0)
    <3>1. CASE Acked'
      BY <1>d, <1>f, <2>3, <2>5, <3>1
    <3>2. CASE ~Acked'
      BY <1>d, <1>f, <2>3, <2>5, <3>2
    <3> QED BY <3>1, <3>2
  <2> QED BY <1>c, <2>1, <2>2, <2>6, <2>7 DEF Current
<1> QED BY <1>2, <1>3, <1>4, <1>5 DEF TradeInv

LEMMA ReportStep == TradeInv /\ Report => TradeInv'
<1> SUFFICES ASSUME TradeInv, Report PROVE TradeInv'
  OBVIOUS
<1>a. /\ pc = "report" /\ pc' = "idle" /\ how' = "market" /\ t' = 0 /\ waits' = waits
      /\ done' = FALSE /\ order' = NoOrder /\ realStopLoss' = FALSE
      /\ UNCHANGED <<orders, busy, received, unheard>>
  BY DEF Report, Return
<1>b. TypeOK /\ Books /\ Handler /\ Current /\ ReportedOnce
  BY DEF TradeInv
<1>c. /\ id \in Ids /\ id \in 1..id /\ id \in Nat /\ id # 0 /\ cmd.retries \in Nat /\ t \in Nat
      /\ id' = id /\ cmd \in Commands /\ cmd = received[id]
      /\ Opens(cmd) <=> how \in {"market", "pending"}
  BY <1>a, InHandler DEF id
<1>f. /\ cmd.op \in {"market", "pending", "invalid", "close", "modify", "closeBy"}
      /\ cmd.op \in {"close", "modify", "closeBy"} => cmd.order \in Tickets
  BY <1>c, CommandFields
<1>g. /\ Acked <=> done
      /\ how = "market" <=> cmd.op = "market"
      /\ done => t < cmd.retries
      /\ realStopLoss => order \in Tickets /\ orders[order].hadSL
  BY <1>a, <1>b, <1>c, <1>f DEF Handler, Acked, TypeOK
<1>1. PICK r : r = [result |-> Result, order |-> IF Opens(cmd) THEN order ELSE cmd.order]
  OBVIOUS
<1>2. /\ Result \in {"OK", "OKPartial", "Error"}
      /\ Result = "Error" <=> ~done
      /\ (Result = "OK" /\ how = "market" /\ cmd.sl) => realStopLoss
  BY <1>b DEF Result, TypeOK
<1>3. /\ r.result = Result
      /\ r.order = IF Opens(cmd) THEN order ELSE cmd.order
      /\ r \in Reports
  <2>1. (IF Opens(cmd) THEN order ELSE cmd.order) \in {NoOrder, 0} \cup Tickets
    BY <1>b, <1>f DEF Opens, TypeOK
  <2> QED BY <1>1, <1>2, <2>1 DEF Reports
<1>4. reports' = [reports EXCEPT ![id] = Append(reports[id], r)]
  BY <1>1 DEF Report, ReportCommand
<1>5. reports[id] = <<>> /\ reports \in [Ids -> Seq(Reports)]
  BY <1>a, <1>b, <1>c, NoReport DEF Finished, TypeOK
<1>6. /\ Append(<<>>, r) \in Seq(Reports) /\ Len(Append(<<>>, r)) = 1
      /\ Append(<<>>, r)[1] = r /\ Append(<<>>, r) # <<>>
  <2>1. <<>> \in Seq(Reports) /\ Len(<<>>) = 0
    BY EmptySeq
  <2> QED BY <1>3, <2>1, AppendProperties
<1>7. /\ reports' \in [Ids -> Seq(Reports)]
      /\ reports'[id] # <<>> /\ Len(reports'[id]) = 1 /\ reports'[id][1] = r
      /\ \A i \in Ids : i # id => reports'[i] = reports[i]
  BY <1>c, <1>4, <1>5, <1>6
<1>8. Moved({})
  BY <1>a, <1>b, NotMoved
<1>9. TypeOK'
  BY <1>a, <1>b, <1>c, <1>7 DEF TypeOK, Requests
<1>10. Books'
  BY <1>a, <1>b, <1>c DEF Books, Marks
<1>11. Handler' /\ Current'
  BY <1>a DEF Handler, Current
<1>12. \A i \in Ids : Finished(i)' <=> (Finished(i) \/ i = id)
  BY <1>a, <1>c DEF Finished
<1>13. ~Finished(id)
  BY <1>a, <1>c DEF Finished
<1>14. ReportedOnce'
  BY <1>b, <1>7, <1>12, <1>13 DEF ReportedOnce
<1>15. PICK i : i = id
  OBVIOUS
<1>16. /\ OpenedBy(i)' = OpenedBy(i)
       /\ \A n : Achieved(i, n) => Achieved(i, n)'
       /\ \A n \in Tickets : i \in Marks(n)' => i \in Marks(n)
  BY <1>a, <1>b, <1>c, <1>8, <1>15, PastKept
<1>17. ReportOf(i)' = r
  BY <1>7, <1>15 DEF ReportOf
<1>18. Honest(i)'
  <2>1. ASSUME r.result # "Error"
        PROVE  /\ Achieved(i, r.order)'
               /\ (cmd.op = "market" /\ cmd.sl /\ r.result = "OK") => orders'[r.order].hadSL
    <3>1. Acked /\ Achieved(i, order)
      BY <1>a, <1>b, <1>2, <1>3, <1>15, <1>g, <2>1 DEF Current
    <3>2. Achieved(i, r.order)
      <4>1. CASE Opens(cmd)
        BY <1>3, <3>1, <4>1
      <4>2. CASE ~Opens(cmd)
        BY <1>c, <1>f, <1>15, <3>1, <4>2 DEF Achieved, Opens
      <4> QED BY <4>1, <4>2
    <3>3. (cmd.op = "market" /\ cmd.sl /\ r.result = "OK") => orders'[r.order].hadSL
      BY <1>a, <1>2, <1>3, <1>g DEF Opens
    <3> QED BY <1>16, <3>2, <3>3
  <2>2. ASSUME r.result = "Error", NEW n \in Tickets, i \in Marks(n)'
        PROVE  unheard'[i] > 0
    BY <1>a, <1>b, <1>2, <1>3, <1>15, <1>16, <1>g, <2>2 DEF Current
  <2>3. received'[i] = cmd
    BY <1>a, <1>c, <1>15
  <2> QED BY <1>17, <2>1, <2>2, <2>3 DEF Honest
<1>19. Counted(i)'
  <2>1. /\ Cardinality(OpenedBy(i)) <= t + (IF Acked THEN 1 ELSE 0)
        /\ Opens(cmd) => Cardinality(OpenedBy(i)) = unheard[i] + (IF Acked THEN 1 ELSE 0)
        /\ t <= cmd.retries
        /\ Cardinality(OpenedBy(i)) \in Nat
    BY <1>a, <1>b, <1>15, OpenedFinite DEF Current, Handler
  <2>2. Cardinality(OpenedBy(i)) <= cmd.retries
    BY <1>c, <1>g, <2>1
  <2>3. Opens(cmd) => Cardinality(OpenedBy(i)) =
                        unheard[i] + (IF r.result = "Error" THEN 0 ELSE 1)
    BY <1>2, <1>3, <1>g, <2>1
  <2>4. received'[i] = cmd /\ unheard'[i] = unheard[i]
        /\ Cardinality(OpenedBy(i))' = Cardinality(OpenedBy(i))
    BY <1>a, <1>c, <1>15, <1>16
  <2> QED BY <1>17, <2>2, <2>3, <2>4 DEF Counted
<1>20. ASSUME NEW j \in Ids, j # id PROVE Honest(j)' /\ Counted(j)'
  <2>0. Honest(j) /\ Counted(j) /\ reports'[j] = reports[j]
    BY <1>7, <1>20 DEF TradeInv
  <2>1. CASE Finished(j)
    <3>1. j \in 1..id
      BY <1>c, <2>1 DEF Finished, Ids
    <3>2. Honest(j)'
      BY <1>a, <1>b, <1>8, <2>0, <3>1, HonestKept
    <3>3. Counted(j)'
      BY <1>a, <1>b, <1>8, <2>0, <2>1, <3>1, CountedKept
    <3> QED BY <3>2, <3>3
  <2>2. CASE ~Finished(j)
    <3>1. reports'[j] = <<>> /\ ~Finished(j)'
      BY <1>b, <1>12, <1>20, <2>0, <2>2, NoReport
    <3> QED BY <3>1 DEF Honest, Counted
  <2> QED BY <2>1, <2>2
<1>21. \A j \in Ids : Honest(j)' /\ Counted(j)'
  <2> SUFFICES ASSUME NEW j \in Ids PROVE Honest(j)' /\ Counted(j)'
    OBVIOUS
  <2>1. CASE j = i
    BY <1>18, <1>19, <2>1
  <2>2. CASE j # id
    BY <1>20, <2>2
  <2> QED BY <1>15, <2>1, <2>2
<1> QED BY <1>9, <1>10, <1>11, <1>14, <1>21 DEF TradeInv

------------------------------------------------------------------------------
(* A command received                                                      *)

LEMMA ReceiveStep ==
  ASSUME TradeInv, NEW c \in Commands, Receive(c)
  PROVE  TradeInv'
<1>a. /\ pc = "idle" /\ id < MaxCommands
      /\ received' = Append(received, c)
      /\ Reject(c) \/ Begin(c)
      /\ UNCHANGED <<orders, busy, unheard>>
  BY DEF Receive
<1>b. TypeOK /\ Books /\ Handler /\ Current /\ ReportedOnce
  BY DEF TradeInv
<1>f. /\ c.op \in {"market", "pending", "invalid", "close", "modify", "closeBy"}
      /\ c.retries \in Nat \ {0}
      /\ c.op \in {"close", "modify", "closeBy"} => c.order \in Tickets
  BY CommandFields
<1>1. PICK k : k = id + 1
  OBVIOUS
<1>2. /\ id \in Nat /\ k \in Ids /\ k \in Nat /\ k > id /\ id <= MaxCommands
      /\ MaxCommands \in Nat /\ k <= MaxCommands
  BY <1>a, <1>b, <1>1, Received DEF Ids
<1>3. /\ received' \in Seq(Commands) /\ id' = k
      /\ \A i \in 1..id : received'[i] = received[i]
      /\ received'[k] = c
  BY <1>a, <1>b, <1>1, AppendProperties DEF id, TypeOK
<1>4. cmd' = c
  BY <1>3 DEF cmd
<1>5. Moved({})
  BY <1>a, <1>b, NotMoved
<1>6. \A n \in Tickets : k \notin Marks(n) /\ Marks(n)' = Marks(n)
  BY <1>a, <1>b, <1>2 DEF Books, Marks
<1>7. unheard'[k] = 0
  BY <1>a, <1>b, <1>2 DEF Books
<1>8. OpenedBy(k)' = {} /\ Cardinality(OpenedBy(k))' = 0
  <2>1. OpenedBy(k)' = {}
    BY <1>a, <1>6 DEF OpenedBy, Marks
  <2> QED BY <2>1, FS_EmptySet
<1>9. Books'
  <2>1. \A n \in Tickets : Marks(n)' \subseteq 0..k
    BY <1>b, <1>2, <1>6 DEF Books
  <2>2. \A i \in Ids : i > k => unheard'[i] = 0
    BY <1>a, <1>b, <1>2 DEF Books, Ids
  <2> QED BY <1>a, <1>b, <1>3, <2>1, <2>2 DEF Books
<1>10. \A i \in Ids : Finished(i) <=> i \in 1..id
  BY <1>a, <1>2 DEF Finished, Ids
(* The commands before it.                                                 *)
<1>11. ASSUME NEW i \in 1..id, reports'[i] = reports[i], i \in Ids
       PROVE  Honest(i)' /\ Counted(i)'
  <2>1. received'[i] = received[i] /\ unheard'[i] = unheard[i] /\ i \notin {}
    BY <1>a, <1>3
  <2>2. Honest(i) /\ Counted(i) /\ Finished(i)
    BY <1>10, <1>11 DEF TradeInv
  <2>3. Honest(i)'
    BY <1>b, <1>5, <1>11, <2>1, <2>2, HonestKept
  <2>4. Counted(i)'
    BY <1>b, <1>5, <1>11, <2>1, <2>2, CountedKept
  <2> QED BY <2>3, <2>4
<1>12. CASE Begin(c)
  <2>1. /\ c.op # "invalid" /\ how' = RequestOf(c)
        /\ pc' = "waiting" /\ t' = 0 /\ waits' = 0
        /\ done' \in BOOLEAN /\ order' = NoOrder /\ realStopLoss' = FALSE
        /\ reports' = reports
    BY <1>12 DEF Begin
  <2>2. \A i \in Ids : Finished(i)' <=> i \in 1..id
    BY <1>1, <1>2, <1>3, <2>1 DEF Finished, Ids
  <2>3. ReportedOnce'
    BY <1>b, <1>10, <2>1, <2>2 DEF ReportedOnce
  <2>4. IF c.op = "close" THEN how' \in {"close", "delete"} ELSE how' = c.op
    BY <2>1 DEF RequestOf
  <2>5. how' \in Requests /\ waits' \in 0..MaxWaits
    BY <1>f, <2>1, <2>4, TradeAssumption DEF Requests
  <2>6. TypeOK'
    <3>1. t' <= cmd'.retries /\ id' <= MaxCommands
      BY <1>f, <1>2, <1>3, <1>4, <2>1
    <3> QED BY <1>a, <1>b, <1>3, <2>1, <2>5, <3>1 DEF TypeOK
  <2>7. Handler'
    BY <1>f, <1>2, <1>3, <1>4, <2>1, <2>4 DEF Handler
  <2>8. ~Acked'
    BY <2>1 DEF Acked
  <2>9. Current'
    BY <1>3, <1>6, <1>7, <1>8, <2>1, <2>8 DEF Current
  <2>10. ASSUME NEW i \in Ids PROVE Honest(i)' /\ Counted(i)'
    <3>1. CASE i \in 1..id
      BY <1>11, <2>1, <3>1
    <3>2. CASE i \notin 1..id
      <4>1. reports'[i] = <<>> /\ ~Finished(i)'
        BY <1>b, <1>10, <2>1, <2>2, <3>2, NoReport
      <4> QED BY <4>1 DEF Honest, Counted
    <3> QED BY <3>1, <3>2
  <2> QED BY <1>9, <2>3, <2>6, <2>7, <2>9, <2>10 DEF TradeInv
<1>13. CASE Reject(c)
  <2>1. PICK r : r = [result |-> "Error", order |-> IF Opens(c) THEN 0 ELSE c.order]
    OBVIOUS
  <2>2. r.result = "Error" /\ r \in Reports
    <3>1. (IF Opens(c) THEN 0 ELSE c.order) \in {NoOrder, 0} \cup Tickets
      BY <1>f DEF Opens
    <3> QED BY <2>1, <3>1 DEF Reports
  <2>3. /\ reports' = [reports EXCEPT ![k] = Append(reports[k], r)]
        /\ UNCHANGED <<pc, how, t, waits, done, order, realStopLoss>>
    BY <1>1, <1>13, <2>1 DEF Reject, ReportCommand, handler
  <2>4. reports[k] = <<>> /\ reports \in [Ids -> Seq(Reports)]
    BY <1>b, <1>2, <1>10, NoReport DEF TypeOK
  <2>5. Append(<<>>, r) \in Seq(Reports) /\ Len(Append(<<>>, r)) = 1 /\ Append(<<>>, r)[1] = r
    <3>1. <<>> \in Seq(Reports) /\ Len(<<>>) = 0
      BY EmptySeq
    <3> QED BY <2>2, <3>1, AppendProperties
  <2>6. /\ reports' \in [Ids -> Seq(Reports)]
        /\ Len(reports'[k]) = 1 /\ reports'[k][1] = r
        /\ \A i \in Ids : i # k => reports'[i] = reports[i]
    BY <1>2, <2>3, <2>4, <2>5
  <2>7. \A i \in Ids : Finished(i)' <=> (i \in 1..id \/ i = k)
    BY <1>a, <1>1, <1>2, <1>3, <2>3 DEF Finished, Ids
  <2>8. ReportedOnce'
    BY <1>b, <1>10, <2>6, <2>7 DEF ReportedOnce
  <2>9. TypeOK'
    <3>1. pc' = "idle" /\ id' <= MaxCommands /\ UNCHANGED <<orders, busy, unheard>>
      BY <1>a, <1>2, <1>3, <2>3
    <3> QED BY <1>b, <1>3, <2>3, <2>6, <3>1 DEF TypeOK
  <2>10. Handler' /\ Current'
    BY <1>a, <2>3 DEF Handler, Current
  <2>11. ReportOf(k)' = r
    BY <2>6 DEF ReportOf
  <2>12. Honest(k)'
    BY <1>6, <2>2, <2>11 DEF Honest
  <2>13. Counted(k)'
    BY <1>f, <1>3, <1>7, <1>8, <2>2, <2>11 DEF Counted
  <2>14. ASSUME NEW i \in Ids PROVE Honest(i)' /\ Counted(i)'
    <3>1. CASE i \in 1..id
      <4>1. i # k
        BY <1>2, <3>1
      <4> QED BY <1>11, <2>6, <3>1, <4>1
    <3>2. CASE i = k
      BY <2>12, <2>13, <3>2
    <3>3. CASE i \notin 1..id /\ i # k
      <4>1. reports'[i] = <<>> /\ ~Finished(i)'
        BY <1>b, <1>10, <2>6, <2>7, <3>3, NoReport
      <4> QED BY <4>1 DEF Honest, Counted
    <3> QED BY <3>1, <3>2, <3>3
  <2> QED BY <1>9, <2>8, <2>9, <2>10, <2>14 DEF TradeInv
<1> QED BY <1>a, <1>12, <1>13

------------------------------------------------------------------------------
(* The theorems                                                            *)

LEMMA TradeInit == Init => TradeInv
<1> SUFFICES ASSUME Init PROVE TradeInv
  OBVIOUS
<1>1. id = 0 /\ received \in Seq(Commands) /\ MaxCommands \in Nat
  BY EmptySeq, TradeAssumption DEF Init, id
<1>2. /\ \A n \in Tickets : orders[n] \in Orders /\ orders[n] = IF n = 1 THEN Placed("market") ELSE NoSuchOrder
      /\ orders \in [Tickets -> Orders]
  <2>1. NoSuchOrder \in Orders
    BY <1>1 DEF Orders, NoSuchOrder
  <2>2. PICK r \in Orders : r = NoSuchOrder
    BY <2>1
  <2>3. Placed("market") \in Orders
    <3>1. [r EXCEPT !.type = "market", !.open = TRUE] \in Orders
      BY DEF Orders
    <3> QED BY <2>2, <3>1 DEF Placed
  <2> QED BY <2>1, <2>3 DEF Init
<1>3. reports \in [Ids -> Seq(Reports)] /\ \A i \in Ids : reports[i] = <<>> /\ Len(reports[i]) = 0
  <2>1. <<>> \in Seq(Reports) /\ Len(<<>>) = 0
    BY EmptySeq
  <2> QED BY <2>1 DEF Init
<1>4. TypeOK
  <2>1. /\ pc = "idle" /\ how = "market" /\ t = 0 /\ waits = 0 /\ busy = FALSE
        /\ done = FALSE /\ order = NoOrder /\ realStopLoss = FALSE
        /\ unheard \in [Ids -> Nat]
    BY DEF Init
  <2>2. waits \in 0..MaxWaits /\ id <= MaxCommands
    BY <1>1, <2>1, TradeAssumption
  <2> QED BY <1>1, <1>2, <1>3, <2>1, <2>2 DEF TypeOK, Requests
<1>5. Books
  BY <1>1, <1>2 DEF Init, Books, Marks, Placed, NoSuchOrder, Ids
<1>6. Handler /\ Current
  BY DEF Init, Handler, Current
<1>7. \A i \in Ids : ~Finished(i)
  BY <1>1 DEF Finished, Ids
<1>8. ReportedOnce /\ \A i \in Ids : Honest(i) /\ Counted(i)
  BY <1>3, <1>7 DEF ReportedOnce, Honest, Counted
<1> QED BY <1>4, <1>5, <1>6, <1>8 DEF TradeInv

LEMMA TradeStep == TradeInv /\ [Next]_vars => TradeInv'
<1> SUFFICES ASSUME TradeInv, [Next]_vars PROVE TradeInv'
  OBVIOUS
<1>a. TypeOK /\ Books
  BY DEF TradeInv
<1>1. ASSUME NEW c \in Commands, Receive(c) PROVE TradeInv'
  BY <1>1, ReceiveStep
<1>2. CASE WaitForTradeContext
  BY <1>2, WaitStep
<1>3. CASE Attempt
  <2>1. /\ pc = "attempt"
        /\ UNCHANGED <<busy, received, how, t, waits, reports>>
        /\ \/ \E n \in Tickets : Acknowledged(n) \/ Unheard(n)
           \/ Failed /\ UNCHANGED <<orders, unheard>>
    BY <1>3 DEF Attempt
  <2>2. ASSUME NEW n \in Tickets, Acknowledged(n) \/ Unheard(n) PROVE TradeInv'
    BY <2>1, <2>2, CarriedOutStep
  <2>3. CASE Failed /\ UNCHANGED <<orders, unheard>>
    BY <2>1, <2>3, RefusedStep
  <2> QED BY <2>1, <2>2, <2>3
<1>4. CASE Retry
  BY <1>4, RetryStep
<1>5. CASE Inspect
  BY <1>5, InspectStep
<1>6. CASE Report
  BY <1>6, ReportStep
<1>7. CASE ContextChanges
  <2>1. /\ busy' \in BOOLEAN
        /\ UNCHANGED <<orders, received, handler, reports, unheard>>
    BY <1>7 DEF ContextChanges
  <2> QED BY <1>a, <2>1, NotMoved, OutsideStep
<1>8. ASSUME NEW n \in Tickets, Fill(n) \/ BrokerCloses(n) PROVE TradeInv'
  <2>1. busy' \in BOOLEAN /\ UNCHANGED <<received, handler, reports, unheard>>
    BY <1>a, <1>8 DEF Fill, BrokerCloses, TypeOK
  <2> QED BY <1>a, <1>8, <2>1, BrokerMoves, OutsideStep
<1>9. CASE UNCHANGED vars
  <2>1. /\ busy' \in BOOLEAN
        /\ UNCHANGED <<orders, received, handler, reports, unheard>>
    BY <1>a, <1>9 DEF vars, TypeOK
  <2> QED BY <1>a, <2>1, NotMoved, OutsideStep
<1> QED BY <1>1, <1>2, <1>3, <1>4, <1>5, <1>6, <1>7, <1>8, <1>9 DEF Next, Expert, Broker

LEMMA TradeInvariant == Spec => []TradeInv
BY TradeInit, TradeStep, PTL DEF Spec

(* The types of the broker's orders, of the handler and of its reports.    *)
THEOREM TypeCorrect == Spec => []TypeOK
<1>1. TradeInv => TypeOK
  BY DEF TradeInv
<1> QED BY <1>1, TradeInvariant, PTL

(* Every command is reported once, when its handler is through, whichever  *)
(* way it went through it.                                                 *)
THEOREM ReportedCorrect == Spec => []ReportedOnce
BY TradeInvImplies, TradeInvariant, PTL

(* A report of OK is the truth: the very command reported opened, closed   *)
(* or modified the order named, whatever the broker and the earlier        *)
(* attempts did, and a missing stop loss is told.                          *)
THEOREM OKCorrect == Spec => []OKMeansDone
BY TradeInvImplies, TradeInvariant, PTL

(* A report of an error is the truth but for answers that were lost.       *)
THEOREM ErrorCorrect == Spec => []ErrorMeansUnheard
BY TradeInvImplies, TradeInvariant, PTL

(* A command opens no more orders than its retries allow, and as many as   *)
(* were acknowledged or went unheard: nothing but a lost answer doubles a  *)
(* position.                                                               *)
THEOREM OpensCorrect == Spec => []OpensCounted
BY TradeInvImplies, TradeInvariant, PTL

==============================================================================
