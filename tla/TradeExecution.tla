--------------------------- MODULE TradeExecution ---------------------------
(***************************************************************************)
(* How the expert advisor executes a trade command: CloseOrder,            *)
(* CloseOrderBy, OpenPosition and ModifyOrder of UltimaConnector.mqh.      *)
(* A command is dispatched once, then attempted up to `retries' times,     *)
(* each attempt after WaitForTradeContext() and each failed one followed   *)
(* by a sleep; what became of it is told with one ReportCommand().         *)
(*                                                                         *)
(* External: the broker.  It may refuse a request, or carry it out and     *)
(* have its answer lost (the terminal then returns a failure); it fills    *)
(* pending orders and closes orders by itself; it may open a position      *)
(* without the stop loss asked for.  Closing an order by another one       *)
(* closes both: positions are taken to be of one size.                     *)
(***************************************************************************)
EXTENDS Integers, Sequences, FiniteSets

CONSTANTS
  Retries,      \* the retry counts commands carry
  MaxWaits,     \* tries of WaitForTradeContext (500 in the code)
  MaxOrders,    \* bound: tickets
  Named,        \* bound: the tickets commands name
  MaxCommands   \* bound: commands received

ASSUME TradeAssumption ==
  /\ Retries \subseteq Nat \ {0}
  /\ MaxWaits \in Nat \ {0}
  /\ MaxOrders \in Nat \ {0}
  /\ Named \subseteq 1..MaxOrders
  /\ MaxCommands \in Nat

Tickets == 1..MaxOrders
Ids == 1..MaxCommands
NoOrder == -1        \* what OrderSend returns when it fails

Commands ==
  [op : {"market", "pending"}, sl : BOOLEAN, retries : Retries]
    \cup [op : {"invalid"}, retries : Retries]
    \cup [op : {"close", "modify"}, order : Named, retries : Retries]
    \cup [op : {"closeBy"}, order : Named, orderBy : Named, retries : Retries]

Opens(c) == c.op \in {"market", "pending", "invalid"}

VARIABLES
  orders,    \* the broker's orders: their type, whether they are open, the
             \*   commands that opened, closed and last modified them (0 when
             \*   none did), and whether they ever had the stop loss asked for
  busy,      \* the trade context is taken by another expert
  received,  \* the commands received, in order
  pc,        \* where the expert is in the handler of the last one
  how,       \* the request an attempt makes
  t,         \* retries so far
  waits,     \* tries of WaitForTradeContext
  done,      \* the last attempt was acknowledged
  order,     \* the ticket OrderSend returned
  realStopLoss,  \* the stop loss asked for was seen on the new order
  reports,   \* the ReportCommand() calls made for each command
  unheard    \* the attempts of each command whose answer was lost

handler == <<pc, how, t, waits, done, order, realStopLoss>>
vars == <<orders, busy, received, handler, reports, unheard>>

id == Len(received)
cmd == received[id]

Orders ==
  [type : {"none", "market", "pending"}, open : BOOLEAN,
   opener : 0..MaxCommands, closer : 0..MaxCommands, modifier : 0..MaxCommands,
   hadSL : BOOLEAN]

Reports ==
  [result : {"OK", "OKPartial", "Error"}, order : {NoOrder, 0} \cup Tickets]

Requests == {"market", "pending", "close", "delete", "closeBy", "modify"}

TypeOK ==
  /\ orders \in [Tickets -> Orders]
  /\ busy \in BOOLEAN
  /\ received \in Seq(Commands) /\ id <= MaxCommands
  /\ pc \in {"idle", "waiting", "attempt", "asleep", "inspect", "report"}
  /\ how \in Requests
  /\ t \in Nat /\ waits \in 0..MaxWaits
  /\ pc # "idle" => t <= cmd.retries
  /\ done \in BOOLEAN
  /\ order \in {NoOrder} \cup Tickets
  /\ realStopLoss \in BOOLEAN
  /\ reports \in [Ids -> Seq(Reports)]
  /\ unheard \in [Ids -> Nat]

NoSuchOrder == [type |-> "none", open |-> FALSE, opener |-> 0, closer |-> 0,
                modifier |-> 0, hadSL |-> FALSE]
Placed(ty) == [NoSuchOrder EXCEPT !.type = ty, !.open = TRUE]

(* A position is there when the expert starts.                             *)
Init ==
  /\ orders = [n \in Tickets |-> IF n = 1 THEN Placed("market") ELSE NoSuchOrder]
  /\ busy = FALSE
  /\ received = <<>>
  /\ pc = "idle" /\ how = "market"
  /\ t = 0 /\ waits = 0
  /\ done = FALSE /\ order = NoOrder /\ realStopLoss = FALSE
  /\ reports = [i \in Ids |-> <<>>]
  /\ unheard = [i \in Ids |-> 0]

------------------------------------------------------------------------------
(* Receiving a command                                                     *)

ReportCommand(i, result, n) ==
  reports' = [reports EXCEPT ![i] = Append(@, [result |-> result, order |-> n])]

(* A command that is refused without an attempt: a trade command that is   *)
(* neither market nor pending, an order OrderSelect() does not find.  (An  *)
(* order to close that is neither market nor pending ends alike: as none.) *)
Reject(c) ==
  /\ \/ c.op = "invalid"
     \/ c.op \in {"close", "modify"} /\ orders[c.order].type = "none"
  /\ ReportCommand(id + 1, "Error", IF Opens(c) THEN 0 ELSE c.order)
  /\ UNCHANGED handler

(* The request a command stands for; closing depends on the type the       *)
(* selected order has now.                                                 *)
RequestOf(c) ==
  IF c.op # "close" THEN c.op
  ELSE IF orders[c.order].type = "market" THEN "close" ELSE "delete"

(* The first attempt begins.  ModifyOrder leaves `modified' uninitialised. *)
Begin(c) ==
  /\ c.op # "invalid"
  /\ c.op \in {"close", "modify"} => orders[c.order].type # "none"
  /\ how' = RequestOf(c)
  /\ pc' = "waiting" /\ t' = 0 /\ waits' = 0
  /\ done' \in IF c.op = "modify" THEN BOOLEAN ELSE {FALSE}
  /\ order' = NoOrder /\ realStopLoss' = FALSE
  /\ UNCHANGED reports

Receive(c) ==
  /\ pc = "idle" /\ id < MaxCommands
  /\ received' = Append(received, c)
  /\ Reject(c) \/ Begin(c)
  /\ UNCHANGED <<orders, busy, unheard>>

------------------------------------------------------------------------------
(* An attempt                                                              *)

(* Mutant: waits until the context is free, however long.                  *)
WaitForTradeContextForever ==
  /\ pc = "waiting"
  /\ IF busy THEN UNCHANGED <<pc, waits>> ELSE pc' = "attempt" /\ waits' = 0
  /\ UNCHANGED <<orders, busy, received, how, t, done, order, realStopLoss,
                 reports, unheard>>

(* It gives up waiting after MaxWaits tries, and attempts all the same.    *)
WaitForTradeContext ==
  /\ pc = "waiting"
  /\ IF busy /\ waits < MaxWaits
       THEN waits' = waits + 1 /\ UNCHANGED pc
       ELSE pc' = "attempt" /\ waits' = 0
  /\ UNCHANGED <<orders, busy, received, how, t, done, order, realStopLoss,
                 reports, unheard>>

IsOpen(n, ty) == orders[n].open /\ orders[n].type = ty
Free == {n \in Tickets : orders[n].type = "none"}
NewTicket == CHOOSE n \in Free : \A m \in Free : n <= m

(* What the broker does when it carries out the request of the command.    *)
CarryOut(n) ==
  CASE how \in {"market", "pending"} ->
         /\ Free # {} /\ n = NewTicket
         /\ \E sl \in {FALSE, cmd.sl} :
              orders' = [orders EXCEPT ![n] =
                [Placed(how) EXCEPT !.opener = id, !.hadSL = sl]]
    [] how = "close" ->
         /\ n = cmd.order /\ IsOpen(n, "market")
         /\ orders' = [orders EXCEPT ![n].open = FALSE, ![n].closer = id]
    [] how = "delete" ->
         /\ n = cmd.order /\ IsOpen(n, "pending")
         /\ orders' = [orders EXCEPT ![n].open = FALSE, ![n].closer = id]
    [] how = "closeBy" ->
         /\ n = cmd.order /\ n # cmd.orderBy
         /\ IsOpen(n, "market") /\ IsOpen(cmd.orderBy, "market")
         /\ orders' = [orders EXCEPT
              ![n].open = FALSE, ![n].closer = id,
              ![cmd.orderBy].open = FALSE, ![cmd.orderBy].closer = id]
    [] how = "modify" ->
         /\ n = cmd.order /\ orders[n].open
         /\ orders' = [orders EXCEPT ![n].modifier = id]

(* Mutant: the loop is not left after a success.                           *)
AcknowledgedGoesOn(n) ==
  /\ CarryOut(n)
  /\ done' = TRUE
  /\ order' = IF how \in {"market", "pending"} THEN n ELSE NoOrder
  /\ pc' = "asleep"
  /\ UNCHANGED <<realStopLoss, unheard>>

(* The request succeeds and the loop is left.  A market order just opened  *)
(* is looked at.                                                           *)
Acknowledged(n) ==
  /\ CarryOut(n)
  /\ done' = TRUE
  /\ order' = IF how \in {"market", "pending"} THEN n ELSE NoOrder
  /\ pc' = IF how = "market" THEN "inspect" ELSE "report"
  /\ UNCHANGED <<realStopLoss, unheard>>

Failed == done' = FALSE /\ order' = NoOrder /\ pc' = "asleep" /\ UNCHANGED realStopLoss

(* Carried out, but the terminal does not learn of it.                     *)
Unheard(n) ==
  /\ CarryOut(n)
  /\ Failed
  /\ unheard' = [unheard EXCEPT ![id] = @ + 1]

Attempt ==
  /\ pc = "attempt"
  /\ \/ ~busy /\ \E n \in Tickets : Acknowledged(n) \/ Unheard(n)
     \/ Failed /\ UNCHANGED <<orders, unheard>>
  /\ UNCHANGED <<busy, received, how, t, waits, reports>>

(* Sleep(retrySpanMs) ends.                                                *)
Retry ==
  /\ pc = "asleep"
  /\ t' = t + 1
  /\ pc' = IF t' < cmd.retries THEN "waiting" ELSE "report"
  /\ UNCHANGED <<orders, busy, received, how, waits, done, order, realStopLoss,
                 reports, unheard>>

------------------------------------------------------------------------------
(* Reporting                                                               *)

(* OpenMarketPosition selects the order it opened and reads its stop loss; *)
(* it stays 0 when the order cannot be selected.                           *)
Inspect ==
  /\ pc = "inspect"
  /\ realStopLoss' \in {FALSE, orders[order].hadSL}
  /\ pc' = "report"
  /\ UNCHANGED <<orders, busy, received, how, t, waits, done, order, reports, unheard>>

(* Mutant: any attempt but one to open passes for a success.               *)
ResultOptimistic ==
  CASE ~done -> IF Opens(cmd) THEN "Error" ELSE "OK"
    [] done /\ how = "market" /\ cmd.sl /\ ~realStopLoss -> "OKPartial"
    [] OTHER -> "OK"

Result ==
  CASE ~done -> "Error"
    [] done /\ how = "market" /\ cmd.sl /\ ~realStopLoss -> "OKPartial"
    [] OTHER -> "OK"

(* The handler returns; its locals are gone.                               *)
Return ==
  /\ pc' = "idle" /\ how' = "market"
  /\ t' = 0 /\ UNCHANGED waits
  /\ done' = FALSE /\ order' = NoOrder /\ realStopLoss' = FALSE

(* Mutant: a failed open returns without a report.                        *)
ReportUnlessFailedOpen ==
  /\ pc = "report"
  /\ Return
  /\ IF Opens(cmd) /\ ~done
       THEN UNCHANGED reports
       ELSE ReportCommand(id, Result, IF Opens(cmd) THEN order ELSE cmd.order)
  /\ UNCHANGED <<orders, busy, received, unheard>>

Report ==
  /\ pc = "report"
  /\ Return
  /\ ReportCommand(id, Result, IF Opens(cmd) THEN order ELSE cmd.order)
  /\ UNCHANGED <<orders, busy, received, unheard>>

------------------------------------------------------------------------------
(* The broker and the other experts of the terminal                        *)

Fill(n) ==
  /\ IsOpen(n, "pending")
  /\ orders' = [orders EXCEPT ![n].type = "market"]
  /\ UNCHANGED <<busy, received, handler, reports, unheard>>

BrokerCloses(n) ==
  /\ orders[n].open
  /\ orders' = [orders EXCEPT ![n].open = FALSE]
  /\ UNCHANGED <<busy, received, handler, reports, unheard>>

ContextChanges ==
  /\ busy' = ~busy
  /\ UNCHANGED <<orders, received, handler, reports, unheard>>

Expert == WaitForTradeContext \/ Attempt \/ Retry \/ Inspect \/ Report
Broker == ContextChanges \/ \E n \in Tickets : Fill(n) \/ BrokerCloses(n)
Next == (\E c \in Commands : Receive(c)) \/ Expert \/ Broker

(* The expert's thread runs; the broker and the other experts owe nothing. *)
Spec == Init /\ [][Next]_vars /\ WF_vars(Expert)

------------------------------------------------------------------------------
(* Properties                                                              *)

Finished(i) == i < id \/ (i = id /\ pc = "idle")
ReportOf(i) == reports[i][1]
OpenedBy(i) == {n \in Tickets : orders[n].opener = i}

(* A command is reported once, when its handler is through, whichever way  *)
(* it went through it.                                                     *)
ReportedOnce ==
  \A i \in Ids : Len(reports[i]) = IF Finished(i) THEN 1 ELSE 0

(* OK is the truth, whatever the broker and earlier attempts did: the      *)
(* order named was opened, closed or modified by this very command, and a  *)
(* market order that lacks the stop loss asked for is not told as OK.      *)
OKMeansDone ==
  \A i \in Ids : reports[i] # <<>> /\ ReportOf(i).result # "Error" =>
    LET c == received[i]
    IN  CASE Opens(c) ->
               /\ ReportOf(i).order \in OpenedBy(i)
               /\ (c.op = "market" /\ c.sl /\ ReportOf(i).result = "OK")
                    => orders[ReportOf(i).order].hadSL
          [] c.op = "close" -> orders[c.order].closer = i /\ ~orders[c.order].open
          [] c.op = "closeBy" ->
               \A n \in {c.order, c.orderBy} : orders[n].closer = i /\ ~orders[n].open
          [] c.op = "modify" -> orders[c.order].modifier >= i

(* Error is the truth but for the answers that were lost: nothing of what  *)
(* the command did was acknowledged.                                       *)
ErrorMeansUnheard ==
  \A i \in Ids : (reports[i] # <<>> /\ ReportOf(i).result = "Error") =>
    \A n \in Tickets :
      i \in {orders[n].opener, orders[n].closer, orders[n].modifier} => unheard[i] > 0

(* A command opens one order at most, and one more for each attempt whose  *)
(* answer was lost: retrying is what doubles positions, and nothing else.  *)
OpensCounted ==
  \A i \in Ids : Finished(i) =>
    /\ Cardinality(OpenedBy(i)) <= received[i].retries
    /\ Opens(received[i]) =>
         Cardinality(OpenedBy(i)) =
           unheard[i] + IF ReportOf(i).result = "Error" THEN 0 ELSE 1

(* A command is reported in the end, even if another expert never gives    *)
(* the trade context back.                                                 *)
EventuallyReported == \A i \in Ids : id >= i ~> reports[i] # <<>>

==============================================================================
