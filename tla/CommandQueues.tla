---------------------------- MODULE CommandQueues ----------------------------
(***************************************************************************)
(* The commands of the server on their way through the connector: the io   *)
(* thread pushes each packet into the queue of its kind, the EA's timer    *)
(* event waits for a command and then empties the six queues one after the *)
(* other.  cmdMutex makes pushToQueue(), getFromQueue() and the test in    *)
(* waitForCommand() single steps; between them the threads interleave      *)
(* freely, also while the EA executes a command.                           *)
(*                                                                         *)
(* Executing a command is one step with taking it from its queue (the      *)
(* steps of a trade are in module TradeExecution).  External: the MetaTrader  *)
(* terminal, which raises the timer event and removes the EA only between  *)
(* its events.                                                             *)
(***************************************************************************)
EXTENDS Naturals, Sequences

CONSTANTS
  Sent,         \* the kinds of commands the server sends
  Limit,        \* the values of commandsInQueues: 2^32 in the code
  Garbage,      \* what the atomic may hold, as no constructor initialises it
  MaxReceived,  \* bound: commands received
  MaxRestarts   \* bound: removals of the EA

(* The queues, in the order OnTimer() empties them.                        *)
DrainOrder == <<"SymbolRegister", "CloseOrder", "CloseOrderBy", "OpenOrder",
                "ModifyOrder", "HistoryOrdersRequest">>
Kinds      == {"SymbolRegister", "CloseOrder", "CloseOrderBy", "OpenOrder",
               "ModifyOrder", "HistoryOrdersRequest"}

ASSUME CommandQueuesAssumption ==
  /\ Sent \subseteq Kinds
  /\ Limit \in Nat \ {0, 1}
  /\ Garbage \subseteq 0..(Limit - 1) /\ Garbage # {}
  /\ MaxReceived \in Nat
  /\ MaxRestarts \in Nat

VARIABLES
  queue,             \* the six deques, of command numbers
  commandsInQueues,  \* UltimaClient::commandsInQueues
  base,              \* history: what that counter held at the start
  pc,                \* the EA: "idle", "waiting" in WaitForCommand, "draining"
  pos,               \* the queue OnTimer() empties; 7 after the round
  received,          \* history: the kinds received, in order
  executed,          \* history: the numbers executed, in order
  gone,              \* history: the numbers lost with a removed EA
  roundStart,        \* history: Len(received) when the round began
  skipped,           \* history: timer events in a row that left a command
                     \* (2 stands for more)
  restarts

ea      == <<pc, pos, roundStart, skipped>>
history == <<received, executed, gone>>
client  == <<queue, commandsInQueues, base>>
vars    == <<client, ea, history, restarts>>

Numbers == 1..Len(received)
Done    == {executed[i] : i \in DOMAIN executed}

(* The commands in the six queues.                                         *)
Queued ==
  Len(queue["SymbolRegister"]) + Len(queue["CloseOrder"])
    + Len(queue["CloseOrderBy"]) + Len(queue["OpenOrder"])
    + Len(queue["ModifyOrder"]) + Len(queue["HistoryOrdersRequest"])

(* The counter may have passed 2^32 - 1: it began that close to it.        *)
Wraps == base + Len(received) >= Limit

TypeOK ==
  /\ queue \in [Kinds -> Seq(Nat)]
  /\ commandsInQueues \in 0..(Limit - 1)
  /\ base \in 0..(Limit - 1)
  /\ pc \in {"idle", "waiting", "draining"}
  /\ pos \in 1..7
  /\ received \in Seq(Kinds)
  /\ executed \in Seq(Nat)
  /\ gone \subseteq Nat
  /\ roundStart \in 0..Len(received)
  /\ skipped \in 0..2
  /\ restarts \in 0..MaxRestarts

Empty == [k \in Kinds |-> <<>>]

(* ++ and -- of a std::atomic<uint32_t>.                                   *)
Up(c)   == IF c = Limit - 1 THEN 0 ELSE c + 1
Down(c) == IF c = 0 THEN Limit - 1 ELSE c - 1

Init ==
  /\ queue = Empty
  /\ base \in Garbage
  /\ commandsInQueues = base
  /\ pc = "idle"
  /\ pos = 7
  /\ received = <<>>
  /\ executed = <<>>
  /\ gone = {}
  /\ roundStart = 0
  /\ skipped = 0
  /\ restarts = 0

------------------------------------------------------------------------------
(* Mutant: the handler registered for ModifyOrder pushes to openOrderQ.    *)
PushMisfiled(k) ==
  /\ Len(received) < MaxReceived
  /\ received' = Append(received, k)
  /\ queue' = [queue EXCEPT ![IF k = "ModifyOrder" THEN "OpenOrder" ELSE k] =
                                Append(@, Len(received) + 1)]
  /\ commandsInQueues' = Up(commandsInQueues)
  /\ UNCHANGED <<base, pc, pos, executed, gone, roundStart, skipped, restarts>>

(* pushToQueue(), in the io thread.  notify_one() changes only how soon a  *)
(* wait returns, and one may return at any time.                           *)
Push(k) ==
  /\ Len(received) < MaxReceived
  /\ received' = Append(received, k)
  /\ queue' = [queue EXCEPT ![k] = Append(@, Len(received) + 1)]
  /\ commandsInQueues' = Up(commandsInQueues)
  /\ UNCHANGED <<base, pc, pos, executed, gone, roundStart, skipped, restarts>>

(* WaitForCommand() has answered: TRUE starts a round, FALSE leaves the    *)
(* queues to the next timer event.                                         *)
Answer(found) ==
  /\ pc' = IF found THEN "draining" ELSE "idle"
  /\ pos' = IF found THEN 1 ELSE 7
  /\ roundStart' = IF found THEN Len(received) ELSE roundStart
  /\ skipped' = IF found \/ Queued = 0 THEN 0 ELSE IF skipped = 0 THEN 1 ELSE 2
  /\ UNCHANGED <<client, history, restarts>>

(* Mutant: waitForCommand() without the test before the wait.              *)
OnTimerWaitsAlways ==
  /\ pc = "idle"
  /\ pc' = "waiting"
  /\ UNCHANGED <<pos, roundStart, skipped, client, history, restarts>>

(* OnTimer() calls WaitForCommand(1), which first looks at the counter.    *)
OnTimer ==
  /\ pc = "idle"
  /\ \/ commandsInQueues > 0 /\ Answer(TRUE)
     \/ /\ commandsInQueues = 0
        /\ pc' = "waiting"
        /\ UNCHANGED <<pos, roundStart, skipped, client, history, restarts>>

(* cmdCond.wait_for() returns: notified or spuriously; or after 1 ms, even *)
(* if a command came just then.                                            *)
Wake    == pc = "waiting" /\ Answer(TRUE)
Timeout == pc = "waiting" /\ Answer(FALSE)

(* The command at the front of queue k is taken and executed.              *)
Take(k, n) ==
  /\ queue[k] # <<>>
  /\ queue' = [queue EXCEPT ![k] = Tail(@)]
  /\ commandsInQueues' = Down(commandsInQueues)
  /\ executed' = Append(executed, Head(queue[k]))
  /\ pos' = n
  /\ pc' = IF n = 7 THEN "idle" ELSE "draining"
  /\ UNCHANGED <<base, received, gone, roundStart, skipped, restarts>>

(* Mutants: a handler that takes one command and not all of its kind; a    *)
(* getFromQueue() that leaves the counter alone; one that takes the        *)
(* command at the back.                                                    *)
HandleOne(k) == Take(k, pos + 1)

HandleUncounted(k) ==
  /\ queue[k] # <<>>
  /\ queue' = [queue EXCEPT ![k] = Tail(@)]
  /\ executed' = Append(executed, Head(queue[k]))
  /\ UNCHANGED <<commandsInQueues, base, received, gone, ea, restarts>>

HandleNewest(k) ==
  /\ queue[k] # <<>>
  /\ queue' = [queue EXCEPT ![k] = SubSeq(@, 1, Len(@) - 1)]
  /\ commandsInQueues' = Down(commandsInQueues)
  /\ executed' = Append(executed, queue[k][Len(queue[k])])
  /\ UNCHANGED <<base, received, gone, ea, restarts>>

(* The body of the loop while (Get...Command(cmd)) of the handler of k.    *)
Handle(k) == Take(k, pos)

(* Mutant: OnTimer() without its call of HandleModifyOrderCommands().     *)
NextQueueForgetsModify ==
  /\ pc = "draining"
  /\ queue[DrainOrder[pos]] = <<>>
  /\ pos' = IF pos = 4 THEN 6 ELSE pos + 1
  /\ pc' = IF pos = 6 THEN "idle" ELSE "draining"
  /\ UNCHANGED <<client, roundStart, skipped, history, restarts>>

(* Get...Command() has returned FALSE: OnTimer() calls the next handler.   *)
NextQueue ==
  /\ pc = "draining"
  /\ queue[DrainOrder[pos]] = <<>>
  /\ pos' = pos + 1
  /\ pc' = IF pos = 6 THEN "idle" ELSE "draining"
  /\ UNCHANGED <<client, roundStart, skipped, history, restarts>>

Execute == pc = "draining" /\ Handle(DrainOrder[pos])

(* OnDeinit() destroys the client, with the commands still queued; OnInit() *)
(* makes a new one.                                                        *)
Restart ==
  /\ pc = "idle"
  /\ restarts < MaxRestarts
  /\ restarts' = restarts + 1
  /\ queue' = Empty
  /\ base' \in Garbage
  /\ commandsInQueues' = base'
  /\ gone' = Numbers \ Done
  /\ skipped' = 0
  /\ UNCHANGED <<pc, pos, received, executed, roundStart>>

Expert == OnTimer \/ Wake \/ Timeout \/ Execute \/ NextQueue

Next == (\E k \in Sent : Push(k)) \/ Expert \/ Restart

(* The terminal keeps raising timer events and runs the EA's code.         *)
Spec == Init /\ [][Next]_vars /\ WF_vars(Expert)

------------------------------------------------------------------------------
(* The counter that WaitForCommand() and HasCommands() trust is the number *)
(* of commands in the six queues, added to what the memory held when the   *)
(* client was made: neither thread ever makes it drift.                    *)
CountIsExact == commandsInQueues = (base + Queued) % Limit

(* A round executes every command that was queued when it began, whatever  *)
(* arrives meanwhile: behind the queue being emptied, all is newer.        *)
RoundDrains ==
  \A p \in 1..(pos - 1) :
    \A i \in DOMAIN queue[DrainOrder[p]] :
      queue[DrainOrder[p]][i] > roundStart

(* The wait misses a command only when it comes as the millisecond ends,   *)
(* and the next timer event sees it: no command is passed over twice,      *)
(* unless the counter began so high that it wraps.                         *)
SkippedOnce == Wraps \/ skipped <= 1

(* Every command received is in exactly one place: executed, lost, or in   *)
(* the queue of its kind, which is in the order of receipt.                *)
Placed ==
  /\ Done \cup gone \subseteq Numbers
  /\ \A k \in Kinds : \A i \in DOMAIN queue[k] :
       /\ queue[k][i] \in Numbers \ (Done \cup gone)
       /\ received[queue[k][i]] = k
  /\ \A k \in Kinds : \A i, j \in DOMAIN queue[k] :
       i < j => queue[k][i] < queue[k][j]
  /\ \A n \in Numbers \ (Done \cup gone) :
       \E i \in DOMAIN queue[received[n]] : queue[received[n]][i] = n

(* Every command is executed at most once, per kind in the order received, *)
(* and lost only with the EA: the queues implement CommandPipe.            *)
Pipe == INSTANCE CommandPipe WITH done <- Done
PipeSpec == Pipe!Spec

(* The commands are there and the counter denies it: it has wrapped to 0.  *)
Hidden == commandsInQueues = 0 /\ Queued > 0

(* Once the server stops sending, every command received is executed, or   *)
(* lost with the EA, or hidden for good by a counter whose first value was *)
(* no 0.  (While the server keeps sending commands of one kind, the loop   *)
(* of that kind need not end and later kinds wait: no bound exists.)       *)
EventuallyExecuted ==
  \A n \in 1..MaxReceived :
    (n \in Numbers) ~> (n \in gone \cup Done \/ []Hidden)

==============================================================================
