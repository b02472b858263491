------------------------------ MODULE Sessions -------------------------------
(***************************************************************************)
(* What a plugin gets of its commands over several sessions of one         *)
(* terminal: the server makes an MT4Client for each session, whose command *)
(* ids start again at 1, while the connector's queues (CommandPipe, which  *)
(* CommandQueues implements) and the expert's table of symbols             *)
(* (SymbolTicks) outlive the session and its packets do not.               *)
(*                                                                         *)
(* A command is named by its number in the pipe; the id in its result does *)
(* not tell it from one of another session.  UltimaClient has the sessions *)
(* in detail: here one ends at both ends at once, because what the ends do *)
(* before they know of it is lost.  The trade commands are those of        *)
(* TradeExecution, each with one report.                                   *)
(***************************************************************************)
EXTENDS SymbolTicks

CONSTANTS
  MaxCommands,  \* bound: commands received
  MaxSessions,  \* bound: sessions
  MaxRestarts,  \* bound: restarts of the expert
  MaxPackets    \* bound: packets in sendBuffers

ASSUME SessionsAssumption ==
  {MaxCommands, MaxSessions, MaxRestarts, MaxPackets} \subseteq Nat

VARIABLES
  connected, \* the client is logged in
  session,   \* number of the session
  asked,     \* symbols the plugins have registered with its MT4Client and
             \*   not unregistered since
  stray,     \* history: they have unregistered another symbol
  commands,  \* [session, symbol, register] of each command received
  received, done, gone,   \* the pipe
  market,    \* the terminal's prices
  table,     \* the expert's symbols
  halted,    \* an array index out of range has stopped the expert
  out,       \* sendBuffers
  ran,       \* trade commands executed in this session
  fresh,     \* symbols put into the table in this session
  answered,  \* those whose result a plugin has got in it
  view,      \* last price got of each symbol in this session
  restarts

pipe == <<received, done, gone>>
plugin == <<asked, stray, view, answered>>
link == <<connected, session>>
expert == <<table, halted, out, ran, fresh>>
vars == <<plugin, link, commands, pipe, market, expert, restarts>>

Pipe == INSTANCE CommandPipe WITH Kinds <- {"trade", "symbol"}

NoPrice == [s \in Symbols |-> Unset]
Result(n) == [id |-> "Command", n |-> n]
Tick(t) == [id |-> "Tick", symbol |-> t.symbol, price |-> t.price]
Packets ==
  [id : {"Command"}, n : Nat] \cup [id : {"Tick"}, symbol : Symbols, price : Prices]

TypeOK ==
  /\ stray \in BOOLEAN /\ halted \in BOOLEAN
  /\ connected \in BOOLEAN /\ session \in 0..MaxSessions
  /\ asked \subseteq Symbols /\ fresh \subseteq ToSet(table.names)
  /\ received \in Seq({"trade", "symbol"}) /\ Len(commands) = Len(received)
  /\ commands \in
       Seq([session : 1..MaxSessions, symbol : Symbols \cup {"none"}, register : BOOLEAN])
  /\ table \in Tables /\ market \in [Symbols -> Prices]
  /\ out \in Seq(Packets) /\ Len(out) <= MaxPackets
  /\ done \cup gone \cup ran \cup answered \subseteq Pipe!Numbers
  /\ view \in [Symbols -> Prices \cup {Unset}]
  /\ restarts \in 0..MaxRestarts

(* The first prices may be any: they can move before they are used.        *)
Init ==
  /\ connected = FALSE /\ session = 0 /\ asked = {} /\ stray = FALSE
  /\ commands = <<>> /\ Pipe!Init
  /\ market = CHOOSE m \in [Symbols -> Prices] : TRUE
  /\ table = EmptyTable /\ halted = FALSE
  /\ out = <<>> /\ ran = {} /\ fresh = {} /\ answered = {} /\ view = NoPrice
  /\ restarts = 0

------------------------------------------------------------------------------
(* The server                                                              *)

Send(kind, symbol, register) ==
  /\ connected
  /\ Len(received) < MaxCommands
  /\ Pipe!Receive(kind)
  /\ commands' = Append(commands,
       [session |-> session, symbol |-> symbol, register |-> register])
  /\ UNCHANGED <<view, answered, link, market, expert, restarts>>

(* OpenOrder(), CloseOrder(), CloseOrderBy() and ModifyOrder().            *)
Trade == Send("trade", "none", FALSE) /\ UNCHANGED <<asked, stray>>

RegisterSymbol(s) ==
  /\ Send("symbol", s, TRUE)
  /\ asked' = asked \cup {s}
  /\ UNCHANGED stray

UnregisterSymbol(s) ==
  /\ Send("symbol", s, FALSE)
  /\ asked' = asked \ {s}
  /\ stray' = (stray \/ s \notin asked)

------------------------------------------------------------------------------
(* The connection                                                          *)

(* The server drops the MT4Client, and what plugins knew by it.            *)
Forget ==
  /\ connected' = FALSE
  /\ asked' = {} /\ view' = NoPrice /\ answered' = {}
  /\ ran' = {} /\ fresh' = {}

SessionEnds ==
  /\ connected
  /\ Forget
  /\ UNCHANGED <<stray, session, commands, pipe, market, table, halted, out, restarts>>

NewSession ==
  /\ ~connected
  /\ session < MaxSessions
  /\ connected' = TRUE /\ session' = session + 1
  /\ UNCHANGED <<plugin, commands, pipe, market, table, halted, ran, fresh, restarts>>

(* Mutant: sendBuffers is not cleared.                                     *)
ConnectKeepsBuffers == NewSession /\ UNCHANGED out

(* The connect handler clears sendBuffers; the client logs in.             *)
Connect == NewSession /\ out' = <<>>

(* The packet at the front reaches the plugins.                            *)
Deliver ==
  /\ connected /\ out # <<>>
  /\ out' = Tail(out)
  /\ IF Head(out).id = "Command"
       THEN answered' = answered \cup {Head(out).n} /\ UNCHANGED view
       ELSE view' = [view EXCEPT ![Head(out).symbol] = Head(out).price] /\ UNCHANGED answered
  /\ UNCHANGED <<asked, stray, link, commands, pipe, market, table, halted, ran, fresh, restarts>>

------------------------------------------------------------------------------
(* The expert                                                              *)

Emit(packets) ==
  /\ Len(out) + Len(packets) <= MaxPackets
  /\ out' = out \o packets

(* One command taken from its queue and carried out.                       *)
ExecuteTrade(n) ==
  /\ ~halted
  /\ Pipe!Execute(n) /\ received[n] = "trade"
  /\ Emit(<<Result(n)>>)
  /\ ran' = IF connected THEN ran \cup {n} ELSE ran
  /\ UNCHANGED <<plugin, link, commands, market, table, halted, fresh, restarts>>

HandleRegisterSymbol(n) ==
  /\ ~halted
  /\ Pipe!Execute(n) /\ received[n] = "symbol"
  /\ table' = IF commands[n].register THEN Register(table, commands[n].symbol)
                                      ELSE Unregister(table, commands[n].symbol)
  /\ LET new == ToSet(table'.names) \ ToSet(table.names)
     IN  fresh' = (IF connected THEN fresh \cup new ELSE fresh) \cap ToSet(table'.names)
  /\ UNCHANGED <<plugin, link, commands, market, halted, out, ran, restarts>>

UpdateTicks ==
  /\ ~halted
  /\ LET ticks == Ticks(table, market)
     IN  Emit([k \in DOMAIN ticks |-> Tick(ticks[k])])
  /\ table' = Ticked(table, market)
  /\ halted' = PastEnd(table)
  /\ UNCHANGED <<plugin, link, commands, pipe, market, ran, fresh, restarts>>

(* OnDeinit(), which destroys the client and its queues, and OnInit().     *)
Restart ==
  /\ restarts < MaxRestarts
  /\ restarts' = restarts + 1
  /\ Pipe!Drop
  /\ Forget
  /\ table' = EmptyTable /\ halted' = FALSE /\ out' = <<>>
  /\ UNCHANGED <<stray, session, commands, market>>

(* Of the symbols the expert serves: no step reads the other prices.       *)
MarketMoves(s) ==
  /\ Contains(table.names, s)
  /\ \E p \in Prices \ {market[s]} : market' = [market EXCEPT ![s] = p]
  /\ UNCHANGED <<plugin, link, commands, pipe, expert, restarts>>

------------------------------------------------------------------------------
Trades == \E n \in Pipe!Numbers : ExecuteTrade(n)
Registrations == \E n \in Pipe!Numbers : HandleRegisterSymbol(n)

Next ==
  \/ Trade
  \/ \E s \in Symbols : RegisterSymbol(s) \/ UnregisterSymbol(s) \/ MarketMoves(s)
  \/ SessionEnds \/ Connect \/ Deliver
  \/ Trades \/ Registrations \/ UpdateTicks
  \/ Restart

(* The expert's timer goes on (strongly fair because MaxPackets, which the *)
(* code does not have, disables its steps) and packets written on a live   *)
(* connection arrive.                                                      *)
Spec ==
  /\ Init /\ [][Next]_vars
  /\ SF_vars(Trades) /\ WF_vars(Registrations) /\ SF_vars(UpdateTicks)
  /\ WF_vars(Deliver)

------------------------------------------------------------------------------
(* Properties                                                              *)

Unanswered ==
  {n \in Pipe!Numbers : commands[n].session = session /\ received[n] = "trade"} \ answered

Unpriced == {s \in fresh : view[s] = Unset}

Results == {i \in DOMAIN out : out[i].id = "Command"}

(* A result on its way in a session is of a command executed in that       *)
(* session, and will be the only one of it: a plugin can take a result for *)
(* that of another command of the same id only when the other command was  *)
(* left in the connector's queues by an earlier session and executed after *)
(* the reconnection.                                                       *)
ResultsAreFresh ==
  connected =>
    /\ \A i \in Results : out[i].n \in ran \ answered
    /\ \A i, j \in Results : out[i].n = out[j].n => i = j

(* When nothing is on its way and the expert finds nothing to send, the    *)
(* plugins have no price or the market's for each symbol it serves.        *)
PricesNeverStale ==
  connected /\ ~halted /\ out = <<>> /\ Ticks(table, market) = <<>> =>
    \A i \in Reached(table) : view[table.names[i]] \in {Unset, market[table.names[i]]}

(* Sessions cut and resumed at any point do not make the expert read past  *)
(* the end of its prices, as long as plugins unregister what they have     *)
(* registered; nor do the symbols of the table repeat, whatever they do.   *)
TableHolds ==
  /\ IsInjective(table.names)
  /\ ~stray => ~PastEnd(table) /\ ~halted

(* While a session lasts, every trade command received in it is answered   *)
(* and the price of every symbol newly registered arrives, unless a stray  *)
(* unregistration stops the expert.  (A symbol that an earlier session has *)
(* registered waits for its price to change.)                              *)
EventuallyServed ==
  connected ~> ((Unanswered = {} /\ Unpriced = {}) \/ ~connected \/ halted)

==============================================================================
