# Ultima.Toolkit in TLA+

Ultima.Toolkit connects MetaTrader 4 terminals to a server that runs trading
plugins. An expert advisor (EA) in the terminal, `UltimaConnector.mq4`, calls a
C++ DLL, `UltimaConnector`, which holds a TCP session to the server,
`Ultima.Core`. Prices, order snapshots and command results flow to the server;
symbol registrations and trade commands flow back. Beside it, `MT4Sync` copies
open orders to a database.

This directory models the parts of that system where the order of events
decides whether it works: the session and its reconnection, the framing of the
stream, the queues between threads, the execution of commands, the snapshots of
the orders, and the server's tables of clients. `PROJECT.json` maps each
definition to the source lines it stands for and lists the runs, the hazards
and the theorems.

## The system

| Component | State | Operations | Made hard by |
| --- | --- | --- | --- |
| `UltimaClient` session (C++) | `socket`, `connecting`, `timer`, `sendBuffers`, `lastSentOpenedOrdersPacket` | `reconnect`, connect/read/write handlers, `send`, `postReconnect` | completions in any order, lost connections, a timer that races them, calls from the EA's thread |
| Framing (C++) | `recvBuffer` | read handler, `handlePackets` | TCP cuts the stream anywhere; sessions end inside a message |
| Command queues (C++, MQL) | six deques, `commandsInQueues`, `cmdMutex`, `cmdCond` | `pushToQueue`, `waitForCommand`, `getFromQueue`, `OnTimer` | io thread and EA share them; the wait may time out as a command comes; EA restarts |
| Trade commands (MQL) | one handler's locals; the broker's orders | `CloseOrder`, `CloseOrderBy`, `OpenPosition`, `ModifyOrder`, `WaitForTradeContext`, `ReportCommand` | refused and unheard attempts, retries, orders that change meanwhile, a busy trade context |
| Order snapshots (MQL) | the terminal's pool | `UpdateOrdersImpl`, `RequestOrderHistory` | the pool changes while it is read |
| Symbols and ticks (MQL) | `registeredInstruments`, `bids`, `asks` | `HandleRegisterSymbol`, `UpdateTicks` | three arrays that must keep one length |
| `OrderDeltaCalculator` (F#) | `currentOrders` | `UpdateOrders`, `Reset` | two enumerators; events delivered in the middle |
| `NetworkServer` (F#) | `temporarySockets`, `clients`, `clientConnected` | `OnConnected`, `RegisterClient`, disconnection, `GetConnectedClients`, `Stop` | half-open connections, duplicate logins, several threads |
| `MT4Client` (F#) | `cmdId` | commands, result stream | ids restart with each session |
| `PluginManager` (F#) | `runningPlugins` | `Start`, `Stop`, `SignalStop`, `SignalStopAll`, end of a task | plugins that end or throw while they are stopped |
| `XmppClient` (F#) | the connection | `Start`, `Stop`, `Send`, `OnClose`, `OnError` | one end raises up to two events, each with its delayed `Open()`, which `Stop` does not cancel |
| `Ultima` host (F#) | the services | `Initialize`, `Start`, plugins, `Stop` | the order of these in program and service |
| `MT4Sync` (MQL, C++) | the rows of a platform | `SyncConnect`, schema check, `SyncOpenedOrders` | batches that fail in part, a pool that changes while it is read, tags two terminals share |

How they interact:

- The EA calls the DLL from the terminal's thread (`OnInit`, `OnTimer`,
  `OnDeinit`). `send()` dispatches a closure to the io thread; commands come
  back through the queues, which the EA polls on its 66 ms timer.
- Client and server exchange framed messages over one TCP connection per
  session: Login first, then prices, results and snapshots one way, commands
  the other. The server closes a connection whose company is registered
  already; the client reconnects 15 s after any failure.
- The server's executor runs connection, login and disconnection handlers one
  at a time, and announces each new client to the plugins on a Rx subject.
  Plugins subscribe to a client's streams and send commands through it.

What makes each correct, in short: the client is always on its way to a session
and never in two at once; a session's messages are handled once, in order;
commands are executed at most once and in order per kind, and reported once,
truthfully; a plugin's view of the orders follows the terminal's; the server
holds every live connection once and announces each client once.

## Modules

| Module | Models | Theorems |
| --- | --- | --- |
| `UltimaClient` | the session engine of `UltimaClient.cpp`/`.hpp` | `UltimaClientProofs` |
| `Framing` | `doRead`, `handlePackets` | `FramingProofs` |
| `CommandPipe` | abstract: what the queues promise | |
| `CommandQueues` | the queues and the EA's timer rounds | `CommandQueuesProofs` |
| `TradeExecution` | the trade handlers of `UltimaConnector.mqh` | `TradeExecutionProofs` |
| `OrderDelta` (`MCOrderDelta`) | `OrderDeltaCalculator` | `OrderDeltaProofs` |
| `OrderStream` | scan, repeated-packet check, session end and `OrderDelta` (by INSTANCE) together | |
| `NetworkServer` | the server's tables, the plugin's subscription, `Stop` | `NetworkServerProofs` |
| `PluginManager` | the actor that starts and stops plugins | `PluginManagerProofs` |
| `SymbolTicks` | `HandleRegisterSymbol` and `UpdateTicks` as operators on the expert's table | |
| `Sessions` | `MT4Client`, the connector's queues (`CommandPipe` by INSTANCE), the expert's table (`SymbolTicks`) and its packets, over several sessions | `SessionsProofs` |
| `XmppClient` | the notification service and the host's calls of it | |
| `MT4Sync` (`MCMT4Sync`) | several `MT4Sync` experts on one database | |

Each component module declares the code's fields as VARIABLES under the code's
names, one action per handler, and the auxiliary variables its properties need,
said to be so. `MCOrderDelta` adds the symmetry set of the orders, `MCMT4Sync` the tags
of the terminals. Definitions introduced as mutants are variants of a definition with a plausible defect; nothing uses them
in the specification: they record which defect each property would reveal.

### UltimaClient

One thread runs the io service, so a handler is one atomic step; the model keeps
the completions waiting for it (`ready`, FIFO), the operations the system still
owns (`connectOp`, `reading`, `inFlight`) and the timer. The EA's sends, the
network, the server's end, faults and the EA's restart interleave with it.
Closing a socket fails its operations, which is how boost reports it. `Tick`
stands for every packet `send()` treats alike. Once an exception leaves the io
thread, or `pop_front()` is called on an empty deque, `ioAlive` is FALSE and
nothing more is said of that process.

The timer may expire with a completion waiting before it. No thread has to be
late for that: a `send()` on the closed socket just before the expiry is enough.
The failed write then arms the timer again, the old expiry reconnects, and 15 s
later the new expiry meets a session that is up, which `reconnect()` closes.
`SingleReader` holds through all of it, but for one case: if the session closed
had a read that had succeeded and was not handled yet, its handler starts a read
of the next socket, beside the one that session starts itself. `stale` records
that case, until no read is left. `EventuallyRegistered` asks only that failures
do not race with an expiry (`OvertakenExpiry`) for ever; what came of earlier
races must settle. It also holds if the process dies (`~ioAlive`): by
`pop_front()` on an empty deque, or by `resolve()` or `set_option()`, which throw
out of the io thread.

### Framing

A byte is the message it belongs to and its offset in it. What the code reads
as a length from bytes that are no header is any number. A read that ends inside
a message whose header is there leaves the loop of `handlePackets()` without
progress (`pc = "spinning"`, `KeepsReading`); a session that ends inside a
header leaves bytes in `recvBuffer` that the next session takes for its first
header (`corrupt`). `EventuallyHandled` says that a message is handled but for
these two and the end of its session; `framing_partial` shows the first (see
Findings).

### CommandQueues and CommandPipe

`pushToQueue`, `getFromQueue` and the test in `waitForCommand` run under
`cmdMutex`, hence are single steps. Commands are numbered as they arrive; a
history of what was received, executed and lost with a restarted EA is what
`CommandPipe` is refined on. The constructor leaves `commandsInQueues`
uninitialised: `base` is what its memory held, any value of `Garbage`, at the
start and after each restart. The counter is modelled with its wrap-around at
`Limit`, 2^32 in the code. A `base` above 0 makes every wait return at once,
which costs nothing but an empty round; one so high that the count reaches 2^32
shows 0 with commands queued (`Hidden`), and the EA leaves them there until
another comes. `SkippedOnce` and `EventuallyExecuted` say what they promise then.

### TradeExecution

A command is received, possibly rejected, and then goes round the loop
wait - attempt - sleep. The broker may carry out a request whose answer is lost
(`Unheard`), refuse it, fill and close orders at any step; other experts take
the trade context. Prices and volumes are left out: a stale price shows as a
refusal. `Retries` excludes 0: the server always sends 1, and with 0 the code
reports OK for order 0 (`OpenPendingPosition`) or reads an unset variable
(`ModifyOrder`).

### OrderDelta and OrderStream

`OrderDelta` takes one step per event, with the set of orders a subscriber
would know (`view`). `OrderStream` adds the terminal's pool, the scan that reads
it position by position while it changes, the packet check of `send()` and the
end of a session. `torn` records that an order already passed left the pool
during the scan, which is the one way a snapshot can lack an open order. A
plugin is taken to keep a calculator per client, as the API suggests.

### NetworkServer

Events of a connection reach the executor in order; connections interleave.
`Detect` - the server's end learning that a terminal is gone - may come long
after the terminal has reconnected. `Add` and `Announce` are two steps of one
handler, so that `Stop()` and a subscribing plugin, on their own threads, can
come between. `Stop()` closes no connection: it ends the subscription, then stops
the server. A connection accepted between the two stays up, nobody subscribes to
its events, and it is in neither table (`ignored`); `Tracked` says so of it.

### PluginManager

Each turn of the actor is a step; a plugin is what the manager sees of it: a
task that runs or has ended, a `Stop()` that may throw. `Start` may get a task
that has ended already, whose continuation is then queued behind it. `Stop`
keeps the plugin it asked, and its later turns (`Resume`, `Cancel`) look for any
plugin of the name, as the code does.

### Sessions and SymbolTicks

`Sessions` follows one terminal through several sessions: what a plugin asks
for, through which `MT4Client`, what the connector keeps of it when the session
ends, and which results and prices get to whom. It puts together what other
modules have in detail: `CommandPipe` stands for the queues, which
`CommandQueues` is proved to implement; a session is what `UltimaClient`
guarantees of one; a trade command is reported once, as `TradeExecution` shows.
A command carries a number of its own, which the code does not have: its id
there starts at 1 in every `MT4Client`, so two commands of different sessions
may have the same. `ResultsAreFresh` says how far that can go wrong.

The prices of a symbol are one value. `table` holds the names and one array for
`bids` and `asks`, which the code always changes together. `stray` records that
plugins have unregistered a symbol none of them had registered, which shortens
the arrays but not the names: MQL then stops the expert at the first index past
the end (`halted`).

### XmppClient

The turns of the actor, the calls of `Disconnect` in their ten seconds, and the
connection. A connection that ends raises `OnError`, `OnClose` or both, so that
several `Open()` may be on their way; what `Open()` does to a connection that is
up is agsXMPP's: it may leave it or replace it. The host is the console
program's main thread.

### MT4Sync

Each expert reads its terminal's pool position by position and replaces the rows
of its tag. The DLL exports `SyncConnect` as `void` and the expert reads a
`bool`, so that `Connect` may go either way whatever happened. An order that
left the pool during the scan leaves an element nobody has written (`Unset`),
whose row may not convert. The batch is text: the server refuses it whole
(`Parses`) when the tag or a comment holds an apostrophe, or when there are more
orders than a `VALUES` list may have rows (`MaxRows`, 1000 in SQL Server).
`began` and `left` record what was open when `OnTimer` began and what left since:
`Mirrors` bounds by them what a torn scan can write, and what it can leave out.
`MCMT4Sync` gives the two terminals their tags.

## Runs

| Run | Checks | Instance and why it is enough |
| --- | --- | --- |
| `client` | `ConnectingIsExact`, `NeverStranded`, `ServerNeverStale`, `FrontIsInFlight`, `SingleReader`, `OverlapOnlyAtLogin`, `EventuallyRegistered`, `ChangeReachesServer` | 2 snapshots, 2 buffers, 2 faults, a host name that may not resolve, a timer that may expire before or after any completion: two faults give a failure during the recovery from another |
| `framing_split` | `NothingLost`, `EventuallyHandled` | header of 2, messages of 2 and 3 bytes, reads of up to 4, 2 sessions: every cut inside header and body occurs, and reads hold more than one message |
| `framing_partial` | `KeepsReading`, violated | see Findings |
| `command_queues` | `CountIsExact`, `RoundDrains`, `Placed`, `SkippedOnce`, `PipeSpec`, `EventuallyExecuted` | 3 kinds, 4 commands, 1 restart, a counter of 8 values that begins at 0, 3 or 7: the last wraps with the first command, the others never do |
| `trade_execution` | `ReportedOnce`, `OKMeansDone`, `ErrorMeansUnheard`, `OpensCounted`, `EventuallyReported` | 2 commands of every kind, 2 attempts each, 1 position at the start, 3 tickets: both attempts of a command can open, and the second command can act on what the first opened |
| `order_delta` | `EventsExact`, `ViewExact` | all pairs of snapshots of up to 3 of 3 orders in any order, 2 values of watched and of other fields |
| `order_stream` | `NoPhantomClose`, `DeltaSpec`, `Follows` | 2 orders, 3 changes, 2 sessions: enough to change an order and change it back, and for one to leave while another is read |
| `network_server` | `NoGhosts`, `Tracked`, `AnnouncedOnce`, `PluginMissesNone`, `EventuallyRegistered` | 2 companies, 3 connections used again, 1 terminal cut off: enough for a terminal to log in again while its old connection is still registered |
| `plugin_manager` | `ListedExactly`, `EventuallyReturns` | 3 plugins, 2 names, 2 calls of `Stop`: two of one name and a stranger, and two calls waiting at a time |
| `sessions` | `ResultsAreFresh`, `PricesNeverStale`, `TableHolds`, `EventuallyServed` | 2 symbols, 2 prices, 3 commands, 2 sessions, 1 restart, 2 packets: a command of one session can be executed in the next beside one of the same id, and a symbol can be registered, unregistered and registered again |
| `xmpp` | `OnlineInTheEnd` | 3 failures, with up to 2 events each: a surplus `Open()` can hit a connection that is opening, that is up, and that has failed again |
| `mt4sync` | `Mirrors`, `EventuallySynced` | 2 terminals with one tag, with two, or one of them with a tag that has an apostrophe; 3 orders of which one may have one, at most 2 rows, 1 lost connection: an order closed behind the scan hides one and leaves another unset, and each reason to refuse a batch occurs without the others |

`CHECK_DEADLOCK FALSE` is set where the system may stop: a process that has
died, bounds that are used up, a server that is stopped.

Fairness. The io thread, the executor and the EA's thread run what is waiting
for them: their loops block on nothing else (the two places where they might,
`handlePackets()` and `WaitForTradeContext()`, are modelled). The operating
system completes what it was given. The timer of the terminal keeps firing. In
`NetworkServer` a dead connection is detected in the end: TCP does it for a
connection that is written to, and the server has no other means; without that
assumption, `WF_vars(Detect)`, a dead connection locks its company out for good,
and no property would show it. In `PluginManager`
a plugin asked to stop, and which did not throw, ends its task: `Plugins.fs` has
no other meaning for `Stop`. In `XmppClient` the library reports the outcome of
an `Open()`; in `MT4Sync` the terminal's timer keeps calling `OnTimer`. Nothing else is assumed
of the network, the broker, other experts, plugins or `Stop()`. Strong fairness
is used for `UpdateOrders` in `UltimaClient` and for the steps of the expert that
send in `Sessions`, because the bound on `sendBuffers`, which the code does not
have, disables them time and again.

The `TypeOK` of a module states the types its variables keep. TLAPS proves those
of the eight modules with a proof module; no run spends time on them.

## Findings

`framing_partial` (code bug, `UltimaClient.cpp:157-179`). The loop of
`handlePackets()` runs while `recvBuffer` holds a header; when the message is
not complete its body does nothing, and the loop never ends. A message cut in
two by TCP stops the io thread, and `~UltimaClient` waits for that thread.

Other weaknesses the models show and the properties are stated around:

- `UltimaClient.cpp:72`: between the completion of the connection and its handler
  a `send()` may start a write. The handler clears `sendBuffers` and starts
  Login, two writes overlap, and one of them pops a deque that may be empty.
  `OverlapOnlyAtLogin` says that this is the only way it happens.
- `UltimaClient.cpp:120`: `postReconnect()` may arm the timer while an expiry of
  it is on its way to `reconnect()`, which then closes the session that came up in
  between. `SingleReader` and `EventuallyRegistered` say what survives it.
- `UltimaClient.hpp:32`: `commandsInQueues` is never initialised. Storage that is
  not zero costs empty rounds, or hides commands from the EA (`Hidden`).
- `UltimaClient.cpp:65`: a session that ends inside a message leaves the next one
  out of step with the stream. No property promises anything behind it.
- `UltimaClient.hpp:87`: the repeated-packet check survives the session. A new
  session gets no snapshot until the orders change (`ServerNeverStale` allows
  `None`, `Follows` asks that one was sent in this session).
- `UltimaConnector.mqh:301`: an order closed during a scan may hide another one,
  which a plugin then sees closed and opened again.
- `NetworkServer.fs:50`: a connection accepted while `Stop()` is between its steps
  stays up, unknown to the server's tables. `NetworkServer.fs:94`: the server has
  no heartbeat, so that only TCP ends a half-open connection and its hold on the
  company.
- `PluginManager.fs:121`: `Stop(name)` asks one plugin and waits for all of that
  name. `PluginManager.fs:131`: a plugin that throws keeps `SignalStopAll` from
  asking those after it.
- `PacketMessages.cs` numbers the history messages 5 and 11 the other way round
  than `MessageId.hpp`; the server never sends the request.

- `INetworkServer.fs:19`: a command an old session left in the queues is executed
  in the new one, and its result carries an id that names another command there.
  The results of commands executed before the reconnection are dropped
  (`UltimaClient.cpp:72`); a plugin is never told how they ended.
- `UltimaConnector.Common.mqh:95`: unregistering a symbol that is not registered
  shrinks the price arrays all the same, and the next `UpdateTicks` stops the
  expert. Two plugins that share a symbol do it: the first takes the symbol from
  both, the second unregisters what is gone. `TableHolds` excludes such plugins.
- `UltimaConnector.Common.mqh:65`: a symbol that an earlier session registered is
  found in the table, so that the new session gets no price of it until it
  changes; prices of symbols nobody in the new session asked for are sent to it.
- `DbConnection.cpp:113`: the fetch loop ends on `SQL_NO_DATA` only, so that
  `OnInit` without a connection never ends. `SetupDb.sql` creates the table
  `Orders` but leaves `History` in a comment, while the schema check wants both:
  with the shipped script `OnInit` always fails.
- `DbConnection.cpp:151`: a comment with an apostrophe makes every batch of its
  terminal fail as long as the order is open; so do more than 1000 open orders,
  and an apostrophe in the tag (line 136) for good. `DbConnection.cpp:135`:
  terminals with one tag delete each other's rows. `EventuallySynced` excludes
  these four.
- `Program.fs:37`: the service calls `Start()` without `Initialize()`, so that
  `NetworkServer.Start()` uses a server that is null and `OnStart` throws.
  `Program.fs:66`: plugins are loaded after the server has started; a client
  that registers in between is not announced to them, and `TickLogger` does not
  ask. `Ultima.fs:34`: `Stop()` does not stop the plugins.
- `XmppClient.fs:38`: the `OnClose` of `Stop()` schedules an `Open()` like any
  other; only the end of the process, which follows, keeps it from connecting.

## Proofs

TLAPS checks, for every value of the constants, every invariant the runs check,
the action property `OverlapOnlyAtLogin` and the refinement `PipeSpec`. Each
proof module has the same parts: lemmas on the sequences, sets and operators of
its component; the inductive invariant, a conjunction of named parts; a step per
action for each part; and the theorems, which follow from the invariant. What
the invariants add to the properties, and why the properties need it:

- `UltimaClientProofs`. `TypeOK` is inductive; given it, so are
  `ConnectingIsExact` and `NeverStranded`. The rest is about one session:
  `FrontInv` (the front of `sendBuffers` is the packet being written) needs
  the count of the writes outstanding, which `OverlapCorrect` says can only
  exceed one in the connect handler; `WiringInv` ties the connection to the
  completions that lead to it, so that no Login is queued behind another packet;
  `SessionInv` follows the packets from `sendBuffers` through the connection to
  the server: what the server has seen, once all of them have arrived, is the
  snapshot sent last. That is what `ServerNeverStale` says where nothing is
  under way. `ReaderInv` adds to `SingleReader` which completions can start a
  read: unless `stale` is set, a read left while a new connect is under way has
  failed and is handled before that connect, whose session then reads alone.
- `CommandQueuesProofs`. `CountIsExact`, `RoundDrains`, `Placed` and `Paced`,
  which ties the EA's position in its round to what it is doing; without
  `CountIsExact` nothing ties the counter to the queues, without `Paced` a position
  could be past the last queue. The counter is a remainder: `Wrapped` says that
  one increment of an unsigned counter is one of the number it stands for. `Placed` gives the refinement: the front of a
  queue is the oldest command of its kind neither executed nor lost, which is
  `CommandPipe`'s guard. `PassedOver` gives `SkippedOnce`: a command a wait can
  miss came after the round before it. It needs that a counter which cannot have
  wrapped shows every command, for which `Within` bounds the commands queued by
  those received.
- `FramingProofs`. The invariant of the first session is `Flow`: the bytes in
  `recvBuffer` and on the wire, one after the other, are those of whole messages,
  from the one after the last handled to the last sent. A read only moves the
  boundary between the two; `handlePackets()` takes a whole message off the
  front. That the first message of such bytes ends where its header says is
  proved by induction over its bytes.
- `TradeExecutionProofs`. `Books` (only received commands leave a mark at the
  broker), `Handler` (retries run out exactly when the handler goes on to report
  a failure), `Current` (what the command in the handler has done so far was
  acknowledged or has gone unheard) and, for each finished command, `Honest` and
  `Counted`, which are what `OKMeansDone`, `ErrorMeansUnheard` and `OpensCounted`
  make of `Current` when the report is made. The tickets a command opened are
  counted with the library's theorems on cardinality.
- `OrderDeltaProofs`. `InOrder` (the snapshots are sorted and hold an id once),
  `Cut` (what the enumerators have passed is below what they have not),
  `ViewInv` and `EventInv`, which say of the middle of a merge what `ViewExact`
  and `EventsExact` say of its end: the events so far are those of the difference
  with ids the enumerators have passed. The events are as many as the
  difference has elements because their ids increase.
- `NetworkServerProofs`. For each connection `Queue` (which events it may have
  waiting, in the order of its life) and `Place` (in which of the two tables it
  is, as a function of the events still to come), then `Owners` and
  `Announcements`. `NoGhosts` and `Tracked` are `Place` seen from a table and
  from a connection.
- `PluginManagerProofs`. `Started` ties what was asked to stop to the state of
  its task; with it `ListedExactly` is inductive. `CallsInv` gives what no run
  checks: a call of `Stop()` that has returned leaves the plugin it asked off
  the list for good.
- `SessionsProofs`. `Answers` ties the results on their way to the commands
  executed in the session. `Backing` says of each symbol that is asked for, and
  of each unregistration in the queue, that a registration is before it in the
  queue or in the table; without it nothing keeps an unregistration from meeting
  a table without the symbol, and `TableHolds` fails. `Shown` says that the last
  price of a symbol on its way, or else the one the plugins have, is the one the
  expert believes it sent. What the loop of `UpdateTicks()` puts together is
  proved by induction over the positions of the table.

The proofs rest on the named assumptions of the modules and on no bound's value:
the bounds are naturals, `None` is no snapshot and `Unset` no price, the kinds
sent are kinds, a message is at least as long as its header. The prover has no
induction rule it can instantiate, so induction over data is done with sets of
naturals (`Least`, `SetInduction`, from the well-foundedness of `<`), and a
recursive function is first shown to exist as its definition says.

Only model-checked:

- liveness (`EventuallyRegistered`, `ChangeReachesServer`, `KeepsReading`,
  `EventuallyHandled`, `EventuallyExecuted`, `EventuallyReported`, `Follows`,
  `EventuallyReturns`, `EventuallyServed`, `OnlineInTheEnd`,
  `EventuallySynced`): no prover here handles `ENABLED`, in which fairness is
  defined;
- `DeltaSpec` of `OrderStream`, which states the fairness of the calculator, so
  that only its initial states and steps could be proved;
- `NoPhantomClose` of `OrderStream` and `Mirrors` of `MT4Sync`, whose proofs are
  still to be written.

## Plan

Done, in this order: `UltimaClient`, `CommandPipe`/`CommandQueues`, `Framing`,
`TradeExecution`, `OrderDelta`/`OrderStream`, `NetworkServer`, `PluginManager`,
`SymbolTicks`/`Sessions`, `MT4Sync`, `XmppClient`; the theorems on the invariants
of the first eight. Next:

1. Proofs: the steps of `DeltaSpec` and `NoPhantomClose` of `OrderStream`, for
   which the invariant is that tickets increase along the pool, the orders read
   and the snapshots under way, and that an order of an earlier snapshot which is
   still open is in every later one that is not torn; `Mirrors` of `MT4Sync`.
2. `UltimaClient` and `NetworkServer` composed, each in the place of the other's
   abstract peer.

## Not modelled

Generated code (`Protocol.pb.*`, `Packets.cs`) and data tables; ProtoGen,
easylogging and other third-party code; chart buttons and generated test ticks;
configuration and logging wrappers; build and installation scripts. Within the
modelled parts: the contents of packets, prices and volumes where no property
depends on them, the layout of the structures shared with the EA, and log
messages.

The generated `Protocol.pb.*` and the two copies of easylogging are nineteen
twentieths of the C++ lines of the repository and hold none of its logic, so that the
share of all lines that the map names stays small. What is left of the C++, of
MQL and of F# is mapped but for user interface, logging and configuration.
