----------------------------- MODULE OrderStream -----------------------------
(***************************************************************************)
(* The open orders on their way from the terminal to a plugin: on every    *)
(* timer UpdateOrdersImpl() of the expert reads the terminal's pool order  *)
(* by order, UltimaClient::send() drops the snapshot when it is the last   *)
(* one sent, and OrderDeltaCalculator turns those that arrive into events. *)
(*                                                                         *)
(* External: the pool, which changes while it is read - an order that is   *)
(* closed leaves its place to those behind it - and the stream between     *)
(* client and server, in order, emptied when a session ends (UltimaClient  *)
(* has the sessions themselves).  A plugin keeps one calculator for each   *)
(* client it is given.                                                     *)
(***************************************************************************)
EXTENDS Naturals, Sequences, FiniteSets, SequencesExt

CONSTANTS
  MaxOrders,    \* bound: orders ever opened
  Watched, Rest,
  MaxChanges,   \* bound: changes of the pool
  MaxSessions   \* bound: sessions

ASSUME StreamAssumption ==
  /\ MaxOrders \in Nat
  /\ MaxChanges \in Nat
  /\ MaxSessions \in Nat \ {0}

VARIABLES
  pool,       \* the terminal's open orders, by position
  opened,     \* the orders ever opened; their tickets are 1..opened
  changes,
  scanning,   \* UpdateOrdersImpl() is reading the pool
  o, total,   \* its position and the number of orders it found at first
  out,        \* the orders read
  torn,       \* an order it had passed has left the pool since it began
  lastSent,   \* lastSentOpenedOrdersPacket: empty, or the snapshot in it
  channel,    \* snapshots under way
  heard,      \* a snapshot was sent in this session
  sessions,
  current,    \* the snapshot the calculator is given
  currentOrders, orders, updating, ci, ni, events, before, view

delta == <<currentOrders, orders, updating, ci, ni, events, before, view>>
terminal == <<pool, opened, changes>>
scan == <<scanning, o, total, out, torn>>
link == <<lastSent, channel, heard, sessions>>
vars == <<terminal, scan, link, current, delta>>

Delta == INSTANCE OrderDelta WITH Ids <- 1..MaxOrders, MaxSnapshot <- MaxOrders

NoSnapshot == [orders |-> <<>>, torn |-> FALSE]

Snapshots ==
  [orders : Seq(Delta!Orders), torn : BOOLEAN]

TypeOK ==
  /\ pool \in Seq(Delta!Orders) /\ Delta!Sorted(pool)
  /\ opened \in 0..MaxOrders /\ changes \in 0..MaxChanges
  /\ scanning \in BOOLEAN /\ torn \in BOOLEAN /\ heard \in BOOLEAN
  /\ o \in 0..total /\ total \in 0..MaxOrders
  /\ out \in Seq(Delta!Orders) /\ Len(out) <= o
  /\ lastSent \in Seq(Seq(Delta!Orders)) /\ Len(lastSent) <= 1
  /\ channel \in Seq(Snapshots)
  /\ sessions \in 1..MaxSessions
  /\ current \in Snapshots

Init ==
  /\ pool = <<>> /\ opened = 0 /\ changes = 0
  /\ scanning = FALSE /\ o = 0 /\ total = 0 /\ out = <<>> /\ torn = FALSE
  /\ lastSent = <<>> /\ channel = <<>> /\ heard = FALSE /\ sessions = 1
  /\ current = NoSnapshot
  /\ Delta!Init

------------------------------------------------------------------------------
(* The pool                                                                *)

Change == changes < MaxChanges /\ changes' = changes + 1

OpenOrder(w, r) ==
  /\ Change /\ opened < MaxOrders
  /\ opened' = opened + 1
  /\ pool' = Append(pool, [id |-> opened + 1, watched |-> w, rest |-> r])
  /\ UNCHANGED <<scan, link, current, delta>>

CloseOrder(n) ==
  /\ Change
  /\ pool' = RemoveAt(pool, n)
  /\ torn' = (torn \/ (scanning /\ n <= o))
  /\ UNCHANGED <<opened, scanning, o, total, out, link, current, delta>>

ChangeOrder(n, w, r) ==
  /\ Change
  /\ pool' = [pool EXCEPT ![n].watched = w, ![n].rest = r]
  /\ UNCHANGED <<opened, scan, link, current, delta>>

------------------------------------------------------------------------------
(* The expert and the client                                               *)

(* Mutant: the last position is left out.                                  *)
BeginScanShort ==
  /\ ~scanning
  /\ scanning' = TRUE /\ o' = 0 /\ out' = <<>> /\ torn' = FALSE
  /\ total' = IF pool = <<>> THEN 0 ELSE Len(pool) - 1
  /\ UNCHANGED <<terminal, link, current, delta>>

(* A call whose ArrayResize() fails returns at once: a step without effect. *)
BeginScan ==
  /\ ~scanning
  /\ scanning' = TRUE /\ o' = 0 /\ out' = <<>> /\ torn' = FALSE
  /\ total' = Len(pool)
  /\ UNCHANGED <<terminal, link, current, delta>>

(* Mutant: positions are counted from one.                                 *)
SelectFromOne ==
  /\ scanning /\ o < total
  /\ LET at == IF o = 0 THEN 1 ELSE o
     IN  out' = IF at <= Len(pool) THEN Append(out, pool[at]) ELSE out
  /\ o' = o + 1
  /\ UNCHANGED <<terminal, scanning, total, torn, link, current, delta>>

(* OrderSelect() of the next position; one past the end is passed over.    *)
Select ==
  /\ scanning /\ o < total
  /\ out' = IF o < Len(pool) THEN Append(out, pool[o + 1]) ELSE out
  /\ o' = o + 1
  /\ UNCHANGED <<terminal, scanning, total, torn, link, current, delta>>

Send(s) ==
  /\ channel' = Append(channel, [orders |-> s, torn |-> torn])
  /\ heard' = TRUE

(* The loop is over: its locals are gone.                                  *)
EndScan ==
  /\ scanning /\ o = total
  /\ scanning' = FALSE
  /\ o' = 0 /\ total' = 0 /\ out' = <<>> /\ torn' = FALSE

(* Mutant: the packet last sent is not replaced.                           *)
UpdateOrdersOnceStored ==
  /\ EndScan
  /\ IF lastSent = <<out>>
       THEN UNCHANGED <<lastSent, channel, heard>>
       ELSE Send(out) /\ lastSent' = IF lastSent = <<>> THEN <<out>> ELSE lastSent
  /\ UNCHANGED <<terminal, sessions, current, delta>>

(* UpdateOrders(): the snapshot is sent unless it is the last one sent.    *)
UpdateOrders ==
  /\ EndScan
  /\ IF lastSent = <<out>>
       THEN UNCHANGED <<lastSent, channel, heard>>
       ELSE Send(out) /\ lastSent' = <<out>>
  /\ UNCHANGED <<terminal, sessions, current, delta>>

(* The session ends and a new one begins: what was under way is lost, the  *)
(* server makes a new MT4Client, and lastSent stays.                       *)
Reconnect ==
  /\ sessions < MaxSessions
  /\ sessions' = sessions + 1
  /\ channel' = <<>> /\ heard' = FALSE
  /\ current' = NoSnapshot
  /\ Delta!Reset
  /\ UNCHANGED <<terminal, scan, lastSent>>

------------------------------------------------------------------------------
(* The plugin                                                              *)

Receive ==
  /\ channel # <<>>
  /\ channel' = Tail(channel)
  /\ current' = Head(channel)
  /\ Delta!UpdateOrders(Head(channel).orders)
  /\ UNCHANGED <<terminal, scan, lastSent, heard, sessions>>

Calculate ==
  /\ Delta!Merge \/ Delta!End
  /\ UNCHANGED <<terminal, scan, link, current>>

Expert == BeginScan \/ Select \/ UpdateOrders
Plugin == Receive \/ Calculate
Pool ==
  \/ \E w \in Watched, r \in Rest : OpenOrder(w, r)
  \/ \E n \in DOMAIN pool : CloseOrder(n)
  \/ \E n \in DOMAIN pool, w \in Watched, r \in Rest : ChangeOrder(n, w, r)

Next == Expert \/ Plugin \/ Pool \/ Reconnect

(* The timer goes on and the server's thread handles what arrives.         *)
Spec == Init /\ [][Next]_vars /\ WF_vars(Expert) /\ WF_vars(Plugin)

------------------------------------------------------------------------------
(* The calculator is only given what it is made for: snapshots that hold   *)
(* an order once.  A closed order shifts those behind it, so that one may  *)
(* be passed over but none is read twice.                                  *)
DeltaSpec == Delta!Spec

(* A plugin is told that an order was closed while it is open only by a    *)
(* snapshot during whose scan another order left the pool from among those *)
(* already read.                                                           *)
Closes(k) == [kind |-> "closed", id |-> k]

NoPhantomClose ==
  [][\A k \in Delta!IdsOf(pool) :
       (events' = Append(events, Closes(k))) => current.torn]_vars

(* Once the pool rests, a plugin that was sent a snapshot in this session  *)
(* ends up with the orders of the pool, whatever was torn or dropped.      *)
Follows == <>[](heard => view = Delta!KnownOf(pool))

==============================================================================
