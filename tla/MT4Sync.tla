------------------------------- MODULE MT4Sync -------------------------------
(***************************************************************************)
(* The expert MT4Sync and its DLL, which every ten seconds replace the     *)
(* rows of their platform in the table Orders by the terminal's open       *)
(* orders.                                                                 *)
(*                                                                         *)
(* External: the terminal's pool, which changes while it is read (see      *)
(* OrderStream); the database, which runs the batches one after the other; *)
(* the calls the expert reads as bool while the DLL returns void, so that  *)
(* they may say anything; and an exception that leaves the DLL, which may  *)
(* stop the expert.  A batch fails as a whole when the server refuses its  *)
(* text or the connection is gone.  When only its INSERT fails the server  *)
(* goes on and commits the DELETE; the driver reports the first statement. *)
(***************************************************************************)
EXTENDS Naturals, FiniteSets, SequencesExt

CONSTANTS
  Terminals, Tags,
  Tagged,      \* the ways in which the terminals may be tagged
  Orders,      \* the orders that can be opened: their tickets
  Quotable,    \* those whose comment may hold an apostrophe
  QuotedTags,  \* the tags with an apostrophe
  MaxRows,     \* the rows a VALUES list may have: 1000
  Unset,       \* an element of orders[] that OnTimer() has not written
  MaxFaults    \* bound: connections lost or not made

ASSUME SyncAssumption ==
  /\ Tagged \subseteq [Terminals -> Tags]
  /\ Orders \subseteq Nat /\ Quotable \subseteq Orders /\ Unset \notin Orders
  /\ QuotedTags \subseteq Tags
  /\ MaxRows \in Nat /\ MaxFaults \in Nat

VARIABLES
  tag,         \* PlatformTag, or the account's company
  quoted,      \* the orders whose comment holds an apostrophe
  tables,      \* the tables of the database
  rows,        \* Orders: what it holds under each tag
  phase,       \* of the expert: "stopped", "checking" (OnInit), "idle",
               \*   "scanning" (OnTimer)
  linked,      \* its DbConnection works
  pool,        \* the terminal's open orders, by position
  opened,      \* the orders opened so far
  orders, i,   \* the array of OnTimer(), and its index
  began, left, \* history: the orders open when OnTimer() began, and those
               \*   that have left the pool since
  faults

names == <<tag, quoted>>
database == <<tables, rows>>
terminal == <<pool, opened>>
scan == <<orders, i, began, left>>
vars == <<names, database, phase, linked, terminal, scan, faults>>

TypeOK ==
  /\ tag \in Tagged /\ quoted \subseteq Quotable
  /\ tables \subseteq {"Orders", "History"}
  /\ rows \in [Tags -> SUBSET (Orders \cup {Unset})]
  /\ phase \in [Terminals -> {"stopped", "checking", "idle", "scanning"}]
  /\ linked \in [Terminals -> BOOLEAN]
  /\ began \in [Terminals -> SUBSET Orders] /\ left \in [Terminals -> SUBSET Orders]
  /\ \A t \in Terminals :
       /\ pool[t] \in Seq(opened) /\ orders[t] \in Seq(opened \cup {Unset})
       /\ i[t] \in 0..Len(orders[t])
  /\ opened \subseteq Orders
  /\ faults \in 0..MaxFaults

(* SetupDb.sql makes the table Orders only; History is in a comment.       *)
Init ==
  /\ tag \in Tagged /\ quoted \in SUBSET Quotable
  /\ tables \in {{"Orders"}, {"Orders", "History"}}
  /\ rows = [g \in Tags |-> {}]
  /\ phase = [t \in Terminals |-> "stopped"]
  /\ linked = [t \in Terminals |-> FALSE]
  /\ pool = [t \in Terminals |-> <<>>] /\ opened = {}
  /\ orders = [t \in Terminals |-> <<>>] /\ i = [t \in Terminals |-> 0]
  /\ began = [t \in Terminals |-> {}] /\ left = [t \in Terminals |-> {}]
  /\ faults = 0

Goes(t, p) == phase' = [phase EXCEPT ![t] = p]
Fault == faults < MaxFaults /\ faults' = faults + 1

------------------------------------------------------------------------------
(* OnInit() as far as SyncConnect(): Connect() catches its errors and says *)
(* so to nobody, and the expert goes on or gives up as the call may say.   *)
Connect(t) ==
  /\ phase[t] = "stopped"
  /\ \/ linked' = [linked EXCEPT ![t] = TRUE] /\ UNCHANGED faults
     \/ linked' = [linked EXCEPT ![t] = FALSE] /\ Fault
  /\ Goes(t, "checking") \/ Goes(t, "stopped")
  /\ UNCHANGED <<names, database, terminal, scan>>

(* IsDatabaseSetupCorrectly().  Without a connection SQLFetch() returns an *)
(* error again and again, and the loop does not end.                       *)
CheckSetup(t) ==
  /\ phase[t] = "checking" /\ linked[t]
  /\ Goes(t, IF {"Orders", "History"} \subseteq tables THEN "idle" ELSE "stopped")
  /\ UNCHANGED <<names, database, linked, terminal, scan, faults>>

(* OnDeinit(), or the end of a terminal that hangs in OnInit().            *)
Close(t) ==
  /\ phase[t] \in {"checking", "idle"}
  /\ Goes(t, "stopped")
  /\ linked' = [linked EXCEPT ![t] = FALSE]
  /\ UNCHANGED <<names, database, terminal, scan, faults>>

------------------------------------------------------------------------------
(* OnTimer()                                                               *)

StartScan(t) ==
  /\ phase[t] = "idle"
  /\ Goes(t, "scanning")
  /\ orders' = [orders EXCEPT ![t] = [k \in 1..Len(pool[t]) |-> Unset]]
  /\ began' = [began EXCEPT ![t] = ToSet(pool[t])]
  /\ UNCHANGED <<names, database, linked, terminal, i, left, faults>>

Scanning(t) == phase[t] = "scanning" /\ i[t] < Len(orders[t])

(* Mutant: positions counted from one.                                     *)
SelectNext(t) ==
  /\ Scanning(t)
  /\ i' = [i EXCEPT ![t] = @ + 1]
  /\ orders' = IF i[t] + 2 <= Len(pool[t])
                 THEN [orders EXCEPT ![t][i[t] + 1] = pool[t][i[t] + 2]] ELSE orders
  /\ UNCHANGED <<names, database, phase, linked, terminal, began, left, faults>>

(* One round of the loop: an order that cannot be selected is passed over. *)
Select(t) ==
  /\ Scanning(t)
  /\ i' = [i EXCEPT ![t] = @ + 1]
  /\ orders' = IF i[t] + 1 <= Len(pool[t])
                 THEN [orders EXCEPT ![t][i[t] + 1] = pool[t][i[t] + 1]] ELSE orders
  /\ UNCHANGED <<names, database, phase, linked, terminal, began, left, faults>>

Written(t) == ToSet(orders[t])

(* The statements are text: an apostrophe in the tag or in a comment, or a *)
(* row too many, and the server refuses all of them.                       *)
Parses(t) ==
  /\ tag[t] \notin QuotedTags
  /\ Written(t) \cap quoted = {}
  /\ Len(orders[t]) <= MaxRows

(* Mutant: rows are added without the DELETE.                              *)
BatchWithoutDelete(t) ==
  /\ linked[t] /\ Parses(t)
  /\ rows' = [rows EXCEPT ![tag[t]] = @ \cup Written(t)]

(* BEGIN, DELETE, INSERT, COMMIT; a row unset may not convert.             *)
Batch(t) ==
  /\ linked[t] /\ Parses(t)
  /\ \/ rows' = [rows EXCEPT ![tag[t]] = Written(t)]
     \/ Unset \in Written(t) /\ rows' = [rows EXCEPT ![tag[t]] = {}]

(* SyncOpenedOrders(); UpdateOrdersToDb() throws when the batch fails.     *)
Sync(t) ==
  /\ phase[t] = "scanning" /\ i[t] = Len(orders[t])
  /\ \/ Batch(t) /\ Goes(t, "idle")
     \/ /\ ~linked[t] \/ ~Parses(t) \/ Unset \in Written(t)
        /\ UNCHANGED rows
        /\ Goes(t, "idle") \/ Goes(t, "stopped")
  /\ orders' = [orders EXCEPT ![t] = <<>>] /\ i' = [i EXCEPT ![t] = 0]
  /\ began' = [began EXCEPT ![t] = {}] /\ left' = [left EXCEPT ![t] = {}]
  /\ UNCHANGED <<names, tables, linked, terminal, faults>>

------------------------------------------------------------------------------
(* The terminal and the network                                            *)

(* Tickets grow.                                                           *)
OrderOpens(t) ==
  /\ \E o \in Orders \ opened :
       /\ \A other \in Orders \ opened : o <= other
       /\ opened' = opened \cup {o}
       /\ pool' = [pool EXCEPT ![t] = Append(@, o)]
  /\ UNCHANGED <<names, database, phase, linked, scan, faults>>

OrderCloses(t) ==
  /\ \E k \in DOMAIN pool[t] :
       /\ pool' = [pool EXCEPT ![t] = RemoveAt(@, k)]
       /\ left' = IF phase[t] = "scanning" THEN [left EXCEPT ![t] = @ \cup {pool[t][k]}]
                                            ELSE left
  /\ UNCHANGED <<names, database, phase, linked, opened, orders, i, began, faults>>

ConnectionLost(t) ==
  /\ linked[t]
  /\ Fault
  /\ linked' = [linked EXCEPT ![t] = FALSE]
  /\ UNCHANGED <<names, database, phase, terminal, scan>>

Next ==
  \E t \in Terminals :
    \/ Connect(t) \/ CheckSetup(t) \/ Close(t)
    \/ StartScan(t) \/ Select(t) \/ Sync(t)
    \/ OrderOpens(t) \/ OrderCloses(t) \/ ConnectionLost(t)

(* The terminal's timer calls OnTimer() again and again, and runs it to    *)
(* its end.                                                                *)
Spec ==
  /\ Init /\ [][Next]_vars
  /\ \A t \in Terminals : WF_vars(StartScan(t) \/ Select(t) \/ Sync(t))

------------------------------------------------------------------------------
(* Properties                                                              *)

Running(t) == phase[t] \in {"idle", "scanning"}
Alone(t) == \A u \in Terminals \ {t} : tag[u] # tag[t]

(* What a batch that went through leaves of an OnTimer(): the orders open  *)
(* when it began.  An order that leaves meanwhile moves the others to      *)
(* positions already read, and so keeps at most one of them out.           *)
Mirrored(t, written) ==
  /\ left[t] = {} => written = began[t]
  /\ written \subseteq began[t] \cup left[t] \cup ToSet(pool[t]) \cup {Unset}
  /\ Cardinality((began[t] \ left[t]) \ written) <= Cardinality(left[t])

(* A synchronisation makes the rows of its tag the orders that were open,  *)
(* up to what left the pool while OnTimer() read it; or its batch changes  *)
(* nothing; or, if an order left, its INSERT alone fails and no row is     *)
(* left.  The rows of other tags stay as they are.                         *)
Mirrors ==
  [][\A t \in Terminals : Sync(t) =>
       /\ \/ rows' = rows
          \/ Mirrored(t, rows'[tag[t]])
          \/ left[t] # {} /\ rows'[tag[t]] = {}
       /\ \A g \in Tags \ {tag[t]} : rows'[g] = rows[g]]_vars

(* Whatever a torn scan or a failed INSERT has left in the table, an       *)
(* expert that keeps running and its connection sets it right, unless the  *)
(* batch can never parse (an apostrophe in the tag or in the comment of an *)
(* open order, or over 1000 open orders) or another terminal uses its tag. *)
EventuallySynced ==
  \A t \in Terminals :
    <>[](Running(t) /\ linked[t]) =>
      <>[](\/ rows[tag[t]] = ToSet(pool[t])
           \/ ToSet(pool[t]) \cap quoted # {} \/ Len(pool[t]) > MaxRows
           \/ tag[t] \in QuotedTags
           \/ ~Alone(t))

==============================================================================
