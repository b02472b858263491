----------------------------- MODULE OrderDelta -----------------------------
(***************************************************************************)
(* OrderDeltaCalculator: turns the snapshots of the open orders that a     *)
(* client sends into OrderOpened, OrderClosed and OrderModified events, by *)
(* merging each snapshot, sorted by id, with the one before.               *)
(*                                                                         *)
(* An order is its id, the fields GetOrderModifications compares (watched) *)
(* and those it does not (rest: the current price, ...).  Events are       *)
(* delivered one at a time, inside UpdateOrders(); `view' is what a        *)
(* subscriber that follows all three knows of the orders.                  *)
(***************************************************************************)
EXTENDS Naturals, Sequences, FiniteSets

CONSTANTS
  Ids,        \* tickets
  Watched,    \* values of the watched fields
  Rest,       \* values of the others
  MaxSnapshot \* bound: orders in a snapshot

ASSUME DeltaAssumption ==
  /\ Ids \subseteq Nat
  /\ MaxSnapshot \in Nat

Orders == [id : Ids, watched : Watched, rest : Rest]

VARIABLES
  currentOrders,  \* the last snapshot, sorted
  orders,         \* the snapshot UpdateOrders() is working on, sorted
  updating,       \* UpdateOrders() is running
  ci, ni,         \* its enumerators of currentOrders and of orders
  events,         \* the events of the running or last UpdateOrders()
  before,         \* currentOrders when it began
  view            \* what the events add up to: a set of ids with their
                  \*   watched fields

vars == <<currentOrders, orders, updating, ci, ni, events, before, view>>

IdsOf(s) == {s[i].id : i \in DOMAIN s}
Known(o) == [id |-> o.id, watched |-> o.watched]
KnownOf(s) == {Known(s[i]) : i \in DOMAIN s}
Without(v, n) == {k \in v : k.id # n}

Sorted(s) == \A i, j \in DOMAIN s : i < j => s[i].id <= s[j].id

(* orders.Sort: the orders of s, by id.                                    *)
IsSortOf(r, s) ==
  /\ Len(r) = Len(s)
  /\ {r[i] : i \in DOMAIN r} = {s[i] : i \in DOMAIN s}
  /\ Sorted(r)

Events == [kind : {"opened", "closed", "modified"}, id : Ids]
Event(k, o) == [kind |-> k, id |-> o.id]

TypeOK ==
  /\ currentOrders \in Seq(Orders)
  /\ orders \in Seq(Orders)
  /\ before \in Seq(Orders)
  /\ updating \in BOOLEAN
  /\ ci \in 1..(Len(currentOrders) + 1)
  /\ ni \in 1..(Len(orders) + 1)
  /\ events \in Seq(Events)
  /\ view \subseteq [id : Ids, watched : Watched]

Init ==
  /\ currentOrders = <<>> /\ orders = <<>> /\ before = <<>>
  /\ updating = FALSE
  /\ ci = 1 /\ ni = 1
  /\ events = <<>>
  /\ view = {}

------------------------------------------------------------------------------
(* UpdateOrders(s) is called.                                              *)
UpdateOrders(s) ==
  /\ ~updating
  /\ updating' = TRUE
  /\ orders' \in {r \in [1..Len(s) -> {s[i] : i \in DOMAIN s}] : IsSortOf(r, s)}
  /\ ci' = 1 /\ ni' = 1
  /\ events' = <<>> /\ before' = currentOrders
  /\ UNCHANGED <<currentOrders, view>>

cGot == ci <= Len(currentOrders)
nGot == ni <= Len(orders)
co == currentOrders[ci]
no == orders[ni]

(* The order at the old enumerator is gone from the snapshot.              *)
Closed ==
  /\ updating /\ cGot
  /\ nGot => co.id < no.id
  /\ events' = Append(events, Event("closed", co))
  /\ view' = Without(view, co.id)
  /\ ci' = ci + 1
  /\ UNCHANGED <<currentOrders, orders, updating, ni, before>>

(* Mutant: both enumerators advance.                                       *)
OpenedSkips ==
  /\ updating /\ nGot
  /\ cGot => co.id > no.id
  /\ events' = Append(events, Event("opened", no))
  /\ view' = view \cup {Known(no)}
  /\ ni' = ni + 1
  /\ ci' = IF cGot THEN ci + 1 ELSE ci
  /\ UNCHANGED <<currentOrders, orders, updating, before>>

(* The order at the new enumerator is new.                                 *)
Opened ==
  /\ updating /\ nGot
  /\ cGot => co.id > no.id
  /\ events' = Append(events, Event("opened", no))
  /\ view' = view \cup {Known(no)}
  /\ ni' = ni + 1
  /\ UNCHANGED <<currentOrders, orders, updating, ci, before>>

(* Mutant: GetOrderModifications compares every field.                     *)
ModsOfAll == no # co

(* GetOrderModifications finds a difference.                               *)
Mods == no.watched # co.watched

(* The order is in both.                                                   *)
Kept ==
  /\ updating /\ cGot /\ nGot
  /\ co.id = no.id
  /\ IF Mods
       THEN /\ events' = Append(events, Event("modified", no))
            /\ view' = Without(view, no.id) \cup {Known(no)}
       ELSE UNCHANGED <<events, view>>
  /\ ci' = ci + 1 /\ ni' = ni + 1
  /\ UNCHANGED <<currentOrders, orders, updating, before>>

(* Both enumerators are at their ends, and UpdateOrders() returns.         *)
End ==
  /\ updating /\ ~cGot /\ ~nGot
  /\ updating' = FALSE
  /\ currentOrders' = orders
  /\ ci' = 1
  /\ UNCHANGED <<orders, ni, events, before, view>>

(* Reset() is called, and the subscriber forgets what it knew.             *)
Reset ==
  /\ ~updating
  /\ currentOrders' = <<>>
  /\ ci' = 1
  /\ view' = {}
  /\ before' = <<>> /\ events' = <<>>
  /\ UNCHANGED <<orders, updating, ni>>

Merge == Closed \/ Opened \/ Kept

(* A snapshot holds an order once.                                         *)
Snapshots ==
  {s \in UNION {[1..n -> Orders] : n \in 0..MaxSnapshot} :
    \A i, j \in DOMAIN s : s[i].id = s[j].id => i = j}

Next == (\E s \in Snapshots : UpdateOrders(s)) \/ Merge \/ End \/ Reset

Spec == Init /\ [][Next]_vars /\ WF_vars(Merge) /\ WF_vars(End)

------------------------------------------------------------------------------
(* The difference of two snapshots, by definition.                         *)
DeltaOf(b, c) ==
  [kind : {"closed"}, id : IdsOf(b) \ IdsOf(c)]
    \cup [kind : {"opened"}, id : IdsOf(c) \ IdsOf(b)]
    \cup {e \in [kind : {"modified"}, id : IdsOf(b) \cap IdsOf(c)] :
           \A k \in KnownOf(b) : k.id = e.id => k \notin KnownOf(c)}

(* UpdateOrders() sends exactly the events of the difference, each once:   *)
(* none for an order in which only fields nobody watches changed.          *)
EventsExact ==
  ~updating =>
    /\ {events[i] : i \in DOMAIN events} = DeltaOf(before, currentOrders)
    /\ Len(events) = Cardinality(DeltaOf(before, currentOrders))

(* A subscriber that applies the events as they come knows, after each     *)
(* update, the orders of the last snapshot, and in the middle of one those *)
(* of the new snapshot up to the enumerators and of the old one after.     *)
ViewExact ==
  view = IF updating
           THEN KnownOf(SubSeq(orders, 1, ni - 1))
                  \cup KnownOf(SubSeq(currentOrders, ci, Len(currentOrders)))
           ELSE KnownOf(currentOrders)

==============================================================================
