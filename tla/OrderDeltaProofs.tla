-------------------------- MODULE OrderDeltaProofs --------------------------
(***************************************************************************)
(* Theorems about OrderDelta: the merge of any two sorted snapshots sends  *)
(* exactly the events of their difference, and a subscriber that applies   *)
(* them knows the orders, in the middle of the merge too.                  *)
(***************************************************************************)
EXTENDS OrderDelta, SequenceTheorems, FiniteSetTheorems, FunctionTheorems, TLAPS

(* The ids of a sequence of orders, or of events, increase.                *)
Increasing(s) == \A i, j \in 1..Len(s) : i < j => s[i].id < s[j].id

------------------------------------------------------------------------------
(* Sequences without repetition.                                           *)

LEMMA Positions ==
  ASSUME NEW n \in Nat
  PROVE  IsFiniteSet(1..n) /\ Cardinality(1..n) = n
<1>1. 1 \in Int /\ n \in Int
  OBVIOUS
<1>2. IsFiniteSet(1..n) /\ Cardinality(1..n) = IF 1 > n THEN 0 ELSE n - 1 + 1
  BY <1>1, FS_Interval
<1> QED BY <1>2

(* A sequence whose elements differ has as many of them as its length.     *)
LEMMA DistinctCounted ==
  ASSUME NEW n \in Nat, NEW R, NEW s \in [1..n -> R],
         \A y \in R : \E i \in 1..n : s[i] = y,
         \A i, j \in 1..n : s[i] = s[j] => i = j
  PROVE  IsFiniteSet(R) /\ Cardinality(R) = n
<1>1. s \in Bijection(1..n, R)
  BY Fun_IsBij, Zenon
<1>2. ExistsBijection(1..n, R)
  BY <1>1 DEF ExistsBijection
<1>3. IsFiniteSet(R) /\ Cardinality(R) = Cardinality(1..n)
  BY <1>2, Positions, FS_Bijection
<1> QED BY <1>3, Positions

(* As many different elements as positions: none is repeated.              *)
LEMMA CountedDistinct ==
  ASSUME NEW n \in Nat, NEW R, NEW r \in [1..n -> R],
         \A y \in R : \E i \in 1..n : r[i] = y,
         Cardinality(R) = n
  PROVE  \A i, j \in 1..n : r[i] = r[j] => i = j
<1>1. r \in Surjection(1..n, R)
  BY Fun_IsSurj
<1>2. Cardinality(1..n) = Cardinality(R) /\ IsFiniteSet(1..n)
  BY Positions
<1>3. r \in Injection(1..n, R)
  BY <1>1, <1>2, FS_SurjSameCardinalityImpliesInj
<1> QED BY <1>3, Fun_InjectionProperties

(* orders.Sort of a snapshot, which holds an order once, gives a sequence  *)
(* of increasing ids.                                                      *)
LEMMA SortIncreases ==
  ASSUME NEW s \in Snapshots, NEW r, IsSortOf(r, s),
         r \in [1..Len(s) -> {s[i] : i \in DOMAIN s}]
  PROVE  r \in Seq(Orders) /\ Increasing(r)
<1>1. s \in Seq(Orders)
  <2>1. PICK n \in 0..MaxSnapshot : s \in [1..n -> Orders]
    BY DEF Snapshots
  <2> QED BY <2>1, DeltaAssumption
<1>2. Len(s) \in Nat /\ DOMAIN s = 1..Len(s) /\ \A i \in 1..Len(s) : s[i] \in Orders
  BY <1>1, LenProperties, ElementOfSeq
<1>3. r \in [1..Len(s) -> Orders]
  BY <1>2
<1>4. r \in Seq(Orders) /\ Len(r) = Len(s)
  BY <1>2, <1>3
<1>5. DOMAIN r = 1..Len(r)
  BY <1>4, LenProperties
<1> DEFINE R == {s[i] : i \in 1..Len(s)}
<1>6. \A i, j \in 1..Len(s) : s[i] = s[j] => i = j
  BY <1>2 DEF Snapshots
<1>7. Cardinality(R) = Len(s)
  <2>1. s \in [1..Len(s) -> R]
    BY <1>1, LenProperties
  <2>2. \A y \in R : \E i \in 1..Len(s) : s[i] = y
    OBVIOUS
  <2> HIDE DEF R
  <2> QED BY <1>2, <1>6, <2>1, <2>2, DistinctCounted
<1>8. {r[i] : i \in 1..Len(r)} = R
  BY <1>2, <1>5 DEF IsSortOf
<1>9. \A i, j \in 1..Len(s) : r[i] = r[j] => i = j
  <2>1. r \in [1..Len(s) -> R]
    BY <1>2
  <2>2. \A y \in R : \E i \in 1..Len(s) : r[i] = y
    BY <1>4, <1>8
  <2> HIDE DEF R
  <2> QED BY <1>2, <1>7, <2>1, <2>2, CountedDistinct
<1>10. Increasing(r)
  <2> SUFFICES ASSUME NEW i \in 1..Len(r), NEW j \in 1..Len(r), i < j
               PROVE  r[i].id < r[j].id
    BY DEF Increasing
  <2>1. r[i].id <= r[j].id
    BY <1>5 DEF IsSortOf, Sorted
  <2>2. r[i].id # r[j].id
    <3>1. PICK a \in 1..Len(s) : s[a] = r[i]
      BY <1>8
    <3>2. PICK b \in 1..Len(s) : s[b] = r[j]
      BY <1>8
    <3>3. r[i] # r[j]
      BY <1>4, <1>9, <1>2
    <3>4. a # b
      BY <3>1, <3>2, <3>3
    <3>5. s[a].id # s[b].id
      BY <1>2, <3>4 DEF Snapshots
    <3> QED BY <3>1, <3>2, <3>5
  <2>3. r[i] \in Orders /\ r[j] \in Orders
    BY <1>4, ElementOfSeq
  <2>4. r[i].id \in Nat /\ r[j].id \in Nat
    BY <2>3, DeltaAssumption DEF Orders
  <2> QED BY <2>1, <2>2, <2>4
<1> QED BY <1>4, <1>10

------------------------------------------------------------------------------
(* The difference of two snapshots, one id at a time.                      *)

LEMMA OnlyOld ==
  ASSUME NEW b \in Seq(Orders), NEW c \in Seq(Orders), NEW i \in 1..Len(b),
         \A j \in 1..Len(c) : c[j].id # b[i].id
  PROVE  \A e : (e \in DeltaOf(b, c) /\ e.id = b[i].id) <=> e = Event("closed", b[i])
BY DEF DeltaOf, IdsOf, Event

LEMMA OnlyNew ==
  ASSUME NEW b \in Seq(Orders), NEW c \in Seq(Orders), NEW i \in 1..Len(c),
         \A j \in 1..Len(b) : b[j].id # c[i].id
  PROVE  \A e : (e \in DeltaOf(b, c) /\ e.id = c[i].id) <=> e = Event("opened", c[i])
BY DEF DeltaOf, IdsOf, Event

(* A sequence of increasing ids holds an id once.                          *)
LEMMA OneOfAnId ==
  ASSUME NEW s \in Seq(Orders), Increasing(s),
         NEW i \in 1..Len(s), NEW j \in 1..Len(s), s[i].id = s[j].id
  PROVE  i = j
<1>1. s[i] \in Orders /\ s[j] \in Orders
  BY ElementOfSeq
<1>2. s[i].id \in Nat /\ s[j].id \in Nat
  BY <1>1, DeltaAssumption DEF Orders
<1> QED BY <1>2 DEF Increasing

LEMMA InBoth ==
  ASSUME NEW b \in Seq(Orders), NEW c \in Seq(Orders),
         Increasing(b), Increasing(c),
         NEW i \in 1..Len(b), NEW j \in 1..Len(c), b[i].id = c[j].id
  PROVE  \A e : (e \in DeltaOf(b, c) /\ e.id = c[j].id)
                  <=> (e = Event("modified", c[j]) /\ b[i].watched # c[j].watched)
<1>1. DOMAIN b = 1..Len(b) /\ DOMAIN c = 1..Len(c)
  BY LenProperties
<1>2. c[j].id \in IdsOf(b) \cap IdsOf(c)
  BY <1>1 DEF IdsOf
<1>3. (\A k \in KnownOf(b) : k.id = c[j].id => k \notin KnownOf(c))
        <=> b[i].watched # c[j].watched
  <2>1. ASSUME NEW k \in KnownOf(b), k.id = c[j].id
        PROVE  k = Known(b[i])
    <3>1. PICK a \in 1..Len(b) : k = Known(b[a])
      BY <1>1 DEF KnownOf
    <3>2. b[a].id = b[i].id
      BY <2>1, <3>1 DEF Known
    <3> QED BY <3>1, <3>2, OneOfAnId
  <2>2. ASSUME NEW k \in KnownOf(c), k.id = c[j].id
        PROVE  k = Known(c[j])
    <3>1. PICK a \in 1..Len(c) : k = Known(c[a])
      BY <1>1 DEF KnownOf
    <3>2. c[a].id = c[j].id
      BY <2>2, <3>1 DEF Known
    <3> QED BY <3>1, <3>2, OneOfAnId
  <2>3. Known(b[i]) \in KnownOf(b) /\ Known(c[j]) \in KnownOf(c)
    BY <1>1 DEF KnownOf
  <2>4. Known(b[i]).id = c[j].id
    BY DEF Known
  <2>5. Known(b[i]) = Known(c[j]) <=> b[i].watched = c[j].watched
    BY DEF Known
  <2> QED BY <2>1, <2>2, <2>3, <2>4, <2>5
<1> SUFFICES ASSUME NEW e
             PROVE  (e \in DeltaOf(b, c) /\ e.id = c[j].id)
                      <=> (e = Event("modified", c[j]) /\ b[i].watched # c[j].watched)
  OBVIOUS
<1>4. (e \in DeltaOf(b, c) /\ e.id = c[j].id)
        <=> /\ e \in [kind : {"modified"}, id : IdsOf(b) \cap IdsOf(c)]
            /\ e.id = c[j].id
            /\ \A k \in KnownOf(b) : k.id = c[j].id => k \notin KnownOf(c)
  BY <1>2 DEF DeltaOf
<1>5. (e \in [kind : {"modified"}, id : IdsOf(b) \cap IdsOf(c)] /\ e.id = c[j].id)
        <=> e = Event("modified", c[j])
  BY <1>2 DEF Event
<1> QED BY <1>3, <1>4, <1>5

------------------------------------------------------------------------------
(* The types.                                                              *)

LEMMA TypeInit == Init => TypeOK
<1>1. <<>> \in Seq(Orders) /\ <<>> \in Seq(Events) /\ 1 \in 1..(Len(<<>>) + 1)
  OBVIOUS
<1>2. {} \subseteq [id : Ids, watched : Watched]
  OBVIOUS
<1> QED BY <1>1, <1>2, Zenon DEF Init, TypeOK

LEMMA EventsTyped ==
  ASSUME NEW o \in Orders, NEW k \in {"opened", "closed", "modified"}
  PROVE  Event(k, o) \in Events /\ Known(o) \in [id : Ids, watched : Watched]
BY DEF Event, Events, Known, Orders

LEMMA TypeStep == TypeOK /\ [Next]_vars => TypeOK'
<1> SUFFICES ASSUME TypeOK, [Next]_vars PROVE TypeOK'
  OBVIOUS
<1>1. ASSUME NEW s \in Snapshots, UpdateOrders(s) PROVE TypeOK'
  <2>1. orders' \in Seq(Orders)
    BY <1>1, SortIncreases DEF UpdateOrders
  <2>2. 1 \in 1..(Len(orders') + 1)
    BY <2>1
  <2> QED BY <1>1, <2>1, <2>2 DEF UpdateOrders, TypeOK
<1>2. CASE Closed
  <2>1. co \in Orders /\ ci + 1 \in 1..(Len(currentOrders) + 1)
    BY <1>2 DEF Closed, cGot, co, TypeOK
  <2>2. Event("closed", co) \in Events
    BY <2>1, EventsTyped
  <2> QED BY <1>2, <2>1, <2>2 DEF Closed, TypeOK, Without
<1>3. CASE Opened
  <2>1. no \in Orders /\ ni + 1 \in 1..(Len(orders) + 1)
    BY <1>3 DEF Opened, nGot, no, TypeOK
  <2>2. Event("opened", no) \in Events /\ Known(no) \in [id : Ids, watched : Watched]
    BY <2>1, EventsTyped
  <2> QED BY <1>3, <2>1, <2>2 DEF Opened, TypeOK
<1>4. CASE Kept
  <2>1. /\ no \in Orders
        /\ ci + 1 \in 1..(Len(currentOrders) + 1) /\ ni + 1 \in 1..(Len(orders) + 1)
    BY <1>4 DEF Kept, cGot, nGot, no, TypeOK
  <2>2. Event("modified", no) \in Events /\ Known(no) \in [id : Ids, watched : Watched]
    BY <2>1, EventsTyped
  <2>3. events' \in Seq(Events) /\ view' \subseteq [id : Ids, watched : Watched]
    <3>1. CASE Mods
      <4>1. /\ events' = Append(events, Event("modified", no))
            /\ view' = Without(view, no.id) \cup {Known(no)}
        BY <1>4, <3>1 DEF Kept
      <4>2. events' \in Seq(Events)
        BY <2>2, <4>1 DEF TypeOK
      <4>3. Without(view, no.id) \subseteq view
        BY DEF Without
      <4> QED BY <2>2, <4>1, <4>2, <4>3 DEF TypeOK
    <3>2. CASE ~Mods
      <4>1. events' = events /\ view' = view
        BY <1>4, <3>2 DEF Kept
      <4> QED BY <4>1 DEF TypeOK
    <3> QED BY <3>1, <3>2
  <2> QED BY <1>4, <2>1, <2>3 DEF Kept, TypeOK
<1>5. CASE End
  <2>1. Len(orders) \in Nat /\ 1 \in 1..(Len(orders) + 1)
    BY DEF TypeOK
  <2> QED BY <1>5, <2>1 DEF End, TypeOK
<1>6. CASE Reset
  BY <1>6 DEF Reset, TypeOK
<1>7. CASE UNCHANGED vars
  BY <1>7 DEF vars, TypeOK
<1> QED BY <1>1, <1>2, <1>3, <1>4, <1>5, <1>6, <1>7 DEF Next, Merge

------------------------------------------------------------------------------
(* The invariant of the merge.  An id is done when an enumerator has       *)
(* passed it, left when one has not; every id that is done is below every  *)
(* id that is left, so that none is both, and the events sent so far are   *)
(* those of the difference whose ids are done.                             *)

Done(n) ==
  \/ \E i \in 1..(ci - 1) : currentOrders[i].id = n
  \/ \E i \in 1..(ni - 1) : orders[i].id = n

Left(n) ==
  \/ \E i \in ci..Len(currentOrders) : currentOrders[i].id = n
  \/ \E i \in ni..Len(orders) : orders[i].id = n

InOrder == Increasing(currentOrders) /\ Increasing(orders)

Cut == updating => \A m, n \in Ids : (Done(m) /\ Left(n)) => m < n

Seen(k) ==
  IF updating
    THEN \/ \E i \in 1..(ni - 1) : k = Known(orders[i])
         \/ \E i \in ci..Len(currentOrders) : k = Known(currentOrders[i])
    ELSE \E i \in 1..Len(currentOrders) : k = Known(currentOrders[i])

ViewInv == \A k : k \in view <=> Seen(k)

Target == IF updating THEN orders ELSE currentOrders

EventInv ==
  /\ updating => before = currentOrders
  /\ Increasing(events)
  /\ \A e \in Events : (\E i \in 1..Len(events) : events[i] = e)
                         <=> (e \in DeltaOf(before, Target) /\ (updating => Done(e.id)))

Inv == TypeOK /\ InOrder /\ Cut /\ ViewInv /\ EventInv

LEMMA OrderIds ==
  ASSUME TypeOK
  PROVE  /\ \A i \in 1..Len(currentOrders) :
              currentOrders[i] \in Orders /\ currentOrders[i].id \in Ids
         /\ \A i \in 1..Len(orders) : orders[i] \in Orders /\ orders[i].id \in Ids
         /\ \A i \in 1..Len(events) : events[i] \in Events /\ events[i].id \in Ids
         /\ Len(currentOrders) \in Nat /\ Len(orders) \in Nat /\ Len(events) \in Nat
<1>1. /\ \A i \in 1..Len(currentOrders) : currentOrders[i] \in Orders
      /\ \A i \in 1..Len(orders) : orders[i] \in Orders
      /\ \A i \in 1..Len(events) : events[i] \in Events
      /\ Len(currentOrders) \in Nat /\ Len(orders) \in Nat /\ Len(events) \in Nat
  BY DEF TypeOK
<1> QED BY <1>1 DEF Orders, Events

(* An id is done by a step that sends nothing for it.                      *)
LEMMA NotSent ==
  ASSUME EventInv, updating, updating',
         UNCHANGED <<currentOrders, orders, before, events>>,
         NEW n \in Ids,
         \A m \in Ids : Done(m)' <=> (Done(m) \/ m = n),
         \A e : ~(e \in DeltaOf(currentOrders, orders) /\ e.id = n)
  PROVE  EventInv'
<1>1. before = currentOrders /\ before' = currentOrders'
  BY DEF EventInv
<1>2. DeltaOf(before, Target)' = DeltaOf(before, Target)
  BY DEF Target, DeltaOf, IdsOf, KnownOf
<1>3. DeltaOf(before, Target) = DeltaOf(currentOrders, orders)
  BY <1>1 DEF Target
<1>4. Increasing(events)'
  BY DEF EventInv, Increasing
<1>5. ASSUME NEW e \in Events
      PROVE  (\E i \in 1..Len(events') : events'[i] = e)
               <=> (e \in DeltaOf(before, Target)' /\ (updating' => Done(e.id)'))
  <2>1. e.id \in Ids
    BY DEF Events
  <2> QED BY <1>2, <1>3, <2>1 DEF EventInv
<1> QED BY <1>1, <1>4, <1>5 DEF EventInv

(* An id is done by a step that sends the one event there is for it.       *)
LEMMA Sent ==
  ASSUME TypeOK, EventInv, Cut, updating, updating',
         UNCHANGED <<currentOrders, orders, before>>,
         NEW n \in Ids, Left(n),
         \A m \in Ids : Done(m)' <=> (Done(m) \/ m = n),
         NEW ev \in Events, ev.id = n,
         \A e : (e \in DeltaOf(currentOrders, orders) /\ e.id = n) <=> e = ev,
         events' = Append(events, ev)
  PROVE  EventInv'
<1>1. before = currentOrders /\ before' = currentOrders'
  BY DEF EventInv
<1>2. DeltaOf(before, Target)' = DeltaOf(before, Target)
  BY DEF Target, DeltaOf, IdsOf, KnownOf
<1>3. DeltaOf(before, Target) = DeltaOf(currentOrders, orders)
  BY <1>1 DEF Target
<1>4. /\ Len(events') = Len(events) + 1
      /\ \A i \in 1..Len(events) : events'[i] = events[i]
      /\ events'[Len(events) + 1] = ev
  BY DEF TypeOK
<1>5. \A i \in 1..Len(events) : events[i].id < n
  <2> TAKE i \in 1..Len(events)
  <2>1. events[i] \in Events /\ events[i].id \in Ids
    BY OrderIds
  <2>2. Done(events[i].id)
    BY <2>1 DEF EventInv
  <2> QED BY <2>1, <2>2 DEF Cut
<1>6. Increasing(events')
  <2> SUFFICES ASSUME NEW i \in 1..Len(events'), NEW j \in 1..Len(events'), i < j
               PROVE  events'[i].id < events'[j].id
    BY DEF Increasing
  <2>1. i \in 1..Len(events) /\ (j \in 1..Len(events) \/ j = Len(events) + 1)
    <3>1. Len(events) \in Nat /\ i \in 1..(Len(events) + 1) /\ j \in 1..(Len(events) + 1)
      BY <1>4 DEF TypeOK
    <3> QED BY <3>1
  <2>2. CASE j \in 1..Len(events)
    BY <1>4, <2>1, <2>2 DEF EventInv, Increasing
  <2>3. CASE j = Len(events) + 1
    BY <1>4, <1>5, <2>1, <2>3
  <2> QED BY <2>1, <2>2, <2>3
<1>7. ASSUME NEW e \in Events
      PROVE  (\E i \in 1..Len(events') : events'[i] = e)
               <=> (e \in DeltaOf(before, Target)' /\ (updating' => Done(e.id)'))
  <2>1. e.id \in Ids
    BY DEF Events
  <2>2. (\E i \in 1..Len(events') : events'[i] = e)
          <=> (\E i \in 1..Len(events) : events[i] = e) \/ e = ev
    BY <1>4, OrderIds
  <2>3. (\E i \in 1..Len(events) : events[i] = e)
          <=> (e \in DeltaOf(currentOrders, orders) /\ Done(e.id))
    BY <1>3 DEF EventInv
  <2>4. Done(e.id)' <=> (Done(e.id) \/ e.id = n)
    BY <2>1
  <2> QED BY <1>2, <1>3, <2>2, <2>3, <2>4
<1> QED BY <1>1, <1>6, <1>7 DEF EventInv, Increasing

(* The id of an order at an enumerator is done, when it is the least left. *)
LEMMA CutStep ==
  ASSUME Cut, updating, NEW n \in Ids,
         \A m \in Ids : Done(m)' <=> (Done(m) \/ m = n),
         \A m \in Ids : Left(m)' => (Left(m) /\ n < m)
  PROVE  Cut'
<1> SUFFICES ASSUME NEW m \in Ids, NEW k \in Ids, Done(m)', Left(k)'
             PROVE  m < k
  BY DEF Cut
<1> QED BY DEF Cut

------------------------------------------------------------------------------
(* The steps of the merge.                                                 *)

LEMMA AtEnumerators ==
  ASSUME TypeOK, InOrder
  PROVE  /\ cGot => /\ ci \in 1..Len(currentOrders) /\ co \in Orders /\ co.id \in Ids
                    /\ \A i \in (ci + 1)..Len(currentOrders) : co.id < currentOrders[i].id
         /\ nGot => /\ ni \in 1..Len(orders) /\ no \in Orders /\ no.id \in Ids
                    /\ \A i \in (ni + 1)..Len(orders) : no.id < orders[i].id
<1>1. ci \in Nat /\ ni \in Nat /\ ci >= 1 /\ ni >= 1
  BY DEF TypeOK
<1> QED BY <1>1, OrderIds DEF InOrder, Increasing, cGot, nGot, co, no

LEMMA ClosedStep ==
  ASSUME Inv, TypeOK', Closed
  PROVE  Inv'
<1>1. /\ ci \in 1..Len(currentOrders) /\ co \in Orders /\ co.id \in Ids
      /\ \A i \in (ci + 1)..Len(currentOrders) : co.id < currentOrders[i].id
  BY AtEnumerators DEF Inv, Closed
<1>2. /\ updating /\ updating' = updating /\ ci' = ci + 1 /\ ni' = ni
      /\ UNCHANGED <<currentOrders, orders, before>>
      /\ events' = Append(events, Event("closed", co)) /\ view' = Without(view, co.id)
  BY DEF Closed
<1>3. ni \in Nat /\ ni >= 1 /\ Len(orders) \in Nat /\ Len(currentOrders) \in Nat
  BY DEF Inv, TypeOK
<1>4. Left(co.id)
  BY <1>1 DEF Left, co
<1>5. \A i \in 1..(ni - 1) : i \in 1..Len(orders) /\ orders[i].id \in Ids /\ orders[i].id < co.id
  <2> TAKE i \in 1..(ni - 1)
  <2>1. i \in 1..Len(orders) /\ orders[i].id \in Ids
    <3>1. i \in 1..Len(orders)
      BY DEF Inv, TypeOK
    <3> QED BY <3>1, OrderIds DEF Inv
  <2>2. Done(orders[i].id)
    BY DEF Done
  <2> QED BY <1>1, <1>2, <1>4, <2>1, <2>2 DEF Inv, Cut
<1>6. \A i \in ni..Len(orders) : orders[i].id \in Ids /\ co.id < orders[i].id
  <2> TAKE i \in ni..Len(orders)
  <2>1. nGot /\ co.id < no.id
    BY <1>3 DEF Closed, nGot
  <2>2. no.id \in Ids /\ (i = ni \/ no.id < orders[i].id)
    BY <1>3, <2>1, AtEnumerators DEF Inv
  <2>3. i \in 1..Len(orders) /\ orders[i].id \in Ids
    <3>1. i \in 1..Len(orders)
      BY <1>3
    <3> QED BY <3>1, OrderIds DEF Inv
  <2>4. co.id \in Nat /\ no.id \in Nat /\ orders[i].id \in Nat
    BY <1>1, <2>2, <2>3, DeltaAssumption
  <2>5. CASE i = ni
    BY <2>1, <2>3, <2>5 DEF no
  <2>6. CASE i # ni
    BY <2>1, <2>2, <2>3, <2>4, <2>6
  <2> QED BY <2>5, <2>6
<1>7. \A m \in Ids : Done(m)' <=> (Done(m) \/ m = co.id)
  BY <1>1, <1>2 DEF Done, co
<1>8. \A m \in Ids : Left(m)' => (Left(m) /\ co.id < m)
  BY <1>1, <1>2, <1>3, <1>6 DEF Left
<1>9. \A e : (e \in DeltaOf(currentOrders, orders) /\ e.id = co.id) <=> e = Event("closed", co)
  <2>1. \A j \in 1..Len(orders) : orders[j].id # co.id
    <3> TAKE j \in 1..Len(orders)
    <3>1. j \in 1..(ni - 1) \/ j \in ni..Len(orders)
      BY <1>3
    <3>2. orders[j].id \in Nat /\ co.id \in Nat
      BY <1>1, <1>5, <1>6, <3>1, DeltaAssumption
    <3> QED BY <1>5, <1>6, <3>1, <3>2
  <2> QED BY <1>1, <2>1, OnlyOld DEF Inv, TypeOK, co
<1>10. InOrder'
  BY <1>2 DEF Inv, InOrder, Increasing
<1>11. Cut'
  BY <1>1, <1>2, <1>7, <1>8, CutStep DEF Inv
<1>12. EventInv'
  <2>1. Event("closed", co) \in Events /\ Event("closed", co).id = co.id
    BY <1>1, EventsTyped DEF Event
  <2> QED BY <1>1, <1>2, <1>4, <1>7, <1>9, <2>1, Sent DEF Inv
<1>13. ViewInv'
  <2> SUFFICES ASSUME NEW k PROVE k \in view' <=> Seen(k)'
    BY DEF ViewInv
  <2>1. k \in view' <=> (Seen(k) /\ k.id # co.id)
    BY <1>2 DEF Inv, ViewInv, Without
  <2>2. (\E i \in ci..Len(currentOrders) : k = Known(currentOrders[i])) /\ k.id # co.id
          <=> \E i \in (ci + 1)..Len(currentOrders) : k = Known(currentOrders[i])
    <3>1. Known(co).id = co.id /\ co = currentOrders[ci]
      BY DEF Known, co
    <3>2. \A i \in (ci + 1)..Len(currentOrders) : Known(currentOrders[i]).id # co.id
      <4> TAKE i \in (ci + 1)..Len(currentOrders)
      <4>1. i \in 1..Len(currentOrders)
        BY <1>1, <1>3
      <4>2. currentOrders[i].id \in Nat /\ co.id \in Nat /\ co.id < currentOrders[i].id
        BY <1>1, <4>1, OrderIds, DeltaAssumption DEF Inv
      <4>3. Known(currentOrders[i]).id = currentOrders[i].id
        BY DEF Known
      <4> QED BY <4>2, <4>3
    <3>3. \A i : i \in ci..Len(currentOrders)
                   <=> (i = ci \/ i \in (ci + 1)..Len(currentOrders))
      BY <1>1, <1>3
    <3> QED BY <3>1, <3>2, <3>3
  <2>3. (\E i \in 1..(ni - 1) : k = Known(orders[i])) => k.id # co.id
    <3> SUFFICES ASSUME NEW i \in 1..(ni - 1) PROVE Known(orders[i]).id # co.id
      OBVIOUS
    <3>1. orders[i].id \in Nat /\ co.id \in Nat /\ orders[i].id < co.id
      BY <1>1, <1>5, DeltaAssumption
    <3>2. Known(orders[i]).id = orders[i].id
      BY DEF Known
    <3> QED BY <3>1, <3>2
  <2> QED BY <1>2, <2>1, <2>2, <2>3 DEF Seen
<1> QED BY <1>10, <1>11, <1>12, <1>13 DEF Inv

LEMMA OpenedStep ==
  ASSUME Inv, TypeOK', Opened
  PROVE  Inv'
<1>1. /\ ni \in 1..Len(orders) /\ no \in Orders /\ no.id \in Ids
      /\ \A i \in (ni + 1)..Len(orders) : no.id < orders[i].id
  BY AtEnumerators DEF Inv, Opened
<1>2. /\ updating /\ updating' = updating /\ ni' = ni + 1 /\ ci' = ci
      /\ UNCHANGED <<currentOrders, orders, before>>
      /\ events' = Append(events, Event("opened", no)) /\ view' = view \cup {Known(no)}
  BY DEF Opened
<1>3. ci \in Nat /\ ci >= 1 /\ Len(orders) \in Nat /\ Len(currentOrders) \in Nat
  BY DEF Inv, TypeOK
<1>4. Left(no.id)
  BY <1>1 DEF Left, no
<1>5. \A i \in 1..(ci - 1) :
        i \in 1..Len(currentOrders) /\ currentOrders[i].id \in Ids /\ currentOrders[i].id < no.id
  <2> TAKE i \in 1..(ci - 1)
  <2>1. i \in 1..Len(currentOrders) /\ currentOrders[i].id \in Ids
    <3>1. ci \in 1..(Len(currentOrders) + 1) /\ Len(currentOrders) \in Nat
      BY DEF Inv, TypeOK
    <3>2. i \in 1..Len(currentOrders)
      BY <3>1
    <3> QED BY <3>2, OrderIds DEF Inv
  <2>2. Done(currentOrders[i].id)
    BY DEF Done
  <2> QED BY <1>1, <1>2, <1>4, <2>1, <2>2 DEF Inv, Cut
<1>6. \A i \in ci..Len(currentOrders) :
        currentOrders[i].id \in Ids /\ no.id < currentOrders[i].id
  <2> TAKE i \in ci..Len(currentOrders)
  <2>1. cGot /\ co.id > no.id
    BY <1>3 DEF Opened, cGot
  <2>2. co.id \in Ids /\ (i = ci \/ co.id < currentOrders[i].id)
    BY <1>3, <2>1, AtEnumerators DEF Inv
  <2>3. i \in 1..Len(currentOrders) /\ currentOrders[i].id \in Ids
    <3>1. i \in 1..Len(currentOrders)
      BY <1>3
    <3> QED BY <3>1, OrderIds DEF Inv
  <2>4. co.id \in Nat /\ no.id \in Nat /\ currentOrders[i].id \in Nat
    BY <1>1, <2>2, <2>3, DeltaAssumption
  <2>5. CASE i = ci
    BY <2>1, <2>3, <2>4, <2>5 DEF co
  <2>6. CASE i # ci
    BY <2>1, <2>2, <2>3, <2>4, <2>6
  <2> QED BY <2>5, <2>6
<1>7. \A m \in Ids : Done(m)' <=> (Done(m) \/ m = no.id)
  BY <1>1, <1>2 DEF Done, no
<1>8. \A m \in Ids : Left(m)' => (Left(m) /\ no.id < m)
  BY <1>1, <1>2, <1>3, <1>6 DEF Left
<1>9. \A e : (e \in DeltaOf(currentOrders, orders) /\ e.id = no.id) <=> e = Event("opened", no)
  <2>1. \A j \in 1..Len(currentOrders) : currentOrders[j].id # no.id
    <3> TAKE j \in 1..Len(currentOrders)
    <3>1. j \in 1..(ci - 1) \/ j \in ci..Len(currentOrders)
      BY <1>3
    <3>2. currentOrders[j].id \in Nat /\ no.id \in Nat
      BY <1>1, <1>5, <1>6, <3>1, DeltaAssumption
    <3> QED BY <1>5, <1>6, <3>1, <3>2
  <2> QED BY <1>1, <2>1, OnlyNew DEF Inv, TypeOK, no
<1>10. InOrder'
  BY <1>2 DEF Inv, InOrder, Increasing
<1>11. Cut'
  BY <1>1, <1>2, <1>7, <1>8, CutStep DEF Inv
<1>12. EventInv'
  <2>1. Event("opened", no) \in Events /\ Event("opened", no).id = no.id
    BY <1>1, EventsTyped DEF Event
  <2> QED BY <1>1, <1>2, <1>4, <1>7, <1>9, <2>1, Sent DEF Inv
<1>13. ViewInv'
  <2> SUFFICES ASSUME NEW k PROVE k \in view' <=> Seen(k)'
    BY DEF ViewInv
  <2>1. k \in view' <=> (Seen(k) \/ k = Known(no))
    BY <1>2 DEF Inv, ViewInv
  <2>2. \A i : i \in 1..((ni + 1) - 1) <=> (i \in 1..(ni - 1) \/ i = ni)
    BY <1>1
  <2>3. (\E i \in 1..((ni + 1) - 1) : k = Known(orders[i]))
          <=> ((\E i \in 1..(ni - 1) : k = Known(orders[i])) \/ k = Known(no))
    BY <2>2 DEF no
  <2> QED BY <1>2, <2>1, <2>3 DEF Seen
<1> QED BY <1>10, <1>11, <1>12, <1>13 DEF Inv

LEMMA KeptStep ==
  ASSUME Inv, TypeOK', Kept
  PROVE  Inv'
<1>1. /\ ci \in 1..Len(currentOrders) /\ co \in Orders /\ co.id \in Ids
      /\ \A i \in (ci + 1)..Len(currentOrders) : co.id < currentOrders[i].id
      /\ ni \in 1..Len(orders) /\ no \in Orders /\ no.id \in Ids
      /\ \A i \in (ni + 1)..Len(orders) : no.id < orders[i].id
  BY AtEnumerators DEF Inv, Kept
<1>2. /\ updating /\ updating' = updating /\ ni' = ni + 1 /\ ci' = ci + 1
      /\ UNCHANGED <<currentOrders, orders, before>>
      /\ co.id = no.id
  BY DEF Kept
<1>3. IF Mods
        THEN /\ events' = Append(events, Event("modified", no))
             /\ view' = Without(view, no.id) \cup {Known(no)}
        ELSE UNCHANGED <<events, view>>
  BY DEF Kept
<1>4. Len(orders) \in Nat /\ Len(currentOrders) \in Nat
  BY DEF Inv, TypeOK
<1>5. Left(no.id)
  BY <1>1 DEF Left, no
<1>6. \A m \in Ids : Done(m)' <=> (Done(m) \/ m = no.id)
  BY <1>1, <1>2 DEF Done, no, co
<1>7. \A m \in Ids : Left(m)' => (Left(m) /\ no.id < m)
  BY <1>1, <1>2, <1>4 DEF Left
<1>8. \A e : (e \in DeltaOf(currentOrders, orders) /\ e.id = no.id)
               <=> (e = Event("modified", no) /\ Mods)
  BY <1>1, <1>2, InBoth DEF Inv, TypeOK, InOrder, Mods, no, co
<1>9. InOrder'
  BY <1>2 DEF Inv, InOrder, Increasing
<1>10. Cut'
  BY <1>1, <1>2, <1>6, <1>7, CutStep DEF Inv
<1>11. EventInv'
  <2>1. CASE Mods
    <3>1. Event("modified", no) \in Events /\ Event("modified", no).id = no.id
      BY <1>1, EventsTyped DEF Event
    <3>2. events' = Append(events, Event("modified", no))
      BY <1>3, <2>1
    <3>3. \A e : (e \in DeltaOf(currentOrders, orders) /\ e.id = no.id)
                   <=> e = Event("modified", no)
      BY <1>8, <2>1
    <3> QED BY <1>1, <1>2, <1>5, <1>6, <3>1, <3>2, <3>3, Sent DEF Inv
  <2>2. CASE ~Mods
    <3>1. events' = events
      BY <1>3, <2>2
    <3>2. \A e : ~(e \in DeltaOf(currentOrders, orders) /\ e.id = no.id)
      BY <1>8, <2>2
    <3> QED BY <1>1, <1>2, <1>6, <3>1, <3>2, NotSent DEF Inv
  <2> QED BY <2>1, <2>2
<1>12. ViewInv'
  <2> SUFFICES ASSUME NEW k PROVE k \in view' <=> Seen(k)'
    BY DEF ViewInv
  <2> DEFINE Passed == \E i \in 1..(ni - 1) : k = Known(orders[i])
             Ahead == \E i \in (ci + 1)..Len(currentOrders) : k = Known(currentOrders[i])
  <2>1. Seen(k)' <=> (Passed \/ k = Known(no) \/ Ahead)
    <3>1. \A i : i \in 1..((ni + 1) - 1) <=> (i \in 1..(ni - 1) \/ i = ni)
      BY <1>1
    <3>2. (\E i \in 1..((ni + 1) - 1) : k = Known(orders[i])) <=> (Passed \/ k = Known(no))
      BY <3>1 DEF no
    <3> QED BY <1>2, <3>2 DEF Seen
  <2>2. Seen(k) <=> (Passed \/ k = Known(co) \/ Ahead)
    <3>1. \A i : i \in ci..Len(currentOrders)
                   <=> (i = ci \/ i \in (ci + 1)..Len(currentOrders))
      BY <1>1, <1>4
    <3>2. (\E i \in ci..Len(currentOrders) : k = Known(currentOrders[i]))
            <=> (k = Known(co) \/ Ahead)
      BY <3>1 DEF co
    <3> QED BY <1>2, <3>2 DEF Seen
  <2>3. (Passed \/ Ahead) => k.id # no.id
    <3>1. ASSUME NEW i \in 1..(ni - 1) PROVE Known(orders[i]).id # no.id
      <4>1. i \in 1..Len(orders) /\ orders[i].id \in Ids
        <5>1. i \in 1..Len(orders)
          BY DEF Inv, TypeOK
        <5> QED BY <5>1, OrderIds DEF Inv
      <4>2. Done(orders[i].id)
        BY DEF Done
      <4>3. orders[i].id < no.id
        BY <1>1, <1>2, <1>5, <4>1, <4>2 DEF Inv, Cut
      <4>4. orders[i].id \in Nat /\ no.id \in Nat /\ Known(orders[i]).id = orders[i].id
        BY <1>1, <4>1, DeltaAssumption DEF Known
      <4> QED BY <4>3, <4>4
    <3>2. ASSUME NEW i \in (ci + 1)..Len(currentOrders)
          PROVE  Known(currentOrders[i]).id # no.id
      <4>1. i \in 1..Len(currentOrders)
        BY <1>1, <1>4
      <4>2. currentOrders[i].id \in Nat /\ co.id \in Nat /\ co.id < currentOrders[i].id
        BY <1>1, <4>1, OrderIds, DeltaAssumption DEF Inv
      <4>3. Known(currentOrders[i]).id = currentOrders[i].id
        BY DEF Known
      <4> QED BY <1>2, <4>2, <4>3
    <3> QED BY <3>1, <3>2
  <2>4. Known(co).id = no.id /\ Known(no).id = no.id
    BY <1>2 DEF Known
  <2>5. k \in view <=> Seen(k)
    BY DEF Inv, ViewInv
  <2> HIDE DEF Passed, Ahead
  <2>6. CASE Mods
    <3>1. k \in view' <=> ((k \in view /\ k.id # no.id) \/ k = Known(no))
      BY <1>3, <2>6 DEF Without
    <3> QED BY <2>1, <2>2, <2>3, <2>4, <2>5, <3>1
  <2>7. CASE ~Mods
    <3>1. Known(co) = Known(no)
      BY <1>2, <2>7 DEF Mods, Known
    <3>2. view' = view
      BY <1>3, <2>7
    <3> QED BY <2>1, <2>2, <2>5, <3>1, <3>2
  <2> QED BY <2>6, <2>7
<1> QED BY <1>9, <1>10, <1>11, <1>12 DEF Inv

------------------------------------------------------------------------------
(* The other steps.                                                        *)

LEMMA NoOrders == DeltaOf(<<>>, <<>>) = {}
BY DEF DeltaOf, IdsOf, KnownOf

(* An event of a difference is about an order of one of the snapshots.     *)
LEMMA DeltaIds ==
  ASSUME NEW b \in Seq(Orders), NEW c \in Seq(Orders), NEW e \in DeltaOf(b, c)
  PROVE  \/ \E i \in 1..Len(b) : b[i].id = e.id
         \/ \E i \in 1..Len(c) : c[i].id = e.id
<1>1. DOMAIN b = 1..Len(b) /\ DOMAIN c = 1..Len(c)
  BY LenProperties
<1>2. e.id \in IdsOf(b) \cup IdsOf(c)
  BY DEF DeltaOf
<1> QED BY <1>1, <1>2 DEF IdsOf

LEMMA UpdateStep ==
  ASSUME Inv, TypeOK', NEW s \in Snapshots, UpdateOrders(s)
  PROVE  Inv'
<1>1. /\ ~updating /\ updating' /\ ci' = 1 /\ ni' = 1 /\ events' = <<>>
      /\ before' = currentOrders /\ UNCHANGED <<currentOrders, view>>
  BY DEF UpdateOrders
<1>2. InOrder'
  BY <1>1, SortIncreases DEF Inv, InOrder, Increasing, UpdateOrders
<1>3. \A n : ~Done(n)'
  BY <1>1 DEF Done
<1>4. Cut'
  BY <1>3 DEF Cut
<1>5. ViewInv'
  <2> SUFFICES ASSUME NEW k PROVE k \in view' <=> Seen(k)'
    BY DEF ViewInv
  <2> QED BY <1>1 DEF Inv, ViewInv, Seen
<1>6. EventInv'
  BY <1>1, <1>3 DEF EventInv, Increasing
<1> QED BY <1>2, <1>4, <1>5, <1>6 DEF Inv

LEMMA EndStep ==
  ASSUME Inv, TypeOK', End
  PROVE  Inv'
<1>1. /\ updating /\ ~updating' /\ currentOrders' = orders /\ ci' = 1
      /\ UNCHANGED <<orders, ni, events, before, view>>
  BY DEF End
<1>2. /\ ci = Len(currentOrders) + 1 /\ ni = Len(orders) + 1
      /\ Len(currentOrders) \in Nat /\ Len(orders) \in Nat
  BY DEF Inv, TypeOK, End, cGot, nGot
<1>3. InOrder'
  BY <1>1 DEF Inv, InOrder, Increasing
<1>4. Cut'
  BY <1>1 DEF Cut
<1>5. ViewInv'
  <2> SUFFICES ASSUME NEW k PROVE k \in view' <=> Seen(k)'
    BY DEF ViewInv
  <2> QED BY <1>1, <1>2 DEF Inv, ViewInv, Seen
<1>6. EventInv'
  <2>1. before = currentOrders /\ Target = orders /\ Target' = orders /\ before' = before
    BY <1>1 DEF Inv, EventInv, Target
  <2>2. DeltaOf(before, Target)' = DeltaOf(currentOrders, orders)
    BY <2>1 DEF DeltaOf, IdsOf, KnownOf
  <2>3. ASSUME NEW e \in DeltaOf(currentOrders, orders) PROVE Done(e.id)
    <3>1. currentOrders \in Seq(Orders) /\ orders \in Seq(Orders)
      BY DEF Inv, TypeOK
    <3> QED BY <1>2, <3>1, DeltaIds DEF Done
  <2>4. Increasing(events)'
    BY <1>1 DEF Inv, EventInv, Increasing
  <2>5. ASSUME NEW e \in Events
        PROVE  (\E i \in 1..Len(events') : events'[i] = e)
                 <=> (e \in DeltaOf(before, Target)' /\ (updating' => Done(e.id)'))
    <3>1. (\E i \in 1..Len(events) : events[i] = e)
            <=> (e \in DeltaOf(currentOrders, orders) /\ Done(e.id))
      BY <1>1, <2>1 DEF Inv, EventInv
    <3> QED BY <1>1, <2>2, <2>3, <3>1
  <2> QED BY <1>1, <2>4, <2>5 DEF EventInv
<1> QED BY <1>3, <1>4, <1>5, <1>6 DEF Inv

LEMMA ResetStep ==
  ASSUME Inv, TypeOK', Reset
  PROVE  Inv'
<1>1. /\ ~updating /\ ~updating' /\ currentOrders' = <<>> /\ view' = {}
      /\ before' = <<>> /\ events' = <<>> /\ orders' = orders
  BY DEF Reset, Inv, TypeOK
<1>2. Target' = <<>>
  BY <1>1 DEF Target
<1>3. InOrder'
  BY <1>1 DEF Inv, InOrder, Increasing
<1>4. Cut' /\ ViewInv'
  BY <1>1 DEF Cut, ViewInv, Seen
<1>5. DeltaOf(before, Target)' = {}
  BY <1>1, <1>2, NoOrders DEF DeltaOf, IdsOf, KnownOf
<1>6. EventInv'
  BY <1>1, <1>5 DEF EventInv, Increasing
<1> QED BY <1>3, <1>4, <1>6 DEF Inv

LEMMA InvInit == Init => Inv
<1> SUFFICES ASSUME Init PROVE Inv
  OBVIOUS
<1>1. /\ ~updating /\ currentOrders = <<>> /\ view = {}
      /\ before = <<>> /\ events = <<>> /\ orders = <<>>
  BY DEF Init
<1>2. DeltaOf(before, Target) = {}
  BY <1>1, NoOrders DEF Target
<1>3. InOrder /\ Cut /\ ViewInv
  BY <1>1 DEF InOrder, Increasing, Cut, ViewInv, Seen
<1>4. EventInv
  BY <1>1, <1>2 DEF EventInv, Increasing
<1> QED BY TypeInit, <1>3, <1>4 DEF Inv

LEMMA InvStep == Inv /\ [Next]_vars => Inv'
<1> SUFFICES ASSUME Inv, [Next]_vars PROVE Inv'
  OBVIOUS
<1>1. TypeOK'
  BY TypeStep DEF Inv
<1>2. CASE UNCHANGED vars
  <2>1. InOrder' /\ Cut'
    BY <1>2 DEF vars, Inv, InOrder, Increasing, Cut, Done, Left
  <2>2. ViewInv'
    BY <1>2 DEF vars, Inv, ViewInv, Seen
  <2>3. EventInv'
    BY <1>2 DEF vars, Inv, EventInv, Increasing, Done, Target, DeltaOf, IdsOf, KnownOf
  <2> QED BY <1>1, <2>1, <2>2, <2>3 DEF Inv
<1> QED
  BY <1>1, <1>2, UpdateStep, ClosedStep, OpenedStep, KeptStep, EndStep, ResetStep DEF Next, Merge

------------------------------------------------------------------------------
(* The theorems.                                                           *)

LEMMA InvCorrect == Spec => []Inv
<1> QED BY InvInit, InvStep, PTL DEF Spec

(* The variables keep their types, and the enumerators stay inside their   *)
(* snapshots or at their ends.                                             *)
THEOREM TypeCorrect == Spec => []TypeOK
<1>1. Inv => TypeOK
  BY DEF Inv
<1> QED BY <1>1, InvCorrect, PTL

(* What a subscriber makes of the events is, at every step of the merge,   *)
(* the new snapshot up to the enumerators and the old one after them.      *)
THEOREM ViewCorrect == Spec => []ViewExact
<1>1. Inv => ViewExact
  <2> SUFFICES ASSUME Inv PROVE ViewExact
    OBVIOUS
  <2>1. /\ currentOrders \in Seq(Orders) /\ orders \in Seq(Orders)
        /\ ci \in 1..(Len(currentOrders) + 1) /\ ni \in 1..(Len(orders) + 1)
        /\ Len(currentOrders) \in Nat /\ Len(orders) \in Nat
    BY DEF Inv, TypeOK
  <2>2. \A k : k \in KnownOf(currentOrders)
                 <=> \E i \in 1..Len(currentOrders) : k = Known(currentOrders[i])
    BY <2>1 DEF KnownOf
  <2>3. \A k : k \in KnownOf(SubSeq(orders, 1, ni - 1))
                 <=> \E i \in 1..(ni - 1) : k = Known(orders[i])
    <3> DEFINE p == SubSeq(orders, 1, ni - 1)
    <3>1. /\ p \in Seq(Orders) /\ Len(p) = ni - 1
          /\ \A i \in 1..(ni - 1) : p[i] = orders[i]
      BY <2>1
    <3> HIDE DEF p
    <3>2. DOMAIN p = 1..(ni - 1)
      BY <3>1, LenProperties
    <3> QED BY <3>1, <3>2 DEF KnownOf, p
  <2>4. \A k : k \in KnownOf(SubSeq(currentOrders, ci, Len(currentOrders)))
                 <=> \E i \in ci..Len(currentOrders) : k = Known(currentOrders[i])
    <3> DEFINE p == SubSeq(currentOrders, ci, Len(currentOrders))
               n == Len(currentOrders) - ci + 1
    <3>1. /\ p \in Seq(Orders) /\ Len(p) = n /\ n \in Nat
          /\ \A i \in 1..n : p[i] = currentOrders[ci + i - 1]
      BY <2>1
    <3> HIDE DEF p
    <3>2. DOMAIN p = 1..n
      BY <3>1, LenProperties
    <3>3. \A k : k \in KnownOf(p) <=> \E i \in 1..n : k = Known(currentOrders[ci + i - 1])
      BY <3>1, <3>2 DEF KnownOf
    <3>4. \A i \in 1..n : ci + i - 1 \in ci..Len(currentOrders)
      BY <2>1
    <3>5. \A j \in ci..Len(currentOrders) : j - ci + 1 \in 1..n /\ ci + (j - ci + 1) - 1 = j
      BY <2>1
    <3> QED BY <3>3, <3>4, <3>5 DEF p
  <2> QED BY <2>2, <2>3, <2>4 DEF ViewExact, Inv, ViewInv, Seen
<1> QED BY <1>1, InvCorrect, PTL

(* UpdateOrders() sends the events of the difference between its snapshot  *)
(* and the one before, all of them, each once, and no others.              *)
THEOREM EventsCorrect == Spec => []EventsExact
<1>1. Inv => EventsExact
  <2> SUFFICES ASSUME Inv, ~updating PROVE EventsExact
    BY DEF EventsExact
  <2> DEFINE D == DeltaOf(before, currentOrders)
             n == Len(events)
  <2>1. /\ events \in [1..n -> Events] /\ n \in Nat /\ DOMAIN events = 1..n
    BY DEF Inv, TypeOK
  <2>2. \A e \in Events : (\E i \in 1..n : events[i] = e) <=> e \in D
    BY DEF Inv, EventInv, Target
  <2>3. D \subseteq Events
    <3>1. IdsOf(before) \subseteq Ids /\ IdsOf(currentOrders) \subseteq Ids
      <4>1. ASSUME NEW s \in Seq(Orders) PROVE IdsOf(s) \subseteq Ids
        <5>1. \A i \in DOMAIN s : s[i] \in Orders
          BY <4>1, LenProperties, ElementOfSeq
        <5>2. \A i \in DOMAIN s : s[i].id \in Ids
          BY <5>1 DEF Orders
        <5> QED BY <5>2 DEF IdsOf
      <4> QED BY <4>1 DEF Inv, TypeOK
    <3> QED BY <3>1 DEF DeltaOf, Events
  <2>4. {events[i] : i \in DOMAIN events} = D
    BY <2>1, <2>2, <2>3
  <2>5. n = Cardinality(D)
    <3>1. events \in [1..n -> D]
      BY <2>1, <2>2
    <3>2. \A e \in D : \E i \in 1..n : events[i] = e
      BY <2>2, <2>3
    <3>3. \A i, j \in 1..n : events[i] = events[j] => i = j
      <4> TAKE i, j \in 1..n
      <4>1. events[i].id \in Nat /\ events[j].id \in Nat
        BY OrderIds, DeltaAssumption DEF Inv
      <4> QED BY <2>1, <4>1 DEF Inv, EventInv, Increasing
    <3> HIDE DEF D
    <3> QED BY <2>1, <3>1, <3>2, <3>3, DistinctCounted
  <2> QED BY <2>4, <2>5 DEF EventsExact
<1> QED BY <1>1, InvCorrect, PTL

==============================================================================
