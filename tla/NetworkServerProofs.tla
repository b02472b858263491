------------------------ MODULE NetworkServerProofs ------------------------
(***************************************************************************)
(* Theorems about NetworkServer: whatever the terminals, the executor,     *)
(* Stop() and the plugins do, no connection is forgotten or outlives its   *)
(* disconnection in a table, and each client is announced once.            *)
(***************************************************************************)
EXTENDS NetworkServer, SequenceTheorems, TLAPS

------------------------------------------------------------------------------
(* The events a connection can have waiting: each once, in this order.     *)

Shapes ==
  {<<>>, <<"connected">>, <<"login">>, <<"disconnected">>,
   <<"connected", "login">>, <<"connected", "disconnected">>,
   <<"login", "disconnected">>, <<"connected", "login", "disconnected">>}

EventNames == {"connected", "login", "disconnected"}

In(e, p) == \E i \in DOMAIN p : p[i] = e

LEMMA ShapesAreSequences == Shapes \subseteq Seq(EventNames)
BY DEF Shapes, EventNames

LEMMA EmptyShape ==
  /\ <<>> \in Shapes /\ <<"connected">> \in Shapes
  /\ \A e : ~In(e, <<>>)
  /\ \A e : In(e, <<"connected">>) <=> e = "connected"
BY DEF Shapes, In

LEMMA AppendIn ==
  ASSUME NEW p \in Seq(EventNames), NEW x \in EventNames
  PROVE  \A e : In(e, Append(p, x)) <=> (In(e, p) \/ e = x)
<1>1. /\ Len(p) \in Nat /\ DOMAIN p = 1..Len(p)
      /\ DOMAIN Append(p, x) = 1..(Len(p) + 1)
      /\ \A i \in 1..Len(p) : Append(p, x)[i] = p[i]
      /\ Append(p, x)[Len(p) + 1] = x
  OBVIOUS
<1> HIDE DEF EventNames
<1>2. \A i : i \in 1..(Len(p) + 1) <=> (i \in 1..Len(p) \/ i = Len(p) + 1)
  BY <1>1
<1> QED BY <1>1, <1>2 DEF In

LEMMA AppendToOne ==
  ASSUME NEW x \in EventNames, NEW y \in EventNames
  PROVE  Append(<<x>>, y) = <<x, y>>
<1>1. <<x>> \in Seq(EventNames) /\ Len(<<x>>) = 1 /\ <<x>>[1] = x
  OBVIOUS
<1>2. /\ Append(<<x>>, y) \in Seq(EventNames) /\ Len(Append(<<x>>, y)) = 2
      /\ Append(<<x>>, y)[1] = x /\ Append(<<x>>, y)[2] = y
  BY <1>1, AppendProperties
<1>3. <<x, y>> \in Seq(EventNames) /\ Len(<<x, y>>) = 2
  OBVIOUS
<1>4. \A i \in 1..2 : Append(<<x>>, y)[i] = <<x, y>>[i]
  BY <1>2
<1> QED BY <1>2, <1>3, <1>4, SeqEqual

LEMMA AppendToTwo ==
  ASSUME NEW x \in EventNames, NEW y \in EventNames, NEW z \in EventNames
  PROVE  Append(<<x, y>>, z) = <<x, y, z>>
<1>1. <<x, y>> \in Seq(EventNames) /\ Len(<<x, y>>) = 2
  OBVIOUS
<1>2. /\ Append(<<x, y>>, z) \in Seq(EventNames) /\ Len(Append(<<x, y>>, z)) = 3
      /\ \A i \in 1..2 : Append(<<x, y>>, z)[i] = <<x, y>>[i]
      /\ Append(<<x, y>>, z)[3] = z
  BY <1>1, AppendProperties
<1>3. <<x, y, z>> \in Seq(EventNames) /\ Len(<<x, y, z>>) = 3
  OBVIOUS
<1>4. \A i \in 1..3 : Append(<<x, y>>, z)[i] = <<x, y, z>>[i]
  BY <1>2
<1> QED BY <1>2, <1>3, <1>4, SeqEqual

LEMMA AppendShape ==
  ASSUME NEW p \in Shapes, ~In("disconnected", p)
  PROVE  /\ Append(p, "disconnected") \in Shapes
         /\ ~In("login", p) => Append(p, "login") \in Shapes
<1>1. p \in {<<>>, <<"connected">>, <<"login">>, <<"connected", "login">>}
  BY DEF Shapes, In
<1>2. CASE p = <<>>
  BY <1>2 DEF Shapes
<1>3. CASE p = <<"connected">>
  <2>1. /\ Append(p, "disconnected") = <<"connected", "disconnected">>
        /\ Append(p, "login") = <<"connected", "login">>
    BY <1>3, AppendToOne DEF EventNames
  <2> QED BY <2>1 DEF Shapes
<1>4. CASE p = <<"login">>
  <2>1. Append(p, "disconnected") = <<"login", "disconnected">>
    BY <1>4, AppendToOne DEF EventNames
  <2>2. p[1] = "login" /\ 1 \in DOMAIN p
    BY <1>4
  <2> QED BY <2>1, <2>2 DEF Shapes, In
<1>5. CASE p = <<"connected", "login">>
  <2>1. Append(p, "disconnected") = <<"connected", "login", "disconnected">>
    BY <1>5, AppendToTwo DEF EventNames
  <2>2. p[2] = "login" /\ 2 \in DOMAIN p
    BY <1>5
  <2> QED BY <2>1, <2>2 DEF Shapes, In
<1> QED BY <1>1, <1>2, <1>3, <1>4, <1>5

LEMMA HeadTail ==
  ASSUME NEW p \in Shapes, p # <<>>
  PROVE  /\ Tail(p) \in Shapes
         /\ Head(p) \in EventNames /\ In(Head(p), p)
         /\ \A e : In(e, Tail(p)) <=> (In(e, p) /\ e # Head(p))
         /\ Head(p) = "login" => ~In("connected", p)
         /\ Head(p) = "disconnected" => Tail(p) = <<>>
<1>1. ASSUME NEW x \in EventNames, p = <<x>>
      PROVE  /\ Head(p) = x /\ Tail(p) = <<>>
             /\ \A e : In(e, p) <=> e = x
  BY <1>1 DEF In
<1>2. ASSUME NEW x \in EventNames, NEW y \in EventNames, p = <<x, y>>
      PROVE  /\ Head(p) = x /\ Tail(p) = <<y>>
             /\ \A e : In(e, p) <=> e \in {x, y}
             /\ \A e : In(e, <<y>>) <=> e = y
  BY <1>2 DEF In
<1>3. ASSUME p = <<"connected", "login", "disconnected">>
      PROVE  /\ Head(p) = "connected" /\ Tail(p) = <<"login", "disconnected">>
             /\ \A e : In(e, p) <=> e \in EventNames
             /\ \A e : In(e, <<"login", "disconnected">>) <=> e \in {"login", "disconnected"}
  BY <1>3 DEF In, EventNames
<1>4. CASE p \in {<<"connected">>, <<"login">>, <<"disconnected">>}
  BY <1>1, <1>4, EmptyShape DEF EventNames
<1>5. CASE p \in {<<"connected", "login">>, <<"connected", "disconnected">>,
                  <<"login", "disconnected">>}
  <2> DEFINE y == IF p = <<"connected", "login">> THEN "login" ELSE "disconnected"
             x == IF p = <<"login", "disconnected">> THEN "login" ELSE "connected"
  <2>1. p = <<x, y>> /\ x \in EventNames /\ y \in EventNames /\ x # y
    BY <1>5 DEF EventNames
  <2>2. x = "login" => y = "disconnected"
    BY <1>5
  <2>3. <<y>> \in Shapes /\ x # "disconnected"
    BY DEF Shapes
  <2> HIDE DEF x, y
  <2> QED BY <1>2, <2>1, <2>2, <2>3
<1>6. CASE p = <<"connected", "login", "disconnected">>
  BY <1>3, <1>6 DEF Shapes, EventNames
<1> QED BY <1>4, <1>5, <1>6 DEF Shapes

------------------------------------------------------------------------------
(* The inductive invariant.  A connection is live until its disconnection  *)
(* has been handled; a live one that the server has been told of is among  *)
(* the temporary ones until it is registered, and `removes' tells which.   *)
(* An ignored one has no events and is not live.                           *)

Live(c) == (conn[c] = "up" /\ c \notin ignored) \/ In("disconnected", pending[c])

Queue(c) ==
  /\ pending[c] \in Shapes
  /\ conn[c] = "free" => pending[c] = <<>> /\ c \notin removes /\ c \notin loggedIn
  /\ conn[c] # "free" => company[c] \in Companies
  /\ conn[c] = "up" => ~In("disconnected", pending[c])
  /\ (conn[c] = "down" /\ pending[c] # <<>>) => In("disconnected", pending[c])
  /\ c \in ignored =>
       unsubscribed /\ conn[c] # "free" /\ pending[c] = <<>> /\ c \notin removes

Place(c) ==
  /\ c \in temporarySockets <=>
       (Live(c) /\ ~In("connected", pending[c]) /\ c \notin removes)
  /\ c \in Registered <=> (c \in removes /\ Live(c))
  /\ c \in removes =>
       ~In("connected", pending[c]) /\ ~In("login", pending[c]) /\ c \in loggedIn
  /\ In("login", pending[c]) => c \in loggedIn
  /\ (conn[c] = "up" /\ c \in loggedIn) =>
       (In("login", pending[c]) \/ c \in removes \/ c \in ignored)

Owners == \A k \in DOMAIN clients : company[clients[k]] = k

Announcements ==
  /\ announcing # None => (announcing \in Registered /\ announced[announcing] = 0)
  /\ \A c \in Conns : c \notin removes => announced[c] = 0
  /\ \A c \in Registered : (~disposed /\ announcing # c) => announced[c] = 1

Inv ==
  /\ TypeOK
  /\ \A c \in Conns : Queue(c) /\ Place(c)
  /\ Owners /\ Announcements /\ PluginMissesNone

(* An event is only handled for a connection that is not free.             *)
LEMMA HandledInUse ==
  ASSUME Inv, NEW c \in Conns, NEW e, Handle(c, e)
  PROVE  /\ conn[c] \in {"up", "down"} /\ company[c] \in Companies
         /\ pending[c] \in Shapes /\ pending[c] # <<>> /\ Head(pending[c]) = e
         /\ announcing = None
BY DEF Inv, Queue, TypeOK, Handle

LEMMA TypeInit == Init => TypeOK
<1> SUFFICES ASSUME Init PROVE TypeOK
  OBVIOUS
<1>1. DOMAIN clients = {} /\ Registered = {}
  BY DEF Init, Registered, Range
<1>2. pending \in [Conns -> Seq({"connected", "login", "disconnected"})]
  BY DEF Init
<1> QED BY <1>1, <1>2, ServerAssumption DEF Init, TypeOK

(* What a new event makes of those of a connection.                        *)
LEMMA PostShape ==
  ASSUME TypeOK, NEW c \in Conns, pending[c] \in Shapes, ~In("disconnected", pending[c]),
         NEW e \in {"login", "disconnected"}, ~In(e, pending[c]), Post(c, e)
  PROVE  \E p \in Shapes :
           /\ pending' = [pending EXCEPT ![c] = p]
           /\ c \in ignored => p = pending[c]
           /\ \A x : In(x, p) <=> (In(x, pending[c]) \/ (c \notin ignored /\ x = e))
<1>1. CASE c \in ignored
  <2>1. pending' = [pending EXCEPT ![c] = pending[c]]
    BY <1>1 DEF Post, TypeOK
  <2> QED BY <1>1, <2>1
<1>2. CASE c \notin ignored
  <2> DEFINE p == Append(pending[c], e)
  <2>1. p \in Shapes /\ \A x : In(x, p) <=> (In(x, pending[c]) \/ x = e)
    BY AppendShape, AppendIn, ShapesAreSequences DEF EventNames
  <2>2. pending' = [pending EXCEPT ![c] = p]
    BY <1>2 DEF Post
  <2> HIDE DEF p
  <2> QED BY <1>2, <2>1, <2>2
<1> QED BY <1>1, <1>2

LEMMA ShapedTyped ==
  ASSUME TypeOK, NEW c \in Conns, NEW p \in Shapes, pending' = [pending EXCEPT ![c] = p]
  PROVE  pending' \in [Conns -> Seq({"connected", "login", "disconnected"})]
BY ShapesAreSequences DEF TypeOK, EventNames

(* What Close() leaves of the events of a connection.                      *)
LEMMA CloseShape ==
  ASSUME Inv, NEW c \in Conns, pending[c] # <<>>, Close(c)
  PROVE  \E p \in Shapes :
           /\ pending' = [pending EXCEPT ![c] = p]
           /\ conn' = [conn EXCEPT ![c] = IF @ = "up" THEN "down" ELSE @]
           /\ \A e : In(e, p) <=> \/ In(e, pending[c]) /\ e # Head(pending[c])
                                  \/ conn[c] = "up" /\ e = "disconnected"
<1>1. /\ pending[c] \in Shapes /\ conn \in [Conns -> {"free", "up", "down"}]
      /\ conn[c] = "up" => ~In("disconnected", pending[c])
  BY DEF Inv, Queue, TypeOK
<1> DEFINE t == Tail(pending[c])
<1>2. t \in Shapes /\ \A e : In(e, t) <=> (In(e, pending[c]) /\ e # Head(pending[c]))
  BY <1>1, HeadTail
<1>3. t \in Seq(EventNames) /\ "disconnected" \in EventNames
  BY <1>2, ShapesAreSequences DEF EventNames
<1> HIDE DEF t
<1>4. CASE conn[c] = "up"
  <2> DEFINE p == Append(t, "disconnected")
  <2>1. p \in Shapes
    BY <1>1, <1>2, <1>4, AppendShape
  <2>2. \A e : In(e, p) <=> (In(e, t) \/ e = "disconnected")
    BY <1>3, AppendIn
  <2>3. pending' = [pending EXCEPT ![c] = p] /\ conn' = [conn EXCEPT ![c] = "down"]
    BY <1>4 DEF Close, t
  <2> HIDE DEF p
  <2> QED BY <1>2, <1>4, <2>1, <2>2, <2>3
<1>5. CASE conn[c] # "up"
  <2>1. pending' = [pending EXCEPT ![c] = t] /\ conn' = conn
    BY <1>5 DEF Close, Handled, t
  <2>2. conn' = [conn EXCEPT ![c] = IF @ = "up" THEN "down" ELSE @]
    BY <1>1, <1>5, <2>1
  <2> QED BY <1>2, <1>5, <2>1, <2>2
<1> QED BY <1>4, <1>5

------------------------------------------------------------------------------
(* The steps.                                                              *)

(* A connection that a step leaves alone keeps its place.                  *)
LEMMA Elsewhere ==
  ASSUME NEW d, Queue(d), Place(d),
         conn'[d] = conn[d], pending'[d] = pending[d], company'[d] = company[d],
         d \in temporarySockets' <=> d \in temporarySockets,
         d \in Registered' <=> d \in Registered,
         d \in removes' <=> d \in removes,
         d \in loggedIn' <=> d \in loggedIn,
         d \in ignored' <=> d \in ignored, unsubscribed => unsubscribed'
  PROVE  Queue(d)' /\ Place(d)'
BY DEF Queue, Place, Live

LEMMA SameRegistered == ASSUME clients' = clients PROVE Registered' = Registered
BY DEF Registered

(* Steps that touch neither a connection nor the tables.                   *)
LEMMA Aside ==
  ASSUME Inv, TypeOK',
         UNCHANGED <<conn, company, loggedIn, pending, ignored, registry, known>>,
         disposed => disposed', unsubscribed => unsubscribed',
         plugin' = "ready" => plugin = "ready"
  PROVE  Inv'
<1>1. /\ UNCHANGED <<temporarySockets, clients, removes, announcing, announced>>
      /\ Registered' = Registered
  BY SameRegistered DEF registry
<1>2. ASSUME NEW c \in Conns PROVE Queue(c)' /\ Place(c)'
  BY <1>1, Elsewhere DEF Inv
<1>3. Owners'
  BY <1>1 DEF Inv, Owners
<1>4. Announcements'
  BY <1>1 DEF Inv, Announcements
<1>5. PluginMissesNone'
  BY <1>1 DEF Inv, PluginMissesNone
<1> QED BY <1>2, <1>3, <1>4, <1>5 DEF Inv

LEMMA ConnectStep ==
  ASSUME Inv, NEW k \in Companies, NEW c \in Conns, Connect(k, c)
  PROVE  Inv'
<1>1. /\ conn[c] = "free" /\ peer' = [peer EXCEPT ![k] = c]
      /\ conn' = [conn EXCEPT ![c] = "up"] /\ company' = [company EXCEPT ![c] = k]
      /\ UNCHANGED <<loggedIn, losses, ignored, registry, stop, plugins>>
  BY DEF Connect
<1>2. /\ pending[c] = <<>> /\ c \notin removes /\ c \notin loggedIn /\ ~Live(c)
      /\ c \notin ignored
  BY <1>1, EmptyShape DEF Inv, Queue, Live
<1>3. pending' = [pending EXCEPT ![c] = <<"connected">>]
  BY <1>2 DEF Connect, Post
<1>4. UNCHANGED <<temporarySockets, clients, removes, announcing, announced, plugin, known>>
  BY <1>1 DEF registry, plugins
<1>5. Registered' = Registered /\ c \notin Registered /\ c \notin temporarySockets
  BY <1>2, <1>4, SameRegistered DEF Inv, Place
<1>6. TypeOK'
  <2>1. /\ conn' \in [Conns -> {"free", "up", "down"}]
        /\ company' \in [Conns -> Companies \cup {None}]
        /\ peer' \in [Companies -> Conns \cup {None}]
    BY <1>1 DEF Inv, TypeOK
  <2>2. pending' \in [Conns -> Seq({"connected", "login", "disconnected"})]
    BY <1>3, EmptyShape, ShapedTyped DEF Inv
  <2> QED BY <1>1, <1>4, <1>5, <2>1, <2>2 DEF Inv, TypeOK
<1>7. ASSUME NEW d \in Conns PROVE Queue(d)' /\ Place(d)'
  <2>1. CASE d # c
    <3>1. conn'[d] = conn[d] /\ pending'[d] = pending[d] /\ company'[d] = company[d]
      BY <1>1, <1>3, <2>1 DEF Inv, TypeOK
    <3> QED BY <1>1, <1>4, <1>5, <3>1, Elsewhere DEF Inv, unsubscribed
  <2>2. CASE d = c
    <3>1. conn'[c] = "up" /\ company'[c] = k /\ pending'[c] = <<"connected">>
      BY <1>1, <1>3 DEF Inv, TypeOK
    <3>2. Queue(c)'
      BY <1>1, <1>2, <3>1, EmptyShape DEF Queue
    <3>3. Place(c)'
      BY <1>1, <1>2, <1>4, <1>5, <3>1, EmptyShape DEF Place
    <3> QED BY <2>2, <3>2, <3>3
  <2> QED BY <2>1, <2>2
<1>8. Owners'
  <2>1. \A j \in DOMAIN clients : clients[j] \in Conns /\ clients[j] # c
    BY <1>5 DEF Inv, TypeOK, Registered, Range
  <2> QED BY <1>1, <1>4, <2>1 DEF Inv, Owners, TypeOK
<1>9. Announcements' /\ PluginMissesNone'
  BY <1>1, <1>4, <1>5 DEF Inv, Announcements, PluginMissesNone, disposed
<1> QED BY <1>6, <1>7, <1>8, <1>9 DEF Inv

LEMMA SendLoginStep ==
  ASSUME Inv, NEW k \in Companies, SendLogin(k)
  PROVE  Inv'
<1> PICK c \in Conns : c = peer[k]
  BY DEF SendLogin, Inv, TypeOK
<1>1. /\ conn[c] = "up" /\ c \notin loggedIn
      /\ loggedIn' = loggedIn \cup {c} /\ Post(c, "login")
      /\ UNCHANGED <<conn, company, peer, losses, ignored, registry, stop, plugins>>
  BY DEF SendLogin
<1>2. /\ pending[c] \in Shapes /\ ~In("disconnected", pending[c]) /\ ~In("login", pending[c])
      /\ c \notin removes
  BY <1>1 DEF Inv, Queue, Place
<1>3. PICK p \in Shapes :
        /\ pending' = [pending EXCEPT ![c] = p]
        /\ c \in ignored => p = pending[c]
        /\ \A e : In(e, p) <=> (In(e, pending[c]) \/ (c \notin ignored /\ e = "login"))
  BY <1>1, <1>2, PostShape DEF Inv
<1>4. pending' = [pending EXCEPT ![c] = p] /\ (c \in ignored => p = <<>>)
  BY <1>3 DEF Inv, Queue
<1>5. /\ UNCHANGED <<temporarySockets, clients, removes, announcing, announced, plugin, known>>
      /\ Registered' = Registered
  BY <1>1, SameRegistered DEF registry, plugins
<1>6. TypeOK'
  <2>1. pending' \in [Conns -> Seq({"connected", "login", "disconnected"})]
    BY <1>3, <1>4, <1>1, ShapedTyped DEF Inv
  <2> QED BY <1>1, <1>5, <2>1 DEF Inv, TypeOK
<1>7. ASSUME NEW d \in Conns PROVE Queue(d)' /\ Place(d)'
  <2>1. CASE d # c
    <3>1. pending'[d] = pending[d]
      BY <1>4, <2>1 DEF Inv, TypeOK
    <3> QED BY <1>1, <1>5, <2>1, <3>1, Elsewhere DEF Inv, unsubscribed
  <2>2. CASE d = c
    <3>1. pending'[c] = p /\ conn'[c] = "up" /\ company'[c] = company[c]
      BY <1>1, <1>4 DEF Inv, TypeOK
    <3>2. Queue(c) /\ Place(c)
      BY <1>1 DEF Inv
    <3>3. Queue(c)'
      BY <1>1, <1>2, <1>3, <1>4, <1>5, <3>1, <3>2 DEF Queue, unsubscribed
    <3>4. Place(c)'
      BY <1>1, <1>2, <1>3, <1>5, <3>1, <3>2 DEF Place, Live
    <3> QED BY <2>2, <3>3, <3>4
  <2> QED BY <2>1, <2>2
<1>8. Owners' /\ Announcements' /\ PluginMissesNone'
  BY <1>1, <1>5 DEF Inv, Owners, Announcements, PluginMissesNone, disposed
<1> QED BY <1>6, <1>7, <1>8 DEF Inv

LEMMA DetectStep ==
  ASSUME Inv, NEW c \in Conns, Detect(c)
  PROVE  Inv'
<1>1. /\ conn[c] = "up" /\ conn' = [conn EXCEPT ![c] = "down"] /\ Post(c, "disconnected")
      /\ UNCHANGED <<company, peer, loggedIn, losses, ignored, registry, stop, plugins>>
  BY DEF Detect
<1>2. pending[c] \in Shapes /\ ~In("disconnected", pending[c])
  BY <1>1 DEF Inv, Queue
<1>3. PICK p \in Shapes :
        /\ pending' = [pending EXCEPT ![c] = p]
        /\ c \in ignored => p = pending[c]
        /\ \A e : In(e, p) <=> (In(e, pending[c]) \/ (c \notin ignored /\ e = "disconnected"))
  BY <1>1, <1>2, PostShape DEF Inv
<1>4. pending' = [pending EXCEPT ![c] = p] /\ (c \in ignored => p = <<>>)
  BY <1>3 DEF Inv, Queue
<1>5. /\ UNCHANGED <<temporarySockets, clients, removes, announcing, announced, plugin, known>>
      /\ Registered' = Registered
  BY <1>1, SameRegistered DEF registry, plugins
<1>6. TypeOK'
  <2>1. pending' \in [Conns -> Seq({"connected", "login", "disconnected"})]
    BY <1>3, <1>4, ShapedTyped DEF Inv
  <2>2. conn' \in [Conns -> {"free", "up", "down"}]
    BY <1>1 DEF Inv, TypeOK
  <2> QED BY <1>1, <1>5, <2>1, <2>2 DEF Inv, TypeOK
<1>7. ASSUME NEW d \in Conns PROVE Queue(d)' /\ Place(d)'
  <2>1. CASE d # c
    <3>1. pending'[d] = pending[d] /\ conn'[d] = conn[d]
      BY <1>1, <1>4, <2>1 DEF Inv, TypeOK
    <3> QED BY <1>1, <1>5, <3>1, Elsewhere DEF Inv, unsubscribed
  <2>2. CASE d = c
    <3>1. pending'[c] = p /\ conn'[c] = "down" /\ company'[c] = company[c]
      BY <1>1, <1>4 DEF Inv, TypeOK
    <3>2. Queue(c) /\ Place(c)
      BY DEF Inv
    <3>3. Queue(c)'
      BY <1>1, <1>2, <1>3, <1>4, <1>5, <3>1, <3>2 DEF Queue, unsubscribed
    <3>4. Place(c)'
      BY <1>1, <1>2, <1>3, <1>5, <3>1, <3>2 DEF Place, Live
    <3> QED BY <2>2, <3>3, <3>4
  <2> QED BY <2>1, <2>2
<1>8. Owners' /\ Announcements' /\ PluginMissesNone'
  BY <1>1, <1>5 DEF Inv, Owners, Announcements, PluginMissesNone, disposed
<1> QED BY <1>6, <1>7, <1>8 DEF Inv

LEMMA FreeStep ==
  ASSUME Inv, NEW c \in Conns, Free(c)
  PROVE  Inv'
<1>1. /\ conn[c] = "down" /\ pending[c] = <<>> /\ announcing # c
      /\ conn' = [conn EXCEPT ![c] = "free"] /\ company' = [company EXCEPT ![c] = None]
      /\ loggedIn' = loggedIn \ {c} /\ removes' = removes \ {c}
      /\ announced' = [announced EXCEPT ![c] = 0] /\ known' = known \ {c}
      /\ ignored' = ignored \ {c}
      /\ UNCHANGED <<peer, losses, pending, temporarySockets, clients, announcing, stop, plugin>>
  BY DEF Free
<1>2. ~Live(c)
  BY <1>1, EmptyShape DEF Live
<1>3. Registered' = Registered /\ c \notin Registered /\ c \notin temporarySockets
  BY <1>1, <1>2, SameRegistered DEF Inv, Place
<1>4. TypeOK'
  <2>1. /\ conn' \in [Conns -> {"free", "up", "down"}]
        /\ company' \in [Conns -> Companies \cup {None}]
        /\ announced' \in [Conns -> 0..1]
    BY <1>1 DEF Inv, TypeOK
  <2> QED BY <1>1, <1>3, <2>1 DEF Inv, TypeOK
<1>5. ASSUME NEW d \in Conns PROVE Queue(d)' /\ Place(d)'
  <2>1. CASE d # c
    <3>1. conn'[d] = conn[d] /\ company'[d] = company[d]
      BY <1>1, <2>1 DEF Inv, TypeOK
    <3> QED BY <1>1, <1>3, <2>1, <3>1, Elsewhere DEF Inv, unsubscribed
  <2>2. CASE d = c
    <3>1. /\ conn'[c] = "free" /\ pending'[c] = <<>> /\ c \notin removes' /\ c \notin loggedIn'
          /\ c \notin ignored'
      BY <1>1 DEF Inv, TypeOK
    <3>2. Queue(c)'
      BY <3>1, EmptyShape DEF Queue
    <3>3. Place(c)'
      BY <1>1, <1>3, <3>1, EmptyShape DEF Place, Live
    <3> QED BY <2>2, <3>2, <3>3
  <2> QED BY <2>1, <2>2
<1>6. Owners'
  <2>1. \A j \in DOMAIN clients : clients[j] \in Conns /\ clients[j] # c
    BY <1>3 DEF Inv, TypeOK, Registered, Range
  <2> QED BY <1>1, <2>1 DEF Inv, Owners, TypeOK
<1>7. Announcements'
  <2>1. \A d \in Conns : announced'[d] = IF d = c THEN 0 ELSE announced[d]
    BY <1>1 DEF Inv, TypeOK
  <2>2. Registered \subseteq Conns
    BY DEF Inv, TypeOK
  <2> QED BY <1>1, <1>3, <2>1, <2>2 DEF Inv, Announcements, disposed
<1>8. PluginMissesNone'
  BY <1>1, <1>3 DEF Inv, PluginMissesNone, disposed
<1> QED BY <1>4, <1>5, <1>6, <1>7, <1>8 DEF Inv

LEMMA OnConnectedStep ==
  ASSUME Inv, NEW c \in Conns, OnConnected(c)
  PROVE  Inv'
<1>1. /\ conn[c] \in {"up", "down"} /\ company[c] \in Companies
      /\ pending[c] \in Shapes /\ pending[c] # <<>> /\ Head(pending[c]) = "connected"
  BY HandledInUse DEF OnConnected
<1>2. UNCHANGED <<conn, company, peer, loggedIn, losses, clients, removes, announcing,
                  announced, stop, plugin, known>>
  BY DEF OnConnected, terminals, plugins
<1>3. /\ In("connected", pending[c]) /\ Tail(pending[c]) \in Shapes
      /\ \A e : In(e, Tail(pending[c])) <=> (In(e, pending[c]) /\ e # "connected")
  BY <1>1, HeadTail
<1>4. /\ c \notin temporarySockets /\ c \notin removes /\ c \notin Registered
      /\ Queue(c) /\ Place(c) /\ c \notin ignored
  BY <1>1, <1>3 DEF Inv, Place, Queue
<1>5. Registered' = Registered
  BY <1>2, SameRegistered
<1>6. Owners' /\ Announcements' /\ PluginMissesNone'
  BY <1>2, <1>5 DEF Inv, Owners, Announcements, PluginMissesNone, disposed
<1>7. CASE unsubscribed
  <2>1. /\ temporarySockets' = temporarySockets /\ ignored' = ignored \cup {c}
        /\ pending' = [pending EXCEPT ![c] = <<>>]
    BY <1>7 DEF OnConnected
  <2>2. TypeOK'
    <3>1. pending' \in [Conns -> Seq({"connected", "login", "disconnected"})]
      BY <2>1, EmptyShape, ShapedTyped DEF Inv
    <3> QED BY <1>2, <1>5, <2>1, <3>1 DEF Inv, TypeOK
  <2>3. ASSUME NEW d \in Conns PROVE Queue(d)' /\ Place(d)'
    <3>1. CASE d # c
      <4>1. pending'[d] = pending[d]
        BY <2>1, <3>1 DEF Inv, TypeOK
      <4> QED BY <1>2, <1>5, <2>1, <3>1, <4>1, Elsewhere DEF Inv, unsubscribed
    <3>2. CASE d = c
      <4>1. pending'[c] = <<>> /\ c \in ignored' /\ unsubscribed'
        BY <1>2, <1>7, <2>1 DEF Inv, TypeOK, unsubscribed
      <4>2. Queue(c)'
        BY <1>1, <1>2, <1>4, <4>1, EmptyShape DEF Queue
      <4>3. Place(c)'
        BY <1>2, <1>4, <1>5, <2>1, <4>1, EmptyShape DEF Place, Live
      <4> QED BY <3>2, <4>2, <4>3
    <3> QED BY <3>1, <3>2
  <2> QED BY <1>6, <2>2, <2>3 DEF Inv
<1>8. CASE ~unsubscribed
  <2>1. /\ temporarySockets' = temporarySockets \cup {c} /\ ignored' = ignored
        /\ pending' = [pending EXCEPT ![c] = Tail(@)]
    BY <1>8 DEF OnConnected, Handled
  <2>2. TypeOK'
    <3>1. pending' \in [Conns -> Seq({"connected", "login", "disconnected"})]
      BY <1>3, <2>1, ShapedTyped DEF Inv
    <3> QED BY <1>2, <1>5, <2>1, <3>1 DEF Inv, TypeOK
  <2>3. ASSUME NEW d \in Conns PROVE Queue(d)' /\ Place(d)'
    <3>1. CASE d # c
      <4>1. conn'[d] = conn[d] /\ pending'[d] = pending[d]
        BY <1>2, <2>1, <3>1 DEF Inv, TypeOK
      <4> QED BY <1>2, <1>5, <2>1, <3>1, <4>1, Elsewhere DEF Inv, unsubscribed
    <3>2. CASE d = c
      <4>1. conn'[c] = conn[c] /\ pending'[c] = Tail(pending[c]) /\ company'[c] = company[c]
        BY <1>2, <2>1 DEF Inv, TypeOK
      <4>2. conn[c] = "up" \/ In("disconnected", pending[c])
        BY <1>1, <1>4 DEF Queue
      <4>3. Queue(c)'
        BY <1>1, <1>2, <1>3, <1>4, <2>1, <4>1, <4>2 DEF Queue
      <4>4. Place(c)'
        BY <1>2, <1>3, <1>4, <1>5, <2>1, <4>1, <4>2 DEF Place, Live
      <4> QED BY <3>2, <4>3, <4>4
    <3> QED BY <3>1, <3>2
  <2> QED BY <1>6, <2>2, <2>3 DEF Inv
<1> QED BY <1>7, <1>8

LEMMA RegisterClientStep ==
  ASSUME Inv, NEW c \in Conns, RegisterClient(c)
  PROVE  Inv'
<1>1. /\ conn[c] \in {"up", "down"} /\ company[c] \in Companies
      /\ pending[c] \in Shapes /\ pending[c] # <<>> /\ Head(pending[c]) = "login"
      /\ announcing = None
  BY HandledInUse DEF RegisterClient
<1>2. UNCHANGED <<company, peer, loggedIn, losses, ignored, announced, stop, plugin, known>>
  BY DEF RegisterClient, plugins
<1>3. /\ In("login", pending[c]) /\ ~In("connected", pending[c])
      /\ Tail(pending[c]) \in Shapes
      /\ \A e : In(e, Tail(pending[c])) <=> (In(e, pending[c]) /\ e # "login")
  BY <1>1, HeadTail
<1>4. /\ Queue(c) /\ Place(c) /\ c \in loggedIn /\ c \notin removes /\ c \notin Registered
      /\ Live(c) /\ c \in temporarySockets /\ c \notin ignored
  <2>1. Queue(c) /\ Place(c) /\ c \notin ignored
    BY <1>1 DEF Inv, Queue
  <2>2. Live(c)
    BY <1>1, <2>1 DEF Queue, Live
  <2> QED BY <1>3, <2>1, <2>2 DEF Place
<1>5. CASE company[c] \in DOMAIN clients
  <2>1. Close(c) /\ UNCHANGED <<temporarySockets, clients, removes, announcing>>
    BY <1>5 DEF RegisterClient, Drop
  <2>2. PICK p \in Shapes :
          /\ pending' = [pending EXCEPT ![c] = p]
          /\ conn' = [conn EXCEPT ![c] = IF @ = "up" THEN "down" ELSE @]
          /\ \A e : In(e, p) <=> \/ In(e, pending[c]) /\ e # "login"
                                 \/ conn[c] = "up" /\ e = "disconnected"
    BY <1>1, <2>1, CloseShape
  <2>3. Registered' = Registered
    BY <2>1, SameRegistered
  <2>4. TypeOK'
    <3>1. pending' \in [Conns -> Seq({"connected", "login", "disconnected"})]
      BY <2>2, ShapedTyped DEF Inv
    <3>2. conn' \in [Conns -> {"free", "up", "down"}]
      BY <2>2 DEF Inv, TypeOK
    <3> QED BY <1>2, <2>1, <2>3, <3>1, <3>2 DEF Inv, TypeOK
  <2>5. ASSUME NEW d \in Conns PROVE Queue(d)' /\ Place(d)'
    <3>1. CASE d # c
      <4>1. conn'[d] = conn[d] /\ pending'[d] = pending[d]
        BY <2>2, <3>1 DEF Inv, TypeOK
      <4> QED BY <1>2, <2>1, <2>3, <4>1, Elsewhere DEF Inv, unsubscribed
    <3>2. CASE d = c
      <4>1. conn'[c] = "down" /\ pending'[c] = p /\ company'[c] = company[c]
        BY <1>1, <1>2, <2>2 DEF Inv, TypeOK
      <4>2. In("disconnected", p) /\ ~In("connected", p) /\ ~In("login", p)
        BY <1>3, <1>4, <2>2 DEF Live
      <4>3. Queue(c)'
        BY <1>1, <1>2, <1>4, <4>1, <4>2 DEF Queue
      <4>4. Place(c)'
        BY <1>2, <1>4, <2>1, <2>3, <4>1, <4>2 DEF Place, Live
      <4> QED BY <3>2, <4>3, <4>4
    <3> QED BY <3>1, <3>2
  <2>6. Owners' /\ Announcements' /\ PluginMissesNone'
    BY <1>2, <2>1, <2>3 DEF Inv, Owners, Announcements, PluginMissesNone, disposed
  <2> QED BY <2>4, <2>5, <2>6 DEF Inv
<1>6. CASE company[c] \notin DOMAIN clients
  <2>1. /\ pending' = [pending EXCEPT ![c] = Tail(@)] /\ conn' = conn
        /\ temporarySockets' = temporarySockets \ {c}
        /\ clients' = [k \in DOMAIN clients \cup {company[c]} |->
                         IF k = company[c] THEN c ELSE clients[k]]
        /\ removes' = removes \cup {c} /\ announcing' = c
    BY <1>6 DEF RegisterClient, Add, Handled
  <2>2. Registered' = Registered \cup {c}
    BY <1>6, <2>1 DEF Registered, Range
  <2>3. TypeOK'
    <3>1. pending' \in [Conns -> Seq({"connected", "login", "disconnected"})]
      BY <1>3, <2>1, ShapedTyped DEF Inv
    <3>2. DOMAIN clients' \subseteq Companies
      BY <1>1, <2>1 DEF Inv, TypeOK
    <3> QED BY <1>2, <2>1, <2>2, <3>1, <3>2 DEF Inv, TypeOK
  <2>4. ASSUME NEW d \in Conns PROVE Queue(d)' /\ Place(d)'
    <3>1. CASE d # c
      <4>1. conn'[d] = conn[d] /\ pending'[d] = pending[d]
        BY <2>1, <3>1 DEF Inv, TypeOK
      <4> QED BY <1>2, <2>1, <2>2, <3>1, <4>1, Elsewhere DEF Inv, unsubscribed
    <3>2. CASE d = c
      <4>1. conn'[c] = conn[c] /\ pending'[c] = Tail(pending[c]) /\ company'[c] = company[c]
        BY <1>2, <2>1 DEF Inv, TypeOK
      <4>2. Queue(c)'
        BY <1>1, <1>2, <1>3, <1>4, <4>1 DEF Queue, Live
      <4>3. Place(c)'
        BY <1>2, <1>3, <1>4, <2>1, <2>2, <4>1 DEF Place, Live
      <4> QED BY <3>2, <4>2, <4>3
    <3> QED BY <3>1, <3>2
  <2>5. Owners'
    BY <1>2, <2>1 DEF Inv, Owners
  <2>6. Announcements' /\ PluginMissesNone'
    <3>1. None \notin Conns /\ announced[c] = 0
      BY <1>4, ServerAssumption DEF Inv, Announcements
    <3>2. Announcements'
      BY <1>1, <1>2, <2>1, <2>2, <3>1, ServerAssumption DEF Inv, TypeOK, Announcements, disposed
    <3>3. PluginMissesNone'
      BY <1>1, <1>2, <2>1, <2>2, <3>1, ServerAssumption DEF Inv, TypeOK, PluginMissesNone, disposed
    <3> QED BY <3>2, <3>3
  <2> QED BY <2>3, <2>4, <2>5, <2>6 DEF Inv
<1> QED BY <1>5, <1>6

LEMMA AnnounceStep ==
  ASSUME Inv, Announce
  PROVE  Inv'
<1>1. /\ announcing # None /\ announcing' = None
      /\ UNCHANGED <<conn, company, peer, loggedIn, losses, pending, ignored,
                     temporarySockets, clients, removes, stop, plugin>>
  BY DEF Announce, terminals
<1>2. /\ announcing \in Registered /\ announcing \in Conns /\ announced[announcing] = 0
      /\ announcing \in removes
  BY <1>1 DEF Inv, Announcements, TypeOK, Place
<1>3. Registered' = Registered
  BY <1>1, SameRegistered
<1>4. ASSUME NEW d \in Conns PROVE Queue(d)' /\ Place(d)'
  BY <1>1, <1>3, Elsewhere DEF Inv, unsubscribed
<1>5. Owners'
  BY <1>1 DEF Inv, Owners
<1>6. CASE disposed
  <2>1. announced' = announced /\ known' = known
    BY <1>6 DEF Announce
  <2>2. TypeOK'
    BY <1>1, <1>3, <2>1 DEF Inv, TypeOK
  <2>3. Announcements' /\ PluginMissesNone'
    BY <1>1, <1>3, <1>6, <2>1 DEF Inv, Announcements, PluginMissesNone, disposed
  <2> QED BY <1>4, <1>5, <2>2, <2>3 DEF Inv
<1>7. CASE ~disposed
  <2>1. /\ announced' = [announced EXCEPT ![announcing] = @ + 1]
        /\ known' = IF plugin = "new" THEN known ELSE known \cup {announcing}
    BY <1>7 DEF Announce
  <2>2. announced' = [announced EXCEPT ![announcing] = 1]
    BY <1>2, <2>1
  <2>3. TypeOK'
    <3>1. announced' \in [Conns -> 0..1]
      <4>1. announced \in [Conns -> 0..1] /\ 1 \in 0..1
        BY DEF Inv, TypeOK
      <4> QED BY <2>2, <4>1
    <3> QED BY <1>1, <1>2, <1>3, <2>1, <3>1 DEF Inv, TypeOK
  <2>4. \A d \in Conns : announced'[d] = IF d = announcing THEN 1 ELSE announced[d]
    BY <2>2 DEF Inv, TypeOK
  <2>5. Announcements'
    <3>1. Registered \subseteq Conns
      BY DEF Inv, TypeOK
    <3> QED BY <1>1, <1>2, <1>3, <2>4, <3>1 DEF Inv, Announcements, disposed
  <2>6. PluginMissesNone'
    BY <1>1, <1>3, <2>1 DEF Inv, PluginMissesNone, disposed
  <2> QED BY <1>4, <1>5, <2>3, <2>5, <2>6 DEF Inv
<1> QED BY <1>6, <1>7

LEMMA OnDisconnectedStep ==
  ASSUME Inv, NEW c \in Conns, OnDisconnected(c)
  PROVE  Inv'
<1>1. /\ conn[c] \in {"up", "down"} /\ company[c] \in Companies
      /\ pending[c] \in Shapes /\ pending[c] # <<>> /\ Head(pending[c]) = "disconnected"
      /\ announcing = None
  BY HandledInUse DEF OnDisconnected
<1>2. /\ In("disconnected", pending[c]) /\ Tail(pending[c]) = <<>>
      /\ \A e : In(e, <<>>) <=> (In(e, pending[c]) /\ e # "disconnected")
  <2>1. PICK p \in Shapes : p = pending[c] /\ p # <<>> /\ Head(p) = "disconnected"
    BY <1>1
  <2>2. /\ In("disconnected", p) /\ Tail(p) = <<>>
        /\ \A e : In(e, Tail(p)) <=> (In(e, p) /\ e # "disconnected")
    BY <2>1, HeadTail, Zenon
  <2> QED BY <2>1, <2>2, Zenon
<1>3. /\ UNCHANGED <<conn, company, peer, loggedIn, losses, ignored, removes, announcing,
                     announced, stop, plugin, known>>
      /\ pending' = [pending EXCEPT ![c] = <<>>]
      /\ temporarySockets' = temporarySockets \ {c}
  BY <1>2 DEF OnDisconnected, Handled, terminals, plugins
<1>4. /\ Queue(c) /\ Place(c) /\ Live(c) /\ conn[c] = "down"
      /\ (c \in Registered <=> c \in removes) /\ c \notin ignored
  <2>1. Queue(c) /\ Place(c)
    BY DEF Inv
  <2> QED BY <1>1, <1>2, <2>1 DEF Queue, Place, Live
<1>5. /\ Registered' = Registered \ {c} /\ DOMAIN clients' \subseteq DOMAIN clients
      /\ \A k \in DOMAIN clients' : clients'[k] = clients[k]
  <2>1. CASE c \notin removes
    BY <1>4, <2>1 DEF OnDisconnected, Registered
  <2>2. CASE c \in removes
    <3>1. clients' = [k \in DOMAIN clients \ {company[c]} |-> clients[k]]
      BY <2>2 DEF OnDisconnected
    <3>2. company[c] \in DOMAIN clients /\ clients[company[c]] = c
      BY <1>4, <2>2 DEF Inv, Owners, Registered, Range
    <3>3. \A k \in DOMAIN clients : clients[k] = c => k = company[c]
      BY DEF Inv, Owners
    <3>4. \A d : d \in Registered' <=> (d \in Registered /\ d # c)
      BY <3>1, <3>2, <3>3 DEF Registered, Range
    <3> QED BY <3>1, <3>4
  <2> QED BY <2>1, <2>2
<1>6. TypeOK'
  <2>1. pending' \in [Conns -> Seq({"connected", "login", "disconnected"})]
    BY <1>3, EmptyShape, ShapedTyped DEF Inv
  <2> QED BY <1>3, <1>5, <2>1 DEF Inv, TypeOK
<1>7. ASSUME NEW d \in Conns PROVE Queue(d)' /\ Place(d)'
  <2>1. CASE d # c
    <3>1. pending'[d] = pending[d]
      BY <1>3, <2>1 DEF Inv, TypeOK
    <3> QED BY <1>3, <1>5, <2>1, <3>1, Elsewhere DEF Inv, unsubscribed
  <2>2. CASE d = c
    <3>1. pending'[c] = <<>> /\ conn'[c] = "down" /\ company'[c] = company[c]
      BY <1>3, <1>4 DEF Inv, TypeOK
    <3>2. Queue(c)'
      BY <1>1, <1>3, <1>4, <3>1, EmptyShape DEF Queue
    <3>3. Place(c)'
      BY <1>2, <1>3, <1>4, <1>5, <3>1, EmptyShape DEF Place, Live
    <3> QED BY <2>2, <3>2, <3>3
  <2> QED BY <2>1, <2>2
<1>8. Owners'
  BY <1>3, <1>5 DEF Inv, Owners
<1>9. Announcements' /\ PluginMissesNone'
  BY <1>1, <1>3, <1>5 DEF Inv, Announcements, PluginMissesNone, disposed
<1> QED BY <1>6, <1>7, <1>8, <1>9 DEF Inv

LEMMA GetConnectedClientsStep ==
  ASSUME Inv, GetConnectedClients
  PROVE  Inv'
<1>1. /\ known' = known \cup Registered /\ plugin' = "ready"
      /\ UNCHANGED <<conn, company, peer, loggedIn, losses, pending, ignored,
                     temporarySockets, clients, removes, announcing, announced, stop>>
  BY DEF GetConnectedClients, terminals, registry
<1>2. Registered' = Registered
  BY <1>1, SameRegistered
<1>3. TypeOK'
  BY <1>1, <1>2 DEF Inv, TypeOK
<1>4. ASSUME NEW d \in Conns PROVE Queue(d)' /\ Place(d)'
  BY <1>1, <1>2, Elsewhere DEF Inv, unsubscribed
<1>5. Owners' /\ Announcements'
  BY <1>1, <1>2 DEF Inv, Owners, Announcements, disposed
<1>6. PluginMissesNone'
  BY <1>1, <1>2 DEF PluginMissesNone
<1> QED BY <1>3, <1>4, <1>5, <1>6 DEF Inv

LEMMA AsideStep ==
  ASSUME Inv,
         \/ \E k \in Companies : Lose(k) \/ SeeClosed(k)
         \/ Stop \/ Subscribe \/ UNCHANGED vars
  PROVE  Inv'
<1>1. CASE \E k \in Companies : Lose(k) \/ SeeClosed(k)
  <2>1. PICK k \in Companies : Lose(k) \/ SeeClosed(k)
    BY <1>1
  <2>2. /\ UNCHANGED <<conn, company, loggedIn, pending, ignored, registry, stop, plugins>>
        /\ peer' = [peer EXCEPT ![k] = None]
        /\ losses' \in {losses} \cup (IF losses < MaxLosses THEN {losses + 1} ELSE {})
    BY <2>1 DEF Lose, SeeClosed
  <2>3. /\ peer' \in [Companies -> Conns \cup {None}] /\ losses' \in 0..MaxLosses
    BY <2>2, ServerAssumption DEF Inv, TypeOK
  <2>4. TypeOK'
    BY <2>2, <2>3, SameRegistered DEF Inv, TypeOK, registry, plugins
  <2> QED BY <2>2, <2>4, Aside DEF plugins, disposed, unsubscribed
<1>2. CASE Stop
  <2>1. UNCHANGED <<terminals, pending, ignored, registry, plugins>> /\ stop < 3 /\ stop' = stop + 1
    BY <1>2 DEF Stop
  <2>2. TypeOK' /\ (disposed => disposed') /\ (unsubscribed => unsubscribed')
    BY <2>1, SameRegistered
       DEF Inv, TypeOK, terminals, registry, plugins, disposed, unsubscribed
  <2> QED BY <2>1, <2>2, Aside DEF plugins, terminals
<1>3. CASE Subscribe
  <2>1. UNCHANGED <<terminals, pending, ignored, registry, stop, known>> /\ plugin' = "subscribed"
    BY <1>3 DEF Subscribe
  <2>2. TypeOK'
    BY <2>1, SameRegistered DEF Inv, TypeOK, terminals, registry
  <2> QED BY <2>1, <2>2, Aside DEF terminals, disposed, unsubscribed
<1>4. CASE UNCHANGED vars
  <2>1. TypeOK'
    BY <1>4, SameRegistered DEF Inv, TypeOK, vars, terminals, registry, plugins
  <2> QED BY <1>4, <2>1, Aside DEF vars, terminals, plugins, disposed, unsubscribed
<1> QED BY <1>1, <1>2, <1>3, <1>4

LEMMA InvInit == Init => Inv
<1> SUFFICES ASSUME Init PROVE Inv
  OBVIOUS
<1>1. DOMAIN clients = {} /\ Registered = {}
  BY DEF Init, Registered, Range
<1>2. ASSUME NEW c \in Conns PROVE Queue(c) /\ Place(c)
  BY <1>1, EmptyShape DEF Init, Queue, Place, Live
<1>3. Owners /\ Announcements /\ PluginMissesNone
  BY <1>1 DEF Init, Owners, Announcements, PluginMissesNone
<1> QED BY TypeInit, <1>2, <1>3 DEF Inv

LEMMA InvStep == Inv /\ [Next]_vars => Inv'
<1> SUFFICES ASSUME Inv, [Next]_vars PROVE Inv'
  OBVIOUS
<1>1. CASE \E k \in Companies : Terminal(k) \/ Lose(k)
  BY <1>1, ConnectStep, SendLoginStep, AsideStep DEF Terminal
<1>2. CASE \E c \in Conns : Detect(c) \/ Free(c) \/ Serve(c)
  BY <1>2, DetectStep, FreeStep, OnConnectedStep, RegisterClientStep, OnDisconnectedStep
     DEF Serve
<1>3. CASE Announce
  BY <1>3, AnnounceStep
<1>4. CASE GetConnectedClients
  BY <1>4, GetConnectedClientsStep
<1>5. CASE Stop \/ Subscribe \/ UNCHANGED vars
  BY <1>5, AsideStep
<1> QED BY <1>1, <1>2, <1>3, <1>4, <1>5 DEF Next

------------------------------------------------------------------------------
(* The theorems.                                                           *)

LEMMA InvCorrect == Spec => []Inv
<1> QED BY InvInit, InvStep, PTL DEF Spec

(* The tables only hold connections and companies there are, and the       *)
(* events of a connection are those of its life.                           *)
THEOREM TypeCorrect == Spec => []TypeOK
<1>1. Inv => TypeOK
  BY DEF Inv
<1> QED BY <1>1, InvCorrect, PTL

(* What is in a table is connected, or its disconnection is still to come. *)
THEOREM GhostsCorrect == Spec => []NoGhosts
<1>1. Inv => NoGhosts
  BY DEF Inv, NoGhosts, TypeOK, Place, Live, In, Ends
<1> QED BY <1>1, InvCorrect, PTL

(* A connection that is up and has nothing waiting is in the one table     *)
(* its terminal's login says, registered as its own company, or came when  *)
(* Stop() had ended the subscription.                                      *)
THEOREM TrackedCorrect == Spec => []Tracked
<1>1. Inv => Tracked
  <2> SUFFICES ASSUME Inv PROVE Tracked
    OBVIOUS
  <2>1. temporarySockets \cap Registered = {}
    BY DEF Inv, TypeOK, Place
  <2>2. ASSUME NEW c \in Conns, conn[c] = "up", ~Waits(c)
        PROVE  IF c \in ignored
                 THEN unsubscribed /\ c \notin temporarySockets \cup Registered
                 ELSE IF c \in loggedIn THEN c \in Registered ELSE c \in temporarySockets
    <3>1. ~In("connected", pending[c]) /\ ~In("login", pending[c])
      BY <2>2 DEF Waits, In
    <3>2. ~In("disconnected", pending[c])
      BY <2>2 DEF Inv, Queue
    <3> QED BY <2>2, <3>1, <3>2 DEF Inv, Queue, Place, Live
  <2> QED BY <2>1, <2>2 DEF Tracked, Inv, Owners
<1> QED BY <1>1, InvCorrect, PTL

(* RegisterClient announces each client it registers before Stop(), once,  *)
(* and never one that it drops.                                            *)
THEOREM AnnouncedCorrect == Spec => []AnnouncedOnce
<1>1. Inv => AnnouncedOnce
  <2> SUFFICES ASSUME Inv, NEW c \in Conns
               PROVE  /\ announced[c] <= IF c \in removes THEN 1 ELSE 0
                      /\ (c \in Registered /\ ~disposed) =>
                           announced[c] = IF announcing = c THEN 0 ELSE 1
    BY DEF AnnouncedOnce
  <2>1. announced[c] \in 0..1 /\ c # None
    BY ServerAssumption DEF Inv, TypeOK
  <2> QED BY <2>1 DEF Inv, Announcements
<1> QED BY <1>1, InvCorrect, PTL

(* A plugin that subscribes first and asks for the clients then learns of  *)
(* every one registered, whatever happens in between.                      *)
THEOREM PluginCorrect == Spec => []PluginMissesNone
<1>1. Inv => PluginMissesNone
  BY DEF Inv
<1> QED BY <1>1, InvCorrect, PTL

==============================================================================
