---------------------------- MODULE NetworkServer ----------------------------
(***************************************************************************)
(* The server's side of the sessions: NetworkServer keeps the connections  *)
(* that have not logged in (temporarySockets) and the client of each       *)
(* company (clients), and announces each new client to the plugins.        *)
(* Connections, packets and disconnections are handled one at a time on    *)
(* its executor; Stop() and the plugins run on threads of their own.       *)
(*                                                                         *)
(* External: the Stacks library, which gives the executor the events of a  *)
(* connection in order and one disconnection last; TCP, which may tell the *)
(* server late that a terminal is gone; and the terminals, each of one     *)
(* company, which connect, log in and, when they are cut off or closed,    *)
(* connect again (UltimaClient).                                           *)
(***************************************************************************)
EXTENDS Naturals, Sequences, FiniteSets, Functions

CONSTANTS
  Companies,
  Conns,      \* connections that exist at a time; they are used again
  None,
  MaxLosses   \* bound: connections the terminals lose

ASSUME ServerAssumption ==
  /\ IsFiniteSet(Conns)
  /\ None \notin Conns \cup Companies
  /\ MaxLosses \in Nat

VARIABLES
  conn,       \* "free", "up", or "down": closed by or known to the server
  company,    \* the company whose terminal opened the connection
  peer,       \* the connection a terminal holds, or None
  loggedIn,   \* the connections whose terminal has sent Login
  losses,
  pending,    \* the events of a connection the executor has not handled
  ignored,    \* the connections nobody was subscribed to when they came
  temporarySockets,
  clients,    \* company -> connection, of those registered
  removes,    \* connections with a subscription that removes the client
  announcing, \* the connection RegisterClient is about to announce
  announced,  \* how often a connection was announced
  stop,       \* how far Stop() is
  plugin,     \* "new", "subscribed" to ClientConnected, and then "ready":
              \*   given the connected clients
  known       \* the connections the plugin has learned of

terminals == <<conn, company, peer, loggedIn, losses>>
registry == <<temporarySockets, clients, removes, announcing, announced>>
plugins == <<plugin, known>>
vars == <<terminals, pending, ignored, registry, stop, plugins>>

disposed == stop >= 1       \* clientConnected
unsubscribed == stop >= 2   \* from the server's connections
Registered == Range(clients)

TypeOK ==
  /\ conn \in [Conns -> {"free", "up", "down"}]
  /\ company \in [Conns -> Companies \cup {None}]
  /\ peer \in [Companies -> Conns \cup {None}]
  /\ loggedIn \subseteq Conns
  /\ losses \in 0..MaxLosses
  /\ pending \in [Conns -> Seq({"connected", "login", "disconnected"})]
  /\ ignored \subseteq Conns
  /\ temporarySockets \subseteq Conns
  /\ DOMAIN clients \subseteq Companies /\ Registered \subseteq Conns
  /\ removes \subseteq Conns
  /\ announcing \in Conns \cup {None}
  /\ announced \in [Conns -> 0..1]
  /\ stop \in 0..3
  /\ plugin \in {"new", "subscribed", "ready"}
  /\ known \subseteq Conns

Init ==
  /\ conn = [c \in Conns |-> "free"]
  /\ company = [c \in Conns |-> None]
  /\ peer = [k \in Companies |-> None]
  /\ loggedIn = {} /\ losses = 0
  /\ pending = [c \in Conns |-> <<>>]
  /\ ignored = {}
  /\ temporarySockets = {} /\ clients = <<>>
  /\ removes = {} /\ announcing = None
  /\ announced = [c \in Conns |-> 0]
  /\ stop = 0
  /\ plugin = "new" /\ known = {}

(* The executor is told of an event by those subscribed to the connection, *)
(* of which an ignored one has none.                                       *)
Post(c, e) ==
  pending' = IF c \in ignored THEN pending ELSE [pending EXCEPT ![c] = Append(@, e)]

------------------------------------------------------------------------------
(* Terminals and connections                                               *)

Connect(k, c) ==
  /\ stop < 3
  /\ peer[k] = None /\ conn[c] = "free"
  /\ peer' = [peer EXCEPT ![k] = c]
  /\ conn' = [conn EXCEPT ![c] = "up"]
  /\ company' = [company EXCEPT ![c] = k]
  /\ Post(c, "connected")
  /\ UNCHANGED <<loggedIn, losses, ignored, registry, stop, plugins>>

SendLogin(k) ==
  LET c == peer[k]
  IN  /\ c # None /\ conn[c] = "up" /\ c \notin loggedIn
      /\ loggedIn' = loggedIn \cup {c}
      /\ Post(c, "login")
      /\ UNCHANGED <<conn, company, peer, losses, ignored, registry, stop, plugins>>

(* The terminal gives the connection up; the server is not told yet.       *)
Lose(k) ==
  /\ losses < MaxLosses /\ peer[k] # None
  /\ losses' = losses + 1
  /\ peer' = [peer EXCEPT ![k] = None]
  /\ UNCHANGED <<conn, company, loggedIn, pending, ignored, registry, stop, plugins>>

(* The terminal sees that the server has closed the connection.            *)
SeeClosed(k) ==
  /\ peer[k] # None /\ conn[peer[k]] = "down"
  /\ peer' = [peer EXCEPT ![k] = None]
  /\ UNCHANGED <<conn, company, loggedIn, losses, pending, ignored, registry, stop,
                     plugins>>

(* The server's end learns that the terminal is gone.                      *)
Detect(c) ==
  /\ conn[c] = "up" /\ c \notin Range(peer)
  /\ conn' = [conn EXCEPT ![c] = "down"]
  /\ Post(c, "disconnected")
  /\ UNCHANGED <<company, peer, loggedIn, losses, ignored, registry, stop, plugins>>

(* Both ends are done with a connection.                                   *)
Free(c) ==
  /\ conn[c] = "down" /\ pending[c] = <<>>
  /\ c \notin Range(peer) /\ announcing # c
  /\ conn' = [conn EXCEPT ![c] = "free"]
  /\ company' = [company EXCEPT ![c] = None]
  /\ loggedIn' = loggedIn \ {c}
  /\ ignored' = ignored \ {c}
  /\ removes' = removes \ {c}
  /\ announced' = [announced EXCEPT ![c] = 0]
  /\ known' = known \ {c}
  /\ UNCHANGED <<peer, losses, pending, temporarySockets, clients, announcing, stop, plugin>>

------------------------------------------------------------------------------
(* The executor                                                            *)

Handle(c, e) ==
  /\ announcing = None
  /\ pending[c] # <<>> /\ Head(pending[c]) = e

Handled(c) == pending' = [pending EXCEPT ![c] = Tail(@)]

(* OnConnected(c), unless Stop() has ended the subscription: then nobody   *)
(* subscribes to the connection's events or closes it.                     *)
OnConnected(c) ==
  /\ Handle(c, "connected")
  /\ IF unsubscribed
       THEN /\ ignored' = ignored \cup {c}
            /\ pending' = [pending EXCEPT ![c] = <<>>]
            /\ UNCHANGED temporarySockets
       ELSE /\ temporarySockets' = temporarySockets \cup {c}
            /\ Handled(c) /\ UNCHANGED ignored
  /\ UNCHANGED <<terminals, clients, removes, announcing, announced, stop, plugins>>

(* c.Close(): the disconnection is handled after what has already come.    *)
Close(c) ==
  IF conn[c] = "up"
    THEN /\ conn' = [conn EXCEPT ![c] = "down"]
         /\ pending' = [pending EXCEPT ![c] = Append(Tail(@), "disconnected")]
    ELSE Handled(c) /\ UNCHANGED conn

(* Mutant: the subscription that removes the client is also made for the   *)
(* connection that is dropped.                                             *)
DropSubscribed(c) ==
  /\ Close(c)
  /\ removes' = removes \cup {c}
  /\ UNCHANGED <<temporarySockets, clients, announcing>>

(* Login of a company that has a client.                                   *)
Drop(c) ==
  /\ Close(c)
  /\ UNCHANGED <<temporarySockets, clients, removes, announcing>>

(* Login of one that has none.                                             *)
Add(c) ==
  /\ Handled(c) /\ UNCHANGED conn
  /\ temporarySockets' = temporarySockets \ {c}
  /\ clients' = [k \in DOMAIN clients \cup {company[c]} |->
                   IF k = company[c] THEN c ELSE clients[k]]
  /\ removes' = removes \cup {c}
  /\ announcing' = c

RegisterClient(c) ==
  /\ Handle(c, "login")
  /\ IF company[c] \in DOMAIN clients THEN Drop(c) ELSE Add(c)
  /\ UNCHANGED <<company, peer, loggedIn, losses, ignored, announced, stop, plugins>>

(* Mutant: a company is announced the first time only.                     *)
AnnounceNewCompany ==
  /\ announcing # None
  /\ announcing' = None
  /\ IF disposed \/ \E c \in known : company[c] = company[announcing]
       THEN UNCHANGED <<announced, known>>
       ELSE /\ announced' = [announced EXCEPT ![announcing] = @ + 1]
            /\ known' = IF plugin = "new" THEN known ELSE known \cup {announcing}
  /\ UNCHANGED <<terminals, pending, ignored, temporarySockets, clients, removes, stop,
                 plugin>>

(* clientConnected.OnNext(), which throws when the subject is disposed.    *)
Announce ==
  /\ announcing # None
  /\ announcing' = None
  /\ IF disposed
       THEN UNCHANGED <<announced, known>>
       ELSE /\ announced' = [announced EXCEPT ![announcing] = @ + 1]
            /\ known' = IF plugin = "new" THEN known ELSE known \cup {announcing}
  /\ UNCHANGED <<terminals, pending, ignored, temporarySockets, clients, removes, stop,
                 plugin>>

(* Mutant: only a connection that is not registered is forgotten.          *)
OnDisconnectedTemporary(c) ==
  /\ Handle(c, "disconnected")
  /\ Handled(c)
  /\ temporarySockets' = temporarySockets \ {c}
  /\ UNCHANGED <<terminals, ignored, clients, removes, announcing, announced, stop,
                 plugins>>

(* The subscriptions to Disconnected of a connection.                      *)
OnDisconnected(c) ==
  /\ Handle(c, "disconnected")
  /\ Handled(c)
  /\ temporarySockets' = temporarySockets \ {c}
  /\ clients' = IF c \in removes
                  THEN [k \in DOMAIN clients \ {company[c]} |-> clients[k]]
                  ELSE clients
  /\ UNCHANGED <<terminals, ignored, removes, announcing, announced, stop, plugins>>

------------------------------------------------------------------------------
(* Other threads                                                           *)

(* Stop(): clientConnected is disposed, the subscription to connections    *)
(* is, and the server stops listening.                                     *)
Stop ==
  /\ stop < 3
  /\ stop' = stop + 1
  /\ UNCHANGED <<terminals, pending, ignored, registry, plugins>>

Subscribe ==
  /\ plugin = "new" /\ ~disposed
  /\ plugin' = "subscribed"
  /\ UNCHANGED <<terminals, pending, ignored, registry, stop, known>>

(* GetConnectedClients(), answered on the executor.                        *)
GetConnectedClients ==
  /\ plugin = "subscribed" /\ announcing = None
  /\ plugin' = "ready"
  /\ known' = known \cup Registered
  /\ UNCHANGED <<terminals, pending, ignored, registry, stop>>

Serve(c) == OnConnected(c) \/ RegisterClient(c) \/ OnDisconnected(c)
Terminal(k) == (\E c \in Conns : Connect(k, c)) \/ SendLogin(k) \/ SeeClosed(k)

Next ==
  \/ \E k \in Companies : Terminal(k) \/ Lose(k)
  \/ \E c \in Conns : Detect(c) \/ Free(c) \/ Serve(c)
  \/ Announce
  \/ Stop \/ Subscribe \/ GetConnectedClients

(* The executor handles what was posted and a terminal goes on connecting. *)
(* That TCP detects a connection that is gone in the end is an assumption. *)
Spec ==
  /\ Init /\ [][Next]_vars
  /\ WF_vars(Announce)
  /\ \A c \in Conns : WF_vars(Serve(c)) /\ WF_vars(Detect(c)) /\ WF_vars(Free(c))
  /\ \A k \in Companies : WF_vars(Terminal(k))

------------------------------------------------------------------------------
(* Properties                                                              *)

Ends(c) == \E i \in DOMAIN pending[c] : pending[c][i] = "disconnected"
Waits(c) == \E i \in DOMAIN pending[c] : pending[c][i] # "disconnected"

(* Neither table holds a connection that is gone: its disconnection is     *)
(* still to be handled, and will remove it.                                *)
NoGhosts ==
  \A c \in temporarySockets \cup Registered : conn[c] = "up" \/ Ends(c)

(* No connection is forgotten, whoever logs in as its company or is        *)
(* dropped meanwhile: one that is up is about to be handled, or is in one  *)
(* place, among the temporary ones until it logs in, registered as its     *)
(* company from then on.  Only one that came after Stop() had ended the    *)
(* subscription, and before it stopped the server, is up and nowhere.      *)
Tracked ==
  /\ temporarySockets \cap Registered = {}
  /\ \A k \in DOMAIN clients : company[clients[k]] = k
  /\ \A c \in Conns : (conn[c] = "up" /\ ~Waits(c)) =>
       IF c \in ignored
         THEN unsubscribed /\ c \notin temporarySockets \cup Registered
         ELSE IF c \in loggedIn THEN c \in Registered ELSE c \in temporarySockets

(* Every client registered before Stop() is announced, once, and no other. *)
AnnouncedOnce ==
  \A c \in Conns :
    /\ announced[c] <= IF c \in removes THEN 1 ELSE 0
    /\ (c \in Registered /\ ~disposed) => announced[c] = IF announcing = c THEN 0 ELSE 1

(* A plugin that subscribes and then asks for the connected clients knows  *)
(* of every one, whatever was registered meanwhile.                        *)
PluginMissesNone ==
  (plugin = "ready" /\ ~disposed) => Registered \ {announcing} \subseteq known

(* A terminal that is not cut off any more ends up registered with the     *)
(* connection it holds, unless the server is stopped.  Assumed, and not    *)
(* the code's doing, which has no heartbeat: the server is told in the end *)
(* of each connection the terminal has lost (WF of Detect).                *)
EventuallyRegistered ==
  \A k \in Companies :
    <>[](stop > 0 \/ (k \in DOMAIN clients /\ clients[k] = peer[k]))

==============================================================================
