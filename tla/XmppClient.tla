----------------------------- MODULE XmppClient -----------------------------
(***************************************************************************)
(* The notification service: the host's main thread initializes, starts    *)
(* and stops it; its XMPP connection, once down, is opened again after ten *)
(* seconds.  Events of the connection and the calls of the host post turns *)
(* to the service's actor, which runs them one at a time and in order.     *)
(* The host is the console program: as a service it calls Start() without  *)
(* Initialize(), which fails before it reaches this component.  Send() and *)
(* OnMessage change nothing of it and are left out.                        *)
(*                                                                         *)
(* External: agsXMPP.  Open() does not throw; its outcome is told later.   *)
(* What ends a connection raises OnError, OnClose or both.  Open() on a    *)
(* connection that is not down leaves it or replaces it silently.          *)
(***************************************************************************)
EXTENDS Naturals, Sequences

CONSTANT MaxFaults  \* bound: connections that fail or are lost

ASSUME XmppAssumption == MaxFaults \in Nat

VARIABLES
  enabled,    \* config.Enabled
  host,       \* "new", "initialized", "started", "stopping", "stopped"
  handlers,   \* the events that are subscribed to
  turns,      \* posted to the actor
  sleeping,   \* calls of Disconnect in their ten seconds
  con,        \* "down", "opening", "online", or "refused": open, but the
              \*   account was not accepted
  present,    \* the presence was sent on this connection
  faults

actor == <<handlers, turns, sleeping>>
connection == <<con, present>>
vars == <<enabled, host, actor, connection, faults>>

TypeOK ==
  /\ enabled \in BOOLEAN
  /\ host \in {"new", "initialized", "started", "stopping", "stopped"}
  /\ handlers \subseteq {"OnLogin", "OnClose", "OnError"}
  /\ turns \in Seq({"open", "login", "disconnect", "reopen", "close"})
  /\ sleeping \in Nat
  /\ con \in {"down", "opening", "online", "refused"}
  /\ present \in BOOLEAN
  /\ faults \in 0..MaxFaults

Init ==
  /\ enabled \in BOOLEAN
  /\ host = "new"
  /\ handlers = {} /\ turns = <<>> /\ sleeping = 0
  /\ con = "down" /\ present = FALSE
  /\ faults = 0

------------------------------------------------------------------------------
(* The host's main thread                                                  *)

Initialize ==
  /\ host = "new"
  /\ host' = "initialized"
  /\ UNCHANGED <<enabled, actor, connection, faults>>

Start ==
  /\ host = "initialized"
  /\ host' = "started"
  /\ turns' = IF enabled THEN Append(turns, "open") ELSE turns
  /\ UNCHANGED <<enabled, handlers, sleeping, connection, faults>>

(* Ctrl+C.  The host waits for the turn.                                   *)
Stop ==
  /\ host = "started"
  /\ host' = "stopping"
  /\ turns' = Append(turns, "close")
  /\ UNCHANGED <<enabled, handlers, sleeping, connection, faults>>

------------------------------------------------------------------------------
(* The connection                                                          *)

(* The handler of an event posts its turn, if it is subscribed.            *)
Handler(e) == IF e = "OnLogin" THEN "login" ELSE "disconnect"

Raise(events, queue) ==
  LET heard == SelectSeq(events, LAMBDA e : e \in handlers)
  IN  queue \o [i \in DOMAIN heard |-> Handler(heard[i])]

EndEvents == {<<"OnClose">>, <<"OnError">>, <<"OnError", "OnClose">>}

Online ==
  /\ con = "opening"
  /\ con' = "online"
  /\ turns' = Raise(<<"OnLogin">>, turns)
  /\ UNCHANGED <<enabled, host, handlers, sleeping, present, faults>>

(* OnAuthError, which is only logged.                                      *)
AuthError ==
  /\ con = "opening" /\ faults < MaxFaults
  /\ con' = "refused"
  /\ faults' = faults + 1
  /\ UNCHANGED <<enabled, host, actor, present>>

Ends ==
  /\ con # "down" /\ faults < MaxFaults
  /\ con' = "down" /\ present' = FALSE
  /\ faults' = faults + 1
  /\ \E events \in EndEvents : turns' = Raise(events, turns)
  /\ UNCHANGED <<enabled, host, handlers, sleeping>>

------------------------------------------------------------------------------
(* The actor                                                               *)

Turn(t) == turns # <<>> /\ Head(turns) = t

Open ==
  \/ con' = "opening" /\ present' = FALSE
  \/ con # "down" /\ UNCHANGED connection

(* Mutant: the errors of the connection are not subscribed to.             *)
FirstOpenWithoutErrors ==
  /\ Turn("open")
  /\ turns' = Tail(turns)
  /\ handlers' = {"OnLogin", "OnClose"}
  /\ Open
  /\ UNCHANGED <<enabled, host, sleeping, faults>>

(* The turn of Start().                                                    *)
FirstOpen ==
  /\ Turn("open")
  /\ turns' = Tail(turns)
  /\ handlers' = {"OnLogin", "OnClose", "OnError"}
  /\ Open
  /\ UNCHANGED <<enabled, host, sleeping, faults>>

Login ==
  /\ Turn("login")
  /\ turns' = Tail(turns)
  /\ present' = (present \/ con = "online")
  /\ UNCHANGED <<enabled, host, handlers, sleeping, con, faults>>

Disconnect ==
  /\ Turn("disconnect")
  /\ turns' = Tail(turns)
  /\ sleeping' = sleeping + 1
  /\ UNCHANGED <<enabled, host, handlers, connection, faults>>

TenSecondsPass ==
  /\ sleeping > 0
  /\ sleeping' = sleeping - 1
  /\ turns' = Append(turns, "reopen")
  /\ UNCHANGED <<enabled, host, handlers, connection, faults>>

Reopen ==
  /\ Turn("reopen")
  /\ turns' = Tail(turns)
  /\ Open
  /\ UNCHANGED <<enabled, host, handlers, sleeping, faults>>

(* The turn of Stop(): what the connection posts when it closes is handled *)
(* as any other end of it.                                                 *)
Close ==
  /\ Turn("close")
  /\ host' = "stopped"
  /\ IF enabled /\ con # "down"
       THEN /\ con' = "down" /\ present' = FALSE
            /\ turns' = Raise(<<"OnClose">>, Tail(turns))
       ELSE turns' = Tail(turns) /\ UNCHANGED connection
  /\ UNCHANGED <<enabled, handlers, sleeping, faults>>

ActorRuns == FirstOpen \/ Login \/ Disconnect \/ Reopen \/ Close

Next ==
  \/ Initialize \/ Start \/ Stop
  \/ ActorRuns \/ TenSecondsPass
  \/ Online \/ AuthError \/ Ends

(* The main thread goes through its start, the actor runs what is posted,  *)
(* sleeps end, and an attempt to connect has an outcome.                   *)
Spec ==
  /\ Init /\ [][Next]_vars
  /\ WF_vars(Initialize) /\ WF_vars(Start)
  /\ WF_vars(ActorRuns) /\ WF_vars(TenSecondsPass) /\ WF_vars(Online)

------------------------------------------------------------------------------
(* Properties                                                              *)

(* However the connection failed, was lost or was replaced by one Open()   *)
(* too many, an enabled service that is not stopped, and whose account is  *)
(* accepted, ends up online with its presence sent.                        *)
OnlineInTheEnd ==
  <>[](enabled => host \in {"stopping", "stopped"} \/ con = "refused"
                    \/ (con = "online" /\ present))

==============================================================================
