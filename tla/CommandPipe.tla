----------------------------- MODULE CommandPipe -----------------------------
(***************************************************************************)
(* What the connector promises for the commands the server sends: each is  *)
(* executed at most once, the commands of one kind in the order they were  *)
(* received, and none is dropped except all of them together, when the     *)
(* expert advisor is removed.  Commands are numbered as they are received. *)
(***************************************************************************)
EXTENDS Naturals, Sequences

CONSTANT Kinds

VARIABLES
  received,  \* the kinds of the commands received, in order
  done,      \* the numbers of the commands executed
  gone       \* the numbers of the commands dropped

Numbers == 1..Len(received)

Init == received = <<>> /\ done = {} /\ gone = {}

Receive(k) ==
  /\ received' = Append(received, k)
  /\ UNCHANGED <<done, gone>>

Execute(n) ==
  /\ n \in Numbers \ (done \cup gone)
  /\ \A m \in Numbers : m < n /\ received[m] = received[n] => m \in done \cup gone
  /\ done' = done \cup {n}
  /\ UNCHANGED <<received, gone>>

Drop ==
  /\ gone' = Numbers \ done
  /\ UNCHANGED <<received, done>>

Next == (\E k \in Kinds : Receive(k)) \/ (\E n \in Numbers : Execute(n)) \/ Drop

vars == <<received, done, gone>>

Spec == Init /\ [][Next]_vars

==============================================================================
