------------------------------- MODULE Service -------------------------------
(***************************************************************************)
(* What one dispatcher promises about the clients passed to it, whatever   *)
(* its sockets do: nobody is served before the dispatcher is open, it      *)
(* serves at most Capacity clients at a time, it turns a client away only  *)
(* when it serves that many, it may lose one client on the way, at the     *)
(* moment it opens, and nobody comes back once it is over.                 *)
(***************************************************************************)
EXTENDS Naturals, FiniteSets

CONSTANTS Clients, Capacity

VARIABLES state, phase

Served == {c \in Clients : phase[c] = "served"}

Init ==
  /\ state = "starting"
  /\ phase = [c \in Clients |-> "new"]

Pass(c) ==
  /\ state # "stopped"
  /\ phase[c] = "new"
  /\ phase' = [phase EXCEPT ![c] = "waiting"]
  /\ UNCHANGED state

Open ==
  /\ state = "starting"
  /\ state' = "open"
  /\ \/ UNCHANGED phase
     \/ \E c \in Clients : phase[c] = "waiting" /\ phase' = [phase EXCEPT ![c] = "over"]

Take(c) ==
  /\ state = "open"
  /\ phase[c] = "waiting"
  /\ Cardinality(Served) < Capacity
  /\ phase' = [phase EXCEPT ![c] = "served"]
  /\ UNCHANGED state

TurnAway(c) ==
  /\ state = "open"
  /\ phase[c] = "waiting"
  /\ Cardinality(Served) = Capacity
  /\ phase' = [phase EXCEPT ![c] = "over"]
  /\ UNCHANGED state

Leave(c) ==
  /\ state = "open"
  /\ phase[c] = "served"
  /\ phase' = [phase EXCEPT ![c] = "over"]
  /\ UNCHANGED state

Stop ==
  /\ state # "stopped"
  /\ state' = "stopped"
  /\ phase' = [c \in Clients |-> IF phase[c] = "new" THEN "new" ELSE "over"]

Next ==
  \/ Open \/ Stop
  \/ \E c \in Clients : Pass(c) \/ Take(c) \/ TurnAway(c) \/ Leave(c)

Spec == Init /\ [][Next]_<<state, phase>>
=============================================================================
