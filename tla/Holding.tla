------------------------------- MODULE Holding -------------------------------
(***************************************************************************)
(* What a dispatcher promises about the connections whose descriptors it   *)
(* holds: each is listed, or has been dropped and is closed, with all that *)
(* were dropped, before another one is taken.  Dispatcher.tla, which lists *)
(* clients in a set, and Sockets.tla, which lists objects that share a     *)
(* number in a sequence, both keep it: Sockets is the code below what      *)
(* Dispatcher takes for one step.                                          *)
(***************************************************************************)
EXTENDS Naturals, FiniteSets

CONSTANTS Clients, Capacity

VARIABLES listed,   \* in the list that is polled
          dropped   \* out of it, with the descriptor still open

Init == listed = {} /\ dropped = {}

(* A new one enters the list.                                              *)
Take(c) ==
  /\ c \notin listed /\ dropped = {}
  /\ Cardinality(listed) < Capacity
  /\ listed' = listed \union {c}
  /\ UNCHANGED dropped

(* One leaves it, and nobody a full one.                                   *)
Drop(c) ==
  /\ c \in listed
  /\ Cardinality(listed) < Capacity
  /\ listed' = listed \ {c}
  /\ dropped' = dropped \union {c}

(* The next round closes the descriptors of all that were dropped.         *)
CloseDropped == dropped' = {} /\ UNCHANGED listed

(* The process ends.                                                       *)
End == listed' = {} /\ dropped' = {}

Next == CloseDropped \/ End \/ \E c \in Clients : Take(c) \/ Drop(c)

Spec == Init /\ [][Next]_<<listed, dropped>>

(* The process never holds more connections than the list has places for,  *)
(* those on their way out included.                                        *)
FewHeld == IsFiniteSet(listed \union dropped) /\ Cardinality(listed \union dropped) <= Capacity
=============================================================================
