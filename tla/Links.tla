-------------------------------- MODULE Links --------------------------------
(***************************************************************************)
(* The parent's ends of the unix sockets that join it to its dispatchers:  *)
(* what Dispatcher.tla lets its parent do, for several dispatchers and     *)
(* without them.  On each the label is written, then the text of the       *)
(* options, then clients, then EXIT; the end may be closed at any time and *)
(* is not opened again.  One step may move several ends.                   *)
(***************************************************************************)
EXTENDS Naturals

CONSTANT Dispatchers

VARIABLES place,  \* where the parent's end is
          passed  \* how many clients have been passed

Places == {"label", "text", "serve", "bye", "closed"}

Init ==
  /\ place = [d \in Dispatchers |-> "label"]
  /\ passed = [d \in Dispatchers |-> 0]

Moves(d, from, to) == place[d] = from /\ place'[d] = to

Label(d) == Moves(d, "label", "text") /\ passed'[d] = passed[d]

Text(d) == Moves(d, "text", "serve") /\ passed'[d] = passed[d]

Pass(d) == Moves(d, "serve", "serve") /\ passed'[d] = passed[d] + 1

Bye(d) == Moves(d, "serve", "bye") /\ passed'[d] = passed[d]

(* A client or EXIT may be the last word before the end is closed.         *)
Close(d) ==
  /\ place[d] # "closed" /\ place'[d] = "closed"
  /\ \/ passed'[d] = passed[d]
     \/ place[d] = "serve" /\ passed'[d] = passed[d] + 1

Rest(d) == place'[d] = place[d] /\ passed'[d] = passed[d]

Next ==
  /\ place' \in [Dispatchers -> Places] /\ passed' \in [Dispatchers -> Nat]
  /\ \A d \in Dispatchers : Label(d) \/ Text(d) \/ Pass(d) \/ Bye(d) \/ Close(d) \/ Rest(d)

Spec == Init /\ [][Next]_<<place, passed>>
=============================================================================
