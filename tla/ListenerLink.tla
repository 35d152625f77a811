----------------------------- MODULE ListenerLink -----------------------------
(***************************************************************************)
(* The links of the listener seen as Links: an end is closed when nobody   *)
(* holds it any more, the forked dispatchers that inherited it included,   *)
(* and before that it is where the last word written to it says.           *)
(***************************************************************************)
EXTENDS Listener

placeOf(hungUp, words) ==
  IF hungUp THEN "closed"
  ELSE CASE Len(words) = 0 -> "label"
         [] Len(words) = 1 -> "text"
         [] OTHER -> IF words[Len(words)] = "EXIT" THEN "bye" ELSE "serve"

clientsIn(words) == Cardinality({i \in 1 .. Len(words) : words[i] = "client"})

linkPlace == [d \in Dispatchers |-> placeOf(HungUp(d), said[d])]
linkPassed == [d \in Dispatchers |-> clientsIn(said[d])]

L == INSTANCE Links WITH place <- linkPlace, passed <- linkPassed

(* The listener is the parent Dispatcher.tla assumes, to every dispatcher  *)
(* it ever has: nothing is skipped or said out of turn, whoever dies and   *)
(* is forked meanwhile, and an end once closed for the dispatcher is never *)
(* open again, whoever inherits the others (mylsnr.cpp:42-57, 82-147).     *)
LinksKept == L!Spec
=============================================================================
