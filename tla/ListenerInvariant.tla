-------------------------- MODULE ListenerInvariant --------------------------
(***************************************************************************)
(* The strengthening that makes the listener's safety inductive, in named  *)
(* parts.  TLC checks it; ListenerProofs.tla proves it.                    *)
(***************************************************************************)
EXTENDS ListenerLink

(* The accept queue: what poll reported is still there.                    *)
Queue == pending <= arrived /\ ("tcp" \in reported => pending > 0)

(* A dispatcher is born in a life that has been, and none is born before   *)
(* Boot has run; a child is unreaped until its place is taken.             *)
Unreaped(d) == dstate[d] \in {"alive", "zombie"}

Births ==
  /\ Running => life > 0
  /\ \A d \in Dispatchers :
       /\ born[d] <= life
       /\ dstate[d] = "free" => born[d] = 0
       /\ lpc = "boot" => born[d] < life
  /\ \A d, e \in Children : Unreaped(d) /\ Unreaped(e) => d = e

(* What a dispatcher has been told follows from where its connection is    *)
(* and where the listener stands.                                          *)
Told ==
  /\ lpc \in Ended \union {"boot"} => links = {}
  /\ \A d \in Dispatchers :
       /\ d \in links => link[d] = "accepted" /\ said[d] # << >>
       /\ link[d] # "accepted" => said[d] = << >>
       /\ d \in links /\ lpc # "linger" => said[d][Len(said[d])] # "EXIT"
  /\ \A d, e \in links : Len(said[d]) = 1 /\ Len(said[e]) = 1 => d = e

(* A listener that got its port shares the machine with no dispatcher of   *)
(* an earlier one that had it.                                             *)
NoForeigner ==
  /\ \A d \in Live : born[d] > 0
  /\ Running /\ lpc # "boot" => \A d \in Live : born[d] = life \/ born[d] \notin tcpBound

(* Nobody connects to, or inherits from, what has not been yet.            *)
Past ==
  /\ path <= life
  /\ \A d \in Dispatchers : target[d] <= life /\ \A e \in copies[d] : dstate[e] # "free"

(* How many clients were passed on, counted while every listener got its   *)
(* port, or is about to try.                                               *)
Ported == \A n \in 1 .. life : n \in tcpBound \/ (n = life /\ lpc = "boot")

Counted ==
  Ported =>
    IsFiniteSet(Passed) /\ Cardinality(Passed) + (IF lpc = "ssl" THEN 1 ELSE 0) <= arrived - pending

IInv == TypeOK /\ Queue /\ Births /\ Told /\ LinkContract /\ NoForeigner /\ Past /\ Counted
=============================================================================
