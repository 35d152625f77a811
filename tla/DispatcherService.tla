-------------------------- MODULE DispatcherService --------------------------
(***************************************************************************)
(* The dispatcher seen as a Service: the abstract state of a client is     *)
(* where its descriptor is, the state of the service is whether the SSL    *)
(* context exists.  A crash maps to no state of the service.  And seen as  *)
(* a Holding: which descriptors the process has, the stream left out.      *)
(***************************************************************************)
EXTENDS Dispatcher

serviceState ==
  CASE pc = "crashed" -> "crashed"
    [] pc = "exited" -> "stopped"
    [] OTHER -> IF sslGlobalCtx THEN "open" ELSE "starting"

servicePhase ==
  [c \in Clients |-> IF srv[c] = "none" THEN "new"
                     ELSE IF InFlight(c) # {} THEN "waiting"
                     ELSE IF c \in socketsList THEN "served"
                     ELSE "over"]

S == INSTANCE Service WITH Capacity <- MaxSockets - 1,
                           state <- serviceState, phase <- servicePhase

(* The dispatcher keeps the promise of Service.tla: order of opening,      *)
(* capacity, refusal only when full, at most one client lost, on opening   *)
(* (mydisp.cpp:115-139, SocketsList.h:43-60).                              *)
IsService == S!Spec

listedClients == socketsList \intersect Clients
droppedClients == {c \in Clients : srv[c] = "open" /\ InFlight(c) = {} /\ c \notin socketsList}

H == INSTANCE Holding WITH Capacity <- MaxSockets - 1,
                           listed <- listedClients, dropped <- droppedClients

(* A connection the process holds is listed or was dropped in the round    *)
(* before; those dropped are closed together, before another is taken      *)
(* (mydisp.cpp:237, 256-260).                                              *)
HoldsAsPromised == H!Spec
=============================================================================
