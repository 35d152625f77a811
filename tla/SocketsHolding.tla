---------------------------- MODULE SocketsHolding ----------------------------
(***************************************************************************)
(* The Socket objects seen as a Holding: a connection is held while one of *)
(* the process's numbers is open on it, and the one dispatcherProcess is   *)
(* receiving counts when it has been put into the list.                    *)
(***************************************************************************)
EXTENDS Sockets

held == {c \in Conns : \E n \in Numbers : table[n] = c}
receiving == {c \in Conns : TcpSocket(c) \in local \/ SslSocket(c) \in local}

listedConns == {c \in Conns : SslSocket(c) \in ToSet(socketsList)}
droppedConns == held \ (listedConns \union receiving)

H == INSTANCE Holding WITH Clients <- Conns, Capacity <- MaxSockets - 1,
                           listed <- listedConns, dropped <- droppedConns

(* What the objects, their owners and the numbers do is what Dispatcher.tla *)
(* says of its set of clients: one enters at a time and none while a       *)
(* dropped one still has its number, only the failed one leaves, nobody a  *)
(* full list, and the next round closes what was dropped, nothing else     *)
(* (SocketsList.h:43-64, SslSocket.cpp:25-37, mydisp.cpp:237).             *)
HoldsAsPromised == H!Spec
=============================================================================
