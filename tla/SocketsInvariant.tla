--------------------------- MODULE SocketsInvariant ---------------------------
(***************************************************************************)
(* The strengthening that makes the ownership of descriptors inductive, in *)
(* named parts.  TLC checks it; SocketsProofs.tla proves it.               *)
(***************************************************************************)
EXTENDS SocketsHolding

(* A connection has one number.                                            *)
OneNumber == \A n, m \in Open : table[n] = table[m] => n = m

(* Nothing lives without a pointer to it, or dies with one.                *)
NoneLost ==
  Living = {UnixSocket} \union ToSet(socketsList) \union ToSet(reSocketsList) \union local

(* What is listed is the unix socket or a wrapped one, and not the one     *)
(* being received before it is put.                                        *)
Listed ==
  \A s \in ToSet(socketsList) \union ToSet(reSocketsList) :
    /\ s = UnixSocket \/ \E c \in Conns : s = SslSocket(c)
    /\ pc # "return" => s \notin local

(* What dispatcherProcess holds follows from where it is.                  *)
Stage ==
  /\ pc \in {"clear", "poll", "round"} => local = {}
  /\ pc = "wrap" => \E c \in Conns : local = {TcpSocket(c)}
  /\ pc = "move" => \E c \in Conns : local = {TcpSocket(c), SslSocket(c)}
  /\ pc \in {"put", "return"} => \E c \in Conns : local = {SslSocket(c)}
  /\ protected = {s \in local : pc = "move" /\ \E c \in Conns : s = TcpSocket(c)}

(* The places in the lists.                                                *)
Place ==
  /\ socketsList # << >>
  /\ pc = "clear" => at = 1
  /\ pc = "poll" => at <= Len(socketsList) + 1 /\ (at = 1 => reSocketsList = << >>)
  /\ pc \in {"round", "wrap", "move", "put", "return"} => at <= Len(reSocketsList)

IInv ==
  TypeOK /\ NumbersTrue /\ OneOwner /\ UnixFirst /\ OneNumber /\ NoneLost /\ Listed /\ Stage /\ Place

(* A round receives before it drops: up to then all it was told of is still*)
(* listed.                                                                 *)
Receiving == pc \in {"wrap", "move", "put", "return"}

ReceivesFirst ==
  /\ \A i \in 1 .. Len(reSocketsList) : reSocketsList[i] = UnixSocket => i = 1
  /\ Receiving => reSocketsList[at] = UnixSocket
  /\ pc = "poll" \/ Receiving \/ (pc = "round" /\ at = 1) =>
       ToSet(reSocketsList) \subseteq ToSet(socketsList)

(* Between two receptions no more Sockets live than the list may hold.     *)
Few ==
  pc \in {"clear", "poll", "round"} => IsFiniteSet(Living) /\ Cardinality(Living) <= MaxSockets

JInv == ReceivesFirst /\ Few
===============================================================================
