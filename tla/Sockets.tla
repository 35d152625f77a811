------------------------------- MODULE Sockets -------------------------------
(***************************************************************************)
(* The Socket objects of a dispatcher and the descriptor numbers they      *)
(* stand for.  Dispatcher.tla takes a listed socket for the client it      *)
(* serves; the code has a number in an object that several shared pointers *)
(* own, closes the number when the last of them goes (Socket.cpp), wraps   *)
(* one object in another with the same number (SslSocket.cpp) and finds a  *)
(* socket in the list by its number (SocketsList.h).  A step here is one   *)
(* of these; what a handler says to its client is left out.                *)
(***************************************************************************)
EXTENDS Naturals, FiniteSets, SequencesExt

CONSTANTS
  Conns,        \* clients' connections; one that was closed may come again
  MaxSockets,   \* MAX_SOCKETS of mydisp.cpp
  Numbers       \* descriptor numbers the kernel may give

Unix == "unix"
Free == "free"

ASSUME SocketsAssumption ==
  /\ MaxSockets \in Nat \ {0}
  /\ Numbers \subseteq Nat /\ Numbers # {}
  /\ {Unix, Free} \intersect Conns = {}

VARIABLES
  table,          \* what each number is open on
  descriptor,     \* the number of each living Socket
  protected,      \* those whose destructor does not close
  socketsList,    \* the lists hold shared pointers, in order
  reSocketsList,
  local,          \* the Sockets dispatcherProcess has pointers to
  pc,
  at              \* the place in the list being gone through

vars == <<table, descriptor, protected, socketsList, reSocketsList, local, pc, at>>

UnixSocket == <<Unix, "UNIX">>
TcpSocket(c) == <<c, "TCP">>
SslSocket(c) == <<c, "SSL">>
Objects == {UnixSocket} \union {TcpSocket(c) : c \in Conns} \union {SslSocket(c) : c \in Conns}

Living == DOMAIN descriptor
Open == {n \in Numbers : table[n] # Free}

TypeOK ==
  /\ table \in [Numbers -> Conns \union {Unix, Free}]
  /\ Living \subseteq Objects
  /\ \A s \in Living : descriptor[s] \in Numbers
  /\ protected \subseteq Living
  /\ socketsList \in Seq(Living) /\ Len(socketsList) <= MaxSockets
  /\ reSocketsList \in Seq(Living) /\ Len(reSocketsList) <= MaxSockets
  /\ local \subseteq Living
  /\ pc \in {"clear", "poll", "round", "wrap", "move", "put", "return"}
  /\ at \in 1 .. MaxSockets + 1

(* Connected to the parent, with the unix socket in the list.              *)
Init ==
  /\ table = [n \in Numbers |-> IF n = Min(Numbers) THEN Unix ELSE Free]
  /\ descriptor = [s \in {UnixSocket} |-> Min(Numbers)]
  /\ protected = {}
  /\ socketsList = <<UnixSocket>>
  /\ reSocketsList = << >>
  /\ local = {}
  /\ pc = "clear"
  /\ at = 1

-------------------------------------------------------------------------------
(* SocketsList.h on sequences.                                             *)

putSocket(list, s) == IF Len(list) = MaxSockets THEN list ELSE Append(list, s)

Find(list, s) == SelectInSeq(list, LAMBDA o : descriptor[o] = descriptor[s])

(* Mutant: the iterator has moved on when it erases.                       *)
delSocketNext(list, s) ==
  IF Len(list) = MaxSockets \/ Find(list, s) = 0 \/ Find(list, s) = Len(list)
  THEN list ELSE RemoveAt(list, Find(list, s) + 1)

delSocket(list, s) ==
  IF Len(list) = MaxSockets \/ Find(list, s) = 0
  THEN list ELSE RemoveAt(list, Find(list, s))

(* The pointers that are left: of main() and the factory, of the lists, of *)
(* dispatcherProcess.  A Socket without one dies, and closes its number if *)
(* that is not protected (~Socket; ~SslSocket leaves the number to it,     *)
(* since its BIO is a BIO_NOCLOSE one).                                    *)
Release(reList, locals) ==
  LET gone == Living \ ({UnixSocket} \union ToSet(socketsList) \union ToSet(reList) \union locals)
  IN  /\ descriptor' = [s \in Living \ gone |-> descriptor[s]]
      /\ table' = [n \in Numbers |->
                     IF \E s \in gone \ protected : descriptor[s] = n THEN Free ELSE table[n]]
      /\ protected' = protected \ gone
      /\ reSocketsList' = reList
      /\ local' = locals

-------------------------------------------------------------------------------
(* The loop of main().                                                     *)

(* Mutant: the list of the round before is not cleared.                    *)
ClearForgotten ==
  /\ pc = "clear"
  /\ pc' = "poll"
  /\ UNCHANGED <<table, descriptor, protected, socketsList, reSocketsList, local, at>>

Clear ==
  /\ pc = "clear"
  /\ Release(<< >>, local)
  /\ pc' = "poll"
  /\ UNCHANGED <<socketsList, at>>

(* pollSockets puts what poll() reports into the list, socket by socket, in *)
(* the order of the list it polled; any of them may be reported.           *)
pollSockets ==
  /\ pc = "poll" /\ at <= Len(socketsList)
  /\ reSocketsList' \in {reSocketsList, putSocket(reSocketsList, socketsList[at])}
  /\ at' = at + 1
  /\ UNCHANGED <<table, descriptor, protected, socketsList, local, pc>>

Polled ==
  /\ pc = "poll" /\ at > Len(socketsList)
  /\ pc' = IF reSocketsList = << >> THEN "clear" ELSE "round"
  /\ at' = 1
  /\ UNCHANGED <<table, descriptor, protected, socketsList, reSocketsList, local>>

Handled ==
  IF at = Len(reSocketsList) THEN pc' = "clear" /\ at' = 1 ELSE pc' = "round" /\ at' = at + 1

Handling(s) == pc = "round" /\ reSocketsList[at] = s

-------------------------------------------------------------------------------
(* dispatcherProcess.                                                      *)

(* The kernel gives the received connection the lowest free number.        *)
Receive(c) ==
  /\ Handling(UnixSocket)
  /\ c \notin {table[n] : n \in Open}
  /\ Open # Numbers
  /\ LET n == Min(Numbers \ Open)
     IN  /\ table' = [table EXCEPT ![n] = c]
         /\ descriptor' = [s \in Living \union {TcpSocket(c)} |->
                             IF s = TcpSocket(c) THEN n ELSE descriptor[s]]
  /\ local' = {TcpSocket(c)}
  /\ pc' = "wrap"
  /\ UNCHANGED <<protected, socketsList, reSocketsList, at>>

(* A message that brings no connection.                                    *)
ReceiveOther ==
  /\ Handling(UnixSocket)
  /\ Handled
  /\ UNCHANGED <<table, descriptor, protected, socketsList, reSocketsList, local>>

Wrapped(c) ==
  /\ pc = "wrap" /\ local = {TcpSocket(c)}
  /\ descriptor' = [s \in Living \union {SslSocket(c)} |->
                      IF s = SslSocket(c) THEN descriptor[TcpSocket(c)] ELSE descriptor[s]]
  /\ local' = local \union {SslSocket(c)}
  /\ pc' = "move"
  /\ UNCHANGED <<table, socketsList, reSocketsList, at>>

(* Mutant: SslSocket() does not protect the number.                        *)
WrapUnprotected(c) == Wrapped(c) /\ UNCHANGED protected

(* Mutant: it protects the number in both.                                 *)
WrapProtectsBoth(c) == Wrapped(c) /\ protected' = protected \union {TcpSocket(c), SslSocket(c)}

(* SslSocket(Socket::Ptr): the same number in another Socket.              *)
Wrap(c) == Wrapped(c) /\ protected' = protected \union {TcpSocket(c)}

(* The pointer moved into the constructor goes.                            *)
Move(c) ==
  /\ pc = "move" /\ SslSocket(c) \in local
  /\ Release(reSocketsList, {SslSocket(c)})
  /\ pc' = "put"
  /\ UNCHANGED <<socketsList, at>>

Put(c) ==
  /\ pc = "put" /\ SslSocket(c) \in local
  /\ socketsList' = putSocket(socketsList, SslSocket(c))
  /\ pc' = "return"
  /\ UNCHANGED <<table, descriptor, protected, reSocketsList, local, at>>

Return ==
  /\ pc = "return"
  /\ Release(reSocketsList, {})
  /\ Handled
  /\ UNCHANGED socketsList

-------------------------------------------------------------------------------
(* processClient: the client is kept, or dropped from the list.            *)

Keep(c) ==
  /\ Handling(SslSocket(c))
  /\ Handled
  /\ UNCHANGED <<table, descriptor, protected, socketsList, reSocketsList, local>>

Drop(c) ==
  /\ Handling(SslSocket(c))
  /\ socketsList' = delSocket(socketsList, SslSocket(c))
  /\ Handled
  /\ UNCHANGED <<table, descriptor, protected, reSocketsList, local>>

-------------------------------------------------------------------------------
Next ==
  \/ Clear \/ pollSockets \/ Polled \/ ReceiveOther \/ Return
  \/ \E c \in Conns : Receive(c) \/ Wrap(c) \/ Move(c) \/ Put(c) \/ Keep(c) \/ Drop(c)

Spec == Init /\ [][Next]_vars

-------------------------------------------------------------------------------
(* The number in a living Socket is open, and on the connection the Socket *)
(* was made for: no handler reads, writes or polls a number that has been  *)
(* closed or given to another client since (Socket.cpp:24, Socket.h:102);  *)
(* and the list has no number twice, so that looking for one finds its own *)
(* Socket (SocketsList.h:53).                                              *)
NumbersTrue ==
  /\ \A s \in Living : table[descriptor[s]] = s[1]
  /\ \A i, j \in 1 .. Len(socketsList) :
       descriptor[socketsList[i]] = descriptor[socketsList[j]] => i = j

(* Every open number will be closed, and once: one living Socket, and no   *)
(* second, closes it when it dies, also while the received Socket and the  *)
(* one that wraps it share it (SslSocket.cpp:36).                          *)
OneOwner ==
  \A n \in Open :
    \E s \in Living \ protected :
      /\ descriptor[s] = n
      /\ \A o \in Living \ protected : descriptor[o] = n => o = s

(* However clients come, leave and are refused, the process holds at most  *)
(* the listed connections and the one being received: those dropped in a   *)
(* round are closed before the next can take one more (mydisp.cpp:237).    *)
FewNumbers == Cardinality(Open) <= MaxSockets + 1

(* The unix socket stays first in the list and in what is reported, so     *)
(* that a round takes a new client before it drops any (mydisp.cpp:227).   *)
UnixFirst ==
  /\ Head(socketsList) = UnixSocket
  /\ UnixSocket \in ToSet(reSocketsList) => reSocketsList[1] = UnixSocket

(* Only the Socket whose handler failed leaves the list, although it is    *)
(* looked for by its number (SocketsList.h:49).                            *)
DropsItsOwn ==
  [][ToSet(socketsList) \subseteq
       ToSet(socketsList') \union (IF pc = "round" THEN {reSocketsList[at]} ELSE {})]_vars
=============================================================================
