----------------------------- MODULE SocketsList -----------------------------
(***************************************************************************)
(* The bounded list of sockets of src/SocketsList.h, used by the listener  *)
(* and by the dispatcher.  A list is the set of the sockets it holds: the  *)
(* descriptors of open sockets differ, so no socket is listed twice, and   *)
(* nothing the processes do with two listed sockets depends on which one   *)
(* was listed first (the dispatcher's own unix socket, always first, is    *)
(* given its place by Dispatcher.tla).                                     *)
(***************************************************************************)
EXTENDS Naturals, FiniteSets

(* Mutant: the list is full one socket early.                              *)
IsFullEarly(list, maxSize) == Cardinality(list) + 1 >= maxSize

IsFull(list, maxSize) == Cardinality(list) = maxSize

(* A full list refuses the socket; the caller sees the FALSE of the code.  *)
putSocket(list, s, maxSize) ==
  IF IsFull(list, maxSize) THEN list ELSE list \union {s}

(* The code tests the size before it looks for the socket, as putSocket    *)
(* does: nothing is ever deleted from a full list.                         *)
delSocket(list, s, maxSize) ==
  IF IsFull(list, maxSize) THEN list ELSE list \ {s}
=============================================================================
