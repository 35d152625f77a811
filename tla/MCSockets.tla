------------------------------ MODULE MCSockets ------------------------------
(* Instance of Sockets: more numbers than the process may ever hold.       *)
EXTENDS SocketsInvariant

CONSTANTS a, b, c, d, e, f

(* Descriptors 0, 1 and 2 are the standard streams.                        *)
SomeNumbers == 3 .. 10

(* Connections are told apart by nothing but the numbers they get.         *)
Symmetry == Permutations(Conns)
=============================================================================
