---------------------------- MODULE MCDispatcher ----------------------------
(* Small instances of Dispatcher.tla for TLC.                              *)
EXTENDS DispatcherInvariant, TLC

CONSTANTS c1, c2, c3

OneClient == {c1}
TwoClients == {c1, c2}
ThreeClients == {c1, c2, c3}

Symmetry == Permutations(Clients)
=============================================================================
