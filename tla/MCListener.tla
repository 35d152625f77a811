----------------------------- MODULE MCListener -----------------------------
(* Small instances of Listener.tla for TLC.                                *)
EXTENDS ListenerInvariant

CONSTANTS d1, d2, d3

TwoDispatchers == {d1, d2}
ThreeDispatchers == {d1, d2, d3}
=============================================================================
