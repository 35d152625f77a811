--------------------------- MODULE MCConfiguration ---------------------------
(* A small instance of Configuration.tla for TLC, with the lengths at      *)
(* which the buffers of the programs end.                                  *)
EXTENDS ConfigurationInvariant

(* "edge" is the longest name whose line fits the line buffer as a         *)
(* certificate; with two of these, "cut" is a key whose line recv() cuts,  *)
(* and a text of two of "cut" is longer than the text buffer.              *)
Lengths == [n \in {"", "own", "edge", "cut"} |->
              CASE n = "" -> 0 [] n = "own" -> 20 [] n = "edge" -> 246 [] n = "cut" -> 3563]

OwnNames == [r \in {"a", "c", "k"} |-> "own"]
=============================================================================
