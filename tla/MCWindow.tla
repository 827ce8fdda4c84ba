------------------------------ MODULE MCWindow ------------------------------
(* A map of five cells a side and a window of two, for TLC. *)
EXTENDS Window

(* Own positions: two opposite corners, the middle, and one edge. *)
Spots == {[x |-> 0, y |-> 0], [x |-> 4, y |-> 4], [x |-> 2, y |-> 2], [x |-> 3, y |-> 0]}
=============================================================================
