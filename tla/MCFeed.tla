------------------------------- MODULE MCFeed -------------------------------
(* A small instance of Feed for TLC. *)
EXTENDS Feed, TLC

CONSTANTS c1, c2, w1

(* The first may start the game and break the wall, the second may pick up *)
(* something and win, or leave before or after.                            *)
Two == {c1, c2}
OneWall == {w1}
Habits == (c1 :> {"start", "break"}) @@ (c2 :> {"pickup", "win", "quit"})
Commands == (c1 :> 2) @@ (c2 :> 1)

(* Nobody subscribes late. *)
InTime == {}
=============================================================================
