------------------------------- MODULE MCWire -------------------------------
(* A map of four by four with two walls that can be broken, for TLC. *)
EXTENDS Wire

Rows == <<<<"h", "#", "#", "H">>, <<"#", "@", "#", " ">>, <<"#", " ", "#", "@">>, <<"j", " ", "#", "J">>>>
TheFile == [c \in (0..3) \X (0..3) |-> Rows[c[1] + 1][c[2] + 1]]
=============================================================================
