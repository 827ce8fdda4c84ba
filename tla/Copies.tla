------------------------------- MODULE Copies -------------------------------
(***************************************************************************)
(* What the clients promise about their copies of the game: a copy never   *)
(* shows a version the server has not had, and each of its parts only      *)
(* moves forward, unless the whole copy is thrown away.  A copy both       *)
(* threads of a client have written at once, whose client was not yet      *)
(* subscribed when it should have been told, or that was taken from a      *)
(* reply which overtook an older event, is loose: it may fall back.        *)
(***************************************************************************)
EXTENDS Integers

CONSTANTS Client, Part

VARIABLES versions, copy, loose

vars == <<versions, copy, loose>>

Init ==
  /\ versions = [p \in Part |-> 0]
  /\ copy = [c \in Client |-> versions]
  /\ loose = {}

(* The server changes a part. *)
Advance(p) ==
  /\ versions' = [versions EXCEPT ![p] = @ + 1]
  /\ UNCHANGED <<copy, loose>>

OnlyCopyOf(c) ==
  /\ UNCHANGED versions
  /\ \A d \in Client \ {c} : copy'[d] = copy[d]
  /\ \A p \in Part : copy'[c][p] <= versions[p]

Refresh(c) ==
  /\ OnlyCopyOf(c)
  /\ \A p \in Part : copy[c][p] <= copy'[c][p]
  /\ UNCHANGED loose

Forget(c) ==
  /\ OnlyCopyOf(c)
  /\ \A p \in Part : copy'[c][p] = 0
  /\ UNCHANGED loose

FallBack(c) == OnlyCopyOf(c) /\ loose' = loose \cup {c}

Loosen == loose \subseteq loose' /\ UNCHANGED <<versions, copy>>

Next ==
  \/ Loosen
  \/ \E p \in Part : Advance(p)
  \/ \E c \in Client : Refresh(c) \/ Forget(c) \/ FallBack(c)

Spec == Init /\ [][Next]_vars
=============================================================================
