------------------------------ MODULE Exchange ------------------------------
(***************************************************************************)
(* What a query for the map promises while its connection lasts: the       *)
(* client gets one answer, and on it every wall is broken that was broken  *)
(* before it asked, and none that has not been broken when it gets it.     *)
(***************************************************************************)
CONSTANT Wall

VARIABLES broken,  \* the walls that have been broken
          state,   \* of the connection
          before,  \* the walls that had been broken when the client asked
          shown    \* the walls that are broken on the client's map

vars == <<broken, state, before, shown>>

Init ==
  /\ broken = {} /\ state = "idle"
  /\ before = {} /\ shown = {}

Break(w) ==
  /\ broken' = broken \cup {w}
  /\ UNCHANGED <<state, before, shown>>

Query ==
  /\ state = "idle" /\ state' = "query"
  /\ before' = broken
  /\ UNCHANGED <<broken, shown>>

(* Another request, which does not touch the map. *)
AskOther ==
  /\ state = "idle" /\ state' = "other"
  /\ UNCHANGED <<broken, before, shown>>

Return ==
  /\ state \in {"query", "other"} /\ state' = "idle"
  /\ IF state = "query" THEN before \subseteq shown' /\ shown' \subseteq broken
     ELSE UNCHANGED shown
  /\ UNCHANGED <<broken, before>>

Lose ==
  /\ state' = "lost" /\ before' = {} /\ shown' = {}
  /\ UNCHANGED broken

Next == Query \/ AskOther \/ Return \/ Lose \/ \E w \in Wall : Break(w)

Spec == Init /\ [][Next]_vars
=============================================================================
