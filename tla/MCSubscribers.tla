--------------------------- MODULE MCSubscribers ---------------------------
(* Small instances of Subscribers for TLC. *)
EXTENDS Subscribers, TLC

Sym == {p @@ q : p \in Permutations(Client), q \in Permutations(Fd)}

(* Once a connection has been hit nothing is promised: only a broadcast    *)
(* that the removal of an entry has overlapped is followed to its end.     *)
SpoiledStops ==
  spoiled => /\ lock # NoFd /\ incoming = NoFd
             /\ \A t \in Client \cup {Stray} : t = lock \/ pc[t] \in {"away", "lost"}
=============================================================================
