------------------------------- MODULE Window -------------------------------
(***************************************************************************)
(* The window of the graphical client (src/client/uistandalone.c, the      *)
(* painting and its keys in src/client/client.c): which part of the map is *)
(* painted, for which players there are sprites, and what the two threads  *)
(* that paint do to each other.                                            *)
(*                                                                         *)
(* The main thread opens the window when its user leaves the shell and     *)
(* then serves the keys.  The event thread copies each GAME_UPDATE into    *)
(* the client's game and paints (proto_server_mt_game_update_handler).     *)
(* They share the zoom factor and the point the window is panned to;       *)
(* nothing protects them.  Moves and pickups are requests (module Feed)    *)
(* and change nothing here until the update comes.                         *)
(***************************************************************************)
EXTENDS Integers, Sequences

CONSTANTS WINDOW_SIZE,  \* cells along a side of the window, unzoomed
          dimension,    \* cells along a side of the map
          Spot,         \* where the client's own player may stand
          Player,       \* the slots of both teams
          Me            \* the client's own slot

Axis == {"x", "y"}
Coord == 0..(dimension - 1)
Point == [Axis -> Coord]
Thread == {"main", "event"}

ASSUME SizeOK == WINDOW_SIZE \in Nat \ {0} /\ WINDOW_SIZE % 2 = 0
ASSUME DimensionOK == dimension \in Nat /\ dimension >= 2 * WINDOW_SIZE
ASSUME SpotOK == Spot \subseteq Point /\ Spot # {}
ASSUME MeOK == Me \in Player

VARIABLES
  stage,    \* how far the main thread is: in the shell, opening the window, ...
  zoom,     \* 1 or 2; 0 until the window is open
  pan,      \* pan_coords_x, pan_coords_y
  \* the client's copy of the game
  position, \* where its own player is
  roster,   \* the slots with a player
  sprites,  \* the slots players_init has made a sprite for
  \* the two threads
  pc,       \* where each is in its painting
  centre,   \* player_x, player_y of ui_paintmap
  reads,    \* zoom as each has read it so far in the present painting
  dead      \* the process has crashed

shared == <<zoom, pan>>
copy == <<position, roster>>
painting == <<pc, centre, reads>>
vars == <<stage, shared, copy, sprites, painting, dead>>

TypeOK ==
  /\ stage \in {"shell", "opening", "open", "closed"}
  /\ zoom \in 0..2
  /\ stage = "open" => zoom \in 1..2
  /\ pan \in Point
  /\ position \in Point
  /\ roster \subseteq Player /\ Me \in roster
  /\ sprites \subseteq Player
  /\ pc \in [Thread -> {"idle", "paint", "paint pan", "limits", "draw", "wander"}]
  /\ centre \in [Thread -> Point]
  /\ reads \in [Thread -> Seq(0..2)]
  /\ dead \in BOOLEAN

Init ==
  /\ stage = "shell"
  /\ zoom = 0 /\ pan = [a \in Axis |-> 0]
  /\ position \in Spot
  /\ roster \in {S \in SUBSET Player : Me \in S}
  /\ sprites = {}
  /\ pc = [t \in Thread |-> "idle"]
  /\ centre = [t \in Thread |-> pan]
  /\ reads = [t \in Thread |-> <<>>]
  /\ dead = FALSE

----------------------------------------------------------------------------
(* What ui_paintmap paints.  Its nine cases are three for each axis.       *)

Half(z) == (WINDOW_SIZE \div 2) * z

(* The last cell is one too far to the right. *)
Last_Inclusive(p, r) ==
  IF p < Half(r[1]) THEN (WINDOW_SIZE - 1) * r[3]
  ELSE IF p > dimension - Half(r[2]) THEN dimension - 1
  ELSE p + Half(r[5])

(* The last window forgets the zoom factor. *)
First_Unzoomed(p, r) ==
  IF p < Half(r[1]) THEN 0
  ELSE IF p > dimension - Half(r[2]) THEN dimension - WINDOW_SIZE
  ELSE p - Half(r[1])

(* The right edge is tested against the left one. *)
First_Swapped(p, r) ==
  IF p < Half(r[1]) THEN 0
  ELSE IF p > Half(r[2]) THEN dimension - WINDOW_SIZE * r[4]
  ELSE p - Half(r[1])

(* The first and the last cell painted along an axis around coordinate p.  *)
(* The bounds are computed one after the other, from the zoom of that      *)
(* moment: r holds the five values read.                                   *)
First(p, r) ==
  IF p < Half(r[1]) THEN 0
  ELSE IF p > dimension - Half(r[2]) THEN dimension - WINDOW_SIZE * r[4]
  ELSE p - Half(r[1])
Last(p, r) ==
  IF p < Half(r[1]) THEN (WINDOW_SIZE - 1) * r[3]
  ELSE IF p > dimension - Half(r[2]) THEN dimension - 1
  ELSE p + Half(r[5]) - 1

(* One zoom factor has been read. *)
Steady(r) == \A j, k \in DOMAIN r : r[j] = r[k]

(* No check of the range. *)
Panned_Unclamped(d) == [a \in Axis |-> pan[a] + d[a]]

(* Where a press of an arrow key with shift takes the point: only the      *)
(* coordinates out of range are changed if there are any, the others stay. *)
Clamp(q) ==
  IF q < Half(zoom) THEN Half(zoom)
  ELSE IF q > dimension - Half(zoom) THEN dimension - Half(zoom) ELSE q
InRange(q) == Clamp(q) = q
Panned(d) ==
  LET q == [a \in Axis |-> pan[a] + d[a]]
  IN [a \in Axis |-> IF InRange(q[a]) /\ \E b \in Axis : ~InRange(q[b])
                     THEN pan[a] ELSE Clamp(q[a])]

Arrow == {d \in [Axis -> -1..1] : d["x"] = 0 <=> d["y"] # 0}

----------------------------------------------------------------------------
(* The main thread *)

At(t, l) == pc' = [pc EXCEPT ![t] = l]
Ready(t) == ~dead /\ stage = "open" /\ pc[t] = "idle"

(* The user leaves the shell: ui_init, and another query for the map. *)
LeaveShell ==
  /\ ~dead /\ stage = "shell"
  /\ stage' = "opening"
  /\ UNCHANGED <<shared, copy, sprites, painting, dead>>

(* ui_main_loop up to its first painting. *)
Open ==
  /\ ~dead /\ stage = "opening"
  /\ stage' = "open" /\ zoom' = 1
  /\ sprites' = roster
  /\ At("main", "paint")
  /\ UNCHANGED <<pan, copy, centre, reads, dead>>

(* No upper limit. *)
Zoomed_Unlimited(fac) == IF zoom + fac >= 1 THEN zoom + fac ELSE zoom

Zoomed(fac) == IF zoom + fac \in {1, 2} THEN zoom + fac ELSE zoom

PressZoom(fac) ==
  /\ Ready("main")
  /\ zoom' = Zoomed(fac)
  /\ At("main", "paint")
  /\ UNCHANGED <<stage, pan, copy, sprites, centre, reads, dead>>

PressPan(d) ==
  /\ Ready("main")
  /\ pan' = Panned(d)
  /\ At("main", "paint pan")
  /\ UNCHANGED <<stage, zoom, copy, sprites, centre, reads, dead>>

(* Wander calls itself and does not return: no key is served any more. *)
PressWander ==
  /\ Ready("main")
  /\ At("main", "wander")
  /\ UNCHANGED <<stage, shared, copy, sprites, centre, reads, dead>>

PressQuit ==
  /\ Ready("main")
  /\ stage' = "closed"
  /\ UNCHANGED <<shared, copy, sprites, painting, dead>>

----------------------------------------------------------------------------
(* The event thread *)

(* A GAME_UPDATE: players have moved, come and gone.  Before the window is *)
(* open the painting goes through pointers that are not set yet.           *)
GameUpdate ==
  /\ ~dead /\ stage # "closed" /\ pc["event"] = "idle"
  /\ position' \in Spot
  /\ roster' \in {S \in SUBSET Player : Me \in S}
  /\ IF stage = "open" THEN At("event", "paint") /\ UNCHANGED dead
                       ELSE dead' = TRUE /\ UNCHANGED pc
  /\ UNCHANGED <<stage, shared, sprites, centre, reads>>

----------------------------------------------------------------------------
(* ui_paintmap, in either thread *)

Paints(t, l) == ~dead /\ stage = "open" /\ pc[t] = l

(* Around the client's own player (NOT_PAN), which also ends any panning. *)
CentreOnMe(t) ==
  /\ Paints(t, "paint")
  /\ centre' = [centre EXCEPT ![t] = position]
  /\ pan' = position
  /\ reads' = [reads EXCEPT ![t] = <<>>]
  /\ At(t, "limits")
  /\ UNCHANGED <<stage, zoom, copy, sprites, dead>>

(* Around the point panned to (PAN). *)
CentreOnPan(t) ==
  /\ Paints(t, "paint pan")
  /\ centre' = [centre EXCEPT ![t] = pan]
  /\ reads' = [reads EXCEPT ![t] = <<>>]
  /\ At(t, "limits")
  /\ UNCHANGED <<stage, shared, copy, sprites, dead>>

(* The bounds.  Only the main thread changes zoom, so it reads one value.  *)
ReadZoom(t) ==
  /\ Paints(t, "limits")
  /\ \E n \in IF t = "main" THEN {5} ELSE {1} :
       reads' = [reads EXCEPT ![t] = @ \o [k \in 1..n |-> zoom]]
  /\ At(t, IF Len(reads'[t]) = 5 THEN "draw" ELSE "limits")
  /\ UNCHANGED <<stage, shared, copy, sprites, centre, dead>>

Inside(t) ==
  \A a \in Axis : /\ First(centre[t][a], reads[t]) \in Coord
                  /\ Last(centre[t][a], reads[t]) \in Coord

(* The cells are read, and the sprite of every player in the window.       *)
(* Reading outside the map may crash the process; a player without a       *)
(* sprite does if it stands in the window, which is left open here.        *)
Draw(t) ==
  /\ Paints(t, "draw")
  /\ dead' \in {FALSE} \cup {~Inside(t) \/ ~(roster \subseteq sprites)}
  /\ At(t, "idle")
  /\ UNCHANGED <<stage, shared, copy, sprites, centre, reads>>

Paint(t) == CentreOnMe(t) \/ CentreOnPan(t) \/ ReadZoom(t) \/ Draw(t)

Next ==
  \/ LeaveShell \/ Open
  \/ \E fac \in {-1, 1} : PressZoom(fac)
  \/ \E d \in Arrow : PressPan(d)
  \/ PressWander \/ PressQuit
  \/ GameUpdate
  \/ \E t \in Thread : Paint(t)

Spec == Init /\ [][Next]_vars

----------------------------------------------------------------------------
(* Properties *)

(* Whatever the threads do to each other's panning, a painting that has    *)
(* seen one zoom factor reads only cells of the map (ui_paintmap indexes   *)
(* mapBody without a check).  One that saw the factor change may not.      *)
InsideMap ==
  \A t \in Thread : pc[t] = "draw" /\ Steady(reads[t]) => Inside(t)

(* What the window is centred on is in it, also when the zoom factor has   *)
(* changed while its bounds were computed: a player sees itself.           *)
SeesItself ==
  \A t \in Thread : pc[t] = "draw" =>
    \A a \in Axis : /\ First(centre[t][a], reads[t]) <= centre[t][a]
                    /\ centre[t][a] <= Last(centre[t][a], reads[t])

(* Once its window is open, with a sprite for every player there is, a     *)
(* client only crashes when the zoom factor changes under a painting: no   *)
(* order of updates and keys takes it off the map.                         *)
StaysUp ==
  dead => \/ stage # "open"
          \/ ~(roster \subseteq sprites)
          \/ ~Steady(reads["event"])

(* A press of an arrow key moves the window by one cell at most: bringing  *)
(* the point back into range is not visible as a jump.                     *)
PanSteady ==
  [][\A d \in Arrow : PressPan(d) =>
       \A a \in Axis :
         First(pan'[a], [k \in 1..5 |-> zoom]) - First(pan[a], [k \in 1..5 |-> zoom])
           \in -1..1]_vars
=============================================================================
