--------------------------- MODULE MCCaptureFlag ---------------------------
(***************************************************************************)
(* Boards for TLC.  A board is a sequence of rows of cell types; its cells *)
(* are numbered row by row from 1.  Cell 0 is the corner (0,0) of the map  *)
(* and stands for all of the border, whose cells are fixed walls that      *)
(* nobody enters.                                                          *)
(***************************************************************************)
EXTENDS CaptureFlag, TLC

h1 == "HOME_1"
h2 == "HOME_2"
f1 == "FLOOR_1"
f2 == "FLOOR_2"
j1 == "JAIL_1"
j2 == "JAIL_2"
uw == "WALL_UNFIXED"
fw == "WALL_FIXED"

Width(rows) == Len(rows[1])
CellsOf(rows) == 0..(Len(rows) * Width(rows))

TypesOf(rows) ==
  [c \in CellsOf(rows) |->
     IF c = 0 THEN fw
     ELSE rows[1 + (c - 1) \div Width(rows)][1 + ((c - 1) % Width(rows))]]

AdjOf(rows) ==
  LET w == Width(rows)
      last == Len(rows) * w
  IN [c \in CellsOf(rows) |->
        IF c = 0 THEN [d \in Dir |-> IF d \in {"UP", "LEFT"} THEN Outside ELSE 0]
        ELSE [d \in Dir |->
          CASE d = "UP" -> IF c > w THEN c - w ELSE 0
            [] d = "DOWN" -> IF c + w <= last THEN c + w ELSE 0
            [] d = "LEFT" -> IF (c - 1) % w # 0 THEN c - 1 ELSE 0
            [] d = "RIGHT" -> IF c % w # 0 THEN c + 1 ELSE 0]]

Corner == 0

(* One player on each side; jails of three cells, one of them open. *)
Duel == << <<h1, f1, f2, h2>>,
           <<j1, f1, f2, j2>>,
           <<fw, fw, fw, fw>>,
           <<j1, j1, j2, j2>> >>
DuelCell == CellsOf(Duel)
DuelType == TypesOf(Duel)
DuelAdj == AdjOf(Duel)
DuelScan == << <<8, 15, 16>>, <<5, 13, 14>> >>

(* Two players on each side.  The last two rows are jail that can be      *)
(* reached only as a prisoner; a scan has room for five.                   *)
Squads == << <<h1, f1, f2, h2>>,
             <<h1, j1, j2, h2>>,
             <<fw, fw, fw, fw>>,
             <<j1, j1, j2, j2>>,
             <<j1, j1, j2, j2>> >>
SquadsCell == CellsOf(Squads)
SquadsType == TypesOf(Squads)
SquadsAdj == AdjOf(Squads)
SquadsScan == << <<7, 15, 16, 19, 20>>, <<6, 13, 14, 17, 18>> >>

ASSUME RoomInJails == Cell \in {DuelCell, SquadsCell} => JailRoom

(* A wall of two cells between the sides, for team 2's jackhammer. *)
Tunnel == << <<h1, f1, uw, uw, f2, h2>>,
             <<h1, j1, fw, fw, j2, h2>>,
             <<j1, fw, fw, fw, fw, j2>> >>
TunnelCell == CellsOf(Tunnel)
TunnelType == TypesOf(Tunnel)
TunnelAdj == AdjOf(Tunnel)
TunnelScan == << <<11, 18>>, <<8, 13>> >>

AllowNothing == {}
AllowLost == {"lost"}
AllowAgain == {"hello again"}
AllowLostAndAgain == {"lost", "hello again"}

AtCorner == {Corner}
AtCornerOrWild == {Corner, Wild}

OnlyFlags == {"FLAG_1", "FLAG_2"}
OneHammer == {"JACKHAMMER2"}
NoObjects == {}

Sym == Permutations(Fd)
=============================================================================
