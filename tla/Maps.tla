-------------------------------- MODULE Maps --------------------------------
(***************************************************************************)
(* The map on its way from the server's file to a client: the server reads *)
(* the file (proto_server_parse_map), turns its map into a string for each *)
(* client that asks (convertToString), and the client reads the string     *)
(* (parseMapFromString).  Only square maps work, since both of them index  *)
(* the rows by the width somewhere.                                        *)
(***************************************************************************)
EXTENDS Integers, Sequences

CONSTANTS dimension,  \* dimension.x and dimension.y
          File        \* the character of each cell in the file

Cell == (0..(dimension - 1)) \X (0..(dimension - 1))  \* <<row, column>>
Letter == {"#", "@", " ", "h", "H", "j", "J"}
Letters == Letter \cup {"?", "newline", "nul"}
Region == {"HOME_1", "HOME_2", "JAIL_1", "JAIL_2"}
Floor == {"FLOOR_1", "FLOOR_2"}
CellType == Region \cup Floor \cup {"WALL_FIXED", "WALL_UNFIXED", "INVALID"}

ASSUME DimensionOK == dimension \in Nat \ {0}
ASSUME FileOK == File \in [Cell -> Letter]

(* What is no letter of a map becomes floor. *)
cellTypeFromChar_Blank(ch) ==
  CASE ch = "#" -> "WALL_UNFIXED" [] ch = "@" -> "WALL_FIXED"
    [] ch = "h" -> "HOME_1" [] ch = "H" -> "HOME_2"
    [] ch = "j" -> "JAIL_1" [] ch = "J" -> "JAIL_2"
    [] OTHER -> "FLOOR_1"

cellTypeFromChar(ch) ==
  CASE ch = "#" -> "WALL_UNFIXED" [] ch = "@" -> "WALL_FIXED"
    [] ch = " " -> "FLOOR_1"
    [] ch = "h" -> "HOME_1" [] ch = "H" -> "HOME_2"
    [] ch = "j" -> "JAIL_1" [] ch = "J" -> "JAIL_2"
    [] OTHER -> "INVALID"

getCellChar(type) ==
  CASE type \in Floor -> " "
    [] type = "WALL_UNFIXED" -> "#" [] type = "WALL_FIXED" -> "@"
    [] type = "HOME_1" -> "h" [] type = "HOME_2" -> "H"
    [] type = "JAIL_1" -> "j" [] type = "JAIL_2" -> "J"
    [] OTHER -> "?"

(* The side of the map a column belongs to; the middle belongs to team 1.  *)
SideOf(column) == IF 2 * column <= dimension THEN "FLOOR_1" ELSE "FLOOR_2"
Sided(type, column) == IF type = "FLOOR_1" THEN SideOf(column) ELSE type

(* The first pass over the file, and the pass that fixes the walls at the  *)
(* edges of the map and next to homes and jails.                           *)
Read(c) == Sided(cellTypeFromChar(File[c]), c[2])
Neighbours(c) ==
  {<<c[1] - 1, c[2]>>, <<c[1] + 1, c[2]>>, <<c[1], c[2] - 1>>, <<c[1], c[2] + 1>>} \cap Cell
Protected(c) == \/ {c[1], c[2]} \cap {0, dimension - 1} # {}
                \/ \E d \in Neighbours(c) : Read(d) \in Region
Parsed ==
  [c \in Cell |-> IF Read(c) = "WALL_UNFIXED" /\ Protected(c) THEN "WALL_FIXED" ELSE Read(c)]

(* A player with a jackhammer makes floor of a wall: of team 1's side if   *)
(* there is floor of that side next to it.                                 *)
Cleared(map, c) ==
  IF \E d \in Neighbours(c) : map[d] = "FLOOR_1" THEN "FLOOR_1" ELSE "FLOOR_2"

(* The string has a line for each row; the last newline is its terminator. *)
StringSize == (dimension + 1) * dimension

(* The string shows the map as it was read from the file. *)
CharAt_Cached(map, k) ==
  IF k % (dimension + 1) = dimension THEN "newline"
  ELSE getCellChar(Parsed[<<k \div (dimension + 1), k % (dimension + 1)>>])

CharAt(map, k) ==
  LET row == k \div (dimension + 1)
      column == k % (dimension + 1)
  IN IF column = dimension THEN "newline" ELSE getCellChar(map[<<row, column>>])
ToString(map) == [k \in 1..(StringSize - 1) |-> CharAt(map, k - 1)]

(* The last row is short. *)
FromString_ShortRow(string) ==
  [c \in Cell |->
     Sided(cellTypeFromChar(string[c[1] * dimension + c[2] + 1]), c[2])]

(* The client's map: string has a character for each cell at least.        *)
FromString(string) ==
  [c \in Cell |->
     Sided(cellTypeFromChar(string[c[1] * (dimension + 1) + c[2] + 1]), c[2])]
=============================================================================
