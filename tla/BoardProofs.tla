---------------------------- MODULE BoardProofs ----------------------------
(***************************************************************************)
(* What holds of the board for every map parse_map can leave: the walls    *)
(* that are broken, the prisoners, the jails and the flags.                *)
(***************************************************************************)
EXTENDS CaptureFlagProofs

----------------------------------------------------------------------------
(* The steps, by what they do to one slot *)

(* While GameLock is held the only requests that get through are new       *)
(* connections and the checks at the head of start_game.                   *)
LEMMA HeldRequest ==
  ASSUME Basic, phase # "idle", NEW f \in Fd, Request(f)
  PROVE  UNCHANGED <<playerID, cellposition, canMove, isHost, inventory, occupied,
                     cellType, objPos, status, lock, phase, index, target, raced>>
<1>1. lock \in Fd /\ lock # Free
  BY FdOK DEF Basic, HolderOK
<1>2. Connect(f) \/ StartCheck(f)
  BY <1>1 DEF Request, Hello, HelloAgain, SaysHello, StartLock, MoveCrash,
              MoveBlocked, MoveIntoWall, MoveStep, PickUp, Drop, Enter
<1> QED BY <1>2 DEF Connect, StartCheck, Crash, board, player, holder

(* An overlap is not forgotten.                                            *)
LEMMA RacedStays ==
  ASSUME NEW f \in Fd, Request(f) \/ Handle(f) \/ Lost(f), ~raced'
  PROVE  ~raced
BY DEF Request, Connect, Hello, HelloAgain, StartCheck, StartLock, MoveCrash, PickUp, Drop,
       MoveBlocked, MoveIntoWall, MoveStep, Handle, StartPlace, StartSpawn, BreakWall,
       FreeSlot, TagSlot, MoveFinish, Lost, SessionLost, SlotCleared, Crash, Holds, NoteRace

(* The slot SlotOf finds is the only one the connection has.               *)
LEMMA OnlySlot ==
  ASSUME Basic, NEW f \in Fd, Joined(f)
  PROVE  /\ SlotOf(f) \in Slot /\ playerID[SlotOf(f)] = f
         /\ \A s \in Slot : playerID[s] = f => s = SlotOf(f)
<1>1. SlotOf(f) \in Slot /\ playerID[SlotOf(f)] = f
  BY SlotOfJoined
<1> QED BY <1>1, FdOK DEF Basic, OnePlayerPerConnection

(* One adjacency test touches only the victim, and leaves it able to move  *)
(* only when it does nothing.                                              *)
LEMMA TaggedVictim ==
  ASSUME NEW g \in BoardPart, NEW v \in Slot, NEW at
  PROVE  LET r == Tagged(g, v, at)
         IN /\ \A s \in Slot : s # v => r.pos[s] = g.pos[s] /\ r.can[s] = g.can[s]
            /\ r = g \/ ~r.can[v]
<1> DEFINE can == [g.can EXCEPT ![v] = FALSE]
           cell == JailFor(v[1], g.occ)
           r == Tagged(g, v, at)
<1>1. \/ r = g
      \/ r = [pos |-> g.pos, can |-> can, occ |-> g.occ]
      \/ r = [pos |-> [g.pos EXCEPT ![v] = cell], can |-> can,
              occ |-> (g.occ \ {at}) \cup {cell}]
  BY DEF Tagged
<1>2. g.pos \in [Slot -> Cell \cup {Wild}] /\ g.can \in [Slot -> BOOLEAN]
  BY DEF BoardPart
<1> HIDE DEF cell, r
<1> QED BY <1>1, <1>2 DEF r

LEMMA TaggedAroundVictim ==
  ASSUME NEW g \in BoardPart, NEW v \in Slot, NEW adj
  PROVE  LET r == TaggedAround(g, v, adj)
         IN /\ \A s \in Slot : s # v => r.pos[s] = g.pos[s] /\ r.can[s] = g.can[s]
            /\ r = g \/ ~r.can[v]
<1> DEFINE up == Tagged(g, v, adj["UP"])
           right == Tagged(up, v, adj["RIGHT"])
           down == Tagged(right, v, adj["DOWN"])
           left == Tagged(down, v, adj["LEFT"])
           Same(a, b) == /\ \A s \in Slot : s # v => a.pos[s] = b.pos[s]
                                                     /\ a.can[s] = b.can[s]
                         /\ a = b \/ ~a.can[v]
<1>1. up \in BoardPart /\ Same(up, g)
  BY TaggedType, TaggedVictim
<1> HIDE DEF up
<1>2. right \in BoardPart /\ Same(right, up)
  BY <1>1, TaggedType, TaggedVictim
<1> HIDE DEF right
<1>3. down \in BoardPart /\ Same(down, right)
  BY <1>2, TaggedType, TaggedVictim
<1> HIDE DEF down
<1>4. left \in BoardPart /\ Same(left, down)
  BY <1>3, TaggedType, TaggedVictim
<1>5. TaggedAround(g, v, adj) = left
  BY DEF TaggedAround, left, down, right, up
<1> HIDE DEF left
<1> QED BY <1>1, <1>2, <1>3, <1>4, <1>5

(* What one step does to the player of one slot, its position and its      *)
(* right to move.                                                          *)
LEMMA SlotStep ==
  ASSUME Basic, NEW f \in Fd, Request(f) \/ Handle(f) \/ Lost(f), NEW s \in Slot
  PROVE  \/ /\ playerID'[s] = playerID[s]
            /\ cellposition'[s] = cellposition[s] /\ canMove'[s] = canMove[s]
         \/ /\ Hello(f) /\ playerID[s] = NoFd
            /\ playerID'[s] = f /\ cellposition'[s] \in Garbage /\ canMove'[s]
         \/ /\ StartPlace(f) /\ playerID'[s] = playerID[s]
            /\ cellposition'[s] \in HomeCells(s[1]) /\ canMove'[s] = canMove[s]
         \/ /\ BreakWall(f) /\ s = SlotOf(f) /\ playerID'[s] = playerID[s]
            /\ cellposition'[s] = target /\ canMove'[s] = canMove[s]
         \/ \E dest \in Cell :
              /\ MoveStep(f, dest) /\ s = SlotOf(f) /\ playerID'[s] = playerID[s]
              /\ cellposition'[s] = dest /\ canMove[s] /\ canMove'[s] = canMove[s]
         \/ /\ FreeSlot(f) /\ playerID'[s] = playerID[s] /\ ~canMove[s]
            /\ cellposition'[s] \in HomeCells(s[1]) /\ canMove'[s]
         \/ /\ TagSlot(f) /\ playerID'[s] = playerID[s]
            /\ s = <<Other(SlotOf(f)[1]), index>> /\ Exposed(s, SlotOf(f)[1])
            /\ ~canMove'[s]
         \/ /\ SlotCleared(f) /\ playerID[s] = f /\ playerID'[s] = NoFd
            /\ cellposition'[s] = Origin /\ ~canMove'[s]
<1>1. CASE Hello(f)
  <2>1. PICK t \in Team, p \in Garbage : Insert(f, t, FirstPlayer, p)
    BY <1>1 DEF Hello, Team
  <2>2. CASE UNCHANGED player
    BY <2>2 DEF player
  <2>3. CASE ~UNCHANGED player
    <3>1. PICK r \in Slot :
              /\ playerID[r] = NoFd
              /\ playerID' = [playerID EXCEPT ![r] = f]
              /\ cellposition' = [cellposition EXCEPT ![r] = p]
              /\ canMove' = [canMove EXCEPT ![r] = TRUE]
              /\ isHost' = [isHost EXCEPT ![r] = FirstPlayer]
              /\ inventory' = [inventory EXCEPT ![r] = "NONE"]
      BY <2>1, <2>3, InsertSlot
    <3> QED BY <1>1, <2>1, <3>1 DEF Basic, TypeOK
  <2> QED BY <2>2, <2>3
<1>2. CASE StartPlace(f)
  <2>1. PICK h \in Placement(checked[f]) :
          cellposition' = [r \in Slot |-> IF r \in Placed(checked[f])
                                         THEN h[r] ELSE cellposition[r]]
    BY <1>2 DEF StartPlace
  <2>2. \A r \in Placed(checked[f]) : h[r] \in HomeCells(r[1])
    BY <2>1 DEF Placement, FreeHomes
  <2>3. UNCHANGED <<playerID, canMove>>
    BY <1>2 DEF StartPlace
  <2> HIDE DEF Placed, HomeCells
  <2> QED BY <1>2, <2>1, <2>2, <2>3 DEF Basic, TypeOK
<1>3. CASE BreakWall(f)
  <2>1. /\ cellposition' = [cellposition EXCEPT ![SlotOf(f)] = target]
        /\ UNCHANGED <<playerID, canMove>>
    BY <1>3 DEF BreakWall
  <2> QED BY <1>3, <2>1 DEF Basic, TypeOK
<1>4. ASSUME NEW dest \in Cell, MoveStep(f, dest)
      PROVE  \/ /\ playerID'[s] = playerID[s]
                /\ cellposition'[s] = cellposition[s] /\ canMove'[s] = canMove[s]
             \/ /\ s = SlotOf(f) /\ playerID'[s] = playerID[s]
                /\ cellposition'[s] = dest /\ canMove[s] /\ canMove'[s] = canMove[s]
  <2>1. /\ cellposition' = [cellposition EXCEPT ![SlotOf(f)] = dest]
        /\ UNCHANGED <<playerID, canMove>> /\ canMove[SlotOf(f)]
    BY <1>4 DEF MoveStep, MoveTo
  <2> QED BY <2>1 DEF Basic, TypeOK
<1>5. CASE FreeSlot(f)
  <2> DEFINE r == <<SlotOf(f)[1], index>>
  <2>1. CASE UNCHANGED <<cellposition, canMove>>
    BY <1>5, <2>1 DEF FreeSlot
  <2>2. CASE ~UNCHANGED <<cellposition, canMove>>
    <3>1. PICK c \in HomeCells(r[1]) :
            /\ ~canMove[r]
            /\ canMove' = [canMove EXCEPT ![r] = TRUE]
            /\ cellposition' = [cellposition EXCEPT ![r] = c]
            /\ playerID' = playerID
      BY <1>5, <2>2 DEF FreeSlot, Frees, FreeHomes
    <3> HIDE DEF r
    <3> QED BY <1>5, <3>1 DEF Basic, TypeOK
  <2> QED BY <2>1, <2>2
<1>6. CASE TagSlot(f)
  <2>1. CASE crashed'
    BY <1>6, <2>1 DEF TagSlot, Crash, Holds, board, player
  <2>2. CASE ~crashed'
    <3> DEFINE v == <<Other(SlotOf(f)[1]), index>>
               now == [pos |-> cellposition, can |-> canMove, occ |-> occupied]
               g == TaggedAround(now, v, Adj[cellposition[SlotOf(f)]])
    <3>1. v \in Slot
      BY <1>6, SlotOfJoined, TeamFacts DEF TagSlot, Holds, Basic, HolderOK
    <3>2. now \in BoardPart /\ now.pos = cellposition /\ now.can = canMove
      BY DEF BoardPart, Basic, TypeOK
    <3>3. playerID' = playerID
      BY <1>6, <2>2, TagSlotTurn
    <3>4. \/ UNCHANGED <<cellposition, canMove>>
          \/ cellposition' = g.pos /\ canMove' = g.can /\ Exposed(v, SlotOf(f)[1])
      BY <1>6, <2>2 DEF TagSlot, Crash, Holds, TaggedAround
    <3> HIDE DEF now
    <3>5. /\ s # v => g.pos[s] = cellposition[s] /\ g.can[s] = canMove[s]
          /\ g = now \/ ~g.can[v]
      BY <3>1, <3>2, TaggedAroundVictim
    <3> HIDE DEF g
    <3>6. CASE s # v
      BY <3>3, <3>4, <3>5, <3>6
    <3>7. CASE s = v
      BY <1>6, <3>2, <3>3, <3>4, <3>5, <3>7
    <3> QED BY <3>6, <3>7
  <2> QED BY <2>1, <2>2
<1>7. CASE SlotCleared(f)
  <2>1. SlotOf(f) \in Slot /\ playerID[SlotOf(f)] = f
    BY <1>7, SlotOfJoined DEF SlotCleared, Basic, HolderOK
  <2>2. /\ playerID' = [playerID EXCEPT ![SlotOf(f)] = NoFd]
        /\ cellposition' = [cellposition EXCEPT ![SlotOf(f)] = Origin]
        /\ canMove' = [canMove EXCEPT ![SlotOf(f)] = FALSE]
    BY <1>7 DEF SlotCleared
  <2> QED BY <1>7, <2>1, <2>2 DEF Basic, TypeOK
<1>8. CASE \/ Connect(f) \/ HelloAgain(f) \/ StartCheck(f) \/ StartLock(f) \/ MoveCrash(f)
           \/ PickUp(f) \/ Drop(f) \/ StartSpawn(f) \/ MoveFinish(f) \/ SessionLost(f)
           \/ \E dest \in Cell : MoveBlocked(f, dest) \/ MoveIntoWall(f, dest)
  <2>1. UNCHANGED <<playerID, cellposition, canMove>>
    BY <1>8 DEF Connect, HelloAgain, StartCheck, StartLock, MoveCrash, PickUp, Drop,
                StartSpawn, MoveFinish, SessionLost, MoveBlocked, MoveIntoWall, Crash,
                board, player
  <2> QED BY <2>1
<1> QED BY <1>1, <1>2, <1>3, <1>4, <1>5, <1>6, <1>7, <1>8 DEF Request, Handle, Lost

----------------------------------------------------------------------------
(* Walls *)

Floor == {FLOOR[1], FLOOR[2]}
Walkable == {FLOOR[1], FLOOR[2], HOME[1], HOME[2], JAIL[1], JAIL[2]}

(* The map changes only where an unfixed wall has become floor.            *)
MapKept ==
  /\ \A c \in Cell : cellType[c] # InitType[c]
                      => InitType[c] = "WALL_UNFIXED" /\ cellType[c] \in Floor
  /\ phase = "break" => cellType[target] = "WALL_UNFIXED"

(* Who can move does not stand in a wall, unless it has not been placed.   *)
Grounded ==
  \A s \in Slot : canMove[s] => \/ cellposition[s] \in {Wild, Origin}
                                \/ cellType[cellposition[s]] \in Walkable

(* A wall is broken from a floor beside it: the walls of homes and jails   *)
(* are fixed.                                                              *)
BesideFloor ==
  phase = "break" => \E d \in Dir : /\ Adj[target][d] \in Cell
                                    /\ cellType[Adj[target][d]] \in Floor

(* BrokenWallsJoinASide needs the map, where the players stand and what    *)
(* lies beside a wall that is being broken.                                *)
Walls == MapKept /\ Grounded /\ BesideFloor /\ BrokenWallsJoinASide

LEMMA WallsInit == Init => Walls
BY DEF Init, Walls, MapKept, Grounded, BesideFloor, BrokenWallsJoinASide

(* Only breaking a wall changes the map.                                   *)
LEMMA MapUnchanged ==
  ASSUME NEW f \in Fd, Request(f) \/ Handle(f) \/ Lost(f), ~BreakWall(f)
  PROVE  cellType' = cellType
BY DEF Request, Connect, Hello, HelloAgain, StartCheck, StartLock, MoveCrash, PickUp,
       Drop, MoveBlocked, MoveIntoWall, MoveStep, Handle, StartPlace, StartSpawn,
       FreeSlot, TagSlot, MoveFinish, Lost, SessionLost, SlotCleared, Crash, board

(* The only way into the phase is MoveIntoWall, and nothing changes the    *)
(* wall while it is being broken.                                          *)
LEMMA BreakPhase ==
  ASSUME Basic, NEW f \in Fd, Request(f) \/ Handle(f) \/ Lost(f), phase' = "break"
  PROVE  /\ ~BreakWall(f)
         /\ \/ phase = "break" /\ UNCHANGED <<lock, target>>
            \/ \E dest \in Cell : MoveIntoWall(f, dest)
<1>1. CASE Request(f) /\ phase # "idle"
  <2>1. UNCHANGED <<phase, lock, target>>
    BY <1>1, HeldRequest
  <2>2. ~BreakWall(f)
    BY DEF BreakWall, Release
  <2> QED BY <2>1, <2>2
<1>2. CASE Request(f) /\ phase = "idle"
  <2>1. ~BreakWall(f)
    BY <1>2 DEF BreakWall, Holds
  <2>2. \A dest \in Cell : ~MoveStep(f, dest)
    BY DEF MoveStep, Hold
  <2> QED BY <1>2, <2>1, <2>2
          DEF Request, Connect, Hello, HelloAgain, StartCheck, StartLock, MoveCrash,
              PickUp, Drop, MoveBlocked, Crash, Hold, holder
<1>3. CASE Handle(f)
  <2>1. CASE TagSlot(f)
    <3>1. crashed'
      BY <2>1 DEF TagSlot, Holds, NextIndex, Crash
    <3> QED BY <2>1, <3>1 DEF TagSlot, Holds, Crash, holder, BreakWall
  <2> QED BY <1>3, <2>1 DEF Handle, StartPlace, StartSpawn, BreakWall, FreeSlot,
              MoveFinish, Holds, Release, NextIndex
<1>4. CASE Lost(f)
  BY <1>4 DEF Lost, SessionLost, SlotCleared, Crash, holder, BreakWall, Release
<1> QED BY <1>1, <1>2, <1>3, <1>4

(* Nobody who can move stands in the wall that is being entered, so the    *)
(* mover comes from floor.                                                 *)
LEMMA EntersFromFloor ==
  ASSUME Basic, Walls, NEW f \in Fd, NEW dest \in Cell, MoveIntoWall(f, dest)
  PROVE  /\ cellType[dest] = "WALL_UNFIXED"
         /\ \E d \in Dir : /\ Adj[dest][d] \in Cell
                           /\ cellType[Adj[dest][d]] \in Floor
<1> DEFINE c == cellposition[SlotOf(f)]
<1>1. /\ SlotOf(f) \in Slot /\ canMove[SlotOf(f)] /\ c \in Cell
      /\ \E d \in Dir : Adj[c][d] = dest
      /\ cellType[dest] = "WALL_UNFIXED"
  BY SlotOfJoined DEF MoveIntoWall, MoveTo
<1>2. InitType[dest] = "WALL_UNFIXED"
  BY <1>1 DEF Walls, MapKept
<1>3. c # Origin
  BY <1>1, <1>2, WallsOK
<1>4. cellType[c] \in Walkable
  BY <1>1, <1>3, CellOK DEF Walls, Grounded
<1> HIDE DEF c
<1>5. /\ InitType[c] \in {"FLOOR_1", "FLOOR_2", "WALL_FIXED", "WALL_UNFIXED"}
      /\ \E e \in Dir : Adj[dest][e] = c
  BY <1>1, <1>2, WallsOK
<1>6. cellType[c] \in Floor
  BY <1>1, <1>4, <1>5 DEF Walls, MapKept, Walkable, Floor, FLOOR, HOME, JAIL
<1> QED BY <1>1, <1>5, <1>6

(* A broken wall takes the side of a floor it touches, and no other wall   *)
(* changes.                                                                *)
LEMMA WallsBreak ==
  ASSUME Basic, Walls, NEW f \in Fd, BreakWall(f)
  PROVE  Walls'
<1>1. /\ phase = "break" /\ phase' = "idle" /\ target \in Cell
      /\ cellType' = [cellType EXCEPT ![target] = Broken(target)]
      /\ cellposition' = [cellposition EXCEPT ![SlotOf(f)] = target]
      /\ canMove' = canMove
  BY DEF BreakWall, Holds, Release, Basic, TypeOK
<1>2. cellType[target] = "WALL_UNFIXED" /\ InitType[target] = "WALL_UNFIXED"
  BY <1>1 DEF Walls, MapKept
<1>3. Broken(target) \in Floor /\ Floor \subseteq Walkable
  BY DEF Broken, Floor, Walkable
<1>4. \A c \in Cell : cellType'[c] = IF c = target THEN Broken(target) ELSE cellType[c]
  BY <1>1 DEF Basic, TypeOK
<1>5. MapKept'
  BY <1>1, <1>2, <1>3, <1>4 DEF Walls, MapKept
<1>6. Grounded'
  <2> SUFFICES ASSUME NEW s \in Slot, canMove'[s], cellposition'[s] \notin {Wild, Origin}
               PROVE  cellType'[cellposition'[s]] \in Walkable
    BY DEF Grounded
  <2>1. CASE s = SlotOf(f)
    BY <1>1, <1>3, <1>4, <2>1 DEF Basic, TypeOK
  <2>2. CASE s # SlotOf(f)
    <3>1. cellposition'[s] = cellposition[s] /\ cellposition[s] \in Cell
      BY <1>1, <2>2 DEF Basic, TypeOK
    <3>2. cellType[cellposition[s]] \in Walkable
      BY <1>1, <3>1 DEF Walls, Grounded
    <3> QED BY <1>3, <1>4, <3>1, <3>2
  <2> QED BY <2>1, <2>2
<1>7. BesideFloor'
  BY <1>1 DEF BesideFloor
<1>8. \E d \in Dir : Adj[target][d] \in Cell /\ cellType[Adj[target][d]] = Broken(target)
  <2>1. PICK d \in Dir : Adj[target][d] \in Cell /\ cellType[Adj[target][d]] \in Floor
    BY <1>1 DEF Walls, BesideFloor
  <2> QED BY <2>1 DEF Broken, Floor
<1>9. ASSUME NEW c \in Cell, cellType'[c] # InitType[c]
      PROVE  /\ InitType[c] = "WALL_UNFIXED"
             /\ \E d \in Dir : Adj[c][d] \in Cell /\ cellType'[Adj[c][d]] = cellType'[c]
  <2>1. CASE c = target
    BY <1>2, <1>4, <1>8, <2>1
  <2>2. CASE c # target
    <3>1. cellType[c] \in Floor /\ cellType[c] # InitType[c]
      BY <1>4, <1>9, <2>2 DEF Walls, MapKept
    <3>2. PICK d \in Dir : Adj[c][d] \in Cell /\ cellType[Adj[c][d]] = cellType[c]
      BY <3>1 DEF Walls, BrokenWallsJoinASide
    <3>3. Adj[c][d] # target
      BY <1>2, <3>1, <3>2 DEF Floor, FLOOR
    <3> QED BY <1>4, <1>9, <2>2, <3>2, <3>3 DEF Walls, MapKept
  <2> QED BY <2>1, <2>2
<1>10. BrokenWallsJoinASide'
  BY <1>9 DEF BrokenWallsJoinASide
<1> QED BY <1>5, <1>6, <1>7, <1>10 DEF Walls

(* Every other step leaves the map alone and nobody steps into a wall. *)
LEMMA WallsStep ==
  ASSUME Basic, Walls, NEW f \in Fd, Request(f) \/ Handle(f) \/ Lost(f), ~BreakWall(f),
         Garbage \cap Cell \subseteq {Origin}
  PROVE  Walls'
<1>1. cellType' = cellType
  BY MapUnchanged
<1>2. phase' = "break" => /\ cellType[target'] = "WALL_UNFIXED"
                          /\ \E d \in Dir : /\ Adj[target'][d] \in Cell
                                            /\ cellType[Adj[target'][d]] \in Floor
  <2> SUFFICES ASSUME phase' = "break"
               PROVE  /\ cellType[target'] = "WALL_UNFIXED"
                      /\ \E d \in Dir : /\ Adj[target'][d] \in Cell
                                        /\ cellType[Adj[target'][d]] \in Floor
    OBVIOUS
  <2>1. CASE phase = "break" /\ target' = target
    BY <2>1 DEF Walls, MapKept, BesideFloor
  <2>2. ASSUME NEW dest \in Cell, MoveIntoWall(f, dest)
        PROVE  /\ cellType[target'] = "WALL_UNFIXED"
               /\ \E d \in Dir : /\ Adj[target'][d] \in Cell
                                 /\ cellType[Adj[target'][d]] \in Floor
    <3>1. target' = dest
      BY <2>2 DEF MoveIntoWall
    <3> QED BY <2>2, <3>1, EntersFromFloor
  <2> QED BY <2>1, <2>2, BreakPhase
<1>3. MapKept' /\ BesideFloor'
  BY <1>1, <1>2 DEF Walls, MapKept, BesideFloor
<1>4. BrokenWallsJoinASide'
  BY <1>1 DEF Walls, BrokenWallsJoinASide
<1>5. ASSUME NEW t \in Team, NEW c \in HomeCells(t) PROVE cellType[c] \in Walkable
  BY <1>5, TeamFacts DEF HomeCells, Walls, MapKept, Walkable, HOME
<1>6. ASSUME NEW s \in Slot, canMove'[s]
      PROVE  \/ cellposition'[s] \in {Wild, Origin}
             \/ cellType[cellposition'[s]] \in Walkable
  <2>1. s[1] \in Team
    BY TeamFacts
  <2>2. CASE canMove'[s] = canMove[s] /\ cellposition'[s] = cellposition[s]
    BY <1>6, <2>2 DEF Walls, Grounded
  <2>3. CASE cellposition'[s] \in Garbage
    BY <2>3, CellOK
  <2>4. CASE cellposition'[s] \in HomeCells(s[1])
    BY <1>5, <2>1, <2>4
  <2>5. ASSUME NEW dest \in Cell, MoveStep(f, dest), cellposition'[s] = dest
        PROVE  cellType[cellposition'[s]] \in Walkable
    <3>1. cellType[dest] \notin {"WALL_FIXED", "WALL_UNFIXED"} /\ cellType[dest] \in CellType
      BY <2>5 DEF MoveStep, Basic, TypeOK
    <3> QED BY <2>5, <3>1 DEF CellType, Walkable, FLOOR, HOME, JAIL
  <2> QED BY <1>6, <2>2, <2>3, <2>4, <2>5, SlotStep
<1>7. Grounded'
  BY <1>1, <1>6 DEF Grounded
<1> QED BY <1>3, <1>4, <1>7 DEF Walls

LEMMA WallsNext ==
  ASSUME Basic, Walls, [Next]_vars, Garbage \cap Cell \subseteq {Origin}
  PROVE  Walls'
<1>1. CASE UNCHANGED vars
  BY <1>1 DEF Walls, MapKept, Grounded, BesideFloor, BrokenWallsJoinASide, vars, board,
              player, holder
<1> QED BY <1>1, WallsBreak, WallsStep DEF Next

LEMMA WallsAlways ==
  ASSUME Garbage \cap Cell \subseteq {Origin}
  PROVE  Spec => []Walls
<1>1. Basic /\ Walls /\ [Next]_vars => Walls'
  BY WallsNext
<1> QED BY <1>1, WallsInit, BasicAlways, PTL DEF Spec

(* A broken wall is floor of a side it touches, for every map and in       *)
(* whatever order the walls are broken.  The position of a player who has  *)
(* not been placed must not happen to be a cell where somebody can stand.  *)
THEOREM WallsJoinASide ==
  ASSUME Garbage \cap Cell \subseteq {Origin}
  PROVE  Spec => []BrokenWallsJoinASide
<1>1. Walls => BrokenWallsJoinASide
  BY DEF Walls
<1> QED BY <1>1, WallsAlways, PTL

----------------------------------------------------------------------------
(* Before the game has started *)

(* No host starts a game that has started: what the restart habit breaks.  *)
StartsOnce ==
  \A f \in Fd : thread[f] = "starting" =>
    status = "NOT_STARTED" /\ \E s \in Slot : playerID[s] = f /\ isHost[s]

(* Nobody gets off the corner before the players are placed.               *)
PlayAfterStart == phase \in {"break", "free", "tag", "finish"} => status # "NOT_STARTED"
NothingPlaced ==
  status = "NOT_STARTED" =>
    /\ \A o \in Object : objPos[o] = Origin
    /\ \A s \in Slot : playerID[s] # NoFd => canMove[s]
    /\ phase # "spawn" => \A s \in Slot : cellposition[s] \in {Origin, Wild}

BeforeStart == StartsOnce /\ PlayAfterStart /\ NothingPlaced

LEMMA BeforeStartInit == Init => BeforeStart
BY DEF Init, BeforeStart, StartsOnce, PlayAfterStart, NothingPlaced

(* With the objects in the corner nobody wins; a result never goes back to *)
(* NOT_STARTED.                                                            *)
LEMMA NoResultYet ==
  ASSUME Basic, MapKept, BeforeStart, NEW inv
  PROVE  status = "NOT_STARTED" => StatusAfter(inv, cellType, objPos) = status
<1> SUFFICES ASSUME status = "NOT_STARTED" PROVE StatusAfter(inv, cellType, objPos) = status
  OBVIOUS
<1>1. objPos["FLAG_1"] = Origin
  BY DEF BeforeStart, NothingPlaced, Object
<1>2. cellType[Origin] = "WALL_FIXED"
  BY MapOK, CellOK DEF MapKept
<1>3. ASSUME NEW t \in Team PROVE ~Wins(t, inv, cellType, objPos)
  <2>1. cellType[objPos[FLAG[1]]] \notin {FLOOR[t], HOME[t]}
    BY <1>1, <1>2, TeamFacts DEF FLAG, FLOOR, HOME
  <2> QED BY <2>1 DEF Wins, Team
<1> QED BY <1>3 DEF StatusAfter, Team

LEMMA StatusKept ==
  ASSUME NEW inv, NEW ct, NEW pos, status # "NOT_STARTED"
  PROVE  StatusAfter(inv, ct, pos) # "NOT_STARTED"
BY DEF StatusAfter, WON

(* In the corner there is no way out: its neighbours are fixed walls.      *)
LEMMA NoMoveYet ==
  ASSUME Basic, MapKept, BeforeStart, NEW f \in Fd, NEW dest \in Cell,
         MoveStep(f, dest) \/ MoveIntoWall(f, dest)
  PROVE  status # "NOT_STARTED"
<1>1. /\ SlotOf(f) \in Slot /\ cellposition[SlotOf(f)] \in Cell
      /\ \E d \in Dir : Adj[cellposition[SlotOf(f)]][d] = dest
      /\ cellType[dest] # "WALL_FIXED" /\ phase # "spawn"
  BY SlotOfJoined, FdOK DEF MoveStep, MoveIntoWall, MoveTo, Enter, Basic, HolderOK
<1>2. ASSUME status = "NOT_STARTED" PROVE FALSE
  <2>1. cellposition[SlotOf(f)] = Origin
    BY <1>1, <1>2, CellOK DEF BeforeStart, NothingPlaced
  <2>2. InitType[dest] = "WALL_FIXED"
    BY <1>1, <2>1, WallsOK
  <2> QED BY <1>1, <2>2 DEF MapKept
<1> QED BY <1>2

(* How the status and the threads that start a game change.                *)
LEMMA StatusStep ==
  ASSUME Basic, MapKept, BeforeStart, NEW f \in Fd, Request(f) \/ Handle(f) \/ Lost(f)
  PROVE  \/ status' = status /\ ~StartSpawn(f)
         \/ status # "NOT_STARTED" /\ status' # "NOT_STARTED" /\ ~StartSpawn(f)
         \/ StartSpawn(f) /\ status' = "IN_PROGRESS" /\ thread' = [thread EXCEPT ![f] = "ready"]
<1>1. CASE StartSpawn(f)
  BY <1>1 DEF StartSpawn
<1>2. CASE Drop(f) \/ \E dest \in Cell : MoveBlocked(f, dest)
  <2>1. /\ \E inv : status' = StatusAfter(inv, cellType, objPos)
        /\ phase # "spawn"
    BY <1>2, FdOK DEF Drop, MoveBlocked, Enter, Basic, HolderOK
  <2> QED BY <2>1, NoResultYet, StatusKept DEF StartSpawn, Holds
<1>3. CASE BreakWall(f) \/ MoveFinish(f)
  <2>1. /\ \E inv, ct, pos : status' = StatusAfter(inv, ct, pos)
        /\ phase \in {"break", "finish"}
    BY <1>3 DEF BreakWall, MoveFinish, Holds
  <2>2. status # "NOT_STARTED"
    BY <2>1 DEF BeforeStart, PlayAfterStart
  <2> QED BY <2>1, <2>2, StatusKept DEF StartSpawn, Holds
<1> QED
  <2> SUFFICES ASSUME ~StartSpawn(f), ~Drop(f), ~BreakWall(f), ~MoveFinish(f),
                      \A dest \in Cell : ~MoveBlocked(f, dest)
               PROVE  status' = status
    BY <1>1, <1>2, <1>3
  <2> QED BY DEF Request, Connect, Hello, HelloAgain, StartCheck, StartLock, MoveCrash,
              PickUp, MoveIntoWall, MoveStep, Handle, StartPlace, FreeSlot, TagSlot, Lost,
              SessionLost, SlotCleared, Crash, board

(* The only ways into a loop or the wall are the moves.                    *)
LEMMA PlayPhase ==
  ASSUME Basic, NEW f \in Fd, Request(f) \/ Handle(f) \/ Lost(f),
         phase' \in {"break", "free", "tag", "finish"}
  PROVE  \/ phase \in {"break", "free", "tag", "finish"}
         \/ \E dest \in Cell : MoveStep(f, dest) \/ MoveIntoWall(f, dest)
<1>1. CASE Handle(f)
  BY <1>1 DEF Handle, StartPlace, StartSpawn, BreakWall, FreeSlot, TagSlot, MoveFinish,
              Holds, Release
<1>2. CASE Lost(f)
  BY <1>2 DEF Lost, SessionLost, SlotCleared, Crash, holder
<1>3. CASE Request(f)
  BY <1>3 DEF Request, Connect, Hello, HelloAgain, StartCheck, StartLock, MoveCrash, PickUp,
              Drop, MoveBlocked, Crash, Hold, holder
<1> QED BY <1>1, <1>2, <1>3

(* A host stays the host while it starts the game.                         *)
LEMMA HostKept ==
  ASSUME Basic, NEW f \in Fd, Request(f) \/ Handle(f) \/ Lost(f),
         NEW g \in Fd, thread[g] = "starting", NEW s \in Slot, playerID[s] = g, isHost[s]
  PROVE  playerID'[s] = g /\ isHost'[s]
<1>1. CASE Hello(f)
  <2>1. PICK t \in Team, p \in Garbage : Insert(f, t, FirstPlayer, p)
    BY <1>1 DEF Hello, Team
  <2>2. CASE UNCHANGED player
    BY <2>2 DEF player
  <2>3. CASE ~UNCHANGED player
    <3>1. PICK r \in Slot :
              /\ playerID[r] = NoFd
              /\ playerID' = [playerID EXCEPT ![r] = f]
              /\ cellposition' = [cellposition EXCEPT ![r] = p]
              /\ canMove' = [canMove EXCEPT ![r] = TRUE]
              /\ isHost' = [isHost EXCEPT ![r] = FirstPlayer]
              /\ inventory' = [inventory EXCEPT ![r] = "NONE"]
      BY <2>1, <2>3, InsertSlot
    <3>2. r # s
      BY <3>1, FdOK
    <3> QED BY <3>1, <3>2 DEF Basic, TypeOK
  <2> QED BY <2>2, <2>3
<1>2. CASE SlotCleared(f)
  <2>1. SlotOf(f) \in Slot /\ playerID[SlotOf(f)] = f /\ f # g
    BY <1>2, SlotOfJoined DEF SlotCleared, Basic, HolderOK
  <2>2. /\ playerID' = [playerID EXCEPT ![SlotOf(f)] = NoFd]
        /\ isHost' = [isHost EXCEPT ![SlotOf(f)] = FALSE]
    BY <1>2 DEF SlotCleared
  <2> QED BY <2>1, <2>2 DEF Basic, TypeOK
<1>3. CASE ~Hello(f) /\ ~SlotCleared(f)
  <2>1. UNCHANGED <<playerID, isHost>>
    BY <1>3 DEF Request, Connect, HelloAgain, StartCheck, StartLock, MoveCrash, PickUp,
                Drop, MoveBlocked, MoveIntoWall, MoveStep, Handle, StartPlace, StartSpawn,
                BreakWall, FreeSlot, TagSlot, MoveFinish, Lost, SessionLost, Crash, board,
                player
  <2> QED BY <2>1
<1> QED BY <1>1, <1>2, <1>3

(* Who starts the game found it not started, and only the host does.       *)
LEMMA StarterStep ==
  ASSUME Basic, "restart" \notin Habits, NEW f \in Fd, Request(f) \/ Handle(f) \/ Lost(f),
         NEW g \in Fd, thread'[g] = "starting"
  PROVE  \/ thread[g] = "starting"
         \/ /\ status = "NOT_STARTED" /\ UNCHANGED <<status, playerID, isHost>>
            /\ \E s \in Slot : playerID[s] = g /\ isHost[s]
<1>1. CASE StartCheck(f) /\ ~crashed'
  <2>1. /\ Joined(f) /\ isHost[SlotOf(f)] /\ status = "NOT_STARTED"
        /\ thread' = [thread EXCEPT ![f] = "starting"]
        /\ UNCHANGED <<status, playerID, isHost>>
    BY <1>1 DEF StartCheck, Crash, board, player
  <2>2. SlotOf(f) \in Slot /\ playerID[SlotOf(f)] = f
    BY <2>1, SlotOfJoined
  <2> QED BY <2>1, <2>2 DEF Basic, TypeOK
<1>2. CASE ~(StartCheck(f) /\ ~crashed')
  <2>1. \/ thread' = thread
        \/ \E x \in {"open", "ready", "leaving", "down"} : thread' = [thread EXCEPT ![f] = x]
    BY <1>2 DEF Request, Connect, Hello, HelloAgain, StartCheck, StartLock, MoveCrash,
                PickUp, Drop, MoveBlocked, MoveIntoWall, MoveStep, Handle, StartPlace,
                StartSpawn, BreakWall, FreeSlot, TagSlot, MoveFinish, Lost, SessionLost,
                SlotCleared, Crash
  <2> QED BY <2>1 DEF Basic, TypeOK
<1> QED BY <1>1, <1>2

LEMMA StartsOnceStep ==
  ASSUME Basic, MapKept, BeforeStart, "restart" \notin Habits,
         NEW f \in Fd, Request(f) \/ Handle(f) \/ Lost(f)
  PROVE  StartsOnce'
<1> SUFFICES ASSUME NEW g \in Fd, thread'[g] = "starting"
             PROVE  status' = "NOT_STARTED" /\ \E s \in Slot : playerID'[s] = g /\ isHost'[s]
  BY DEF StartsOnce
<1>1. CASE thread[g] = "starting"
  <2>1. PICK s \in Slot : playerID[s] = g /\ isHost[s]
    BY <1>1 DEF BeforeStart, StartsOnce
  <2>2. status = "NOT_STARTED"
    BY <1>1 DEF BeforeStart, StartsOnce
  <2>3. ~StartSpawn(f)
    <3>1. ASSUME StartSpawn(f) PROVE FALSE
      <4>1. thread[f] = "starting" /\ thread' = [thread EXCEPT ![f] = "ready"]
        BY <3>1 DEF StartSpawn, Holds, Basic, HolderOK
      <4>2. f = g
        BY <2>1, <4>1 DEF BeforeStart, StartsOnce, Basic, OneHost
      <4> QED BY <4>1, <4>2 DEF Basic, TypeOK
    <3> QED BY <3>1
  <2>4. status' = "NOT_STARTED"
    BY <2>2, <2>3, StatusStep
  <2>5. playerID'[s] = g /\ isHost'[s]
    BY <1>1, <2>1, HostKept
  <2> QED BY <2>4, <2>5
<1>2. CASE thread[g] # "starting"
  <2>1. /\ status' = "NOT_STARTED" /\ UNCHANGED <<playerID, isHost>>
        /\ \E s \in Slot : playerID[s] = g /\ isHost[s]
    BY <1>2, StarterStep
  <2> QED BY <2>1
<1> QED BY <1>1, <1>2

LEMMA BeforeStartNext ==
  ASSUME Basic, MapKept, BeforeStart, "restart" \notin Habits,
         Garbage \cap Cell \subseteq {Origin}, [Next]_vars
  PROVE  BeforeStart'
<1>1. CASE UNCHANGED vars
  BY <1>1 DEF BeforeStart, StartsOnce, PlayAfterStart, NothingPlaced, vars, board, player,
              holder
<1>2. ASSUME NEW f \in Fd, Request(f) \/ Handle(f) \/ Lost(f) PROVE BeforeStart'
  <2>1. StartsOnce'
    BY <1>2, StartsOnceStep
  <2>2. PlayAfterStart'
    <3> SUFFICES ASSUME phase' \in {"break", "free", "tag", "finish"}
                 PROVE  status' # "NOT_STARTED"
      BY DEF PlayAfterStart
    <3>1. status # "NOT_STARTED"
      BY <1>2, PlayPhase, NoMoveYet DEF BeforeStart, PlayAfterStart
    <3> QED BY <1>2, <3>1, StatusStep
  <2>3. NothingPlaced'
    <3> SUFFICES ASSUME status' = "NOT_STARTED" PROVE NothingPlaced'
      BY DEF NothingPlaced
    <3>1. status = "NOT_STARTED" /\ ~StartSpawn(f)
      BY <1>2, StatusStep
    <3>2. phase \notin {"break", "free", "tag", "finish"}
      BY <3>1 DEF BeforeStart, PlayAfterStart
    <3>3. objPos' = objPos
      BY <1>2, <3>1, <3>2
         DEF Request, Connect, Hello, HelloAgain, StartCheck, StartLock, MoveCrash, PickUp,
             Drop, MoveBlocked, MoveIntoWall, MoveStep, Handle, StartPlace, BreakWall,
             FreeSlot, TagSlot, MoveFinish, Lost, SessionLost, SlotCleared, Crash, board, Holds
    <3>4. /\ ~BreakWall(f) /\ ~FreeSlot(f) /\ ~TagSlot(f)
          /\ \A dest \in Cell : ~MoveStep(f, dest)
      BY <3>1, <3>2, NoMoveYet DEF BreakWall, FreeSlot, TagSlot, Holds
    <3>5. ASSUME NEW s \in Slot
          PROVE  /\ playerID'[s] # NoFd => canMove'[s]
                 /\ phase' # "spawn" => cellposition'[s] \in {Origin, Wild}
      <4>1. phase' # "spawn" => phase # "spawn" /\ ~StartPlace(f)
        <5>1. CASE Handle(f)
          BY <3>1, <3>4, <5>1, <3>2
             DEF Handle, StartPlace, MoveFinish, Holds
        <5>2. CASE Request(f)
          <6>1. phase # "idle" => phase' = phase
            BY <5>2, HeldRequest
          <6>2. phase = "spawn" => phase # "idle"
            OBVIOUS
          <6> QED BY <6>1, <6>2 DEF StartPlace
        <5>3. CASE Lost(f)
          BY <5>3 DEF Lost, SessionLost, SlotCleared, Crash, holder, StartPlace
        <5> QED BY <1>2, <5>1, <5>2, <5>3
      <4>2. /\ playerID[s] # NoFd => canMove[s]
            /\ phase # "spawn" => cellposition[s] \in {Origin, Wild}
        BY <3>1 DEF BeforeStart, NothingPlaced
      <4>3. \A p \in Garbage : p \in {Origin, Wild}
        BY CellOK
      <4> QED BY <1>2, <3>4, <4>1, <4>2, <4>3, SlotStep
    <3> QED BY <3>1, <3>3, <3>5 DEF BeforeStart, NothingPlaced
  <2> QED BY <2>1, <2>2, <2>3 DEF BeforeStart
<1> QED BY <1>1, <1>2 DEF Next

----------------------------------------------------------------------------
(* Prisoners *)

(* The player who is breaking a wall can move: nobody tags it meanwhile.   *)
MoverMoves == phase = "break" => \A s \in Slot : playerID[s] = lock => canMove[s]

(* PrisonersStay needs the map, the start of the game and the wall.        *)
Prison == Walls /\ BeforeStart /\ MoverMoves

LEMMA PrisonInit == Init => Prison
BY WallsInit, BeforeStartInit DEF Init, Prison, MoverMoves

LEMMA MoverNext ==
  ASSUME Basic, MoverMoves, NEW f \in Fd, Request(f) \/ Handle(f) \/ Lost(f)
  PROVE  MoverMoves'
<1> SUFFICES ASSUME phase' = "break", NEW s \in Slot, playerID'[s] = lock'
             PROVE  canMove'[s]
  BY DEF MoverMoves
<1>1. CASE phase = "break" /\ lock' = lock
  <2>1. lock \in Fd /\ lock # NoFd /\ thread[lock] = "ready"
    BY <1>1, FdOK DEF Basic, HolderOK
  <2>2. ~BreakWall(f) /\ ~FreeSlot(f) /\ ~TagSlot(f) /\ ~StartPlace(f) /\ ~Hello(f)
    BY <1>1, <2>1, FdOK, BreakPhase DEF FreeSlot, TagSlot, StartPlace, Holds, Hello, SaysHello
  <2>3. playerID'[s] = playerID[s] /\ canMove'[s] = canMove[s]
    BY <1>1, <2>1, <2>2, SlotStep
  <2> QED BY <1>1, <2>3 DEF MoverMoves
<1>2. ASSUME NEW dest \in Cell, MoveIntoWall(f, dest) PROVE canMove'[s]
  <2>1. UNCHANGED <<playerID, canMove>> /\ lock' = f /\ canMove[SlotOf(f)] /\ Joined(f)
    BY <1>2 DEF MoveIntoWall, MoveTo, board, player
  <2>2. s = SlotOf(f)
    BY <2>1, OnlySlot
  <2> QED BY <2>1, <2>2
<1> QED BY <1>1, <1>2, BreakPhase

LEMMA PrisonNext ==
  ASSUME Basic, Prison, [Next]_vars, "restart" \notin Habits,
         Garbage \cap Cell \subseteq {Origin}
  PROVE  Prison'
<1>1. Walls' /\ BeforeStart'
  BY WallsNext, BeforeStartNext DEF Prison, Walls
<1>2. MoverMoves'
  <2>1. CASE UNCHANGED vars
    BY <2>1 DEF Prison, MoverMoves, vars, board, player, holder
  <2> QED BY <2>1, MoverNext DEF Prison, Next
<1> QED BY <1>1, <1>2 DEF Prison

LEMMA PrisonAlways ==
  ASSUME "restart" \notin Habits, Garbage \cap Cell \subseteq {Origin}
  PROVE  Spec => []Prison
<1>1. Basic /\ Prison /\ [Next]_vars => Prison'
  BY PrisonNext
<1> QED BY <1>1, PrisonInit, BasicAlways, PTL DEF Spec

(* A joined player who may not move when it is placed or breaks a wall.    *)
LEMMA JoinedMoves ==
  ASSUME Basic, Prison, NEW f \in Fd, NEW s \in Slot, playerID[s] # NoFd,
         StartPlace(f) \/ (BreakWall(f) /\ s = SlotOf(f))
  PROVE  canMove[s]
<1>1. CASE StartPlace(f)
  <2>1. thread[f] = "starting"
    BY <1>1 DEF StartPlace, Holds, Basic, HolderOK
  <2>2. status = "NOT_STARTED"
    BY <2>1 DEF Prison, BeforeStart, StartsOnce
  <2> QED BY <2>2 DEF Prison, BeforeStart, NothingPlaced
<1>2. CASE BreakWall(f) /\ s = SlotOf(f)
  <2>1. phase = "break" /\ lock = f /\ Joined(f)
    BY <1>2 DEF BreakWall, Holds, Basic, HolderOK
  <2>2. playerID[SlotOf(f)] = f /\ s = SlotOf(f)
    BY <1>2, <2>1, OnlySlot
  <2> QED BY <2>1, <2>2 DEF Prison, MoverMoves
<1> QED BY <1>1, <1>2

(* A prisoner leaves its cell only for its own home, as a free player,     *)
(* whatever the other threads do and whether or not a session-lost handler *)
(* overlaps a lock holder.  Assumed: no host starts a second game, and an  *)
(* uninitialised position is no cell where somebody can stand.             *)
THEOREM PrisonersAreKept ==
  ASSUME "restart" \notin Habits, Garbage \cap Cell \subseteq {Origin}
  PROVE  Spec => PrisonersStay
<1> DEFINE Kept(s) == /\ playerID[s] # NoFd /\ playerID'[s] = playerID[s]
                      /\ ~canMove[s] /\ cellposition'[s] # cellposition[s]
                      => canMove'[s] /\ cellposition'[s] \in HomeCells(s[1])
<1>1. Basic /\ Prison /\ [Next]_vars => [\A s \in Slot : Kept(s)]_vars
  <2> SUFFICES ASSUME Basic, Prison, NEW f \in Fd, Request(f) \/ Handle(f) \/ Lost(f),
                      NEW s \in Slot, playerID[s] # NoFd, playerID'[s] = playerID[s],
                      ~canMove[s], cellposition'[s] # cellposition[s]
               PROVE  canMove'[s] /\ cellposition'[s] \in HomeCells(s[1])
    BY DEF Next
  <2>1. ~StartPlace(f) /\ ~(BreakWall(f) /\ s = SlotOf(f))
    BY JoinedMoves
  <2>2. ~(TagSlot(f) /\ Exposed(s, SlotOf(f)[1]))
    BY DEF Exposed
  <2> QED BY <2>1, <2>2, SlotStep
<1> QED BY <1>1, PrisonAlways, BasicAlways, PTL DEF Spec, PrisonersStay

----------------------------------------------------------------------------
(* Jails *)

Jail == {JAIL[1], JAIL[2]}

(* An occupied cell of a jail has a player on it.                          *)
Held(pos, occ) ==
  \A c \in occ : cellType[c] \in Jail => \E s \in Slot : playerID[s] # NoFd /\ pos[s] = c

(* There are not enough players to fill the cells a scan tries first.      *)
LEMMA JailFound ==
  ASSUME JailRoom, TypeOK, MapKept, OnePlayerPerConnection,
         NEW pos, NEW occ, Held(pos, occ), NEW t \in Team
  PROVE  ~JailFull(t, occ) /\ cellType[JailFor(t, occ)] = JAIL[Other(t)]
<1> DEFINE scan == JailScan[t]
<1>1. scan \in Seq(Cell \ {Origin}) /\ Other(t) \in Team
  BY ScanOK, TeamFacts
<1>2. PICK k \in 1..Len(scan) :
        /\ k > Cardinality(Fd)
        /\ \A n \in 1..k : InitType[scan[n]] = JAIL[Other(t)]
        /\ \A n, m \in 1..k : n # m => scan[n] # scan[m]
  BY DEF JailRoom
<1> HIDE DEF scan
<1>3. k \in Nat /\ Len(scan) \in Nat /\ \A n \in 1..k : n \in 1..Len(scan) /\ scan[n] \in Cell
  BY <1>1, <1>2
<1>4. \A n \in 1..k : cellType[scan[n]] = JAIL[Other(t)] /\ cellType[scan[n]] \in Jail
  <2> TAKE n \in 1..k
  <2>1. InitType[scan[n]] \in Jail /\ InitType[scan[n]] # "WALL_UNFIXED"
    BY <1>1, <1>2 DEF Jail, JAIL, Team
  <2> QED BY <1>2, <1>3, <2>1 DEF MapKept
<1>5. \E n \in 1..k : scan[n] \notin occ
  <2> SUFFICES ASSUME \A n \in 1..k : scan[n] \in occ PROVE FALSE
    OBVIOUS
  <2> DEFINE Who(n) == CHOOSE s \in Slot : playerID[s] # NoFd /\ pos[s] = scan[n]
             who == [n \in 1..k |-> playerID[Who(n)]]
  <2>1. \A n \in 1..k : Who(n) \in Slot /\ playerID[Who(n)] # NoFd /\ pos[Who(n)] = scan[n]
    BY <1>4 DEF Held
  <2> HIDE DEF Who
  <2>2. who \in [1..k -> Fd]
    BY <2>1 DEF TypeOK
  <2>3. IsFiniteSet(1..k) /\ Cardinality(1..k) = k
    BY <1>3, FS_Interval
  <2>4. PICK n, m \in 1..k : n # m /\ who[n] = who[m]
    <3>1. IsFiniteSet(Fd) /\ Cardinality(Fd) < Cardinality(1..k)
      BY <1>2, <1>3, <2>3, FdOK, FS_CardinalityType
    <3> HIDE DEF who
    <3> QED BY <2>2, <2>3, <3>1, FS_PigeonHole
  <2>5. Who(n) = Who(m)
    BY <2>1, <2>4 DEF OnePlayerPerConnection
  <2> QED BY <1>2, <2>1, <2>4, <2>5
<1>6. PICK n \in 1..k : scan[n] \notin occ
  BY <1>5
<1>7. ~JailFull(t, occ)
  BY <1>3, <1>6 DEF JailFull, scan
<1>8. \E c \in Cell : \E i \in 1..Len(JailScan[t]) :
        /\ c = JailScan[t][i] /\ c \notin occ
        /\ \A m \in 1..(i-1) : JailScan[t][m] \in occ
  <2> DEFINE S == {i \in 1..Len(scan) : scan[i] \notin occ}
  <2>1. S \subseteq Nat /\ S # {}
    BY <1>3, <1>6
  <2>2. PICK i \in S : \A m \in S : i <= m
    <3> HIDE DEF S
    <3> QED BY <2>1, LeastNatural
  <2>3. i \in 1..Len(scan) /\ scan[i] \notin occ /\ \A m \in 1..(i-1) : scan[m] \in occ
    BY <1>3, <2>2
  <2>4. scan[i] \in Cell
    BY <1>1, <2>3
  <2> QED BY <2>3, <2>4 DEF scan
<1>9. PICK i \in 1..Len(scan) :
        /\ JailFor(t, occ) = scan[i]
        /\ \A m \in 1..(i-1) : scan[m] \in occ
  BY <1>8, Zenon DEF JailFor, scan
<1>10. i \in 1..k
  BY <1>3, <1>6, <1>9
<1> QED BY <1>4, <1>7, <1>9, <1>10

(* A victim that may not move is in the jail of the other team.            *)
InPrison(g, v) == ~g.can[v] => /\ g.pos[v] \in Cell
                               /\ cellType[g.pos[v]] = JAIL[Other(v[1])]

(* One adjacency test puts the victim in a jail cell of its own.           *)
LEMMA TaggedHeld ==
  ASSUME JailRoom, TypeOK, MapKept, OnePlayerPerConnection,
         NEW g \in BoardPart, NEW v \in Slot, NEW at,
         Held(g.pos, g.occ), InPrison(g, v), playerID[v] # NoFd
  PROVE  Held(Tagged(g, v, at).pos, Tagged(g, v, at).occ) /\ InPrison(Tagged(g, v, at), v)
<1>1. CASE g.pos[v] # at
  BY <1>1 DEF Tagged
<1>2. CASE g.pos[v] = at
  <2> DEFINE cell == JailFor(v[1], g.occ)
  <2>1. v[1] \in Team
    BY TeamFacts
  <2>2. ~JailFull(v[1], g.occ) /\ cellType[cell] = JAIL[Other(v[1])]
    BY <2>1, JailFound
  <2>3. cell \in Cell
    BY <2>1, <2>2, JailForFree
  <2>4. /\ Tagged(g, v, at).pos = [g.pos EXCEPT ![v] = cell]
        /\ Tagged(g, v, at).occ = (g.occ \ {at}) \cup {cell}
    BY <1>2, <2>2 DEF Tagged
  <2>5. g.pos \in [Slot -> Cell \cup {Wild}]
    BY DEF BoardPart
  <2>6. Tagged(g, v, at).pos[v] = cell
    BY <2>4, <2>5
  <2> HIDE DEF cell
  <2>7. InPrison(Tagged(g, v, at), v)
    BY <2>2, <2>3, <2>6 DEF InPrison
  <2>8. ASSUME NEW c \in (g.occ \ {at}) \cup {cell}, cellType[c] \in Jail
        PROVE  \E s \in Slot : playerID[s] # NoFd /\ [g.pos EXCEPT ![v] = cell][s] = c
    <3>1. CASE c = cell
      BY <2>5, <3>1
    <3>2. CASE c # cell
      <4>1. PICK s \in Slot : playerID[s] # NoFd /\ g.pos[s] = c
        BY <2>8, <3>2 DEF Held
      <4>2. s # v
        BY <1>2, <2>8, <3>2, <4>1
      <4> QED BY <2>5, <4>1, <4>2
    <3> QED BY <3>1, <3>2
  <2>9. Held(Tagged(g, v, at).pos, Tagged(g, v, at).occ)
    BY <2>4, <2>8 DEF Held
  <2> QED BY <2>7, <2>9
<1> QED BY <1>1, <1>2

LEMMA TaggedAroundHeld ==
  ASSUME JailRoom, TypeOK, MapKept, OnePlayerPerConnection,
         NEW g \in BoardPart, NEW v \in Slot, NEW adj,
         Held(g.pos, g.occ), InPrison(g, v), playerID[v] # NoFd
  PROVE  LET r == TaggedAround(g, v, adj) IN Held(r.pos, r.occ) /\ InPrison(r, v)
<1> DEFINE up == Tagged(g, v, adj["UP"])
           right == Tagged(up, v, adj["RIGHT"])
           down == Tagged(right, v, adj["DOWN"])
           left == Tagged(down, v, adj["LEFT"])
<1>1. up \in BoardPart /\ Held(up.pos, up.occ) /\ InPrison(up, v)
  BY TaggedType, TaggedHeld
<1> HIDE DEF up
<1>2. right \in BoardPart /\ Held(right.pos, right.occ) /\ InPrison(right, v)
  BY <1>1, TaggedType, TaggedHeld
<1> HIDE DEF right
<1>3. down \in BoardPart /\ Held(down.pos, down.occ) /\ InPrison(down, v)
  BY <1>2, TaggedType, TaggedHeld
<1> HIDE DEF down
<1>4. Held(left.pos, left.occ) /\ InPrison(left, v)
  BY <1>3, TaggedHeld
<1>5. TaggedAround(g, v, adj) = left
  BY DEF TaggedAround, left, down, right, up
<1> QED BY <1>4, <1>5

(* An empty slot stands in the corner or, once freed, at its own home.     *)
Ghosts == \A s \in Slot : playerID[s] = NoFd
                           => cellposition[s] \in {Origin} \cup HomeCells(s[1])

(* What an overlap of a session-lost handler with a lock holder breaks.    *)
JailHeld == ~raced => Held(cellposition, occupied)
Vacated == ~raced => \A s \in Slot, f \in Fd : playerID[s] = f /\ thread[f] = "leaving"
                                                => cellposition[s] \notin occupied

(* PrisonersInJail needs to know who keeps the cells of the jails occupied. *)
Jails == /\ Prison /\ Uncrowded /\ Ghosts /\ JailHeld /\ Vacated /\ PrisonersInJail

LEMMA JailsInit == Init => Jails
<1>1. Init => Ghosts /\ JailHeld /\ Vacated /\ PrisonersInJail
  BY FdOK DEF Init, Ghosts, JailHeld, Held, Vacated, PrisonersInJail
<1> QED BY <1>1, PrisonInit, UncrowdedInit DEF Jails

(* Nobody tags an empty slot: it does not stand on the tagger's side.      *)
LEMMA ExposedJoined ==
  ASSUME Basic, MapKept, Ghosts, NEW v \in Slot, NEW t \in Team, v[1] = Other(t), Exposed(v, t)
  PROVE  playerID[v] # NoFd
<1> SUFFICES ASSUME playerID[v] = NoFd PROVE FALSE
  OBVIOUS
<1>1. cellposition[v] \in {Origin} \cup HomeCells(Other(t))
  BY DEF Ghosts
<1>2. cellType[cellposition[v]] \in {FLOOR[t], HOME[t]}
  BY DEF Exposed
<1>3. CASE cellposition[v] = Origin
  <2>1. cellType[Origin] = "WALL_FIXED"
    BY CellOK, MapOK DEF MapKept
  <2> QED BY <1>2, <1>3, <2>1, TeamFacts DEF FLOOR, HOME
<1>4. CASE cellposition[v] \in HomeCells(Other(t))
  <2>1. cellposition[v] \in Cell /\ InitType[cellposition[v]] = HOME[Other(t)]
    BY <1>4 DEF HomeCells
  <2>2. HOME[Other(t)] # "WALL_UNFIXED" /\ HOME[Other(t)] \notin {FLOOR[t], HOME[t]}
    BY DEF Team, Other, HOME, FLOOR
  <2>3. cellType[cellposition[v]] = InitType[cellposition[v]]
    BY <2>1, <2>2 DEF MapKept
  <2> QED BY <1>2, <2>1, <2>2, <2>3
<1> QED BY <1>1, <1>3, <1>4

LEMMA GhostsNext ==
  ASSUME Basic, MapKept, Ghosts, NEW f \in Fd, Request(f) \/ Handle(f) \/ Lost(f)
  PROVE  Ghosts'
<1> SUFFICES ASSUME NEW s \in Slot, playerID'[s] = NoFd
             PROVE  cellposition'[s] \in {Origin} \cup HomeCells(s[1])
  BY DEF Ghosts, HomeCells
<1>1. f # NoFd
  BY FdOK
<1>2. CASE playerID[s] = NoFd /\ cellposition'[s] = cellposition[s]
  BY <1>2 DEF Ghosts
<1>3. CASE cellposition'[s] \in {Origin} \cup HomeCells(s[1])
  BY <1>3
<1>4. ASSUME playerID[s] = NoFd, s = SlotOf(f), Joined(f) PROVE FALSE
  BY <1>1, <1>4, SlotOfJoined
<1>5. ASSUME TagSlot(f), s = <<Other(SlotOf(f)[1]), index>>, Exposed(s, SlotOf(f)[1])
      PROVE  playerID[s] # NoFd
  <2>1. SlotOf(f)[1] \in Team /\ s[1] = Other(SlotOf(f)[1])
    BY <1>5, SlotOfJoined, TeamFacts DEF TagSlot, Holds, Basic, HolderOK
  <2> QED BY <1>5, <2>1, ExposedJoined
<1>6. (BreakWall(f) \/ \E dest \in Cell : MoveStep(f, dest)) => Joined(f)
  BY DEF BreakWall, Holds, MoveStep, MoveTo, Basic, HolderOK
<1> QED BY <1>1, <1>2, <1>3, <1>4, <1>5, <1>6, SlotStep

(* A turn of the tag loop leaves the victim and everybody else where the   *)
(* jails are concerned as they should be.                                  *)
LEMMA TagJails ==
  ASSUME JailRoom, Basic, Jails, ~raced, NEW f \in Fd, TagSlot(f)
  PROVE  /\ Held(cellposition', occupied')
         /\ \A s \in Slot : playerID[s] # NoFd /\ ~canMove'[s]
              => cellposition'[s] \in Cell /\ cellType[cellposition'[s]] = JAIL[Other(s[1])]
<1>1. /\ Held(cellposition, occupied)
      /\ \A s \in Slot : playerID[s] # NoFd /\ ~canMove[s]
           => cellposition[s] \in Cell /\ cellType[cellposition[s]] = JAIL[Other(s[1])]
  BY DEF Jails, JailHeld, PrisonersInJail
<1>2. CASE UNCHANGED <<cellposition, canMove, occupied>>
  BY <1>1, <1>2
<1>3. CASE ~UNCHANGED <<cellposition, canMove, occupied>>
  <2> DEFINE v == <<Other(SlotOf(f)[1]), index>>
             now == [pos |-> cellposition, can |-> canMove, occ |-> occupied]
             g == TaggedAround(now, v, Adj[cellposition[SlotOf(f)]])
  <2>1. SlotOf(f) \in Slot /\ SlotOf(f)[1] \in Team
    BY SlotOfJoined, TeamFacts DEF TagSlot, Holds, Basic, HolderOK
  <2>2. v \in Slot /\ v[1] = Other(SlotOf(f)[1])
    BY <2>1, TeamFacts DEF TagSlot, Holds, Basic, HolderOK
  <2>3. /\ Exposed(v, SlotOf(f)[1])
        /\ cellposition' = g.pos /\ canMove' = g.can /\ occupied' = g.occ
    BY <1>3 DEF TagSlot, Crash, Holds, TaggedAround, board, player
  <2> HIDE DEF v
  <2>4. /\ now \in BoardPart /\ now.pos = cellposition /\ now.can = canMove
        /\ now.occ = occupied
    BY DEF BoardPart, Basic, TypeOK
  <2> HIDE DEF now
  <2>5. playerID[v] # NoFd /\ canMove[v]
    BY <2>1, <2>2, <2>3, ExposedJoined DEF Jails, Prison, Walls, Exposed
  <2>6. TypeOK /\ MapKept /\ OnePlayerPerConnection
    BY DEF Basic, Jails, Prison, Walls
  <2>7. Held(now.pos, now.occ) /\ InPrison(now, v)
    BY <1>1, <2>4, <2>5 DEF InPrison
  <2>8. Held(g.pos, g.occ) /\ InPrison(g, v)
    BY <2>2, <2>4, <2>5, <2>6, <2>7, TaggedAroundHeld
  <2>9. \A s \in Slot : s # v => g.pos[s] = cellposition[s] /\ g.can[s] = canMove[s]
    BY <2>2, <2>4, TaggedAroundVictim
  <2> HIDE DEF g
  <2> QED BY <1>1, <2>2, <2>3, <2>8, <2>9 DEF InPrison
<1> QED BY <1>2, <1>3

(* The cell of a prisoner does not change its type under it.               *)
LEMMA JailKept ==
  ASSUME Basic, MapKept, NEW f \in Fd, Request(f) \/ Handle(f) \/ Lost(f), NEW c \in Cell
  PROVE  (cellType[c] \in Jail <=> cellType'[c] \in Jail)
         /\ (cellType[c] \in Jail => cellType'[c] = cellType[c])
<1>1. CASE BreakWall(f)
  <2>1. /\ cellType' = [cellType EXCEPT ![target] = Broken(target)]
        /\ cellType[target] = "WALL_UNFIXED"
    BY <1>1 DEF BreakWall, Holds, MapKept
  <2>2. Broken(target) \notin Jail /\ "WALL_UNFIXED" \notin Jail
    BY DEF Broken, Jail, JAIL, FLOOR
  <2> QED BY <2>1, <2>2 DEF Basic, TypeOK
<1>2. CASE ~BreakWall(f)
  BY <1>2, MapUnchanged
<1> QED BY <1>1, <1>2

LEMMA PrisonersNext ==
  ASSUME JailRoom, Basic, Jails, NEW f \in Fd, Request(f) \/ Handle(f) \/ Lost(f)
  PROVE  PrisonersInJail'
<1> SUFFICES ASSUME ~raced', NEW s \in Slot, playerID'[s] # NoFd, ~canMove'[s]
             PROVE  /\ cellposition'[s] \in Cell
                    /\ cellType'[cellposition'[s]] = JAIL[Other(s[1])]
  BY DEF PrisonersInJail
<1>1. ~raced
  BY RacedStays
<1>2. Other(s[1]) \in Team
  BY TeamFacts
<1>3. MapKept /\ Prison
  BY DEF Jails, Prison, Walls
<1>4. cellposition'[s] \in Cell /\ cellType[cellposition'[s]] = JAIL[Other(s[1])]
  <2>1. CASE playerID[s] # NoFd /\ ~canMove[s] /\ cellposition'[s] = cellposition[s]
    BY <1>1, <2>1 DEF Jails, PrisonersInJail
  <2>2. CASE TagSlot(f) /\ playerID'[s] = playerID[s]
    BY <1>1, <2>2, TagJails
  <2>3. playerID[s] # NoFd /\ ~canMove[s]
          => ~StartPlace(f) /\ ~(BreakWall(f) /\ s = SlotOf(f))
    BY <1>3, JoinedMoves
  <2> QED BY <2>1, <2>2, <2>3, SlotStep
<1>5. JAIL[Other(s[1])] \in Jail
  BY <1>2 DEF Jail, Team
<1> QED BY <1>3, <1>4, <1>5, JailKept

(* A player who steps from its cell to c, when nobody else stands there.   *)
LEMMA HeldMove ==
  ASSUME NEW pos \in [Slot -> Cell \cup {Wild}], NEW occ, Held(pos, occ),
         NEW s \in Slot, NEW c, playerID[s] # NoFd \/ cellType[c] \notin Jail
  PROVE  Held([pos EXCEPT ![s] = c], (occ \ {pos[s]}) \cup {c})
<1> SUFFICES ASSUME NEW d \in (occ \ {pos[s]}) \cup {c}, cellType[d] \in Jail
             PROVE  \E r \in Slot : playerID[r] # NoFd /\ [pos EXCEPT ![s] = c][r] = d
  BY DEF Held
<1>1. CASE d = c
  BY <1>1
<1>2. CASE d # c
  <2>1. PICK r \in Slot : playerID[r] # NoFd /\ pos[r] = d
    BY <1>2 DEF Held
  <2>2. r # s
    BY <1>2, <2>1
  <2> QED BY <2>1, <2>2
<1> QED BY <1>1, <1>2

(* The steps that leave the players where they are.                        *)
LEMMA HeldStill ==
  ASSUME JailHeld, ~raced, UNCHANGED <<playerID, cellposition, cellType>>,
         occupied' \subseteq occupied
  PROVE  JailHeld'
BY DEF JailHeld, Held

LEMMA JailHeldNext ==
  ASSUME JailRoom, Basic, Jails, NEW f \in Fd, Request(f) \/ Handle(f) \/ Lost(f)
  PROVE  JailHeld'
<1> SUFFICES ASSUME ~raced' PROVE JailHeld'
  BY DEF JailHeld
<1>1. ~raced
  BY RacedStays
<1>2. Held(cellposition, occupied) /\ MapKept /\ Prison
  BY <1>1 DEF Jails, JailHeld, Prison, Walls
<1>3. cellposition \in [Slot -> Cell \cup {Wild}]
  BY DEF Basic, TypeOK
<1>4. ASSUME NEW t \in Team, NEW c \in HomeCells(t) PROVE cellType[c] \notin Jail
  BY <1>2, <1>4 DEF HomeCells, MapKept, Jail, HOME, JAIL, Team
<1>5. CASE Hello(f)
  <2>1. UNCHANGED <<occupied, cellType>>
    BY <1>5 DEF Hello
  <2>2. \A s \in Slot : playerID[s] # NoFd
          => playerID'[s] # NoFd /\ cellposition'[s] = cellposition[s]
    <3>1. PICK t \in Team, p \in Garbage : Insert(f, t, FirstPlayer, p)
      BY <1>5 DEF Hello, Team
    <3> QED BY <3>1, InsertSlot DEF player, Basic, TypeOK
  <2> QED BY <1>2, <2>1, <2>2 DEF JailHeld, Held
<1>6. CASE StartPlace(f)
  <2>1. status = "NOT_STARTED" /\ phase # "spawn"
    BY <1>6 DEF StartPlace, Holds, Basic, HolderOK, Jails, Prison, BeforeStart, StartsOnce
  <2>2. \A s \in Slot : cellposition[s] \in {Origin, Wild}
    BY <2>1 DEF Jails, Prison, BeforeStart, NothingPlaced
  <2>3. cellType[Origin] \notin Jail /\ occupied \subseteq Cell
    BY <1>2, CellOK, MapOK DEF MapKept, Jail, JAIL, Basic, TypeOK
  <2>4. \A c \in occupied : cellType[c] \notin Jail
    BY <1>2, <2>2, <2>3, CellOK DEF Held
  <2>5. PICK h \in Placement(checked[f]) :
          occupied' = occupied \cup {h[s] : s \in Placed(checked[f])}
    BY <1>6 DEF StartPlace
  <2>6. ASSUME NEW s \in Placed(checked[f]) PROVE cellType[h[s]] \notin Jail
    <3>1. h[s] \in HomeCells(s[1]) /\ s[1] \in Team
      BY <2>5, <2>6 DEF Placement, FreeHomes, Placed
    <3> QED BY <1>4, <3>1
  <2>7. cellType' = cellType
    BY <1>6 DEF StartPlace
  <2> QED BY <2>4, <2>5, <2>6, <2>7 DEF JailHeld, Held
<1>7. CASE BreakWall(f)
  <2>1. /\ cellposition' = [cellposition EXCEPT ![SlotOf(f)] = target]
        /\ occupied' = (occupied \ {cellposition[SlotOf(f)]}) \cup {target}
        /\ cellType[target] = "WALL_UNFIXED" /\ playerID' = playerID
    BY <1>2, <1>7 DEF BreakWall, Holds, MapKept
  <2>2. SlotOf(f) \in Slot /\ cellType[target] \notin Jail
    BY <1>7, <2>1, SlotOfJoined DEF BreakWall, Holds, Basic, HolderOK, Jail, JAIL
  <2>3. Held(cellposition', occupied')
    BY <1>2, <1>3, <2>1, <2>2, HeldMove
  <2>4. occupied' \subseteq Cell
    BY <2>1, <1>7 DEF Basic, TypeOK
  <2>5. \A c \in Cell : cellType'[c] \in Jail => cellType[c] \in Jail
    BY <1>2, <1>7, JailKept
  <2> QED BY <2>1, <2>3, <2>4, <2>5 DEF JailHeld, Held
<1>8. ASSUME NEW dest \in Cell, MoveStep(f, dest) PROVE JailHeld'
  <2>1. /\ cellposition' = [cellposition EXCEPT ![SlotOf(f)] = dest]
        /\ occupied' = (occupied \ {cellposition[SlotOf(f)]}) \cup {dest}
        /\ UNCHANGED <<playerID, cellType>> /\ Joined(f)
    BY <1>8 DEF MoveStep, MoveTo
  <2>2. SlotOf(f) \in Slot /\ playerID[SlotOf(f)] # NoFd
    BY <2>1, SlotOfJoined, FdOK
  <2>3. Held(cellposition', occupied')
    BY <1>2, <1>3, <2>1, <2>2, HeldMove
  <2> QED BY <2>1, <2>3 DEF JailHeld, Held
<1>9. CASE FreeSlot(f)
  <2> DEFINE s == <<SlotOf(f)[1], index>>
  <2>1. UNCHANGED <<playerID, cellType>>
    BY <1>9 DEF FreeSlot
  <2>2. CASE UNCHANGED <<cellposition, occupied>>
    BY <1>2, <2>1, <2>2 DEF JailHeld, Held
  <2>3. CASE ~UNCHANGED <<cellposition, occupied>>
    <3>1. PICK c \in HomeCells(s[1]) :
            /\ cellposition' = [cellposition EXCEPT ![s] = c]
            /\ occupied' = (occupied \ {cellposition[s]}) \cup {c}
      BY <1>9, <2>3 DEF FreeSlot, Frees, FreeHomes
    <3>2. s \in Slot /\ s[1] \in Team
      BY <1>9, SlotOfJoined, TeamFacts DEF FreeSlot, Holds, Basic, HolderOK
    <3> HIDE DEF s
    <3>3. cellType[c] \notin Jail
      BY <1>4, <3>2
    <3>4. Held(cellposition', occupied')
      BY <1>2, <1>3, <3>1, <3>2, <3>3, HeldMove
    <3> QED BY <2>1, <3>4 DEF JailHeld, Held
  <2> QED BY <2>2, <2>3
<1>10. CASE TagSlot(f)
  <2>1. Held(cellposition', occupied')
    BY <1>1, <1>10, TagJails
  <2>2. UNCHANGED <<playerID, cellType>>
    BY <1>10 DEF TagSlot, Crash, board, player
  <2> QED BY <2>1, <2>2 DEF JailHeld, Held
<1>11. CASE SlotCleared(f)
  <2>1. /\ SlotOf(f) \in Slot /\ playerID[SlotOf(f)] = f /\ thread[f] = "leaving"
        /\ playerID' = [playerID EXCEPT ![SlotOf(f)] = NoFd]
        /\ cellposition' = [cellposition EXCEPT ![SlotOf(f)] = Origin]
        /\ UNCHANGED <<occupied, cellType>>
    BY <1>11, SlotOfJoined DEF SlotCleared, Basic, HolderOK
  <2>2. cellposition[SlotOf(f)] \notin occupied
    BY <1>1, <2>1 DEF Jails, Vacated
  <2>3. ASSUME NEW c \in occupied, cellType[c] \in Jail
        PROVE  \E s \in Slot : playerID'[s] # NoFd /\ cellposition'[s] = c
    <3>1. PICK s \in Slot : playerID[s] # NoFd /\ cellposition[s] = c
      BY <1>2, <2>3 DEF Held
    <3>2. s # SlotOf(f)
      BY <2>2, <2>3, <3>1
    <3> QED BY <2>1, <3>1, <3>2 DEF Basic, TypeOK
  <2> QED BY <2>1, <2>3 DEF JailHeld, Held
<1>12. CASE \/ Connect(f) \/ HelloAgain(f) \/ StartCheck(f) \/ StartLock(f) \/ MoveCrash(f)
            \/ PickUp(f) \/ Drop(f) \/ StartSpawn(f) \/ MoveFinish(f) \/ SessionLost(f)
            \/ \E dest \in Cell : MoveBlocked(f, dest) \/ MoveIntoWall(f, dest)
  <2>1. UNCHANGED <<playerID, cellposition, cellType>> /\ occupied' \subseteq occupied
    BY <1>12 DEF Connect, HelloAgain, StartCheck, StartLock, MoveCrash, PickUp, Drop,
                 StartSpawn, MoveFinish, SessionLost, MoveBlocked, MoveIntoWall, Crash,
                 board, player
  <2> QED BY <1>1, <2>1, HeldStill DEF Jails
<1> QED BY <1>5, <1>6, <1>7, <1>8, <1>9, <1>10, <1>11, <1>12 DEF Request, Handle, Lost

(* Only the session-lost handler makes a thread leave.                     *)
LEMMA LeavingStep ==
  ASSUME Basic, NEW f \in Fd, Request(f) \/ Handle(f) \/ Lost(f),
         NEW g \in Fd, thread'[g] = "leaving"
  PROVE  \/ thread[g] = "leaving"
         \/ g = f /\ SessionLost(f) /\ Joined(f) /\ raced' = (raced \/ phase # "idle")
<1>1. CASE SessionLost(f)
  <2>1. \/ thread' = thread \/ thread' = [thread EXCEPT ![f] = "down"]
        \/ thread' = [thread EXCEPT ![f] = "leaving"] /\ Joined(f)
    BY <1>1 DEF SessionLost, Crash
  <2>2. raced' = (raced \/ phase # "idle")
    BY <1>1 DEF SessionLost
  <2> QED BY <1>1, <2>1, <2>2 DEF Basic, TypeOK
<1>2. CASE ~SessionLost(f)
  <2>1. \/ thread' = thread
        \/ \E x \in {"open", "ready", "starting", "down"} : thread' = [thread EXCEPT ![f] = x]
    BY <1>2 DEF Request, Connect, Hello, HelloAgain, StartCheck, StartLock, MoveCrash,
                PickUp, Drop, MoveBlocked, MoveIntoWall, MoveStep, Handle, StartPlace,
                StartSpawn, BreakWall, FreeSlot, TagSlot, MoveFinish, Lost,
                SlotCleared, Crash
  <2> QED BY <2>1 DEF Basic, TypeOK
<1> QED BY <1>1, <1>2

LEMMA VacatedNext ==
  ASSUME Basic, Uncrowded, Vacated, NEW f \in Fd, Request(f) \/ Handle(f) \/ Lost(f)
  PROVE  Vacated'
<1> SUFFICES ASSUME ~raced', NEW s \in Slot, NEW g \in Fd, playerID'[s] = g,
                    thread'[g] = "leaving"
             PROVE  cellposition'[s] \notin occupied'
  BY DEF Vacated
<1>1. ~raced
  BY RacedStays
<1>2. g # NoFd
  BY FdOK
<1>3. CASE phase # "idle"
  <2>1. thread[g] # "leaving"
    BY <1>1, <1>3 DEF Uncrowded
  <2>2. SessionLost(f) /\ raced' = (raced \/ phase # "idle")
    BY <2>1, LeavingStep
  <2>3. (raced \/ phase # "idle") = TRUE
    BY <1>3
  <2> QED BY <2>2, <2>3
<1>4. CASE phase = "idle" /\ thread[g] = "leaving"
  <2>1. ~Handle(f)
    BY <1>4 DEF Handle, StartPlace, StartSpawn, BreakWall, FreeSlot, TagSlot, MoveFinish,
                Holds
  <2>2. ~StartLock(f) /\ \A dest \in Cell : ~MoveIntoWall(f, dest) /\ ~MoveStep(f, dest)
    BY <1>4 DEF StartLock, MoveIntoWall, MoveStep, NoteRace
  <2>3. CASE Hello(f)
    <3>1. occupied' = occupied /\ thread' = [thread EXCEPT ![f] = "ready"]
      BY <2>3 DEF Hello
    <3>2. g # f
      BY <3>1 DEF Basic, TypeOK
    <3>3. playerID[s] = g /\ cellposition'[s] = cellposition[s]
      BY <1>2, <2>1, <2>2, <3>2, SlotStep DEF Handle
    <3> QED BY <1>1, <1>4, <3>1, <3>3 DEF Vacated
  <2>4. CASE SlotCleared(f)
    <3>1. /\ SlotOf(f) \in Slot /\ playerID[SlotOf(f)] = f
          /\ playerID' = [playerID EXCEPT ![SlotOf(f)] = NoFd]
          /\ cellposition' = [cellposition EXCEPT ![SlotOf(f)] = Origin]
          /\ occupied' = occupied
      BY <2>4, SlotOfJoined DEF SlotCleared, Basic, HolderOK
    <3>2. s # SlotOf(f)
      BY <1>2, <3>1 DEF Basic, TypeOK
    <3>3. playerID[s] = g /\ cellposition'[s] = cellposition[s]
      BY <3>1, <3>2 DEF Basic, TypeOK
    <3> QED BY <1>1, <1>4, <3>1, <3>3 DEF Vacated
  <2>5. CASE ~Hello(f) /\ ~SlotCleared(f)
    <3>1. UNCHANGED <<playerID, cellposition>> /\ occupied' \subseteq occupied
      BY <2>1, <2>2, <2>5 DEF Request, Connect, HelloAgain, StartCheck, MoveCrash, PickUp,
         Drop, MoveBlocked, Lost, SessionLost, Crash, board, player
    <3> QED BY <1>1, <1>4, <3>1 DEF Vacated
  <2> QED BY <2>3, <2>4, <2>5
<1>5. CASE thread[g] # "leaving"
  <2>1. g = f /\ SessionLost(f) /\ Joined(f)
    BY <1>5, LeavingStep
  <2>2. UNCHANGED <<playerID, cellposition>>
    BY <2>1 DEF SessionLost, Crash, board, player
  <2>3. s = SlotOf(f)
    BY <2>1, <2>2, OnlySlot
  <2>4. occupied' = occupied \ {cellposition[SlotOf(f)]}
    BY <1>5, <2>1 DEF SessionLost, Crash
  <2> QED BY <2>2, <2>3, <2>4
<1> QED BY <1>3, <1>4, <1>5

LEMMA JailsNext ==
  ASSUME JailRoom, "restart" \notin Habits, Garbage \cap Cell \subseteq {Origin},
         Basic, Jails, [Next]_vars
  PROVE  Jails'
<1>1. Prison'
  BY PrisonNext DEF Jails
<1>2. CASE UNCHANGED vars
  BY <1>1, <1>2
     DEF Jails, Uncrowded, NoSharedCell, Stands, Ghosts, JailHeld, Held, Vacated,
         PrisonersInJail, vars, board, player, holder
<1>3. ASSUME NEW f \in Fd, Request(f) \/ Handle(f) \/ Lost(f) PROVE Jails'
  <2>1. Uncrowded'
    BY <1>3, UncrowdedRequest, UncrowdedHandle, UncrowdedLost DEF Jails
  <2>2. Ghosts'
    BY <1>3, GhostsNext DEF Jails, Prison, Walls
  <2>3. JailHeld' /\ PrisonersInJail'
    BY <1>3, JailHeldNext, PrisonersNext
  <2>4. Vacated'
    BY <1>3, VacatedNext DEF Jails
  <2> QED BY <1>1, <2>1, <2>2, <2>3, <2>4 DEF Jails
<1> QED BY <1>2, <1>3 DEF Next

LEMMA JailsAlways ==
  ASSUME JailRoom, "restart" \notin Habits, Garbage \cap Cell \subseteq {Origin}
  PROVE  Spec => []Jails
<1>1. Basic /\ Jails /\ [Next]_vars => Jails'
  BY JailsNext
<1> QED BY <1>1, JailsInit, BasicAlways, PTL DEF Spec

(* Who may not move is in the jail of the other team, until a session-lost *)
(* handler overlaps a lock holder.  Assumed, besides what PrisonersAreKept *)
(* assumes: the scan tries more cells of that jail than there are          *)
(* connections, as it does on the map of the game for a few players.       *)
THEOREM PrisonersAreJailed ==
  ASSUME JailRoom, "restart" \notin Habits, Garbage \cap Cell \subseteq {Origin}
  PROVE  Spec => []PrisonersInJail
<1>1. Jails => PrisonersInJail
  BY DEF Jails
<1> QED BY <1>1, JailsAlways, PTL

----------------------------------------------------------------------------
(* The own flag *)

(* Only the handler that has moved a player onto its own floor leaves the  *)
(* flag there, until it finishes.                                          *)
OwnFlag ==
  ~raced =>
    \A s \in Slot : /\ inventory[s] = FLAG[s[1]] /\ cellposition[s] \in Cell
                    /\ cellType[cellposition[s]] = FLOOR[s[1]]
                    => phase \in {"tag", "free", "finish"} /\ playerID[s] = lock

LEMMA OwnFlagInit == Init => OwnFlag
BY TeamFacts DEF Init, OwnFlag, FLAG, Team

(* What the request handlers do to the inventory of a slot.                *)
LEMMA OwnFlagRequest ==
  ASSUME Basic, MapKept, OwnFlag, NEW f \in Fd, Request(f),
         Garbage \cap Cell \subseteq {Origin}
  PROVE  OwnFlag'
<1> SUFFICES ASSUME ~raced', NEW s \in Slot, inventory'[s] = FLAG[s[1]],
                    cellposition'[s] \in Cell, cellType'[cellposition'[s]] = FLOOR[s[1]]
             PROVE  phase' \in {"tag", "free", "finish"} /\ playerID'[s] = lock'
  BY DEF OwnFlag
<1>1. ~raced
  BY RacedStays
<1>2. s[1] \in Team /\ FLAG[s[1]] # "NONE"
  BY TeamFacts DEF Team, FLAG
<1>3. CASE phase # "idle"
  <2>1. UNCHANGED <<playerID, cellposition, inventory, cellType, lock, phase>>
    BY <1>3, HeldRequest
  <2> QED BY <1>1, <2>1 DEF OwnFlag
<1>4. CASE phase = "idle" /\ UNCHANGED <<cellposition, inventory, cellType>>
  BY <1>1, <1>4 DEF OwnFlag
<1>5. CASE phase = "idle" /\ Hello(f)
  <2>1. PICK t \in Team, p \in Garbage : Insert(f, t, FirstPlayer, p)
    BY <1>5 DEF Hello, Team
  <2>2. cellType' = cellType
    BY <1>5 DEF Hello
  <2>3. CASE UNCHANGED player
    BY <1>4, <1>5, <2>2, <2>3 DEF player
  <2>4. CASE ~UNCHANGED player
    <3>1. PICK r \in Slot :
              /\ playerID[r] = NoFd
              /\ playerID' = [playerID EXCEPT ![r] = f]
              /\ cellposition' = [cellposition EXCEPT ![r] = p]
              /\ canMove' = [canMove EXCEPT ![r] = TRUE]
              /\ isHost' = [isHost EXCEPT ![r] = FirstPlayer]
              /\ inventory' = [inventory EXCEPT ![r] = "NONE"]
      BY <2>1, <2>4, InsertSlot
    <3>2. s # r /\ inventory[s] = FLAG[s[1]] /\ cellposition'[s] = cellposition[s]
      BY <1>2, <3>1 DEF Basic, TypeOK
    <3> QED BY <1>1, <1>5, <2>2, <3>2 DEF OwnFlag
  <2> QED BY <2>3, <2>4
<1>6. ASSUME NEW dest \in Cell, MoveStep(f, dest), phase = "idle"
      PROVE  phase' \in {"tag", "free", "finish"} /\ playerID'[s] = lock'
  <2>1. /\ cellposition' = [cellposition EXCEPT ![SlotOf(f)] = dest]
        /\ UNCHANGED <<playerID, inventory, cellType>> /\ Joined(f)
        /\ lock' = f /\ phase' \in {"tag", "free", "finish"}
    BY <1>6 DEF MoveStep, MoveTo, Hold
  <2>2. SlotOf(f) \in Slot /\ playerID[SlotOf(f)] = f
    BY <2>1, SlotOfJoined
  <2>3. CASE s = SlotOf(f)
    BY <2>1, <2>2, <2>3
  <2>4. CASE s # SlotOf(f)
    <3>1. cellposition'[s] = cellposition[s]
      BY <2>1, <2>4 DEF Basic, TypeOK
    <3> QED BY <1>1, <1>6, <2>1, <3>1 DEF OwnFlag
  <2> QED BY <2>3, <2>4
<1>7. CASE phase = "idle" /\ PickUp(f)
  <2>1. PICK o \in Here(SlotOf(f)) :
          /\ ~(o = FLAG[SlotOf(f)[1]] /\ OnOwnSide(SlotOf(f)))
          /\ inventory' = [inventory EXCEPT ![SlotOf(f)] = o]
    BY <1>7 DEF PickUp
  <2>2. UNCHANGED <<cellposition, cellType>>
    BY <1>7 DEF PickUp
  <2>3. s # SlotOf(f)
    <3>1. ASSUME s = SlotOf(f) PROVE FALSE
      <4>1. o = FLAG[s[1]]
        BY <2>1, <3>1 DEF Basic, TypeOK
      <4>2. OnOwnSide(s)
        BY <2>2 DEF OnOwnSide
      <4> QED BY <2>1, <3>1, <4>1, <4>2
    <3> QED BY <3>1
  <2>4. inventory[s] = FLAG[s[1]]
    BY <2>1, <2>3 DEF Basic, TypeOK
  <2> QED BY <1>1, <1>7, <2>2, <2>4 DEF OwnFlag
<1>8. CASE phase = "idle" /\ Drop(f)
  <2>1. /\ inventory' = [inventory EXCEPT ![SlotOf(f)] = "NONE"]
        /\ UNCHANGED <<cellposition, cellType>>
    BY <1>8 DEF Drop
  <2>2. inventory[s] = FLAG[s[1]]
    BY <1>2, <2>1 DEF Basic, TypeOK
  <2> QED BY <1>1, <1>8, <2>1, <2>2 DEF OwnFlag
<1>9. CASE \/ Connect(f) \/ HelloAgain(f) \/ StartCheck(f) \/ StartLock(f) \/ MoveCrash(f)
           \/ \E dest \in Cell : MoveBlocked(f, dest) \/ MoveIntoWall(f, dest)
  <2>1. UNCHANGED <<cellposition, inventory, cellType>>
    BY <1>9 DEF Connect, HelloAgain, StartCheck, StartLock, MoveCrash, MoveBlocked,
                MoveIntoWall, Crash, board, player
  <2> QED BY <1>3, <1>4, <2>1
<1> QED BY <1>3, <1>5, <1>6, <1>7, <1>8, <1>9 DEF Request

(* The handlers: a broken wall becomes floor under nobody else, a victim   *)
(* lands in a jail, and the end of the move takes the flag away.           *)
LEMMA OwnFlagHandle ==
  ASSUME JailRoom, Basic, Jails, OwnFlag, NEW f \in Fd, Handle(f)
  PROVE  OwnFlag'
<1> SUFFICES ASSUME ~raced', NEW s \in Slot, inventory'[s] = FLAG[s[1]],
                    cellposition'[s] \in Cell, cellType'[cellposition'[s]] = FLOOR[s[1]]
             PROVE  phase' \in {"tag", "free", "finish"} /\ playerID'[s] = lock'
  BY DEF OwnFlag
<1>1. ~raced /\ lock = f /\ phase # "idle" /\ MapKept
  BY RacedStays DEF Handle, StartPlace, StartSpawn, BreakWall, FreeSlot, TagSlot, MoveFinish,
                    Holds, Jails, Prison, Walls
<1>2. s[1] \in Team /\ FLAG[s[1]] # "NONE" /\ FLOOR[s[1]] \notin Jail /\ Other(s[1]) \in Team
  BY TeamFacts DEF Team, FLAG, FLOOR, Jail, JAIL
<1>3. ASSUME inventory[s] = FLAG[s[1]], cellposition'[s] = cellposition[s],
             cellType'[cellposition[s]] = cellType[cellposition[s]]
      PROVE  phase \in {"tag", "free", "finish"} /\ playerID[s] = lock
  BY <1>1, <1>3 DEF OwnFlag
<1>4. ASSUME cellposition'[s] \in HomeCells(s[1]), cellType' = cellType PROVE FALSE
  <2>1. cellposition'[s] \in Cell /\ InitType[cellposition'[s]] = HOME[s[1]]
    BY <1>4 DEF HomeCells
  <2>2. HOME[s[1]] \notin {"WALL_UNFIXED", FLOOR[s[1]]}
    BY <1>2 DEF HOME, FLOOR, Team
  <2> QED BY <1>1, <1>4, <2>1, <2>2 DEF MapKept
<1>5. CASE StartPlace(f)
  <2>1. phase = "start" /\ UNCHANGED <<inventory, cellType>>
    BY <1>5 DEF StartPlace, Holds
  <2>2. cellposition'[s] = cellposition[s] \/ cellposition'[s] \in HomeCells(s[1])
    <3>1. /\ ~Hello(f) /\ ~BreakWall(f) /\ ~FreeSlot(f) /\ ~TagSlot(f)
          /\ ~SlotCleared(f) /\ \A dest \in Cell : ~MoveStep(f, dest)
      BY <1>1, <1>5, <2>1, FdOK DEF Hello, SaysHello, StartPlace, BreakWall, FreeSlot,
         TagSlot, SlotCleared, MoveStep, Enter, Holds, Basic, HolderOK
    <3> QED BY <3>1, SlotStep
  <2> QED BY <1>3, <1>4, <2>1, <2>2
<1>6. CASE StartSpawn(f)
  <2>1. phase = "spawn" /\ UNCHANGED <<inventory, cellposition, cellType>>
    BY <1>6 DEF StartSpawn, Holds, player
  <2> QED BY <1>3, <2>1
<1>7. CASE BreakWall(f)
  <2>1. /\ phase = "break" /\ target \in Cell /\ target \notin occupied
        /\ inventory' = [inventory EXCEPT ![SlotOf(f)] = "NONE"]
        /\ cellposition' = [cellposition EXCEPT ![SlotOf(f)] = target]
        /\ cellType' = [cellType EXCEPT ![target] = Broken(target)]
        /\ cellType[target] = "WALL_UNFIXED"
    BY <1>1, <1>7 DEF BreakWall, Holds, Basic, HolderOK, TypeOK, MapKept
  <2>2. s # SlotOf(f) /\ inventory[s] = FLAG[s[1]] /\ cellposition'[s] = cellposition[s]
    BY <1>2, <2>1 DEF Basic, TypeOK
  <2>3. Apart(cellposition, occupied)
    BY <1>1, ApartFromStands DEF Jails, Uncrowded
  <2>4. cellType[Origin] = "WALL_FIXED"
    BY <1>1, CellOK, MapOK DEF MapKept
  <2>5. cellposition[s] # target
    BY <2>1, <2>3, <2>4 DEF Apart
  <2>6. cellType'[cellposition[s]] = cellType[cellposition[s]]
    BY <2>1, <2>2, <2>5 DEF Basic, TypeOK
  <2> QED BY <1>3, <2>1, <2>2, <2>6
<1>8. CASE FreeSlot(f)
  <2>1. /\ UNCHANGED <<playerID, inventory, cellType, lock>>
        /\ phase' \in {"free", "finish"}
    BY <1>8 DEF FreeSlot, NextIndex, Holds
  <2>2. cellposition'[s] = cellposition[s] \/ cellposition'[s] \in HomeCells(s[1])
    <3> DEFINE r == <<SlotOf(f)[1], index>>
    <3>1. CASE UNCHANGED cellposition
      BY <3>1
    <3>2. CASE ~UNCHANGED cellposition
      <4>1. PICK c \in HomeCells(r[1]) : cellposition' = [cellposition EXCEPT ![r] = c]
        BY <1>8, <3>2 DEF FreeSlot, Frees, FreeHomes
      <4> HIDE DEF r
      <4> QED BY <4>1 DEF Basic, TypeOK
    <3> QED BY <3>1, <3>2
  <2> QED BY <1>3, <1>4, <2>1, <2>2
<1>9. CASE TagSlot(f)
  <2>1. /\ UNCHANGED <<playerID, inventory, cellType, lock>>
        /\ phase' \in {"tag", "finish"}
    BY <1>9 DEF TagSlot, NextIndex, Holds, Crash, board, player, holder
  <2>2. CASE cellposition'[s] = cellposition[s]
    BY <1>3, <2>1, <2>2
  <2>3. CASE cellposition'[s] # cellposition[s]
    <3>1. ~canMove'[s] /\ s = <<Other(SlotOf(f)[1]), index>> /\ Exposed(s, SlotOf(f)[1])
      <4>1. /\ phase = "tag" /\ lock # Free /\ ~Hello(f) /\ ~StartPlace(f) /\ ~BreakWall(f)
            /\ ~FreeSlot(f) /\ ~SlotCleared(f) /\ \A dest \in Cell : ~MoveStep(f, dest)
        BY <1>1, <1>9, FdOK DEF TagSlot, Holds, Hello, SaysHello, StartPlace, BreakWall,
           FreeSlot, SlotCleared, MoveStep, Enter, Basic, HolderOK
      <4> QED BY <2>3, <4>1, SlotStep
    <3>2. SlotOf(f)[1] \in Team /\ s[1] = Other(SlotOf(f)[1])
      BY <1>9, <3>1, SlotOfJoined, TeamFacts DEF TagSlot, Holds, Basic, HolderOK
    <3>3. playerID[s] # NoFd
      BY <1>1, <3>1, <3>2, ExposedJoined DEF Jails
    <3>4. cellType[cellposition'[s]] = JAIL[Other(s[1])]
      BY <1>1, <1>9, <3>1, <3>3, TagJails
    <3>5. JAIL[Other(s[1])] \in Jail
      BY <1>2 DEF Jail, Team
    <3> QED BY <1>2, <2>1, <3>4, <3>5
  <2> QED BY <2>2, <2>3
<1>10. CASE MoveFinish(f)
  <2>1. /\ UNCHANGED <<playerID, cellposition, cellType>> /\ Joined(f)
        /\ Carry(SlotOf(f)) /\ phase = "finish"
    BY <1>10 DEF MoveFinish, Holds, Basic, HolderOK
  <2>2. inventory[s] = FLAG[s[1]]
    BY <1>2, <2>1 DEF Carry, Basic, TypeOK
  <2>3. s = SlotOf(f)
    BY <1>1, <1>3, <2>1, <2>2, OnlySlot
  <2>4. inventory' = [inventory EXCEPT ![s] = "NONE"]
    BY <1>2, <2>1, <2>2, <2>3 DEF Carry
  <2> QED BY <1>2, <2>4 DEF Basic, TypeOK
<1> QED BY <1>5, <1>6, <1>7, <1>8, <1>9, <1>10 DEF Handle

LEMMA OwnFlagLost ==
  ASSUME Basic, Uncrowded, OwnFlag, NEW f \in Fd, Lost(f)
  PROVE  OwnFlag'
<1> SUFFICES ASSUME ~raced', NEW s \in Slot, inventory'[s] = FLAG[s[1]],
                    cellposition'[s] \in Cell, cellType'[cellposition'[s]] = FLOOR[s[1]]
             PROVE  phase' \in {"tag", "free", "finish"} /\ playerID'[s] = lock'
  BY DEF OwnFlag
<1>1. ~raced
  BY RacedStays
<1>2. FLAG[s[1]] # "NONE"
  BY TeamFacts DEF Team, FLAG
<1>3. UNCHANGED <<cellType, phase, lock>>
  BY DEF Lost, SessionLost, SlotCleared, Crash, board, holder
<1>4. inventory[s] = FLAG[s[1]] /\ cellposition'[s] = cellposition[s]
      /\ playerID'[s] = playerID[s]
  <2>1. CASE SlotCleared(f)
    <3>1. /\ SlotOf(f) \in Slot
          /\ playerID' = [playerID EXCEPT ![SlotOf(f)] = NoFd]
          /\ cellposition' = [cellposition EXCEPT ![SlotOf(f)] = Origin]
          /\ inventory' = [inventory EXCEPT ![SlotOf(f)] = "NONE"]
      BY <2>1, SlotOfJoined DEF SlotCleared, Basic, HolderOK
    <3>2. s # SlotOf(f)
      BY <1>2, <3>1 DEF Basic, TypeOK
    <3> QED BY <3>1, <3>2 DEF Basic, TypeOK
  <2>2. CASE SessionLost(f)
    <3>1. /\ UNCHANGED <<playerID, cellposition>>
          /\ \/ inventory' = inventory
             \/ inventory' = [inventory EXCEPT ![SlotOf(f)] = "NONE"]
      BY <2>2 DEF SessionLost, Crash, board, player
    <3> QED BY <1>2, <3>1 DEF Basic, TypeOK
  <2> QED BY <2>1, <2>2 DEF Lost
<1> QED BY <1>1, <1>3, <1>4 DEF OwnFlag

(* Between requests no player carries its own team's flag on its own       *)
(* floor, on every map with room in its jails, until a session-lost        *)
(* handler overlaps a lock holder.                                         *)
THEOREM OwnFlagStaysOut ==
  ASSUME JailRoom, "restart" \notin Habits, Garbage \cap Cell \subseteq {Origin}
  PROVE  Spec => [](~raced => OwnFlagNotCarriedHome)
<1>1. Basic /\ Jails /\ OwnFlag /\ [Next]_vars => OwnFlag'
  <2> SUFFICES ASSUME Basic, Jails, OwnFlag, [Next]_vars PROVE OwnFlag'
    OBVIOUS
  <2>1. CASE UNCHANGED vars
    BY <2>1 DEF OwnFlag, vars, board, player, holder
  <2>2. ASSUME NEW f \in Fd, Request(f) \/ Handle(f) \/ Lost(f) PROVE OwnFlag'
    BY <2>2, OwnFlagRequest, OwnFlagHandle, OwnFlagLost DEF Jails, Prison, Walls
  <2> QED BY <2>1, <2>2 DEF Next
<1>2. OwnFlag => (~raced => OwnFlagNotCarriedHome)
  BY DEF OwnFlag, OwnFlagNotCarriedHome
<1> QED BY <1>1, <1>2, OwnFlagInit, JailsAlways, BasicAlways, PTL DEF Spec

(* Where no session is lost nothing overlaps.                              *)
LEMMA NoOverlap ==
  ASSUME "lost" \notin Habits
  PROVE  Spec => []~raced
<1> DEFINE Nobody == ~raced /\ \A f \in Fd : thread[f] # "leaving"
<1>1. Init => Nobody
  BY DEF Init
<1>2. Basic /\ Nobody /\ [Next]_vars => Nobody'
  <2> SUFFICES ASSUME Basic, Nobody, [Next]_vars PROVE Nobody'
    OBVIOUS
  <2>1. CASE UNCHANGED vars
    BY <2>1 DEF vars
  <2>2. ASSUME NEW f \in Fd, Request(f) \/ Handle(f) \/ Lost(f) PROVE Nobody'
    <3>1. ~SessionLost(f)
      BY DEF SessionLost
    <3>2. \A g \in Fd : thread'[g] # "leaving"
      BY <2>2, <3>1, LeavingStep
    <3>3. ~raced'
      BY <2>2, <3>1
         DEF Request, Connect, Hello, HelloAgain, StartCheck, StartLock, MoveCrash, PickUp,
             Drop, MoveBlocked, MoveIntoWall, MoveStep, Handle, StartPlace, StartSpawn,
             BreakWall, FreeSlot, TagSlot, MoveFinish, Lost, SlotCleared, Holds, NoteRace
    <3> QED BY <3>2, <3>3
  <2> QED BY <2>1, <2>2 DEF Next
<1>3. Nobody => ~raced
  OBVIOUS
<1> HIDE DEF Nobody
<1> QED BY <1>1, <1>2, <1>3, BasicAlways, PTL DEF Spec

(* In a game whose players stay, no player ever carries its own team's     *)
(* flag on its own floor between requests.                                 *)
THEOREM OwnFlagNeverHome ==
  ASSUME JailRoom, Habits \subseteq {"hello again"}, Garbage \cap Cell \subseteq {Origin}
  PROVE  Spec => []OwnFlagNotCarriedHome
<1>1. "lost" \notin Habits /\ "restart" \notin Habits
  OBVIOUS
<1> QED BY <1>1, NoOverlap, OwnFlagStaysOut, PTL

----------------------------------------------------------------------------
(* The holder of GameLock comes to its end *)

(* How many steps the handler that holds GameLock has ahead of it at most. *)
Ahead == CASE phase = "start" -> 2
           [] phase \in {"spawn", "break", "finish"} -> 1
           [] phase \in {"free", "tag"} -> MaxPlayers + 2 - index
           [] OTHER -> 0

(* Inside a handler only its own steps change where it is, and each brings *)
(* it nearer to its end or kills the server.                               *)
HandlerStep ==
  phase # "idle" => \/ Handle(lock) /\ (Ahead' < Ahead \/ crashed')
                    \/ UNCHANGED holder

(* The guards of the steps of a handler, apart from holding GameLock: what *)
(* each random draw needs in order to find a cell.                         *)
MayPlace(f) == phase = "start" /\ Placement(checked[f]) # {}
MaySpawn == /\ phase = "spawn"
            /\ \E new \in [Objects -> Cell] : \A o \in Objects :
                 new[o] \in Spawnable(o, [p \in Objects |->
                   IF Turn(p) < Turn(o) THEN new[p] ELSE objPos[p]])
MayBreak(f) == phase = "break" /\ Spawnable(inventory[SlotOf(f)], objPos) # {}
MayFree(f) ==
  LET s == <<SlotOf(f)[1], index>>
  IN phase = "free" /\ (Frees(s) => FreeHomes(s[1], occupied \ {cellposition[s]}) # {})
MayFinish(f) ==
  LET s == SlotOf(f)
      o == inventory[s]
      moved == [objPos EXCEPT ![o] = cellposition[s]]
  IN phase = "finish" /\ (o = FLAG[s[1]] /\ cellType[cellposition[s]] = FLOOR[s[1]]
                            => Spawnable(o, moved) # {})
CanHandle(f) ==
  ~crashed /\ lock = f /\ (\/ MayPlace(f) \/ MaySpawn \/ MayBreak(f) \/ MayFree(f)
                           \/ phase = "tag" \/ MayFinish(f))

(* The cells marked occupied where no slot stands, and the slots that have *)
(* been joined.                                                            *)
Astray(pos, occ) == occ \ {pos[s] : s \in Slot}
Stray == Astray(cellposition, occupied)
Taken == {s \in Slot : playerID[s] # NoFd}

(* A cell goes astray only when somebody joins the game in a slot the free *)
(* loop had sent home empty.                                               *)
FewStray == IsFiniteSet(Stray) /\ Cardinality(Stray) <= Cardinality(Taken)

(* Before the start no cell is marked.                                     *)
Unmarked == status = "NOT_STARTED" /\ phase # "spawn" => occupied = {}

(* Every home and every floor has more cells than the players can mark and *)
(* the objects can take.                                                   *)
Roomy == \A o \in Object : /\ IsFiniteSet(SpawnCells(o))
                           /\ Cardinality(SpawnCells(o)) > 4 * MaxPlayers + 4

(* A hello puts the connection into one empty slot, or none.               *)
LEMMA HelloSlot ==
  ASSUME TypeOK, NEW f \in Fd, Hello(f)
  PROVE  /\ \A s \in Slot : playerID'[s] \in {f, playerID[s]}
         /\ \/ UNCHANGED <<playerID, cellposition>>
            \/ \E s \in Slot, p \in Garbage :
                 /\ playerID[s] = NoFd
                 /\ playerID' = [playerID EXCEPT ![s] = f]
                 /\ cellposition' = [cellposition EXCEPT ![s] = p]
<1>1. PICK t \in Team, p \in Garbage : Insert(f, t, FirstPlayer, p)
  BY DEF Hello, Team
<1>2. CASE UNCHANGED player
  BY <1>2 DEF player
<1>3. CASE ~UNCHANGED player
  <2>1. PICK s \in Slot :
           /\ playerID[s] = NoFd
           /\ playerID' = [playerID EXCEPT ![s] = f]
           /\ cellposition' = [cellposition EXCEPT ![s] = p]
           /\ canMove' = [canMove EXCEPT ![s] = TRUE]
           /\ isHost' = [isHost EXCEPT ![s] = FirstPlayer]
           /\ inventory' = [inventory EXCEPT ![s] = "NONE"]
    BY <1>1, <1>3, InsertSlot
  <2> QED BY <2>1 DEF TypeOK
<1> QED BY <1>2, <1>3

(* The way of a handler as its steps take it.                              *)
LEMMA HandlePhase ==
  ASSUME TypeOK, HolderOK, NEW f \in Fd, Handle(f)
  PROVE  /\ lock = f /\ phase # "idle" /\ Ahead \in Nat /\ Ahead' \in Nat
         /\ Ahead' < Ahead \/ crashed'
         /\ IF phase' = "idle" THEN lock' = Free ELSE lock' = f
<1>1. CASE StartPlace(f)
  BY <1>1 DEF StartPlace, Holds, Ahead
<1>2. CASE StartSpawn(f) \/ BreakWall(f) \/ MoveFinish(f)
  BY <1>2 DEF StartSpawn, BreakWall, MoveFinish, Release, Holds, Ahead
<1>3. index \in 0..MaxPlayers /\ MaxPlayers \in Nat /\ MaxPlayers > 0
  BY MaxPlayersOK DEF TypeOK
<1>4. CASE FreeSlot(f)
  BY <1>3, <1>4 DEF FreeSlot, Holds, NextIndex, Ahead
<1>5. CASE TagSlot(f) /\ ~crashed'
  <2>1. NextIndex
    BY <1>5, TagSlotTurn
  <2> QED BY <1>3, <1>5, <2>1 DEF TagSlot, Holds, NextIndex, Ahead
<1>6. CASE TagSlot(f) /\ crashed'
  <2>1. UNCHANGED holder
    BY <1>6 DEF TagSlot, Crash, Holds
  <2> QED BY <1>3, <1>6, <2>1 DEF TagSlot, Holds, Ahead, holder
<1> QED BY <1>1, <1>2, <1>4, <1>5, <1>6 DEF Handle

(* A handler that holds GameLock goes through a bounded number of steps,   *)
(* whatever the other threads do: start two, breaking a wall one, a move   *)
(* one turn for every slot of a team and its end.                          *)
THEOREM HandlersAdvance == Spec => [][HandlerStep]_vars
<1>1. Basic /\ [Next]_vars => [HandlerStep]_vars
  <2> SUFFICES ASSUME Basic, NEW f \in Fd, Request(f) \/ Handle(f) \/ Lost(f)
               PROVE  HandlerStep
    BY DEF Next
  <2>1. CASE Handle(f)
    BY <2>1, HandlePhase DEF Basic, HandlerStep
  <2>2. CASE Request(f)
    BY <2>2, HeldRequest DEF HandlerStep, holder
  <2>3. CASE Lost(f)
    BY <2>3 DEF Lost, SessionLost, SlotCleared, Crash, HandlerStep, holder
  <2> QED BY <2>1, <2>2, <2>3
<1> QED BY <1>1, BasicAlways, PTL DEF Spec

LockInside == lock # Free <=> phase # "idle"

(* GameLock is held exactly while a handler is inside, unless a connection *)
(* says hello twice: no way through a handler keeps the lock.              *)
THEOREM LockHeldInside ==
  ASSUME "hello again" \notin Habits
  PROVE  Spec => []LockInside
<1> DEFINE Inside == LockInside /\ \A f \in Fd : thread[f] \in {"down", "open"} => ~Joined(f)
<1>1. Init => Inside
  <2>1. Init => LockInside
    BY DEF Init, LockInside
  <2>2. Init => \A f \in Fd : ~Joined(f)
    BY FdOK DEF Init, Joined
  <2> QED BY <2>1, <2>2
<1>2. Basic /\ Inside /\ [Next]_vars => Inside'
  <2> SUFFICES ASSUME Basic, Inside, [Next]_vars PROVE Inside'
    OBVIOUS
  <2>1. CASE UNCHANGED vars
    BY <2>1, JoinedKept DEF LockInside, vars, board, player, holder
  <2>2. ASSUME NEW f \in Fd, Handle(f) PROVE Inside'
    <3>1. playerID' = playerID
      BY <2>2 DEF Handle, StartPlace, StartSpawn, BreakWall, FreeSlot, TagSlot, MoveFinish,
                  Crash, board, player
    <3>2. thread' = thread \/ thread' = [thread EXCEPT ![f] = "ready"]
      BY <2>2 DEF Handle, StartPlace, StartSpawn, BreakWall, FreeSlot, TagSlot, MoveFinish,
                  Crash
    <3>3. LockInside'
      BY <2>2, HandlePhase, FdOK DEF Basic, LockInside
    <3> QED BY <3>1, <3>2, <3>3, JoinedKept DEF Basic, TypeOK
  <2>3. ASSUME NEW f \in Fd, Request(f) PROVE Inside'
    <3>1. ~HelloAgain(f)
      BY DEF HelloAgain, SaysHello
    <3>2. CASE Hello(f)
      <4>1. \A s \in Slot : playerID'[s] \in {f, playerID[s]}
        BY <3>2, HelloSlot, Zenon DEF Basic
      <4>2. \A g \in Fd : thread'[g] \in {"down", "open"}
                               => g # f /\ thread[g] \in {"down", "open"}
        BY <3>2 DEF Hello, Basic, TypeOK
      <4> QED BY <3>2, <4>1, <4>2 DEF Hello, LockInside, Joined, holder
    <3>3. CASE Connect(f)
      BY <3>3, JoinedKept DEF Connect, LockInside, board, player, holder, Basic, TypeOK
    <3>4. CASE StartCheck(f) \/ StartLock(f) \/ MoveCrash(f) \/ PickUp(f) \/ Drop(f)
               \/ \E dest \in Cell :
                    MoveBlocked(f, dest) \/ MoveIntoWall(f, dest) \/ MoveStep(f, dest)
      <4>1. /\ playerID' = playerID
            /\ \A g \in Fd : thread'[g] \in {"down", "open"} => thread[g] \in {"down", "open"}
        BY <3>4 DEF StartCheck, StartLock, MoveCrash, PickUp, Drop, MoveBlocked, MoveIntoWall,
                    MoveStep, Crash, board, player, Basic, TypeOK
      <4>2. LockInside'
        BY <3>4, FdOK DEF StartCheck, StartLock, MoveCrash, PickUp, Drop, MoveBlocked,
                    MoveIntoWall, MoveStep, Crash, Hold, holder, LockInside
      <4> QED BY <4>1, <4>2, JoinedKept
    <3> QED BY <2>3, <3>1, <3>2, <3>3, <3>4 DEF Request
  <2>4. ASSUME NEW f \in Fd, Lost(f) PROVE Inside'
    <3>1. UNCHANGED <<lock, phase>>
      BY <2>4 DEF Lost, SessionLost, SlotCleared, Crash, holder
    <3>2. CASE SessionLost(f)
      <4>1. playerID' = playerID
        BY <3>2 DEF SessionLost, Crash, board, player
      <4>2. \/ thread' = thread
            \/ thread' = [thread EXCEPT ![f] = "down"] /\ ~Joined(f)
            \/ thread' = [thread EXCEPT ![f] = "leaving"]
        BY <3>2 DEF SessionLost, Crash
      <4> QED BY <3>1, <4>1, <4>2, JoinedKept DEF LockInside, Basic, TypeOK
    <3>3. CASE SlotCleared(f)
      <4>1. Joined(f)
        BY <3>3 DEF SlotCleared, Basic, HolderOK
      <4>2. playerID' = [playerID EXCEPT ![SlotOf(f)] = NoFd]
        BY <3>3 DEF SlotCleared
      <4>3. \A s \in Slot : playerID'[s] # f /\ playerID'[s] \in {NoFd, playerID[s]}
        BY <4>1, <4>2, OnlySlot, FdOK DEF Basic, TypeOK
      <4>4. \A g \in Fd : Joined(g)' => g # f /\ Joined(g)
        BY <4>3, FdOK DEF Joined
      <4>5. \A g \in Fd : thread'[g] \in {"down", "open"}
                          => g = f \/ thread[g] \in {"down", "open"}
        BY <3>3 DEF SlotCleared, Basic, TypeOK
      <4> QED BY <3>1, <4>4, <4>5 DEF LockInside
    <3> QED BY <2>4, <3>2, <3>3 DEF Lost
  <2> QED BY <2>1, <2>2, <2>3, <2>4 DEF Next
<1>3. Inside => LockInside
  OBVIOUS
<1> HIDE DEF Inside
<1> QED BY <1>1, <1>2, <1>3, BasicAlways, PTL DEF Spec

(* A draw over a home or a floor always finds a cell while Roomy and       *)
(* FewStray hold.                                                          *)
LEMMA SlotsCounted ==
  IsFiniteSet(Slot) /\ Cardinality(Slot) = 2 * MaxPlayers
<1>1. IsFiniteSet(1..MaxPlayers) /\ Cardinality(1..MaxPlayers) = MaxPlayers
  BY FS_Interval, MaxPlayersOK
<1>2. IsFiniteSet(Team) /\ Cardinality(Team) = 2
  <2>1. IsFiniteSet(1..2) /\ Cardinality(1..2) = 2
    <3>1. \A n \in Nat \ {0} : IsFiniteSet(1..n) /\ Cardinality(1..n) = n
      BY FS_Interval
    <3> QED BY <3>1
  <2> QED BY <2>1 DEF Team
<1>3. /\ IsFiniteSet(Team \X (1..MaxPlayers))
      /\ Cardinality(Team \X (1..MaxPlayers)) = Cardinality(Team) * Cardinality(1..MaxPlayers)
  BY <1>1, <1>2, FS_Product, Zenon
<1>4. Slot = Team \X (1..MaxPlayers)
  BY DEF Slot
<1> QED BY <1>1, <1>2, <1>3, <1>4

LEMMA ImageCounted ==
  ASSUME NEW S, IsFiniteSet(S), NEW f
  PROVE  LET T == {f[x] : x \in S}
         IN IsFiniteSet(T) /\ Cardinality(T) \in Nat /\ Cardinality(T) <= Cardinality(S)
<1> DEFINE T == {f[x] : x \in S}
           g == [x \in S |-> f[x]]
<1>1. g \in [S -> T] /\ \A y \in T : \E x \in S : g[x] = y
  OBVIOUS
<1>2. g \in Surjection(S, T)
  BY <1>1 DEF Surjection
<1> HIDE DEF T, g
<1>3. IsFiniteSet(T) /\ Cardinality(T) <= Cardinality(S)
  BY <1>2, FS_Surjection
<1> QED BY <1>3, FS_CardinalityType DEF T

LEMMA OccupiedFew ==
  ASSUME FewStray
  PROVE  /\ IsFiniteSet(occupied) /\ Cardinality(occupied) \in Nat
         /\ Cardinality(occupied) <= 4 * MaxPlayers
<1> DEFINE standing == {cellposition[s] : s \in Slot}
<1>1. /\ IsFiniteSet(standing) /\ Cardinality(standing) \in Nat
      /\ Cardinality(standing) <= 2 * MaxPlayers
  BY SlotsCounted, ImageCounted
<1>2. /\ Cardinality(Taken) \in Nat /\ Cardinality(Taken) <= 2 * MaxPlayers
  <2>1. Taken \subseteq Slot
    BY DEF Taken
  <2> QED BY <2>1, SlotsCounted, FS_Subset, FS_CardinalityType
<1>3. IsFiniteSet(Stray) /\ Cardinality(Stray) \in Nat
  BY FS_CardinalityType DEF FewStray
<1>4. occupied \subseteq Stray \cup standing
  BY DEF Stray, Astray
<1> HIDE DEF standing
<1>5. /\ IsFiniteSet(Stray \cup standing)
      /\ Cardinality(Stray \cup standing) <= Cardinality(Stray) + Cardinality(standing)
  <2>1. IsFiniteSet(Stray \cap standing)
    BY <1>3, FS_Intersection
  <2>2. Cardinality(Stray \cap standing) \in Nat
    BY <2>1, FS_CardinalityType
  <2>3. /\ IsFiniteSet(Stray \cup standing)
        /\ Cardinality(Stray \cup standing)
             = Cardinality(Stray) + Cardinality(standing) - Cardinality(Stray \cap standing)
    BY <1>1, <1>3, FS_Union
  <2> QED BY <1>1, <1>3, <2>2, <2>3
<1>6. Cardinality(Stray \cup standing) \in Nat
  BY <1>5, FS_CardinalityType
<1>7. /\ IsFiniteSet(occupied) /\ Cardinality(occupied) <= Cardinality(Stray \cup standing)
  BY <1>4, <1>5, FS_Subset
<1>8. Cardinality(occupied) \in Nat
  BY <1>7, FS_CardinalityType
<1> QED BY <1>1, <1>2, <1>3, <1>5, <1>6, <1>7, <1>8, MaxPlayersOK DEF FewStray

(* A larger finite set has an element outside a smaller one.               *)
LEMMA Outnumbers ==
  ASSUME NEW S, IsFiniteSet(S), NEW T, IsFiniteSet(T), Cardinality(S) > Cardinality(T)
  PROVE  S \ T # {}
<1> SUFFICES ASSUME S \subseteq T PROVE FALSE
  OBVIOUS
<1>1. Cardinality(S) <= Cardinality(T)
  BY FS_Subset
<1> QED BY <1>1, FS_CardinalityType

LEMMA SpawnFinds ==
  ASSUME Roomy, FewStray, NEW o, NEW pos
  PROVE  Spawnable(o, pos) # {}
<1> DEFINE lying == {pos[p] : p \in Objects}
<1>1. PICK q \in Object : SpawnCells(o) = SpawnCells(q)
  BY DEF SpawnCells, Object
<1>2. IsFiniteSet(SpawnCells(o)) /\ Cardinality(SpawnCells(o)) > 4 * MaxPlayers + 4
  BY <1>1 DEF Roomy
<1>3. IsFiniteSet(Objects) /\ Cardinality(Objects) \in Nat /\ Cardinality(Objects) <= 4
  <2>1. IsFiniteSet(1..4) /\ Cardinality(1..4) = 4
    <3>1. \A n \in Nat \ {0} : IsFiniteSet(1..n) /\ Cardinality(1..n) = n
      BY FS_Interval
    <3>2. 4 \in Nat \ {0}
      OBVIOUS
    <3> QED BY <3>1, <3>2, Zenon
  <2>2. Object = {ObjectOrder[n] : n \in 1..4}
    BY DEF Object, ObjectOrder
  <2>3. IsFiniteSet(Object) /\ Cardinality(Object) \in Nat /\ Cardinality(Object) <= 4
    BY <2>1, <2>2, ImageCounted
  <2>4. IsFiniteSet(Objects) /\ Cardinality(Objects) <= Cardinality(Object)
    BY <2>3, ObjectsOK, FS_Subset
  <2> QED BY <2>3, <2>4, FS_CardinalityType
<1>4. IsFiniteSet(lying) /\ Cardinality(lying) \in Nat /\ Cardinality(lying) <= 4
  BY <1>3, ImageCounted
<1>5. Spawnable(o, pos) = SpawnCells(o) \ (occupied \cup lying)
  BY DEF Spawnable
<1> HIDE DEF lying
<1>6. /\ IsFiniteSet(occupied \cup lying)
      /\ Cardinality(occupied \cup lying) <= Cardinality(occupied) + Cardinality(lying)
  <2>1. IsFiniteSet(occupied \cap lying)
    BY <1>4, FS_Intersection
  <2>2. Cardinality(occupied \cap lying) \in Nat
    BY <2>1, FS_CardinalityType
  <2>3. /\ IsFiniteSet(occupied \cup lying)
        /\ Cardinality(occupied \cup lying)
             = Cardinality(occupied) + Cardinality(lying) - Cardinality(occupied \cap lying)
    BY <1>4, OccupiedFew, FS_Union
  <2> QED BY <1>4, <2>2, <2>3, OccupiedFew
<1>7. Cardinality(SpawnCells(o)) > Cardinality(occupied \cup lying)
  <2>1. Cardinality(occupied \cup lying) \in Nat /\ Cardinality(SpawnCells(o)) \in Nat
    BY <1>2, <1>6, FS_CardinalityType
  <2> QED BY <1>2, <1>4, <1>6, <2>1, OccupiedFew, MaxPlayersOK
<1> QED BY <1>2, <1>5, <1>6, <1>7, Outnumbers

LEMMA HomeFinds ==
  ASSUME Roomy, FewStray, NEW t \in Team, NEW occ, occ \subseteq occupied
  PROVE  FreeHomes(t, occ) # {}
<1> DEFINE o == IF t = 1 THEN "JACKHAMMER1" ELSE "JACKHAMMER2"
<1>1. o \in Object /\ SpawnCells(o) = HomeCells(t)
  BY TeamFacts DEF Object, SpawnCells
<1>2. Spawnable(o, objPos) # {}
  BY SpawnFinds
<1>3. Spawnable(o, objPos) \subseteq HomeCells(t) \ occ
  BY <1>1 DEF Spawnable
<1> QED BY <1>2, <1>3 DEF FreeHomes

(* The four objects are drawn from four disjoint sets of cells.            *)
LEMMA SpawnsFind ==
  ASSUME Roomy, FewStray
  PROVE  \E new \in [Objects -> Cell] : \A o \in Objects :
           new[o] \in Spawnable(o, [p \in Objects |->
             IF Turn(p) < Turn(o) THEN new[p] ELSE objPos[p]])
<1> DEFINE new == [o \in Objects |-> CHOOSE c \in Cell : c \in Spawnable(o, objPos)]
<1>1. \A o \in Objects : new[o] \in Cell /\ new[o] \in Spawnable(o, objPos)
  <2> TAKE o \in Objects
  <2>1. \E c \in Cell : c \in Spawnable(o, objPos)
    BY SpawnFinds DEF Spawnable, SpawnCells, HomeCells, FloorCells
  <2> QED BY <2>1
<1>2. \A o, p \in Object : o # p => SpawnCells(o) \cap SpawnCells(p) = {}
  BY DEF Object, SpawnCells, HomeCells, FloorCells, HOME, FLOOR
<1>3. \A o \in Object : Turn(o) \in 1..4
  <2> TAKE o \in Object
  <2>1. \E n \in 1..4 : SpawnOrder[n] = o
    <3>1. /\ SpawnOrder[1] = "JACKHAMMER1" /\ SpawnOrder[2] = "JACKHAMMER2"
          /\ SpawnOrder[3] = "FLAG_1" /\ SpawnOrder[4] = "FLAG_2"
      BY DEF SpawnOrder
    <3> QED BY <3>1 DEF Object
  <2> QED BY <2>1, Zenon DEF Turn
<1>4. \A o \in Objects : new[o] \in SpawnCells(o) /\ new[o] \notin occupied
                         /\ \A p \in Objects : objPos[p] # new[o]
  BY <1>1 DEF Spawnable
<1>5. new \in [Objects -> Cell]
  BY <1>1
<1> HIDE DEF new
<1>6. ASSUME NEW o \in Objects, NEW p \in Objects, Turn(p) < Turn(o)
      PROVE  new[p] # new[o]
  <2>1. o \in Object /\ p \in Object
    BY ObjectsOK
  <2>2. o # p
    BY <1>3, <1>6, <2>1
  <2> QED BY <1>2, <1>4, <2>1, <2>2
<1>7. \A o \in Objects : new[o] \in Spawnable(o, [p \in Objects |->
             IF Turn(p) < Turn(o) THEN new[p] ELSE objPos[p]])
  BY <1>4, <1>6 DEF Spawnable
<1> QED BY <1>5, <1>7

(* On an empty map every team finds a home cell of its own for everybody.  *)
LEMMA PlacementFinds ==
  ASSUME Roomy, occupied = {}, NEW n \in 0..MaxPlayers
  PROVE  Placement(n) # {}
<1>1. ASSUME NEW t \in Team
      PROVE  \E g \in [1..n -> HomeCells(t)] : \A i, j \in 1..n : i # j => g[i] # g[j]
  <2> DEFINE o == IF t = 1 THEN "JACKHAMMER1" ELSE "JACKHAMMER2"
             k == Cardinality(HomeCells(t))
  <2>1. o \in Object /\ SpawnCells(o) = HomeCells(t)
    BY TeamFacts DEF Object, SpawnCells
  <2>2. IsFiniteSet(HomeCells(t)) /\ k > 4 * MaxPlayers + 4
    BY <2>1 DEF Roomy
  <2> HIDE DEF o
  <2>3. k \in Nat /\ ExistsBijection(1..k, HomeCells(t))
    BY <2>2, FS_CardinalityType
  <2>4. PICK b : b \in Bijection(1..k, HomeCells(t))
    BY <2>3 DEF ExistsBijection
  <2>5. /\ b \in [1..k -> HomeCells(t)]
        /\ \A i, j \in 1..k : b[i] = b[j] => i = j
    BY <2>4 DEF Bijection, Injection, IsInjective
  <2>6. 1..n \subseteq 1..k
    BY <2>2, <2>3, MaxPlayersOK
  <2> HIDE DEF k
  <2> DEFINE g == [i \in 1..n |-> b[i]]
  <2>7. g \in [1..n -> HomeCells(t)] /\ \A i, j \in 1..n : i # j => g[i] # g[j]
    BY <2>5, <2>6
  <2> QED BY <2>7
<1>2. PICK g1 \in [1..n -> HomeCells(1)] : \A i, j \in 1..n : i # j => g1[i] # g1[j]
  BY <1>1 DEF Team
<1>3. PICK g2 \in [1..n -> HomeCells(2)] : \A i, j \in 1..n : i # j => g2[i] # g2[j]
  BY <1>1 DEF Team
<1> DEFINE h == [s \in Placed(n) |-> IF s[1] = 1 THEN g1[s[2]] ELSE g2[s[2]]]
<1>4. \A s \in Placed(n) : s[1] \in {1, 2} /\ s[2] \in 1..n /\ s = <<s[1], s[2]>>
  BY DEF Placed, Team
<1>5. \A s \in Placed(n) : h[s] \in HomeCells(s[1])
  BY <1>2, <1>3, <1>4
<1>6. \A s, r \in Placed(n) : s # r => h[s] # h[r]
  <2> SUFFICES ASSUME NEW s \in Placed(n), NEW r \in Placed(n), s # r PROVE h[s] # h[r]
    OBVIOUS
  <2>1. CASE s[1] = r[1]
    BY <1>2, <1>3, <1>4, <2>1
  <2>2. CASE s[1] # r[1]
    <3>1. HomeCells(s[1]) \cap HomeCells(r[1]) = {}
      BY <1>4, <2>2 DEF HomeCells, HOME
    <3> QED BY <1>5, <3>1
  <2> QED BY <2>1, <2>2
<1>7. h \in [Placed(n) -> Cell]
  BY <1>5 DEF HomeCells
<1> HIDE DEF h
<1> QED BY <1>5, <1>6, <1>7 DEF Placement, FreeHomes

(* Where a slot moves from a cell it leaves to one it marks, no cell goes  *)
(* astray.                                                                 *)
LEMMA MovesTidily ==
  ASSUME NEW pos \in [Slot -> Cell \cup {Wild}], NEW occ, NEW s \in Slot, NEW c
  PROVE  Astray([pos EXCEPT ![s] = c], (occ \ {pos[s]}) \cup {c}) \subseteq Astray(pos, occ)
<1> SUFFICES ASSUME NEW x \in (occ \ {pos[s]}) \cup {c}, \A r \in Slot : [pos EXCEPT ![s] = c][r] # x
             PROVE  x \in occ /\ \A r \in Slot : pos[r] # x
  BY DEF Astray
<1>1. \A r \in Slot : [pos EXCEPT ![s] = c][r] = IF r = s THEN c ELSE pos[r]
  OBVIOUS
<1> QED BY <1>1

LEMMA TagsTidily ==
  ASSUME NEW g \in BoardPart, NEW v \in Slot, NEW at
  PROVE  Astray(Tagged(g, v, at).pos, Tagged(g, v, at).occ) \subseteq Astray(g.pos, g.occ)
<1> DEFINE can == [g.can EXCEPT ![v] = FALSE]
           cell == JailFor(v[1], g.occ)
           r == Tagged(g, v, at)
<1>1. \/ r = g
      \/ r = [pos |-> g.pos, can |-> can, occ |-> g.occ]
      \/ /\ r = [pos |-> [g.pos EXCEPT ![v] = cell], can |-> can,
                 occ |-> (g.occ \ {at}) \cup {cell}]
         /\ g.pos[v] = at
  BY DEF Tagged
<1>2. g.pos \in [Slot -> Cell \cup {Wild}]
  BY DEF BoardPart
<1> HIDE DEF cell, can, r
<1>3. CASE r.pos = g.pos /\ r.occ = g.occ
  BY <1>3 DEF r
<1>4. CASE /\ r.pos = [g.pos EXCEPT ![v] = cell]
           /\ r.occ = (g.occ \ {g.pos[v]}) \cup {cell}
  <2>1. Astray([g.pos EXCEPT ![v] = cell], (g.occ \ {g.pos[v]}) \cup {cell})
          \subseteq Astray(g.pos, g.occ)
    BY <1>2, MovesTidily
  <2> QED BY <1>4, <2>1 DEF r
<1> QED BY <1>1, <1>3, <1>4

LEMMA TagsAroundTidily ==
  ASSUME NEW g \in BoardPart, NEW v \in Slot, NEW adj
  PROVE  Astray(TaggedAround(g, v, adj).pos, TaggedAround(g, v, adj).occ)
           \subseteq Astray(g.pos, g.occ)
<1> DEFINE up == Tagged(g, v, adj["UP"])
           right == Tagged(up, v, adj["RIGHT"])
           down == Tagged(right, v, adj["DOWN"])
           left == Tagged(down, v, adj["LEFT"])
           Left(a) == Astray(a.pos, a.occ)
<1>1. up \in BoardPart /\ Left(up) \subseteq Left(g)
  BY TaggedType, TagsTidily
<1> HIDE DEF up
<1>2. right \in BoardPart /\ Left(right) \subseteq Left(up)
  BY <1>1, TaggedType, TagsTidily
<1> HIDE DEF right
<1>3. down \in BoardPart /\ Left(down) \subseteq Left(right)
  BY <1>2, TaggedType, TagsTidily
<1> HIDE DEF down
<1>4. Left(left) \subseteq Left(down)
  BY <1>3, TagsTidily
<1>5. TaggedAround(g, v, adj) = left
  BY DEF TaggedAround, left, down, right, up
<1> HIDE DEF left
<1> QED BY <1>1, <1>2, <1>3, <1>4, <1>5

(* Nobody is being removed.                                                *)
Staying == \A f \in Fd : thread[f] # "leaving"

(* What the steps of the threads do to the cells that are marked, as long  *)
(* as nobody leaves.                                                       *)
LEMMA StrayStep ==
  ASSUME Basic, BeforeStart, Unmarked, Staying, "lost" \notin Habits,
         NEW f \in Fd, Request(f) \/ Handle(f) \/ Lost(f)
  PROVE  \/ Stray' \subseteq Stray /\ Taken' = Taken
         \/ \E s \in Slot \ Taken : /\ Stray' \subseteq Stray \cup {cellposition[s]}
                                    /\ Taken' = Taken \cup {s}
<1>0. cellposition \in [Slot -> Cell \cup {Wild}] /\ playerID \in [Slot -> Fd \cup {NoFd}]
  BY DEF Basic, TypeOK
<1>1. CASE Hello(f)
  <2>1. occupied' = occupied
    BY <1>1 DEF Hello
  <2>2. CASE UNCHANGED <<playerID, cellposition>>
    BY <2>1, <2>2 DEF Stray, Astray, Taken
  <2>3. ASSUME NEW s \in Slot, NEW p \in Garbage, playerID[s] = NoFd,
               playerID' = [playerID EXCEPT ![s] = f],
               cellposition' = [cellposition EXCEPT ![s] = p]
        PROVE  /\ Stray' \subseteq Stray \cup {cellposition[s]}
               /\ s \notin Taken /\ Taken' = Taken \cup {s}
    <3>1. \A r \in Slot : r # s => cellposition'[r] = cellposition[r]
      BY <1>0, <2>3
    <3>2. \A r \in Slot : playerID'[r] = IF r = s THEN f ELSE playerID[r]
      BY <1>0, <2>3
    <3>3. s \notin Taken /\ Taken' = Taken \cup {s}
      BY <2>3, <3>2, FdOK DEF Taken
    <3>4. Stray' \subseteq Stray \cup {cellposition[s]}
      BY <2>1, <3>1 DEF Stray, Astray
    <3> QED BY <3>3, <3>4
  <2>4. \/ UNCHANGED <<playerID, cellposition>>
        \/ \E s \in Slot, p \in Garbage :
             /\ playerID[s] = NoFd
             /\ playerID' = [playerID EXCEPT ![s] = f]
             /\ cellposition' = [cellposition EXCEPT ![s] = p]
    BY <1>1, HelloSlot, Zenon DEF Basic
  <2> QED BY <2>2, <2>3, <2>4
<1>2. CASE StartPlace(f)
  <2>1. PICK h \in Placement(checked[f]) :
          /\ cellposition' = [s \in Slot |-> IF s \in Placed(checked[f])
                                            THEN h[s] ELSE cellposition[s]]
          /\ occupied' = occupied \cup {h[s] : s \in Placed(checked[f])}
    BY <1>2 DEF StartPlace
  <2>2. occupied = {}
    <3>1. phase = "start" /\ lock = f /\ thread[f] = "starting"
      BY <1>2 DEF StartPlace, Holds, Basic, HolderOK
    <3> QED BY <3>1 DEF BeforeStart, StartsOnce, Unmarked
  <2>3. Placed(checked[f]) \subseteq Slot
    <3>1. checked[f] \in 0..MaxPlayers
      BY DEF Basic, TypeOK
    <3>2. 1..checked[f] \subseteq 1..MaxPlayers
      BY <3>1, MaxPlayersOK
    <3> QED BY <3>2 DEF Placed, Slot
  <2>4. Stray' = {}
    <3> HIDE DEF Placed
    <3>1. \A s \in Placed(checked[f]) : cellposition'[s] = h[s]
      BY <2>1, <2>3
    <3> QED BY <2>1, <2>2, <2>3, <3>1 DEF Stray, Astray
  <2>5. Taken' = Taken
    BY <1>2 DEF StartPlace, Taken
  <2> QED BY <2>4, <2>5
<1>3. ASSUME NEW s \in Slot, NEW c, cellposition' = [cellposition EXCEPT ![s] = c],
             occupied' = (occupied \ {cellposition[s]}) \cup {c}, playerID' = playerID
      PROVE  Stray' \subseteq Stray /\ Taken' = Taken
  <2>1. Astray([cellposition EXCEPT ![s] = c], (occupied \ {cellposition[s]}) \cup {c})
          \subseteq Astray(cellposition, occupied)
    BY <1>0, MovesTidily
  <2>2. Stray' = Astray([cellposition EXCEPT ![s] = c], (occupied \ {cellposition[s]}) \cup {c})
    BY <1>3 DEF Stray, Astray
  <2> QED BY <1>3, <2>1, <2>2 DEF Stray, Taken
<1>4. CASE BreakWall(f)
  <2>1. SlotOf(f) \in Slot
    BY <1>4, SlotOfJoined DEF BreakWall, Holds, Basic, HolderOK
  <2> QED BY <1>3, <1>4, <2>1 DEF BreakWall
<1>5. ASSUME NEW dest \in Cell, MoveStep(f, dest)
      PROVE  Stray' \subseteq Stray /\ Taken' = Taken
  <2>1. SlotOf(f) \in Slot
    BY <1>5, SlotOfJoined DEF MoveStep, MoveTo
  <2> QED BY <1>3, <1>5, <2>1 DEF MoveStep
<1>6. CASE UNCHANGED <<playerID, cellposition, occupied>>
  BY <1>6 DEF Stray, Astray, Taken
<1>7. CASE FreeSlot(f)
  <2> DEFINE s == <<SlotOf(f)[1], index>>
  <2>1. s \in Slot
    BY <1>7, SlotOfJoined, TeamFacts DEF FreeSlot, Holds, Basic, HolderOK
  <2>2. playerID' = playerID
    BY <1>7 DEF FreeSlot
  <2>3. \/ UNCHANGED <<cellposition, occupied>>
        \/ \E c \in Cell : /\ cellposition' = [cellposition EXCEPT ![s] = c]
                           /\ occupied' = (occupied \ {cellposition[s]}) \cup {c}
    BY <1>7 DEF FreeSlot, FreeHomes, HomeCells
  <2> HIDE DEF s
  <2> QED BY <1>3, <1>6, <2>1, <2>2, <2>3
<1>8. CASE TagSlot(f)
  <2>1. CASE crashed'
    BY <1>6, <1>8, <2>1 DEF TagSlot, Crash, Holds, board, player
  <2>2. CASE ~crashed'
    <3> DEFINE v == <<Other(SlotOf(f)[1]), index>>
               now == [pos |-> cellposition, can |-> canMove, occ |-> occupied]
               g == TaggedAround(now, v, Adj[cellposition[SlotOf(f)]])
    <3>1. v \in Slot
      BY <1>8, SlotOfJoined, TeamFacts DEF TagSlot, Holds, Basic, HolderOK
    <3>2. now \in BoardPart /\ now.pos = cellposition /\ now.occ = occupied
      BY DEF BoardPart, Basic, TypeOK
    <3>3. /\ playerID' = playerID
          /\ \/ UNCHANGED <<cellposition, occupied>>
             \/ cellposition' = g.pos /\ occupied' = g.occ
      BY <1>8, <2>2, TagSlotTurn
    <3> HIDE DEF now, v
    <3>4. Astray(g.pos, g.occ) \subseteq Astray(cellposition, occupied)
      BY <3>1, <3>2, TagsAroundTidily
    <3> HIDE DEF g
    <3> QED BY <1>6, <3>3, <3>4 DEF Stray, Astray, Taken
  <2> QED BY <2>1, <2>2
<1>9. CASE \/ Connect(f) \/ HelloAgain(f) \/ StartCheck(f) \/ StartLock(f) \/ MoveCrash(f)
           \/ PickUp(f) \/ Drop(f) \/ StartSpawn(f) \/ MoveFinish(f)
           \/ \E dest \in Cell : MoveBlocked(f, dest) \/ MoveIntoWall(f, dest)
  <2>1. UNCHANGED <<playerID, cellposition, occupied>>
    BY <1>9 DEF Connect, HelloAgain, StartCheck, StartLock, MoveCrash, PickUp, Drop,
                StartSpawn, MoveFinish, MoveBlocked, MoveIntoWall, Crash, board, player
  <2> QED BY <1>6, <2>1
<1>10. ~Lost(f)
  BY DEF Lost, SessionLost, SlotCleared, Staying
<1> QED BY <1>1, <1>2, <1>4, <1>5, <1>7, <1>8, <1>9, <1>10 DEF Request, Handle

LEMMA FewStrayNext ==
  ASSUME FewStray, \/ Stray' \subseteq Stray /\ Taken' = Taken
                   \/ \E s \in Slot \ Taken : /\ Stray' \subseteq Stray \cup {cellposition[s]}
                                              /\ Taken' = Taken \cup {s}
  PROVE  FewStray'
<1>1. IsFiniteSet(Taken) /\ Cardinality(Taken) \in Nat
  <2>1. Taken \subseteq Slot
    BY DEF Taken
  <2> QED BY <2>1, SlotsCounted, FS_Subset, FS_CardinalityType
<1>2. Cardinality(Stray) \in Nat
  BY FS_CardinalityType DEF FewStray
<1>3. CASE Stray' \subseteq Stray /\ Taken' = Taken
  <2>1. IsFiniteSet(Stray') /\ Cardinality(Stray') <= Cardinality(Stray)
    BY <1>3, FS_Subset DEF FewStray
  <2>2. Cardinality(Stray') \in Nat
    BY <2>1, FS_CardinalityType
  <2> QED BY <1>1, <1>2, <1>3, <2>1, <2>2 DEF FewStray
<1>4. ASSUME NEW s \in Slot \ Taken, Stray' \subseteq Stray \cup {cellposition[s]},
             Taken' = Taken \cup {s}
      PROVE  FewStray'
  <2>1. Cardinality(Taken') = Cardinality(Taken) + 1
    BY <1>1, <1>4, FS_AddElement
  <2>2. /\ IsFiniteSet(Stray \cup {cellposition[s]})
        /\ Cardinality(Stray \cup {cellposition[s]}) \in Nat
        /\ Cardinality(Stray \cup {cellposition[s]}) <= Cardinality(Stray) + 1
    <3>1. /\ IsFiniteSet(Stray \cup {cellposition[s]})
          /\ Cardinality(Stray \cup {cellposition[s]})
               \in {Cardinality(Stray), Cardinality(Stray) + 1}
      BY FS_AddElement DEF FewStray
    <3> QED BY <1>2, <3>1
  <2>3. /\ IsFiniteSet(Stray') /\ Cardinality(Stray') \in Nat
        /\ Cardinality(Stray') <= Cardinality(Stray \cup {cellposition[s]})
    BY <1>4, <2>2, FS_Subset, FS_CardinalityType
  <2> QED BY <1>1, <1>2, <2>1, <2>2, <2>3 DEF FewStray
<1> QED BY <1>3, <1>4

(* Nothing is marked before the players are placed.                        *)
LEMMA UnmarkedNext ==
  ASSUME Basic, MapKept, BeforeStart, Unmarked,
         NEW f \in Fd, Request(f) \/ Handle(f) \/ Lost(f)
  PROVE  Unmarked'
<1> SUFFICES ASSUME status' = "NOT_STARTED", phase' # "spawn" PROVE occupied' = {}
  BY DEF Unmarked
<1>1. status = "NOT_STARTED" /\ ~StartSpawn(f)
  BY StatusStep
<1>2. phase \notin {"break", "free", "tag", "finish"}
  BY <1>1 DEF BeforeStart, PlayAfterStart
<1>3. /\ ~BreakWall(f) /\ ~FreeSlot(f) /\ ~TagSlot(f) /\ ~MoveFinish(f) /\ ~StartPlace(f)
      /\ \A dest \in Cell : ~MoveStep(f, dest)
  BY <1>1, <1>2, NoMoveYet DEF BreakWall, FreeSlot, TagSlot, MoveFinish, StartPlace, Holds
<1>4. CASE Request(f)
  <2>1. occupied' = occupied
    BY <1>3, <1>4 DEF Request, Connect, Hello, HelloAgain, StartCheck, StartLock, MoveCrash,
           PickUp, Drop, MoveBlocked, MoveIntoWall, Crash, board
  <2>2. phase = "spawn" => phase' = phase
    BY <1>4, HeldRequest
  <2> QED BY <1>1, <2>1, <2>2 DEF Unmarked
<1>5. CASE Lost(f)
  <2>1. occupied' \subseteq occupied /\ phase' = phase
    BY <1>5 DEF Lost, SessionLost, SlotCleared, Crash, board, holder
  <2> QED BY <1>1, <2>1 DEF Unmarked
<1> QED BY <1>1, <1>3, <1>4, <1>5 DEF Handle

(* What the random draws rest on.                                          *)
Room == FewStray /\ Unmarked /\ Staying

LEMMA RoomAlways ==
  ASSUME "lost" \notin Habits, "restart" \notin Habits, Garbage \cap Cell \subseteq {Origin}
  PROVE  Spec => []Room
<1>1. Init => Room
  <2> SUFFICES ASSUME Init PROVE Room
    OBVIOUS
  <2>1. Unmarked /\ Staying
    BY DEF Init, Unmarked, Staying
  <2>2. Stray = {} /\ Taken = {}
    BY DEF Init, Stray, Astray, Taken
  <2>3. FewStray
    BY <2>2, FS_EmptySet DEF FewStray
  <2> QED BY <2>1, <2>3 DEF Room
<1>2. Basic /\ Prison /\ Room /\ [Next]_vars => Room'
  <2> SUFFICES ASSUME Basic, Prison, Room, [Next]_vars PROVE Room'
    OBVIOUS
  <2>1. CASE UNCHANGED vars
    <3>1. UNCHANGED <<playerID, cellposition, occupied, status, phase, thread>>
      BY <2>1 DEF vars, board, player, holder
    <3>2. UNCHANGED <<Stray, Taken>>
      BY <3>1 DEF Stray, Astray, Taken
    <3> QED BY <3>1, <3>2 DEF Room, FewStray, Unmarked, Staying
  <2>2. ASSUME NEW f \in Fd, Request(f) \/ Handle(f) \/ Lost(f) PROVE Room'
    <3>1. MapKept /\ BeforeStart /\ FewStray /\ Unmarked /\ Staying
      BY DEF Prison, Walls, Room
    <3>2. Staying'
      <4>1. ~SessionLost(f)
        BY DEF SessionLost
      <4> QED BY <2>2, <3>1, <4>1, LeavingStep DEF Staying
    <3>3. Unmarked'
      BY <2>2, <3>1, UnmarkedNext
    <3>4. FewStray'
      BY <2>2, <3>1, StrayStep, FewStrayNext
    <3> QED BY <3>2, <3>3, <3>4 DEF Room
  <2> QED BY <2>1, <2>2 DEF Next
<1> QED BY <1>1, <1>2, BasicAlways, PrisonAlways, PTL DEF Spec

(* As long as nobody leaves and the homes and floors are roomy, a handler  *)
(* that holds GameLock can always make its next step: no loop of random    *)
(* draws runs out of cells.  With HandlersAdvance, and where a thread that *)
(* can go on does, it comes to its end.                                    *)
THEOREM HandlersGoOn ==
  ASSUME Roomy, "lost" \notin Habits, "restart" \notin Habits,
         Garbage \cap Cell \subseteq {Origin}
  PROVE  Spec => [](phase # "idle" /\ ~crashed => CanHandle(lock))
<1>1. Basic /\ Prison /\ Room => (phase # "idle" /\ ~crashed => CanHandle(lock))
  <2> SUFFICES ASSUME Basic, Prison, Room, phase # "idle", ~crashed PROVE CanHandle(lock)
    OBVIOUS
  <2>1. /\ phase \in {"start", "spawn", "break", "free", "tag", "finish"}
        /\ FewStray /\ BeforeStart /\ lock \in Fd
    BY DEF Basic, TypeOK, HolderOK, Prison, Room
  <2>2. CASE phase = "start"
    <3>1. occupied = {} /\ checked[lock] \in 0..MaxPlayers
      BY <2>1, <2>2
         DEF Room, Unmarked, BeforeStart, StartsOnce, Basic, TypeOK, HolderOK
    <3>2. Placement(checked[lock]) # {}
      BY <3>1, PlacementFinds
    <3> QED BY <2>2, <3>2 DEF CanHandle, MayPlace
  <2>3. CASE phase = "spawn"
    BY <2>1, <2>3, SpawnsFind DEF CanHandle, MaySpawn
  <2>4. CASE phase = "break"
    BY <2>1, <2>4, SpawnFinds DEF CanHandle, MayBreak
  <2>5. CASE phase = "free"
    <3> DEFINE s == <<SlotOf(lock)[1], index>>
    <3>1. SlotOf(lock)[1] \in Team
      BY <2>5, SlotOfJoined, TeamFacts DEF Basic, HolderOK
    <3>2. FreeHomes(SlotOf(lock)[1], occupied \ {cellposition[s]}) # {}
      BY <2>1, <3>1, HomeFinds
    <3>3. MayFree(lock)
      BY <2>5, <3>2 DEF MayFree
    <3> QED BY <3>3 DEF CanHandle
  <2>6. CASE phase = "tag"
    BY <2>6 DEF CanHandle
  <2>7. CASE phase = "finish"
    BY <2>1, <2>7, SpawnFinds DEF CanHandle, MayFinish
  <2> QED BY <2>1, <2>2, <2>3, <2>4, <2>5, <2>6, <2>7
<1> QED BY <1>1, BasicAlways, PrisonAlways, RoomAlways, PTL

----------------------------------------------------------------------------
(* A lock that is not given back *)

(* GameLock is held and no handler is inside.                              *)
Halted == lock # Free /\ phase = "idle"

(* What a second hello does to the game, for ever: nobody joins or moves,  *)
(* nothing is carried or won; players can only leave.                      *)
Halts ==
  /\ \A f \in Fd : HelloAgain(f) => Halted'
  /\ Halted => /\ Halted' /\ lock' = lock /\ UNCHANGED <<cellType, objPos, status>>
               /\ \A s \in Slot : /\ playerID'[s] \in {playerID[s], NoFd}
                                  /\ cellposition'[s] \in {cellposition[s], Origin}
                                  /\ inventory'[s] \in {inventory[s], "NONE"}
                                  /\ canMove'[s] => canMove[s]

(* The second hello of a connection returns with GameLock, and the game    *)
(* stands still from then on: no step of any thread gives the lock back,   *)
(* and the session-lost handler, which does not ask for it, is the only    *)
(* one that still changes anything.                                        *)
THEOREM SecondHelloHalts == Spec => [][Halts]_vars
<1>1. Basic /\ [Next]_vars => [Halts]_vars
  <2> SUFFICES ASSUME Basic, NEW f \in Fd, Request(f) \/ Handle(f) \/ Lost(f)
               PROVE  Halts
    BY DEF Next
  <2>1. ASSUME NEW g \in Fd, HelloAgain(g) PROVE Halted'
    <3>1. lock' = g /\ lock = Free /\ phase' = phase
      BY <2>1 DEF HelloAgain, SaysHello
    <3>2. phase = "idle"
      BY <3>1, FdOK DEF Basic, HolderOK
    <3> QED BY <3>1, <3>2, FdOK DEF Halted
  <2>2. ASSUME Halted
        PROVE  /\ Halted' /\ lock' = lock /\ UNCHANGED <<cellType, objPos, status>>
               /\ \A s \in Slot : /\ playerID'[s] \in {playerID[s], NoFd}
                                  /\ cellposition'[s] \in {cellposition[s], Origin}
                                  /\ inventory'[s] \in {inventory[s], "NONE"}
                                  /\ canMove'[s] => canMove[s]
    <3>1. CASE Connect(f) \/ StartCheck(f)
      BY <2>2, <3>1 DEF Halted, Connect, StartCheck, Crash, board, player, holder
    <3>2. ~Handle(f)
      BY <2>2 DEF Halted, Handle, StartPlace, StartSpawn, BreakWall, FreeSlot, TagSlot,
                  MoveFinish, Holds
    <3>3. ASSUME Request(f) PROVE Connect(f) \/ StartCheck(f)
      BY <2>2, <3>3 DEF Halted, Request, Hello, HelloAgain, SaysHello, StartLock, MoveCrash,
                        MoveBlocked, MoveIntoWall, MoveStep, PickUp, Drop, Enter
    <3>4. CASE SessionLost(f)
      BY <2>2, <3>4 DEF Halted, SessionLost, Crash, board, player, holder, Basic, TypeOK
    <3>5. CASE SlotCleared(f)
      BY <2>2, <3>5 DEF Halted, SlotCleared, holder, Basic, TypeOK
    <3> QED BY <3>1, <3>2, <3>3, <3>4, <3>5 DEF Lost
  <2> QED BY <2>1, <2>2 DEF Halts
<1> QED BY <1>1, BasicAlways, PTL DEF Spec
=============================================================================
