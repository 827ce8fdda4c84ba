------------------------- MODULE CaptureFlagProofs -------------------------
(***************************************************************************)
(* What holds of the game for every map, every number of slots and every   *)
(* set of connections.                                                     *)
(***************************************************************************)
EXTENDS CaptureFlag, TLAPS, WellFoundedInduction, FiniteSetTheorems

----------------------------------------------------------------------------
(* Helpers *)

(* A non-empty set of naturals has a least element. *)
LEMMA LeastNatural ==
  ASSUME NEW S, S \subseteq Nat, S # {}
  PROVE  \E n \in S : \A m \in S : n <= m
<1> DEFINE R == OpToRel(<, Nat)
<1>1. IsWellFoundedOn(R, Nat)
  BY NatLessThanWellFounded
<1>2. PICK n \in S : \A m \in S : <<m, n>> \notin R
  <2> HIDE DEF R
  <2> QED BY <1>1, WFMin
<1>3. \A m \in S : ~(m < n)
  BY <1>2 DEF OpToRel
<1> QED BY <1>3

(* JailFor is defined when the scan is not full: a first unoccupied cell   *)
(* exists, and it is a cell of the map that nobody occupies.               *)
LEMMA JailForFree ==
  ASSUME NEW t \in Team, NEW occ, ~JailFull(t, occ)
  PROVE  JailFor(t, occ) \in Cell \ {Origin} /\ JailFor(t, occ) \notin occ
<1> DEFINE scan == JailScan[t]
           S == {n \in 1..Len(scan) : scan[n] \notin occ}
<1>1. scan \in Seq(Cell \ {Origin})
  BY ScanOK
<1>2. S \subseteq Nat /\ S # {}
  BY <1>1 DEF JailFull
<1>3. PICK n \in S : \A m \in S : n <= m
  <2> HIDE DEF S
  <2> QED BY <1>2, LeastNatural
<1>4. n \in 1..Len(scan) /\ scan[n] \in Cell \ {Origin} /\ scan[n] \notin occ
  BY <1>1
<1>5. \A m \in 1..(n-1) : scan[m] \in occ
  BY <1>1, <1>3, <1>4
<1>6. \E c \in Cell : \E k \in 1..Len(JailScan[t]) :
        /\ c = JailScan[t][k] /\ c \notin occ
        /\ \A m \in 1..(k-1) : JailScan[t][m] \in occ
  BY <1>4, <1>5
<1>7. \E k \in 1..Len(JailScan[t]) :
        /\ JailFor(t, occ) = JailScan[t][k] /\ JailFor(t, occ) \notin occ
  BY <1>6, Zenon DEF JailFor
<1> QED BY <1>1, <1>7

(* The joined player of a connection stands in the slot SlotOf finds.      *)
LEMMA SlotOfJoined ==
  ASSUME NEW f, Joined(f)
  PROVE  SlotOf(f) \in Slot /\ playerID[SlotOf(f)] = f
BY Zenon DEF Joined, SlotOf

(* Team and slot of an index. *)
LEMMA TeamFacts ==
  /\ \A t \in Team : Other(t) \in Team /\ t \in {1, 2}
  /\ \A s \in Slot : s[1] \in Team /\ s[2] \in 1..MaxPlayers /\ s = <<s[1], s[2]>>
  /\ \A t \in Team, i \in 1..MaxPlayers : <<t, i>> \in Slot
BY DEF Team, Other, Slot

(* What Insert does to the slots. *)
LEMMA InsertSlot ==
  ASSUME NEW f, NEW t \in Team, NEW host, NEW p, Insert(f, t, host, p)
  PROVE  \/ UNCHANGED player
         \/ \E s \in Slot :
              /\ playerID[s] = NoFd
              /\ playerID' = [playerID EXCEPT ![s] = f]
              /\ cellposition' = [cellposition EXCEPT ![s] = p]
              /\ canMove' = [canMove EXCEPT ![s] = TRUE]
              /\ isHost' = [isHost EXCEPT ![s] = host]
              /\ inventory' = [inventory EXCEPT ![s] = "NONE"]
<1>1. CASE Members(t) = 1..MaxPlayers
  BY <1>1 DEF Insert
<1>2. CASE Members(t) # 1..MaxPlayers
  <2>1. PICK i \in (1..MaxPlayers) \ Members(t) :
         /\ playerID' = [playerID EXCEPT ![<<t, i>>] = f]
         /\ cellposition' = [cellposition EXCEPT ![<<t, i>>] = p]
         /\ canMove' = [canMove EXCEPT ![<<t, i>>] = TRUE]
         /\ isHost' = [isHost EXCEPT ![<<t, i>>] = host]
         /\ inventory' = [inventory EXCEPT ![<<t, i>>] = "NONE"]
    BY <1>2 DEF Insert
  <2>2. <<t, i>> \in Slot /\ playerID[<<t, i>>] = NoFd
    BY <2>1, TeamFacts DEF Members
  <2> QED BY <2>1, <2>2
<1> QED BY <1>1, <1>2

(* A position, a canMove flag and an occupied flag for everything: what    *)
(* the tag loop rewrites.                                                  *)
BoardPart == [pos : [Slot -> Cell \cup {Wild}], can : [Slot -> BOOLEAN],
              occ : SUBSET Cell]

(* One adjacency test of the tag loop keeps the types. *)
LEMMA TaggedType ==
  ASSUME NEW g \in BoardPart, NEW v \in Slot, NEW at
  PROVE  Tagged(g, v, at) \in BoardPart
<1>1. v[1] \in Team
  BY TeamFacts
<1>2. CASE g.pos[v] # at
  BY <1>2 DEF Tagged
<1>3. CASE g.pos[v] = at /\ JailFull(v[1], g.occ)
  BY <1>3 DEF Tagged, BoardPart
<1>4. CASE g.pos[v] = at /\ ~JailFull(v[1], g.occ)
  <2> DEFINE cell == JailFor(v[1], g.occ)
  <2>1. cell \in Cell
    BY <1>1, <1>4, JailForFree
  <2>2. Tagged(g, v, at) = [pos |-> [g.pos EXCEPT ![v] = cell],
                            can |-> [g.can EXCEPT ![v] = FALSE],
                            occ |-> (g.occ \ {at}) \cup {cell}]
    BY <1>4 DEF Tagged
  <2> HIDE DEF cell
  <2> QED BY <2>1, <2>2 DEF BoardPart
<1> QED BY <1>2, <1>3, <1>4

(* The four tests of one turn of the loop, one after the other.            *)
TaggedAround(g, v, adj) ==
  Tagged(Tagged(Tagged(Tagged(g, v, adj["UP"]), v, adj["RIGHT"]),
                v, adj["DOWN"]), v, adj["LEFT"])

LEMMA TaggedAroundType ==
  ASSUME NEW g \in BoardPart, NEW v \in Slot, NEW adj
  PROVE  TaggedAround(g, v, adj) \in BoardPart
BY TaggedType, Zenon DEF TaggedAround

(* A turn of the tag loop that does not crash.                             *)
LEMMA TagSlotTurn ==
  ASSUME NEW f, TagSlot(f), ~crashed'
  PROVE  LET v == <<Other(SlotOf(f)[1]), index>>
             now == [pos |-> cellposition, can |-> canMove, occ |-> occupied]
             g == TaggedAround(now, v, Adj[cellposition[SlotOf(f)]])
         IN /\ \/ UNCHANGED <<cellposition, canMove, occupied>>
               \/ /\ cellposition' = g.pos
                  /\ canMove' = g.can
                  /\ occupied' = g.occ
            /\ NextIndex
            /\ UNCHANGED <<playerID, isHost, inventory, cellType, objPos, status,
                           thread, checked, crashed, raced>>
BY DEF TagSlot, Crash, Holds, TaggedAround

----------------------------------------------------------------------------
(* Type correctness *)

LEMMA TypeInit == Init => TypeOK
<1> SUFFICES ASSUME Init PROVE TypeOK
  OBVIOUS
<1>1. crashed \in BOOLEAN /\ raced \in BOOLEAN
  BY Zenon DEF Init
<1>2. index \in 0..MaxPlayers /\ checked \in [Fd -> 0..MaxPlayers]
  BY MaxPlayersOK DEF Init
<1>3. /\ playerID \in [Slot -> Fd \cup {NoFd}]
      /\ cellposition \in [Slot -> Cell \cup {Wild}]
      /\ canMove \in [Slot -> BOOLEAN] /\ isHost \in [Slot -> BOOLEAN]
      /\ inventory \in [Slot -> Object \cup {"NONE"}]
  BY CellOK DEF Init
<1> QED BY <1>1, <1>2, <1>3, CellOK, MapOK DEF Init, TypeOK, GameStatus

(* The result checkOverGame leaves is a status. *)
LEMMA StatusType ==
  ASSUME status \in GameStatus, NEW inv, NEW ct, NEW pos
  PROVE  StatusAfter(inv, ct, pos) \in GameStatus
BY DEF StatusAfter, GameStatus, WON

LEMMA NoteRaceType ==
  ASSUME raced \in BOOLEAN, NoteRace
  PROVE  raced' \in BOOLEAN
BY Zenon DEF NoteRace

(* A team has at most MaxPlayers players. *)
LEMMA NumPlayersType == \A t \in Team : NumPlayers(t) \in 0..MaxPlayers
<1> TAKE t \in Team
<1>1. IsFiniteSet(1..MaxPlayers) /\ Cardinality(1..MaxPlayers) = MaxPlayers
  BY FS_Interval, MaxPlayersOK
<1>2. Members(t) \subseteq 1..MaxPlayers
  BY DEF Members
<1>3. IsFiniteSet(Members(t)) /\ Cardinality(Members(t)) <= MaxPlayers
  BY <1>1, <1>2, FS_Subset
<1>4. Cardinality(Members(t)) \in Nat
  BY <1>3, FS_CardinalityType
<1> QED BY <1>3, <1>4, MaxPlayersOK DEF NumPlayers

(* The holder of GameLock is a thread that is inside the handler the phase *)
(* says, its loop index names a slot and the wall it breaks is unoccupied. *)
(* Only a joined player leaves.                                            *)
HolderOK ==
  /\ phase # "idle" => lock \in Fd
  /\ phase \in {"start", "spawn"} => thread[lock] = "starting"
  /\ phase \in {"break", "free", "tag", "finish"}
       => thread[lock] = "ready" /\ Joined(lock)
  /\ phase \in {"free", "tag"} => index \in 1..MaxPlayers
  /\ phase = "break" => target \notin occupied
  /\ \A f \in Fd : thread[f] = "leaving" => Joined(f)

(* The requests of a connection keep the types. *)
LEMMA RequestType ==
  ASSUME TypeOK, NEW f \in Fd, Request(f)
  PROVE  TypeOK'
<1>1. CASE Connect(f)
  BY <1>1 DEF TypeOK, Connect, board, player, holder
<1>2. CASE Hello(f)
  <2>1. PICK t \in Team, p \in Garbage : Insert(f, t, FirstPlayer, p)
    BY <1>2 DEF Hello, Team
  <2>2. p \in Cell \cup {Wild}
    BY <2>1, CellOK
  <2>3. FirstPlayer \in BOOLEAN
    BY DEF FirstPlayer
  <2>4. CASE UNCHANGED player
    BY <1>2, <2>4 DEF TypeOK, Hello, holder, player
  <2>5. CASE ~UNCHANGED player
    <3>1. PICK s \in Slot :
              /\ playerID' = [playerID EXCEPT ![s] = f]
              /\ cellposition' = [cellposition EXCEPT ![s] = p]
              /\ canMove' = [canMove EXCEPT ![s] = TRUE]
              /\ isHost' = [isHost EXCEPT ![s] = FirstPlayer]
              /\ inventory' = [inventory EXCEPT ![s] = "NONE"]
      BY <2>1, <2>5, InsertSlot
    <3> QED BY <1>2, <2>2, <2>3, <3>1 DEF TypeOK, Hello, holder
  <2> QED BY <2>4, <2>5
<1>3. CASE HelloAgain(f)
  BY <1>3 DEF TypeOK, HelloAgain, board, player
<1>4. CASE StartCheck(f)
  <2>1. raced' \in BOOLEAN
    BY <1>4 DEF TypeOK, StartCheck
  <2>2. CASE ~Joined(f)
    BY <1>4, <2>1, <2>2 DEF TypeOK, StartCheck, Crash, board, player, holder
  <2>3. CASE Joined(f)
    <3>1. NumPlayers(1) \in 0..MaxPlayers
      BY NumPlayersType DEF Team
    <3> QED BY <1>4, <2>3, <3>1 DEF TypeOK, StartCheck, board, player, holder
  <2> QED BY <2>2, <2>3
<1>5. CASE StartLock(f)
  BY <1>5, NoteRaceType, MaxPlayersOK, CellOK DEF TypeOK, StartLock, Hold, board, player
<1>6. CASE MoveCrash(f)
  BY <1>6 DEF TypeOK, MoveCrash, Crash, board, player, holder
<1>7. CASE PickUp(f)
  <2>1. PICK o \in Objects : inventory' = [inventory EXCEPT ![SlotOf(f)] = o]
    BY <1>7 DEF PickUp, Here
  <2>2. o \in Object
    BY <2>1, ObjectsOK
  <2> QED BY <1>7, <2>1, <2>2 DEF TypeOK, PickUp, holder
<1>8. CASE Drop(f)
  BY <1>8, StatusType DEF TypeOK, Drop, holder
<1>9. ASSUME NEW dest \in Cell, MoveBlocked(f, dest) PROVE TypeOK'
  BY <1>9, StatusType DEF TypeOK, MoveBlocked, holder, player
<1>10. ASSUME NEW dest \in Cell, MoveIntoWall(f, dest) PROVE TypeOK'
  BY <1>10, NoteRaceType, MaxPlayersOK, CellOK DEF TypeOK, MoveIntoWall, board, player
<1>11. ASSUME NEW dest \in Cell, MoveStep(f, dest) PROVE TypeOK'
  <2>1. phase' \in {"free", "tag", "finish"} /\ lock' = f /\ index' = 1 /\ target' = Origin
    BY <1>11 DEF MoveStep, Hold
  <2>2. /\ cellposition' \in [Slot -> Cell \cup {Wild}] /\ occupied' \subseteq Cell
        /\ raced' \in BOOLEAN
    BY <1>11, NoteRaceType DEF TypeOK, MoveStep
  <2>3. UNCHANGED <<playerID, canMove, isHost, inventory, cellType, objPos, status,
                    thread, checked, crashed>>
    BY <1>11 DEF MoveStep
  <2> QED BY <2>1, <2>2, <2>3, MaxPlayersOK, CellOK DEF TypeOK
<1> QED BY <1>1, <1>2, <1>3, <1>4, <1>5, <1>6, <1>7, <1>8, <1>9, <1>10, <1>11
        DEF Request

(* The steps of a lock holder keep the types.                              *)
LEMMA HandleType ==
  ASSUME TypeOK, HolderOK, NEW f \in Fd, Handle(f)
  PROVE  TypeOK'
<1>0. raced' \in BOOLEAN
  BY DEF TypeOK, Handle, StartPlace, StartSpawn, BreakWall, FreeSlot, Frees, TagSlot,
         MoveFinish, Holds
<1>1. CASE StartPlace(f)
  <2>1. PICK h \in Placement(checked[f]) :
          /\ cellposition' = [s \in Slot |-> IF s \in Placed(checked[f])
                                            THEN h[s] ELSE cellposition[s]]
          /\ occupied' = occupied \cup {h[s] : s \in Placed(checked[f])}
    BY <1>1 DEF StartPlace
  <2>2. \A s \in Placed(checked[f]) : h[s] \in Cell
    BY <2>1 DEF Placement
  <2>3. cellposition' \in [Slot -> Cell \cup {Wild}] /\ occupied' \subseteq Cell
    BY <2>1, <2>2 DEF TypeOK
  <2>4. phase' = "spawn" /\ lock' = f /\ index' = index /\ target' = target
    BY <1>1 DEF StartPlace
  <2> QED BY <1>0, <1>1, <2>3, <2>4, MaxPlayersOK DEF TypeOK, StartPlace
<1>2. CASE StartSpawn(f)
  <2>1. PICK new \in [Objects -> Cell] :
          objPos' = [o \in Object |-> IF o \in Objects THEN new[o] ELSE objPos[o]]
    BY <1>2 DEF StartSpawn
  <2>2. objPos' \in [Object -> Cell \cup {Wild}]
    BY <2>1 DEF TypeOK
  <2>3. status' \in GameStatus
    BY <1>2 DEF StartSpawn, GameStatus
  <2> QED BY <1>0, <1>2, <2>2, <2>3, MaxPlayersOK, CellOK
          DEF TypeOK, StartSpawn, Release, player
<1>3. CASE BreakWall(f)
  <2>1. Broken(target) \in CellType
    BY DEF Broken, FLOOR, CellType
  <2>2. PICK c \in Spawnable(inventory[SlotOf(f)], objPos) :
          objPos' = [objPos EXCEPT ![inventory[SlotOf(f)]] = c]
    BY <1>3 DEF BreakWall
  <2>3. c \in Cell
    BY <2>2 DEF Spawnable, SpawnCells, HomeCells, FloorCells
  <2>4. objPos' \in [Object -> Cell \cup {Wild}]
    BY <2>2, <2>3 DEF TypeOK
  <2>5. status' \in GameStatus
    BY <1>3, StatusType DEF TypeOK, BreakWall
  <2>6. /\ cellposition' \in [Slot -> Cell \cup {Wild}]
        /\ inventory' \in [Slot -> Object \cup {"NONE"}]
        /\ occupied' \subseteq Cell
        /\ cellType' \in [Cell -> CellType]
    BY <1>3, <2>1 DEF TypeOK, BreakWall
  <2> QED BY <1>0, <1>3, <2>4, <2>5, <2>6, MaxPlayersOK, CellOK
          DEF TypeOK, BreakWall, Release
<1>4. CASE FreeSlot(f)
  <2>1. /\ cellposition' \in [Slot -> Cell \cup {Wild}]
        /\ occupied' \subseteq Cell
        /\ canMove' \in [Slot -> BOOLEAN]
    <3> DEFINE s == <<SlotOf(f)[1], index>>
    <3>1. CASE UNCHANGED <<cellposition, canMove, occupied>>
      BY <3>1 DEF TypeOK
    <3>2. CASE ~UNCHANGED <<cellposition, canMove, occupied>>
      <4>1. PICK c \in Cell :
              /\ canMove' = [canMove EXCEPT ![s] = TRUE]
              /\ cellposition' = [cellposition EXCEPT ![s] = c]
              /\ occupied' = (occupied \ {cellposition[s]}) \cup {c}
        BY <1>4, <3>2 DEF FreeSlot, Frees, FreeHomes, HomeCells
      <4> HIDE DEF s
      <4> QED BY <4>1 DEF TypeOK
    <3> QED BY <3>1, <3>2
  <2> QED BY <1>0, <1>4, <2>1, MaxPlayersOK DEF TypeOK, FreeSlot, Frees, NextIndex
<1>5. CASE TagSlot(f)
  <2>1. CASE crashed'
    BY <1>0, <1>5, <2>1 DEF TypeOK, TagSlot, Crash, Holds, board, player, holder
  <2>2. CASE ~crashed'
    <3> DEFINE v == <<Other(SlotOf(f)[1]), index>>
               now == [pos |-> cellposition, can |-> canMove, occ |-> occupied]
               g == TaggedAround(now, v, Adj[cellposition[SlotOf(f)]])
    <3>1. SlotOf(f) \in Slot /\ phase = "tag"
      BY <1>5, SlotOfJoined DEF TagSlot, Holds, HolderOK
    <3>2. v \in Slot
      BY <3>1, TeamFacts DEF HolderOK
    <3>3. now \in BoardPart
      BY DEF TypeOK, BoardPart
    <3>4. g \in BoardPart
      BY <3>2, <3>3, TaggedAroundType
    <3>5. /\ cellposition' \in [Slot -> Cell \cup {Wild}]
          /\ canMove' \in [Slot -> BOOLEAN] /\ occupied' \subseteq Cell
      <4>1. \/ UNCHANGED <<cellposition, canMove, occupied>>
            \/ cellposition' = g.pos /\ canMove' = g.can /\ occupied' = g.occ
        BY <1>5, <2>2, TagSlotTurn
      <4> HIDE DEF g
      <4> QED BY <3>4, <4>1 DEF TypeOK, BoardPart
    <3>6. /\ NextIndex
          /\ UNCHANGED <<playerID, isHost, inventory, cellType, objPos, status,
                         thread, checked, crashed, raced>>
      BY <1>5, <2>2, TagSlotTurn
    <3> HIDE DEF v, now, g
    <3> QED BY <3>5, <3>6, MaxPlayersOK DEF TypeOK, NextIndex
  <2> QED BY <2>1, <2>2
<1>6. CASE MoveFinish(f)
  <2> DEFINE s == SlotOf(f)
             o == inventory[s]
  <2>1. s \in Slot
    BY <1>6, SlotOfJoined DEF MoveFinish, Holds, HolderOK
  <2>2. cellposition[s] \in Cell \cup {Wild} /\ o \in Object \cup {"NONE"}
    BY <2>1 DEF TypeOK
  <2>3. /\ inventory' \in [Slot -> Object \cup {"NONE"}]
        /\ objPos' \in [Object -> Cell \cup {Wild}]
    <3>1. CASE o = "NONE"
      BY <1>6, <3>1 DEF TypeOK, MoveFinish, Carry
    <3>2. CASE o # "NONE" /\ objPos' = [objPos EXCEPT ![o] = cellposition[s]]
                         /\ inventory' = inventory
      BY <2>2, <3>2 DEF TypeOK
    <3>3. CASE \E c \in Cell : /\ objPos' = [objPos EXCEPT ![o] = c]
                              /\ inventory' = [inventory EXCEPT ![s] = "NONE"]
      BY <3>3 DEF TypeOK
    <3> QED BY <1>6, <3>1, <3>2, <3>3
            DEF MoveFinish, Carry, Spawnable, SpawnCells, HomeCells, FloorCells
  <2>4. status' \in GameStatus
    BY <1>6, StatusType DEF TypeOK, MoveFinish
  <2> QED BY <1>0, <1>6, <2>3, <2>4, MaxPlayersOK, CellOK DEF TypeOK, MoveFinish, Release
<1> QED BY <1>1, <1>2, <1>3, <1>4, <1>5, <1>6 DEF Handle

(* The session-lost handler keeps the types.                               *)
LEMMA LostType ==
  ASSUME TypeOK, NEW f \in Fd, Lost(f)
  PROVE  TypeOK'
<1>1. CASE SessionLost(f)
  <2>1. raced' \in BOOLEAN
    BY <1>1, Zenon DEF TypeOK, SessionLost
  <2>2. CASE ~Joined(f)
    BY <1>1, <2>1, <2>2 DEF TypeOK, SessionLost, board, player, holder
  <2>3. CASE Joined(f) /\ cellposition[SlotOf(f)] = Wild
    BY <1>1, <2>1, <2>3 DEF TypeOK, SessionLost, Crash, board, player, holder
  <2>4. CASE Joined(f) /\ cellposition[SlotOf(f)] # Wild
    BY <1>1, <2>1, <2>4 DEF TypeOK, SessionLost, holder
  <2> QED BY <2>2, <2>3, <2>4
<1>2. CASE SlotCleared(f)
  BY <1>2, CellOK DEF TypeOK, SlotCleared, holder
<1> QED BY <1>1, <1>2 DEF Lost

----------------------------------------------------------------------------
(* The holder of GameLock *)

(* A step that keeps the slots and the threads keeps who has joined.       *)
LEMMA JoinedKept ==
  ASSUME playerID' = playerID
  PROVE  \A f : Joined(f)' <=> Joined(f)
BY DEF Joined

LEMMA HolderInit == Init => HolderOK
BY DEF Init, HolderOK

LEMMA HolderRequest ==
  ASSUME TypeOK, HolderOK, NEW f \in Fd, Request(f)
  PROVE  HolderOK'
<1>1. CASE Connect(f)
  BY <1>1, JoinedKept DEF TypeOK, HolderOK, Connect, board, player, holder
<1>2. CASE Hello(f)
  <2>1. \A g \in Fd : Joined(g) => Joined(g)'
    <3>1. PICK t \in Team, p \in Garbage : Insert(f, t, FirstPlayer, p)
      BY <1>2 DEF Hello, Team
    <3>2. \A s \in Slot : playerID[s] # NoFd => playerID'[s] = playerID[s]
      BY <3>1, InsertSlot DEF TypeOK, player
    <3> QED BY <3>2, FdOK DEF Joined
  <2> QED BY <1>2, <2>1 DEF TypeOK, HolderOK, Hello, SaysHello, holder
<1>3. CASE HelloAgain(f)
  <2>1. phase = "idle"
    BY <1>3, FdOK DEF HolderOK, HelloAgain, SaysHello
  <2>2. phase' = phase /\ playerID' = playerID /\ thread' = [thread EXCEPT ![f] = "ready"]
    BY <1>3 DEF HelloAgain, board, player
  <2> QED BY <2>1, <2>2, JoinedKept DEF TypeOK, HolderOK
<1>4. CASE StartCheck(f)
  BY <1>4, JoinedKept DEF TypeOK, HolderOK, StartCheck, Busy, Crash, board, player, holder
<1>5. CASE StartLock(f)
  BY <1>5, JoinedKept DEF TypeOK, HolderOK, StartLock, Hold, board, player
<1>6. CASE MoveCrash(f)
  BY <1>6, JoinedKept DEF TypeOK, HolderOK, MoveCrash, Crash, board, player, holder
<1>7. CASE PickUp(f)
  <2>1. UNCHANGED <<playerID, lock, phase, index, target, occupied, thread>>
    BY <1>7 DEF PickUp, holder
  <2> QED BY <2>1, JoinedKept DEF HolderOK
<1>8. CASE Drop(f)
  BY <1>8, JoinedKept DEF TypeOK, HolderOK, Drop, holder
<1>9. ASSUME NEW dest \in Cell, MoveBlocked(f, dest) PROVE HolderOK'
  BY <1>9, JoinedKept DEF TypeOK, HolderOK, MoveBlocked, holder, player
<1>10. ASSUME NEW dest \in Cell, MoveIntoWall(f, dest) PROVE HolderOK'
  BY <1>10, JoinedKept
     DEF TypeOK, HolderOK, MoveIntoWall, MoveTo, Enter, board, player
<1>11. ASSUME NEW dest \in Cell, MoveStep(f, dest) PROVE HolderOK'
  <2>1. phase' \in {"free", "tag", "finish"} /\ lock' = f /\ index' = 1
    BY <1>11 DEF MoveStep, Hold
  <2>2. thread[f] = "ready" /\ Joined(f) /\ playerID' = playerID /\ thread' = thread
    BY <1>11 DEF MoveStep, MoveTo, Enter
  <2> QED BY <2>1, <2>2, JoinedKept, MaxPlayersOK DEF HolderOK
<1> QED BY <1>1, <1>2, <1>3, <1>4, <1>5, <1>6, <1>7, <1>8, <1>9, <1>10, <1>11
        DEF Request

LEMMA HolderHandle ==
  ASSUME TypeOK, HolderOK, NEW f \in Fd, Handle(f)
  PROVE  HolderOK'
<1>1. playerID' = playerID
  BY DEF Handle, StartPlace, StartSpawn, BreakWall, FreeSlot, Frees, TagSlot, MoveFinish,
         Crash, board, player
<1>2. CASE StartPlace(f)
  BY <1>1, <1>2, JoinedKept DEF TypeOK, HolderOK, StartPlace, Holds
<1>3. CASE StartSpawn(f) \/ BreakWall(f) \/ MoveFinish(f)
  BY <1>1, <1>3, JoinedKept
     DEF TypeOK, HolderOK, StartSpawn, BreakWall, MoveFinish, Release
<1>4. CASE FreeSlot(f)
  BY <1>1, <1>4, JoinedKept, MaxPlayersOK DEF TypeOK, HolderOK, FreeSlot, Frees, NextIndex, Holds
<1>5. CASE TagSlot(f)
  <2>1. CASE crashed'
    BY <1>1, <1>5, <2>1, JoinedKept
       DEF HolderOK, TagSlot, Crash, Holds, board, player, holder
  <2>2. CASE ~crashed'
    <3>1. NextIndex /\ UNCHANGED thread
      BY <1>5, <2>2, TagSlotTurn
    <3>2. phase = "tag" /\ lock = f
      BY <1>5 DEF TagSlot, Holds
    <3> QED BY <1>1, <3>1, <3>2, JoinedKept, MaxPlayersOK DEF TypeOK, HolderOK, NextIndex
  <2> QED BY <2>1, <2>2
<1> QED BY <1>2, <1>3, <1>4, <1>5 DEF Handle

LEMMA HolderLost ==
  ASSUME TypeOK, HolderOK, NEW f \in Fd, Lost(f)
  PROVE  HolderOK'
<1>1. CASE SessionLost(f)
  <2>1. playerID' = playerID /\ holder' = holder
    BY <1>1 DEF SessionLost, Crash, board, player
  <2>2. occupied' \subseteq occupied
    BY <1>1 DEF SessionLost, Crash, board
  <2>3. \/ thread' = thread
        \/ thread' = [thread EXCEPT ![f] = "down"]
        \/ thread' = [thread EXCEPT ![f] = "leaving"] /\ Joined(f)
    BY <1>1 DEF SessionLost, Crash
  <2>4. lock # f \/ phase = "idle"
    BY <1>1 DEF SessionLost, Busy
  <2> QED BY <2>1, <2>2, <2>3, <2>4, JoinedKept DEF TypeOK, HolderOK, holder
<1>2. CASE SlotCleared(f)
  <2>1. \A g \in Fd : g # f /\ Joined(g) => Joined(g)'
    <3>1. SlotOf(f) \in Slot /\ playerID[SlotOf(f)] = f
      BY <1>2, SlotOfJoined DEF SlotCleared, HolderOK
    <3> QED BY <1>2, <3>1 DEF TypeOK, SlotCleared, Joined
  <2>2. thread[f] = "leaving" /\ thread' = [thread EXCEPT ![f] = "down"]
    BY <1>2 DEF SlotCleared
  <2> QED BY <1>2, <2>1, <2>2 DEF TypeOK, HolderOK, SlotCleared, holder
<1> QED BY <1>1, <1>2 DEF Lost

----------------------------------------------------------------------------
(* Slots and connections *)

(* Two teams without players have only empty slots.                        *)
LEMMA EmptyTeams ==
  ASSUME FirstPlayer
  PROVE  \A s \in Slot : playerID[s] = NoFd
<1>1. \A t \in Team : Members(t) = {}
  <2> TAKE t \in Team
  <2>1. IsFiniteSet(1..MaxPlayers) /\ Members(t) \subseteq 1..MaxPlayers
    BY FS_Interval, MaxPlayersOK DEF Members
  <2>2. IsFiniteSet(Members(t)) /\ Cardinality(Members(t)) = 0
    BY <2>1, FS_Subset, TeamFacts DEF FirstPlayer, NumPlayers
  <2> QED BY <2>2, FS_EmptySet
<1>2. ASSUME NEW s \in Slot, playerID[s] # NoFd PROVE FALSE
  <2>1. s[1] \in Team /\ s[2] \in 1..MaxPlayers /\ s = <<s[1], s[2]>>
    BY TeamFacts
  <2>2. playerID[<<s[1], s[2]>>] # NoFd
    BY <1>2, <2>1
  <2>3. s[2] \in Members(s[1])
    BY <2>1, <2>2 DEF Members
  <2> QED BY <1>1, <2>1, <2>3
<1> QED BY <1>2

(* Connections keep at most one player, and the teams at most one host. *)
LEMMA RosterNext ==
  ASSUME TypeOK, HolderOK, OnePlayerPerConnection, OneHost, [Next]_vars
  PROVE  OnePlayerPerConnection' /\ OneHost'
<1>1. CASE UNCHANGED <<playerID, isHost>>
  BY <1>1 DEF OnePlayerPerConnection, OneHost
<1>2. ASSUME NEW f \in Fd, Hello(f) PROVE OnePlayerPerConnection' /\ OneHost'
  <2>1. ~Joined(f)
    BY <1>2 DEF Hello
  <2>2. PICK t \in Team, p \in Garbage : Insert(f, t, FirstPlayer, p)
    BY <1>2 DEF Hello, Team
  <2>3. CASE ~UNCHANGED player
    <3>1. PICK s \in Slot :
              /\ playerID[s] = NoFd
              /\ playerID' = [playerID EXCEPT ![s] = f]
              /\ cellposition' = [cellposition EXCEPT ![s] = p]
              /\ canMove' = [canMove EXCEPT ![s] = TRUE]
              /\ isHost' = [isHost EXCEPT ![s] = FirstPlayer]
              /\ inventory' = [inventory EXCEPT ![s] = "NONE"]
      BY <2>2, <2>3, InsertSlot
    <3>2. OnePlayerPerConnection'
      BY <2>1, <3>1, FdOK DEF TypeOK, OnePlayerPerConnection, Joined
    <3>3. CASE FirstPlayer
      <4>1. \A r \in Slot : ~isHost[r]
        BY <3>3, EmptyTeams DEF OneHost
      <4> QED BY <3>1, <3>2, <4>1, FdOK DEF TypeOK, OneHost
    <3>4. CASE ~FirstPlayer
      <4>1. FirstPlayer = FALSE
        BY <3>4 DEF FirstPlayer
      <4>2. isHost' = [isHost EXCEPT ![s] = FALSE]
        BY <3>1, <4>1, Zenon
      <4> QED BY <3>1, <3>2, <4>2, FdOK DEF TypeOK, OneHost
    <3> QED BY <3>3, <3>4
  <2> QED BY <1>1, <2>3 DEF player
<1>3. ASSUME NEW f \in Fd, SlotCleared(f) PROVE OnePlayerPerConnection' /\ OneHost'
  <2>1. SlotOf(f) \in Slot
    BY <1>3, SlotOfJoined DEF SlotCleared, HolderOK
  <2>2. /\ playerID' = [playerID EXCEPT ![SlotOf(f)] = NoFd]
        /\ isHost' = [isHost EXCEPT ![SlotOf(f)] = FALSE]
    BY <1>3 DEF SlotCleared
  <2> QED BY <2>1, <2>2 DEF TypeOK, OnePlayerPerConnection, OneHost
<1>4. ASSUME NEW f \in Fd, Request(f), ~Hello(f) PROVE UNCHANGED <<playerID, isHost>>
  BY <1>4 DEF Request, Connect, HelloAgain, StartCheck, StartLock, MoveCrash, PickUp,
              Drop, MoveBlocked, MoveIntoWall, MoveStep, Crash, board, player
<1>5. ASSUME NEW f \in Fd, Handle(f) PROVE UNCHANGED <<playerID, isHost>>
  BY <1>5 DEF Handle, StartPlace, StartSpawn, BreakWall, FreeSlot, Frees, TagSlot, MoveFinish,
              Crash, board, player
<1>6. ASSUME NEW f \in Fd, SessionLost(f) PROVE UNCHANGED <<playerID, isHost>>
  BY <1>6 DEF SessionLost, Crash, board, player
<1>7. CASE UNCHANGED vars
  BY <1>1, <1>7 DEF vars, board, player
<1> QED BY <1>1, <1>2, <1>3, <1>4, <1>5, <1>6, <1>7 DEF Next, Lost

----------------------------------------------------------------------------
(* The invariants of the specification *)

(* Types, the holder of GameLock and the rosters depend on each other and  *)
(* on nothing else.                                                        *)
Basic == TypeOK /\ HolderOK /\ OnePlayerPerConnection /\ OneHost

LEMMA BasicInit == Init => Basic
<1>1. Init => OnePlayerPerConnection /\ OneHost
  BY DEF Init, OnePlayerPerConnection, OneHost
<1> QED BY <1>1, TypeInit, HolderInit DEF Basic

LEMMA BasicNext == Basic /\ [Next]_vars => Basic'
<1> SUFFICES ASSUME Basic, [Next]_vars PROVE Basic'
  OBVIOUS
<1> USE DEF Basic
<1>1. OnePlayerPerConnection' /\ OneHost'
  BY RosterNext
<1>2. ASSUME NEW f \in Fd, Request(f) \/ Handle(f) \/ Lost(f)
      PROVE  TypeOK' /\ HolderOK'
  BY <1>2, RequestType, HandleType, LostType, HolderRequest, HolderHandle, HolderLost
<1>3. ASSUME UNCHANGED vars PROVE TypeOK' /\ HolderOK'
  <2>1. TypeOK'
    BY <1>3 DEF TypeOK, vars, board, player, holder
  <2>2. HolderOK'
    BY <1>3, JoinedKept DEF HolderOK, vars, board, player, holder
  <2> QED BY <2>1, <2>2
<1> QED BY <1>1, <1>2, <1>3 DEF Next

LEMMA BasicAlways == Spec => []Basic
BY BasicInit, BasicNext, PTL DEF Spec

(* Every variable keeps its type, for every map, every number of slots and *)
(* every habit of the clients.                                             *)
THEOREM TypeCorrect == Spec => []TypeOK
<1>1. Basic => TypeOK
  BY DEF Basic
<1> QED BY <1>1, BasicAlways, PTL

(* getPlayer finds the one player of a descriptor: no sequence of joins,   *)
(* losses and reused descriptors gives a connection a second player.       *)
THEOREM OnePlayer == Spec => []OnePlayerPerConnection
<1>1. Basic => OnePlayerPerConnection
  BY DEF Basic
<1> QED BY <1>1, BasicAlways, PTL

(* The game never has two hosts, and an empty slot is not host.            *)
THEOREM SingleHost == Spec => []OneHost
<1>1. Basic => OneHost
  BY DEF Basic
<1> QED BY <1>1, BasicAlways, PTL

----------------------------------------------------------------------------
(* No two players share a cell *)

(* The players who stand on the map at pos stand on cells of occ, each on  *)
(* its own.                                                                *)
Apart(pos, occ) ==
  /\ \A s \in Slot : pos[s] \in Cell \ {Origin} => pos[s] \in occ
  /\ \A s, r \in Slot : /\ pos[s] \in Cell \ {Origin} /\ pos[r] \in Cell \ {Origin}
                        /\ s # r
                        => pos[s] # pos[r]

(* A player who leaves its cell for one that nobody else occupies.         *)
LEMMA MoveApart ==
  ASSUME NEW pos \in [Slot -> Cell \cup {Wild}], NEW occ, Apart(pos, occ),
         NEW s \in Slot, NEW c \in Cell, c \notin occ \ {pos[s]}
  PROVE  Apart([pos EXCEPT ![s] = c], (occ \ {pos[s]}) \cup {c})
<1> DEFINE new == [pos EXCEPT ![s] = c]
<1>1. new[s] = c /\ \A r \in Slot \ {s} : new[r] = pos[r]
  OBVIOUS
<1>2. ASSUME NEW r \in Slot \ {s}, pos[r] \in Cell \ {Origin}
      PROVE  pos[r] \in occ \ {pos[s]}
  BY <1>2 DEF Apart
<1> HIDE DEF new
<1>3. \A r \in Slot : new[r] \in Cell \ {Origin} => new[r] \in (occ \ {pos[s]}) \cup {c}
  BY <1>1, <1>2
<1>4. \A r, q \in Slot : new[r] \in Cell \ {Origin} /\ new[q] \in Cell \ {Origin} /\ r # q
                          => new[r] # new[q]
  BY <1>1, <1>2 DEF Apart
<1> QED BY <1>3, <1>4 DEF Apart, new

(* One adjacency test of the tag loop keeps the players apart.             *)
LEMMA TaggedApart ==
  ASSUME NEW g \in BoardPart, Apart(g.pos, g.occ), NEW v \in Slot, NEW at
  PROVE  Apart(Tagged(g, v, at).pos, Tagged(g, v, at).occ)
<1>1. v[1] \in Team /\ g.pos \in [Slot -> Cell \cup {Wild}]
  BY TeamFacts DEF BoardPart
<1>2. CASE g.pos[v] # at
  BY <1>2 DEF Tagged
<1>3. CASE g.pos[v] = at /\ JailFull(v[1], g.occ)
  BY <1>3 DEF Tagged
<1>4. CASE g.pos[v] = at /\ ~JailFull(v[1], g.occ)
  <2> DEFINE cell == JailFor(v[1], g.occ)
  <2>1. cell \in Cell /\ cell \notin g.occ
    BY <1>1, <1>4, JailForFree
  <2>2. /\ Tagged(g, v, at).pos = [g.pos EXCEPT ![v] = cell]
        /\ Tagged(g, v, at).occ = (g.occ \ {g.pos[v]}) \cup {cell}
    BY <1>4 DEF Tagged
  <2> HIDE DEF cell
  <2>3. Apart([g.pos EXCEPT ![v] = cell], (g.occ \ {g.pos[v]}) \cup {cell})
    BY <1>1, <2>1, MoveApart
  <2> QED BY <2>2, <2>3
<1> QED BY <1>2, <1>3, <1>4

LEMMA TaggedAroundApart ==
  ASSUME NEW g \in BoardPart, Apart(g.pos, g.occ), NEW v \in Slot, NEW adj
  PROVE  Apart(TaggedAround(g, v, adj).pos, TaggedAround(g, v, adj).occ)
<1> DEFINE up == Tagged(g, v, adj["UP"])
           right == Tagged(up, v, adj["RIGHT"])
           down == Tagged(right, v, adj["DOWN"])
           left == Tagged(down, v, adj["LEFT"])
<1>1. up \in BoardPart /\ Apart(up.pos, up.occ)
  BY TaggedType, TaggedApart
<1> HIDE DEF up
<1>2. right \in BoardPart /\ Apart(right.pos, right.occ)
  BY <1>1, TaggedType, TaggedApart
<1> HIDE DEF right
<1>3. down \in BoardPart /\ Apart(down.pos, down.occ)
  BY <1>2, TaggedType, TaggedApart
<1> HIDE DEF down
<1>4. Apart(left.pos, left.occ)
  BY <1>3, TaggedApart
<1>5. TaggedAround(g, v, adj) = left
  BY DEF TaggedAround, left, down, right, up
<1> QED BY <1>4, <1>5

(* NoSharedCell is not inductive: while GameLock is held it must also be   *)
(* known that nobody is half removed.                                      *)
Uncrowded ==
  /\ NoSharedCell
  /\ ~raced /\ phase # "idle" => \A f \in Fd : thread[f] # "leaving"

LEMMA UncrowdedInit == Init => Uncrowded
BY CellOK DEF Init, Uncrowded, NoSharedCell, Stands

(* When nobody is leaving, standing is having a position on the map.       *)
LEMMA ApartFromStands ==
  ASSUME NoSharedCell, ~raced, \A f \in Fd : thread[f] # "leaving"
  PROVE  Apart(cellposition, occupied)
BY DEF NoSharedCell, Stands, Apart

LEMMA StandsFromApart ==
  ASSUME Apart(cellposition, occupied)'
  PROVE  NoSharedCell'
BY DEF NoSharedCell, Stands, Apart

(* The moving steps: a holder, or an entering mover, that found nobody     *)
(* leaving keeps the players apart.                                        *)
LEMMA UncrowdedMoveStep ==
  ASSUME Basic, Uncrowded, NEW f \in Fd, NEW dest \in Cell, MoveStep(f, dest)
  PROVE  Uncrowded'
<1> SUFFICES ASSUME ~raced' PROVE Uncrowded'
  BY DEF Uncrowded, NoSharedCell
<1>1. ~raced /\ thread' = thread /\ \A g \in Fd : thread[g] # "leaving"
  BY DEF MoveStep, NoteRace
<1>2. Apart(cellposition, occupied)
  BY <1>1, ApartFromStands DEF Uncrowded
<1>3. SlotOf(f) \in Slot /\ dest \notin occupied
  BY SlotOfJoined DEF MoveStep, MoveTo
<1>4. /\ cellposition' = [cellposition EXCEPT ![SlotOf(f)] = dest]
      /\ occupied' = (occupied \ {cellposition[SlotOf(f)]}) \cup {dest}
  BY DEF MoveStep
<1>5. Apart(cellposition, occupied)'
  BY <1>2, <1>3, <1>4, MoveApart DEF Basic, TypeOK
<1>6. NoSharedCell'
  BY <1>5, StandsFromApart
<1> QED BY <1>1, <1>6 DEF Uncrowded

LEMMA UncrowdedRequest ==
  ASSUME Basic, Uncrowded, NEW f \in Fd, Request(f), Garbage \cap Cell \subseteq {Origin}
  PROVE  Uncrowded'
<1>1. CASE Hello(f)
  <2>1. PICK t \in Team, p \in Garbage : Insert(f, t, FirstPlayer, p)
    BY <1>1 DEF Hello, Team
  <2>2. ~Joined(f) /\ occupied' = occupied /\ UNCHANGED <<phase, raced>>
    BY <1>1 DEF Hello, holder
  <2>3. /\ thread \in [Fd -> {"down", "open", "ready", "starting", "leaving"}]
        /\ thread' = [thread EXCEPT ![f] = "ready"]
    BY <1>1 DEF Hello, Basic, TypeOK
  <2>4. CASE UNCHANGED player
    <3>1. UNCHANGED <<playerID, cellposition>>
      BY <2>4 DEF player
    <3>2. \A s \in Slot : Stands(s)' => Stands(s)
      BY <2>2, <2>3, <3>1 DEF Stands, Joined
    <3>3. NoSharedCell'
      BY <2>2, <3>1, <3>2 DEF Uncrowded, NoSharedCell
    <3> QED BY <2>2, <2>3, <3>3 DEF Uncrowded
  <2>5. CASE ~UNCHANGED player
    <3>1. PICK s \in Slot :
              /\ playerID[s] = NoFd
              /\ playerID' = [playerID EXCEPT ![s] = f]
              /\ cellposition' = [cellposition EXCEPT ![s] = p]
              /\ canMove' = [canMove EXCEPT ![s] = TRUE]
              /\ isHost' = [isHost EXCEPT ![s] = FirstPlayer]
              /\ inventory' = [inventory EXCEPT ![s] = "NONE"]
      BY <2>1, <2>5, InsertSlot
    <3>2. p \notin Cell \ {Origin}
      BY <2>1
    <3>3. /\ ~Stands(s)'
          /\ \A r \in Slot \ {s} : /\ cellposition'[r] = cellposition[r]
                                   /\ playerID'[r] = playerID[r]
      BY <3>1, <3>2 DEF Stands, Basic, TypeOK
    <3>4. \A r \in Slot \ {s} : Stands(r)' => Stands(r)
      BY <2>2, <2>3, <3>3 DEF Stands, Joined
    <3>5. NoSharedCell'
      BY <2>2, <3>3, <3>4 DEF Uncrowded, NoSharedCell
    <3> QED BY <2>2, <2>3, <3>5 DEF Uncrowded
  <2> QED BY <2>4, <2>5
<1>2. CASE StartLock(f) \/ \E dest \in Cell : MoveIntoWall(f, dest)
  <2>1. /\ UNCHANGED <<playerID, cellposition, occupied, thread>>
        /\ NoteRace
    BY <1>2 DEF StartLock, MoveIntoWall, board, player
  <2>2. ~raced' => ~raced /\ \A g \in Fd : thread[g] # "leaving"
    BY <2>1 DEF NoteRace
  <2> QED BY <2>1, <2>2 DEF Uncrowded, NoSharedCell, Stands
<1>3. ASSUME NEW dest \in Cell, MoveStep(f, dest) PROVE Uncrowded'
  BY <1>3, UncrowdedMoveStep
<1>4. CASE Connect(f) \/ HelloAgain(f) \/ StartCheck(f) \/ MoveCrash(f) \/ PickUp(f)
           \/ Drop(f) \/ \E dest \in Cell : MoveBlocked(f, dest)
  <2>1. UNCHANGED <<playerID, cellposition, occupied, raced, phase>>
    BY <1>4 DEF Connect, HelloAgain, StartCheck, MoveCrash, PickUp, Drop, MoveBlocked,
                Crash, board, player, holder
  <2>2. \A g \in Fd : /\ thread[g] = "leaving" => thread'[g] = "leaving"
                      /\ thread'[g] = "leaving" => thread[g] = "leaving"
    <3>1. \/ thread' = thread
          \/ thread[f] # "leaving" /\ \E x \in {"open", "ready", "starting"} :
                                          thread' = [thread EXCEPT ![f] = x]
      BY <1>4 DEF Connect, HelloAgain, SaysHello, StartCheck, MoveCrash, PickUp, Drop,
                  MoveBlocked, Crash
    <3> QED BY <3>1 DEF Basic, TypeOK
  <2> QED BY <2>1, <2>2 DEF Uncrowded, NoSharedCell, Stands
<1> QED BY <1>1, <1>2, <1>3, <1>4 DEF Request

LEMMA UncrowdedHandle ==
  ASSUME Basic, Uncrowded, NEW f \in Fd, Handle(f)
  PROVE  Uncrowded'
<1>1. raced' = raced /\ phase # "idle" /\ lock = f
  BY DEF Handle, StartPlace, StartSpawn, BreakWall, FreeSlot, Frees, TagSlot, MoveFinish, Holds
<1> SUFFICES ASSUME ~raced PROVE Uncrowded'
  BY <1>1 DEF Uncrowded, NoSharedCell
<1>2. \A g \in Fd : thread[g] # "leaving"
  BY <1>1 DEF Uncrowded
<1>3. Apart(cellposition, occupied)
  BY <1>2, ApartFromStands DEF Uncrowded
<1>4. \A g \in Fd : thread'[g] # "leaving"
  <2>1. thread' = thread \/ thread' = [thread EXCEPT ![f] = "ready"]
    BY DEF Handle, StartPlace, StartSpawn, BreakWall, FreeSlot, Frees, TagSlot, MoveFinish, Crash
  <2> QED BY <1>2, <2>1 DEF Basic, TypeOK
<1> SUFFICES Apart(cellposition, occupied)'
  BY <1>4, StandsFromApart DEF Uncrowded
<1>5. cellposition \in [Slot -> Cell \cup {Wild}]
  BY DEF Basic, TypeOK
<1>6. CASE StartPlace(f)
  <2>1. PICK h \in Placement(checked[f]) :
          /\ cellposition' = [s \in Slot |-> IF s \in Placed(checked[f])
                                            THEN h[s] ELSE cellposition[s]]
          /\ occupied' = occupied \cup {h[s] : s \in Placed(checked[f])}
    BY <1>6 DEF StartPlace
  <2>2. /\ \A s \in Placed(checked[f]) : h[s] \notin occupied
        /\ \A s, r \in Placed(checked[f]) : s # r => h[s] # h[r]
    BY <2>1 DEF Placement, FreeHomes
  <2> HIDE DEF Placed
  <2> QED BY <1>3, <2>1, <2>2 DEF Apart
<1>7. CASE BreakWall(f)
  <2>1. SlotOf(f) \in Slot /\ target \in Cell /\ target \notin occupied
    BY <1>7, SlotOfJoined DEF BreakWall, Holds, Basic, HolderOK, TypeOK
  <2>2. /\ cellposition' = [cellposition EXCEPT ![SlotOf(f)] = target]
        /\ occupied' = (occupied \ {cellposition[SlotOf(f)]}) \cup {target}
    BY <1>7 DEF BreakWall
  <2> QED BY <1>3, <1>5, <2>1, <2>2, MoveApart
<1>8. CASE FreeSlot(f)
  <2> DEFINE s == <<SlotOf(f)[1], index>>
  <2>1. s \in Slot
    BY <1>8, SlotOfJoined, TeamFacts DEF FreeSlot, Frees, Holds, Basic, HolderOK
  <2>2. CASE UNCHANGED <<cellposition, occupied>>
    BY <1>3, <2>2
  <2>3. CASE ~UNCHANGED <<cellposition, occupied>>
    <3>1. PICK c \in Cell :
            /\ c \notin occupied \ {cellposition[s]}
            /\ cellposition' = [cellposition EXCEPT ![s] = c]
            /\ occupied' = (occupied \ {cellposition[s]}) \cup {c}
      BY <1>8, <2>3 DEF FreeSlot, Frees, FreeHomes, HomeCells
    <3> HIDE DEF s
    <3> QED BY <1>3, <1>5, <2>1, <3>1, MoveApart
  <2> QED BY <2>2, <2>3
<1>9. CASE TagSlot(f)
  <2>1. CASE crashed'
    BY <1>3, <1>9, <2>1 DEF TagSlot, Crash, Holds, board, player
  <2>2. CASE ~crashed'
    <3> DEFINE v == <<Other(SlotOf(f)[1]), index>>
               now == [pos |-> cellposition, can |-> canMove, occ |-> occupied]
               g == TaggedAround(now, v, Adj[cellposition[SlotOf(f)]])
    <3>1. SlotOf(f) \in Slot /\ phase = "tag"
      BY <1>9, SlotOfJoined DEF TagSlot, Holds, Basic, HolderOK
    <3>2. v \in Slot
      BY <3>1, TeamFacts DEF Basic, HolderOK
    <3>3. now \in BoardPart /\ Apart(now.pos, now.occ)
      BY <1>3 DEF Basic, TypeOK, BoardPart
    <3>4. \/ UNCHANGED <<cellposition, occupied>>
          \/ cellposition' = g.pos /\ occupied' = g.occ
      BY <1>9, <2>2, TagSlotTurn
    <3> HIDE DEF v, now
    <3>5. Apart(g.pos, g.occ)
      BY <3>2, <3>3, TaggedAroundApart
    <3> HIDE DEF g
    <3> QED BY <1>3, <3>4, <3>5
  <2> QED BY <2>1, <2>2
<1>10. CASE StartSpawn(f) \/ MoveFinish(f)
  BY <1>3, <1>10 DEF StartSpawn, MoveFinish, player
<1> QED BY <1>6, <1>7, <1>8, <1>9, <1>10 DEF Handle

LEMMA UncrowdedLost ==
  ASSUME Basic, Uncrowded, NEW f \in Fd, Lost(f)
  PROVE  Uncrowded'
<1>1. CASE SessionLost(f)
  <2>1. raced' = (raced \/ phase # "idle") /\ phase' = phase
    BY <1>1 DEF SessionLost, Crash, holder
  <2>2. UNCHANGED <<playerID, cellposition>> /\ thread[f] # "leaving"
    BY <1>1 DEF SessionLost, Crash, board, player
  <2>3. CASE crashed' \/ ~Joined(f)
    <3>1. occupied' = occupied /\ \A g \in Fd : Joined(g) => thread'[g] = thread[g]
      BY <1>1, <2>3 DEF SessionLost, Crash, board, Basic, TypeOK
    <3>2. \A s \in Slot : Stands(s)' => Stands(s)
      BY <2>2, <3>1 DEF Stands, Joined
    <3> QED BY <2>1, <2>2, <3>1, <3>2 DEF Uncrowded, NoSharedCell
  <2>4. CASE ~crashed' /\ Joined(f)
    <3> DEFINE s == SlotOf(f)
    <3>1. s \in Slot /\ playerID[s] = f
      BY <2>4, SlotOfJoined
    <3>2. /\ occupied' = occupied \ {cellposition[s]}
          /\ thread' = [thread EXCEPT ![f] = "leaving"]
      BY <1>1, <2>4 DEF SessionLost, Crash
    <3> HIDE DEF s
    <3>3. \A r \in Slot : Stands(r)' => Stands(r) /\ r # s
      BY <2>2, <3>1, <3>2 DEF Stands, Basic, TypeOK
    <3>4. cellposition[s] \in Cell \ {Origin} => Stands(s)
      BY <2>2, <3>1 DEF Stands
    <3>5. \A r \in Slot : ~raced /\ Stands(r)' => cellposition[r] # cellposition[s]
      BY <3>1, <3>3, <3>4 DEF Uncrowded, NoSharedCell, Stands
    <3>6. NoSharedCell'
      BY <2>1, <2>2, <3>2, <3>3, <3>5 DEF Uncrowded, NoSharedCell
    <3> QED BY <2>1, <3>6 DEF Uncrowded
  <2> QED BY <2>3, <2>4
<1>2. CASE SlotCleared(f)
  <2>1. PICK s \in Slot : s = SlotOf(f) /\ playerID[s] = f /\ thread[f] = "leaving"
    BY <1>2, SlotOfJoined DEF SlotCleared, Basic, HolderOK
  <2>2. /\ playerID' = [playerID EXCEPT ![s] = NoFd]
        /\ cellposition' = [cellposition EXCEPT ![s] = Origin]
        /\ thread' = [thread EXCEPT ![f] = "down"]
        /\ UNCHANGED <<occupied, raced, phase>>
    BY <1>2, <2>1 DEF SlotCleared, holder
  <2>3. ~Stands(s)'
    BY <2>1, <2>2 DEF Stands, Basic, TypeOK
  <2>4. \A r \in Slot \ {s} : playerID[r] # f
    BY <2>1, FdOK DEF Basic, OnePlayerPerConnection
  <2>5. \A r \in Slot \ {s} : cellposition'[r] = cellposition[r] /\ (Stands(r)' => Stands(r))
    BY <2>2, <2>4 DEF Stands, Basic, TypeOK
  <2>6. NoSharedCell'
    BY <2>2, <2>3, <2>5 DEF Uncrowded, NoSharedCell
  <2> QED BY <2>2, <2>6 DEF Uncrowded, Basic, TypeOK
<1> QED BY <1>1, <1>2 DEF Lost

(* No two players share a cell, and the cell of a player is marked          *)
(* occupied, unless a session-lost handler has overlapped a holder of the   *)
(* lock.  The position of a player who has not been placed must not happen  *)
(* to be a cell where somebody can stand: in the code it is uninitialised.  *)
THEOREM PlayersApart ==
  ASSUME Garbage \cap Cell \subseteq {Origin}
  PROVE  Spec => []NoSharedCell
<1>1. Init => Uncrowded
  BY UncrowdedInit
<1>2. Basic /\ Uncrowded /\ [Next]_vars => Uncrowded'
  <2> SUFFICES ASSUME Basic, Uncrowded, [Next]_vars PROVE Uncrowded'
    OBVIOUS
  <2>1. ASSUME NEW f \in Fd, Request(f) \/ Handle(f) \/ Lost(f) PROVE Uncrowded'
    BY <2>1, UncrowdedRequest, UncrowdedHandle, UncrowdedLost
  <2>2. CASE UNCHANGED vars
    BY <2>2 DEF Uncrowded, NoSharedCell, Stands, vars, board, player, holder
  <2> QED BY <2>1, <2>2 DEF Next
<1>3. Uncrowded => NoSharedCell
  BY DEF Uncrowded
<1> QED BY <1>1, <1>2, <1>3, BasicAlways, PTL DEF Spec

----------------------------------------------------------------------------
(* Freeing a team *)

(* The slots the free loop has passed hold only players who can move.      *)
FreedSoFar ==
  phase = "free" =>
    \A i \in 1..(index - 1) :
      playerID[<<SlotOf(lock)[1], i>>] # NoFd => canMove[<<SlotOf(lock)[1], i>>]

(* The slot of a connection does not change while other slots are emptied. *)
LEMMA SlotOfKept ==
  ASSUME OnePlayerPerConnection, OnePlayerPerConnection', NEW f \in Fd,
         NEW s \in Slot, playerID[s] = f, playerID'[s] = f
  PROVE  SlotOf(f)' = s /\ SlotOf(f) = s
<1>1. \A r \in Slot : (playerID[r] = f <=> r = s) /\ (playerID'[r] = f <=> r = s)
  BY FdOK DEF OnePlayerPerConnection
<1> QED BY <1>1, Zenon DEF SlotOf

(* While the loop runs other threads only connect, check a start, and      *)
(* leave: the holder and its slot stay, and no player comes or loses the   *)
(* right to move.                                                          *)
LEMMA FreeAlone ==
  ASSUME Basic, Basic', phase = "free", NEW f \in Fd, Request(f) \/ Lost(f)
  PROVE  /\ UNCHANGED holder
         /\ SlotOf(lock)' = SlotOf(lock)
         /\ \A s \in Slot : playerID'[s] # NoFd
                             => playerID[s] # NoFd /\ canMove'[s] = canMove[s]
<1>1. lock \in Fd /\ lock # Free /\ thread[lock] = "ready" /\ Joined(lock)
  BY FdOK DEF Basic, HolderOK
<1>2. CASE UNCHANGED <<playerID, canMove, holder>>
  <2>1. UNCHANGED <<playerID, canMove, lock>>
    BY <1>2 DEF holder
  <2> QED BY <1>2, <2>1 DEF SlotOf
<1>3. CASE SlotCleared(f)
  <2>1. PICK s \in Slot : s = SlotOf(f) /\ playerID[s] = f /\ thread[f] = "leaving"
    BY <1>3, SlotOfJoined DEF SlotCleared, Basic, HolderOK
  <2>2. /\ playerID' = [playerID EXCEPT ![s] = NoFd]
        /\ canMove' = [canMove EXCEPT ![s] = FALSE]
        /\ UNCHANGED holder
    BY <1>3, <2>1 DEF SlotCleared
  <2>3. PICK r \in Slot : playerID[r] = lock
    BY <1>1 DEF Joined
  <2>4. playerID'[r] = lock
    BY <1>1, <2>1, <2>2, <2>3 DEF Basic, TypeOK
  <2>5. SlotOf(lock)' = SlotOf(lock)
    <3>1. lock' = lock
      BY <2>2 DEF holder
    <3>2. PICK g \in Fd : g = lock
      BY <1>1
    <3>3. SlotOf(g)' = r /\ SlotOf(g) = r
      BY <2>3, <2>4, <3>2, SlotOfKept DEF Basic
    <3>4. lock' = g /\ lock = g
      BY <3>1, <3>2
    <3>5. SlotOf(lock)' = SlotOf(g)' /\ SlotOf(lock) = SlotOf(g)
      BY <3>4 DEF SlotOf
    <3> QED BY <3>3, <3>5
  <2> QED BY <2>1, <2>2, <2>5 DEF Basic, TypeOK
<1>4. CASE SessionLost(f)
  BY <1>2, <1>4 DEF SessionLost, Crash, board, player
<1>5. CASE Request(f)
  <2>1. Connect(f) \/ StartCheck(f)
    BY <1>1, <1>5 DEF Request, Hello, HelloAgain, SaysHello, StartLock, MoveCrash,
                      MoveBlocked, MoveIntoWall, MoveStep, PickUp, Drop, Enter
  <2> QED BY <1>2, <2>1 DEF Connect, StartCheck, Crash, board, player
<1> QED BY <1>3, <1>4, <1>5 DEF Lost

(* One turn of the loop: its slot can move afterwards.                     *)
LEMMA FreeTurn ==
  ASSUME Basic, FreedSoFar, NEW f \in Fd, FreeSlot(f)
  PROVE  /\ lock = f /\ lock' = f /\ UNCHANGED playerID
         /\ \A i \in 1..index : playerID[<<SlotOf(f)[1], i>>] # NoFd
                                 => canMove'[<<SlotOf(f)[1], i>>]
<1>1. lock = f /\ phase = "free" /\ lock' = f /\ playerID' = playerID
  BY DEF FreeSlot, Frees, Holds, NextIndex
<1>2. index \in 1..MaxPlayers /\ SlotOf(f) \in Slot
  BY <1>1, SlotOfJoined DEF Basic, HolderOK
<1> DEFINE t == SlotOf(f)[1]
           s == <<t, index>>
<1>3. t \in Team /\ s \in Slot
  BY <1>2, TeamFacts
<1>4. canMove'[s] /\ \A r \in Slot : canMove[r] => canMove'[r]
  <2>1. \/ canMove[s] /\ canMove' = canMove
        \/ canMove' = [canMove EXCEPT ![s] = TRUE]
    BY DEF FreeSlot, Frees
  <2> HIDE DEF s
  <2> QED BY <1>3, <2>1 DEF Basic, TypeOK
<1>5. ASSUME NEW i \in 1..index, playerID[<<t, i>>] # NoFd
      PROVE  canMove'[<<t, i>>]
  <2>1. <<t, i>> \in Slot
    BY <1>2, <1>3, TeamFacts, MaxPlayersOK
  <2>2. CASE i = index
    BY <1>4, <2>2
  <2>3. CASE i \in 1..(index - 1)
    BY <1>1, <1>4, <1>5, <2>1, <2>3 DEF FreedSoFar
  <2> QED BY <1>2, <2>2, <2>3, MaxPlayersOK
<1> QED BY <1>1, <1>5

LEMMA FreedNext ==
  ASSUME Basic, Basic', FreedSoFar, [Next]_vars
  PROVE  FreedSoFar'
<1>1. ASSUME NEW f \in Fd, Request(f) \/ Lost(f), phase = "free" PROVE FreedSoFar'
  <2>1. UNCHANGED <<phase, index>> /\ SlotOf(lock)' = SlotOf(lock)
    BY <1>1, FreeAlone DEF holder
  <2>2. SlotOf(lock)[1] \in Team /\ index \in 1..MaxPlayers
    BY <1>1, SlotOfJoined, TeamFacts DEF Basic, HolderOK
  <2>3. \A i \in 1..(index - 1) : <<SlotOf(lock)[1], i>> \in Slot
    BY <2>2, TeamFacts, MaxPlayersOK
  <2>4. \A s \in Slot : playerID'[s] # NoFd => playerID[s] # NoFd /\ canMove'[s] = canMove[s]
    BY <1>1, FreeAlone
  <2> QED BY <1>1, <2>1, <2>3, <2>4 DEF FreedSoFar
<1>2. ASSUME NEW f \in Fd, Request(f) \/ Lost(f), phase # "free" PROVE FreedSoFar'
  <2>1. phase' = "free" => index' = 1
    BY <1>2 DEF Request, Lost, Connect, Hello, HelloAgain, StartCheck, StartLock, MoveCrash,
                PickUp, Drop, MoveBlocked, MoveIntoWall, MoveStep, Hold, Crash,
                SessionLost, SlotCleared, holder
  <2> QED BY <2>1 DEF FreedSoFar
<1>3. ASSUME NEW f \in Fd, FreeSlot(f) PROVE FreedSoFar'
  <2>1. phase' = "free" => index' = index + 1 /\ index \in Nat
    BY <1>3, MaxPlayersOK DEF FreeSlot, Frees, NextIndex, Basic, TypeOK
  <2>2. SlotOf(lock)' = SlotOf(f)
    BY <1>3, FreeTurn, Zenon DEF SlotOf
  <2> QED BY <1>3, <2>1, <2>2, FreeTurn DEF FreedSoFar
<1>4. ASSUME NEW f \in Fd, Handle(f), ~FreeSlot(f) PROVE FreedSoFar'
  <2>1. phase' # "free"
    BY <1>4 DEF Handle, StartPlace, StartSpawn, BreakWall, TagSlot, MoveFinish, Holds,
                Release, Crash, NextIndex, holder
  <2> QED BY <2>1 DEF FreedSoFar
<1>5. CASE UNCHANGED vars
  BY <1>5 DEF FreedSoFar, SlotOf, vars, board, player, holder
<1> QED BY <1>1, <1>2, <1>3, <1>4, <1>5 DEF Next

(* The free loop of move reaches every member of the team, whoever leaves  *)
(* while it runs and however the slots are filled.                         *)
THEOREM WholeTeamFreed == Spec => FreesWholeTeam
<1>1. Init => FreedSoFar
  BY DEF Init, FreedSoFar
<1>2. Basic /\ Basic' /\ FreedSoFar /\ [Next]_vars => FreedSoFar'
  BY FreedNext
<1>3. ASSUME Basic, Basic', FreedSoFar, [Next]_vars,
             NEW f \in Fd, lock = f, phase = "free", phase' = "finish"
      PROVE  \A i \in 1..MaxPlayers :
               LET s == <<SlotOf(f)[1], i>>
               IN playerID[s] # NoFd => canMove'[s]
  <2>1. ASSUME NEW g \in Fd, Request(g) \/ Lost(g) PROVE FALSE
    BY <1>3, <2>1, FreeAlone DEF holder
  <2>2. ASSUME NEW g \in Fd, Handle(g) PROVE FreeSlot(g) /\ g = f
    BY <1>3, <2>2 DEF Handle, StartPlace, StartSpawn, BreakWall, FreeSlot, Frees, TagSlot,
                      MoveFinish, Holds
  <2>3. FreeSlot(f)
    BY <1>3, <2>1, <2>2 DEF Next, vars, holder
  <2>4. index = MaxPlayers
    BY <1>3, <2>3, MaxPlayersOK DEF FreeSlot, Frees, NextIndex, Basic, TypeOK, HolderOK
  <2> QED BY <1>3, <2>3, <2>4, FreeTurn
<1>4. Basic /\ Basic' /\ FreedSoFar /\ [Next]_vars =>
        [\A f \in Fd : lock = f /\ phase = "free" /\ phase' = "finish" =>
           \A i \in 1..MaxPlayers :
             LET s == <<SlotOf(f)[1], i>>
             IN playerID[s] # NoFd => canMove'[s]]_vars
  BY <1>3
<1> QED BY <1>1, <1>2, <1>4, BasicAlways, PTL DEF Spec, FreesWholeTeam
=============================================================================
