---------------------------- MODULE CaptureFlag ----------------------------
(***************************************************************************)
(* The game kept by the server (Proto_Server.game) and the RPC handlers    *)
(* that change it: hello, start, move, pickup and the session-lost handler *)
(* (src/lib/protocol_server.c).                                            *)
(*                                                                         *)
(* Every client connection is served by a thread of its own.  The handlers *)
(* take Proto_Server.GameLock, except the session-lost handler and the     *)
(* checks at the head of start_game.  A handler that does everything at    *)
(* once is one action; start, and a move that changes the board, are a     *)
(* sequence of actions of the thread that holds the lock, because the      *)
(* session-lost handler of another thread can run between them.            *)
(*                                                                         *)
(* The map is a graph of cells.  A position is a cell, or Wild: what the   *)
(* uninitialised cellposition of a player who has not been placed yet may  *)
(* hold when it is no cell of the map.  A read through Wild, through a     *)
(* NULL player or outside the map kills the server: crashed.               *)
(***************************************************************************)
EXTENDS Naturals, Sequences, FiniteSets

CONSTANTS Fd,           \* the descriptors of client connections
          NoFd,         \* playerID of an empty slot (0 in the code)
          Free,         \* GameLock is held by nobody
          MaxPlayers,   \* MAX_NUM_PLAYERS, the slots of a team
          Cell,         \* the cells of the map
          Origin,       \* the cell at (0,0), where a zeroed player stands
          Wild,         \* an uninitialised position outside the map
          Outside,      \* beyond the edge of the map
          Garbage,      \* what an uninitialised cellposition may hold
          Adj,          \* Adj[c][d]: the neighbour of cell c in direction d
          InitType,     \* the types of the cells, as parse_map leaves them
          JailScan,     \* JailScan[t]: cells tried, in order, for a prisoner of t
          Objects,      \* the objects in play, all four in the code
          Habits        \* what clients do besides joining, starting and playing

Team == 1..2
Other(t) == 3 - t
Slot == Team \X (1..MaxPlayers)
Dir == {"UP", "DOWN", "LEFT", "RIGHT"}

FLOOR == <<"FLOOR_1", "FLOOR_2">>
HOME == <<"HOME_1", "HOME_2">>
JAIL == <<"JAIL_1", "JAIL_2">>
FLAG == <<"FLAG_1", "FLAG_2">>
JACKHAMMER == <<"JACKHAMMER1", "JACKHAMMER2">>
WON == <<"TEAM_1_WON", "TEAM_2_WON">>

CellType == {"FLOOR_1", "FLOOR_2", "HOME_1", "HOME_2", "JAIL_1", "JAIL_2",
             "WALL_FIXED", "WALL_UNFIXED"}
Object == {"FLAG_1", "FLAG_2", "JACKHAMMER1", "JACKHAMMER2"}
GameStatus == {"NOT_STARTED", "IN_PROGRESS", "TEAM_1_WON", "TEAM_2_WON"}

(* The lists parse_map fills; a wall that is broken later joins none. *)
HomeCells(t) == {c \in Cell : InitType[c] = HOME[t]}
FloorCells(t) == {c \in Cell : InitType[c] = FLOOR[t]}

ASSUME MaxPlayersOK == MaxPlayers \in Nat \ {0}

ASSUME FdOK == IsFiniteSet(Fd) /\ NoFd \notin Fd /\ Free \notin Fd

ASSUME CellOK == /\ Origin \in Cell /\ Wild \notin Cell /\ Outside \notin Cell
                 /\ Garbage \subseteq Cell \cup {Wild}

ASSUME MapOK == /\ Adj \in [Cell -> [Dir -> Cell \cup {Outside}]]
                /\ InitType \in [Cell -> CellType]
                /\ InitType[Origin] = "WALL_FIXED"

(* parse_map fixes the walls at the edges of the map and those next to a   *)
(* home or a jail; the corner has walls beside it.                         *)
ASSUME WallsOK ==
  /\ \A d \in Dir : Adj[Origin][d] \in Cell => InitType[Adj[Origin][d]] = "WALL_FIXED"
  /\ \A c \in Cell, d \in Dir :
       Adj[c][d] \in Cell /\ InitType[Adj[c][d]] = "WALL_UNFIXED" =>
         /\ InitType[c] \in {"FLOOR_1", "FLOOR_2", "WALL_FIXED", "WALL_UNFIXED"}
         /\ \E e \in Dir : Adj[Adj[c][d]][e] = c

ASSUME ScanOK == JailScan \in [Team -> Seq(Cell \ {Origin})]

ASSUME ObjectsOK == /\ Objects \subseteq Object
                    /\ Habits \subseteq {"lost", "hello again", "restart"}

VARIABLES
  playerID,   \* the fields of Team1_Players and Team2_Players, by <<team, slot>>
  cellposition, canMove, isHost, inventory,
  occupied,   \* the cells whose occupied flag is 1
  cellType,   \* the type of every cell
  objPos,     \* objects[].cellposition
  status,     \* game.status
  lock,       \* the holder of GameLock
  phase,      \* where in its handler the holder of GameLock is
  index,      \* the loop counter of that handler
  target,     \* the wall it is breaking, or Origin
  thread,     \* what the thread of each connection is doing
  checked,    \* the team size start_game counted before it took the lock
  crashed,    \* the server process has died
  raced       \* history: a session-lost handler has overlapped a lock holder

player == <<playerID, cellposition, canMove, isHost, inventory>>
board == <<player, occupied, cellType, objPos, status>>
holder == <<lock, phase, index, target>>
vars == <<board, holder, thread, checked, crashed, raced>>

----------------------------------------------------------------------------
(* Players and slots *)

Members(t) == {i \in 1..MaxPlayers : playerID[<<t, i>>] # NoFd}
NumPlayers(t) == Cardinality(Members(t))

Joined_Team1Only(f) == \E i \in 1..MaxPlayers : playerID[<<1, i>>] = f
Joined(f) == \E s \in Slot : playerID[s] = f
SlotOf(f) == CHOOSE s \in Slot : playerID[s] = f

(* The thread of f is inside a handler that holds GameLock. *)
Busy(f) == lock = f /\ phase # "idle"

(* An RPC of connection f is dispatched and its handler gets GameLock. *)
Enter(f) == ~crashed /\ lock = Free /\ thread[f] = "ready"

(* What a lock holder moves while a player is half removed is a data race. *)
NoteRace == raced' = (raced \/ \E f \in Fd : thread[f] = "leaving")

(* The next step of the handler that holds GameLock. *)
Holds(f, p) == ~crashed /\ lock = f /\ phase = p /\ UNCHANGED raced

Release == lock' = Free /\ phase' = "idle" /\ index' = 0 /\ target' = Origin
Hold(f, p) == lock' = f /\ phase' = p /\ index' = 1 /\ target' = Origin

Crash == crashed' = TRUE /\ UNCHANGED <<board, holder, thread, checked>>

----------------------------------------------------------------------------
(* Objects and the result *)

SpawnCells(o) == CASE o = "FLAG_1" -> FloorCells(1)
                   [] o = "FLAG_2" -> FloorCells(2)
                   [] o = "JACKHAMMER1" -> HomeCells(1)
                   [] OTHER -> HomeCells(2)

(* The cells spawnObject may draw for o when the objects stand at pos. *)
Spawnable(o, pos) ==
  {c \in SpawnCells(o) : c \notin occupied /\ \A p \in Objects : pos[p] # c}

(* checkOverGame: both flags on t's floor or home, none in the hands of t. *)
Wins(t, inv, ct, pos) ==
  /\ \A u \in Team : ct[pos[FLAG[u]]] \in {FLOOR[t], HOME[t]}
  /\ \A i \in 1..MaxPlayers : inv[<<t, i>>] \notin {FLAG[1], FLAG[2]}

StatusAfter(inv, ct, pos) ==
  IF Wins(1, inv, ct, pos) THEN WON[1]
  ELSE IF Wins(2, inv, ct, pos) THEN WON[2] ELSE status

----------------------------------------------------------------------------
Init ==
  /\ playerID = [s \in Slot |-> NoFd]
  /\ cellposition = [s \in Slot |-> Origin]
  /\ canMove = [s \in Slot |-> FALSE]
  /\ isHost = [s \in Slot |-> FALSE]
  /\ inventory = [s \in Slot |-> "NONE"]
  /\ occupied = {}
  /\ cellType = InitType
  /\ objPos = [o \in Object |-> Origin]
  /\ status = "NOT_STARTED"
  /\ lock = Free /\ phase = "idle" /\ index = 0 /\ target = Origin
  /\ thread = [f \in Fd |-> "down"]
  /\ checked = [f \in Fd |-> 0]
  /\ crashed = FALSE /\ raced = FALSE

(* A connection is accepted and its dispatcher thread created. *)
Connect(f) ==
  /\ ~crashed /\ thread[f] = "down"
  /\ thread' = [thread EXCEPT ![f] = "open"]
  /\ UNCHANGED <<board, holder, checked, crashed, raced>>

(* insertPlayerForTeam: the first empty slot; a full team drops the player. *)
Insert(f, t, host, p) ==
  IF Members(t) = 1..MaxPlayers THEN UNCHANGED player
  ELSE \E i \in (1..MaxPlayers) \ Members(t) :
         /\ \A j \in 1..(i-1) : j \in Members(t)
         /\ playerID' = [playerID EXCEPT ![<<t, i>>] = f]
         /\ cellposition' = [cellposition EXCEPT ![<<t, i>>] = p]
         /\ canMove' = [canMove EXCEPT ![<<t, i>>] = TRUE]
         /\ isHost' = [isHost EXCEPT ![<<t, i>>] = host]
         /\ inventory' = [inventory EXCEPT ![<<t, i>>] = "NONE"]

(* A connection says hello at once; some clients do it again later. *)
SaysHello(f) == /\ ~crashed /\ lock = Free
                /\ \/ thread[f] = "open"
                   \/ thread[f] = "ready" /\ "hello again" \in Habits

FirstPlayer_Team2Only == NumPlayers(2) = 0
FirstPlayer == NumPlayers(1) = 0 /\ NumPlayers(2) = 0

(* A new player joins the smaller team, team 1 on a tie.  The first player *)
(* is the host.                                                            *)
Hello(f) ==
  /\ SaysHello(f) /\ ~Joined(f)
  /\ LET t == IF NumPlayers(1) > NumPlayers(2) THEN 2 ELSE 1
     IN \E p \in Garbage : Insert(f, t, FirstPlayer, p)
  /\ thread' = [thread EXCEPT ![f] = "ready"]
  /\ UNCHANGED <<occupied, cellType, objPos, status, holder, checked, crashed,
                 raced>>

(* The connection has a player: ALREADYJOINED returns with GameLock held. *)
HelloAgain(f) ==
  /\ SaysHello(f) /\ Joined(f)
  /\ lock' = f
  /\ thread' = [thread EXCEPT ![f] = "ready"]
  /\ UNCHANGED <<board, phase, index, target, checked, crashed, raced>>

----------------------------------------------------------------------------
(* start_game *)

(* The checks before GameLock is taken: the caller is the host and the     *)
(* teams are even.  A refusal only sends a reply.                          *)
StartCheck(f) ==
  /\ ~crashed /\ thread[f] = "ready" /\ ~Busy(f)
  /\ status = "NOT_STARTED" \/ "restart" \in Habits
  /\ IF ~Joined(f) THEN Crash
     ELSE /\ isHost[SlotOf(f)] /\ NumPlayers(1) = NumPlayers(2)
          /\ thread' = [thread EXCEPT ![f] = "starting"]
          /\ checked' = [checked EXCEPT ![f] = NumPlayers(1)]
          /\ UNCHANGED <<board, holder, crashed>>
  /\ UNCHANGED raced

StartLock(f) ==
  /\ ~crashed /\ lock = Free /\ thread[f] = "starting"
  /\ Hold(f, "start")
  /\ NoteRace
  /\ UNCHANGED <<board, thread, checked, crashed>>

(* The home cells a loop of random draws can end with. *)
FreeHomes_Any(t, occ) == HomeCells(t)
FreeHomes(t, occ) == HomeCells(t) \ occ

(* The slots of both teams from the counted size down to the first get     *)
(* distinct unoccupied home cells.                                         *)
Placed(n) == Team \X (1..n)
Placement(n) ==
  {h \in [Placed(n) -> Cell] :
     /\ \A s \in Placed(n) : h[s] \in FreeHomes(s[1], occupied)
     /\ \A s, r \in Placed(n) : s # r => h[s] # h[r]}

StartPlace(f) ==
  /\ Holds(f, "start")
  /\ \E h \in Placement(checked[f]) :
       /\ cellposition' = [s \in Slot |-> IF s \in Placed(checked[f])
                                          THEN h[s] ELSE cellposition[s]]
       /\ occupied' = occupied \cup {h[s] : s \in Placed(checked[f])}
  /\ lock' = f /\ phase' = "spawn" /\ UNCHANGED <<index, target>>
  /\ checked' = [checked EXCEPT ![f] = 0]
  /\ UNCHANGED <<playerID, canMove, isHost, inventory, cellType, objPos, status,
                 thread, crashed>>

(* spawnObject for jackhammer 1, jackhammer 2, flag 1 and flag 2 in turn;  *)
(* then the game is in progress.                                           *)
SpawnOrder == <<"JACKHAMMER1", "JACKHAMMER2", "FLAG_1", "FLAG_2">>
Turn(o) == CHOOSE n \in 1..4 : SpawnOrder[n] = o

StartSpawn(f) ==
  /\ Holds(f, "spawn")
  /\ \E new \in [Objects -> Cell] :
       /\ \A o \in Objects :
            new[o] \in Spawnable(o, [p \in Objects |->
               IF Turn(p) < Turn(o) THEN new[p] ELSE objPos[p]])
       /\ objPos' = [o \in Object |-> IF o \in Objects THEN new[o] ELSE objPos[o]]
  /\ status' = "IN_PROGRESS"
  /\ Release
  /\ thread' = [thread EXCEPT ![f] = "ready"]
  /\ UNCHANGED <<player, occupied, cellType, checked, crashed>>

----------------------------------------------------------------------------
(* move *)

HasJackhammer(s) == inventory[s] \in {JACKHAMMER[1], JACKHAMMER[2]}

(* The player of connection f may move and dest is the cell it moves to. *)
MoveTo(f, s, dest) ==
  /\ Joined(f) /\ s = SlotOf(f)
  /\ canMove[s] /\ cellposition[s] \in Cell
  /\ \E d \in Dir : Adj[cellposition[s]][d] = dest
  /\ dest \in Cell

(* No such player, a position that was never set, or a step off the map. *)
MoveCrash(f) ==
  /\ Enter(f)
  /\ \/ ~Joined(f)
     \/ /\ Joined(f) /\ canMove[SlotOf(f)]
        /\ cellposition[SlotOf(f)] = Wild
     \/ /\ Joined(f) /\ canMove[SlotOf(f)]
        /\ cellposition[SlotOf(f)] \in Cell
        /\ \E d \in Dir : Adj[cellposition[SlotOf(f)]][d] = Outside
  /\ Crash /\ UNCHANGED raced

(* Into a player or a wall: nothing moves, but the game may be over. *)
MoveBlocked(f, dest) ==
  /\ Enter(f) /\ MoveTo(f, SlotOf(f), dest)
  /\ \/ dest \in occupied
     \/ cellType[dest] = "WALL_FIXED"
     \/ cellType[dest] = "WALL_UNFIXED" /\ ~HasJackhammer(SlotOf(f))
  /\ status' = StatusAfter(inventory, cellType, objPos)
  /\ UNCHANGED <<player, occupied, cellType, objPos, holder, thread, checked,
                 crashed, raced>>

(* Into an unfixed wall with a jackhammer. *)
MoveIntoWall(f, dest) ==
  /\ Enter(f) /\ MoveTo(f, SlotOf(f), dest)
  /\ dest \notin occupied /\ cellType[dest] = "WALL_UNFIXED"
  /\ HasJackhammer(SlotOf(f))
  /\ lock' = f /\ phase' = "break" /\ index' = 1 /\ target' = dest
  /\ NoteRace
  /\ UNCHANGED <<board, thread, checked, crashed>>

Broken_AlwaysFloor1(wall) == FLOOR[1]
Broken(wall) ==
  IF \E d \in Dir : Adj[wall][d] \in Cell /\ cellType[Adj[wall][d]] = FLOOR[1]
  THEN FLOOR[1] ELSE FLOOR[2]

(* The jackhammer goes back to its own home, the wall becomes floor and    *)
(* the player steps in.                                                    *)
BreakWall(f) ==
  LET s == SlotOf(f)
      jh == inventory[s]
      ct == [cellType EXCEPT ![target] = Broken(target)]
      inv == [inventory EXCEPT ![s] = "NONE"]
  IN /\ Holds(f, "break")
     /\ \E c \in Spawnable(jh, objPos) : objPos' = [objPos EXCEPT ![jh] = c]
     /\ cellType' = ct
     /\ inventory' = inv
     /\ cellposition' = [cellposition EXCEPT ![s] = target]
     /\ occupied' = (occupied \ {cellposition[s]}) \cup {target}
     /\ status' = StatusAfter(inv, ct, objPos')
     /\ Release
     /\ UNCHANGED <<playerID, canMove, isHost, thread, checked, crashed>>

(* Into a free cell.  On the enemy's jail the player's team is freed, on   *)
(* its own side the player tags.                                           *)
MoveStep(f, dest) ==
  LET s == SlotOf(f)
      t == s[1]
  IN /\ Enter(f) /\ MoveTo(f, s, dest)
     /\ dest \notin occupied
     /\ cellType[dest] \notin {"WALL_FIXED", "WALL_UNFIXED"}
     /\ occupied' = (occupied \ {cellposition[s]}) \cup {dest}
     /\ cellposition' = [cellposition EXCEPT ![s] = dest]
     /\ Hold(f, CASE cellType[dest] = JAIL[Other(t)] -> "free"
                  [] cellType[dest] \in {FLOOR[t], HOME[t], JAIL[t]} -> "tag"
                  [] OTHER -> "finish")
     /\ NoteRace
     /\ UNCHANGED <<playerID, canMove, isHost, inventory, cellType, objPos, status,
                    thread, checked, crashed>>

(* The loops over the slots end after the last one. *)
NextIndex_TooFar == /\ IF index <= MaxPlayers
                       THEN index' = index + 1 /\ UNCHANGED phase
                       ELSE index' = 1 /\ phase' = "finish"
                    /\ UNCHANGED <<lock, target>>
NextIndex_Stuck == UNCHANGED <<lock, phase, index, target>>
NextIndex == /\ IF index < MaxPlayers
                THEN index' = index + 1 /\ UNCHANGED phase
                ELSE index' = 1 /\ phase' = "finish"
             /\ UNCHANGED <<lock, target>>

(* Who the free loop lets go. *)
Frees_Nearby(s) == /\ ~canMove[s]
                   /\ \E d \in Dir : Adj[cellposition[SlotOf(lock)]][d] = cellposition[s]
Frees(s) == ~canMove[s]

(* One turn of the free loop: a slot that may not move goes home, also an  *)
(* empty one.                                                              *)
FreeSlot(f) ==
  LET s == <<SlotOf(f)[1], index>>
      vacated == occupied \ {cellposition[s]}
  IN /\ Holds(f, "free")
     /\ IF Frees(s)
        THEN \E c \in FreeHomes(s[1], vacated) :
               /\ canMove' = [canMove EXCEPT ![s] = TRUE]
               /\ cellposition' = [cellposition EXCEPT ![s] = c]
               /\ occupied' = vacated \cup {c}
        ELSE UNCHANGED <<cellposition, canMove, occupied>>
     /\ NextIndex
     /\ UNCHANGED <<playerID, isHost, inventory, cellType, objPos, status, thread,
                    checked, crashed>>

(* The first unoccupied cell of the jail scan of team t. *)
JailFor_WrongSide(t, occ) ==
  CHOOSE c \in Cell : \E n \in 1..Len(JailScan[Other(t)]) :
    c = JailScan[Other(t)][n] /\ c \notin occ
JailFor(t, occ) ==
  CHOOSE c \in Cell : \E n \in 1..Len(JailScan[t]) :
    /\ c = JailScan[t][n] /\ c \notin occ
    /\ \A m \in 1..(n-1) : JailScan[t][m] \in occ

JailFull(t, occ) == \A n \in 1..Len(JailScan[t]) : JailScan[t][n] \in occ

(* The scan tries more cells of the enemy's jail, before it tries any      *)
(* other, than there are connections.                                      *)
JailRoom ==
  \A t \in Team : \E k \in 1..Len(JailScan[t]) :
    /\ k > Cardinality(Fd)
    /\ \A n \in 1..k : InitType[JailScan[t][n]] = JAIL[Other(t)]
    /\ \A n, m \in 1..k : n # m => JailScan[t][n] # JailScan[t][m]

(* One of the four adjacency tests of the tag loop: the victim v standing  *)
(* at cell at is jailed, or left where it is when the scan finds no room.  *)
Tagged(g, v, at) ==
  IF g.pos[v] # at THEN g
  ELSE LET can == [g.can EXCEPT ![v] = FALSE]
           cell == JailFor(v[1], g.occ)
       IN IF JailFull(v[1], g.occ)
          THEN [pos |-> g.pos, can |-> can, occ |-> g.occ]
          ELSE [pos |-> [g.pos EXCEPT ![v] = cell], can |-> can,
                occ |-> (g.occ \ {at}) \cup {cell}]

(* One turn of the tag loop: an enemy that can move and stands on the      *)
(* mover's floor or home is tried above, right, below and left.            *)
Exposed_Prisoner(v, t) ==
  /\ cellposition[v] \in Cell
  /\ cellType[cellposition[v]] \in {FLOOR[t], HOME[t], JAIL[t]}
Exposed(v, t) == /\ canMove[v]
                 /\ cellposition[v] \in Cell
                 /\ cellType[cellposition[v]] \in {FLOOR[t], HOME[t]}

TagSlot(f) ==
  LET t == SlotOf(f)[1]
      v == <<Other(t), index>>
      adj == Adj[cellposition[SlotOf(f)]]
      now == [pos |-> cellposition, can |-> canMove, occ |-> occupied]
      up == Tagged(now, v, adj["UP"])
      right == Tagged(up, v, adj["RIGHT"])
      down == Tagged(right, v, adj["DOWN"])
      left == Tagged(down, v, adj["LEFT"])
  IN /\ Holds(f, "tag")
     /\ IF canMove[v] /\ cellposition[v] = Wild THEN Crash
        ELSE /\ IF Exposed(v, t)
                THEN /\ cellposition' = left.pos /\ canMove' = left.can
                     /\ occupied' = left.occ
                ELSE UNCHANGED <<cellposition, canMove, occupied>>
             /\ NextIndex
             /\ UNCHANGED <<playerID, isHost, inventory, cellType, objPos, status,
                            thread, checked, crashed>>

(* The object in hand follows the mover; a flag its own team carries onto  *)
(* its own floor is put back at random.  Then the result is decided.       *)
Carry(s) ==
  LET o == inventory[s]
      moved == [objPos EXCEPT ![o] = cellposition[s]]
  IN IF o = "NONE" THEN UNCHANGED <<inventory, objPos>>
     ELSE IF o = FLAG[s[1]] /\ cellType[cellposition[s]] = FLOOR[s[1]]
     THEN /\ \E c \in Spawnable(o, moved) : objPos' = [objPos EXCEPT ![o] = c]
          /\ inventory' = [inventory EXCEPT ![s] = "NONE"]
     ELSE objPos' = moved /\ UNCHANGED inventory

MoveFinish(f) ==
  /\ Holds(f, "finish")
  /\ Carry(SlotOf(f))
  /\ status' = StatusAfter(inventory', cellType, objPos')
  /\ Release
  /\ UNCHANGED <<playerID, cellposition, canMove, isHost, occupied, cellType,
                 thread, checked, crashed>>

----------------------------------------------------------------------------
(* pickup *)

(* The first object, in the order of objects[], that lies where s stands. *)
ObjectOrder == <<"FLAG_1", "FLAG_2", "JACKHAMMER1", "JACKHAMMER2">>
Rank(o) == CHOOSE n \in 1..4 : ObjectOrder[n] = o
Here(s) == {o \in Objects : objPos[o] = cellposition[s]}
OnOwnSide_HomeOnly(s) == cellType[cellposition[s]] = HOME[s[1]]
OnOwnSide(s) == cellType[cellposition[s]] \in {FLOOR[s[1]], HOME[s[1]], JAIL[s[1]]}

(* Before the game starts the objects have type NONE: nothing is taken. *)
PickUp(f) ==
  LET s == SlotOf(f)
  IN /\ Enter(f) /\ Joined(f) /\ status # "NOT_STARTED"
     /\ inventory[s] = "NONE"
     /\ \E o \in Here(s) :
          /\ \A p \in Here(s) : Rank(o) <= Rank(p)
          /\ ~(o = FLAG[s[1]] /\ OnOwnSide(s))
          /\ inventory' = [inventory EXCEPT ![s] = o]
     /\ UNCHANGED <<playerID, cellposition, canMove, isHost, occupied, cellType,
                    objPos, status, holder, thread, checked, crashed, raced>>

(* With something in hand the same request drops it. *)
Drop(f) ==
  LET s == SlotOf(f)
      inv == [inventory EXCEPT ![s] = "NONE"]
  IN /\ Enter(f) /\ Joined(f) /\ inventory[s] # "NONE"
     /\ inventory' = inv
     /\ status' = StatusAfter(inv, cellType, objPos)
     /\ UNCHANGED <<playerID, cellposition, canMove, isHost, occupied, cellType,
                    objPos, holder, thread, checked, crashed, raced>>

----------------------------------------------------------------------------
(* The session-lost handler, which takes no lock: the cell of the player   *)
(* is vacated, then its slot is zeroed.                                    *)

SessionLost(f) ==
  /\ "lost" \in Habits
  /\ ~crashed /\ thread[f] \in {"open", "ready"} /\ ~Busy(f)
  /\ IF ~Joined(f)
     THEN /\ thread' = [thread EXCEPT ![f] = "down"]
          /\ UNCHANGED <<board, holder, checked, crashed>>
     ELSE IF cellposition[SlotOf(f)] = Wild THEN Crash
     ELSE /\ inventory' = [inventory EXCEPT ![SlotOf(f)] = "NONE"]
          /\ occupied' = occupied \ {cellposition[SlotOf(f)]}
          /\ thread' = [thread EXCEPT ![f] = "leaving"]
          /\ UNCHANGED <<playerID, cellposition, canMove, isHost, cellType, objPos,
                         status, holder, checked, crashed>>
  /\ raced' = (raced \/ phase # "idle")

SlotCleared(f) ==
  /\ ~crashed /\ thread[f] = "leaving"
  /\ playerID' = [playerID EXCEPT ![SlotOf(f)] = NoFd]
  /\ cellposition' = [cellposition EXCEPT ![SlotOf(f)] = Origin]
  /\ canMove' = [canMove EXCEPT ![SlotOf(f)] = FALSE]
  /\ isHost' = [isHost EXCEPT ![SlotOf(f)] = FALSE]
  /\ inventory' = [inventory EXCEPT ![SlotOf(f)] = "NONE"]
  /\ thread' = [thread EXCEPT ![f] = "down"]
  /\ UNCHANGED <<occupied, cellType, objPos, status, holder, checked, crashed,
                 raced>>

----------------------------------------------------------------------------
(* The steps of the thread that holds GameLock. *)
Handle(f) == \/ StartPlace(f) \/ StartSpawn(f) \/ BreakWall(f) \/ FreeSlot(f)
             \/ TagSlot(f) \/ MoveFinish(f)

(* A request that arrives. *)
Request(f) == \/ Connect(f) \/ Hello(f) \/ HelloAgain(f)
              \/ StartCheck(f) \/ StartLock(f)
              \/ MoveCrash(f) \/ PickUp(f) \/ Drop(f)
              \/ \E dest \in Cell :
                   MoveBlocked(f, dest) \/ MoveIntoWall(f, dest) \/ MoveStep(f, dest)

Lost(f) == SessionLost(f) \/ SlotCleared(f)

Next == \E f \in Fd : Request(f) \/ Handle(f) \/ Lost(f)

Spec == Init /\ [][Next]_vars

(* Threads are scheduled: a handler that can continue does. *)
FairSpec == Spec /\ \A f \in Fd : WF_vars(Handle(f))

----------------------------------------------------------------------------
(* Properties *)

(* Every variable has the type its declaration in the code gives it. *)
TypeOK ==
  /\ playerID \in [Slot -> Fd \cup {NoFd}]
  /\ cellposition \in [Slot -> Cell \cup {Wild}]
  /\ canMove \in [Slot -> BOOLEAN]
  /\ isHost \in [Slot -> BOOLEAN]
  /\ inventory \in [Slot -> Object \cup {"NONE"}]
  /\ occupied \subseteq Cell
  /\ cellType \in [Cell -> CellType]
  /\ objPos \in [Object -> Cell \cup {Wild}]
  /\ status \in GameStatus
  /\ lock \in Fd \cup {Free}
  /\ phase \in {"idle", "start", "spawn", "break", "free", "tag", "finish"}
  /\ index \in 0..MaxPlayers
  /\ target \in Cell
  /\ thread \in [Fd -> {"down", "open", "ready", "starting", "leaving"}]
  /\ checked \in [Fd -> 0..MaxPlayers]
  /\ crashed \in BOOLEAN /\ raced \in BOOLEAN

(* A slot whose player is on the board and not just being removed. *)
Stands(s) == /\ cellposition[s] \in Cell \ {Origin}
             /\ \A f \in Fd : playerID[s] = f => thread[f] # "leaving"

(* No two players share a cell, and the cell of every player is marked     *)
(* occupied: collision detection, start, tagging and freeing all trust the *)
(* flag.  Once a session-lost handler has overlapped a lock holder nothing *)
(* is promised.                                                            *)
NoSharedCell ==
  ~raced => /\ \A s \in Slot : Stands(s) => cellposition[s] \in occupied
            /\ \A s, r \in Slot : Stands(s) /\ Stands(r) /\ s # r
                                    => cellposition[s] # cellposition[r]

(* A connection has at most one player, whatever the joins, losses and     *)
(* reuses of descriptors: getPlayer finds a player by its descriptor.      *)
OnePlayerPerConnection ==
  \A s, r \in Slot : playerID[s] = playerID[r] /\ s # r
                      => playerID[s] = NoFd

(* At most one player is host, and the host is a player who has joined:    *)
(* only a hello into two empty teams appoints one.                         *)
OneHost ==
  /\ \A s \in Slot : isHost[s] => playerID[s] # NoFd
  /\ \A s, r \in Slot : isHost[s] /\ isHost[r] => s = r

(* A player who may not move stands in the jail of the other team: tagging *)
(* sends it there, and nothing but freeing, which lets it move, takes it   *)
(* away.                                                                   *)
PrisonersInJail ==
  ~raced => \A s \in Slot : playerID[s] # NoFd /\ ~canMove[s]
                             => /\ cellposition[s] \in Cell
                                /\ cellType[cellposition[s]] = JAIL[Other(s[1])]

(* A prisoner changes its cell only by being freed to its own home: it can *)
(* neither move nor be tagged again.                                       *)
PrisonersStay ==
  [][\A s \in Slot :
       /\ playerID[s] # NoFd /\ playerID'[s] = playerID[s]
       /\ ~canMove[s] /\ cellposition'[s] # cellposition[s]
       => canMove'[s] /\ cellposition'[s] \in HomeCells(s[1])]_vars

(* When the free loop is over every member of the mover's team can move.   *)
FreesWholeTeam ==
  [][\A f \in Fd : lock = f /\ phase = "free" /\ phase' = "finish" =>
       \A i \in 1..MaxPlayers :
         LET s == <<SlotOf(f)[1], i>>
         IN playerID[s] # NoFd => canMove'[s]]_vars

(* Between requests no player carries its own team's flag on its own floor: *)
(* pickup refuses it there, and a move onto it sends the flag away.         *)
OwnFlagNotCarriedHome ==
  phase = "idle" =>
    \A s \in Slot : /\ inventory[s] = FLAG[s[1]]
                     /\ cellposition[s] \in Cell
                     => cellType[cellposition[s]] # FLOOR[s[1]]

(* A broken wall becomes floor of a side it touches, in whatever order the *)
(* walls between the sides are broken.                                     *)
BrokenWallsJoinASide ==
  \A c \in Cell : cellType[c] # InitType[c] =>
    /\ InitType[c] = "WALL_UNFIXED"
    /\ \E d \in Dir : /\ Adj[c][d] \in Cell
                       /\ cellType[Adj[c][d]] = cellType[c]

(* A handler that has taken GameLock comes to its end, with or without     *)
(* players leaving under its loops, unless the server dies.                *)
HandlerReturns == phase # "idle" ~> (phase = "idle" \/ crashed)

(* "Unlock after update": whoever takes GameLock gives it back. *)
LockReturned == lock # Free ~> (lock = Free \/ crashed)

(* "Randomly assign each player a random location in their home region". *)
StartPlacesAll ==
  [][phase = "start" /\ phase' = "spawn" =>
       \A s \in Slot : playerID[s] # NoFd
                        => cellposition'[s] \in HomeCells(s[1])]_vars

(* "Make sure no player is still holding the flag": a game is won only     *)
(* when nobody holds a flag.                                               *)
WonWithFlagsDown ==
  [][status' # status /\ status' \in {WON[1], WON[2]} =>
       \A s \in Slot : inventory'[s] \notin {FLAG[1], FLAG[2]}]_vars
=============================================================================
