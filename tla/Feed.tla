-------------------------------- MODULE Feed --------------------------------
(***************************************************************************)
(* How the game reaches the clients: the requests and replies of the RPC   *)
(* connections, the events of the event connections, and the copy of the   *)
(* game each client keeps (src/lib/protocol_client.c, src/client/client.c, *)
(* src/lib/protocol_server.c, src/lib/protocol_session.c).                 *)
(*                                                                         *)
(* A client has two threads.  The main thread reads commands, sends a      *)
(* request and waits for its reply; the event thread handles the events.   *)
(* Both write the client's copy, and nothing protects it.  On the server   *)
(* each client has a thread that serves its requests; a snapshot of the    *)
(* game is taken when a message is built, without GameLock.                *)
(*                                                                         *)
(* What a handler does to the game is the matter of CaptureFlag.  Here the *)
(* game is a version number per part: the player of each client, and the   *)
(* four objects together.  A handler advances the parts it changes one by  *)
(* one, so a snapshot may show half of it.  A wall is broken or not.       *)
(***************************************************************************)
EXTENDS Integers, Sequences, FiniteSets

CONSTANTS Client,
          NoOne,        \* no client
          Objs,         \* the part that stands for the four objects
          Wall,         \* the walls that can be broken
          Unset,        \* updateCell at (-1,-1)
          Habit,        \* the commands each client's user may give, each once
          MaxRequests,  \* how many of them, at most
          Slow,         \* clients whose subscription may come after their hello
          EvtCap,       \* events the sockets hold for a client
          AckCap        \* ACKs the sockets hold for the server

Part == Client \cup {Objs}
Zero == [p \in Part |-> 0]
Request == {"HELLO", "LOBBY_UPDATE", "MAPQUERY", "START", "MOVE", "PICKUP", "GOODBYE"}
Event == {"LOBBY_UPDATE", "START", "GAME_UPDATE", "MAP_UPDATE", "GAME_OVER"}
GameStatus == {"NOT_STARTED", "IN_PROGRESS", "WON"}
Command == {"start", "move", "break", "win", "pickup", "quit"}

ASSUME NamesOK == /\ Objs \notin Client /\ NoOne \notin Client
                  /\ Unset \notin Wall
ASSUME HabitOK == Habit \in [Client -> SUBSET Command]
ASSUME SlowOK == Slow \subseteq Client
ASSUME BoundsOK == MaxRequests \in [Client -> Nat] /\ EvtCap \in Nat \ {0} /\ AckCap \in Nat \ {0}

VARIABLES
  \* the server's game
  part,       \* version of each part
  team,       \* the team of each client's player, 0 when it has none
  host,       \* the client whose player is the host, or NoOne
  status, broken, updateCell,
  \* the server's threads
  lock,       \* the thread that holds GameLock, or NoOne
  hpc, job,   \* where each thread is, and what it has to do
  subs,       \* the subscribers in the order of the table
  cast,       \* the broadcast that holds EventSubscribersLock
  \* the connections
  req, rep,   \* requests and replies under way
  evt, ack,   \* events under way; ACKs the server has not read
  \* the clients
  mpc,        \* where the main thread is
  ui,         \* whether its window is up
  view, known, cstatus, cmap,  \* its copy of the game
  left,       \* commands its user may still give
  \* history
  astray,     \* clients hit by a race on their copy, or subscribed too late
  overtaken,  \* clients whose START reply came before an event that is older
  spoilt,     \* updateCell has been reset under a MAP_UPDATE broadcast
  again       \* a game has been started when there had been one

game == <<part, team, host, status>>
walls == <<broken, updateCell>>
thread == <<lock, hpc, job>>
channel == <<subs, cast>>
wire == <<req, rep, evt, ack>>
copies == <<view, known, cstatus>>
client == <<mpc, ui, copies, cmap, left>>
history == <<astray, overtaken, spoilt, again>>
server == <<game, walls, thread, channel>>
vars == <<server, wire, client, history>>

Header(mt) == [mt |-> mt, view |-> Zero, in |-> {}, st |-> "NOT_STARTED",
               cell |-> Unset, map |-> {}]
InGame == {c \in Client : team[c] # 0}

(* A message with a copy of the game, as it is at this moment. *)
Snapshot(mt) == [Header(mt) EXCEPT !.view = part, !.in = InGame, !.st = status]
Work(mt) == [mt |-> mt, todo |-> {}, breaks |-> FALSE, wins |-> FALSE]
NoCast == [by |-> NoOne, mt |-> "LOBBY_UPDATE", at |-> 1]

Init ==
  /\ part = Zero
  /\ team = [c \in Client |-> 0] /\ host = NoOne
  /\ status = "NOT_STARTED" /\ broken = {} /\ updateCell = Unset
  /\ lock = NoOne
  /\ hpc = [c \in Client |-> "away"]
  /\ job = [c \in Client |-> Work("LOST")]
  /\ subs = <<>> /\ cast = NoCast
  /\ req = [c \in Client |-> <<>>] /\ rep = [c \in Client |-> <<>>]
  /\ evt = [c \in Client |-> <<>>] /\ ack = [c \in Client |-> 0]
  /\ mpc = [c \in Client |-> "off"]
  /\ ui = [c \in Client |-> FALSE]
  /\ view = [c \in Client |-> Zero]
  /\ known = [c \in Client |-> {}]
  /\ cstatus = [c \in Client |-> "NOT_STARTED"]
  /\ cmap = [c \in Client |-> {}]
  /\ left = Habit
  /\ astray = {} /\ overtaken = {} /\ spoilt = FALSE /\ again = FALSE

Alive(c) == mpc[c] \notin {"off", "gone", "crashed"}
HasMap(c) == Alive(c) /\ mpc[c] \notin {"hello", "map"}
Goto(c, l) == hpc' = [hpc EXCEPT ![c] = l]

----------------------------------------------------------------------------
(* The thread of client c on the server *)

(* The host may start when the teams are even; start_game looks without    *)
(* GameLock.                                                               *)
Members(t) == {c \in Client : team[c] = t}
MayStart(c) == c = host /\ Cardinality(Members(1)) = Cardinality(Members(2))

Subscribed(c) == \E k \in DOMAIN subs : subs[k] = c
Reads(c, mt) ==
  /\ hpc[c] = "idle" /\ req[c] # <<>> /\ Head(req[c]) = mt
  /\ req' = [req EXCEPT ![c] = Tail(@)]
Does(c, work) == job' = [job EXCEPT ![c] = work]

ReadStart(c) ==
  /\ Reads(c, "START") /\ Does(c, Work("START"))
  /\ Goto(c, IF MayStart(c) THEN "lock" ELSE "refuse")
  /\ UNCHANGED <<game, walls, lock, channel, rep, evt, ack, client, history>>

ReadLobby_Replies(c) ==
  /\ Reads(c, "LOBBY_UPDATE") /\ Does(c, Work("LOBBY_UPDATE"))
  /\ Goto(c, "answer")
  /\ UNCHANGED <<game, walls, lock, channel, rep, evt, ack, client, history>>

ReadLobby(c) ==
  /\ Reads(c, "LOBBY_UPDATE") /\ Does(c, Work("LOBBY_UPDATE"))
  /\ Goto(c, "post")
  /\ UNCHANGED <<game, walls, lock, channel, rep, evt, ack, client, history>>

ReadGoodbye(c) ==
  /\ Reads(c, "GOODBYE") /\ Does(c, Work("GOODBYE"))
  /\ Goto(c, "clear")
  /\ UNCHANGED <<game, walls, lock, channel, rep, evt, ack, client, history>>

(* The connection is closed and everything that was sent has been served.  *)
Lost(c) ==
  /\ hpc[c] = "idle" /\ req[c] = <<>> /\ mpc[c] = "crashed"
  /\ Does(c, Work("LOST"))
  /\ Goto(c, "clear")
  /\ UNCHANGED <<game, walls, lock, channel, wire, client, history>>

(* What is sent to a client that is no longer there is lost, and send_msg  *)
(* does not tell.                                                          *)
Reply(c, m) == rep' = IF Alive(c) THEN [rep EXCEPT ![c] = Append(@, m)] ELSE rep

(* The map of this moment, walls and objects, also without GameLock. *)
QueryMap(c) ==
  /\ Reads(c, "MAPQUERY")
  /\ Reply(c, [Header("MAPQUERY") EXCEPT !.view = part, !.map = broken])
  /\ UNCHANGED <<game, walls, thread, channel, evt, ack, client, history>>

(* Both locks of the GameLock are in one step here: the player is put in.  *)
Hello(c) ==
  /\ Reads(c, "HELLO") /\ Does(c, Work("HELLO")) /\ lock = NoOne
  /\ c \in Slow \/ Subscribed(c)
  /\ team' = [team EXCEPT ![c] =
                IF Cardinality(Members(1)) > Cardinality(Members(2)) THEN 2 ELSE 1]
  /\ host' = IF InGame = {} THEN c ELSE host
  /\ Goto(c, "answer")
  /\ UNCHANGED <<part, status, walls, lock, channel, rep, evt, ack, client, history>>

Acquire(c) ==
  /\ lock = NoOne /\ lock' = c /\ Goto(c, "change")
  /\ UNCHANGED <<game, walls, channel, rep, evt, ack, client>>

StartGame(c) ==
  /\ hpc[c] = "lock" /\ Acquire(c)
  /\ job' = [job EXCEPT ![c].todo = InGame \cup {Objs}]
  /\ again' = (again \/ status # "NOT_STARTED")
  /\ UNCHANGED <<req, astray, overtaken, spoilt>>

(* A move changes nothing (a wall, a prisoner), the mover, the objects it  *)
(* carries or another player it tags or frees; it may break a wall, which  *)
(* spawns the jackhammer again, and it may find that the game is won.      *)
Move(c) ==
  /\ Reads(c, "MOVE") /\ Acquire(c)
  /\ \E S \in {{}, {c}, {c, Objs}} \cup {{c, d} : d \in InGame},
        b \in IF "break" \in Habit[c] /\ Wall # broken THEN BOOLEAN ELSE {FALSE},
        w \in IF "win" \in Habit[c] THEN BOOLEAN ELSE {FALSE} :
       /\ b => S = {c, Objs}
       /\ Does(c, [Work("MOVE") EXCEPT !.todo = S, !.breaks = b, !.wins = w])
  /\ UNCHANGED history

(* A pickup finds nothing, or takes or drops an object; a drop may win.    *)
Pickup(c) ==
  /\ Reads(c, "PICKUP") /\ Acquire(c)
  /\ \E S \in {{}, {c}}, w \in IF "win" \in Habit[c] THEN BOOLEAN ELSE {FALSE} :
       /\ w => S = {c}
       /\ Does(c, [Work("PICKUP") EXCEPT !.todo = S, !.wins = w])
  /\ UNCHANGED history

Changed(c) == hpc[c] = "change" /\ job[c].todo = {}

Change(c) ==
  /\ hpc[c] = "change"
  /\ \E p \in job[c].todo :
       /\ part' = [part EXCEPT ![p] = @ + 1]
       /\ job' = [job EXCEPT ![c].todo = @ \ {p}]
  /\ UNCHANGED <<team, host, status, walls, lock, hpc, channel, wire, client, history>>

(* The wall becomes floor, and everyone is to hear of it. *)
Break(c) ==
  /\ Changed(c) /\ job[c].breaks
  /\ \E w \in Wall \ broken : broken' = broken \cup {w} /\ updateCell' = w
  /\ job' = [job EXCEPT ![c].breaks = FALSE]
  /\ Goto(c, "mapcast")
  /\ UNCHANGED <<game, lock, channel, wire, client, history>>

Win(c) ==
  /\ Changed(c) /\ ~job[c].breaks /\ job[c].wins
  /\ status' = "WON"
  /\ job' = [job EXCEPT ![c].wins = FALSE]
  /\ Goto(c, "overcast")
  /\ UNCHANGED <<part, team, host, walls, lock, channel, wire, client, history>>

Unlock_NotAfterStart(c) ==
  /\ Changed(c) /\ ~job[c].breaks /\ ~job[c].wins
  /\ IF job[c].mt = "START" THEN status' = "IN_PROGRESS" /\ UNCHANGED lock
     ELSE lock' = NoOne /\ UNCHANGED status
  /\ Goto(c, "answer")
  /\ UNCHANGED <<part, team, host, walls, job, channel, wire, client, history>>

Unlock(c) ==
  /\ Changed(c) /\ ~job[c].breaks /\ ~job[c].wins
  /\ lock' = NoOne
  /\ status' = IF job[c].mt = "START" THEN "IN_PROGRESS" ELSE status
  /\ Goto(c, "answer")
  /\ UNCHANGED <<part, team, host, walls, job, channel, wire, client, history>>

Answer_QuietPickup(c) ==
  /\ hpc[c] = "answer"
  /\ Reply(c, IF job[c].mt = "START" THEN Snapshot("START") ELSE Header(job[c].mt))
  /\ Goto(c, IF job[c].mt \in {"HELLO", "PICKUP"} THEN "idle" ELSE "post")
  /\ UNCHANGED <<game, walls, lock, job, channel, req, evt, ack, client, history>>

Answer(c) ==
  /\ hpc[c] = "answer"
  /\ Reply(c, IF job[c].mt = "START" THEN Snapshot("START") ELSE Header(job[c].mt))
  /\ Goto(c, IF job[c].mt = "HELLO" THEN "idle" ELSE "post")
  /\ UNCHANGED <<game, walls, lock, job, channel, req, evt, ack, client, history>>

(* The header of a refusal holds a return code and, for the rest, zeros.   *)
Refuse(c) ==
  /\ hpc[c] = "refuse"
  /\ Reply(c, Header("START"))
  /\ Goto(c, "idle")
  /\ UNCHANGED <<game, walls, lock, job, channel, req, evt, ack, client, history>>

(* The session-lost handler, also the handler of a goodbye: the player is  *)
(* removed without GameLock, if it is still there.                         *)
Clear(c) ==
  /\ hpc[c] = "clear"
  /\ part' = IF c \in InGame THEN [part EXCEPT ![c] = @ + 1] ELSE part
  /\ team' = [team EXCEPT ![c] = 0]
  /\ host' = IF host = c THEN NoOne ELSE host
  /\ Goto(c, "post")
  /\ UNCHANGED <<status, walls, lock, job, channel, wire, client, history>>

----------------------------------------------------------------------------
(* Broadcasts *)

Topic(c) ==
  CASE hpc[c] = "mapcast" -> "MAP_UPDATE"
    [] hpc[c] = "overcast" -> "GAME_OVER"
    [] OTHER -> IF job[c].mt \in {"LOBBY_UPDATE", "START"} THEN job[c].mt
                ELSE "GAME_UPDATE"

(* setPostMessage builds the message anew for each subscriber.  The client *)
(* only prints what is in a LOBBY_UPDATE and a GAME_OVER.                  *)
PostMessage_NoObjects(mt) ==
  CASE mt = "MAP_UPDATE" -> [Header(mt) EXCEPT !.cell = updateCell]
    [] mt \in {"START", "GAME_UPDATE"} -> [Snapshot(mt) EXCEPT !.view[Objs] = 0]
    [] OTHER -> Header(mt)

PostMessage(mt) ==
  CASE mt = "MAP_UPDATE" -> [Header(mt) EXCEPT !.cell = updateCell]
    [] mt \in {"START", "GAME_UPDATE"} -> Snapshot(mt)
    [] OTHER -> Header(mt)

PostBegin(c) ==
  /\ hpc[c] \in {"mapcast", "overcast", "post"} /\ cast.by = NoOne
  /\ cast' = [by |-> c, mt |-> Topic(c), at |-> 1]
  /\ astray' = astray \cup {d \in InGame : ~Subscribed(d)}
  /\ UNCHANGED <<game, walls, thread, subs, wire, client, overtaken, spoilt, again>>

PostTo(c) ==
  /\ cast.by = c /\ cast.at <= Len(subs)
  /\ LET d == subs[cast.at] IN
       IF Alive(d)
       THEN /\ Len(evt[d]) < EvtCap
            /\ evt' = [evt EXCEPT ![d] = Append(@, PostMessage(cast.mt))]
       ELSE evt' = evt
  /\ cast' = [cast EXCEPT !.at = @ + 1]
  /\ UNCHANGED <<game, walls, thread, subs, req, rep, ack, client, history>>

(* A goodbye is followed by the end of the session, whose handler is the   *)
(* same; a pickup still has to reset updateCell.                           *)
AfterPost(c) ==
  IF hpc[c] \in {"mapcast", "overcast"} THEN "change"
  ELSE CASE job[c].mt = "GOODBYE" -> "clear"
         [] job[c].mt = "LOST" -> "away"
         [] job[c].mt = "PICKUP" -> "reset"
         [] OTHER -> "idle"

PostEnd(c) ==
  /\ cast.by = c /\ cast.at > Len(subs)
  /\ cast' = NoCast
  /\ Goto(c, AfterPost(c))
  /\ job' = IF job[c].mt = "GOODBYE" THEN [job EXCEPT ![c].mt = "LOST"] ELSE job
  /\ UNCHANGED <<game, walls, lock, subs, wire, client, history>>

(* The last lines of a pickup, after GameLock and the broadcast. *)
ResetCell(c) ==
  /\ hpc[c] = "reset"
  /\ updateCell' = Unset
  /\ Goto(c, "idle")
  /\ spoilt' = (spoilt \/ \E d \in Client : hpc[d] = "mapcast")
  /\ UNCHANGED <<game, broken, lock, job, channel, wire, client, astray, overtaken, again>>

(* The event-listen thread, some time after the client has connected. *)
Subscribe(c) ==
  /\ mpc[c] # "off" /\ cast.by = NoOne
  /\ ~Subscribed(c)
  /\ subs' = Append(subs, c)
  /\ UNCHANGED <<game, walls, thread, cast, wire, client, history>>

ServerStep(c) ==
  \/ ReadStart(c) \/ ReadLobby(c) \/ ReadGoodbye(c) \/ Lost(c) \/ QueryMap(c)
  \/ Hello(c) \/ StartGame(c) \/ Move(c) \/ Pickup(c)
  \/ Change(c) \/ Break(c) \/ Win(c) \/ Unlock(c)
  \/ Answer(c) \/ Refuse(c) \/ Clear(c) \/ ResetCell(c)
  \/ PostBegin(c) \/ PostTo(c) \/ PostEnd(c) \/ Subscribe(c)

----------------------------------------------------------------------------
(* The main thread of a client *)

(* A command is done.  The shell ends once the game is in progress; from   *)
(* the window the user goes on.                                            *)
Done(c) == mpc' = [mpc EXCEPT ![c] = IF ui[c] THEN "play"
                                     ELSE IF cstatus'[c] = "IN_PROGRESS" THEN "opening"
                                     ELSE "shell"]

(* The process of the client ends, and what it had is gone with it. *)
Dies(c, how) ==
  /\ mpc' = [mpc EXCEPT ![c] = how]
  /\ rep' = [rep EXCEPT ![c] = <<>>] /\ evt' = [evt EXCEPT ![c] = <<>>]
  /\ ack' = [ack EXCEPT ![c] = 0]
  /\ ui' = [ui EXCEPT ![c] = FALSE]
  /\ view' = [view EXCEPT ![c] = Zero] /\ known' = [known EXCEPT ![c] = {}]
  /\ cstatus' = [cstatus EXCEPT ![c] = "NOT_STARTED"]
  /\ cmap' = [cmap EXCEPT ![c] = {}]
  /\ left' = [left EXCEPT ![c] = {}]
  /\ UNCHANGED <<server, req, history>>

Send(c, mts) == req' = [req EXCEPT ![c] = @ \o mts]

(* connect: both connections, the event thread and the hello. *)
Connect(c) ==
  /\ mpc[c] = "off"
  /\ mpc' = [mpc EXCEPT ![c] = "hello"]
  /\ Send(c, <<"HELLO">>)
  /\ Goto(c, "idle")
  /\ UNCHANGED <<game, walls, lock, job, channel, rep, evt, ack,
                 ui, copies, cmap, left, history>>

Waits(c, l) == mpc[c] = l /\ rep[c] # <<>>
Taken(c) == rep' = [rep EXCEPT ![c] = Tail(@)]

(* The hello handler sends an "ACK" on the RPC connection, which makes the *)
(* server broadcast the lobby and not reply; the map is asked for next.    *)
GotHello_TwoLobbies(c) ==
  /\ Waits(c, "hello") /\ Taken(c)
  /\ mpc' = [mpc EXCEPT ![c] = "map"]
  /\ Send(c, <<"LOBBY_UPDATE", "LOBBY_UPDATE", "MAPQUERY">>)
  /\ UNCHANGED <<server, evt, ack, ui, copies, cmap, left, history>>

GotHello(c) ==
  /\ Waits(c, "hello") /\ Taken(c)
  /\ mpc' = [mpc EXCEPT ![c] = "map"]
  /\ Send(c, <<"LOBBY_UPDATE", "MAPQUERY">>)
  /\ UNCHANGED <<server, evt, ack, ui, copies, cmap, left, history>>

(* The map of the reply takes the place of the whole map, objects and all. *)
GotMap(c) ==
  /\ Waits(c, "map") /\ Taken(c)
  /\ cmap' = [cmap EXCEPT ![c] = Head(rep[c]).map]
  /\ view' = [view EXCEPT ![c][Objs] = Head(rep[c]).view[Objs]]
  /\ astray' = IF cstatus[c] = "NOT_STARTED" THEN astray ELSE astray \cup {c}
  /\ UNCHANGED <<known, cstatus>>
  /\ Done(c)
  /\ UNCHANGED <<server, req, evt, ack, ui, left, overtaken, spoilt, again>>

AtPrompt(c) == mpc[c] = "shell" \/ mpc[c] = "play"
Gives(c, command) ==
  /\ AtPrompt(c) /\ command \in left[c]
  /\ Cardinality(Habit[c] \ left[c]) < MaxRequests[c]
  /\ left' = [left EXCEPT ![c] = @ \ {command}]

Start(c) ==
  /\ Gives(c, "start") /\ mpc[c] = "shell"
  /\ mpc' = [mpc EXCEPT ![c] = "start"]
  /\ Send(c, <<"START">>)
  /\ UNCHANGED <<server, rep, evt, ack, ui, copies, cmap, history>>

(* Moves and pickups are for a game in progress, as the client sees it;    *)
(* what a move turns out to be is for the server to say.                   *)
Play(c) ==
  /\ cstatus[c] = "IN_PROGRESS"
  /\ \/ /\ \E command \in {"move", "break"} : Gives(c, command)
        /\ mpc' = [mpc EXCEPT ![c] = "move"] /\ Send(c, <<"MOVE">>)
     \/ /\ Gives(c, "pickup")
        /\ mpc' = [mpc EXCEPT ![c] = "pickup"] /\ Send(c, <<"PICKUP">>)
  /\ UNCHANGED <<server, rep, evt, ack, ui, copies, cmap, history>>

GotReply(c) ==
  /\ \E l \in {"move", "pickup"} : Waits(c, l)
  /\ Taken(c)
  /\ UNCHANGED copies
  /\ Done(c)
  /\ UNCHANGED <<server, req, evt, ack, ui, cmap, left, history>>

(* "Don't initalize if the game started already": first a look ...         *)
GotStart(c) ==
  /\ Waits(c, "start")
  /\ IF cstatus[c] = "IN_PROGRESS"
     THEN /\ Taken(c) /\ UNCHANGED copies /\ Done(c)
     ELSE /\ mpc' = [mpc EXCEPT ![c] = "copying"] /\ UNCHANGED <<rep, copies>>
  /\ UNCHANGED <<server, req, evt, ack, ui, cmap, left, history>>

(* Whether an event under way to c shows a part as it was before m was.     *)
Older(c, m) == \E k \in DOMAIN evt[c] : /\ evt[c][k].mt \in {"START", "GAME_UPDATE"}
                                       /\ \E p \in Part : evt[c][k].view[p] < m.view[p]

(* ... then the copy, also of a refusal.  When the event thread has copied *)
(* the game meanwhile, each part may end up as either thread has it.       *)
CopyStart(c) ==
  /\ mpc[c] = "copying" /\ Taken(c)
  /\ LET m == Head(rep[c])
         raced == cstatus[c] # "NOT_STARTED"
     IN \E S \in IF raced THEN SUBSET Part ELSE {Part},
           st \in IF raced THEN {m.st, cstatus[c]} ELSE {m.st} :
          /\ view' = [view EXCEPT ![c] = [p \in Part |-> IF p \in S THEN m.view[p] ELSE @[p]]]
          /\ known' = [known EXCEPT ![c] = (m.in \cap S) \cup (@ \ S)]
          /\ cstatus' = [cstatus EXCEPT ![c] = st]
          /\ astray' = IF raced THEN astray \cup {c} ELSE astray
          /\ overtaken' = IF Older(c, m) THEN overtaken \cup {c} ELSE overtaken
  /\ Done(c)
  /\ UNCHANGED <<server, req, evt, ack, ui, cmap, left, spoilt, again>>

(* The user hits enter, and the shell sees that the game is in progress.   *)
Enter(c) ==
  /\ mpc[c] = "shell" /\ cstatus[c] = "IN_PROGRESS"
  /\ mpc' = [mpc EXCEPT ![c] = "opening"]
  /\ UNCHANGED <<server, wire, ui, copies, cmap, left, history>>

(* After the shell main looks at its own player, which a client that is    *)
(* not in its copy of the game does not have; then the window comes up.    *)
Open(c) ==
  /\ mpc[c] = "opening"
  /\ IF c \notin known[c] THEN Dies(c, "crashed")
     ELSE /\ ui' = [ui EXCEPT ![c] = TRUE]
          /\ mpc' = [mpc EXCEPT ![c] = "play"]
          /\ UNCHANGED <<server, wire, copies, cmap, left, history>>

Quit(c) ==
  /\ Gives(c, "quit")
  /\ mpc' = [mpc EXCEPT ![c] = "leaving"]
  /\ Send(c, <<"GOODBYE">>)
  /\ UNCHANGED <<server, rep, evt, ack, ui, copies, cmap, history>>

(* No reply comes; the server closes the connection and the client exits.  *)
Exit(c) ==
  /\ mpc[c] = "leaving" /\ hpc[c] = "away"
  /\ Dies(c, "gone")

----------------------------------------------------------------------------
(* The event thread of a client *)

Receives(c, mt) == Alive(c) /\ evt[c] # <<>> /\ Head(evt[c]).mt = mt
Handled(c) == evt' = [evt EXCEPT ![c] = Tail(@)]
Acknowledge(c) == ack[c] < AckCap /\ ack' = [ack EXCEPT ![c] = @ + 1]

GotLobby(c) ==
  /\ Receives(c, "LOBBY_UPDATE") /\ Handled(c) /\ Acknowledge(c)
  /\ UNCHANGED <<server, req, rep, client, history>>

(* Printed, and nothing else: the status stays as it is. *)
GotGameOver(c) ==
  /\ Receives(c, "GAME_OVER") /\ Handled(c)
  /\ UNCHANGED <<server, req, rep, ack, client, history>>

Adopt(c, m) ==
  /\ view' = [view EXCEPT ![c] = m.view]
  /\ known' = [known EXCEPT ![c] = m.in]
  /\ cstatus' = [cstatus EXCEPT ![c] = m.st]

GotStartEvent(c) ==
  /\ Receives(c, "START") /\ Handled(c)
  /\ IF cstatus[c] = "IN_PROGRESS" THEN UNCHANGED copies ELSE Adopt(c, Head(evt[c]))
  /\ UNCHANGED <<server, req, rep, ack, mpc, ui, cmap, left, history>>

(* Before the hello is answered playerID is 0, and getPlayer finds the     *)
(* first empty slot.                                                       *)
HasPlayer(c) == mpc[c] = "hello" \/ c \in known[c]
Ignores(c, m) == ~HasPlayer(c) \/ m.st # "IN_PROGRESS"

(* After the copy the window is painted, through a pointer that is NULL    *)
(* until the window is up.  An update that comes before an older start     *)
(* reply is copied is ignored, and lost.                                   *)
GotGameUpdate(c) ==
  /\ Receives(c, "GAME_UPDATE")
  /\ LET m == Head(evt[c]) IN
     IF ~Ignores(c, m) /\ ~ui[c] THEN Dies(c, "crashed")
     ELSE /\ Handled(c)
          /\ IF Ignores(c, m) THEN UNCHANGED copies ELSE Adopt(c, m)
          /\ astray' = IF mpc[c] \in {"start", "copying"} /\ m.st = "IN_PROGRESS"
                       THEN astray \cup {c} ELSE astray
          /\ UNCHANGED <<server, req, rep, ack, mpc, ui, cmap, left, overtaken, spoilt, again>>

(* An update that names no cell is dropped; one that does is written       *)
(* through mapBody, which is NULL until the map has come.                  *)
GotMapUpdate_Skips(c) ==
  /\ Receives(c, "MAP_UPDATE") /\ Handled(c) /\ Acknowledge(c)
  /\ LET w == Head(evt[c]).cell IN
     cmap' = IF w = Unset \/ ~HasMap(c) THEN cmap ELSE [cmap EXCEPT ![c] = @ \cup {w}]
  /\ UNCHANGED <<server, req, rep, mpc, ui, copies, left, history>>

GotMapUpdate(c) ==
  /\ Receives(c, "MAP_UPDATE")
  /\ LET w == Head(evt[c]).cell IN
     IF w # Unset /\ ~HasMap(c) THEN Dies(c, "crashed")
     ELSE /\ Handled(c) /\ Acknowledge(c)
          /\ cmap' = IF w = Unset THEN cmap ELSE [cmap EXCEPT ![c] = @ \cup {w}]
          /\ UNCHANGED <<server, req, rep, mpc, ui, copies, left, history>>

EventStep(c) ==
  GotLobby(c) \/ GotGameOver(c) \/ GotStartEvent(c) \/ GotGameUpdate(c) \/ GotMapUpdate(c)

(* What a client does by itself, and what its user makes it do. *)
MainStep(c) ==
  \/ GotHello(c) \/ GotMap(c) \/ GotStart(c) \/ CopyStart(c) \/ GotReply(c)
  \/ Open(c) \/ Exit(c)
UserStep(c) == Connect(c) \/ Start(c) \/ Play(c) \/ Enter(c) \/ Quit(c)

Program == \E c \in Client : ServerStep(c) \/ EventStep(c) \/ MainStep(c)

(* Everyone waits for a user, nobody for a lock or for another thread. *)
AtRest ==
  /\ lock = NoOne /\ cast.by = NoOne
  /\ \A c \in Client : /\ mpc[c] \in {"off", "shell", "play", "gone", "crashed"}
                       /\ hpc[c] \in {"away", "idle"}
                       /\ req[c] = <<>> /\ rep[c] = <<>> /\ evt[c] = <<>>
Rest == AtRest /\ UNCHANGED vars

Next == Rest \/ Program \/ \E c \in Client : UserStep(c)

Spec == Init /\ [][Next]_vars

----------------------------------------------------------------------------
(* Properties *)

Message == [mt : Request \cup Event, view : [Part -> Nat], in : SUBSET Client,
            st : GameStatus, cell : Wall \cup {Unset}, map : SUBSET Wall]

TypedGame ==
  /\ part \in [Part -> Nat] /\ team \in [Client -> 0..2] /\ host \in Client \cup {NoOne}
  /\ status \in GameStatus /\ broken \subseteq Wall /\ updateCell \in Wall \cup {Unset}
TypedThreads ==
  /\ lock \in Client \cup {NoOne}
  /\ hpc \in [Client -> {"away", "idle", "lock", "change", "mapcast", "overcast",
                         "answer", "refuse", "clear", "post", "reset"}]
  /\ job \in [Client -> [mt : Request \cup {"LOST"}, todo : SUBSET Part,
                         breaks : BOOLEAN, wins : BOOLEAN]]
  /\ subs \in Seq(Client)
  /\ cast \in [by : Client \cup {NoOne}, mt : Event, at : Nat \ {0}]
TypedWire ==
  /\ req \in [Client -> Seq(Request)]
  /\ rep \in [Client -> Seq(Message)] /\ evt \in [Client -> Seq(Message)]
  /\ \A c \in Client : Len(evt[c]) <= EvtCap
  /\ ack \in [Client -> 0..AckCap]
TypedClients ==
  /\ mpc \in [Client -> {"off", "hello", "map", "shell", "start", "copying", "opening",
                         "play", "move", "pickup", "leaving", "gone", "crashed"}]
  /\ ui \in [Client -> BOOLEAN]
  /\ view \in [Client -> [Part -> Nat]] /\ known \in [Client -> SUBSET Client]
  /\ cstatus \in [Client -> GameStatus]
  /\ cmap \in [Client -> SUBSET Wall]
  /\ left \in [Client -> SUBSET Command] /\ \A c \in Client : left[c] \subseteq Habit[c]
TypedHistory ==
  /\ astray \subseteq Client /\ overtaken \subseteq Client
  /\ spoilt \in BOOLEAN /\ again \in BOOLEAN
Typed == TypedGame /\ TypedThreads /\ TypedWire /\ TypedClients /\ TypedHistory

(* Every variable keeps its type, and no queue passes its bound: a client  *)
(* never has more than two requests under way.                             *)
TypeOK == Typed /\ \A c \in Client : Len(req[c]) <= 2

(* A client takes the next message of the RPC connection for the reply to  *)
(* its last request, whatever it is.  So there must never be another one:  *)
(* not after the hello, whose "ACK" is a request of its own, and not when  *)
(* a client sends two requests in a row.                                   *)
Awaited == [hello |-> "HELLO", map |-> "MAPQUERY", start |-> "START",
            copying |-> "START", move |-> "MOVE", pickup |-> "PICKUP"]
AnswersMatch ==
  \A c \in Client : rep[c] # <<>> /\ Alive(c) =>
    /\ Len(rep[c]) = 1
    /\ mpc[c] \in DOMAIN Awaited /\ Head(rep[c]).mt = Awaited[mpc[c]]

(* Whether t still has to send d a GAME_UPDATE, built when it is sent. *)
Ahead(d) == \E k \in cast.at .. Len(subs) : subs[k] = d
WillUpdate(t, d) ==
  /\ hpc[t] \in {"change", "mapcast", "overcast", "answer", "post", "clear"}
  /\ job[t].mt \in {"MOVE", "PICKUP", "GOODBYE", "LOST"}
  /\ hpc[t] = "post" /\ cast.by = t => Ahead(d) \/ job[t].mt = "GOODBYE"

(* While the game goes on a client that plays has the current version of   *)
(* every part, or an event with it is under way, or a handler is still to  *)
(* broadcast.  Snapshots are taken without GameLock and may show half a    *)
(* move, replies and events overtake each other, and clients ignore        *)
(* updates: what is missed must always be made up for by a later event.    *)
(* (A game that is started again is another matter: clients that are in    *)
(* the one before it take no notice.)                                      *)
NoLostUpdate ==
  ~again => \A c \in Client \ astray :
    status = "IN_PROGRESS" /\ Alive(c) /\ cstatus[c] = "IN_PROGRESS" /\ c \in known[c] =>
      \A p \in Part :
        \/ view[c][p] = part[p]
        \/ \E k \in DOMAIN evt[c] : /\ evt[c][k].mt = "GAME_UPDATE"
                                     /\ evt[c][k].st = "IN_PROGRESS"
                                     /\ evt[c][k].view[p] = part[p]
        \/ \E t \in Client : WillUpdate(t, c)

WillShow(c, w) ==
  \/ w \in cmap[c]
  \/ \E k \in DOMAIN evt[c] : evt[c][k].cell = w
  \/ updateCell = w /\ \E t \in Client : hpc[t] = "mapcast" /\ (cast.by = t => Ahead(c))

(* A wall that is broken is, or is about to be, broken on the map of every *)
(* client that has one and was subscribed in time, whenever it asked for   *)
(* the map; unless updateCell has been reset under the broadcast.          *)
MapFollows ==
  ~spoilt => \A c \in Client \ Slow :
    HasMap(c) => \A w \in broken : WillShow(c, w)

(* Whatever happens, a thread of the program can go on until everyone     *)
(* waits for a user: requests wait for replies, handlers for GameLock,     *)
(* broadcasts for EventSubscribersLock, for room in the sockets of clients *)
(* that may be gone, and event threads for room for their ACKs, which the  *)
(* server never reads; but never all of them.                              *)
NoGridlock == AtRest \/ ENABLED Program

(* What the clients promise: a copy of the game only moves forward once    *)
(* the client is in it, unless both threads write it at once.  Before that *)
(* nothing of it is used: the objects of a map may be newer than the START *)
(* that comes after it.                                                    *)
Shown(c) == IF cstatus[c] = "NOT_STARTED" THEN Zero ELSE view[c]
C == INSTANCE Copies WITH versions <- part, loose <- astray \cup overtaken,
                          copy <- [c \in Client |-> Shown(c)]
Refines == C!Spec
=============================================================================
