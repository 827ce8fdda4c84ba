----------------------------- MODULE FeedProofs -----------------------------
(***************************************************************************)
(* What holds of the requests, the events and the clients' copies for any  *)
(* number of clients, walls and commands, and sockets of any size.         *)
(***************************************************************************)
EXTENDS Feed, SequenceTheorems, TLAPS

Step(c) == ServerStep(c) \/ EventStep(c) \/ MainStep(c) \/ UserStep(c)

USE DEF game, walls, thread, channel, wire, copies, client, history, server

(* Somebody takes a step, or nothing changes.                              *)
LEMMA NextCases ==
  ASSUME [Next]_vars
  PROVE  UNCHANGED vars \/ \E c \in Client : Step(c)
BY DEF Next, Rest, Program, Step, vars

----------------------------------------------------------------------------
(* Messages and queues *)

LEMMA HeaderFields ==
  ASSUME NEW mt
  PROVE  /\ Header(mt).mt = mt /\ Header(mt).view = Zero /\ Header(mt).in = {}
         /\ Header(mt).st = "NOT_STARTED" /\ Header(mt).cell = Unset
         /\ Header(mt).map = {}
BY DEF Header

LEMMA SnapshotFields ==
  ASSUME NEW mt
  PROVE  /\ Snapshot(mt).mt = mt /\ Snapshot(mt).view = part /\ Snapshot(mt).in = InGame
         /\ Snapshot(mt).st = status /\ Snapshot(mt).cell = Unset
         /\ Snapshot(mt).map = {}
BY DEF Header, Snapshot

LEMMA ZeroType == Zero \in [Part -> Nat] /\ \A p \in Part : Zero[p] = 0
BY DEF Zero

LEMMA MessagesTyped ==
  ASSUME TypedGame
  PROVE  /\ \A mt \in Request \cup Event : Header(mt) \in Message /\ Snapshot(mt) \in Message
         /\ \A mt \in Event : PostMessage(mt) \in Message
         /\ [Header("MAPQUERY") EXCEPT !.view = part, !.map = broken] \in Message
<1>1. InGame \subseteq Client
  BY DEF InGame
<1>2. \A mt \in Request \cup Event : Header(mt) \in Message /\ Snapshot(mt) \in Message
  BY <1>1, ZeroType DEF Header, Snapshot, Message, TypedGame, GameStatus
<1>3. "MAPQUERY" \in Request \cup Event
  BY DEF Request
<1>4. [Header("MAPQUERY") EXCEPT !.view = part, !.map = broken] \in Message
  BY <1>3, ZeroType DEF Header, Message, TypedGame, GameStatus
<1>5. ASSUME NEW mt \in Event PROVE [Header(mt) EXCEPT !.cell = updateCell] \in Message
  BY ZeroType DEF Header, Message, TypedGame, GameStatus
<1>6. ASSUME NEW mt \in Event PROVE PostMessage(mt) \in Message
  BY <1>2, <1>5 DEF PostMessage
<1> QED BY <1>2, <1>4, <1>6

(* The queue without its first element.                                    *)
LEMMA TailFacts ==
  ASSUME NEW T, NEW s \in Seq(T), s # <<>>
  PROVE  /\ Tail(s) \in Seq(T) /\ Len(Tail(s)) = Len(s) - 1 /\ Head(s) \in T
         /\ Len(s) >= 1 /\ Head(s) = s[1]
         /\ \A k \in 1..Len(Tail(s)) : Tail(s)[k] = s[k + 1]
         /\ DOMAIN s = 1..Len(s) /\ DOMAIN Tail(s) = 1..Len(Tail(s))
OBVIOUS

LEMMA AppendFacts ==
  ASSUME NEW T, NEW s \in Seq(T), NEW m \in T
  PROVE  /\ Append(s, m) \in Seq(T) /\ Len(Append(s, m)) = Len(s) + 1
         /\ Append(s, m) # <<>> /\ Append(s, m)[Len(s) + 1] = m
         /\ \A k \in 1..Len(s) : Append(s, m)[k] = s[k]
         /\ DOMAIN s = 1..Len(s) /\ DOMAIN Append(s, m) = 1..(Len(s) + 1)
OBVIOUS

----------------------------------------------------------------------------
(* Who changes what *)

(* The server does not touch a client.                                     *)
LEMMA ServerFrame ==
  ASSUME NEW c, ServerStep(c)
  PROVE  UNCHANGED <<client, ack>>
<1>1. CASE ReadStart(c) \/ ReadLobby(c) \/ ReadGoodbye(c) \/ Lost(c) \/ QueryMap(c) \/ Hello(c)
  BY <1>1 DEF ReadStart, ReadLobby, ReadGoodbye, Lost, QueryMap, Hello
<1>2. CASE StartGame(c) \/ Move(c) \/ Pickup(c)
  BY <1>2 DEF StartGame, Move, Pickup, Acquire
<1>3. CASE Change(c) \/ Break(c) \/ Win(c) \/ Unlock(c)
  BY <1>3 DEF Change, Break, Win, Unlock
<1>4. CASE Answer(c) \/ Refuse(c) \/ Clear(c) \/ ResetCell(c)
  BY <1>4 DEF Answer, Refuse, Clear, ResetCell
<1>5. CASE PostBegin(c) \/ PostTo(c) \/ PostEnd(c) \/ Subscribe(c)
  BY <1>5 DEF PostBegin, PostTo, PostEnd, Subscribe
<1> QED BY <1>1, <1>2, <1>3, <1>4, <1>5 DEF ServerStep

(* A client does not touch the server, except that its connection wakes    *)
(* its thread.                                                             *)
LEMMA ClientFrame ==
  ASSUME NEW c, EventStep(c) \/ MainStep(c) \/ UserStep(c)
  PROVE  /\ UNCHANGED <<game, walls, lock, job, channel, spoilt, again>>
         /\ hpc' = hpc \/ (mpc[c] = "off" /\ hpc' = [hpc EXCEPT ![c] = "idle"])
<1>1. CASE EventStep(c)
  BY <1>1 DEF EventStep, GotLobby, GotGameOver, GotStartEvent, GotGameUpdate, GotMapUpdate, Dies
<1>2. CASE MainStep(c)
  BY <1>2 DEF MainStep, GotHello, GotMap, GotStart, CopyStart, GotReply, Open, Exit, Dies
<1>3. CASE UserStep(c)
  BY <1>3 DEF UserStep, Connect, Start, Play, Enter, Quit, Goto
<1> QED BY <1>1, <1>2, <1>3

----------------------------------------------------------------------------
(* Types *)

LEMMA TypedGameStep ==
  ASSUME TypedGame, TypedThreads, NEW c \in Client, Step(c)
  PROVE  TypedGame'
<1>1. CASE EventStep(c) \/ MainStep(c) \/ UserStep(c)
  BY <1>1, ClientFrame DEF TypedGame
<1>2. CASE ReadStart(c) \/ ReadLobby(c) \/ ReadGoodbye(c) \/ Lost(c) \/ QueryMap(c)
  BY <1>2 DEF ReadStart, ReadLobby, ReadGoodbye, Lost, QueryMap, TypedGame
<1>3. CASE StartGame(c) \/ Move(c) \/ Pickup(c)
  BY <1>3 DEF StartGame, Move, Pickup, Acquire, TypedGame
<1>4. CASE Answer(c) \/ Refuse(c) \/ PostBegin(c) \/ PostTo(c) \/ PostEnd(c) \/ Subscribe(c)
  BY <1>4 DEF Answer, Refuse, PostBegin, PostTo, PostEnd, Subscribe, TypedGame
<1>5. CASE Hello(c)
  BY <1>5 DEF Hello, TypedGame
<1>6. CASE Change(c)
  BY <1>6 DEF Change, TypedGame, TypedThreads
<1>7. CASE Clear(c)
  BY <1>7 DEF Clear, TypedGame, Part
<1>8. CASE Break(c)
  BY <1>8 DEF Break, TypedGame
<1>9. CASE Win(c) \/ Unlock(c)
  BY <1>9 DEF Win, Unlock, TypedGame, GameStatus
<1>10. CASE ResetCell(c)
  BY <1>10 DEF ResetCell, TypedGame
<1> QED BY <1>1, <1>2, <1>3, <1>4, <1>5, <1>6, <1>7, <1>8, <1>9, <1>10 DEF Step, ServerStep

LEMMA WorkType ==
  \A mt \in Request \cup {"LOST"} :
    Work(mt) \in [mt : Request \cup {"LOST"}, todo : SUBSET Part, breaks : BOOLEAN, wins : BOOLEAN]
BY DEF Work

LEMMA TypedThreadsStep ==
  ASSUME TypedGame, TypedThreads, NEW c \in Client, Step(c)
  PROVE  TypedThreads'
<1> USE DEF Goto, Does, TypedThreads
<1>1. CASE EventStep(c) \/ MainStep(c) \/ UserStep(c)
  BY <1>1, ClientFrame
<1>2. CASE ReadStart(c) \/ ReadLobby(c) \/ ReadGoodbye(c) \/ Lost(c) \/ QueryMap(c) \/ Hello(c)
  <2>1. {"START", "LOBBY_UPDATE", "GOODBYE", "HELLO"} \subseteq Request
    BY DEF Request
  <2>2. CASE ReadStart(c)
    BY <2>1, <2>2, WorkType DEF ReadStart
  <2>3. CASE ReadLobby(c)
    BY <2>1, <2>3, WorkType DEF ReadLobby
  <2>4. CASE ReadGoodbye(c)
    BY <2>1, <2>4, WorkType DEF ReadGoodbye
  <2>5. CASE Lost(c)
    BY <2>1, <2>5, WorkType DEF Lost
  <2>6. CASE QueryMap(c)
    BY <2>6 DEF QueryMap
  <2>7. CASE Hello(c)
    BY <2>1, <2>7, WorkType DEF Hello
  <2> QED BY <1>2, <2>2, <2>3, <2>4, <2>5, <2>6, <2>7
<1>3. CASE StartGame(c)
  BY <1>3 DEF StartGame, Acquire, InGame, Part
<1>4. CASE Move(c)
  <2>1. PICK S \in {{}, {c}, {c, Objs}} \cup {{c, d} : d \in InGame}, b \in BOOLEAN, w \in BOOLEAN :
          Does(c, [Work("MOVE") EXCEPT !.todo = S, !.breaks = b, !.wins = w])
    BY <1>4 DEF Move
  <2>2. S \subseteq Part
    BY DEF InGame, Part
  <2>3. [Work("MOVE") EXCEPT !.todo = S, !.breaks = b, !.wins = w]
          \in [mt : Request \cup {"LOST"}, todo : SUBSET Part, breaks : BOOLEAN, wins : BOOLEAN]
    BY <2>2 DEF Work, Request
  <2> QED BY <1>4, <2>1, <2>3 DEF Move, Acquire
<1>5. CASE Pickup(c)
  <2>1. PICK S \in {{}, {c}}, w \in BOOLEAN :
          Does(c, [Work("PICKUP") EXCEPT !.todo = S, !.wins = w])
    BY <1>5 DEF Pickup
  <2>2. [Work("PICKUP") EXCEPT !.todo = S, !.wins = w]
          \in [mt : Request \cup {"LOST"}, todo : SUBSET Part, breaks : BOOLEAN, wins : BOOLEAN]
    BY DEF Work, Request, Part
  <2> QED BY <1>5, <2>1, <2>2 DEF Pickup, Acquire
<1>6. CASE Change(c)
  BY <1>6 DEF Change
<1>7. CASE Break(c) \/ Win(c) \/ Unlock(c)
  <2>1. CASE Break(c)
    BY <2>1 DEF Break
  <2>2. CASE Win(c)
    BY <2>2 DEF Win
  <2>3. CASE Unlock(c)
    BY <2>3 DEF Unlock
  <2> QED BY <1>7, <2>1, <2>2, <2>3
<1>8. CASE Answer(c) \/ Refuse(c) \/ Clear(c) \/ ResetCell(c)
  BY <1>8 DEF Answer, Refuse, Clear, ResetCell
<1>9. CASE PostBegin(c)
  <2>1. Topic(c) \in Event
    BY DEF Topic, Event
  <2> QED BY <1>9, <2>1 DEF PostBegin
<1>10. CASE PostTo(c)
  BY <1>10 DEF PostTo
<1>11. CASE PostEnd(c)
  <2>1. AfterPost(c) \in {"change", "clear", "away", "reset", "idle"}
    BY DEF AfterPost
  <2>2. NoCast \in [by : Client \cup {NoOne}, mt : Event, at : Nat \ {0}]
    BY DEF NoCast, Event
  <2>3. job' \in [Client -> [mt : Request \cup {"LOST"}, todo : SUBSET Part,
                            breaks : BOOLEAN, wins : BOOLEAN]]
    <3>1. CASE job[c].mt = "GOODBYE"
      <4>1. [job[c] EXCEPT !.mt = "LOST"] \in [mt : Request \cup {"LOST"}, todo : SUBSET Part,
                                              breaks : BOOLEAN, wins : BOOLEAN]
        OBVIOUS
      <4>2. job' = [job EXCEPT ![c] = [job[c] EXCEPT !.mt = "LOST"]]
        BY <1>11, <3>1 DEF PostEnd
      <4> QED BY <4>1, <4>2
    <3>2. CASE job[c].mt # "GOODBYE"
      BY <1>11, <3>2 DEF PostEnd
    <3> QED BY <3>1, <3>2
  <2>4. hpc' = [hpc EXCEPT ![c] = AfterPost(c)] /\ cast' = NoCast /\ UNCHANGED <<lock, subs>>
    BY <1>11 DEF PostEnd
  <2> QED BY <2>1, <2>2, <2>3, <2>4
<1>12. CASE Subscribe(c)
  BY <1>12 DEF Subscribe
<1> QED BY <1>1, <1>2, <1>3, <1>4, <1>5, <1>6, <1>7, <1>8, <1>9, <1>10, <1>11, <1>12
   DEF Step, ServerStep

(* What the parts of Dies do to the types.                                 *)
LEMMA DiesTyped ==
  ASSUME TypedClients, TypedWire, NEW c \in Client,
         NEW how \in {"gone", "crashed"}, Dies(c, how)
  PROVE  TypedClients' /\ TypedWire'
<1>1. TypedClients'
  BY ZeroType DEF Dies, TypedClients, GameStatus
<1>2. TypedWire'
  BY BoundsOK DEF Dies, TypedWire
<1> QED BY <1>1, <1>2

LEMMA TypedClientsStep ==
  ASSUME TypedClients, TypedWire, NEW c \in Client, Step(c),
         mpc[c] = "copying" => rep[c] # <<>>
  PROVE  TypedClients'
<1> USE DEF TypedClients
<1>1. CASE ServerStep(c)
  BY <1>1, ServerFrame
<1>2. ASSUME Done(c)
      PROVE  mpc' \in [Client -> {"off", "hello", "map", "shell", "start", "copying",
                  "opening", "play", "move", "pickup", "leaving", "gone", "crashed"}]
  BY <1>2 DEF Done
<1>3. CASE GotLobby(c) \/ GotGameOver(c)
  BY <1>3 DEF GotLobby, GotGameOver
<1>4. ASSUME evt[c] # <<>> \/ rep[c] # <<>>
      PROVE  /\ evt[c] # <<>> => Head(evt[c]) \in Message
             /\ rep[c] # <<>> => Head(rep[c]) \in Message
  BY DEF TypedWire
<1>5. ASSUME NEW m \in Message, Adopt(c, m)
      PROVE  /\ view' \in [Client -> [Part -> Nat]] /\ known' \in [Client -> SUBSET Client]
             /\ cstatus' \in [Client -> GameStatus]
  BY <1>5 DEF Adopt, Message
<1>6. CASE GotStartEvent(c)
  BY <1>4, <1>5, <1>6 DEF GotStartEvent, Receives
<1>7. CASE GotGameUpdate(c)
  BY <1>4, <1>5, <1>7, DiesTyped DEF GotGameUpdate, Receives
<1>8. CASE GotMapUpdate(c)
  <2>1. Head(evt[c]).cell \in Wall \cup {Unset}
    BY <1>4, <1>8 DEF GotMapUpdate, Receives, Message
  <2>2. CASE Dies(c, "crashed")
    BY <2>2, DiesTyped
  <2>3. CASE ~Dies(c, "crashed")
    <3>1. /\ cmap' = cmap \/ cmap' = [cmap EXCEPT ![c] = @ \cup {Head(evt[c]).cell}]
          /\ cmap' # cmap => Head(evt[c]).cell # Unset
          /\ UNCHANGED <<mpc, ui, copies, left>>
      BY <1>8, <2>3 DEF GotMapUpdate
    <3>2. cmap' \in [Client -> SUBSET Wall]
      BY <2>1, <3>1
    <3> QED BY <3>1, <3>2
  <2> QED BY <2>2, <2>3
<1>9. CASE GotHello(c) \/ Open(c) \/ Exit(c) \/ Connect(c) \/ Enter(c)
  BY <1>9, DiesTyped DEF GotHello, Open, Exit, Connect, Enter
<1>10. CASE GotMap(c)
  <2>1. Head(rep[c]) \in Message
    BY <1>4, <1>10 DEF GotMap, Waits
  <2>2. Head(rep[c]).map \subseteq Wall /\ Head(rep[c]).view[Objs] \in Nat
    BY <2>1 DEF Message, Part
  <2> QED BY <1>2, <1>10, <2>2 DEF GotMap, Part
<1>11. CASE GotStart(c) \/ GotReply(c)
  BY <1>2, <1>11 DEF GotStart, GotReply
<1>12. CASE CopyStart(c)
  <2> DEFINE m == Head(rep[c])
  <2>1. mpc[c] = "copying" /\ m \in Message
    BY <1>4, <1>12 DEF CopyStart
  <2>2. m.view \in [Part -> Nat] /\ m.in \subseteq Client /\ m.st \in GameStatus
    BY <2>1 DEF Message
  <2>3. /\ view' \in [Client -> [Part -> Nat]]
        /\ known' \in [Client -> SUBSET Client] /\ cstatus' \in [Client -> GameStatus]
    <3>1. CASE cstatus[c] # "NOT_STARTED"
      <4>1. PICK S \in SUBSET Part, st \in {m.st, cstatus[c]} :
              /\ view' = [view EXCEPT ![c] = [p \in Part |-> IF p \in S THEN m.view[p] ELSE @[p]]]
              /\ known' = [known EXCEPT ![c] = (m.in \cap S) \cup (@ \ S)]
              /\ cstatus' = [cstatus EXCEPT ![c] = st]
        BY <1>12, <3>1 DEF CopyStart
      <4> QED BY <2>2, <4>1
    <3>2. CASE cstatus[c] = "NOT_STARTED"
      <4>1. /\ view' = [view EXCEPT ![c] = [p \in Part |-> IF p \in Part THEN m.view[p] ELSE @[p]]]
            /\ known' = [known EXCEPT ![c] = (m.in \cap Part) \cup (@ \ Part)]
            /\ cstatus' = [cstatus EXCEPT ![c] = m.st]
        <5>1. PICK S \in {Part}, st \in {m.st} :
                /\ view' = [view EXCEPT ![c] = [p \in Part |-> IF p \in S THEN m.view[p] ELSE @[p]]]
                /\ known' = [known EXCEPT ![c] = (m.in \cap S) \cup (@ \ S)]
                /\ cstatus' = [cstatus EXCEPT ![c] = st]
          BY <1>12, <3>2 DEF CopyStart
        <5>2. S = Part /\ st = m.st
          OBVIOUS
        <5> QED BY <5>1, <5>2
      <4> QED BY <2>2, <4>1
    <3> QED BY <3>1, <3>2
  <2> QED BY <1>2, <1>12, <2>3 DEF CopyStart
<1>13. CASE Start(c) \/ Play(c) \/ Quit(c)
  <2>1. ASSUME NEW command, Gives(c, command)
        PROVE  /\ left' \in [Client -> SUBSET Command]
               /\ \A d \in Client : left'[d] \subseteq Habit[d]
    BY <2>1 DEF Gives
  <2>2. CASE Start(c) \/ Quit(c)
    BY <2>1, <2>2 DEF Start, Quit
  <2>3. CASE Play(c)
    BY <2>1, <2>3 DEF Play
  <2> QED BY <1>13, <2>2, <2>3
<1> QED BY <1>1, <1>3, <1>6, <1>7, <1>8, <1>9, <1>10, <1>11, <1>12, <1>13
   DEF Step, EventStep, MainStep, UserStep

(* A queue with one more message. *)
LEMMA Enqueued ==
  ASSUME TypedWire, NEW c \in Client, NEW m \in Message, Reply(c, m)
  PROVE  rep' \in [Client -> Seq(Message)]
BY DEF Reply, TypedWire

LEMMA TypedWireStep ==
  ASSUME TypedGame, TypedThreads, TypedWire, TypedClients, NEW c \in Client, Step(c),
         mpc[c] = "copying" => rep[c] # <<>>,
         hpc[c] = "answer" => job[c].mt \in Request
  PROVE  TypedWire'
<1> USE DEF TypedWire
<1>1. ASSUME NEW mts \in Seq(Request), Send(c, mts) PROVE req' \in [Client -> Seq(Request)]
  BY <1>1 DEF Send
<1>2. ASSUME NEW mt, Reads(c, mt) PROVE req' \in [Client -> Seq(Request)]
  BY <1>2 DEF Reads
<1>3. ASSUME Handled(c), evt[c] # <<>>
      PROVE  evt' \in [Client -> Seq(Message)] /\ \A d \in Client : Len(evt'[d]) <= EvtCap
  <2>1. Tail(evt[c]) \in Seq(Message) /\ Len(Tail(evt[c])) <= Len(evt[c])
    BY <1>3
  <2>2. Len(evt[c]) \in Nat /\ Len(Tail(evt[c])) \in Nat /\ Len(evt[c]) <= EvtCap
    BY <2>1
  <2> QED BY <1>3, <2>1, <2>2, BoundsOK DEF Handled
<1>4. ASSUME Acknowledge(c) PROVE ack' \in [Client -> 0..AckCap]
  BY <1>4, BoundsOK DEF Acknowledge
<1>5. ASSUME Taken(c), rep[c] # <<>> PROVE rep' \in [Client -> Seq(Message)]
  BY <1>5 DEF Taken
<1>6. {"START", "LOBBY_UPDATE", "GOODBYE", "HELLO", "MAPQUERY", "MOVE", "PICKUP"} \subseteq Request
  BY DEF Request
<1>7. CASE ReadStart(c) \/ ReadLobby(c) \/ ReadGoodbye(c) \/ Hello(c) \/ Move(c) \/ Pickup(c)
  BY <1>2, <1>7 DEF ReadStart, ReadLobby, ReadGoodbye, Hello, Move, Pickup, Acquire
<1>8. CASE Lost(c) \/ StartGame(c) \/ Change(c) \/ Break(c) \/ Win(c) \/ Unlock(c) \/ Clear(c)
           \/ ResetCell(c) \/ PostBegin(c) \/ PostEnd(c) \/ Subscribe(c)
  BY <1>8 DEF Lost, StartGame, Acquire, Change, Break, Win, Unlock, Clear, ResetCell, PostBegin,
              PostEnd, Subscribe
<1>9. CASE QueryMap(c)
  <2>1. rep' \in [Client -> Seq(Message)]
    BY <1>9, MessagesTyped, Enqueued DEF QueryMap
  <2> QED BY <1>2, <1>9, <2>1 DEF QueryMap
<1>10. CASE Answer(c)
  <2>1. job[c].mt \in Request
    BY <1>10 DEF Answer
  <2> QED BY <1>6, <1>10, <2>1, MessagesTyped, Enqueued DEF Answer
<1>11. CASE Refuse(c)
  BY <1>6, <1>11, MessagesTyped, Enqueued DEF Refuse
<1>12. CASE PostTo(c)
  <2> DEFINE d == subs[cast.at]
  <2>1. d \in Client /\ cast.mt \in Event
    BY <1>12 DEF PostTo, TypedThreads
  <2>2. PostMessage(cast.mt) \in Message
    BY <2>1, MessagesTyped
  <2>3. CASE Alive(d)
    <3>1. Len(evt[d]) < EvtCap /\ evt' = [evt EXCEPT ![d] = Append(@, PostMessage(cast.mt))]
      BY <1>12, <2>3 DEF PostTo
    <3>2. Len(Append(evt[d], PostMessage(cast.mt))) = Len(evt[d]) + 1 /\ Len(evt[d]) \in Nat
      BY <2>1, <2>2
    <3>3. Append(evt[d], PostMessage(cast.mt)) \in Seq(Message)
      BY <2>1, <2>2
    <3>4. evt' \in [Client -> Seq(Message)]
      BY <2>1, <3>1, <3>3
    <3>5. ASSUME NEW e \in Client PROVE Len(evt'[e]) <= EvtCap
      <4>1. CASE e = d
        BY <2>1, <3>1, <3>2, <4>1, BoundsOK
      <4>2. CASE e # d
        BY <2>1, <3>1, <4>2
      <4> QED BY <4>1, <4>2
    <3> QED BY <1>12, <3>4, <3>5 DEF PostTo
  <2>4. CASE ~Alive(d)
    BY <1>12, <2>4 DEF PostTo
  <2> QED BY <2>3, <2>4
<1>13. CASE GotLobby(c) \/ GotGameOver(c) \/ GotStartEvent(c)
  BY <1>3, <1>4, <1>13 DEF GotLobby, GotGameOver, GotStartEvent, Receives
<1>14. CASE GotGameUpdate(c) \/ GotMapUpdate(c)
  <2>1. CASE Dies(c, "crashed")
    BY <2>1, DiesTyped
  <2>2. CASE GotGameUpdate(c) /\ ~Dies(c, "crashed")
    BY <1>3, <2>2 DEF GotGameUpdate, Receives
  <2>3. CASE GotMapUpdate(c) /\ ~Dies(c, "crashed")
    BY <1>3, <1>4, <2>3 DEF GotMapUpdate, Receives
  <2> QED BY <1>14, <2>1, <2>2, <2>3
<1>15. CASE GotHello(c)
  <2>1. <<"LOBBY_UPDATE", "MAPQUERY">> \in Seq(Request)
    BY <1>6
  <2> QED BY <1>1, <1>5, <1>15, <2>1 DEF GotHello, Waits
<1>16. CASE GotMap(c) \/ GotStart(c) \/ GotReply(c) \/ CopyStart(c)
  BY <1>5, <1>16 DEF GotMap, GotStart, GotReply, CopyStart, Waits
<1>17. CASE Open(c) \/ Exit(c) \/ Enter(c)
  BY <1>17, DiesTyped DEF Open, Exit, Enter
<1>18. CASE Connect(c) \/ Start(c) \/ Play(c) \/ Quit(c)
  <2>1. {<<"HELLO">>, <<"START">>, <<"MOVE">>, <<"PICKUP">>, <<"GOODBYE">>} \subseteq Seq(Request)
    BY <1>6
  <2> QED BY <1>1, <1>18, <2>1 DEF Connect, Start, Play, Quit
<1> QED BY <1>7, <1>8, <1>9, <1>10, <1>11, <1>12, <1>13, <1>14, <1>15, <1>16, <1>17, <1>18
   DEF Step, ServerStep, EventStep, MainStep, UserStep

LEMMA TypedHistoryStep ==
  ASSUME TypedHistory, NEW c \in Client, Step(c)
  PROVE  TypedHistory'
<1> USE DEF TypedHistory
<1>1. CASE EventStep(c)
  BY <1>1 DEF EventStep, GotLobby, GotGameOver, GotStartEvent, GotGameUpdate, GotMapUpdate, Dies
<1>2. CASE UserStep(c)
  BY <1>2 DEF UserStep, Connect, Start, Play, Enter, Quit
<1>3. CASE GotHello(c) \/ GotMap(c) \/ GotStart(c) \/ GotReply(c) \/ Open(c) \/ Exit(c)
  BY <1>3 DEF GotHello, GotMap, GotStart, GotReply, Open, Exit, Dies
<1>4. CASE CopyStart(c)
  BY <1>4 DEF CopyStart
<1>5. CASE ReadStart(c) \/ ReadLobby(c) \/ ReadGoodbye(c) \/ Lost(c) \/ QueryMap(c) \/ Hello(c)
           \/ Move(c) \/ Pickup(c) \/ Change(c) \/ Break(c) \/ Win(c) \/ Unlock(c)
  BY <1>5 DEF ReadStart, ReadLobby, ReadGoodbye, Lost, QueryMap, Hello, Move, Pickup, Change,
              Break, Win, Unlock
<1>6. CASE StartGame(c) \/ ResetCell(c)
  BY <1>6 DEF StartGame, ResetCell
<1>7. CASE Answer(c) \/ Refuse(c) \/ Clear(c) \/ PostTo(c) \/ PostEnd(c) \/ Subscribe(c)
  BY <1>7 DEF Answer, Refuse, Clear, PostTo, PostEnd, Subscribe
<1>8. CASE PostBegin(c)
  BY <1>8 DEF PostBegin, InGame
<1> QED BY <1>1, <1>2, <1>3, <1>4, <1>5, <1>6, <1>7, <1>8 DEF Step, ServerStep, MainStep

----------------------------------------------------------------------------
(* A step of c is about c *)

LEMMA OtherThreads ==
  ASSUME TypedThreads, TypedGame, NEW c \in Client, Step(c), NEW d \in Client, d # c
  PROVE  hpc'[d] = hpc[d] /\ job'[d] = job[d] /\ team'[d] = team[d]
<1> USE DEF Goto, Does, TypedThreads, TypedGame
<1>1. CASE EventStep(c) \/ MainStep(c) \/ UserStep(c)
  BY <1>1, ClientFrame
<1>2. CASE ReadStart(c) \/ ReadLobby(c) \/ ReadGoodbye(c) \/ Lost(c) \/ QueryMap(c) \/ Hello(c)
  BY <1>2 DEF ReadStart, ReadLobby, ReadGoodbye, Lost, QueryMap, Hello
<1>3. CASE StartGame(c) \/ Move(c) \/ Pickup(c)
  BY <1>3 DEF StartGame, Move, Pickup, Acquire
<1>4. CASE Change(c) \/ Break(c) \/ Win(c) \/ Unlock(c)
  BY <1>4 DEF Change, Break, Win, Unlock
<1>5. CASE Answer(c) \/ Refuse(c) \/ Clear(c) \/ ResetCell(c)
  BY <1>5 DEF Answer, Refuse, Clear, ResetCell
<1>6. CASE PostBegin(c) \/ PostTo(c) \/ PostEnd(c) \/ Subscribe(c)
  BY <1>6 DEF PostBegin, PostTo, PostEnd, Subscribe
<1> QED BY <1>1, <1>2, <1>3, <1>4, <1>5, <1>6 DEF Step, ServerStep

LEMMA OtherQueues ==
  ASSUME TypedThreads, TypedWire, NEW c \in Client, Step(c), NEW d \in Client, d # c
  PROVE  req'[d] = req[d] /\ rep'[d] = rep[d] /\ (~PostTo(c) => evt'[d] = evt[d])
<1> USE DEF Reads, Send, Reply, Taken, Handled, TypedWire
<1>1. CASE EventStep(c)
  BY <1>1 DEF EventStep, GotLobby, GotGameOver, GotStartEvent, GotGameUpdate, GotMapUpdate, Dies
<1>2. CASE MainStep(c)
  BY <1>2 DEF MainStep, GotHello, GotMap, GotStart, CopyStart, GotReply, Open, Exit, Dies
<1>3. CASE UserStep(c)
  BY <1>3 DEF UserStep, Connect, Start, Play, Enter, Quit
<1>4. CASE ReadStart(c) \/ ReadLobby(c) \/ ReadGoodbye(c) \/ Lost(c) \/ QueryMap(c) \/ Hello(c)
  BY <1>4 DEF ReadStart, ReadLobby, ReadGoodbye, Lost, QueryMap, Hello
<1>5. CASE StartGame(c) \/ Move(c) \/ Pickup(c)
  BY <1>5 DEF StartGame, Move, Pickup, Acquire
<1>6. CASE Change(c) \/ Break(c) \/ Win(c) \/ Unlock(c)
  BY <1>6 DEF Change, Break, Win, Unlock
<1>7. CASE Answer(c) \/ Refuse(c) \/ Clear(c) \/ ResetCell(c)
  BY <1>7 DEF Answer, Refuse, Clear, ResetCell
<1>8. CASE PostBegin(c) \/ PostTo(c) \/ PostEnd(c) \/ Subscribe(c)
  BY <1>8 DEF PostBegin, PostTo, PostEnd, Subscribe
<1> QED BY <1>1, <1>2, <1>3, <1>4, <1>5, <1>6, <1>7, <1>8 DEF Step, ServerStep

LEMMA OtherClients ==
  ASSUME TypedClients, NEW c \in Client, Step(c), NEW d \in Client, d # c
  PROVE  /\ mpc'[d] = mpc[d] /\ ui'[d] = ui[d] /\ view'[d] = view[d] /\ known'[d] = known[d]
         /\ cstatus'[d] = cstatus[d] /\ cmap'[d] = cmap[d]
<1> USE DEF Adopt, Done, TypedClients
<1>1. CASE ServerStep(c)
  BY <1>1, ServerFrame
<1>2. CASE EventStep(c)
  BY <1>2 DEF EventStep, GotLobby, GotGameOver, GotStartEvent, GotGameUpdate, GotMapUpdate, Dies
<1>3. CASE GotHello(c) \/ GotMap(c) \/ GotStart(c) \/ GotReply(c) \/ Open(c) \/ Exit(c)
  BY <1>3 DEF GotHello, GotMap, GotStart, GotReply, Open, Exit, Dies
<1>4. CASE CopyStart(c)
  BY <1>4 DEF CopyStart
<1>5. CASE UserStep(c)
  BY <1>5 DEF UserStep, Connect, Start, Play, Enter, Quit
<1> QED BY <1>1, <1>2, <1>3, <1>4, <1>5 DEF Step, MainStep

----------------------------------------------------------------------------
(* Locks and jobs *)

(* Whoever broadcasts is at a broadcast, and about the topic he came for.  *)
Caster == cast.by # NoOne => /\ hpc[cast.by] \in {"mapcast", "overcast", "post"}
                             /\ cast.mt = Topic(cast.by)

(* The holder of GameLock is the one thread that changes the game.         *)
Holder == \A c \in Client : hpc[c] \in {"change", "mapcast", "overcast"} <=> lock = c

(* What a thread may be at for which request; only moves and pickups break *)
(* a wall or win.                                                          *)
JobOf(c) ==
  /\ hpc[c] \in {"lock", "change"} => job[c].mt \in {"START", "MOVE", "PICKUP"}
  /\ hpc[c] = "answer" => job[c].mt \in {"HELLO", "START", "MOVE", "PICKUP"}
  /\ hpc[c] \in {"mapcast", "overcast"} => job[c].mt \in {"MOVE", "PICKUP"}
  /\ hpc[c] = "refuse" => job[c].mt = "START"
  /\ hpc[c] = "clear" => job[c].mt \in {"GOODBYE", "LOST"}
  /\ job[c].mt \notin {"MOVE", "PICKUP"} => ~job[c].breaks /\ ~job[c].wins
Jobs == \A c \in Client : JobOf(c)

LEMMA JobsStep ==
  ASSUME TypedGame, TypedThreads, Caster, Jobs, NEW c \in Client, Step(c)
  PROVE  Jobs'
<1>1. ASSUME NEW d \in Client, d # c PROVE JobOf(d)'
  BY <1>1, OtherThreads DEF Jobs, JobOf
<1>2. JobOf(c)'
  <2> USE DEF Goto, Does, TypedThreads, Jobs, JobOf
  <2>1. CASE EventStep(c) \/ MainStep(c) \/ UserStep(c)
    BY <2>1, ClientFrame
  <2>2. CASE ReadStart(c) \/ ReadLobby(c) \/ ReadGoodbye(c) \/ Lost(c) \/ QueryMap(c) \/ Hello(c)
    BY <2>2 DEF ReadStart, ReadLobby, ReadGoodbye, Lost, QueryMap, Hello, Work
  <2>3. CASE StartGame(c)
    BY <2>3 DEF StartGame, Acquire
  <2>4. CASE Move(c)
    BY <2>4 DEF Move, Acquire, Work
  <2>5. CASE Pickup(c)
    BY <2>5 DEF Pickup, Acquire, Work
  <2>6. CASE Change(c) \/ Break(c) \/ Win(c) \/ Unlock(c)
    <3>1. CASE Change(c)
      BY <3>1 DEF Change
    <3>2. CASE Break(c)
      BY <3>2 DEF Break, Changed
    <3>3. CASE Win(c)
      BY <3>3 DEF Win, Changed
    <3>4. CASE Unlock(c)
      BY <3>4 DEF Unlock, Changed
    <3> QED BY <2>6, <3>1, <3>2, <3>3, <3>4
  <2>7. CASE Answer(c) \/ Refuse(c) \/ Clear(c) \/ ResetCell(c)
    BY <2>7 DEF Answer, Refuse, Clear, ResetCell
  <2>8. CASE PostBegin(c) \/ PostTo(c) \/ Subscribe(c)
    BY <2>8 DEF PostBegin, PostTo, Subscribe
  <2>9. CASE PostEnd(c)
    <3>1. hpc[c] \in {"mapcast", "overcast", "post"}
      BY <2>9, NamesOK DEF PostEnd, Caster
    <3>2. /\ hpc'[c] = AfterPost(c)
          /\ job'[c] = IF job[c].mt = "GOODBYE" THEN [job[c] EXCEPT !.mt = "LOST"] ELSE job[c]
      BY <2>9 DEF PostEnd
    <3>3. hpc'[c] = "change" => hpc[c] \in {"mapcast", "overcast"}
      BY <3>2 DEF AfterPost
    <3>4. hpc'[c] \notin {"lock", "answer", "refuse", "mapcast", "overcast"}
      BY <3>2 DEF AfterPost
    <3>5. hpc'[c] = "clear" => job[c].mt = "GOODBYE" /\ job'[c].mt = "LOST"
      BY <3>1, <3>2 DEF AfterPost
    <3>6. job[c].mt \notin {"MOVE", "PICKUP"} => ~job[c].breaks /\ ~job[c].wins
      OBVIOUS
    <3>7. job'[c].mt \notin {"MOVE", "PICKUP"} => ~job'[c].breaks /\ ~job'[c].wins
      BY <3>2, <3>6
    <3> QED BY <3>1, <3>2, <3>3, <3>4, <3>5, <3>7
  <2> QED BY <2>1, <2>2, <2>3, <2>4, <2>5, <2>6, <2>7, <2>8, <2>9 DEF Step, ServerStep
<1> QED BY <1>1, <1>2 DEF Jobs

LEMMA HolderStep ==
  ASSUME TypedGame, TypedThreads, TypedClients, Caster, Holder, NEW c \in Client, Step(c),
         mpc[c] = "off" => hpc[c] = "away"
  PROVE  Holder'
<1> DEFINE In(d) == hpc[d] \in {"change", "mapcast", "overcast"}
<1>1. ASSUME lock' = lock, hpc'[c] \in {"change", "mapcast", "overcast"} <=> In(c)
      PROVE  Holder'
  BY <1>1, OtherThreads DEF Holder
<1>2. ASSUME lock = NoOne, lock' = c, hpc'[c] = "change" PROVE Holder'
  BY <1>2, OtherThreads, NamesOK DEF Holder
<1>3. ASSUME lock' = NoOne, In(c), hpc'[c] = "answer" PROVE Holder'
  BY <1>3, OtherThreads, NamesOK DEF Holder
<1> USE DEF Goto, TypedThreads
<1>4. CASE EventStep(c) \/ MainStep(c) \/ UserStep(c)
  BY <1>1, <1>4, ClientFrame
<1>5. CASE ReadStart(c) \/ ReadLobby(c) \/ ReadGoodbye(c) \/ Lost(c) \/ QueryMap(c) \/ Hello(c)
  BY <1>1, <1>5 DEF ReadStart, ReadLobby, ReadGoodbye, Lost, QueryMap, Hello, Reads
<1>6. CASE StartGame(c) \/ Move(c) \/ Pickup(c)
  BY <1>2, <1>6 DEF StartGame, Move, Pickup, Acquire
<1>7. CASE Change(c) \/ Break(c) \/ Win(c)
  BY <1>1, <1>7 DEF Change, Break, Win, Changed
<1>8. CASE Unlock(c)
  BY <1>3, <1>8 DEF Unlock, Changed
<1>9. CASE Answer(c) \/ Refuse(c) \/ Clear(c) \/ ResetCell(c)
  BY <1>1, <1>9 DEF Answer, Refuse, Clear, ResetCell
<1>10. CASE PostBegin(c) \/ PostTo(c) \/ Subscribe(c)
  BY <1>1, <1>10 DEF PostBegin, PostTo, Subscribe
<1>11. CASE PostEnd(c)
  <2>1. hpc[c] \in {"mapcast", "overcast", "post"}
    BY <1>11, NamesOK DEF PostEnd, Caster
  <2>2. hpc'[c] = AfterPost(c) /\ lock' = lock
    BY <1>11 DEF PostEnd
  <2>3. AfterPost(c) \in {"change", "mapcast", "overcast"} <=> In(c)
    BY <2>1 DEF AfterPost
  <2> QED BY <1>1, <2>2, <2>3
<1> QED BY <1>4, <1>5, <1>6, <1>7, <1>8, <1>9, <1>10, <1>11 DEF Step, ServerStep

LEMMA CasterStep ==
  ASSUME TypedGame, TypedThreads, TypedClients, Caster, NEW c \in Client, Step(c),
         mpc[c] = "off" => hpc[c] = "away"
  PROVE  Caster'
<1>1. ASSUME cast' = cast, cast.by = c => hpc'[c] = hpc[c] /\ job'[c] = job[c]
      PROVE  Caster'
  <2>1. ASSUME cast.by # NoOne PROVE cast.by \in Client
    BY <2>1 DEF TypedThreads
  <2>2. ASSUME cast.by # NoOne PROVE hpc'[cast.by] = hpc[cast.by] /\ job'[cast.by] = job[cast.by]
    BY <1>1, <2>1, <2>2, OtherThreads
  <2> QED BY <1>1, <2>2 DEF Caster, Topic
<1>2. cast.by = c => hpc[c] \in {"mapcast", "overcast", "post"}
  BY NamesOK DEF Caster
<1> USE DEF TypedThreads
<1>3. CASE EventStep(c) \/ MainStep(c) \/ UserStep(c)
  BY <1>1, <1>2, <1>3, ClientFrame
<1>4. CASE ReadStart(c) \/ ReadLobby(c) \/ ReadGoodbye(c) \/ Lost(c) \/ QueryMap(c) \/ Hello(c)
  BY <1>1, <1>2, <1>4 DEF ReadStart, ReadLobby, ReadGoodbye, Lost, QueryMap, Hello, Reads
<1>5. CASE StartGame(c) \/ Move(c) \/ Pickup(c)
  BY <1>1, <1>2, <1>5 DEF StartGame, Move, Pickup, Acquire, Reads
<1>6. CASE Change(c) \/ Break(c) \/ Win(c) \/ Unlock(c)
  BY <1>1, <1>2, <1>6 DEF Change, Break, Win, Unlock, Changed
<1>7. CASE Answer(c) \/ Refuse(c) \/ Clear(c) \/ ResetCell(c) \/ Subscribe(c)
  BY <1>1, <1>2, <1>7 DEF Answer, Refuse, Clear, ResetCell, Subscribe
<1>8. CASE PostBegin(c)
  BY <1>8 DEF PostBegin, Caster, Topic
<1>9. CASE PostTo(c)
  BY <1>9 DEF PostTo, Caster, Topic
<1>10. CASE PostEnd(c)
  BY <1>10 DEF PostEnd, Caster, NoCast
<1> QED BY <1>3, <1>4, <1>5, <1>6, <1>7, <1>8, <1>9, <1>10 DEF Step, ServerStep

----------------------------------------------------------------------------
(* Requests and replies *)

(* The thread of c has nothing to answer: it waits for a request, or is    *)
(* still busy with what follows the answer.                                *)
Quiet(c) == \/ hpc[c] = "idle"
            \/ /\ hpc[c] \in {"post", "reset"}
               /\ job[c].mt \in {"LOBBY_UPDATE", "START", "MOVE", "PICKUP"}

(* What c waits for has been asked for, is being served, has been          *)
(* answered; there is only ever one of them.                               *)
Asked(c, mts) == req[c] = mts /\ rep[c] = <<>> /\ Quiet(c)
Served(c) == /\ req[c] = <<>> /\ rep[c] = <<>>
             /\ hpc[c] \in {"lock", "change", "mapcast", "overcast", "answer", "refuse"}
             /\ job[c].mt = Awaited[mpc[c]]
Answered(c) == /\ req[c] = <<>> /\ Len(rep[c]) = 1 /\ Head(rep[c]).mt = Awaited[mpc[c]]
               /\ Quiet(c)

Greets(c) == mpc[c] = "hello" /\ req[c] = <<"HELLO">>
Parts(c) == /\ req[c] = <<>> /\ rep[c] = <<>>
            /\ \/ hpc[c] = "away"
               \/ hpc[c] \in {"clear", "post"} /\ job[c].mt \in {"GOODBYE", "LOST"}

(* Where the request or the reply of c is, for each place its main thread  *)
(* can be at.                                                              *)
Exchange(c) ==
  /\ mpc[c] = "off" => hpc[c] = "away" /\ req[c] = <<>>
  /\ ~Alive(c) => rep[c] = <<>> /\ Len(req[c]) <= 2
  /\ mpc[c] = "hello" => \/ Greets(c) /\ rep[c] = <<>> /\ hpc[c] = "idle"
                         \/ Served(c) \/ Answered(c)
  /\ mpc[c] = "map" => \/ Asked(c, <<"LOBBY_UPDATE", "MAPQUERY">>)
                       \/ Asked(c, <<"MAPQUERY">>) \/ Answered(c)
  /\ mpc[c] \in {"start", "move", "pickup"} =>
       Asked(c, <<Awaited[mpc[c]]>>) \/ Served(c) \/ Answered(c)
  /\ mpc[c] = "copying" => Answered(c)
  /\ mpc[c] \in {"shell", "opening", "play"} => Asked(c, <<>>)
  /\ mpc[c] = "leaving" => Asked(c, <<"GOODBYE">>) \/ Parts(c)

Exchanges == \A c \in Client : Exchange(c)

LEMMA LengthsOfTuples ==
  /\ Len(<<>>) = 0 /\ (\A x : Len(<<x>>) = 1) /\ (\A x, y : Len(<<x, y>>) = 2)
<1>1. Len(<<>>) = 0
  OBVIOUS
<1>2. ASSUME NEW x PROVE Len(<<x>>) = 1
  OBVIOUS
<1>3. ASSUME NEW x, NEW y PROVE Len(<<x, y>>) = 2
  OBVIOUS
<1> QED BY <1>1, <1>2, <1>3

(* A queue of one message.                                                 *)
LEMMA SingleMessage ==
  ASSUME NEW T, NEW s \in Seq(T), Len(s) = 1
  PROVE  s # <<>> /\ Tail(s) = <<>> /\ \A k \in DOMAIN s : s[k] = Head(s)
<1>1. s # <<>>
  <2>1. Len(<<>>) = 0 /\ Len(s) # 0
    BY LengthsOfTuples
  <2> QED BY <2>1, Zenon
<1>2. Tail(s) \in Seq(T) /\ Len(Tail(s)) = 0
  BY <1>1
<1>3. Tail(s) = <<>>
  BY <1>2, EmptySeq
<1>4. DOMAIN s = {1} /\ Head(s) = s[1]
  BY <1>1
<1> QED BY <1>1, <1>3, <1>4

LEMMA ShortRequests ==
  ASSUME TypedClients, TypedWire, NEW c \in Client, Exchange(c)
  PROVE  Len(req[c]) <= 2
<1>1. CASE ~Alive(c)
  BY <1>1 DEF Exchange
<1>2. CASE Alive(c)
  <2> DEFINE mt == Awaited[mpc[c]]
             Few == {<<>>, <<"HELLO">>, <<"LOBBY_UPDATE", "MAPQUERY">>, <<"MAPQUERY">>,
                     <<"GOODBYE">>, <<mt>>}
  <2>1. req[c] \in Few
    <3> HIDE DEF mt
    <3>1. mpc[c] \in {"hello", "map", "copying", "leaving"} => req[c] \in Few
      BY DEF Exchange, Greets, Asked, Served, Answered, Parts
    <3>2. mpc[c] \in {"shell", "opening", "play"} => req[c] \in Few
      BY DEF Exchange, Asked
    <3>3. mpc[c] \in {"start", "move", "pickup"} => req[c] \in Few
      BY DEF Exchange, Asked, Served, Answered, mt
    <3>4. mpc[c] \in {"hello", "map", "shell", "start", "copying", "opening", "play", "move",
                      "pickup", "leaving"}
      BY <1>2 DEF TypedClients, Alive
    <3> QED BY <3>1, <3>2, <3>3, <3>4
  <2>2. /\ Len(<<>>) = 0 /\ (\A x : Len(<<x>>) = 1) /\ (\A x, y : Len(<<x, y>>) = 2)
    BY LengthsOfTuples
  <2>3. \A s \in Few : Len(s) \in {0, 1, 2}
    <3> HIDE DEF mt
    <3> QED BY <2>2
  <2>4. \A n \in {0, 1, 2} : n <= 2
    OBVIOUS
  <2> HIDE DEF Few
  <2> QED BY <2>1, <2>3, <2>4
<1> QED BY <1>1, <1>2

LEMMA FewReplies ==
  ASSUME TypedClients, TypedWire, NEW c \in Client, Exchange(c)
  PROVE  /\ rep[c] = <<>> \/ Answered(c)
         /\ Answered(c) => /\ rep[c] # <<>> /\ Tail(rep[c]) = <<>>
                           /\ \A k \in DOMAIN rep[c] : rep[c][k] = Head(rep[c])
<1>1. rep[c] = <<>> \/ Answered(c)
  <2>1. ~Alive(c) \/ mpc[c] \in {"hello", "map", "copying", "leaving"} => rep[c] = <<>> \/ Answered(c)
    BY DEF Exchange, Asked, Served, Parts
  <2>2. mpc[c] \in {"shell", "opening", "play", "start", "move", "pickup"} =>
          rep[c] = <<>> \/ Answered(c)
    BY DEF Exchange, Asked, Served
  <2> QED BY <2>1, <2>2 DEF TypedClients, Alive
<1>2. rep[c] \in Seq(Message)
  BY DEF TypedWire
<1>3. Len(rep[c]) = 1 => /\ rep[c] # <<>> /\ Tail(rep[c]) = <<>>
                         /\ \A k \in DOMAIN rep[c] : rep[c][k] = Head(rep[c])
  BY <1>2, SingleMessage
<1> QED BY <1>1, <1>3 DEF Answered

(* When the process of c has ended what it asked for stays, and no more.   *)
LEMMA ExchangeDies ==
  ASSUME TypedClients, TypedWire, NEW c \in Client, Exchange(c),
         NEW how \in {"gone", "crashed"}, Dies(c, how)
  PROVE  Exchange(c)'
<1>1. mpc'[c] = how /\ rep'[c] = <<>> /\ req' = req
  BY DEF Dies, TypedClients, TypedWire
<1>2. Len(req'[c]) <= 2
  BY <1>1, ShortRequests
<1> QED BY <1>1, <1>2 DEF Exchange, Alive

LEMMA HeadsOfTuples ==
  /\ \A x : Head(<<x>>) = x /\ Tail(<<x>>) = <<>> /\ <<x>> # <<>>
  /\ \A x, y : Head(<<x, y>>) = x /\ Tail(<<x, y>>) = <<y>> /\ <<x, y>> # <<>>
<1>1. ASSUME NEW x PROVE Head(<<x>>) = x /\ Tail(<<x>>) = <<>> /\ <<x>> # <<>>
  OBVIOUS
<1>2. ASSUME NEW x, NEW y
      PROVE  Head(<<x, y>>) = x /\ Tail(<<x, y>>) = <<y>> /\ <<x, y>> # <<>>
  OBVIOUS
<1> QED BY <1>1, <1>2

LEMMA AwaitedIs ==
  /\ Awaited["hello"] = "HELLO" /\ Awaited["map"] = "MAPQUERY" /\ Awaited["start"] = "START"
  /\ Awaited["copying"] = "START" /\ Awaited["move"] = "MOVE" /\ Awaited["pickup"] = "PICKUP"
BY DEF Awaited

(* What a thread can read from a client that is there.                     *)
LEMMA ReadsWhat ==
  ASSUME TypedWire, TypedClients, NEW c \in Client, Exchange(c), Alive(c), NEW mt, Reads(c, mt)
  PROVE  /\ rep[c] = <<>>
         /\ \/ /\ mpc[c] \in {"hello", "start", "move", "pickup"}
               /\ mt = Awaited[mpc[c]] /\ req'[c] = <<>>
            \/ mpc[c] = "map" /\ mt = "LOBBY_UPDATE" /\ req'[c] = <<"MAPQUERY">>
            \/ mpc[c] = "map" /\ mt = "MAPQUERY" /\ req'[c] = <<>>
            \/ mpc[c] = "leaving" /\ mt = "GOODBYE" /\ req'[c] = <<>>
<1>1. req'[c] = Tail(req[c]) /\ Head(req[c]) = mt /\ req[c] # <<>> /\ hpc[c] = "idle"
  BY DEF Reads, TypedWire
<1>2. mpc[c] \in {"hello", "map", "shell", "start", "copying", "opening", "play", "move",
                  "pickup", "leaving"}
  BY DEF TypedClients, Alive
<1>3. CASE mpc[c] = "hello"
  BY <1>1, <1>3, HeadsOfTuples, AwaitedIs DEF Exchange, Greets, Served, Answered
<1>4. CASE mpc[c] = "map"
  BY <1>1, <1>4, HeadsOfTuples DEF Exchange, Asked, Answered
<1>5. CASE mpc[c] \in {"start", "move", "pickup"}
  BY <1>1, <1>5, HeadsOfTuples DEF Exchange, Asked, Served, Answered
<1>6. CASE mpc[c] \in {"shell", "opening", "play", "copying"}
  BY <1>1, <1>6 DEF Exchange, Asked, Answered
<1>7. CASE mpc[c] = "leaving"
  BY <1>1, <1>7, HeadsOfTuples DEF Exchange, Asked, Parts
<1> QED BY <1>2, <1>3, <1>4, <1>5, <1>6, <1>7

(* A reply to a client that is there is the only one.                      *)
LEMMA Replied ==
  ASSUME TypedWire, NEW c \in Client, NEW m \in Message, Reply(c, m), Alive(c), rep[c] = <<>>
  PROVE  rep'[c] = <<m>> /\ Len(rep'[c]) = 1 /\ Head(rep'[c]) = m
<1>1. rep'[c] = Append(<<>>, m)
  BY DEF Reply, TypedWire
<1>2. Append(<<>>, m) = <<m>>
  OBVIOUS
<1> QED BY <1>1, <1>2, LengthsOfTuples, HeadsOfTuples

LEMMA ExchangeReads ==
  ASSUME TypedGame, TypedThreads, TypedWire, TypedClients, NEW c \in Client, Exchange(c), Alive(c),
         \/ ReadStart(c) \/ ReadLobby(c) \/ ReadGoodbye(c) \/ QueryMap(c)
         \/ Hello(c) \/ Move(c) \/ Pickup(c)
  PROVE  Exchange(c)'
<1> USE DEF Goto, Does, TypedThreads
<1>1. mpc' = mpc /\ Alive(c)'
  BY DEF ReadStart, ReadLobby, ReadGoodbye, QueryMap, Hello, Move, Pickup, Acquire, Alive
<1>2. CASE ReadStart(c)
  <2>1. mpc[c] = "start" /\ rep[c] = <<>> /\ req'[c] = <<>>
    BY <1>2, ReadsWhat, AwaitedIs DEF ReadStart
  <2>2. rep' = rep /\ hpc'[c] \in {"lock", "refuse"} /\ job'[c].mt = "START"
    BY <1>2 DEF ReadStart, Work
  <2> QED BY <1>1, <2>1, <2>2, AwaitedIs DEF Exchange, Served
<1>3. CASE ReadLobby(c)
  <2>1. mpc[c] = "map" /\ rep[c] = <<>> /\ req'[c] = <<"MAPQUERY">>
    BY <1>3, ReadsWhat, AwaitedIs DEF ReadLobby
  <2>2. rep' = rep /\ hpc'[c] = "post" /\ job'[c].mt = "LOBBY_UPDATE"
    BY <1>3 DEF ReadLobby, Work
  <2> QED BY <1>1, <2>1, <2>2 DEF Exchange, Asked, Quiet
<1>4. CASE ReadGoodbye(c)
  <2>1. mpc[c] = "leaving" /\ rep[c] = <<>> /\ req'[c] = <<>>
    BY <1>4, ReadsWhat, AwaitedIs DEF ReadGoodbye
  <2>2. rep' = rep /\ hpc'[c] = "clear" /\ job'[c].mt = "GOODBYE"
    BY <1>4 DEF ReadGoodbye, Work
  <2> QED BY <1>1, <2>1, <2>2 DEF Exchange, Parts
<1>5. CASE QueryMap(c)
  <2> DEFINE m == [Header("MAPQUERY") EXCEPT !.view = part, !.map = broken]
  <2>1. mpc[c] = "map" /\ rep[c] = <<>> /\ req'[c] = <<>>
    BY <1>5, ReadsWhat, AwaitedIs DEF QueryMap
  <2>2. m \in Message /\ m.mt = "MAPQUERY"
    BY MessagesTyped DEF Header
  <2>3. Reply(c, m) /\ hpc'[c] = "idle"
    BY <1>5 DEF QueryMap, Reads
  <2>4. Len(rep'[c]) = 1 /\ Head(rep'[c]) = m
    <3> HIDE DEF m
    <3> QED BY <2>1, <2>2, <2>3, Replied
  <2>5. Head(rep'[c]).mt = Awaited[mpc'[c]] /\ mpc'[c] = "map"
    <3> HIDE DEF m
    <3> QED BY <1>1, <2>1, <2>2, <2>4, AwaitedIs
  <2>6. Answered(c)'
    BY <2>1, <2>3, <2>4, <2>5 DEF Answered, Quiet
  <2> QED BY <1>1, <2>5, <2>6 DEF Exchange
<1>6. CASE Hello(c)
  <2>1. mpc[c] = "hello" /\ rep[c] = <<>> /\ req'[c] = <<>>
    BY <1>6, ReadsWhat, AwaitedIs DEF Hello
  <2>2. rep' = rep /\ hpc'[c] = "answer" /\ job'[c].mt = "HELLO"
    BY <1>6 DEF Hello, Work
  <2> QED BY <1>1, <2>1, <2>2, AwaitedIs DEF Exchange, Served
<1>7. CASE Move(c)
  <2>1. Reads(c, "MOVE") /\ Acquire(c)
    BY <1>7, Zenon DEF Move
  <2>2. mpc[c] = "move" /\ rep[c] = <<>> /\ req'[c] = <<>>
    BY <2>1, ReadsWhat, AwaitedIs
  <2>3. rep' = rep /\ hpc'[c] = "change"
    BY <2>1 DEF Acquire
  <2>4. PICK S \in {{}, {c}, {c, Objs}} \cup {{c, d} : d \in InGame}, b \in BOOLEAN, w \in BOOLEAN :
          Does(c, [Work("MOVE") EXCEPT !.todo = S, !.breaks = b, !.wins = w])
    BY <1>7 DEF Move
  <2>5. job'[c].mt = "MOVE"
    BY <2>4 DEF Work
  <2> QED BY <1>1, <2>2, <2>3, <2>5, AwaitedIs DEF Exchange, Served
<1>8. CASE Pickup(c)
  <2>1. Reads(c, "PICKUP") /\ Acquire(c)
    BY <1>8, Zenon DEF Pickup
  <2>2. mpc[c] = "pickup" /\ rep[c] = <<>> /\ req'[c] = <<>>
    BY <2>1, ReadsWhat, AwaitedIs
  <2>3. rep' = rep /\ hpc'[c] = "change"
    BY <2>1 DEF Acquire
  <2>4. PICK S \in {{}, {c}}, w \in BOOLEAN :
          Does(c, [Work("PICKUP") EXCEPT !.todo = S, !.wins = w])
    BY <1>8 DEF Pickup
  <2>5. job'[c].mt = "PICKUP"
    BY <2>4 DEF Work
  <2> QED BY <1>1, <2>2, <2>3, <2>5, AwaitedIs DEF Exchange, Served
<1> QED BY <1>2, <1>3, <1>4, <1>5, <1>6, <1>7, <1>8

(* The thread goes on from one place of serving to the next, or from one   *)
(* place after the answer to the next.                                     *)
LEMMA ExchangeGoesOn ==
  ASSUME TypedGame, TypedThreads, TypedWire, TypedClients, NEW c \in Client, Exchange(c),
         UNCHANGED <<mpc, req, rep>>,
         Alive(c),
         Served(c) => Served(c)', Quiet(c) => Quiet(c)', Parts(c) => Parts(c)',
         Greets(c) /\ hpc[c] = "idle" => hpc'[c] = "idle"
  PROVE  Exchange(c)'
BY DEF Exchange, Alive, Asked, Answered, Greets

LEMMA ExchangeServer ==
  ASSUME TypedGame, TypedThreads, TypedWire, TypedClients, Caster, Jobs, NEW c \in Client,
         Exchange(c), Alive(c), ServerStep(c)
  PROVE  Exchange(c)'
<1> USE DEF Goto, Does, TypedThreads
<1>1. mpc' = mpc
  BY ServerFrame
<1>2. CASE ReadStart(c) \/ ReadLobby(c) \/ ReadGoodbye(c) \/ QueryMap(c) \/ Hello(c) \/ Move(c)
           \/ Pickup(c)
  BY <1>2, ExchangeReads
<1>3. ASSUME UNCHANGED <<req, rep>>, job'[c].mt = job[c].mt,
             \/ hpc'[c] = hpc[c]
             \/ /\ hpc[c] \in {"lock", "change", "mapcast", "overcast"}
                /\ hpc'[c] \in {"change", "mapcast", "overcast", "answer"}
      PROVE  Exchange(c)'
  BY <1>1, <1>3, ExchangeGoesOn DEF Alive, Served, Quiet, Parts
<1>4. CASE Lost(c)
  BY <1>4 DEF Lost, Alive
<1>5. CASE StartGame(c)
  BY <1>3, <1>5 DEF StartGame, Acquire
<1>6. CASE Change(c)
  BY <1>3, <1>6 DEF Change
<1>7. CASE Break(c)
  BY <1>3, <1>7 DEF Break, Changed
<1>8. CASE Win(c)
  BY <1>3, <1>8 DEF Win, Changed
<1>9. CASE Unlock(c)
  BY <1>3, <1>9 DEF Unlock, Changed
<1>10. CASE PostBegin(c)
  BY <1>3, <1>10 DEF PostBegin
<1>11. CASE PostTo(c)
  BY <1>3, <1>11 DEF PostTo
<1>12. CASE Subscribe(c)
  BY <1>3, <1>12 DEF Subscribe
<1>13. ASSUME hpc[c] \in {"answer", "refuse"}
       PROVE  /\ mpc[c] \in {"hello", "start", "move", "pickup"}
              /\ req[c] = <<>> /\ rep[c] = <<>> /\ job[c].mt = Awaited[mpc[c]]
  <2>1. ~Quiet(c) /\ ~Parts(c)
    BY <1>13 DEF Quiet, Parts
  <2>2. mpc[c] \in {"hello", "map", "shell", "start", "copying", "opening", "play", "move",
                    "pickup", "leaving"}
    BY DEF TypedClients, Alive
  <2>3. mpc[c] \notin {"map", "shell", "copying", "opening", "play", "leaving"}
    BY <2>1 DEF Exchange, Asked, Answered
  <2>4. Served(c)
    BY <1>13, <2>1, <2>2, <2>3 DEF Exchange, Asked, Answered
  <2> QED BY <2>2, <2>3, <2>4 DEF Served
<1>14. CASE Answer(c)
  <2> DEFINE m == IF job[c].mt = "START" THEN Snapshot("START") ELSE Header(job[c].mt)
  <2>1. /\ mpc[c] \in {"hello", "start", "move", "pickup"}
        /\ req[c] = <<>> /\ rep[c] = <<>> /\ job[c].mt = Awaited[mpc[c]]
    BY <1>13, <1>14 DEF Answer
  <2>2. job[c].mt \in Request \cup Event
    BY <2>1, AwaitedIs DEF Request
  <2>3. m \in Message /\ m.mt = job[c].mt
    BY <2>2, MessagesTyped, HeaderFields, SnapshotFields
  <2>4. Reply(c, m) /\ UNCHANGED <<job, req>>
    BY <1>14 DEF Answer
  <2>5. Len(rep'[c]) = 1 /\ Head(rep'[c]) = m
    <3> HIDE DEF m
    <3> QED BY <2>1, <2>3, <2>4, Replied
  <2>6. Quiet(c)'
    <3>1. CASE job[c].mt = "HELLO"
      BY <1>14, <3>1 DEF Answer, Quiet
    <3>2. CASE job[c].mt # "HELLO"
      BY <1>14, <2>1, <3>2, AwaitedIs DEF Answer, Quiet
    <3> QED BY <3>1, <3>2
  <2>7. Answered(c)'
    <3> HIDE DEF m
    <3> QED BY <1>1, <2>1, <2>3, <2>4, <2>5, <2>6 DEF Answered
  <2> QED BY <1>1, <2>1, <2>7 DEF Exchange, Alive
<1>15. CASE Refuse(c)
  <2> DEFINE m == Header("START")
  <2>1. /\ mpc[c] \in {"hello", "start", "move", "pickup"}
        /\ req[c] = <<>> /\ rep[c] = <<>> /\ job[c].mt = Awaited[mpc[c]]
    BY <1>13, <1>15 DEF Refuse
  <2>2. hpc[c] = "refuse" /\ job[c].mt = "START"
    BY <1>15 DEF Refuse, Jobs, JobOf
  <2>3. m \in Message /\ m.mt = "START"
    BY MessagesTyped, HeaderFields DEF Request
  <2>4. Reply(c, m) /\ req' = req /\ hpc'[c] = "idle"
    BY <1>15 DEF Refuse
  <2>5. Len(rep'[c]) = 1 /\ Head(rep'[c]) = m
    <3> HIDE DEF m
    <3> QED BY <2>1, <2>3, <2>4, Replied
  <2>6. Answered(c)'
    <3> HIDE DEF m
    <3> QED BY <1>1, <2>1, <2>2, <2>3, <2>4, <2>5 DEF Answered, Quiet
  <2> QED BY <1>1, <2>1, <2>6 DEF Exchange, Alive
<1>16. CASE Clear(c)
  <2>1. hpc[c] = "clear" /\ hpc'[c] = "post" /\ UNCHANGED <<req, rep, job>>
    BY <1>16 DEF Clear
  <2>2. ~Quiet(c) /\ ~Served(c)
    BY <2>1 DEF Quiet, Served
  <2>3. Parts(c) => Parts(c)'
    BY <2>1 DEF Parts
  <2> QED BY <1>1, <2>1, <2>2, <2>3, ExchangeGoesOn DEF Alive
<1>17. CASE ResetCell(c)
  <2>1. hpc[c] = "reset" /\ hpc'[c] = "idle" /\ UNCHANGED <<req, rep, job>>
    BY <1>17 DEF ResetCell
  <2> QED BY <1>1, <2>1, ExchangeGoesOn DEF Alive, Quiet, Served, Parts
<1>18. CASE PostEnd(c)
  <2>1. hpc[c] \in {"mapcast", "overcast", "post"} /\ UNCHANGED <<req, rep>>
    BY <1>18, NamesOK DEF PostEnd, Caster
  <2>2. hpc'[c] = AfterPost(c)
    BY <1>18 DEF PostEnd
  <2>3. /\ job[c].mt = "GOODBYE" => job'[c].mt = "LOST"
        /\ job[c].mt # "GOODBYE" => job' = job
    BY <1>18 DEF PostEnd
  <2>4. CASE hpc[c] \in {"mapcast", "overcast"}
    <3>1. hpc'[c] = "change" /\ job[c].mt \in {"MOVE", "PICKUP"}
      BY <2>2, <2>4 DEF AfterPost, Jobs, JobOf
    <3> QED BY <1>3, <2>1, <2>3, <2>4, <3>1
  <2>5. CASE hpc[c] = "post"
    <3>1. Quiet(c) => Quiet(c)'
      BY <2>2, <2>3, <2>5 DEF AfterPost, Quiet
    <3>2. Parts(c) => Parts(c)'
      BY <2>1, <2>2, <2>3, <2>5 DEF AfterPost, Parts
    <3> QED BY <1>1, <2>1, <2>5, <3>1, <3>2, ExchangeGoesOn DEF Alive, Served
  <2> QED BY <2>1, <2>4, <2>5
<1> QED BY <1>2, <1>4, <1>5, <1>6, <1>7, <1>8, <1>9, <1>10, <1>11, <1>12, <1>14, <1>15, <1>16,
           <1>17, <1>18 DEF ServerStep

(* For a client that is no longer there nothing is kept, and its requests  *)
(* only become fewer; before it is there its thread does nothing.          *)
LEMMA ExchangeDead ==
  ASSUME TypedGame, TypedThreads, TypedWire, TypedClients, Caster, NEW c \in Client,
         Exchange(c), ~Alive(c), ServerStep(c)
  PROVE  Exchange(c)'
<1>1. mpc' = mpc /\ ~Alive(c)'
  BY ServerFrame DEF Alive
<1>2. ASSUME NEW mt, Reads(c, mt) PROVE Len(req'[c]) <= 2
  <2>1. req[c] \in Seq(Request) /\ req[c] # <<>> /\ req'[c] = Tail(req[c])
    BY <1>2 DEF Reads, TypedWire
  <2>2. Len(req[c]) \in Nat /\ Len(req'[c]) = Len(req[c]) - 1
    BY <2>1
  <2>3. Len(req[c]) <= 2
    BY DEF Exchange
  <2> QED BY <2>2, <2>3
<1>3. ASSUME mpc[c] # "off", rep' = rep, req' = req PROVE Exchange(c)'
  BY <1>1, <1>3 DEF Exchange, Alive
<1>4. ASSUME hpc' = hpc, rep' = rep, req' = req PROVE Exchange(c)'
  BY <1>1, <1>4 DEF Exchange, Alive, TypedClients
<1>5. ASSUME mpc[c] # "off", rep' = rep, NEW mt, Reads(c, mt) PROVE Exchange(c)'
  BY <1>1, <1>2, <1>5 DEF Exchange, Alive, TypedClients
<1>6. ASSUME NEW m, Reply(c, m) PROVE rep' = rep
  BY <1>6 DEF Reply
<1>7. mpc[c] = "off" => hpc[c] = "away"
  BY DEF Exchange
<1>8. cast.by = c => hpc[c] # "away"
  BY NamesOK DEF Caster
<1>9. CASE ReadStart(c) \/ ReadLobby(c) \/ ReadGoodbye(c) \/ Hello(c)
  BY <1>5, <1>7, <1>9 DEF ReadStart, ReadLobby, ReadGoodbye, Hello, Reads
<1>10. CASE QueryMap(c)
  BY <1>5, <1>6, <1>7, <1>10 DEF QueryMap, Reads
<1>11. CASE Move(c)
  <2>1. Reads(c, "MOVE") /\ Acquire(c)
    BY <1>11, Zenon DEF Move
  <2> QED BY <1>5, <1>7, <2>1 DEF Acquire, Reads
<1>12. CASE Pickup(c)
  <2>1. Reads(c, "PICKUP") /\ Acquire(c)
    BY <1>12, Zenon DEF Pickup
  <2> QED BY <1>5, <1>7, <2>1 DEF Acquire, Reads
<1>13. CASE Lost(c) \/ StartGame(c) \/ Change(c) \/ Break(c) \/ Win(c) \/ Unlock(c)
  BY <1>3, <1>7, <1>13 DEF Lost, StartGame, Acquire, Change, Break, Win, Unlock, Changed
<1>14. CASE Answer(c) \/ Refuse(c) \/ Clear(c) \/ ResetCell(c)
  BY <1>3, <1>6, <1>7, <1>14 DEF Answer, Refuse, Clear, ResetCell
<1>15. CASE PostBegin(c) \/ PostTo(c) \/ Subscribe(c)
  BY <1>4, <1>15 DEF PostBegin, PostTo, Subscribe
<1>16. CASE PostEnd(c)
  BY <1>3, <1>7, <1>8, <1>16 DEF PostEnd
<1> QED BY <1>9, <1>10, <1>11, <1>12, <1>13, <1>14, <1>15, <1>16 DEF ServerStep

LEMMA ConcatEmpty ==
  ASSUME NEW T, NEW s \in Seq(T)
  PROVE  <<>> \o s = s
BY ConcatEmptySeq

LEMMA ExchangeClient ==
  ASSUME TypedGame, TypedThreads, TypedWire, TypedClients, NEW c \in Client, Exchange(c),
         EventStep(c) \/ MainStep(c) \/ UserStep(c)
  PROVE  Exchange(c)'
<1> USE DEF TypedThreads, TypedWire, TypedClients
<1>1. job' = job /\ (mpc[c] # "off" => hpc' = hpc)
  BY ClientFrame
<1>2. ASSUME UNCHANGED <<mpc, req, rep>>, mpc[c] # "off" PROVE Exchange(c)'
  BY <1>1, <1>2 DEF Exchange, Alive, Asked, Served, Answered, Quiet, Parts, Greets
<1>3. \A how \in {"gone", "crashed"} : Dies(c, how) => Exchange(c)'
  BY ExchangeDies
<1>4. ASSUME rep[c] # <<>>, Taken(c)
      PROVE  Answered(c) /\ rep'[c] = <<>>
  BY <1>4, FewReplies DEF Taken
<1>5. ASSUME rep[c] # <<>>, Taken(c), req' = req, mpc'[c] \in {"shell", "opening", "play"},
             mpc[c] # "off"
      PROVE  Exchange(c)'
  BY <1>1, <1>4, <1>5 DEF Exchange, Alive, Asked, Answered, Quiet
<1>6. ASSUME NEW mts \in Seq(Request), Send(c, mts), req[c] = <<>> PROVE req'[c] = mts
  BY <1>6, ConcatEmpty DEF Send
<1>7. {<<"HELLO">>, <<"START">>, <<"MOVE">>, <<"PICKUP">>, <<"GOODBYE">>,
       <<"LOBBY_UPDATE", "MAPQUERY">>} \subseteq Seq(Request)
  BY DEF Request
<1>8. ASSUME Done(c) PROVE mpc'[c] \in {"shell", "opening", "play"}
  BY <1>8 DEF Done
<1>9. CASE EventStep(c)
  <2>1. mpc[c] # "off"
    BY <1>9 DEF EventStep, GotLobby, GotGameOver, GotStartEvent, GotGameUpdate, GotMapUpdate,
                Receives, Alive
  <2>2. Dies(c, "crashed") \/ UNCHANGED <<mpc, req, rep>>
    BY <1>9 DEF EventStep, GotLobby, GotGameOver, GotStartEvent, GotGameUpdate, GotMapUpdate
  <2> QED BY <1>2, <1>3, <2>1, <2>2
<1>10. CASE GotHello(c)
  <2>1. Answered(c) /\ rep'[c] = <<>> /\ mpc[c] = "hello" /\ mpc'[c] = "map"
    BY <1>4, <1>10 DEF GotHello, Waits
  <2>2. req'[c] = <<"LOBBY_UPDATE", "MAPQUERY">>
    BY <1>6, <1>7, <1>10, <2>1 DEF GotHello, Answered
  <2> QED BY <1>1, <2>1, <2>2 DEF Exchange, Alive, Asked, Answered, Quiet
<1>11. CASE GotMap(c) \/ GotReply(c)
  BY <1>5, <1>8, <1>11 DEF GotMap, GotReply, Waits
<1>12. CASE GotStart(c)
  <2>1. mpc[c] = "start" /\ rep[c] # <<>> /\ req' = req
    BY <1>12 DEF GotStart, Waits
  <2>2. CASE Taken(c) /\ Done(c)
    BY <1>5, <1>8, <2>1, <2>2
  <2>3. CASE mpc' = [mpc EXCEPT ![c] = "copying"] /\ rep' = rep
    <3>1. Answered(c) /\ mpc'[c] = "copying"
      BY <2>1, <2>3, FewReplies
    <3> QED BY <1>1, <2>1, <2>3, <3>1, AwaitedIs DEF Exchange, Alive, Answered, Quiet
  <2> QED BY <1>12, <2>2, <2>3 DEF GotStart
<1>13. CASE CopyStart(c)
  <2>1. mpc[c] = "copying" /\ Taken(c) /\ Done(c) /\ req' = req
    BY <1>13 DEF CopyStart
  <2>2. rep[c] # <<>>
    BY <2>1, FewReplies DEF Exchange
  <2> QED BY <1>5, <1>8, <2>1, <2>2
<1>14. CASE Open(c)
  <2>1. CASE Dies(c, "crashed")
    BY <1>3, <2>1
  <2>2. CASE ~Dies(c, "crashed")
    <3>1. mpc[c] = "opening" /\ mpc'[c] = "play" /\ UNCHANGED <<req, rep>>
      BY <1>14, <2>2 DEF Open
    <3> QED BY <1>1, <3>1 DEF Exchange, Alive, Asked, Quiet
  <2> QED BY <2>1, <2>2
<1>15. CASE Exit(c)
  BY <1>3, <1>15 DEF Exit
<1>16. CASE Connect(c)
  <2>1. mpc[c] = "off" /\ mpc'[c] = "hello" /\ hpc'[c] = "idle" /\ rep' = rep
    BY <1>16 DEF Connect, Goto
  <2>2. req[c] = <<>> /\ rep[c] = <<>>
    BY <2>1 DEF Exchange, Alive
  <2>3. req'[c] = <<"HELLO">>
    BY <1>6, <1>7, <1>16, <2>2 DEF Connect
  <2> QED BY <2>1, <2>2, <2>3 DEF Exchange, Alive, Greets
<1>17. CASE Start(c) \/ Play(c) \/ Quit(c)
  <2>1. mpc[c] \in {"shell", "play"} /\ rep' = rep
    BY <1>17 DEF Start, Play, Quit, Gives, AtPrompt
  <2>2. Asked(c, <<>>)
    BY <2>1 DEF Exchange
  <2>3. \/ mpc'[c] = "start" /\ Send(c, <<"START">>)
        \/ mpc'[c] = "move" /\ Send(c, <<"MOVE">>)
        \/ mpc'[c] = "pickup" /\ Send(c, <<"PICKUP">>)
        \/ mpc'[c] = "leaving" /\ Send(c, <<"GOODBYE">>)
    BY <1>17 DEF Start, Play, Quit
  <2>4. \/ mpc'[c] \in {"start", "move", "pickup"} /\ req'[c] = <<Awaited[mpc'[c]]>>
        \/ mpc'[c] = "leaving" /\ req'[c] = <<"GOODBYE">>
    BY <1>6, <1>7, <2>2, <2>3, AwaitedIs DEF Asked
  <2> QED BY <1>1, <2>1, <2>2, <2>4 DEF Exchange, Alive, Asked, Quiet
<1>18. CASE Enter(c)
  <2>1. mpc[c] = "shell" /\ mpc'[c] = "opening" /\ UNCHANGED <<req, rep>>
    BY <1>18 DEF Enter
  <2> QED BY <1>1, <2>1 DEF Exchange, Alive, Asked, Quiet
<1> QED BY <1>9, <1>10, <1>11, <1>12, <1>13, <1>14, <1>15, <1>16, <1>17, <1>18
   DEF MainStep, UserStep

LEMMA ExchangesStep ==
  ASSUME TypedGame, TypedThreads, TypedWire, TypedClients, Caster, Jobs, Exchanges,
         NEW c \in Client, Step(c)
  PROVE  Exchanges'
<1>1. Exchange(c)'
  BY ExchangeServer, ExchangeDead, ExchangeClient DEF Exchanges, Step
<1>2. ASSUME NEW d \in Client, d # c PROVE Exchange(d)'
  <2>1. Exchange(d)
    BY DEF Exchanges
  <2>2. /\ hpc'[d] = hpc[d] /\ job'[d] = job[d] /\ req'[d] = req[d] /\ rep'[d] = rep[d]
        /\ mpc'[d] = mpc[d]
    BY <1>2, OtherThreads, OtherQueues, OtherClients
  <2> QED BY <2>1, <2>2 DEF Exchange, Alive, Asked, Served, Answered, Quiet, Parts, Greets
<1> QED BY <1>1, <1>2 DEF Exchanges

----------------------------------------------------------------------------
(* The inductive invariant behind TypeOK and AnswersMatch *)

Base == Typed /\ Caster /\ Holder /\ Jobs /\ Exchanges

LEMMA BaseInit ==
  ASSUME Init
  PROVE  Base
<1> USE DEF Init
<1>1. /\ status \in GameStatus /\ \A c \in Client : cstatus[c] \in GameStatus
  BY DEF GameStatus
<1>2. TypedGame
  BY <1>1, ZeroType DEF TypedGame
<1>3. TypedThreads
  <2>1. job \in [Client -> [mt : Request \cup {"LOST"}, todo : SUBSET Part,
                            breaks : BOOLEAN, wins : BOOLEAN]]
    BY WorkType
  <2>2. cast \in [by : Client \cup {NoOne}, mt : Event, at : Nat \ {0}]
    BY DEF NoCast, Event
  <2>3. subs \in Seq(Client)
    OBVIOUS
  <2> QED BY <2>1, <2>2, <2>3 DEF TypedThreads
<1>4. TypedWire
  <2>1. <<>> \in Seq(Request) /\ <<>> \in Seq(Message) /\ Len(<<>>) = 0
    OBVIOUS
  <2> QED BY <2>1, BoundsOK DEF TypedWire
<1>5. TypedClients
  BY <1>1, ZeroType, HabitOK DEF TypedClients
<1>6. TypedHistory
  BY DEF TypedHistory
<1>7. Caster /\ Holder
  BY NamesOK DEF Caster, Holder, NoCast
<1>8. Jobs
  BY DEF Jobs, JobOf, Work
<1>9. Exchanges
  BY LengthsOfTuples DEF Exchanges, Exchange, Alive
<1> QED BY <1>2, <1>3, <1>4, <1>5, <1>6, <1>7, <1>8, <1>9 DEF Base, Typed

LEMMA BaseStep ==
  ASSUME Base, [Next]_vars
  PROVE  Base'
<1>1. CASE UNCHANGED vars
  <2>1. TypedGame' /\ TypedThreads' /\ TypedWire' /\ TypedClients' /\ TypedHistory'
    BY <1>1 DEF vars, Base, Typed, TypedGame, TypedThreads, TypedWire, TypedClients, TypedHistory
  <2>2. Caster' /\ Holder' /\ Jobs'
    BY <1>1 DEF vars, Base, Caster, Topic, Holder, Jobs, JobOf
  <2>3. Exchanges'
    BY <1>1 DEF vars, Base, Exchanges, Exchange, Alive, Asked, Served, Answered, Quiet, Parts, Greets
  <2> QED BY <2>1, <2>2, <2>3 DEF Base, Typed
<1>2. ASSUME NEW c \in Client, Step(c) PROVE Base'
  <2>1. /\ TypedGame /\ TypedThreads /\ TypedWire /\ TypedClients /\ TypedHistory
        /\ Caster /\ Holder /\ Jobs /\ Exchanges
    BY DEF Base, Typed
  <2>2. /\ mpc[c] = "off" => hpc[c] = "away"
        /\ mpc[c] = "copying" => rep[c] # <<>>
    BY <2>1, FewReplies DEF Exchanges, Exchange
  <2>3. hpc[c] = "answer" => job[c].mt \in Request
    BY <2>1 DEF Jobs, JobOf, Request
  <2>4. TypedGame' /\ TypedThreads'
    BY <1>2, <2>1, TypedGameStep, TypedThreadsStep
  <2>5. TypedWire' /\ TypedClients' /\ TypedHistory'
    BY <1>2, <2>1, <2>2, <2>3, TypedWireStep, TypedClientsStep, TypedHistoryStep
  <2>6. Caster' /\ Holder' /\ Jobs'
    BY <1>2, <2>1, <2>2, CasterStep, HolderStep, JobsStep
  <2>7. Exchanges'
    BY <1>2, <2>1, ExchangesStep
  <2> QED BY <2>4, <2>5, <2>6, <2>7 DEF Base, Typed
<1> QED BY <1>1, <1>2, NextCases

LEMMA BaseGivesTypes ==
  ASSUME Base
  PROVE  TypeOK
<1>1. \A c \in Client : Len(req[c]) <= 2
  BY ShortRequests DEF Base, Typed, Exchanges
<1> QED BY <1>1 DEF Base, TypeOK

LEMMA BaseGivesAnswers ==
  ASSUME Base
  PROVE  AnswersMatch
<1> SUFFICES ASSUME NEW c \in Client, rep[c] # <<>>, Alive(c)
             PROVE  /\ Len(rep[c]) = 1
                    /\ mpc[c] \in DOMAIN Awaited /\ Head(rep[c]).mt = Awaited[mpc[c]]
  BY DEF AnswersMatch
<1>1. TypedWire /\ TypedClients /\ Exchange(c)
  BY DEF Base, Typed, Exchanges
<1>2. Answered(c)
  BY <1>1, FewReplies
<1>3. mpc[c] \in {"hello", "map", "shell", "start", "copying", "opening", "play", "move", "pickup",
                  "leaving"}
  BY <1>1 DEF TypedClients, Alive
<1>4. mpc[c] \notin {"shell", "opening", "play", "leaving"}
  BY <1>1 DEF Exchange, Asked, Parts
<1>5. DOMAIN Awaited = {"hello", "map", "start", "copying", "move", "pickup"}
  BY DEF Awaited
<1> QED BY <1>2, <1>3, <1>4, <1>5 DEF Answered

(* Every variable keeps its type, no socket takes more events or ACKs than *)
(* it holds, and no client ever has more than two requests under way.      *)
THEOREM TypesHold == Spec => []TypeOK
<1>1. Init => Base
  BY BaseInit
<1>2. Base /\ [Next]_vars => Base'
  BY BaseStep
<1>3. Base => TypeOK
  BY BaseGivesTypes
<1> QED BY <1>1, <1>2, <1>3, PTL DEF Spec

(* Whatever a client finds on its RPC connection while it waits is the one *)
(* reply to the one request it waits for: the "ACK" of the hello handler,  *)
(* which is a request, is never answered, and no two requests that are     *)
(* answered are ever under way at once.                                    *)
THEOREM RepliesMatch == Spec => []AnswersMatch
<1>1. Init => Base
  BY BaseInit
<1>2. Base /\ [Next]_vars => Base'
  BY BaseStep
<1>3. Base => AnswersMatch
  BY BaseGivesAnswers
<1> QED BY <1>1, <1>2, <1>3, PTL DEF Spec

----------------------------------------------------------------------------
(* What a step does to the queues *)

Appends(c, d) == /\ PostTo(c) /\ subs[cast.at] = d /\ Alive(d)
                 /\ evt'[d] = Append(evt[d], PostMessage(cast.mt))
Handles(c) == EventStep(c) /\ evt[c] # <<>> /\ evt'[c] = Tail(evt[c]) /\ UNCHANGED <<mpc, ui>>
Ends(c) == \/ Dies(c, "crashed")
           \/ Dies(c, "gone")

(* A client that ends was there, and nothing is left of it.                *)
LEMMA EndsHow ==
  ASSUME Base, NEW c \in Client, Step(c), Ends(c)
  PROVE  /\ mpc'[c] \in {"gone", "crashed"} /\ ~Alive(c)' /\ evt'[c] = <<>> /\ rep'[c] = <<>>
         /\ view'[c] = Zero /\ known'[c] = {} /\ cstatus'[c] = "NOT_STARTED"
         /\ UNCHANGED <<server, req, history>>
BY DEF Ends, Dies, Alive, Base, Typed, TypedWire, TypedClients

(* An event step handles the first event, or ends the client.              *)
LEMMA EventCases ==
  ASSUME Base, NEW c \in Client, EventStep(c)
  PROVE  /\ Alive(c) /\ evt[c] # <<>>
         /\ Dies(c, "crashed") \/ (Handles(c) /\ UNCHANGED <<rep, req>>)
<1> USE DEF Base, Typed, TypedWire, Receives, Handled
<1>1. CASE GotLobby(c)
  BY <1>1 DEF GotLobby, Handles, EventStep
<1>2. CASE GotGameOver(c)
  BY <1>2 DEF GotGameOver, Handles, EventStep
<1>3. CASE GotStartEvent(c)
  BY <1>3 DEF GotStartEvent, Handles, EventStep
<1>4. CASE GotGameUpdate(c)
  BY <1>4 DEF GotGameUpdate, Handles, EventStep
<1>5. CASE GotMapUpdate(c)
  BY <1>5 DEF GotMapUpdate, Handles, EventStep
<1> QED BY <1>1, <1>2, <1>3, <1>4, <1>5 DEF EventStep

(* Events come last, one at a time, and leave first.                       *)
LEMMA EventQueues ==
  ASSUME Base, NEW c \in Client, Step(c), NEW d \in Client
  PROVE  \/ evt'[d] = evt[d]
         \/ Appends(c, d)
         \/ d = c /\ Handles(c)
         \/ d = c /\ Ends(c)
<1> USE DEF Base, Typed
<1>1. CASE PostTo(c)
  <2>1. subs[cast.at] \in Client
    BY <1>1 DEF PostTo, TypedThreads
  <2>2. CASE Alive(subs[cast.at])
    BY <1>1, <2>1, <2>2 DEF PostTo, Appends, TypedWire
  <2>3. CASE ~Alive(subs[cast.at])
    BY <1>1, <2>3 DEF PostTo
  <2> QED BY <2>2, <2>3
<1>2. CASE d # c /\ ~PostTo(c)
  BY <1>2, OtherQueues
<1>3. CASE d = c /\ EventStep(c)
  BY <1>3, EventCases DEF Ends
<1>4. CASE d = c /\ (MainStep(c) \/ UserStep(c))
  <2>1. CASE Open(c) \/ Exit(c)
    BY <1>4, <2>1 DEF Open, Exit, Ends
  <2>2. CASE GotHello(c) \/ GotMap(c) \/ GotStart(c) \/ CopyStart(c) \/ GotReply(c)
    BY <2>2 DEF GotHello, GotMap, GotStart, CopyStart, GotReply
  <2>3. CASE UserStep(c)
    BY <2>3 DEF UserStep, Connect, Start, Play, Enter, Quit
  <2> QED BY <1>4, <2>1, <2>2, <2>3 DEF MainStep
<1>5. CASE ReadStart(c) \/ ReadLobby(c) \/ ReadGoodbye(c) \/ Lost(c) \/ QueryMap(c) \/ Hello(c)
  BY <1>5 DEF ReadStart, ReadLobby, ReadGoodbye, Lost, QueryMap, Hello
<1>6. CASE StartGame(c) \/ Move(c) \/ Pickup(c) \/ Change(c) \/ Break(c) \/ Win(c) \/ Unlock(c)
  BY <1>6 DEF StartGame, Move, Pickup, Acquire, Change, Break, Win, Unlock
<1>7. CASE Answer(c) \/ Refuse(c) \/ Clear(c) \/ ResetCell(c) \/ PostBegin(c) \/ PostEnd(c)
           \/ Subscribe(c)
  BY <1>7 DEF Answer, Refuse, Clear, ResetCell, PostBegin, PostEnd, Subscribe
<1> QED BY <1>1, <1>2, <1>3, <1>4, <1>5, <1>6, <1>7 DEF Step, ServerStep

(* A reply is the answer to a request, and is taken as the only one.       *)
MapReply == [Header("MAPQUERY") EXCEPT !.view = part, !.map = broken]
RepliesWith(c, m) ==
  /\ Alive(c) /\ rep[c] = <<>> /\ rep'[c] = <<m>> /\ Head(rep'[c]) = m
  /\ UNCHANGED <<game, walls, evt, client>>
  /\ \/ QueryMap(c) /\ mpc[c] = "map" /\ m = MapReply
     \/ Answer(c) /\ job[c].mt = "START" /\ m = Snapshot("START")
     \/ Answer(c) /\ job[c].mt # "START" /\ m = Header(job[c].mt)
     \/ Refuse(c) /\ m = Header("START")

LEMMA MapReplyFields ==
  /\ MapReply.mt = "MAPQUERY" /\ MapReply.view = part /\ MapReply.st = "NOT_STARTED"
  /\ MapReply.cell = Unset /\ MapReply.map = broken
BY DEF MapReply, Header

LEMMA ReplyQueues ==
  ASSUME Base, NEW c \in Client, Step(c), NEW d \in Client
  PROVE  \/ rep'[d] = rep[d]
         \/ rep'[d] = <<>>
         \/ d = c /\ \E m \in Message : RepliesWith(c, m)
<1> USE DEF Base, Typed
<1>0. TypedGame /\ TypedThreads /\ TypedWire /\ TypedClients /\ Exchange(c)
  BY DEF Exchanges
<1>1. CASE d # c
  BY <1>1, OtherQueues
<1>2. CASE d = c /\ ~Alive(c)
  <2>1. rep[c] = <<>> /\ Exchange(c)'
    BY <1>0, <1>2, ExchangesStep DEF Exchange, Exchanges
  <2>2. CASE ServerStep(c)
    <3>1. ~Alive(c)'
      BY <1>2, <2>2, ServerFrame DEF Alive
    <3> QED BY <1>2, <2>1, <3>1 DEF Exchange
  <2>3. CASE EventStep(c)
    BY <1>2, <2>3, EventCases
  <2>4. CASE MainStep(c) \/ UserStep(c)
    BY <1>2, <2>4 DEF MainStep, UserStep, GotHello, GotMap, GotStart, CopyStart, GotReply, Open,
       Exit, Connect, Start, Play, Enter, Quit, Waits, Gives, AtPrompt, Alive
  <2> QED BY <2>2, <2>3, <2>4 DEF Step
<1>3. CASE d = c /\ Alive(c)
  <2>1. CASE EventStep(c)
    <3>1. Dies(c, "crashed") => rep'[c] = <<>>
      BY <1>0 DEF Dies, TypedWire
    <3> QED BY <1>3, <2>1, <3>1, EventCases
  <2>2. CASE MainStep(c) \/ UserStep(c)
    <3>1. Taken(c) /\ rep[c] # <<>> => rep'[c] = <<>>
      BY <1>0, FewReplies DEF Taken, TypedWire
    <3>2. \A how : Dies(c, how) => rep'[c] = <<>>
      BY <1>0 DEF Dies, TypedWire
    <3>3. CASE CopyStart(c)
      <4>1. rep[c] # <<>>
        BY <1>0, <3>3, FewReplies DEF CopyStart, Exchange
      <4> QED BY <1>3, <3>1, <3>3, <4>1 DEF CopyStart
    <3>4. CASE UserStep(c)
      BY <1>3, <3>4 DEF UserStep, Connect, Start, Play, Enter, Quit
    <3>5. CASE GotHello(c) \/ GotMap(c) \/ GotStart(c) \/ GotReply(c) \/ Open(c) \/ Exit(c)
      BY <1>3, <3>1, <3>2, <3>5 DEF GotHello, GotMap, GotStart, GotReply, Open, Exit, Waits
    <3> QED BY <2>2, <3>3, <3>4, <3>5 DEF MainStep
  <2>3. ASSUME NEW m \in Message, Reply(c, m), rep[c] = <<>>
        PROVE  rep'[c] = <<m>> /\ Head(rep'[c]) = m
    BY <1>0, <1>3, <2>3, Replied
  <2>4. CASE QueryMap(c)
    <3>1. rep[c] = <<>> /\ mpc[c] = "map"
      BY <1>0, <1>3, <2>4, ReadsWhat, AwaitedIs DEF QueryMap
    <3>2. MapReply \in Message /\ Reply(c, MapReply) /\ UNCHANGED <<game, walls, evt, client>>
      BY <1>0, <2>4, MessagesTyped DEF QueryMap, MapReply
    <3>3. RepliesWith(c, MapReply)
      BY <1>3, <2>3, <2>4, <3>1, <3>2 DEF RepliesWith
    <3> QED BY <1>3, <3>2, <3>3
  <2>5. ASSUME hpc[c] \in {"answer", "refuse"} PROVE rep[c] = <<>>
    BY <1>0, <2>5, FewReplies DEF Answered, Quiet
  <2>6. CASE Answer(c)
    <3> DEFINE m == IF job[c].mt = "START" THEN Snapshot("START") ELSE Header(job[c].mt)
    <3>1. job[c].mt \in Request \cup Event
      BY <2>6 DEF Answer, Jobs, JobOf, Request
    <3>2. m \in Message /\ Reply(c, m) /\ UNCHANGED <<game, walls, evt, client>>
      BY <1>0, <2>6, <3>1, MessagesTyped DEF Answer
    <3>3. rep[c] = <<>>
      BY <2>5, <2>6 DEF Answer
    <3>4. rep'[c] = <<m>> /\ Head(rep'[c]) = m
      <4> HIDE DEF m
      <4> QED BY <2>3, <3>2, <3>3
    <3>5. RepliesWith(c, m)
      BY <1>3, <2>6, <3>2, <3>3, <3>4 DEF RepliesWith
    <3> HIDE DEF m
    <3> QED BY <1>3, <3>2, <3>5
  <2>7. CASE Refuse(c)
    <3>1. Header("START") \in Message /\ Reply(c, Header("START")) /\ rep[c] = <<>>
          /\ UNCHANGED <<game, walls, evt, client>>
      BY <1>0, <2>5, <2>7, MessagesTyped DEF Refuse, Request
    <3>2. RepliesWith(c, Header("START"))
      BY <1>3, <2>3, <2>7, <3>1 DEF RepliesWith
    <3> QED BY <1>3, <3>1, <3>2
  <2>8. CASE ReadStart(c) \/ ReadLobby(c) \/ ReadGoodbye(c) \/ Lost(c) \/ Hello(c)
    BY <1>3, <2>8 DEF ReadStart, ReadLobby, ReadGoodbye, Lost, Hello
  <2>9. CASE StartGame(c) \/ Move(c) \/ Pickup(c) \/ Change(c) \/ Break(c) \/ Win(c) \/ Unlock(c)
    BY <1>3, <2>9 DEF StartGame, Move, Pickup, Acquire, Change, Break, Win, Unlock
  <2>10. CASE Clear(c) \/ ResetCell(c) \/ PostBegin(c) \/ PostTo(c) \/ PostEnd(c) \/ Subscribe(c)
    BY <1>3, <2>10 DEF Clear, ResetCell, PostBegin, PostTo, PostEnd, Subscribe
  <2> QED BY <2>1, <2>2, <2>4, <2>6, <2>7, <2>8, <2>9, <2>10 DEF Step, ServerStep
<1> QED BY <1>1, <1>2, <1>3

----------------------------------------------------------------------------
(* What a step does to the copies *)

PostFields(mt, m) ==
  /\ m.mt = mt
  /\ mt \in {"START", "GAME_UPDATE"} =>
       m.view = part /\ m.in = InGame /\ m.st = status /\ m.cell = Unset
  /\ mt \notin {"START", "GAME_UPDATE"} => m.view = Zero /\ m.st = "NOT_STARTED"
  /\ m.cell = IF mt = "MAP_UPDATE" THEN updateCell ELSE Unset

LEMMA PostMessageFields ==
  ASSUME NEW mt \in Event
  PROVE  PostFields(mt, PostMessage(mt))
<1>1. CASE mt = "MAP_UPDATE"
  BY <1>1 DEF PostMessage, PostFields, Header
<1>2. CASE mt \in {"START", "GAME_UPDATE"}
  BY <1>2, SnapshotFields DEF PostMessage, PostFields
<1>3. CASE mt \notin {"START", "GAME_UPDATE", "MAP_UPDATE"}
  BY <1>3, HeaderFields DEF PostMessage, PostFields
<1> QED BY <1>1, <1>2, <1>3

(* The event thread of c takes the game from the first event.              *)
Adopts(c) ==
  /\ Handles(c) /\ UNCHANGED rep
  /\ view'[c] = Head(evt[c]).view /\ known'[c] = Head(evt[c]).in
  /\ cstatus'[c] = Head(evt[c]).st
  /\ \/ Head(evt[c]).mt = "START" /\ cstatus[c] # "IN_PROGRESS"
     \/ Head(evt[c]).mt = "GAME_UPDATE" /\ Head(evt[c]).st = "IN_PROGRESS"

(* The main thread of c takes the game, or the objects, from the reply.    *)
Copies(c) ==
  /\ CopyStart(c) /\ rep[c] # <<>> /\ rep'[c] = <<>> /\ evt' = evt
  /\ cstatus[c] = "NOT_STARTED"
  /\ view'[c] = Head(rep[c]).view /\ known'[c] = Head(rep[c]).in
  /\ cstatus'[c] = Head(rep[c]).st
Races(c) ==
  /\ CopyStart(c) /\ rep[c] # <<>> /\ rep'[c] = <<>> /\ evt' = evt
  /\ cstatus[c] # "NOT_STARTED" /\ astray' = astray \cup {c}
  /\ \A p \in Part : view'[c][p] \in {view[c][p], Head(rep[c]).view[p]}
  /\ cstatus'[c] \in {cstatus[c], Head(rep[c]).st}
TakesMap(c) ==
  /\ GotMap(c) /\ rep[c] # <<>> /\ rep'[c] = <<>> /\ evt' = evt
  /\ view'[c] = [view[c] EXCEPT ![Objs] = Head(rep[c]).view[Objs]]
  /\ known'[c] = known[c] /\ cstatus'[c] = cstatus[c]
  /\ cstatus[c] # "NOT_STARTED" => astray' = astray \cup {c}

LEMMA EventCopies ==
  ASSUME Base, NEW c \in Client, EventStep(c)
  PROVE  UNCHANGED <<view, known, cstatus>> \/ Ends(c) \/ Adopts(c)
<1> USE DEF Base, Typed, TypedClients
<1>0. evt[c] # <<>> /\ (Dies(c, "crashed") \/ (Handles(c) /\ UNCHANGED <<rep, req>>))
  BY EventCases
<1>1. CASE GotLobby(c) \/ GotGameOver(c)
  BY <1>1 DEF GotLobby, GotGameOver
<1>2. CASE GotMapUpdate(c)
  BY <1>2 DEF GotMapUpdate, Ends
<1>3. ASSUME NEW m, Adopt(c, m) PROVE view'[c] = m.view /\ known'[c] = m.in /\ cstatus'[c] = m.st
  BY <1>3 DEF Adopt
<1>4. CASE GotStartEvent(c)
  BY <1>0, <1>3, <1>4 DEF GotStartEvent, Receives, Adopts, Ends
<1>5. CASE GotGameUpdate(c)
  BY <1>0, <1>3, <1>5 DEF GotGameUpdate, Receives, Ignores, Adopts, Ends
<1> QED BY <1>1, <1>2, <1>4, <1>5 DEF EventStep

LEMMA MainCopies ==
  ASSUME Base, NEW c \in Client, MainStep(c)
  PROVE  \/ UNCHANGED <<view, known, cstatus>>
         \/ Ends(c) \/ Copies(c) \/ Races(c) \/ TakesMap(c)
<1> USE DEF Base, Typed
<1>0. TypedWire /\ TypedClients /\ Exchange(c)
  BY DEF Exchanges
<1>1. rep[c] # <<>> /\ Taken(c) => rep'[c] = <<>>
  BY <1>0, FewReplies DEF Taken, TypedWire
<1>2. rep[c] # <<>> => Head(rep[c]) \in Message
  BY <1>0 DEF TypedWire
<1>3. CASE Open(c) \/ Exit(c)
  BY <1>3 DEF Open, Exit, Ends
<1>4. CASE GotHello(c) \/ GotStart(c) \/ GotReply(c)
  BY <1>4 DEF GotHello, GotStart, GotReply
<1>5. CASE GotMap(c)
  <2>1. rep[c] # <<>> /\ rep'[c] = <<>>
    BY <1>1, <1>5 DEF GotMap, Waits
  <2>2. /\ view'[c] = [view[c] EXCEPT ![Objs] = Head(rep[c]).view[Objs]]
        /\ UNCHANGED <<known, cstatus, evt>>
        /\ cstatus[c] # "NOT_STARTED" => astray' = astray \cup {c}
    BY <1>0, <1>5 DEF GotMap, TypedClients
  <2> QED BY <1>5, <2>1, <2>2 DEF TakesMap
<1>6. CASE CopyStart(c)
  <2>1. rep[c] # <<>> /\ rep'[c] = <<>> /\ evt' = evt
    BY <1>0, <1>1, <1>6, FewReplies DEF CopyStart, Exchange
  <2> DEFINE m == Head(rep[c])
  <2>2. m.view \in [Part -> Nat] /\ m.in \subseteq Client
    BY <1>2, <2>1 DEF Message
  <2>3. Client \subseteq Part
    BY DEF Part
  <2>4. CASE cstatus[c] # "NOT_STARTED"
    <3>1. /\ astray' = astray \cup {c}
          /\ \E S \in SUBSET Part, st \in {m.st, cstatus[c]} :
              /\ view' = [view EXCEPT ![c] = [p \in Part |-> IF p \in S THEN m.view[p] ELSE @[p]]]
              /\ cstatus' = [cstatus EXCEPT ![c] = st]
      BY <1>6, <2>4 DEF CopyStart
    <3>2. PICK S \in SUBSET Part, st \in {m.st, cstatus[c]} :
              /\ view' = [view EXCEPT ![c] = [p \in Part |-> IF p \in S THEN m.view[p] ELSE @[p]]]
              /\ cstatus' = [cstatus EXCEPT ![c] = st]
      BY <3>1
    <3>3. cstatus'[c] \in {cstatus[c], m.st}
      BY <1>0, <3>2 DEF TypedClients
    <3>4. \A p \in Part : view'[c][p] \in {view[c][p], m.view[p]}
      BY <1>0, <3>2 DEF TypedClients
    <3> QED BY <1>6, <2>1, <2>4, <3>1, <3>3, <3>4 DEF Races
  <2>5. CASE cstatus[c] = "NOT_STARTED"
    <3>1. PICK S \in {Part}, st \in {m.st} :
            /\ view' = [view EXCEPT ![c] = [p \in Part |-> IF p \in S THEN m.view[p] ELSE @[p]]]
            /\ known' = [known EXCEPT ![c] = (m.in \cap S) \cup (@ \ S)]
            /\ cstatus' = [cstatus EXCEPT ![c] = st]
      BY <1>6, <2>5 DEF CopyStart
    <3>2. S = Part /\ st = m.st
      OBVIOUS
    <3>3. view'[c] = [p \in Part |-> m.view[p]] /\ cstatus'[c] = m.st
      BY <1>0, <3>1, <3>2 DEF TypedClients
    <3>4. view'[c] = m.view
      BY <2>2, <3>3
    <3>5. known'[c] = (m.in \cap Part) \cup (known[c] \ Part) /\ known[c] \subseteq Client
      BY <1>0, <3>1, <3>2 DEF TypedClients
    <3>6. known'[c] = m.in
      BY <2>2, <2>3, <3>5
    <3> QED BY <1>6, <2>1, <2>5, <3>3, <3>4, <3>6 DEF Copies
  <2> QED BY <2>4, <2>5
<1> QED BY <1>3, <1>4, <1>5, <1>6 DEF MainStep

LEMMA CopyCases ==
  ASSUME Base, NEW c \in Client, Step(c), NEW d \in Client
  PROVE  \/ view'[d] = view[d] /\ known'[d] = known[d] /\ cstatus'[d] = cstatus[d]
         \/ d = c /\ (Ends(c) \/ Adopts(c) \/ Copies(c) \/ Races(c) \/ TakesMap(c))
<1> USE DEF Base, Typed
<1>1. CASE d # c
  BY <1>1, OtherClients
<1>2. CASE d = c /\ ServerStep(c)
  BY <1>2, ServerFrame
<1>3. CASE d = c /\ EventStep(c)
  BY <1>3, EventCopies
<1>4. CASE d = c /\ MainStep(c)
  BY <1>4, MainCopies
<1>5. CASE d = c /\ UserStep(c)
  BY <1>5 DEF UserStep, Connect, Start, Play, Enter, Quit
<1> QED BY <1>1, <1>2, <1>3, <1>4, <1>5 DEF Step
=============================================================================
