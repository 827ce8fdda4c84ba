--------------------------- MODULE UpdatesProofs ----------------------------
(***************************************************************************)
(* What the clients are told: the walls that break and the versions of the *)
(* game reach every client, for any number of them.                        *)
(***************************************************************************)
EXTENDS FeedProofs, FiniteSetTheorems

USE DEF game, walls, thread, channel, wire, copies, client, history, server

(* Only a map update names a cell, and only a message with the game in it  *)
(* a status.                                                               *)
Sound(m) == /\ m.cell # Unset => m.mt = "MAP_UPDATE"
            /\ m.st # "NOT_STARTED" => m.mt \in {"START", "GAME_UPDATE"}
Sounds == \A c \in Client : /\ \A k \in DOMAIN rep[c] : Sound(rep[c][k])
                            /\ \A k \in DOMAIN evt[c] : Sound(evt[c][k])

(* Events are for subscribers.                                             *)
Heard == \A c \in Client : evt[c] # <<>> => Subscribed(c)

(* A client that is not slow has subscribed before its hello is served.    *)
InTime == \A c \in Client \ Slow : Alive(c) => Greets(c) \/ Subscribed(c)

(* What is built by the server and what is sent.                           *)
LEMMA PostedFields ==
  ASSUME Base
  PROVE  cast.mt \in Event /\ PostMessage(cast.mt) \in Message
         /\ PostFields(cast.mt, PostMessage(cast.mt))
<1>1. cast.mt \in Event /\ TypedGame
  BY DEF Base, Typed, TypedThreads
<1> QED BY <1>1, MessagesTyped, PostMessageFields

LEMMA RepliedFields ==
  ASSUME NEW c \in Client, NEW m, RepliesWith(c, m)
  PROVE  /\ m.cell = Unset
         /\ \/ m.st = "NOT_STARTED"
            \/ /\ Answer(c) /\ job[c].mt = "START" /\ m.mt = "START" /\ m.st = status
               /\ m.view = part
BY MapReplyFields, SnapshotFields, HeaderFields DEF RepliesWith

LEMMA SoundsStep ==
  ASSUME Base, Sounds, NEW c \in Client, Step(c)
  PROVE  Sounds'
<1>1. SUFFICES ASSUME NEW d \in Client
               PROVE  /\ \A k \in DOMAIN rep'[d] : Sound(rep'[d][k])
                      /\ \A k \in DOMAIN evt'[d] : Sound(evt'[d][k])
  BY DEF Sounds, Sound
<1>2. /\ \A k \in DOMAIN rep[d] : Sound(rep[d][k])
      /\ \A k \in DOMAIN evt[d] : Sound(evt[d][k])
      /\ evt[d] \in Seq(Message)
  BY DEF Sounds, Base, Typed, TypedWire
<1>3. \A k \in DOMAIN rep'[d] : Sound(rep'[d][k])
  <2>1. CASE rep'[d] = rep[d] \/ rep'[d] = <<>>
    BY <1>2, <2>1
  <2>2. ASSUME d = c, NEW m \in Message, RepliesWith(c, m)
        PROVE  \A k \in DOMAIN rep'[d] : Sound(rep'[d][k])
    <3>1. rep'[d] = <<m>> /\ Sound(m)
      BY <2>2, RepliedFields DEF RepliesWith, Sound
    <3> QED BY <3>1
  <2> QED BY <2>1, <2>2, ReplyQueues
<1>4. \A k \in DOMAIN evt'[d] : Sound(evt'[d][k])
  <2>1. CASE evt'[d] = evt[d]
    BY <1>2, <2>1
  <2>2. CASE Appends(c, d)
    <3>1. PICK m \in Message : evt'[d] = Append(evt[d], m) /\ Sound(m)
      BY <2>2, PostedFields DEF Appends, PostFields, Sound
    <3> QED BY <1>2, <3>1, AppendFacts
  <2>3. CASE d = c /\ Handles(c)
    BY <1>2, <2>3, TailFacts DEF Handles
  <2>4. CASE d = c /\ Ends(c)
    BY <2>4, EndsHow
  <2> QED BY <2>1, <2>2, <2>3, <2>4, EventQueues
<1> QED BY <1>3, <1>4

(* The table of subscribers only grows, and not under a broadcast.         *)
LEMMA SubsHow ==
  ASSUME TypedThreads, NEW c \in Client, Step(c)
  PROVE  subs' = subs \/ (Subscribe(c) /\ subs' = Append(subs, c))
<1>1. CASE EventStep(c) \/ MainStep(c) \/ UserStep(c)
  BY <1>1, ClientFrame
<1>2. CASE ReadStart(c) \/ ReadLobby(c) \/ ReadGoodbye(c) \/ Lost(c) \/ QueryMap(c) \/ Hello(c)
  BY <1>2 DEF ReadStart, ReadLobby, ReadGoodbye, Lost, QueryMap, Hello
<1>3. CASE StartGame(c) \/ Move(c) \/ Pickup(c) \/ Change(c) \/ Break(c) \/ Win(c) \/ Unlock(c)
  BY <1>3 DEF StartGame, Move, Pickup, Acquire, Change, Break, Win, Unlock
<1>4. CASE Answer(c) \/ Refuse(c) \/ Clear(c) \/ ResetCell(c) \/ PostBegin(c) \/ PostTo(c)
           \/ PostEnd(c)
  BY <1>4 DEF Answer, Refuse, Clear, ResetCell, PostBegin, PostTo, PostEnd
<1>5. CASE Subscribe(c)
  BY <1>5 DEF Subscribe
<1> QED BY <1>1, <1>2, <1>3, <1>4, <1>5 DEF Step, ServerStep

LEMMA SubscribedStays ==
  ASSUME TypedThreads, NEW c \in Client, Step(c), NEW d \in Client
  PROVE  /\ Subscribed(d) => Subscribed(d)'
         /\ Subscribe(c) => Subscribed(c)'
<1>1. subs \in Seq(Client)
  BY DEF TypedThreads
<1>2. subs' = Append(subs, c) => Subscribed(c)' /\ (Subscribed(d) => Subscribed(d)')
  BY <1>1, AppendFacts DEF Subscribed
<1>3. subs' = subs => (Subscribed(d) => Subscribed(d)')
  BY DEF Subscribed
<1> QED BY <1>2, <1>3, SubsHow DEF Subscribe

LEMMA HeardStep ==
  ASSUME Base, Heard, NEW c \in Client, Step(c)
  PROVE  Heard'
<1>1. SUFFICES ASSUME NEW d \in Client, evt'[d] # <<>> PROVE Subscribed(d)'
  BY DEF Heard, Subscribed
<1>2. TypedThreads /\ (evt[d] # <<>> => Subscribed(d))
  BY DEF Base, Typed, Heard
<1>3. CASE Appends(c, d)
  BY <1>2, <1>3, SubscribedStays DEF Appends, PostTo, Subscribed, TypedThreads
<1>4. CASE evt'[d] = evt[d] \/ (d = c /\ Handles(c))
  BY <1>1, <1>2, <1>4, SubscribedStays DEF Handles
<1>5. CASE d = c /\ Ends(c)
  BY <1>1, <1>5, EndsHow
<1> QED BY <1>3, <1>4, <1>5, EventQueues

(* A client is greeted once, and only then it does anything.               *)
LEMMA Comes ==
  ASSUME Base, NEW c \in Client, Step(c), NEW d \in Client
  PROVE  /\ ~Alive(d) /\ Alive(d)' => /\ d = c /\ Connect(c) /\ Greets(d)'
                                      /\ UNCHANGED <<game, walls, rep, evt, copies, cmap>>
         /\ Greets(d) /\ Alive(d)' => /\ mpc'[d] = "hello"
                                      /\ Greets(d)' \/ (d = c /\ Hello(c))
<1> USE DEF Base, Typed
<1>0. TypedThreads /\ TypedWire /\ TypedClients /\ Exchange(c)
  BY DEF Exchanges
<1>1. CASE d # c
  BY <1>0, <1>1, OtherClients, OtherQueues DEF Alive, Greets
<1>2. CASE d = c /\ ServerStep(c)
  <2>1. mpc'[c] = mpc[c]
    BY <1>2, ServerFrame
  <2>2. Greets(c) => rep[c] = <<>> /\ hpc[c] = "idle"
    BY <1>0, LengthsOfTuples DEF Exchange, Greets, Served, Answered
  <2>3. ASSUME Greets(c) PROVE req'[c] = req[c] \/ Hello(c)
    <3>1. ASSUME NEW mt, Reads(c, mt) PROVE mt = "HELLO"
      BY <1>0, <2>3, <3>1, ReadsWhat, AwaitedIs DEF Greets, Alive
    <3>2. ASSUME NEW mt, Reads(c, mt), mt # "HELLO" PROVE FALSE
      BY <3>1, <3>2
    <3>3. CASE ReadStart(c) \/ ReadLobby(c) \/ ReadGoodbye(c) \/ QueryMap(c) \/ Move(c) \/ Pickup(c)
      BY <3>2, <3>3 DEF ReadStart, ReadLobby, ReadGoodbye, QueryMap, Move, Pickup
    <3>4. CASE Lost(c) \/ Subscribe(c) \/ PostBegin(c) \/ PostTo(c) \/ PostEnd(c)
      BY <3>4 DEF Lost, Subscribe, PostBegin, PostTo, PostEnd
    <3>5. CASE StartGame(c) \/ Change(c) \/ Break(c) \/ Win(c) \/ Unlock(c) \/ Answer(c)
               \/ Refuse(c) \/ Clear(c) \/ ResetCell(c)
      BY <2>2, <2>3, <3>5 DEF StartGame, Change, Break, Win, Unlock, Answer, Refuse, Clear,
         ResetCell, Changed
    <3> QED BY <1>2, <3>3, <3>4, <3>5 DEF ServerStep
  <2> QED BY <1>2, <2>1, <2>3 DEF Alive, Greets
<1>3. CASE d = c /\ EventStep(c)
  <2>1. Alive(c) /\ (Dies(c, "crashed") \/ (Handles(c) /\ UNCHANGED req))
    BY <1>3, EventCases
  <2>2. Dies(c, "crashed") => ~Alive(c)'
    BY <1>0 DEF Dies, TypedClients, Alive
  <2> QED BY <1>3, <2>1, <2>2 DEF Handles, Greets
<1>4. CASE d = c /\ MainStep(c)
  <2>1. Alive(c)
    BY <1>4 DEF MainStep, GotHello, GotMap, GotStart, CopyStart, GotReply, Open, Exit, Waits, Alive
  <2>2. ~Greets(c)
    <3>1. ASSUME Greets(c) PROVE rep[c] = <<>>
      BY <1>0, <3>1, LengthsOfTuples DEF Exchange, Greets, Served, Answered
    <3> QED BY <1>4, <3>1 DEF MainStep, GotHello, GotMap, GotStart, CopyStart, GotReply, Open,
        Exit, Waits, Greets
  <2> QED BY <1>4, <2>1, <2>2
<1>5. CASE d = c /\ UserStep(c)
  <2>1. CASE Connect(c)
    <3>1. req[c] = <<>> /\ mpc[c] = "off"
      BY <1>0, <2>1 DEF Connect, Exchange
    <3>2. mpc'[c] = "hello" /\ req'[c] = <<"HELLO">>
      BY <1>0, <2>1, <3>1, ConcatEmpty DEF Connect, Send, TypedClients, TypedWire
    <3> QED BY <1>5, <2>1, <3>1, <3>2 DEF Connect, Greets, Alive
  <2>2. CASE Start(c) \/ Play(c) \/ Enter(c) \/ Quit(c)
    <3>1. Alive(c) /\ mpc[c] # "hello"
      BY <2>2 DEF Start, Play, Enter, Quit, Gives, AtPrompt, Alive
    <3> QED BY <1>5, <3>1 DEF Greets
  <2> QED BY <1>5, <2>1, <2>2 DEF UserStep
<1> QED BY <1>1, <1>2, <1>3, <1>4, <1>5 DEF Step

LEMMA InTimeStep ==
  ASSUME Base, InTime, NEW c \in Client, Step(c)
  PROVE  InTime'
<1>1. SUFFICES ASSUME NEW d \in Client \ Slow, Alive(d)' PROVE Greets(d)' \/ Subscribed(d)'
  BY DEF InTime, Subscribed, Alive, Greets
<1>2. TypedThreads
  BY DEF Base, Typed
<1>3. CASE ~Alive(d) \/ Greets(d)
  <2>1. Greets(d)' \/ (d = c /\ Hello(c))
    BY <1>1, <1>3, Comes
  <2>2. d = c /\ Hello(c) => Subscribed(d)
    BY <1>1 DEF Hello
  <2> QED BY <1>2, <2>1, <2>2, SubscribedStays
<1>4. CASE Subscribed(d)
  BY <1>2, <1>4, SubscribedStays
<1> QED BY <1>3, <1>4 DEF InTime

----------------------------------------------------------------------------
(* Walls *)

(* A map update that names w is on its way to c, or is still to be sent.   *)
Pending(c) ==
  \E t \in Client : hpc[t] = "mapcast" /\ (cast.by = t => Ahead(c))
Coming(c, w) == \/ \E k \in DOMAIN evt[c] : evt[c][k].cell = w
                \/ updateCell = w /\ Pending(c)

Walls == ~spoilt => \A c \in Client \ Slow, w \in broken :
  /\ HasMap(c) => w \in cmap[c] \/ Coming(c, w)
  /\ mpc[c] = "map" /\ rep[c] # <<>> => w \in Head(rep[c]).map \/ Coming(c, w)

(* A wall breaks under GameLock, and its cell is kept until the broadcast  *)
(* is over, unless it is reset.                                            *)
LEMMA WallHow ==
  ASSUME Base, NEW c \in Client, Step(c)
  PROVE  /\ spoilt => spoilt'
         /\ \/ broken' = broken /\ (updateCell' = updateCell \/ ResetCell(c))
            \/ /\ Break(c) /\ broken' = broken \cup {updateCell'} /\ updateCell' \in Wall
               /\ hpc'[c] = "mapcast" /\ cast.by # c /\ cast' = cast
               /\ \A t \in Client : hpc[t] # "mapcast"
<1> USE DEF Base, Typed
<1>1. CASE EventStep(c) \/ MainStep(c) \/ UserStep(c)
  BY <1>1, ClientFrame
<1>2. CASE ReadStart(c) \/ ReadLobby(c) \/ ReadGoodbye(c) \/ Lost(c) \/ QueryMap(c) \/ Hello(c)
  BY <1>2 DEF ReadStart, ReadLobby, ReadGoodbye, Lost, QueryMap, Hello
<1>3. CASE StartGame(c) \/ Move(c) \/ Pickup(c) \/ Change(c) \/ Win(c) \/ Unlock(c)
  <2>1. UNCHANGED walls /\ UNCHANGED spoilt
    BY <1>3 DEF StartGame, Move, Pickup, Acquire, Change, Win, Unlock
  <2> QED BY <2>1
<1>4. CASE Answer(c) \/ Refuse(c) \/ Clear(c) \/ PostBegin(c) \/ PostTo(c) \/ PostEnd(c)
           \/ Subscribe(c)
  BY <1>4 DEF Answer, Refuse, Clear, PostBegin, PostTo, PostEnd, Subscribe
<1>5. CASE ResetCell(c)
  BY <1>5 DEF ResetCell
<1>6. CASE Break(c)
  <2>1. hpc[c] = "change" /\ UNCHANGED <<spoilt, cast>>
    BY <1>6 DEF Break, Changed
  <2>2. ASSUME NEW t \in Client, hpc[t] = "mapcast" PROVE FALSE
    <3>1. lock = c /\ lock = t
      BY <2>1, <2>2 DEF Holder
    <3> QED BY <2>1, <2>2, <3>1
  <2>3. cast.by # c
    BY <2>1, NamesOK DEF Caster, TypedThreads
  <2>4. hpc'[c] = "mapcast"
    BY <1>6 DEF Break, Goto, TypedThreads
  <2>5. broken' = broken \cup {updateCell'} /\ updateCell' \in Wall
    BY <1>6 DEF Break
  <2> QED BY <1>6, <2>1, <2>2, <2>3, <2>4, <2>5
<1> QED BY <1>1, <1>2, <1>3, <1>4, <1>5, <1>6 DEF Step, ServerStep

(* Only the thread that holds a broadcast moves it on.                     *)
LEMMA CastHow ==
  ASSUME Base, NEW c \in Client, Step(c), NEW t \in Client, t # c
  PROVE  /\ cast.by = t => cast' = cast /\ subs' = subs
         /\ cast'.by = t => cast.by = t
<1> USE DEF Base, Typed
<1>1. CASE EventStep(c) \/ MainStep(c) \/ UserStep(c)
  BY <1>1, ClientFrame
<1>2. CASE ReadStart(c) \/ ReadLobby(c) \/ ReadGoodbye(c) \/ Lost(c) \/ QueryMap(c) \/ Hello(c)
  BY <1>2 DEF ReadStart, ReadLobby, ReadGoodbye, Lost, QueryMap, Hello
<1>3. CASE StartGame(c) \/ Move(c) \/ Pickup(c) \/ Change(c) \/ Break(c) \/ Win(c) \/ Unlock(c)
  BY <1>3 DEF StartGame, Move, Pickup, Acquire, Change, Break, Win, Unlock
<1>4. CASE Answer(c) \/ Refuse(c) \/ Clear(c) \/ ResetCell(c)
  BY <1>4 DEF Answer, Refuse, Clear, ResetCell
<1>5. CASE PostBegin(c) \/ Subscribe(c)
  BY <1>5, NamesOK DEF PostBegin, Subscribe
<1>6. CASE PostTo(c) \/ PostEnd(c)
  BY <1>6, NamesOK DEF PostTo, PostEnd, NoCast, TypedThreads
<1> QED BY <1>1, <1>2, <1>3, <1>4, <1>5, <1>6 DEF Step, ServerStep

(* A broadcast reaches every subscriber that is there.                     *)
LEMMA AheadKept ==
  ASSUME Base, NEW c \in Client, NEW d \in Client, PostTo(c), Ahead(d), Alive(d)
  PROVE  Ahead(d)' \/ Appends(c, d)
<1>1. PICK k \in cast.at .. Len(subs) : subs[k] = d
  BY DEF Ahead
<1>2. cast.at \in Nat /\ Len(subs) \in Nat /\ subs' = subs /\ cast'.at = cast.at + 1
  BY DEF Base, Typed, TypedThreads, PostTo
<1>3. CASE k = cast.at
  <2>1. subs[cast.at] = d
    BY <1>1, <1>3
  <2>2. evt'[d] = Append(evt[d], PostMessage(cast.mt))
    BY <2>1 DEF PostTo, Base, Typed, TypedWire
  <2> QED BY <2>1, <2>2 DEF Appends
<1>4. CASE k # cast.at
  BY <1>1, <1>2, <1>4 DEF Ahead
<1> QED BY <1>3, <1>4

LEMMA AheadAtFirst ==
  ASSUME Base, NEW c \in Client, NEW d \in Client, PostBegin(c), Subscribed(d)
  PROVE  Ahead(d)'
<1>1. PICK k \in DOMAIN subs : subs[k] = d
  BY DEF Subscribed
<1>2. DOMAIN subs = 1 .. Len(subs)
  BY DEF Base, Typed, TypedThreads
<1>3. cast'.at = 1 /\ subs' = subs
  BY DEF PostBegin
<1> QED BY <1>1, <1>2, <1>3 DEF Ahead

LEMMA PendingKept ==
  ASSUME Base, NEW c \in Client, Step(c), NEW d \in Client, Alive(d), Subscribed(d),
         NEW w \in Wall, updateCell = w, Pending(d), ~spoilt'
  PROVE  Coming(d, w)'
<1> USE DEF Base, Typed
<1>1. PICK t \in Client : hpc[t] = "mapcast" /\ (cast.by = t => Ahead(d))
  BY DEF Pending
<1>2. updateCell' = w
  <2>1. ~Break(c)
    BY <1>1 DEF Holder, Break, Changed
  <2>2. ~ResetCell(c)
    BY <1>1 DEF ResetCell
  <2> QED BY <2>1, <2>2, WallHow
<1>3. CASE t # c
  <2>1. hpc'[t] = "mapcast"
    BY <1>1, <1>3, OtherThreads
  <2>2. cast'.by = t => cast' = cast /\ subs' = subs
    BY <1>3, CastHow
  <2>3. cast'.by = t => Ahead(d)'
    BY <1>1, <2>2 DEF Ahead
  <2> QED BY <1>2, <2>1, <2>3 DEF Coming, Pending
<1>4. CASE t = c
  <2>1. CASE PostBegin(c)
    <3>1. hpc'[c] = "mapcast" /\ Ahead(d)'
      BY <1>1, <1>4, <2>1, AheadAtFirst DEF PostBegin
    <3> QED BY <1>2, <3>1 DEF Coming, Pending
  <2>2. CASE PostTo(c)
    <3>1. hpc'[c] = "mapcast" /\ Ahead(d) /\ cast.by = c
      BY <1>1, <1>4, <2>2 DEF PostTo
    <3>2. CASE Ahead(d)'
      BY <1>2, <3>1, <3>2 DEF Coming, Pending
    <3>3. CASE Appends(c, d)
      <4>1. cast.mt = "MAP_UPDATE"
        BY <1>1, <1>4, <3>1, NamesOK DEF Caster, Topic
      <4>2. PICK m \in Message : evt'[d] = Append(evt[d], m) /\ m.cell = w
        BY <3>3, <4>1, PostedFields DEF Appends, PostFields
      <4>3. evt[d] \in Seq(Message)
        BY DEF TypedWire
      <4>4. Len(evt[d]) + 1 \in DOMAIN evt'[d] /\ evt'[d][Len(evt[d]) + 1] = m
        BY <4>2, <4>3, AppendFacts
      <4> QED BY <4>2, <4>4 DEF Coming
    <3> QED BY <2>2, <3>1, <3>2, <3>3, AheadKept
  <2>3. CASE PostEnd(c)
    <3>1. Ahead(d) /\ cast.at > Len(subs)
      BY <1>1, <1>4, <2>3 DEF PostEnd
    <3> QED BY <3>1 DEF Ahead, TypedThreads
  <2>4. CASE Subscribe(c)
    <3>1. hpc'[c] = "mapcast" /\ cast'.by # c
      BY <1>1, <1>4, <2>4, NamesOK DEF Subscribe
    <3> QED BY <1>2, <3>1 DEF Coming, Pending
  <2>5. CASE EventStep(c) \/ MainStep(c) \/ UserStep(c)
    <3>1. mpc[c] # "off"
      BY <1>1, <1>4 DEF Exchanges, Exchange
    <3>2. hpc' = hpc /\ subs' = subs /\ cast' = cast
      BY <2>5, <3>1, ClientFrame
    <3>3. Pending(d)'
      BY <1>1, <3>2 DEF Pending, Ahead
    <3> QED BY <1>2, <3>3 DEF Coming
  <2>6. CASE ReadStart(c) \/ ReadLobby(c) \/ ReadGoodbye(c) \/ Lost(c) \/ QueryMap(c) \/ Hello(c)
             \/ Move(c) \/ Pickup(c)
    <3>1. hpc[c] = "idle"
      BY <2>6 DEF ReadStart, ReadLobby, ReadGoodbye, Lost, QueryMap, Hello, Move, Pickup, Reads
    <3> QED BY <1>1, <1>4, <3>1
  <2>7. CASE StartGame(c) \/ Change(c) \/ Break(c) \/ Win(c) \/ Unlock(c) \/ Answer(c)
             \/ Refuse(c) \/ Clear(c) \/ ResetCell(c)
    BY <1>1, <1>4, <2>7 DEF StartGame, Change, Changed, Break, Win, Unlock, Answer, Refuse,
       Clear, ResetCell
  <2> QED BY <2>1, <2>2, <2>3, <2>4, <2>5, <2>6, <2>7 DEF Step, ServerStep
<1> QED BY <1>3, <1>4

(* An update that names a wall is written into the map, or ends the        *)
(* client.                                                                 *)
LEMMA CellHandled ==
  ASSUME Base, Sounds, NEW c \in Client, Handles(c), NEW w \in Wall, Head(evt[c]).cell = w
  PROVE  HasMap(c) /\ cmap'[c] = cmap[c] \cup {w}
<1> USE DEF Base, Typed
<1>1. evt[c] \in Seq(Message) /\ evt[c] # <<>> /\ mpc' = mpc /\ EventStep(c)
  BY DEF Handles, TypedWire
<1>2. Head(evt[c]).mt = "MAP_UPDATE"
  <2>1. 1 \in DOMAIN evt[c] /\ Head(evt[c]) = evt[c][1]
    BY <1>1, TailFacts
  <2> QED BY <2>1, NamesOK DEF Sounds, Sound
<1>3. GotMapUpdate(c)
  BY <1>1, <1>2 DEF EventStep, GotLobby, GotGameOver, GotStartEvent, GotGameUpdate, Receives
<1>4. Alive(c)
  BY <1>3 DEF GotMapUpdate, Receives
<1>5. ~Dies(c, "crashed")
  BY <1>1, <1>4 DEF Dies, Alive, TypedClients
<1> QED BY <1>3, <1>5, NamesOK DEF GotMapUpdate, TypedClients

LEMMA ComingKept ==
  ASSUME Base, Sounds, NEW c \in Client, Step(c), NEW d \in Client, Alive(d)', Subscribed(d),
         Alive(d), NEW w \in Wall, Coming(d, w), ~spoilt'
  PROVE  \/ Coming(d, w)'
         \/ d = c /\ Handles(c) /\ HasMap(d) /\ cmap'[d] = cmap[d] \cup {w}
<1>1. CASE updateCell = w /\ Pending(d)
  BY <1>1, PendingKept
<1>2. CASE \E k \in DOMAIN evt[d] : evt[d][k].cell = w
  <2>1. PICK k \in DOMAIN evt[d] : evt[d][k].cell = w
    BY <1>2
  <2>2. evt[d] \in Seq(Message)
    BY DEF Base, Typed, TypedWire
  <2>3. CASE evt'[d] = evt[d]
    BY <2>1, <2>3 DEF Coming
  <2>4. CASE Appends(c, d)
    <3>1. PICK m \in Message : evt'[d] = Append(evt[d], m)
      BY <2>4, PostedFields DEF Appends
    <3>2. k \in DOMAIN evt'[d] /\ evt'[d][k] = evt[d][k]
      BY <2>1, <2>2, <3>1, AppendFacts
    <3> QED BY <2>1, <3>2 DEF Coming
  <2>5. CASE d = c /\ Handles(c)
    <3>1. evt[d] # <<>> /\ evt'[d] = Tail(evt[d])
      BY <2>5 DEF Handles
    <3>2. CASE k = 1
      <4>1. Head(evt[c]).cell = w
        BY <2>1, <2>2, <2>5, <3>1, <3>2, TailFacts
      <4> QED BY <2>5, <4>1, CellHandled
    <3>3. CASE k # 1
      <4>1. k - 1 \in DOMAIN evt'[d] /\ evt'[d][k - 1] = evt[d][k]
        BY <2>1, <2>2, <3>1, <3>3, TailFacts
      <4> QED BY <2>1, <4>1 DEF Coming
    <3> QED BY <3>2, <3>3
  <2>6. CASE d = c /\ Ends(c)
    BY <2>6, EndsHow
  <2> QED BY <2>3, <2>4, <2>5, <2>6, EventQueues
<1> QED BY <1>1, <1>2 DEF Coming

(* What a client does with its map.                                        *)
LEMMA MapKept ==
  ASSUME Base, NEW c \in Client, Step(c), NEW d \in Client, HasMap(d), HasMap(d)'
  PROVE  cmap[d] \subseteq cmap'[d]
<1> USE DEF Base, Typed
<1>1. CASE d # c
  BY <1>1, OtherClients
<1>2. CASE d = c /\ ServerStep(c)
  BY <1>2, ServerFrame
<1>3. ASSUME NEW how \in {"gone", "crashed"}, d = c, Dies(c, how) PROVE FALSE
  BY <1>3 DEF Dies, HasMap, Alive, TypedClients
<1>4. CASE d = c /\ EventStep(c)
  <2>1. ~Dies(c, "crashed")
    BY <1>3, <1>4
  <2> QED BY <1>4, <2>1 DEF EventStep, GotLobby, GotGameOver, GotStartEvent, GotGameUpdate,
          GotMapUpdate, TypedClients
<1>5. CASE d = c /\ MainStep(c)
  <2>1. ~Dies(c, "crashed") /\ ~Dies(c, "gone") /\ ~GotMap(c)
    BY <1>3, <1>5 DEF GotMap, Waits, HasMap
  <2> QED BY <1>5, <2>1 DEF MainStep, GotHello, GotStart, CopyStart, GotReply, Open, Exit
<1>6. CASE d = c /\ UserStep(c)
  BY <1>6 DEF UserStep, Connect, Start, Play, Enter, Quit
<1> QED BY <1>1, <1>2, <1>4, <1>5, <1>6 DEF Step

LEMMA MapComes ==
  ASSUME Base, NEW c \in Client, Step(c), NEW d \in Client, ~HasMap(d), HasMap(d)'
  PROVE  /\ d = c /\ GotMap(c) /\ mpc[c] = "map" /\ rep[c] # <<>>
         /\ cmap'[c] = Head(rep[c]).map /\ mpc'[c] # "map" /\ evt' = evt
<1> USE DEF Base, Typed
<1>1. d = c
  BY OtherClients DEF HasMap, Alive
<1>2. mpc'[c] # mpc[c] /\ mpc[c] \in {"off", "gone", "crashed", "hello", "map"}
      /\ mpc'[c] \notin {"off", "gone", "crashed", "hello", "map"}
  BY <1>1 DEF HasMap, Alive
<1>3. ~ServerStep(c)
  BY <1>2, ServerFrame
<1>4. ~EventStep(c)
  BY <1>2, EventCases DEF Handles, Dies, TypedClients
<1>5. ~UserStep(c)
  BY <1>2 DEF UserStep, Connect, Start, Play, Enter, Quit, Gives, AtPrompt, TypedClients
<1>6. CASE MainStep(c)
  <2>1. GotMap(c)
    BY <1>2, <1>6 DEF MainStep, GotHello, GotStart, CopyStart, GotReply, Open, Exit, Waits,
       TypedClients
  <2> QED BY <1>1, <1>2, <2>1 DEF GotMap, Waits, TypedClients
<1> QED BY <1>3, <1>4, <1>5, <1>6 DEF Step

LEMMA MapAsked ==
  ASSUME Base, NEW c \in Client, Step(c), NEW d \in Client, mpc'[d] = "map", rep'[d] # <<>>
  PROVE  mpc[d] = "map"
<1> USE DEF Base, Typed
<1>1. CASE d # c
  BY <1>1, OtherClients
<1>2. CASE d = c /\ ServerStep(c)
  BY <1>2, ServerFrame
<1>3. CASE d = c /\ EventStep(c)
  BY <1>3, EventCases DEF Handles, Dies, TypedClients
<1>4. CASE d = c /\ UserStep(c)
  BY <1>4 DEF UserStep, Connect, Start, Play, Enter, Quit, TypedClients
<1>5. CASE d = c /\ MainStep(c)
  <2>1. CASE GotHello(c)
    <3>1. rep[c] # <<>> /\ rep'[c] = Tail(rep[c])
      BY <2>1 DEF GotHello, Waits, Taken, TypedWire
    <3>2. rep'[c] = <<>>
      BY <3>1, FewReplies DEF Exchanges
    <3> QED BY <1>5, <3>2
  <2>2. CASE GotMap(c) \/ GotStart(c) \/ CopyStart(c) \/ GotReply(c) \/ Open(c) \/ Exit(c)
    BY <1>5, <2>2 DEF GotMap, GotStart, CopyStart, GotReply, Open, Exit, Dies, Done, TypedClients
  <2> QED BY <1>5, <2>1, <2>2 DEF MainStep
<1> QED BY <1>1, <1>2, <1>3, <1>4, <1>5 DEF Step

LEMMA WallsStep ==
  ASSUME Base, Sounds, InTime, Walls, NEW c \in Client, Step(c)
  PROVE  Walls'
<1>1. SUFFICES ASSUME ~spoilt', NEW d \in Client \ Slow, NEW w \in broken'
               PROVE  /\ HasMap(d)' => w \in cmap'[d] \/ Coming(d, w)'
                      /\ mpc'[d] = "map" /\ rep'[d] # <<>> =>
                           w \in Head(rep'[d]).map \/ Coming(d, w)'
  BY DEF Walls
<1>2. /\ ~spoilt /\ Typed /\ Exchange(d) /\ Exchange(d)' /\ broken \subseteq Wall /\ broken' \subseteq Wall
  <2>1. Base'
    BY BaseStep DEF Next, Program, Step
  <2> QED BY <1>1, <2>1, WallHow DEF Base, Exchanges, Typed, TypedGame
<1>3. CASE w \notin broken
  <2>1. /\ updateCell' = w /\ hpc'[c] = "mapcast" /\ cast'.by # c
    BY <1>1, <1>3, WallHow
  <2>2. Coming(d, w)'
    BY <2>1 DEF Coming, Pending
  <2> QED BY <2>2
<1>4. CASE w \in broken
  <2>1. /\ HasMap(d) => w \in cmap[d] \/ Coming(d, w)
        /\ mpc[d] = "map" /\ rep[d] # <<>> => w \in Head(rep[d]).map \/ Coming(d, w)
    BY <1>1, <1>2, <1>4 DEF Walls
  <2>2. Alive(d) /\ mpc[d] # "hello" => Subscribed(d)
    BY <1>1 DEF InTime, Greets
  <2>3. ASSUME Alive(d)', Alive(d), mpc[d] # "hello", Coming(d, w)
        PROVE  \/ Coming(d, w)'
               \/ d = c /\ Handles(c) /\ HasMap(d) /\ cmap'[d] = cmap[d] \cup {w}
    BY <1>1, <1>2, <2>2, <2>3, ComingKept
  <2>4. ASSUME HasMap(d)' PROVE w \in cmap'[d] \/ Coming(d, w)'
    <3>1. Alive(d)'
      BY <2>4 DEF HasMap
    <3>2. CASE HasMap(d)
      <4>1. cmap[d] \subseteq cmap'[d]
        BY <1>2, <2>4, <3>2, MapKept
      <4>2. Alive(d) /\ mpc[d] # "hello"
        BY <3>2 DEF HasMap
      <4> QED BY <2>1, <2>3, <3>1, <3>2, <4>1, <4>2
    <3>3. CASE ~HasMap(d)
      <4>1. /\ d = c /\ GotMap(c) /\ mpc[c] = "map" /\ rep[c] # <<>>
            /\ cmap'[c] = Head(rep[c]).map /\ mpc'[c] # "map" /\ evt' = evt
        BY <1>2, <2>4, <3>3, MapComes
      <4>2. Alive(d) /\ ~HasMap(d)
        BY <4>1 DEF Alive, HasMap
      <4> QED BY <2>1, <2>3, <3>1, <4>1, <4>2
    <3> QED BY <3>2, <3>3
  <2>5. ASSUME mpc'[d] = "map", rep'[d] # <<>>
        PROVE  w \in Head(rep'[d]).map \/ Coming(d, w)'
    <3>1. mpc[d] = "map" /\ Alive(d) /\ Alive(d)'
      BY <1>2, <2>5, MapAsked DEF Alive
    <3>2. ~HasMap(d)
      BY <3>1 DEF HasMap
    <3>3. CASE rep'[d] = rep[d]
      BY <2>1, <2>3, <2>5, <3>1, <3>2, <3>3
    <3>4. ASSUME NEW m \in Message, d = c, RepliesWith(c, m)
          PROVE  w \in Head(rep'[d]).map
      <4>1. hpc[c] \notin {"answer", "refuse"}
        BY <1>2, <3>1, <3>4 DEF Exchange, Asked, Answered, Quiet
      <4>2. m = MapReply
        BY <4>1, <3>4 DEF RepliesWith, Answer, Refuse
      <4> QED BY <1>4, <3>4, <4>2, MapReplyFields DEF RepliesWith
    <3> QED BY <2>5, <3>3, <3>4, ReplyQueues
  <2> QED BY <2>4, <2>5
<1> QED BY <1>3, <1>4

LEMMA BrokenReachMaps ==
  ASSUME Walls
  PROVE  MapFollows
BY DEF Walls, MapFollows, Coming, Pending, WillShow

LEMMA SoundsInit == Init => Sounds /\ Heard /\ InTime /\ Walls
BY DEF Init, Sounds, Heard, InTime, Walls, Alive

(* What the map needs.                                                     *)
Mapped == Base /\ Sounds /\ InTime /\ Walls

LEMMA MappedStep ==
  ASSUME Mapped, [Next]_vars
  PROVE  Mapped'
<1>1. CASE UNCHANGED vars
  <2>1. Base'
    BY BaseStep DEF Mapped
  <2>2. Sounds' /\ InTime' /\ Walls'
    BY <1>1 DEF Mapped, vars, Sounds, Sound, InTime, Subscribed, Alive, Greets, Walls, Coming,
       Pending, Ahead, HasMap
  <2> QED BY <2>1, <2>2 DEF Mapped
<1>2. CASE \E c \in Client : Step(c)
  BY <1>2, BaseStep, SoundsStep, InTimeStep, WallsStep DEF Mapped
<1> QED BY <1>1, <1>2, NextCases

(* Whenever a client that subscribed in time has asked for the map, every  *)
(* wall that is broken is broken on its map, or a message that says so is  *)
(* under way to it or about to be sent; unless a pickup has reset          *)
(* updateCell under the broadcast of a wall.                               *)
THEOREM WallsReachMaps == Spec => []MapFollows
<1>1. Init => Mapped
  BY BaseInit, SoundsInit DEF Mapped
<1>2. Mapped /\ [Next]_vars => Mapped'
  BY MappedStep
<1>3. Mapped => MapFollows
  BY BrokenReachMaps DEF Mapped
<1> QED BY <1>1, <1>2, <1>3, PTL DEF Spec

----------------------------------------------------------------------------
(* Versions: who is in the game, and who knows of it *)

(* Nothing is left of a client that is gone, or not yet there.             *)
Silent == \A c \in Client : ~Alive(c) =>
  evt[c] = <<>> /\ known[c] = {} /\ cstatus[c] = "NOT_STARTED"

(* A client has a player from its hello to its goodbye.                    *)
Seated == \A c \in Client :
  Alive(c) /\ team[c] = 0 => Greets(c) \/ (mpc[c] = "leaving" /\ req[c] = <<>>)

(* Before it has subscribed a client only knows of a game that it has just *)
(* started itself, or it has gone astray.                                  *)
Knows(c) == \/ cstatus[c] # "NOT_STARTED"
            \/ rep[c] # <<>> /\ Head(rep[c]).st # "NOT_STARTED"
Told == \A c \in Client \ astray :
  ~Subscribed(c) /\ Alive(c) /\ Knows(c) =>
    hpc[c] = "post" /\ job[c].mt = "START" /\ cast.by # c

(* Before the game has started nobody knows of one.                        *)
Unstarted == status = "NOT_STARTED" =>
  \A c \in Client : /\ cstatus[c] = "NOT_STARTED"
                    /\ \A k \in DOMAIN rep[c] : rep[c][k].st = "NOT_STARTED"
                    /\ \A k \in DOMAIN evt[c] : evt[c][k].st = "NOT_STARTED"
StartsOnce == ~again => \A c \in Client :
  hpc[c] = "change" /\ job[c].mt = "START" => status = "NOT_STARTED"

LEMMA DiesOnly ==
  ASSUME Base, NEW c \in Client, Step(c), NEW d \in Client, ~(d = c /\ Ends(c)), Alive(d)
  PROVE  Alive(d)'
<1> USE DEF Base, Typed
<1>1. CASE d # c
  BY <1>1, OtherClients DEF Alive
<1>2. CASE d = c /\ ServerStep(c)
  BY <1>2, ServerFrame DEF Alive
<1>3. CASE d = c /\ EventStep(c)
  BY <1>3, EventCases DEF Handles, Ends, Alive
<1>4. CASE d = c /\ UserStep(c)
  BY <1>4 DEF UserStep, Connect, Start, Play, Enter, Quit, Alive, TypedClients
<1>5. CASE d = c /\ MainStep(c)
  <2>1. CASE Open(c) \/ Exit(c)
    <3>1. ~Dies(c, "crashed") /\ ~Dies(c, "gone")
      BY <1>5 DEF Ends
    <3> QED BY <1>5, <2>1, <3>1 DEF Open, Exit, Alive, TypedClients
  <2>2. CASE GotHello(c) \/ GotMap(c) \/ GotStart(c) \/ CopyStart(c) \/ GotReply(c)
    BY <1>5, <2>2 DEF GotHello, GotMap, GotStart, CopyStart, GotReply, Done, Alive, TypedClients
  <2> QED BY <1>5, <2>1, <2>2 DEF MainStep
<1> QED BY <1>1, <1>2, <1>3, <1>4, <1>5 DEF Step

(* What a server step does to the game.                                    *)
LEMMA StatusHow ==
  ASSUME Base, NEW c \in Client, Step(c)
  PROVE  /\ again => again'
         /\ \/ status' = status
            \/ /\ hpc[c] = "change" /\ lock = c /\ status' \in {"WON", "IN_PROGRESS"}
               /\ status' = "IN_PROGRESS" => job[c].mt = "START" /\ hpc'[c] = "answer"
               /\ status' = "WON" => job[c].mt # "START"
               /\ UNCHANGED <<part, wire, client, history>>
<1> USE DEF Base, Typed
<1>1. CASE EventStep(c) \/ MainStep(c) \/ UserStep(c)
  BY <1>1, ClientFrame
<1>2. CASE ReadStart(c) \/ ReadLobby(c) \/ ReadGoodbye(c) \/ Lost(c) \/ QueryMap(c) \/ Hello(c)
  BY <1>2 DEF ReadStart, ReadLobby, ReadGoodbye, Lost, QueryMap, Hello
<1>3. CASE StartGame(c) \/ Move(c) \/ Pickup(c) \/ Change(c) \/ Break(c)
  <2>1. UNCHANGED status
    BY <1>3 DEF StartGame, Move, Pickup, Acquire, Change, Break
  <2>2. StartGame(c) => (again' = (again \/ status # "NOT_STARTED"))
    BY DEF StartGame
  <2>3. Move(c) \/ Pickup(c) \/ Change(c) \/ Break(c) => UNCHANGED again
    BY DEF Move, Pickup, Change, Break
  <2>4. again => again'
    BY <1>3, <2>2, <2>3, Zenon
  <2> QED BY <2>1, <2>4
<1>4. CASE Answer(c) \/ Refuse(c) \/ Clear(c) \/ ResetCell(c) \/ PostBegin(c) \/ PostTo(c)
           \/ PostEnd(c) \/ Subscribe(c)
  BY <1>4 DEF Answer, Refuse, Clear, ResetCell, PostBegin, PostTo, PostEnd, Subscribe
<1>5. CASE Win(c)
  <2>1. hpc[c] = "change" /\ job[c].wins /\ status' = "WON"
        /\ UNCHANGED <<part, wire, client, history>>
    BY <1>5 DEF Win, Changed
  <2>2. lock = c /\ job[c].mt # "START"
    BY <2>1 DEF Holder, Jobs, JobOf
  <2> QED BY <2>1, <2>2
<1>6. CASE Unlock(c)
  <2>1. hpc[c] = "change" /\ hpc'[c] = "answer" /\ UNCHANGED <<part, wire, client, history>>
        /\ (status' = status \/ (status' = "IN_PROGRESS" /\ job[c].mt = "START"))
    BY <1>6 DEF Unlock, Changed, Goto, TypedThreads
  <2>2. lock = c
    BY <2>1 DEF Holder
  <2> QED BY <2>1, <2>2
<1> QED BY <1>1, <1>2, <1>3, <1>4, <1>5, <1>6 DEF Step, ServerStep

LEMMA SilentStep ==
  ASSUME Base, Silent, NEW c \in Client, Step(c)
  PROVE  Silent'
<1>1. SUFFICES ASSUME NEW d \in Client, ~Alive(d)'
               PROVE  evt'[d] = <<>> /\ known'[d] = {} /\ cstatus'[d] = "NOT_STARTED"
  BY DEF Silent, Alive
<1>2. CASE d = c /\ Ends(c)
  BY <1>2, EndsHow
<1>3. CASE ~(d = c /\ Ends(c))
  <2>1. ~Alive(d)
    BY <1>1, <1>3, DiesOnly
  <2>2. evt[d] = <<>> /\ known[d] = {} /\ cstatus[d] = "NOT_STARTED"
    BY <2>1 DEF Silent
  <2>3. evt'[d] = evt[d]
    BY <1>3, <2>1, <2>2, EventQueues DEF Appends, Handles
  <2>4. known'[d] = known[d] /\ cstatus'[d] = cstatus[d]
    <3>1. ~(d = c /\ (Copies(c) \/ Races(c) \/ TakesMap(c) \/ Adopts(c)))
      BY <2>1, <2>2 DEF Copies, Races, TakesMap, CopyStart, GotMap, Waits, Alive, Adopts, Handles
    <3> QED BY <1>3, <3>1, CopyCases
  <2> QED BY <2>2, <2>3, <2>4
<1> QED BY <1>2, <1>3

(* Somebody sits down at his hello and gets up at his goodbye.             *)
LEMMA TeamHow ==
  ASSUME Base, NEW c \in Client, Step(c), NEW d \in Client
  PROVE  \/ team'[d] = team[d]
         \/ d = c /\ Hello(c) /\ team'[c] # 0
         \/ d = c /\ Clear(c) /\ hpc[c] = "clear" /\ UNCHANGED <<mpc, req>>
<1> USE DEF Base, Typed
<1>1. CASE d # c
  BY <1>1, OtherThreads
<1>2. CASE EventStep(c) \/ MainStep(c) \/ UserStep(c)
  BY <1>2, ClientFrame
<1>3. CASE ReadStart(c) \/ ReadLobby(c) \/ ReadGoodbye(c) \/ Lost(c) \/ QueryMap(c)
  BY <1>3 DEF ReadStart, ReadLobby, ReadGoodbye, Lost, QueryMap
<1>4. CASE StartGame(c) \/ Move(c) \/ Pickup(c) \/ Change(c) \/ Break(c) \/ Win(c) \/ Unlock(c)
  <2>1. UNCHANGED team
    BY <1>4 DEF StartGame, Move, Pickup, Acquire, Change, Break, Win, Unlock
  <2> QED BY <2>1
<1>5. CASE Answer(c) \/ Refuse(c) \/ ResetCell(c) \/ PostBegin(c) \/ PostTo(c) \/ PostEnd(c)
           \/ Subscribe(c)
  BY <1>5 DEF Answer, Refuse, ResetCell, PostBegin, PostTo, PostEnd, Subscribe
<1>6. CASE d = c /\ Hello(c)
  BY <1>6 DEF Hello, TypedGame
<1>7. CASE d = c /\ Clear(c)
  BY <1>7 DEF Clear
<1> QED BY <1>1, <1>2, <1>3, <1>4, <1>5, <1>6, <1>7 DEF Step, ServerStep

(* A client that has said goodbye waits for the end.                       *)
LEMMA LeavingStays ==
  ASSUME Base, NEW c \in Client, Step(c), NEW d \in Client, mpc[d] = "leaving", req[d] = <<>>,
         Alive(d)'
  PROVE  mpc'[d] = "leaving" /\ req'[d] = <<>>
<1> USE DEF Base, Typed
<1>1. CASE d # c
  BY <1>1, OtherClients, OtherQueues
<1>2. CASE d = c /\ ServerStep(c)
  <2>1. mpc'[c] = "leaving"
    BY <1>2, ServerFrame
  <2>2. \A mt : ~Reads(c, mt)
    BY <1>2 DEF Reads
  <2>3. req' = req
    <3>1. CASE Lost(c) \/ Subscribe(c) \/ PostBegin(c) \/ PostTo(c) \/ PostEnd(c) \/ Hello(c)
      BY <2>2, <3>1 DEF Lost, Subscribe, PostBegin, PostTo, PostEnd, Hello
    <3>2. CASE StartGame(c) \/ Change(c) \/ Break(c) \/ Win(c) \/ Unlock(c) \/ Answer(c)
               \/ Refuse(c) \/ Clear(c) \/ ResetCell(c)
      BY <3>2 DEF StartGame, Acquire, Change, Break, Win, Unlock, Answer, Refuse, Clear, ResetCell
    <3>3. CASE ReadStart(c) \/ ReadLobby(c) \/ ReadGoodbye(c) \/ QueryMap(c) \/ Move(c) \/ Pickup(c)
      BY <2>2, <3>3 DEF ReadStart, ReadLobby, ReadGoodbye, QueryMap, Move, Pickup
    <3> QED BY <1>2, <3>1, <3>2, <3>3 DEF ServerStep
  <2> QED BY <1>2, <2>1, <2>3
<1>3. CASE d = c /\ EventStep(c)
  BY <1>3, EventCases DEF Handles, Dies, TypedClients, Alive
<1>4. CASE d = c /\ MainStep(c)
  BY <1>4 DEF MainStep, GotHello, GotMap, GotStart, CopyStart, GotReply, Open, Exit, Waits,
     Dies, TypedClients, Alive
<1>5. CASE d = c /\ UserStep(c)
  BY <1>5 DEF UserStep, Connect, Start, Play, Enter, Quit, Gives, AtPrompt
<1> QED BY <1>1, <1>2, <1>3, <1>4, <1>5 DEF Step

LEMMA SeatedStep ==
  ASSUME Base, Seated, NEW c \in Client, Step(c)
  PROVE  Seated'
<1>1. SUFFICES ASSUME NEW d \in Client, Alive(d)', team'[d] = 0
               PROVE  Greets(d)' \/ (mpc'[d] = "leaving" /\ req'[d] = <<>>)
  BY DEF Seated, Alive, Greets
<1>2. CASE ~Alive(d)
  BY <1>1, <1>2, Comes
<1>3. CASE Greets(d)
  <2>1. Hello(c) /\ d = c => team'[d] # 0
    BY DEF Hello, Base, Typed, TypedGame
  <2> QED BY <1>1, <1>3, <2>1, Comes
<1>4. CASE Alive(d) /\ ~Greets(d) /\ team[d] = 0
  <2>1. mpc[d] = "leaving" /\ req[d] = <<>>
    BY <1>4 DEF Seated
  <2> QED BY <1>1, <2>1, LeavingStays
<1>5. CASE Alive(d) /\ ~Greets(d) /\ team[d] # 0
  <2>1. d = c /\ hpc[c] = "clear" /\ UNCHANGED <<mpc, req>>
    BY <1>1, <1>5, TeamHow
  <2>2. mpc[c] = "leaving" /\ req[c] = <<>>
    BY <1>5, <2>1 DEF Base, Exchanges, Exchange, Asked, Served, Answered, Parts, Quiet, Alive,
       Typed, TypedClients
  <2> QED BY <2>1, <2>2
<1> QED BY <1>2, <1>3, <1>4, <1>5

LEMMA UnstartedStep ==
  ASSUME Base, Unstarted, NEW c \in Client, Step(c)
  PROVE  Unstarted'
<1>1. SUFFICES ASSUME status' = "NOT_STARTED", NEW d \in Client
               PROVE  /\ cstatus'[d] = "NOT_STARTED"
                      /\ \A k \in DOMAIN rep'[d] : rep'[d][k].st = "NOT_STARTED"
                      /\ \A k \in DOMAIN evt'[d] : evt'[d][k].st = "NOT_STARTED"
  BY DEF Unstarted
<1>2. status = "NOT_STARTED"
  BY <1>1, StatusHow
<1>3. /\ cstatus[d] = "NOT_STARTED"
      /\ \A k \in DOMAIN rep[d] : rep[d][k].st = "NOT_STARTED"
      /\ \A k \in DOMAIN evt[d] : evt[d][k].st = "NOT_STARTED"
      /\ evt[d] \in Seq(Message) /\ rep[d] \in Seq(Message)
  BY <1>2 DEF Unstarted, Base, Typed, TypedWire
<1>4. cstatus'[d] = "NOT_STARTED"
  <2>1. evt[d] # <<>> => Head(evt[d]).st = "NOT_STARTED"
    BY <1>3
  <2>2. rep[d] # <<>> => Head(rep[d]).st = "NOT_STARTED"
    BY <1>3
  <2> QED BY <1>3, <2>1, <2>2, CopyCases, EndsHow DEF Adopts, Copies, Races, TakesMap, Handles
<1>5. \A k \in DOMAIN rep'[d] : rep'[d][k].st = "NOT_STARTED"
  <2>1. CASE rep'[d] = rep[d] \/ rep'[d] = <<>>
    BY <1>3, <2>1
  <2>2. ASSUME d = c, NEW m \in Message, RepliesWith(c, m)
        PROVE  \A k \in DOMAIN rep'[d] : rep'[d][k].st = "NOT_STARTED"
    <3>1. rep'[d] = <<m>> /\ m.st = "NOT_STARTED"
      BY <1>2, <2>2, RepliedFields DEF RepliesWith
    <3> QED BY <3>1
  <2> QED BY <2>1, <2>2, ReplyQueues
<1>6. \A k \in DOMAIN evt'[d] : evt'[d][k].st = "NOT_STARTED"
  <2>1. CASE evt'[d] = evt[d]
    BY <1>3, <2>1
  <2>2. CASE Appends(c, d)
    <3>1. PICK m \in Message : evt'[d] = Append(evt[d], m) /\ m.st = "NOT_STARTED"
      BY <1>2, <2>2, PostedFields DEF Appends, PostFields
    <3> QED BY <1>3, <3>1, AppendFacts
  <2>3. CASE d = c /\ Handles(c)
    BY <1>3, <2>3, TailFacts DEF Handles
  <2>4. CASE d = c /\ Ends(c)
    BY <2>4, EndsHow
  <2> QED BY <2>1, <2>2, <2>3, <2>4, EventQueues
<1> QED BY <1>4, <1>5, <1>6

LEMMA StartsHow ==
  ASSUME Base, NEW c \in Client, Step(c), hpc'[c] = "change", job'[c].mt = "START"
  PROVE  (hpc[c] = "change" /\ job[c].mt = "START") \/ StartGame(c)
<1> USE DEF Base, Typed
<1>0. TypedThreads /\ JobOf(c)
  BY DEF Jobs
<1>1. CASE EventStep(c) \/ MainStep(c) \/ UserStep(c)
  BY <1>0, <1>1, ClientFrame DEF TypedThreads
<1>2. CASE ReadStart(c) \/ ReadLobby(c) \/ ReadGoodbye(c) \/ Lost(c) \/ QueryMap(c) \/ Hello(c)
  BY <1>0, <1>2 DEF ReadStart, ReadLobby, ReadGoodbye, Lost, QueryMap, Hello, Goto, Reads,
     TypedThreads
<1>3. CASE Move(c)
  <2>1. job'[c].mt = "MOVE"
    BY <1>0, <1>3 DEF Move, Does, Work, TypedThreads
  <2> QED BY <2>1
<1>4. CASE Pickup(c)
  <2>1. job'[c].mt = "PICKUP"
    BY <1>0, <1>4 DEF Pickup, Does, Work, TypedThreads
  <2> QED BY <2>1
<1>5. CASE Change(c)
  BY <1>0, <1>5 DEF Change, TypedThreads
<1>6. CASE Break(c) \/ Win(c) \/ Unlock(c)
  BY <1>0, <1>6 DEF Break, Win, Unlock, Goto, TypedThreads
<1>7. CASE Answer(c) \/ Refuse(c) \/ Clear(c) \/ ResetCell(c)
  BY <1>0, <1>7 DEF Answer, Refuse, Clear, ResetCell, Goto, TypedThreads
<1>8. CASE PostBegin(c) \/ PostTo(c) \/ Subscribe(c)
  BY <1>0, <1>8 DEF PostBegin, PostTo, Subscribe
<1>9. CASE PostEnd(c)
  <2>1. hpc[c] \in {"mapcast", "overcast"}
    BY <1>0, <1>9, NamesOK DEF PostEnd, AfterPost, Goto, TypedThreads, Caster
  <2>2. job'[c].mt \in {"MOVE", "PICKUP"}
    BY <1>0, <1>9, <2>1 DEF PostEnd, JobOf, TypedThreads
  <2> QED BY <2>2
<1> QED BY <1>1, <1>2, <1>3, <1>4, <1>5, <1>6, <1>7, <1>8, <1>9 DEF Step, ServerStep

LEMMA StartsOnceStep ==
  ASSUME Base, StartsOnce, NEW c \in Client, Step(c)
  PROVE  StartsOnce'
<1>1. SUFFICES ASSUME ~again', NEW d \in Client, hpc'[d] = "change", job'[d].mt = "START"
               PROVE  status' = "NOT_STARTED"
  BY DEF StartsOnce
<1>2. ~again
  BY <1>1, StatusHow
<1>3. TypedThreads /\ TypedGame /\ Holder
  BY DEF Base, Typed
<1>4. CASE hpc[d] = "change" /\ job[d].mt = "START"
  <2>1. status = "NOT_STARTED" /\ lock = d
    BY <1>2, <1>3, <1>4 DEF StartsOnce, Holder
  <2>2. CASE status' # status
    <3>1. c = d
      BY <2>1, <2>2, StatusHow
    <3> QED BY <1>1, <1>4, <2>2, <3>1, StatusHow
  <2> QED BY <2>1, <2>2
<1>5. CASE ~(hpc[d] = "change" /\ job[d].mt = "START")
  <2>1. d = c
    BY <1>1, <1>3, <1>5, OtherThreads
  <2>2. StartGame(c)
    BY <1>1, <1>5, <2>1, StartsHow
  <2>3. status' = status
    BY <2>2 DEF StartGame, Acquire
  <2>4. again' = (again \/ status # "NOT_STARTED")
    BY <2>2 DEF StartGame
  <2>5. status = "NOT_STARTED"
    BY <1>1, <2>4, Zenon
  <2> QED BY <2>3, <2>5
<1> QED BY <1>4, <1>5

LEMMA AstrayGrows ==
  ASSUME NEW c \in Client, Step(c)
  PROVE  astray \subseteq astray'
<1>1. CASE EventStep(c)
  BY <1>1 DEF EventStep, GotLobby, GotGameOver, GotStartEvent, GotGameUpdate, GotMapUpdate, Dies
<1>2. CASE UserStep(c)
  BY <1>2 DEF UserStep, Connect, Start, Play, Enter, Quit
<1>3. CASE MainStep(c)
  BY <1>3 DEF MainStep, GotHello, GotMap, GotStart, CopyStart, GotReply, Open, Exit, Dies
<1>4. CASE ReadStart(c) \/ ReadLobby(c) \/ ReadGoodbye(c) \/ Lost(c) \/ QueryMap(c) \/ Hello(c)
  BY <1>4 DEF ReadStart, ReadLobby, ReadGoodbye, Lost, QueryMap, Hello
<1>5. CASE StartGame(c) \/ Move(c) \/ Pickup(c) \/ Change(c) \/ Break(c) \/ Win(c) \/ Unlock(c)
  BY <1>5 DEF StartGame, Move, Pickup, Change, Break, Win, Unlock
<1>6. CASE Answer(c) \/ Refuse(c) \/ Clear(c) \/ ResetCell(c) \/ PostBegin(c) \/ PostTo(c)
           \/ PostEnd(c) \/ Subscribe(c)
  BY <1>6 DEF Answer, Refuse, Clear, ResetCell, PostBegin, PostTo, PostEnd, Subscribe
<1> QED BY <1>1, <1>2, <1>3, <1>4, <1>5, <1>6 DEF Step, ServerStep

(* A client at its hello, or past its goodbye, has not started a game.     *)
LEMMA NoneStarted ==
  ASSUME Base, NEW c \in Client, Alive(c), Greets(c) \/ (mpc[c] = "leaving" /\ req[c] = <<>>)
  PROVE  ~(hpc[c] = "post" /\ job[c].mt = "START")
<1>1. Exchange(c)
  BY DEF Base, Exchanges
<1>2. CASE Greets(c)
  BY <1>1, <1>2, LengthsOfTuples DEF Exchange, Greets, Served, Answered
<1>3. CASE mpc[c] = "leaving" /\ req[c] = <<>>
  BY <1>1, <1>3, LengthsOfTuples DEF Exchange, Asked, Parts
<1> QED BY <1>2, <1>3

LEMMA StarterPosts ==
  ASSUME Base, Seated, NEW c \in Client, Step(c), NEW d \in Client, Alive(d),
         d \notin astray', ~Subscribed(d), ~Subscribed(d)',
         hpc[d] = "post", job[d].mt = "START", cast.by # d
  PROVE  hpc'[d] = "post" /\ job'[d].mt = "START" /\ cast'.by # d
<1> USE DEF Base, Typed
<1>1. CASE d # c
  BY <1>1, OtherThreads, CastHow
<1>2. CASE d = c /\ (EventStep(c) \/ MainStep(c) \/ UserStep(c))
  <2>1. mpc[c] # "off"
    BY <1>2 DEF Alive
  <2> QED BY <1>2, <2>1, ClientFrame
<1>3. CASE d = c /\ PostBegin(c)
  <2>1. team[d] # 0
    BY NoneStarted DEF Seated
  <2>2. d \in astray'
    BY <1>3, <2>1 DEF PostBegin, InGame
  <2> QED BY <2>2
<1>4. CASE d = c /\ Subscribe(c)
  BY <1>4, SubscribedStays
<1>5. CASE d = c /\ (PostTo(c) \/ PostEnd(c))
  BY <1>5 DEF PostTo, PostEnd
<1>6. CASE d = c /\ (ReadStart(c) \/ ReadLobby(c) \/ ReadGoodbye(c) \/ Lost(c) \/ QueryMap(c)
                     \/ Hello(c) \/ Move(c) \/ Pickup(c))
  <2>1. hpc[c] = "idle"
    BY <1>6 DEF ReadStart, ReadLobby, ReadGoodbye, Lost, QueryMap, Hello, Move, Pickup, Reads
  <2> QED BY <1>6, <2>1
<1>7. CASE d = c /\ (StartGame(c) \/ Change(c) \/ Break(c) \/ Win(c) \/ Unlock(c) \/ Answer(c)
                     \/ Refuse(c) \/ Clear(c) \/ ResetCell(c))
  BY <1>7 DEF StartGame, Change, Changed, Break, Win, Unlock, Answer, Refuse, Clear, ResetCell
<1> QED BY <1>1, <1>2, <1>3, <1>4, <1>5, <1>6, <1>7 DEF Step, ServerStep

LEMMA ToldStep ==
  ASSUME Base, Heard, Silent, Seated, Told, NEW c \in Client, Step(c)
  PROVE  Told'
<1>1. SUFFICES ASSUME NEW d \in Client \ astray', ~Subscribed(d)', Alive(d)', Knows(d)'
               PROVE  hpc'[d] = "post" /\ job'[d].mt = "START" /\ cast'.by # d
  BY DEF Told, Alive, Subscribed, Knows
<1>2. d \notin astray /\ ~Subscribed(d) /\ evt[d] = <<>>
  <2>1. d \notin astray
    BY <1>1, AstrayGrows
  <2>2. ~Subscribed(d)
    BY <1>1, SubscribedStays DEF Base, Typed
  <2> QED BY <2>1, <2>2 DEF Heard
<1>3. CASE ~Alive(d)
  <2>1. rep'[d] = rep[d] /\ cstatus'[d] = cstatus[d]
    BY <1>1, <1>3, Comes
  <2>2. rep[d] = <<>> /\ cstatus[d] = "NOT_STARTED"
    BY <1>3 DEF Silent, Base, Exchanges, Exchange
  <2> QED BY <1>1, <2>1, <2>2 DEF Knows
<1>4. CASE Alive(d) /\ Knows(d)
  <2>1. hpc[d] = "post" /\ job[d].mt = "START" /\ cast.by # d
    BY <1>1, <1>2, <1>4 DEF Told
  <2> QED BY <1>1, <1>2, <1>4, <2>1, StarterPosts
<1>5. CASE Alive(d) /\ ~Knows(d)
  <2>1. cstatus'[d] = "NOT_STARTED"
    <3>1. ~(d = c /\ (Ends(c) \/ Adopts(c)))
      BY <1>1, <1>2, EndsHow DEF Adopts, Handles
    <3> QED BY <1>5, <3>1, CopyCases DEF Copies, Races, TakesMap, Knows
  <2>2. rep'[d] # <<>> /\ Head(rep'[d]).st # "NOT_STARTED"
    BY <1>1, <2>1 DEF Knows
  <2>3. PICK m \in Message : d = c /\ RepliesWith(c, m)
    BY <1>5, <2>2, ReplyQueues DEF Knows
  <2>4. Answer(c) /\ job[c].mt = "START"
    BY <2>2, <2>3, RepliedFields DEF RepliesWith
  <2>5. hpc[c] = "answer" /\ hpc'[c] = "post" /\ job' = job /\ cast' = cast
    BY <2>4 DEF Answer, Goto, Base, Typed, TypedThreads
  <2>6. cast.by # c
    BY <2>5, NamesOK DEF Base, Caster
  <2> QED BY <2>3, <2>4, <2>5, <2>6
<1> QED BY <1>3, <1>4, <1>5

(* A client that has no player, and that a broadcast would not reach,      *)
(* knows of no game.                                                       *)
LEMMA Unaware ==
  ASSUME Base, Heard, Seated, Told, NEW d \in Client, Alive(d), ~Subscribed(d), team[d] = 0,
         d \notin astray
  PROVE  cstatus[d] = "NOT_STARTED" /\ evt[d] = <<>>
         /\ (rep[d] # <<>> => Head(rep[d]).st = "NOT_STARTED")
BY NoneStarted DEF Heard, Seated, Told, Knows

----------------------------------------------------------------------------
(* Versions: what is under way *)

(* From the n-th event of c on there is an update with p as it is now.     *)
Later(c, n, p) == \E k \in DOMAIN evt[c] :
  /\ n <= k /\ evt[c][k].mt = "GAME_UPDATE" /\ evt[c][k].st = "IN_PROGRESS"
  /\ evt[c][k].view[p] = part[p]

(* Whatever c shows, or may come to show from a message under way, is      *)
(* current, or is followed by an update that is.                           *)
UpToDate(c, p) ==
  /\ cstatus[c] = "IN_PROGRESS" /\ c \in known[c] => view[c][p] = part[p] \/ Later(c, 1, p)
  /\ rep[c] # <<>> /\ Head(rep[c]).st = "IN_PROGRESS" =>
       Head(rep[c]).view[p] = part[p] \/ Later(c, 1, p)
  /\ \A k \in DOMAIN evt[c] : evt[c][k].st = "IN_PROGRESS" =>
       evt[c][k].view[p] = part[p] \/ Later(c, k, p)
Awaits(c) == \E t \in Client : WillUpdate(t, c)

Current == ~again /\ status = "IN_PROGRESS" => \A c \in Client \ astray :
  Alive(c) => Awaits(c) \/ \A p \in Part : UpToDate(c, p)

(* A client that knows of no game is up to date.                           *)
LEMMA UnawareUpToDate ==
  ASSUME NEW c \in Client, NEW p \in Part, cstatus[c] = "NOT_STARTED", evt[c] = <<>>,
         rep[c] # <<>> => Head(rep[c]).st = "NOT_STARTED"
  PROVE  UpToDate(c, p)
BY DEF UpToDate

(* An update that has just been sent makes up for everything.              *)
LEMMA UpdateSent ==
  ASSUME NEW c \in Client, NEW p \in Part, evt[c] \in Seq(Message), NEW m \in Message,
         evt'[c] = Append(evt[c], m), m.mt = "GAME_UPDATE", m.st = "IN_PROGRESS",
         m.view[p] = part'[p]
  PROVE  UpToDate(c, p)'
<1> DEFINE n == Len(evt[c]) + 1
<1>1. n \in DOMAIN evt'[c] /\ evt'[c][n] = m /\ DOMAIN evt'[c] = 1..n /\ n \in Nat /\ n >= 1
  BY AppendFacts
<1>2. \A k \in 1..n : k <= n
  <2> HIDE DEF n
  <2> QED BY <1>1
<1> HIDE DEF n
<1>3. \A k \in 1..n : Later(c, k, p)'
  BY <1>1, <1>2 DEF Later
<1>4. Later(c, 1, p)'
  BY <1>1, <1>3
<1> QED BY <1>1, <1>3, <1>4 DEF UpToDate

(* While part p stays as it is, what is late stays late when an event is   *)
(* added, and only the first event can be missed when it is handled.       *)
LEMMA LaterAppended ==
  ASSUME NEW c \in Client, NEW p \in Part, evt[c] \in Seq(Message), NEW m \in Message,
         evt'[c] = Append(evt[c], m), part' = part, NEW n \in Nat, Later(c, n, p)
  PROVE  Later(c, n, p)'
<1>1. PICK k \in DOMAIN evt[c] :
        /\ n <= k /\ evt[c][k].mt = "GAME_UPDATE" /\ evt[c][k].st = "IN_PROGRESS"
        /\ evt[c][k].view[p] = part[p]
  BY DEF Later
<1>2. k \in DOMAIN evt'[c] /\ evt'[c][k] = evt[c][k]
  BY <1>1, AppendFacts
<1> QED BY <1>1, <1>2 DEF Later

LEMMA LaterHandled ==
  ASSUME NEW c \in Client, NEW p \in Part, evt[c] \in Seq(Message), evt[c] # <<>>,
         evt'[c] = Tail(evt[c]), part' = part, NEW n \in Nat, n >= 1, Later(c, n, p)
  PROVE  \/ /\ n = 1 /\ Head(evt[c]).mt = "GAME_UPDATE" /\ Head(evt[c]).st = "IN_PROGRESS"
            /\ Head(evt[c]).view[p] = part[p]
         \/ n = 1 /\ Later(c, 1, p)'
         \/ n > 1 /\ Later(c, n - 1, p)'
<1>1. PICK k \in DOMAIN evt[c] :
        /\ n <= k /\ evt[c][k].mt = "GAME_UPDATE" /\ evt[c][k].st = "IN_PROGRESS"
        /\ evt[c][k].view[p] = part[p]
  BY DEF Later
<1>2. CASE k = 1
  BY <1>1, <1>2, TailFacts
<1>3. CASE k # 1
  <2>1. /\ k - 1 \in DOMAIN evt'[c] /\ evt'[c][k - 1] = evt[c][k] /\ k \in Nat /\ k > 1
        /\ n - 1 <= k - 1 /\ 1 <= k - 1
    BY <1>1, <1>3, TailFacts
  <2>2. n > 1 => Later(c, n - 1, p)'
    BY <1>1, <2>1 DEF Later
  <2>3. Later(c, 1, p)'
    BY <1>1, <2>1 DEF Later
  <2> QED BY <2>2, <2>3
<1> QED BY <1>2, <1>3

(* What the event thread does with an event, and with an update.           *)
LEMMA EventHandled ==
  ASSUME Base, NEW c \in Client, Handles(c)
  PROVE  rep' = rep /\ (Adopts(c) \/ UNCHANGED <<view, known, cstatus>>)
<1>1. Alive(c) /\ EventStep(c) /\ mpc' = mpc
  BY EventCases DEF Handles
<1>2. ~Ends(c)
  BY <1>1 DEF Ends, Dies, Alive, Base, Typed, TypedClients
<1> QED BY <1>1, <1>2, EventCases, EventCopies DEF Ends

LEMMA UpdateHandled ==
  ASSUME Base, Sounds, NEW c \in Client, Handles(c), c \notin astray',
         Head(evt[c]).mt = "GAME_UPDATE", Head(evt[c]).st = "IN_PROGRESS"
  PROVE  /\ rep[c] # <<>> => Head(rep[c]).st = "NOT_STARTED"
         /\ Adopts(c) \/ (UNCHANGED <<view, known, cstatus>> /\ c \notin known[c])
<1> USE DEF Base, Typed
<1>1. Alive(c) /\ EventStep(c) /\ mpc' = mpc
  BY EventCases DEF Handles
<1>2. GotGameUpdate(c)
  BY <1>1 DEF EventStep, GotLobby, GotGameOver, GotStartEvent, GotMapUpdate, Receives
<1>3. ~Dies(c, "crashed")
  BY <1>1 DEF Dies, Alive, TypedClients
<1>4. mpc[c] \notin {"start", "copying"}
  BY <1>2, <1>3 DEF GotGameUpdate
<1>5. ASSUME rep[c] # <<>>, Head(rep[c]).st # "NOT_STARTED" PROVE FALSE
  <2>1. Exchange(c) /\ TypedClients /\ TypedWire
    BY DEF Exchanges
  <2>2. Answered(c)
    BY <1>5, <2>1, FewReplies
  <2>3. Head(rep[c]).mt \in {"START", "GAME_UPDATE"}
    <3>1. 1 \in DOMAIN rep[c] /\ Head(rep[c]) = rep[c][1]
      BY <1>5, <2>1 DEF TypedWire
    <3> QED BY <1>5, <3>1 DEF Sounds, Sound
  <2>4. mpc[c] \in {"hello", "map", "start", "copying", "move", "pickup"}
    BY <1>1, <1>5, <2>1 DEF Exchange, Asked, Parts, TypedClients, Alive
  <2> QED BY <1>4, <2>2, <2>3, <2>4, AwaitedIs DEF Answered
<1>6. Ignores(c, Head(evt[c])) \/ Adopt(c, Head(evt[c]))
  BY <1>2, <1>3 DEF GotGameUpdate
<1>7. CASE Ignores(c, Head(evt[c]))
  <2>1. c \notin known[c]
    BY <1>7 DEF Ignores, HasPlayer
  <2>2. UNCHANGED <<view, known, cstatus>>
    BY <1>2, <1>3, <1>7 DEF GotGameUpdate
  <2> QED BY <1>5, <2>1, <2>2
<1>8. CASE Adopt(c, Head(evt[c]))
  <2>1. view'[c] = Head(evt[c]).view /\ known'[c] = Head(evt[c]).in /\ cstatus'[c] = Head(evt[c]).st
    BY <1>8 DEF Adopt, TypedClients
  <2>2. Adopts(c)
    BY <2>1, EventHandled DEF Adopts
  <2> QED BY <1>5, <2>2
<1> QED BY <1>6, <1>7, <1>8

LEMMA UpToDateHandled ==
  ASSUME Base, Sounds, NEW c \in Client, Handles(c), c \notin astray', part' = part,
         NEW p \in Part, UpToDate(c, p)
  PROVE  UpToDate(c, p)'
<1> DEFINE h == Head(evt[c])
           Update == h.mt = "GAME_UPDATE" /\ h.st = "IN_PROGRESS"
<1>1. evt[c] \in Seq(Message) /\ evt[c] # <<>> /\ evt'[c] = Tail(evt[c]) /\ rep' = rep
  BY EventHandled DEF Handles, Base, Typed, TypedWire
<1>2. 1 \in DOMAIN evt[c] /\ evt[c][1] = h
  BY <1>1, TailFacts
<1>3. Later(c, 1, p) => (Update /\ h.view[p] = part[p]) \/ Later(c, 1, p)'
  BY <1>1, LaterHandled
<1>4. Update => /\ rep[c] # <<>> => Head(rep[c]).st = "NOT_STARTED"
                /\ Adopts(c) \/ (UNCHANGED <<view, known, cstatus>> /\ c \notin known[c])
  BY UpdateHandled
<1>5. h.st = "IN_PROGRESS" => h.view[p] = part[p] \/ Later(c, 1, p)'
  <2>1. h.st = "IN_PROGRESS" => h.view[p] = part[p] \/ Later(c, 1, p)
    BY <1>2 DEF UpToDate
  <2> QED BY <1>3, <2>1
<1> HIDE DEF h
<1>6. cstatus'[c] = "IN_PROGRESS" /\ c \in known'[c] => view'[c][p] = part[p] \/ Later(c, 1, p)'
  <2>1. CASE Adopts(c)
    BY <1>5, <2>1 DEF Adopts, h
  <2>2. CASE UNCHANGED <<view, known, cstatus>>
    <3>1. CASE Update /\ ~Adopts(c)
      BY <1>4, <2>2, <3>1
    <3>2. CASE ~Update
      BY <1>3, <2>2, <3>2 DEF UpToDate
    <3> QED BY <2>1, <3>1, <3>2
  <2> QED BY <2>1, <2>2, EventHandled
<1>7. rep'[c] # <<>> /\ Head(rep'[c]).st = "IN_PROGRESS" =>
        Head(rep'[c]).view[p] = part[p] \/ Later(c, 1, p)'
  BY <1>1, <1>3, <1>4 DEF UpToDate
<1>8. ASSUME NEW k \in DOMAIN evt'[c], evt'[c][k].st = "IN_PROGRESS"
      PROVE  evt'[c][k].view[p] = part[p] \/ Later(c, k, p)'
  <2>1. k + 1 \in DOMAIN evt[c] /\ evt'[c][k] = evt[c][k + 1] /\ k + 1 \in Nat /\ k + 1 > 1
        /\ (k + 1) - 1 = k
    BY <1>1, TailFacts
  <2>2. evt'[c][k].view[p] = part[p] \/ Later(c, k + 1, p)
    BY <1>8, <2>1 DEF UpToDate
  <2>3. Later(c, k + 1, p) => Later(c, k, p)'
    BY <1>1, <2>1, LaterHandled
  <2> QED BY <2>2, <2>3
<1>9. part' = part
  OBVIOUS
<1> QED BY <1>6, <1>7, <1>8, <1>9 DEF UpToDate

LEMMA UpToDateKept ==
  ASSUME Base, Sounds, NEW c \in Client, Step(c), NEW d \in Client, Alive(d)', d \notin astray',
         part' = part, NEW p \in Part, UpToDate(d, p)
  PROVE  UpToDate(d, p)'
<1>1. evt[d] \in Seq(Message) /\ rep[d] \in Seq(Message)
  BY DEF Base, Typed, TypedWire
<1>2. CASE evt'[d] = evt[d]
  <2>1. \A n : Later(d, n, p)' <=> Later(d, n, p)
    BY <1>2 DEF Later
  <2>2. ~(d = c /\ (Ends(c) \/ Races(c)))
    BY EndsHow DEF Races
  <2>3. ~(d = c /\ Adopts(c))
    <3>1. evt[d] # <<>> => Len(Tail(evt[d])) # Len(evt[d])
      BY <1>1, TailFacts
    <3> QED BY <1>2, <3>1 DEF Adopts, Handles
  <2>4. cstatus'[d] = "IN_PROGRESS" /\ d \in known'[d] => view'[d][p] = part[p] \/ Later(d, 1, p)'
    <3>1. CASE view'[d] = view[d] /\ known'[d] = known[d] /\ cstatus'[d] = cstatus[d]
      BY <2>1, <3>1 DEF UpToDate
    <3>2. CASE d = c /\ Copies(c)
      BY <2>1, <3>2 DEF Copies, UpToDate
    <3>3. CASE d = c /\ TakesMap(c)
      BY <3>3 DEF TakesMap
    <3> QED BY <2>2, <2>3, <3>1, <3>2, <3>3, CopyCases
  <2>5. rep'[d] # <<>> /\ Head(rep'[d]).st = "IN_PROGRESS" =>
          Head(rep'[d]).view[p] = part[p] \/ Later(d, 1, p)'
    <3>1. CASE rep'[d] = rep[d]
      BY <2>1, <3>1 DEF UpToDate
    <3>2. ASSUME d = c, NEW m \in Message, RepliesWith(c, m)
          PROVE  Head(rep'[d]).st = "IN_PROGRESS" => Head(rep'[d]).view[p] = part[p]
      <4>1. Head(rep'[d]) = m
        BY <3>2 DEF RepliesWith
      <4> QED BY <3>2, <4>1, RepliedFields
    <3> QED BY <3>1, <3>2, ReplyQueues
  <2>6. \A k \in DOMAIN evt'[d] : evt'[d][k].st = "IN_PROGRESS" =>
          evt'[d][k].view[p] = part[p] \/ Later(d, k, p)'
    BY <1>2, <2>1 DEF UpToDate
  <2>7. part' = part
    OBVIOUS
  <2> QED BY <2>4, <2>5, <2>6, <2>7 DEF UpToDate
<1>3. CASE Appends(c, d)
  <2>1. PICK m \in Message : evt'[d] = Append(evt[d], m) /\ (m.st = "IN_PROGRESS" => m.view = part)
    BY <1>3, PostedFields DEF Appends, PostFields
  <2>2. \A n \in Nat : Later(d, n, p) => Later(d, n, p)'
    BY <1>1, <2>1, LaterAppended
  <2>3. UNCHANGED <<rep, view, known, cstatus>>
    BY <1>3 DEF Appends, PostTo
  <2>4. \A k \in DOMAIN evt'[d] : evt'[d][k].st = "IN_PROGRESS" =>
          evt'[d][k].view[p] = part[p] \/ Later(d, k, p)'
    <3> SUFFICES ASSUME NEW k \in DOMAIN evt'[d], evt'[d][k].st = "IN_PROGRESS"
                 PROVE  evt'[d][k].view[p] = part[p] \/ Later(d, k, p)'
      OBVIOUS
    <3>1. \/ k \in DOMAIN evt[d] /\ evt'[d][k] = evt[d][k] /\ k \in Nat
          \/ evt'[d][k] = m
      BY <1>1, <2>1, AppendFacts
    <3> QED BY <2>1, <2>2, <3>1 DEF UpToDate
  <2>5. part' = part
    OBVIOUS
  <2> QED BY <2>2, <2>3, <2>4, <2>5 DEF UpToDate
<1>4. CASE d = c /\ Handles(c)
  BY <1>4, UpToDateHandled
<1>5. CASE d = c /\ Ends(c)
  BY <1>5, EndsHow
<1> QED BY <1>2, <1>3, <1>4, <1>5, EventQueues

(* Whoever changes the game has yet to tell of it, unless he starts it.    *)
LEMMA ChangeIsTold ==
  ASSUME Base, NEW c \in Client, Step(c), NEW d \in Client, part' # part
  PROVE  (hpc[c] = "change" /\ job[c].mt = "START") \/ WillUpdate(c, d)'
<1> USE DEF Base, Typed
<1>0. TypedThreads /\ JobOf(c)
  BY DEF Jobs
<1>1. CASE Change(c)
  <2>1. hpc'[c] = "change" /\ hpc[c] = "change" /\ job'[c].mt = job[c].mt
    BY <1>0, <1>1 DEF Change, TypedThreads
  <2> QED BY <1>0, <2>1 DEF JobOf, WillUpdate
<1>2. CASE Clear(c)
  <2>1. hpc[c] = "clear" /\ hpc'[c] = "post" /\ job' = job /\ cast' = cast
    BY <1>0, <1>2 DEF Clear, Goto, TypedThreads
  <2>2. cast.by # c
    BY <2>1, NamesOK DEF Caster
  <2> QED BY <1>0, <2>1, <2>2 DEF JobOf, WillUpdate
<1>3. CASE EventStep(c) \/ MainStep(c) \/ UserStep(c)
  BY <1>3, ClientFrame
<1>4. CASE ReadStart(c) \/ ReadLobby(c) \/ ReadGoodbye(c) \/ Lost(c) \/ QueryMap(c) \/ Hello(c)
  BY <1>4 DEF ReadStart, ReadLobby, ReadGoodbye, Lost, QueryMap, Hello
<1>5. CASE StartGame(c) \/ Move(c) \/ Pickup(c) \/ Break(c) \/ Win(c) \/ Unlock(c)
  BY <1>5 DEF StartGame, Move, Pickup, Acquire, Break, Win, Unlock
<1>6. CASE Answer(c) \/ Refuse(c) \/ ResetCell(c) \/ PostBegin(c) \/ PostTo(c) \/ PostEnd(c)
           \/ Subscribe(c)
  BY <1>6 DEF Answer, Refuse, ResetCell, PostBegin, PostTo, PostEnd, Subscribe
<1> QED BY <1>1, <1>2, <1>3, <1>4, <1>5, <1>6 DEF Step, ServerStep

(* Who has yet to tell d goes on having to, until d is sent an update, or  *)
(* the broadcast begins without it.                                        *)
LEMMA WillKept ==
  ASSUME Base, NEW c \in Client, Step(c), NEW t \in Client, NEW d \in Client, Alive(d),
         WillUpdate(t, d)
  PROVE  \/ WillUpdate(t, d)'
         \/ Appends(c, d) /\ cast.mt = "GAME_UPDATE"
         \/ PostBegin(c) /\ ~Subscribed(d)
<1> USE DEF Base, Typed
<1>0. TypedThreads /\ JobOf(t)
  BY DEF Jobs
<1>1. /\ hpc[t] \in {"change", "mapcast", "overcast", "answer", "post", "clear"}
      /\ job[t].mt \in {"MOVE", "PICKUP", "GOODBYE", "LOST"}
      /\ hpc[t] = "post" /\ cast.by = t => Ahead(d) \/ job[t].mt = "GOODBYE"
  BY DEF WillUpdate
<1>2. hpc[t] \notin {"mapcast", "overcast", "post"} => cast.by # t
  BY NamesOK DEF Caster
<1>3. CASE t # c
  <2>1. hpc'[t] = hpc[t] /\ job'[t] = job[t]
    BY <1>3, OtherThreads
  <2>2. cast'.by = t => cast' = cast /\ subs' = subs
    BY <1>3, CastHow
  <2>3. cast'.by = t => (Ahead(d)' <=> Ahead(d)) /\ cast.by = t
    BY <2>2 DEF Ahead
  <2> QED BY <1>1, <2>1, <2>3 DEF WillUpdate
<1>4. CASE t = c /\ (EventStep(c) \/ MainStep(c) \/ UserStep(c))
  <2>1. mpc[c] # "off"
    BY <1>1, <1>4 DEF Exchanges, Exchange
  <2>2. hpc' = hpc /\ job' = job /\ subs' = subs /\ cast' = cast
    BY <1>4, <2>1, ClientFrame
  <2> QED BY <1>1, <2>2 DEF WillUpdate, Ahead
<1>5. CASE t = c /\ (ReadStart(c) \/ ReadLobby(c) \/ ReadGoodbye(c) \/ Lost(c) \/ QueryMap(c)
                     \/ Hello(c) \/ Move(c) \/ Pickup(c))
  <2>1. hpc[c] = "idle"
    BY <1>5 DEF ReadStart, ReadLobby, ReadGoodbye, Lost, QueryMap, Hello, Move, Pickup, Reads
  <2> QED BY <1>1, <1>5, <2>1
<1>6. CASE t = c /\ (StartGame(c) \/ Refuse(c) \/ ResetCell(c))
  BY <1>1, <1>6 DEF StartGame, Refuse, ResetCell
<1>7. CASE t = c /\ (Change(c) \/ Break(c) \/ Win(c) \/ Unlock(c))
  <2>1. /\ hpc'[c] \in {"change", "mapcast", "overcast", "answer"}
        /\ job'[c].mt = job[c].mt
    BY <1>0, <1>7 DEF Change, Break, Win, Unlock, Goto, TypedThreads
  <2> QED BY <1>1, <1>7, <2>1 DEF WillUpdate
<1>8. CASE t = c /\ (Answer(c) \/ Clear(c))
  <2>1. /\ hpc[c] \in {"answer", "clear"} /\ job' = job /\ cast' = cast
        /\ hpc'[c] = "post"
    BY <1>0, <1>1, <1>8 DEF Answer, Clear, Goto, TypedThreads
  <2> QED BY <1>1, <1>2, <1>8, <2>1 DEF WillUpdate
<1>9. CASE t = c /\ PostBegin(c)
  <2>1. hpc' = hpc /\ job' = job
    BY <1>9 DEF PostBegin
  <2>2. Subscribed(d) => Ahead(d)'
    BY <1>9, AheadAtFirst
  <2> QED BY <1>1, <1>9, <2>1, <2>2 DEF WillUpdate
<1>10. CASE t = c /\ PostTo(c)
  <2>1. hpc' = hpc /\ job' = job /\ cast.by = c /\ cast'.by = c
    BY <1>0, <1>10 DEF PostTo, TypedThreads
  <2>2. CASE hpc[c] # "post" \/ job[c].mt = "GOODBYE"
    BY <1>1, <1>10, <2>1, <2>2 DEF WillUpdate
  <2>3. CASE hpc[c] = "post" /\ job[c].mt # "GOODBYE"
    <3>1. cast.mt = "GAME_UPDATE"
      BY <1>1, <1>10, <2>1, <2>3, NamesOK DEF Caster, Topic
    <3>2. Ahead(d)
      BY <1>1, <1>10, <2>1, <2>3
    <3>3. Ahead(d)' \/ Appends(c, d)
      BY <1>10, <3>2, AheadKept
    <3> QED BY <1>1, <1>10, <2>1, <3>1, <3>3 DEF WillUpdate
  <2> QED BY <2>2, <2>3
<1>11. CASE t = c /\ PostEnd(c)
  <2>1. cast.by = c /\ cast.at > Len(subs) /\ cast' = NoCast /\ hpc'[c] = AfterPost(c)
        /\ job'[c] = IF job[c].mt = "GOODBYE" THEN [job[c] EXCEPT !.mt = "LOST"] ELSE job[c]
    BY <1>0, <1>11 DEF PostEnd, Goto, TypedThreads
  <2>2. ~Ahead(d)
    BY <1>0, <2>1 DEF Ahead, TypedThreads
  <2>3. hpc[c] \in {"mapcast", "overcast"} \/ job[c].mt = "GOODBYE"
    BY <1>1, <1>2, <1>11, <2>1, <2>2
  <2>4. hpc[c] \in {"mapcast", "overcast"} => job[c].mt # "GOODBYE"
    BY <1>0, <1>11 DEF JobOf
  <2>5. hpc'[c] \in {"change", "clear"} /\ job'[c].mt \in {"MOVE", "PICKUP", "GOODBYE", "LOST"}
    BY <1>1, <1>11, <2>1, <2>3, <2>4 DEF AfterPost
  <2> QED BY <1>11, <2>5 DEF WillUpdate
<1>12. CASE t = c /\ Subscribe(c)
  <2>1. hpc' = hpc /\ job' = job /\ cast' = cast /\ cast.by = NoOne
    BY <1>12 DEF Subscribe
  <2> QED BY <1>1, <2>1, NamesOK DEF WillUpdate
<1> QED BY <1>3, <1>4, <1>5, <1>6, <1>7, <1>8, <1>9, <1>10, <1>11, <1>12 DEF Step, ServerStep

(* What the versions need.                                                 *)
Informed == /\ Sounds /\ Heard /\ Silent /\ Seated /\ Told /\ Unstarted /\ StartsOnce
            /\ Current

LEMMA CurrentStep ==
  ASSUME Base, Informed, NEW c \in Client, Step(c)
  PROVE  Current'
<1>1. SUFFICES ASSUME ~again', status' = "IN_PROGRESS", NEW d \in Client \ astray', Alive(d)'
               PROVE  Awaits(d)' \/ \A p \in Part : UpToDate(d, p)'
  BY DEF Current, Alive
<1>2. ~again /\ d \notin astray
  BY <1>1, StatusHow, AstrayGrows
<1>3. Sounds /\ Heard /\ Silent /\ Seated /\ Told /\ Unstarted /\ StartsOnce /\ Current
  BY DEF Informed
<1>4. CASE status # "IN_PROGRESS"
  <2>1. hpc[c] = "change" /\ job[c].mt = "START" /\ UNCHANGED <<part, wire, client>>
    BY <1>1, <1>4, StatusHow
  <2>2. status = "NOT_STARTED"
    BY <1>2, <1>3, <2>1 DEF StartsOnce
  <2>3. /\ cstatus[d] = "NOT_STARTED" /\ \A k \in DOMAIN rep[d] : rep[d][k].st = "NOT_STARTED"
        /\ \A k \in DOMAIN evt[d] : evt[d][k].st = "NOT_STARTED"
        /\ rep[d] \in Seq(Message)
    BY <1>3, <2>2 DEF Unstarted, Base, Typed, TypedWire
  <2>4. rep[d] # <<>> => Head(rep[d]).st = "NOT_STARTED"
    BY <2>3
  <2> QED BY <2>1, <2>3, <2>4 DEF UpToDate
<1>5. CASE status = "IN_PROGRESS" /\ ~Alive(d)
  <2>1. UNCHANGED <<rep, evt, cstatus>>
    BY <1>1, <1>5, Comes
  <2>2. rep[d] = <<>> /\ evt[d] = <<>> /\ cstatus[d] = "NOT_STARTED"
    BY <1>3, <1>5 DEF Silent, Base, Exchanges, Exchange
  <2> QED BY <2>1, <2>2 DEF UpToDate
<1>6. CASE status = "IN_PROGRESS" /\ Alive(d) /\ Awaits(d)
  <2>1. PICK t \in Client : WillUpdate(t, d)
    BY <1>6 DEF Awaits
  <2>2. CASE WillUpdate(t, d)'
    BY <2>2 DEF Awaits
  <2>3. CASE Appends(c, d) /\ cast.mt = "GAME_UPDATE"
    <3>1. PICK m \in Message : /\ evt'[d] = Append(evt[d], m) /\ m.mt = "GAME_UPDATE"
                               /\ m.view = part /\ m.st = status
      BY <2>3, PostedFields DEF Appends, PostFields
    <3>2. part' = part /\ evt[d] \in Seq(Message)
      BY <2>3 DEF Appends, PostTo, Base, Typed, TypedWire
    <3> QED BY <1>6, <3>1, <3>2, UpdateSent
  <2>4. CASE PostBegin(c) /\ ~Subscribed(d)
    <3>1. team[d] = 0
      <4>1. d \notin astray' /\ d \in Client
        BY <1>1
      <4> QED BY <2>4, <4>1 DEF PostBegin, InGame
    <3>2. cstatus[d] = "NOT_STARTED" /\ evt[d] = <<>>
          /\ (rep[d] # <<>> => Head(rep[d]).st = "NOT_STARTED")
      BY <1>2, <1>3, <1>6, <2>4, <3>1, Unaware
    <3>3. UNCHANGED <<rep, evt, cstatus>>
      BY <2>4 DEF PostBegin
    <3> QED BY <3>2, <3>3 DEF UpToDate
  <2> QED BY <1>6, <2>1, <2>2, <2>3, <2>4, WillKept
<1>7. CASE status = "IN_PROGRESS" /\ Alive(d) /\ ~Awaits(d)
  <2>1. \A p \in Part : UpToDate(d, p)
    BY <1>2, <1>3, <1>7 DEF Current
  <2>2. CASE part' = part
    BY <1>1, <1>2, <1>3, <2>1, <2>2, UpToDateKept
  <2>3. CASE part' # part
    <3>1. ~(hpc[c] = "change" /\ job[c].mt = "START")
      BY <1>2, <1>3, <1>7 DEF StartsOnce
    <3>2. WillUpdate(c, d)'
      BY <2>3, <3>1, ChangeIsTold
    <3> QED BY <3>2 DEF Awaits
  <2> QED BY <2>2, <2>3
<1> QED BY <1>4, <1>5, <1>6, <1>7

LEMMA InformedInit == Init => Informed
<1> SUFFICES ASSUME Init PROVE Informed
  OBVIOUS
<1>1. Sounds /\ Heard
  BY SoundsInit
<1>2. Silent /\ Seated /\ Told /\ Unstarted /\ StartsOnce /\ Current
  BY DEF Init, Silent, Seated, Told, Unstarted, StartsOnce, Current, Alive
<1> QED BY <1>1, <1>2 DEF Informed

LEMMA InformedStep ==
  ASSUME Base, Informed, [Next]_vars
  PROVE  Informed'
<1>1. CASE UNCHANGED vars
  <2>1. Sounds' /\ Heard' /\ Silent' /\ Seated' /\ Told'
    BY <1>1 DEF Informed, vars, Sounds, Sound, Heard, Silent, Seated, Told, Knows, Subscribed,
       Alive, Greets
  <2>2. Unstarted' /\ StartsOnce' /\ Current'
    BY <1>1 DEF Informed, vars, Unstarted, StartsOnce, Current, Awaits, WillUpdate, Ahead,
       UpToDate, Later, Alive
  <2> QED BY <2>1, <2>2 DEF Informed
<1>2. ASSUME NEW c \in Client, Step(c) PROVE Informed'
  <2>1. Sounds' /\ Heard'
    BY <1>2, SoundsStep, HeardStep DEF Informed
  <2>2. Silent' /\ Seated' /\ Told'
    BY <1>2, SilentStep, SeatedStep, ToldStep DEF Informed
  <2>3. Unstarted' /\ StartsOnce' /\ Current'
    BY <1>2, UnstartedStep, StartsOnceStep, CurrentStep DEF Informed
  <2> QED BY <2>1, <2>2, <2>3 DEF Informed
<1> QED BY <1>1, <1>2, NextCases

LEMMA NothingIsLost ==
  ASSUME Informed
  PROVE  NoLostUpdate
<1>1. SUFFICES ASSUME ~again, NEW c \in Client \ astray, status = "IN_PROGRESS", Alive(c),
                      cstatus[c] = "IN_PROGRESS", c \in known[c], NEW p \in Part
               PROVE  \/ view[c][p] = part[p]
                      \/ \E k \in DOMAIN evt[c] : /\ evt[c][k].mt = "GAME_UPDATE"
                                                   /\ evt[c][k].st = "IN_PROGRESS"
                                                   /\ evt[c][k].view[p] = part[p]
                      \/ \E t \in Client : WillUpdate(t, c)
  BY DEF NoLostUpdate
<1>2. Awaits(c) \/ UpToDate(c, p)
  BY <1>1 DEF Informed, Current
<1> QED BY <1>1, <1>2 DEF Awaits, UpToDate, Later

(* While the game that was started first goes on, a client that plays      *)
(* shows the present version of every part, or an update with it is under  *)
(* way, or somebody is still to broadcast: whatever a snapshot taken       *)
(* without GameLock, an event that overtakes a reply or an ignored update  *)
(* hides from a client is made up for.  Excepted are the clients astray.   *)
THEOREM UpdatesReachCopies == Spec => []NoLostUpdate
<1>1. Init => Base /\ Informed
  BY BaseInit, InformedInit
<1>2. Base /\ Informed /\ [Next]_vars => Base' /\ Informed'
  BY BaseStep, InformedStep
<1>3. Informed => NoLostUpdate
  BY NothingIsLost
<1> QED BY <1>1, <1>2, <1>3, PTL DEF Spec

----------------------------------------------------------------------------
(* Everyone waiting on everyone *)

(* When the thread of c on the server has a request it can serve, ...      *)
ReadsNext(c) ==
  /\ hpc[c] = "idle" /\ req[c] # <<>>
  /\ Head(req[c]) = "HELLO" => lock = NoOne /\ (c \in Slow \/ Subscribed(c))
  /\ Head(req[c]) \in {"MOVE", "PICKUP"} => lock = NoOne

(* ... can go on with the one it is at, ...                                *)
Serves(c) ==
  \/ hpc[c] = "idle" /\ req[c] = <<>> /\ mpc[c] = "crashed"
  \/ hpc[c] = "lock" /\ lock = NoOne
  \/ hpc[c] = "change" /\ (Changed(c) /\ job[c].breaks => Wall # broken)
  \/ hpc[c] \in {"answer", "refuse", "clear", "reset"}

(* ... can broadcast or subscribe; ...                                     *)
Casts(c) ==
  \/ hpc[c] \in {"mapcast", "overcast", "post"} /\ cast.by = NoOne
  \/ /\ cast.by = c
     /\ cast.at <= Len(subs) /\ Alive(subs[cast.at]) => Len(evt[subs[cast.at]]) < EvtCap
  \/ mpc[c] # "off" /\ cast.by = NoOne /\ ~Subscribed(c)

(* ... when its event thread can handle an event, its ACK included, ...    *)
Hears(c) ==
  /\ Alive(c) /\ evt[c] # <<>> /\ Head(evt[c]).mt \in Event
  /\ \/ Head(evt[c]).mt \notin {"LOBBY_UPDATE", "MAP_UPDATE"}
     \/ Head(evt[c]).mt = "MAP_UPDATE" /\ Head(evt[c]).cell # Unset /\ ~HasMap(c)
     \/ ack[c] < AckCap

(* ... and when its main thread can go on without its user.                *)
Continues(c) ==
  \/ mpc[c] \in {"hello", "map", "start", "move", "pickup"} /\ rep[c] # <<>>
  \/ mpc[c] \in {"copying", "opening"}
  \/ mpc[c] = "leaving" /\ hpc[c] = "away"

CanGoOn(c) == ReadsNext(c) \/ Serves(c) \/ Casts(c) \/ Hears(c) \/ Continues(c)

(* A client whose ACKs fill the sockets: the server never reads them.      *)
Choked(c) == Alive(c) /\ evt[c] # <<>> /\ ack[c] = AckCap

(* Only events are sent as events.                                         *)
Announced == \A c \in Client : \A k \in DOMAIN evt[c] : evt[c][k].mt \in Event

(* A wall that is to be broken is still there: GameLock keeps the others   *)
(* from the last one.  A start, which waits for it, breaks none.           *)
WallsLeft == \A c \in Client :
  /\ hpc[c] \in {"change", "mapcast", "overcast"} /\ job[c].breaks => Wall # broken
  /\ hpc[c] = "lock" => ~job[c].breaks

(* The requests a client can have under way.  What a client that has died  *)
(* had sent is served all the same, and a goodbye was the last of it.      *)
Queues == {<<>>, <<"HELLO">>, <<"LOBBY_UPDATE", "MAPQUERY">>, <<"MAPQUERY">>, <<"START">>,
           <<"MOVE">>, <<"PICKUP">>, <<"GOODBYE">>}
Finishes(c) == \/ hpc[c] = "away"
               \/ hpc[c] \in {"clear", "post"} /\ job[c].mt \in {"GOODBYE", "LOST"}
Finished == \A c \in Client : ~Alive(c) => req[c] \in Queues /\ (Finishes(c) => req[c] = <<>>)

Waiting == Announced /\ WallsLeft /\ Finished

LEMMA WaitingInit ==
  ASSUME Init
  PROVE  Waiting
<1>1. Announced
  BY DEF Init, Announced
<1>2. WallsLeft
  BY DEF Init, WallsLeft
<1>3. Finished
  BY DEF Init, Finished, Queues
<1> QED BY <1>1, <1>2, <1>3 DEF Waiting

LEMMA AnnouncedStep ==
  ASSUME Base, Announced, NEW c \in Client, Step(c)
  PROVE  Announced'
<1>1. SUFFICES ASSUME NEW d \in Client PROVE \A k \in DOMAIN evt'[d] : evt'[d][k].mt \in Event
  BY DEF Announced
<1>2. evt[d] \in Seq(Message) /\ \A k \in DOMAIN evt[d] : evt[d][k].mt \in Event
  BY DEF Announced, Base, Typed, TypedWire
<1>3. CASE evt'[d] = evt[d]
  BY <1>2, <1>3
<1>4. CASE Appends(c, d)
  <2>1. PICK m \in Message : evt'[d] = Append(evt[d], m) /\ m.mt \in Event
    BY <1>4, PostedFields DEF Appends, PostFields
  <2> QED BY <1>2, <2>1, AppendFacts
<1>5. CASE d = c /\ Handles(c)
  BY <1>2, <1>5, TailFacts DEF Handles
<1>6. CASE d = c /\ Ends(c)
  BY <1>6, EndsHow
<1> QED BY <1>3, <1>4, <1>5, <1>6, EventQueues

(* A thread finds a wall to break when it takes GameLock, and nobody else  *)
(* breaks one before it gives GameLock back.                               *)
LEMMA WallsLeftStep ==
  ASSUME Base, WallsLeft, NEW c \in Client, Step(c)
  PROVE  WallsLeft'
<1> DEFINE Left(d) == /\ hpc[d] \in {"change", "mapcast", "overcast"} /\ job[d].breaks =>
                           Wall # broken
                      /\ hpc[d] = "lock" => ~job[d].breaks
<1>1. SUFFICES ASSUME NEW d \in Client PROVE Left(d)'
  BY DEF WallsLeft
<1>2. TypedGame /\ TypedThreads /\ Holder /\ JobOf(c) /\ Left(c) /\ Left(d)
  BY DEF Base, Typed, Jobs, WallsLeft
<1>3. CASE d # c
  <2>1. hpc'[d] = hpc[d] /\ job'[d] = job[d]
    BY <1>2, <1>3, OtherThreads
  <2>2. CASE broken' = broken
    BY <1>2, <2>1, <2>2
  <2>3. CASE Break(c)
    <3>1. lock = c
      BY <1>2, <2>3 DEF Break, Changed, Holder
    <3>2. hpc[d] \notin {"change", "mapcast", "overcast"}
      BY <1>2, <1>3, <3>1 DEF Holder
    <3> QED BY <1>2, <2>1, <3>2
  <2> QED BY <2>2, <2>3, WallHow
<1>4. CASE d = c
  <2> USE DEF Goto, Does, TypedThreads
  <2>1. CASE EventStep(c) \/ MainStep(c) \/ UserStep(c)
    <3>1. UNCHANGED <<broken, job>> /\ hpc'[c] \in {hpc[c], "idle"}
      BY <1>2, <2>1, ClientFrame
    <3> QED BY <1>2, <1>4, <3>1
  <2>2. CASE ReadStart(c) \/ ReadLobby(c) \/ ReadGoodbye(c) \/ Lost(c) \/ QueryMap(c) \/ Hello(c)
    BY <1>2, <1>4, <2>2 DEF ReadStart, ReadLobby, ReadGoodbye, Lost, QueryMap, Hello, Work
  <2>3. CASE StartGame(c)
    <3>1. hpc[c] = "lock" /\ job'[c].breaks = job[c].breaks /\ hpc'[c] = "change"
      BY <1>2, <2>3 DEF StartGame, Acquire
    <3> QED BY <1>2, <1>4, <3>1
  <2>4. CASE Move(c)
    <3>1. hpc'[c] = "change" /\ UNCHANGED broken
      BY <1>2, <2>4 DEF Move, Acquire
    <3>2. PICK S \in {{}, {c}, {c, Objs}} \cup {{c, e} : e \in InGame},
               b \in IF "break" \in Habit[c] /\ Wall # broken THEN BOOLEAN ELSE {FALSE},
               w \in IF "win" \in Habit[c] THEN BOOLEAN ELSE {FALSE} :
            Does(c, [Work("MOVE") EXCEPT !.todo = S, !.breaks = b, !.wins = w])
      BY <2>4 DEF Move
    <3>3. job'[c].breaks = b
      BY <1>2, <3>2 DEF Work
    <3>4. b => Wall # broken
      BY <3>2
    <3> QED BY <1>4, <3>1, <3>3, <3>4
  <2>5. CASE Pickup(c)
    <3>1. hpc'[c] = "change"
      BY <1>2, <2>5 DEF Pickup, Acquire
    <3>2. PICK S \in {{}, {c}}, w \in IF "win" \in Habit[c] THEN BOOLEAN ELSE {FALSE} :
            Does(c, [Work("PICKUP") EXCEPT !.todo = S, !.wins = w])
      BY <2>5 DEF Pickup
    <3>3. ~job'[c].breaks
      BY <1>2, <3>2 DEF Work
    <3> QED BY <1>4, <3>1, <3>3
  <2>6. CASE Change(c) \/ Win(c)
    <3>1. /\ hpc[c] = "change" /\ hpc'[c] \in {"change", "overcast"} /\ UNCHANGED broken
          /\ job'[c].breaks = job[c].breaks
      BY <1>2, <2>6 DEF Change, Win, Changed
    <3> QED BY <1>2, <1>4, <3>1
  <2>7. CASE Break(c)
    <3>1. hpc'[c] = "mapcast" /\ ~job'[c].breaks
      BY <1>2, <2>7 DEF Break
    <3> QED BY <1>4, <3>1
  <2>8. CASE Unlock(c) \/ Answer(c) \/ Refuse(c) \/ Clear(c) \/ ResetCell(c)
    <3>1. hpc'[c] \in {"answer", "idle", "post"}
      BY <1>2, <2>8 DEF Unlock, Answer, Refuse, Clear, ResetCell
    <3> QED BY <1>4, <3>1
  <2>9. CASE PostBegin(c) \/ PostTo(c) \/ Subscribe(c)
    <3>1. UNCHANGED <<broken, hpc, job>>
      BY <2>9 DEF PostBegin, PostTo, Subscribe
    <3> QED BY <1>2, <1>4, <3>1
  <2>10. CASE PostEnd(c)
    <3>1. hpc'[c] = AfterPost(c) /\ UNCHANGED broken /\ job'[c].breaks = job[c].breaks
      BY <1>2, <2>10 DEF PostEnd
    <3>2. /\ hpc'[c] \in {"change", "clear", "away", "reset", "idle"}
          /\ hpc'[c] = "change" => hpc[c] \in {"mapcast", "overcast"}
      BY <3>1 DEF AfterPost
    <3> QED BY <1>2, <1>4, <3>1, <3>2
  <2> QED BY <2>1, <2>2, <2>3, <2>4, <2>5, <2>6, <2>7, <2>8, <2>9, <2>10 DEF Step, ServerStep
<1> QED BY <1>3, <1>4

(* What a client that is there has asked for.                              *)
LEMMA AliveQueues ==
  ASSUME Base, NEW c \in Client, Alive(c)
  PROVE  req[c] \in Queues /\ (Finishes(c) => req[c] = <<>>)
<1>1. Exchange(c) /\ TypedClients
  BY DEF Base, Typed, Exchanges
<1>2. mpc[c] \in {"hello", "map", "shell", "start", "copying", "opening", "play", "move",
                  "pickup", "leaving"}
  BY <1>1 DEF TypedClients, Alive
<1>3. req[c] \in Queues
  <2>1. CASE mpc[c] \in {"hello", "map", "copying", "leaving", "shell", "opening", "play"}
    BY <1>1, <2>1 DEF Exchange, Greets, Asked, Served, Answered, Parts, Queues
  <2>2. CASE mpc[c] \in {"start", "move", "pickup"}
    BY <1>1, <2>2, AwaitedIs DEF Exchange, Asked, Served, Answered, Queues
  <2> QED BY <1>2, <2>1, <2>2
<1>4. ASSUME Finishes(c) PROVE req[c] = <<>>
  <2>1. ~Quiet(c) /\ hpc[c] # "idle"
    BY <1>4 DEF Finishes, Quiet
  <2> QED BY <1>1, <1>2, <2>1 DEF Exchange, Asked, Served, Answered, Parts
<1> QED BY <1>3, <1>4

(* What is left when the first request has been read.                      *)
LEMMA QueueRead ==
  ASSUME NEW s \in Queues, s # <<>>
  PROVE  Tail(s) \in Queues /\ (Head(s) = "GOODBYE" => Tail(s) = <<>>)
<1>1. CASE s = <<"LOBBY_UPDATE", "MAPQUERY">>
  BY <1>1, HeadsOfTuples DEF Queues
<1>2. CASE s # <<"LOBBY_UPDATE", "MAPQUERY">>
  <2>1. PICK x : s = <<x>>
    BY <1>2 DEF Queues
  <2> QED BY <2>1, HeadsOfTuples DEF Queues
<1> QED BY <1>1, <1>2

LEMMA FinishedStep ==
  ASSUME Base, Finished, NEW c \in Client, Step(c)
  PROVE  Finished'
<1>1. SUFFICES ASSUME NEW d \in Client, ~Alive(d)'
               PROVE  req'[d] \in Queues /\ (Finishes(d)' => req'[d] = <<>>)
  BY DEF Finished
<1>2. TypedGame /\ TypedThreads /\ TypedWire /\ TypedClients /\ JobOf(c)
  BY DEF Base, Typed, Jobs
<1>3. req[d] \in Queues /\ (Finishes(d) => req[d] = <<>>)
  BY AliveQueues DEF Finished
<1>4. CASE d # c
  <2>1. hpc'[d] = hpc[d] /\ job'[d] = job[d] /\ req'[d] = req[d]
    BY <1>2, <1>4, OtherThreads, OtherQueues
  <2> QED BY <1>3, <2>1 DEF Finishes
<1>5. CASE d = c /\ Alive(c)
  <2>1. UNCHANGED <<hpc, job, req>>
    BY <1>1, <1>5, DiesOnly, EndsHow
  <2> QED BY <1>3, <1>5, <2>1 DEF Finishes
<1>6. CASE d = c /\ ~Alive(c)
  <2> USE DEF Goto, Does, TypedThreads
  <2>1. ASSUME NEW mt, Reads(c, mt)
        PROVE  req'[c] \in Queues /\ (mt = "GOODBYE" => req'[c] = <<>>)
    BY <1>2, <1>3, <1>6, <2>1, QueueRead DEF Reads, TypedWire
  <2>2. ASSUME UNCHANGED req, Finishes(c)' => Finishes(c)
        PROVE  req'[c] \in Queues /\ (Finishes(c)' => req'[c] = <<>>)
    BY <1>3, <1>6, <2>2
  <2>3. CASE ReadGoodbye(c)
    BY <1>6, <2>1, <2>3 DEF ReadGoodbye
  <2>4. CASE ReadStart(c) \/ ReadLobby(c) \/ Hello(c)
    <3>1. ~Finishes(c)'
      BY <1>2, <2>4 DEF ReadStart, ReadLobby, Hello, Work, Finishes
    <3> QED BY <1>6, <2>1, <2>4, <3>1 DEF ReadStart, ReadLobby, Hello
  <2>5. CASE QueryMap(c)
    <3>1. ~Finishes(c)'
      BY <2>5 DEF QueryMap, Reads, Finishes
    <3> QED BY <1>6, <2>1, <2>5, <3>1 DEF QueryMap
  <2>6. CASE Move(c) \/ Pickup(c)
    <3>1. (Reads(c, "MOVE") \/ Reads(c, "PICKUP")) /\ Acquire(c)
      BY <2>6, Zenon DEF Move, Pickup
    <3>2. ~Finishes(c)'
      BY <1>2, <3>1 DEF Acquire, Finishes
    <3> QED BY <1>6, <2>1, <3>1, <3>2
  <2>7. CASE Lost(c)
    BY <1>3, <1>6, <2>7 DEF Lost
  <2>8. CASE StartGame(c) \/ Change(c) \/ Break(c) \/ Win(c) \/ Unlock(c)
    <3>1. UNCHANGED req /\ hpc'[c] \in {"change", "mapcast", "overcast", "answer"}
      BY <1>2, <2>8 DEF StartGame, Acquire, Change, Break, Win, Unlock, Changed
    <3> QED BY <1>6, <2>2, <3>1 DEF Finishes
  <2>9. CASE Answer(c) \/ Refuse(c) \/ ResetCell(c)
    <3>1. UNCHANGED <<req, job>> /\ hpc'[c] \in {"idle", "post"}
          /\ (hpc'[c] = "post" => job[c].mt \in {"START", "MOVE", "PICKUP"})
      BY <1>2, <2>9 DEF Answer, Refuse, ResetCell, JobOf
    <3> QED BY <1>6, <2>2, <3>1 DEF Finishes
  <2>10. CASE Clear(c)
    <3>1. UNCHANGED req /\ Finishes(c)
      BY <1>2, <2>10 DEF Clear, JobOf, Finishes
    <3> QED BY <1>6, <2>2, <3>1
  <2>11. CASE PostBegin(c) \/ PostTo(c) \/ Subscribe(c)
    <3>1. UNCHANGED <<req, hpc, job>>
      BY <2>11 DEF PostBegin, PostTo, Subscribe
    <3> QED BY <1>6, <2>2, <3>1 DEF Finishes
  <2>12. CASE PostEnd(c)
    <3>1. UNCHANGED req /\ hpc'[c] = AfterPost(c) /\ hpc[c] \in {"mapcast", "overcast", "post"}
      BY <1>2, <2>12, NamesOK DEF PostEnd, Base, Caster
    <3>2. Finishes(c)' => Finishes(c)
      BY <3>1 DEF AfterPost, Finishes
    <3> QED BY <1>6, <2>2, <3>1, <3>2
  <2>13. CASE EventStep(c) \/ MainStep(c) \/ UserStep(c)
    <3>1. Connect(c)
      BY <1>6, <2>13 DEF EventStep, GotLobby, GotGameOver, GotStartEvent, GotGameUpdate,
         GotMapUpdate, Receives, MainStep, GotHello, GotMap, GotStart, CopyStart, GotReply, Open,
         Exit, Waits, UserStep, Start, Play, Enter, Quit, Gives, AtPrompt, Alive
    <3>2. Alive(c)'
      BY <1>2, <3>1 DEF Connect, TypedClients, Alive
    <3> QED BY <1>1, <1>6, <3>2
  <2> QED BY <1>6, <2>3, <2>4, <2>5, <2>6, <2>7, <2>8, <2>9, <2>10, <2>11, <2>12, <2>13
     DEF Step, ServerStep
<1> QED BY <1>4, <1>5, <1>6

LEMMA WaitingStep ==
  ASSUME Base, Waiting, [Next]_vars
  PROVE  Waiting'
<1>1. CASE UNCHANGED vars
  <2>1. Announced'
    BY <1>1 DEF vars, Waiting, Announced
  <2>2. WallsLeft'
    BY <1>1 DEF vars, Waiting, WallsLeft
  <2>3. Finished'
    BY <1>1 DEF vars, Waiting, Finished, Finishes, Alive
  <2> QED BY <2>1, <2>2, <2>3 DEF Waiting
<1>2. ASSUME NEW c \in Client, Step(c) PROVE Waiting'
  BY <1>2, AnnouncedStep, WallsLeftStep, FinishedStep DEF Waiting
<1> QED BY <1>1, <1>2, NextCases

(* When no thread can go on and no ACK is in the way, nobody waits for     *)
(* another thread: the clients have handled their events, so the broadcast *)
(* is over; then GameLock is free, no request is left, and every reply has *)
(* been taken.                                                             *)
LEMMA NobodyWaits ==
  ASSUME Base, Silent, Waiting, \A c \in Client : ~CanGoOn(c) /\ ~Choked(c)
  PROVE  AtRest
<1>1. TypedThreads /\ TypedWire /\ TypedClients /\ Holder /\ Caster
  BY DEF Base, Typed
<1>2. \A c \in Client : Exchange(c) /\ ~ReadsNext(c) /\ ~Serves(c) /\ ~Casts(c) /\ ~Hears(c)
                        /\ ~Continues(c) /\ ~Choked(c)
  BY DEF Base, Exchanges, CanGoOn
<1>3. ASSUME NEW c \in Client PROVE evt[c] = <<>>
  <2>1. CASE Alive(c)
    <3> SUFFICES ASSUME evt[c] # <<>> PROVE FALSE
      OBVIOUS
    <3>1. Head(evt[c]).mt \in Event
      <4>1. evt[c] \in Seq(Message)
        BY <1>1 DEF TypedWire
      <4>2. 1 \in DOMAIN evt[c] /\ Head(evt[c]) = evt[c][1]
        BY <4>1, TailFacts
      <4> QED BY <4>2 DEF Waiting, Announced
    <3>2. ~(ack[c] < AckCap)
      BY <1>2, <2>1, <3>1 DEF Hears
    <3>3. ack[c] = AckCap
      BY <1>1, <3>2, BoundsOK DEF TypedWire
    <3> QED BY <1>2, <2>1, <3>3 DEF Choked
  <2>2. CASE ~Alive(c)
    BY <2>2 DEF Silent
  <2> QED BY <2>1, <2>2
<1>4. cast.by = NoOne
  <2> SUFFICES ASSUME NEW c \in Client, cast.by = c PROVE FALSE
    BY <1>1 DEF TypedThreads
  <2>1. cast.at <= Len(subs) /\ Alive(subs[cast.at]) /\ ~(Len(evt[subs[cast.at]]) < EvtCap)
    BY <1>2 DEF Casts
  <2>2. subs[cast.at] \in Client
    BY <1>1, <2>1 DEF TypedThreads
  <2>3. Len(evt[subs[cast.at]]) = 0
    BY <1>3, <2>2, LengthsOfTuples
  <2> QED BY <2>1, <2>3, BoundsOK
<1>5. ASSUME NEW c \in Client
      PROVE  hpc[c] \in {"away", "idle", "lock", "change"}
  <2>1. hpc[c] \notin {"mapcast", "overcast", "post"}
    BY <1>2, <1>4 DEF Casts
  <2>2. hpc[c] \notin {"answer", "refuse", "clear", "reset"}
    BY <1>2 DEF Serves
  <2> QED BY <1>1, <2>1, <2>2 DEF TypedThreads
<1>6. lock = NoOne
  <2> SUFFICES ASSUME NEW c \in Client, lock = c PROVE FALSE
    BY <1>1 DEF TypedThreads
  <2>1. hpc[c] = "change"
    BY <1>1, <1>5 DEF Holder
  <2>2. job[c].breaks /\ Wall = broken
    BY <1>2, <2>1 DEF Serves
  <2> QED BY <2>1, <2>2 DEF Waiting, WallsLeft
<1>7. ASSUME NEW c \in Client PROVE hpc[c] \in {"away", "idle"}
  <2>1. hpc[c] # "lock"
    BY <1>2, <1>6 DEF Serves
  <2>2. hpc[c] # "change"
    BY <1>1, <1>6, NamesOK DEF Holder
  <2> QED BY <1>5, <2>1, <2>2
<1>8. ASSUME NEW c \in Client PROVE req[c] = <<>>
  <2>1. CASE hpc[c] = "away"
    BY <2>1, AliveQueues DEF Waiting, Finished, Finishes
  <2>2. CASE hpc[c] = "idle"
    <3> SUFFICES ASSUME req[c] # <<>> PROVE FALSE
      OBVIOUS
    <3>1. ~Subscribed(c)
      BY <1>2, <1>6, <2>2 DEF ReadsNext
    <3>2. mpc[c] # "off"
      BY <1>2 DEF Exchange
    <3> QED BY <1>2, <1>4, <3>1, <3>2 DEF Casts
  <2> QED BY <1>7, <2>1, <2>2
<1>9. ASSUME NEW c \in Client
      PROVE  mpc[c] \in {"off", "shell", "play", "gone", "crashed"} /\ rep[c] = <<>>
  <2>1. ~Served(c) /\ (\A x : req[c] # <<x>>) /\ (\A x, y : req[c] # <<x, y>>)
    BY <1>7, <1>8, HeadsOfTuples DEF Served
  <2>2. mpc[c] \notin {"copying", "opening"}
    BY <1>2 DEF Continues
  <2>3. mpc[c] \notin {"hello", "map", "start", "move", "pickup"}
    <3> SUFFICES ASSUME mpc[c] \in {"hello", "map", "start", "move", "pickup"} PROVE FALSE
      OBVIOUS
    <3>1. ~Answered(c)
      BY <1>1, <1>2, FewReplies DEF Continues
    <3> QED BY <1>2, <2>1, <3>1 DEF Exchange, Greets, Asked
  <2>4. mpc[c] # "leaving"
    <3> SUFFICES ASSUME mpc[c] = "leaving" PROVE FALSE
      OBVIOUS
    <3>1. Parts(c)
      BY <1>2, <2>1 DEF Exchange, Asked
    <3>2. hpc[c] = "away"
      BY <1>7, <3>1 DEF Parts
    <3> QED BY <1>2, <3>2 DEF Continues
  <2>5. mpc[c] \in {"off", "shell", "play", "gone", "crashed"}
    BY <1>1, <2>2, <2>3, <2>4 DEF TypedClients
  <2>6. rep[c] = <<>>
    BY <1>2, <2>5 DEF Exchange, Asked, Alive
  <2> QED BY <2>5, <2>6
<1> QED BY <1>3, <1>4, <1>6, <1>7, <1>8, <1>9 DEF AtRest

(* While anything is under way some thread can go on: requests that wait   *)
(* for GameLock, broadcasts for EventSubscribersLock and for room in the   *)
(* sockets of clients, also of those that crashed, and replies never all   *)
(* wait for each other, with any number of clients and sockets of any      *)
(* size.  The one thing that can stop them is a client whose ACKs fill its *)
(* sockets, because the server never reads them.                           *)
THEOREM SomebodyGoesOn ==
  Spec => [](AtRest \/ \E c \in Client : CanGoOn(c) \/ Choked(c))
<1>1. Init => Base /\ Informed /\ Waiting
  BY BaseInit, InformedInit, WaitingInit
<1>2. Base /\ Informed /\ Waiting /\ [Next]_vars => Base' /\ Informed' /\ Waiting'
  BY BaseStep, InformedStep, WaitingStep
<1>3. Base /\ Informed /\ Waiting => AtRest \/ \E c \in Client : CanGoOn(c) \/ Choked(c)
  BY NobodyWaits DEF Informed
<1> QED BY <1>1, <1>2, <1>3, PTL DEF Spec

----------------------------------------------------------------------------
(* What is under way comes to an end *)

(* What is left to do for c: that it subscribes; ...                       *)
Unheard(c) == IF mpc[c] # "off" /\ ~Subscribed(c) THEN 1 ELSE 0

(* ... on the server the requests it has sent, the two a hello leads to    *)
(* and the end of its session, the way through the handler that is         *)
(* running, the parts that are still to be changed and the turns of a      *)
(* broadcast; ...                                                          *)
Requests(c) == Len(req[c]) + (IF mpc[c] = "hello" THEN 2 ELSE 0)
                           + (IF Finishes(c) THEN 0 ELSE 1)
Casting(c) == (IF job[c].breaks THEN 2 ELSE 0) + (IF job[c].wins THEN 2 ELSE 0)
Stage(c) ==
  CASE hpc[c] \in {"away", "idle"} -> 0
    [] hpc[c] \in {"reset", "refuse"} -> 1
    [] hpc[c] = "post" -> IF job[c].mt = "GOODBYE" THEN 3
                          ELSE IF job[c].mt = "PICKUP" THEN 2 ELSE 1
    [] hpc[c] = "clear" -> IF job[c].mt = "GOODBYE" THEN 4 ELSE 2
    [] hpc[c] = "answer" -> 3
    [] hpc[c] = "change" -> 4 + Casting(c)
    [] hpc[c] \in {"mapcast", "overcast"} -> 5 + Casting(c)
    [] OTHER -> 9
Todo(c) == Cardinality(job[c].todo)
Turns(c) == IF cast.by # c THEN Len(subs) + 2
            ELSE IF cast.at <= Len(subs) THEN Len(subs) + 1 - cast.at ELSE 0

(* ... and in its own process the way to the next prompt, and the events.  *)
Way(c) == CASE mpc[c] = "hello" -> 5
            [] mpc[c] \in {"map", "start"} -> 4
            [] mpc[c] \in {"copying", "move", "pickup"} -> 3
            [] mpc[c] \in {"opening", "leaving"} -> 2
            [] mpc[c] \in {"shell", "play"} -> 1
            [] OTHER -> 0
Events(c) == Len(evt[c])

OnServer(c) == <<Requests(c), Stage(c), Todo(c), Turns(c)>>
InProcess(c) == <<Way(c), Events(c)>>
Counted == \A c \in Client : /\ Unheard(c) \in {0, 1}
                             /\ OnServer(c) \in Nat \X Nat \X Nat \X Nat
                             /\ InProcess(c) \in Nat \X Nat

(* The first place where two lists of numbers differ.                      *)
Less(n, m, rest) == n < m \/ (n = m /\ rest)
ServerNearer(c) ==
  Less(Requests(c)', Requests(c),
       Less(Stage(c)', Stage(c), Less(Todo(c)', Todo(c), Turns(c)' < Turns(c))))
ProcessNearer(c) == Less(Way(c)', Way(c), Events(c)' < Events(c))

(* A step is about c.  First everybody subscribes; what the server does    *)
(* for c gives clients more to do, but no thread of the server; what the   *)
(* process of c does gives nobody more to do.                              *)
Nearer(c) ==
  \/ /\ Unheard(c) = 1 /\ Unheard(c)' = 0
     /\ \A d \in Client \ {c} : Unheard(d)' = Unheard(d)
  \/ /\ \A d \in Client : Unheard(d)' = Unheard(d)
     /\ ServerNearer(c) /\ \A d \in Client \ {c} : OnServer(d)' = OnServer(d)
  \/ /\ \A d \in Client : Unheard(d)' = Unheard(d) /\ OnServer(d)' = OnServer(d)
     /\ ProcessNearer(c) /\ \A d \in Client \ {c} : InProcess(d)' = InProcess(d)
ComesNearer == \A c \in Client : ServerStep(c) \/ EventStep(c) \/ MainStep(c) => Nearer(c)

(* There are never infinitely many players, so no handler has infinitely   *)
(* many parts to change.                                                   *)
FewParts == IsFiniteSet(InGame) /\ \A c \in Client : IsFiniteSet(job[c].todo)

LEMMA FiniteParts ==
  /\ IsFiniteSet({}) /\ (\A x : IsFiniteSet({x})) /\ (\A x, y : IsFiniteSet({x, y}))
  /\ \A S, x : IsFiniteSet(S) => IsFiniteSet(S \cup {x}) /\ IsFiniteSet(S \ {x})
<1>1. \A S, x : IsFiniteSet(S) => IsFiniteSet(S \cup {x})
  BY FS_AddElement, Zenon
<1>2. \A S, x : IsFiniteSet(S) => IsFiniteSet(S \ {x})
  BY FS_RemoveElement, Zenon
<1>3. \A x : IsFiniteSet({x})
  BY FS_Singleton, Zenon
<1>4. ASSUME NEW x, NEW y PROVE IsFiniteSet({x, y})
  <2>1. {x, y} = {x} \cup {y}
    OBVIOUS
  <2>2. IsFiniteSet({x} \cup {y})
    BY <1>1, <1>3
  <2> QED BY <2>1, <2>2, Zenon
<1>5. IsFiniteSet({})
  BY FS_EmptySet, Zenon
<1> QED BY <1>1, <1>2, <1>3, <1>4, <1>5

LEMMA FewPartsInit ==
  ASSUME Init
  PROVE  FewParts
<1>1. InGame = {} /\ \A c \in Client : job[c].todo = {}
  BY DEF Init, InGame, Work
<1> QED BY <1>1, FiniteParts DEF FewParts

LEMMA FewPartsStep ==
  ASSUME Base, FewParts, NEW c \in Client, Step(c)
  PROVE  FewParts'
<1>0. TypedGame /\ TypedThreads /\ IsFiniteSet(InGame) /\ IsFiniteSet(job[c].todo)
  BY DEF Base, Typed, FewParts
<1>1. IsFiniteSet(InGame')
  <2>1. InGame' \subseteq InGame \cup {c}
    BY <1>0, TeamHow DEF InGame, TypedGame
  <2>2. IsFiniteSet(InGame \cup {c})
    BY <1>0, FiniteParts
  <2> QED BY <2>1, <2>2, FS_Subset
<1>2. ASSUME NEW d \in Client, d # c PROVE IsFiniteSet(job'[d].todo)
  <2>1. job'[d] = job[d]
    BY <1>0, <1>2, OtherThreads
  <2> QED BY <2>1 DEF FewParts
<1>3. IsFiniteSet(job'[c].todo)
  <2> USE DEF Does, TypedThreads
  <2>1. CASE job'[c] = job[c] \/ job'[c].todo = job[c].todo
    BY <1>0, <2>1
  <2>2. CASE \E mt : Does(c, Work(mt))
    BY <1>0, <2>2, FiniteParts DEF Work
  <2>3. CASE StartGame(c)
    <3>1. job'[c].todo = InGame \cup {Objs}
      BY <1>0, <2>3 DEF StartGame
    <3>2. IsFiniteSet(InGame \cup {Objs})
      BY <1>0, FiniteParts
    <3> QED BY <3>1, <3>2
  <2>4. CASE Move(c)
    <3>1. PICK S \in {{}, {c}, {c, Objs}} \cup {{c, e} : e \in InGame},
               b \in IF "break" \in Habit[c] /\ Wall # broken THEN BOOLEAN ELSE {FALSE},
               w \in IF "win" \in Habit[c] THEN BOOLEAN ELSE {FALSE} :
            Does(c, [Work("MOVE") EXCEPT !.todo = S, !.breaks = b, !.wins = w])
      BY <2>4 DEF Move
    <3>2. job'[c].todo = S
      BY <1>0, <3>1 DEF Work
    <3>3. S = {} \/ \E x, y : S = {x, y}
      OBVIOUS
    <3>4. IsFiniteSet(S)
      <4>1. CASE S = {}
        BY <4>1, FiniteParts
      <4>2. ASSUME NEW x, NEW y, S = {x, y} PROVE IsFiniteSet(S)
        <5>1. IsFiniteSet({x, y})
          BY FiniteParts
        <5> QED BY <4>2, <5>1
      <4> QED BY <3>3, <4>1, <4>2
    <3> QED BY <3>2, <3>4
  <2>5. CASE Pickup(c)
    <3>1. PICK S \in {{}, {c}}, w \in IF "win" \in Habit[c] THEN BOOLEAN ELSE {FALSE} :
            Does(c, [Work("PICKUP") EXCEPT !.todo = S, !.wins = w])
      BY <2>5 DEF Pickup
    <3>2. job'[c].todo = S
      BY <1>0, <3>1 DEF Work
    <3>3. IsFiniteSet(S)
      BY FiniteParts
    <3> QED BY <3>2, <3>3
  <2>6. CASE Change(c)
    <3>1. PICK p \in job[c].todo : job' = [job EXCEPT ![c].todo = @ \ {p}]
      BY <2>6 DEF Change
    <3>2. job'[c].todo = job[c].todo \ {p}
      BY <1>0, <3>1
    <3>3. IsFiniteSet(job[c].todo \ {p})
      BY <1>0, FiniteParts
    <3> QED BY <3>2, <3>3
  <2>7. CASE ReadStart(c) \/ ReadLobby(c) \/ ReadGoodbye(c) \/ Lost(c) \/ Hello(c)
    <3>1. \E mt : Does(c, Work(mt))
      BY <2>7 DEF ReadStart, ReadLobby, ReadGoodbye, Lost, Hello
    <3> QED BY <2>2, <3>1
  <2>8. CASE EventStep(c) \/ MainStep(c) \/ UserStep(c)
    BY <2>1, <2>8, ClientFrame
  <2>9. CASE QueryMap(c) \/ Unlock(c) \/ Answer(c) \/ Refuse(c) \/ Clear(c) \/ ResetCell(c)
    BY <2>1, <2>9 DEF QueryMap, Unlock, Answer, Refuse, Clear, ResetCell
  <2>10. CASE PostBegin(c) \/ PostTo(c) \/ Subscribe(c)
    BY <2>1, <2>10 DEF PostBegin, PostTo, Subscribe
  <2>11. CASE Break(c) \/ Win(c) \/ PostEnd(c)
    BY <1>0, <2>1, <2>11 DEF Break, Win, PostEnd
  <2> QED BY <2>3, <2>4, <2>5, <2>6, <2>7, <2>8, <2>9, <2>10, <2>11 DEF Step, ServerStep
<1> QED BY <1>1, <1>2, <1>3 DEF FewParts

LEMMA CountedNow ==
  ASSUME Base, FewParts
  PROVE  Counted
<1>1. SUFFICES ASSUME NEW c \in Client
               PROVE  /\ Unheard(c) \in {0, 1} /\ Requests(c) \in Nat /\ Stage(c) \in Nat
                      /\ Todo(c) \in Nat /\ Turns(c) \in Nat /\ Way(c) \in Nat /\ Events(c) \in Nat
  BY DEF Counted, OnServer, InProcess
<1>2. TypedThreads /\ TypedWire /\ IsFiniteSet(job[c].todo)
  BY DEF Base, Typed, FewParts
<1>3. Len(req[c]) \in Nat /\ Events(c) \in Nat /\ Len(subs) \in Nat /\ cast.at \in Nat
  BY <1>2 DEF TypedWire, TypedThreads, Events
<1>4. Requests(c) \in Nat
  <2> DEFINE n == IF mpc[c] = "hello" THEN 2 ELSE 0
             k == IF Finishes(c) THEN 0 ELSE 1
  <2>1. n \in Nat /\ k \in Nat
    OBVIOUS
  <2>2. Requests(c) = Len(req[c]) + n + k
    BY DEF Requests
  <2> HIDE DEF n, k
  <2> QED BY <1>3, <2>1, <2>2
<1>5. Stage(c) \in Nat
  <2>1. Casting(c) \in Nat
    BY DEF Casting
  <2> HIDE DEF Casting
  <2> QED BY <2>1 DEF Stage
<1>6. Todo(c) \in Nat
  BY <1>2, FS_CardinalityType DEF Todo
<1>7. Turns(c) \in Nat
  BY <1>3 DEF Turns
<1>8. Unheard(c) \in {0, 1} /\ Way(c) \in Nat
  BY DEF Unheard, Way
<1> QED BY <1>3, <1>4, <1>5, <1>6, <1>7, <1>8

(* What a step of c leaves alone.                                          *)
LEMMA OthersAsBefore ==
  ASSUME Base, NEW c \in Client, Step(c), NEW d \in Client, d # c
  PROVE  /\ Unheard(d)' = Unheard(d) /\ Requests(d)' = Requests(d) /\ Stage(d)' = Stage(d)
         /\ Todo(d)' = Todo(d) /\ Way(d)' = Way(d)
         /\ subs' = subs => OnServer(d)' = OnServer(d)
         /\ ~PostTo(c) => Events(d)' = Events(d)
<1>1. /\ TypedThreads /\ hpc'[d] = hpc[d] /\ job'[d] = job[d] /\ mpc'[d] = mpc[d]
      /\ req'[d] = req[d] /\ (~PostTo(c) => evt'[d] = evt[d])
  BY OtherThreads, OtherQueues, OtherClients DEF Base, Typed
<1>2. Subscribed(d)' <=> Subscribed(d)
  <2>1. subs \in Seq(Client)
    BY <1>1 DEF TypedThreads
  <2>2. CASE subs' = subs
    BY <2>2 DEF Subscribed
  <2>3. CASE subs' = Append(subs, c)
    BY <2>1, <2>3, AppendFacts DEF Subscribed
  <2> QED BY <1>1, <2>2, <2>3, SubsHow
<1>3. Unheard(d)' = Unheard(d)
  BY <1>1, <1>2 DEF Unheard
<1>4. Requests(d)' = Requests(d)
  BY <1>1 DEF Requests, Finishes
<1>5. Stage(d)' = Stage(d)
  BY <1>1 DEF Stage, Casting
<1>6. Todo(d)' = Todo(d) /\ Way(d)' = Way(d) /\ (~PostTo(c) => Events(d)' = Events(d))
  BY <1>1 DEF Todo, Way, Events
<1>7. ASSUME subs' = subs PROVE Turns(d)' = Turns(d)
  BY <1>7, CastHow DEF Turns
<1> QED BY <1>3, <1>4, <1>5, <1>6, <1>7 DEF OnServer

(* Who has connected stays so, and subscribes once.                        *)
LEMMA UnheardKept ==
  ASSUME Base, NEW c \in Client, ServerStep(c) \/ EventStep(c) \/ MainStep(c)
  PROVE  /\ subs' = subs => Unheard(c)' = Unheard(c)
         /\ Subscribe(c) => Unheard(c) = 1 /\ Unheard(c)' = 0
<1>1. TypedThreads /\ TypedClients /\ Step(c)
  BY DEF Base, Typed, Step
<1>2. (mpc[c] = "off" <=> mpc'[c] = "off")
  <2>1. CASE ServerStep(c)
    BY <2>1, ServerFrame
  <2>2. CASE EventStep(c)
    <3>1. Alive(c)
      BY <2>2, EventCases
    <3>2. mpc' = mpc \/ mpc'[c] = "crashed"
      BY <1>1, <2>2, EventCases DEF Handles, Dies, TypedClients
    <3> QED BY <3>1, <3>2 DEF Alive
  <2>3. CASE Open(c) \/ Exit(c)
    BY <1>1, <2>3 DEF Open, Exit, Dies, TypedClients
  <2>4. CASE GotHello(c) \/ GotMap(c) \/ GotStart(c) \/ CopyStart(c) \/ GotReply(c)
    BY <1>1, <2>4 DEF GotHello, GotMap, GotStart, CopyStart, GotReply, Waits, Done, TypedClients
  <2> QED BY <2>1, <2>2, <2>3, <2>4 DEF MainStep
<1>3. subs' = subs => Unheard(c)' = Unheard(c)
  BY <1>2 DEF Unheard, Subscribed
<1>4. ASSUME Subscribe(c) PROVE Unheard(c) = 1 /\ Unheard(c)' = 0
  BY <1>1, <1>4, SubscribedStays DEF Subscribe, Unheard
<1> QED BY <1>3, <1>4

(* A request less, or the end of the session begun.                        *)
LEMMA RequestServed ==
  ASSUME Base, NEW c \in Client, hpc[c] = "idle", UNCHANGED mpc, Len(req'[c]) \in Nat,
         Len(req'[c]) < Len(req[c]) \/ (UNCHANGED req /\ Finishes(c)')
  PROVE  ServerNearer(c)
<1> DEFINE n == IF mpc[c] = "hello" THEN 2 ELSE 0
           k == IF Finishes(c)' THEN 0 ELSE 1
<1>1. ~Finishes(c)
  BY DEF Finishes
<1>2. Requests(c) = Len(req[c]) + n + 1 /\ Requests(c)' = Len(req'[c]) + n + k
  BY <1>1 DEF Requests
<1>3. Len(req[c]) \in Nat /\ n \in Nat /\ k \in {0, 1} /\ (Finishes(c)' => k = 0)
  BY DEF Base, Typed, TypedWire
<1>4. Requests(c)' < Requests(c)
  <2> HIDE DEF n, k
  <2>1. CASE Len(req'[c]) < Len(req[c])
    BY <1>2, <1>3, <2>1
  <2>2. CASE UNCHANGED req /\ Finishes(c)'
    BY <1>2, <1>3, <2>2
  <2> QED BY <2>1, <2>2
<1> QED BY <1>4 DEF ServerNearer, Less

(* A step forward in a handler, no request more.                           *)
LEMMA HandlerForward ==
  ASSUME Base, NEW c \in Client, UNCHANGED <<mpc, req>>, Finishes(c) => Finishes(c)',
         Less(Stage(c)', Stage(c), Less(Todo(c)', Todo(c), Turns(c)' < Turns(c)))
  PROVE  ServerNearer(c)
<1> DEFINE n == IF mpc[c] = "hello" THEN 2 ELSE 0
           j == IF Finishes(c) THEN 0 ELSE 1
           k == IF Finishes(c)' THEN 0 ELSE 1
<1>1. Requests(c) = Len(req[c]) + n + j /\ Requests(c)' = Len(req[c]) + n + k
  BY DEF Requests
<1>2. Len(req[c]) \in Nat /\ n \in Nat /\ j \in Nat /\ k \in Nat /\ k <= j
  BY DEF Base, Typed, TypedWire
<1>3. Requests(c)' < Requests(c) \/ Requests(c)' = Requests(c)
  <2> HIDE DEF n, j, k
  <2> QED BY <1>1, <1>2
<1> QED BY <1>3 DEF ServerNearer, Less

LEMMA ReadsNearer ==
  ASSUME Base, NEW c \in Client, NEW mt, Reads(c, mt), UNCHANGED mpc
  PROVE  ServerNearer(c)
<1>1. hpc[c] = "idle" /\ req[c] \in Seq(Request) /\ req[c] # <<>> /\ req'[c] = Tail(req[c])
  BY DEF Reads, Base, Typed, TypedWire
<1>2. Len(req'[c]) \in Nat /\ Len(req'[c]) < Len(req[c])
  BY <1>1, TailFacts
<1> QED BY <1>1, <1>2, RequestServed

(* A step that is lower only in the stage it is at.                        *)
LEMMA StageForward ==
  ASSUME Base, NEW c \in Client, UNCHANGED <<mpc, req>>, Finishes(c) => Finishes(c)',
         Stage(c)' < Stage(c)
  PROVE  ServerNearer(c)
<1>1. Less(Stage(c)', Stage(c), Less(Todo(c)', Todo(c), Turns(c)' < Turns(c)))
  BY DEF Less
<1> QED BY <1>1, HandlerForward

LEMMA ServerStepNearer ==
  ASSUME Base, FewParts, NEW c \in Client, ServerStep(c), ~Subscribe(c)
  PROVE  ServerNearer(c)
<1>0. /\ TypedGame /\ TypedThreads /\ TypedWire /\ JobOf(c) /\ UNCHANGED mpc
      /\ job[c].breaks \in BOOLEAN /\ job[c].wins \in BOOLEAN
  BY ServerFrame DEF Base, Typed, Jobs, TypedThreads
<1> USE DEF Goto, TypedThreads
<1>1. CASE ReadStart(c) \/ ReadLobby(c) \/ ReadGoodbye(c) \/ QueryMap(c) \/ Hello(c)
           \/ Move(c) \/ Pickup(c)
  <2>1. \E mt : Reads(c, mt)
    BY <1>1 DEF ReadStart, ReadLobby, ReadGoodbye, QueryMap, Hello, Move, Pickup
  <2> QED BY <1>0, <2>1, ReadsNearer
<1>2. CASE Lost(c)
  <2>1. hpc[c] = "idle" /\ UNCHANGED req /\ hpc'[c] = "clear" /\ job'[c].mt = "LOST"
    BY <1>0, <1>2 DEF Lost, Does, Work
  <2>2. Len(req'[c]) \in Nat /\ Finishes(c)'
    BY <1>0, <2>1 DEF Finishes, TypedWire
  <2> QED BY <1>0, <2>1, <2>2, RequestServed
<1>3. CASE StartGame(c)
  <2>1. hpc[c] = "lock" /\ hpc'[c] = "change" /\ UNCHANGED req
    BY <1>0, <1>3 DEF StartGame, Acquire
  <2>2. Stage(c) = 9 /\ Stage(c)' \in {4, 6, 8}
    BY <2>1 DEF Stage, Casting
  <2>3. ~Finishes(c)
    BY <2>1 DEF Finishes
  <2> QED BY <1>0, <2>1, <2>2, <2>3, StageForward
<1>4. CASE Change(c)
  <2>1. PICK p \in job[c].todo : job' = [job EXCEPT ![c].todo = @ \ {p}]
    BY <1>4 DEF Change
  <2>2. /\ job'[c].todo = job[c].todo \ {p} /\ job'[c].breaks = job[c].breaks
        /\ job'[c].wins = job[c].wins /\ hpc[c] = "change" /\ UNCHANGED <<hpc, req>>
    BY <1>0, <1>4, <2>1 DEF Change
  <2>3. Todo(c)' < Todo(c)
    <3>1. IsFiniteSet(job[c].todo)
      BY DEF FewParts
    <3>2. Cardinality(job[c].todo \ {p}) = Cardinality(job[c].todo) - 1
      BY <2>1, <3>1, FS_RemoveElement, Zenon
    <3>3. Cardinality(job[c].todo) \in Nat
      BY <3>1, FS_CardinalityType
    <3> QED BY <2>2, <3>2, <3>3 DEF Todo
  <2>4. Stage(c)' = Stage(c) /\ ~Finishes(c)
    BY <2>2 DEF Stage, Casting, Finishes
  <2>5. Less(Stage(c)', Stage(c), Less(Todo(c)', Todo(c), Turns(c)' < Turns(c)))
    BY <2>3, <2>4 DEF Less
  <2> QED BY <1>0, <2>2, <2>4, <2>5, HandlerForward
<1>5. CASE Break(c)
  <2>1. /\ hpc[c] = "change" /\ hpc'[c] = "mapcast" /\ UNCHANGED req /\ job[c].breaks
        /\ ~job'[c].breaks /\ job'[c].wins = job[c].wins
    BY <1>0, <1>5 DEF Break, Changed
  <2>2. Stage(c)' < Stage(c)
    BY <2>1 DEF Stage, Casting
  <2>3. ~Finishes(c)
    BY <2>1 DEF Finishes
  <2> QED BY <1>0, <2>1, <2>2, <2>3, StageForward
<1>6. CASE Win(c)
  <2>1. /\ hpc[c] = "change" /\ hpc'[c] = "overcast" /\ UNCHANGED req /\ job[c].wins
        /\ ~job'[c].wins /\ job'[c].breaks = job[c].breaks
    BY <1>0, <1>6 DEF Win, Changed
  <2>2. Stage(c)' < Stage(c)
    BY <2>1 DEF Stage, Casting
  <2>3. ~Finishes(c)
    BY <2>1 DEF Finishes
  <2> QED BY <1>0, <2>1, <2>2, <2>3, StageForward
<1>7. CASE Unlock(c)
  <2>1. hpc[c] = "change" /\ hpc'[c] = "answer" /\ UNCHANGED req
    BY <1>0, <1>7 DEF Unlock, Changed
  <2>2. Stage(c)' < Stage(c)
    BY <2>1 DEF Stage, Casting
  <2>3. ~Finishes(c)
    BY <2>1 DEF Finishes
  <2> QED BY <1>0, <2>1, <2>2, <2>3, StageForward
<1>8. CASE Answer(c)
  <2>1. /\ hpc[c] = "answer" /\ hpc'[c] \in {"idle", "post"} /\ UNCHANGED <<req, job>>
        /\ job[c].mt # "GOODBYE"
    BY <1>0, <1>8 DEF Answer, JobOf
  <2>2. Stage(c) = 3 /\ Stage(c)' \in {0, 1, 2}
    BY <2>1 DEF Stage
  <2>3. ~Finishes(c)
    BY <2>1 DEF Finishes
  <2> QED BY <1>0, <2>1, <2>2, <2>3, StageForward
<1>9. CASE Refuse(c) \/ ResetCell(c)
  <2>1. hpc[c] \in {"refuse", "reset"} /\ hpc'[c] = "idle" /\ UNCHANGED req
    BY <1>0, <1>9 DEF Refuse, ResetCell
  <2>2. Stage(c) = 1 /\ Stage(c)' = 0
    BY <2>1 DEF Stage
  <2>3. ~Finishes(c)
    BY <2>1 DEF Finishes
  <2> QED BY <1>0, <2>1, <2>2, <2>3, StageForward
<1>10. CASE Clear(c)
  <2>1. /\ hpc[c] = "clear" /\ hpc'[c] = "post" /\ UNCHANGED <<req, job>>
        /\ job[c].mt \in {"GOODBYE", "LOST"}
    BY <1>0, <1>10 DEF Clear, JobOf
  <2>2. Stage(c)' < Stage(c)
    BY <2>1 DEF Stage
  <2>3. Finishes(c)'
    BY <2>1 DEF Finishes
  <2> QED BY <1>0, <2>1, <2>2, <2>3, StageForward
<1>11. CASE PostEnd(c)
  <2>1. hpc[c] \in {"mapcast", "overcast", "post"}
    BY <1>11, NamesOK DEF PostEnd, Base, Caster
  <2>2. /\ hpc'[c] = AfterPost(c) /\ UNCHANGED req
        /\ job'[c] = IF job[c].mt = "GOODBYE" THEN [job[c] EXCEPT !.mt = "LOST"] ELSE job[c]
    BY <1>0, <1>11 DEF PostEnd
  <2>3. /\ job'[c].breaks = job[c].breaks /\ job'[c].wins = job[c].wins
        /\ job'[c].mt = IF job[c].mt = "GOODBYE" THEN "LOST" ELSE job[c].mt
    BY <1>0, <2>2
  <2>4. Stage(c)' < Stage(c)
    <3>1. CASE hpc[c] \in {"mapcast", "overcast"}
      <4>1. hpc'[c] = "change" /\ Casting(c)' = Casting(c) /\ Casting(c) \in {0, 2, 4}
        BY <2>2, <2>3, <3>1 DEF AfterPost, Casting
      <4>2. Stage(c) = 5 + Casting(c) /\ Stage(c)' = 4 + Casting(c)'
        BY <3>1, <4>1 DEF Stage
      <4> QED BY <4>1, <4>2
    <3>2. CASE hpc[c] = "post"
      <4>1. CASE job[c].mt = "GOODBYE"
        BY <2>2, <2>3, <3>2, <4>1 DEF AfterPost, Stage
      <4>2. CASE job[c].mt = "PICKUP"
        BY <2>2, <2>3, <3>2, <4>2 DEF AfterPost, Stage
      <4>3. CASE job[c].mt \notin {"GOODBYE", "PICKUP"}
        BY <2>2, <2>3, <3>2, <4>3 DEF AfterPost, Stage
      <4> QED BY <4>1, <4>2, <4>3
    <3> QED BY <2>1, <3>1, <3>2
  <2>5. Finishes(c) => Finishes(c)'
    BY <2>1, <2>2, <2>3 DEF AfterPost, Finishes
  <2> QED BY <1>0, <2>2, <2>4, <2>5, StageForward
<1>12. CASE PostBegin(c) \/ PostTo(c)
  <2>1. UNCHANGED <<req, hpc, job, subs>>
    BY <1>12 DEF PostBegin, PostTo
  <2>2. Stage(c)' = Stage(c) /\ Todo(c)' = Todo(c) /\ (Finishes(c) => Finishes(c)')
    BY <2>1 DEF Stage, Casting, Todo, Finishes
  <2>3. Len(subs) \in Nat /\ cast.at \in Nat
    BY <1>0
  <2>4. Turns(c)' < Turns(c)
    <3>1. CASE PostBegin(c)
      <4>1. cast.by # c /\ cast'.by = c /\ cast'.at = 1
        BY <3>1, NamesOK DEF PostBegin
      <4> QED BY <2>1, <2>3, <4>1 DEF Turns
    <3>2. CASE PostTo(c)
      <4>1. /\ cast.by = c /\ cast.at <= Len(subs) /\ cast'.by = c /\ cast'.at = cast.at + 1
        BY <1>0, <3>2 DEF PostTo
      <4> QED BY <2>1, <2>3, <4>1 DEF Turns
    <3> QED BY <1>12, <3>1, <3>2
  <2>5. Less(Stage(c)', Stage(c), Less(Todo(c)', Todo(c), Turns(c)' < Turns(c)))
    BY <2>2, <2>4 DEF Less
  <2> QED BY <1>0, <2>1, <2>2, <2>5, HandlerForward
<1> QED BY <1>1, <1>2, <1>3, <1>4, <1>5, <1>6, <1>7, <1>8, <1>9, <1>10, <1>11, <1>12
   DEF ServerStep

(* Nothing changes on the server for c, unless its process ends before the *)
(* hello is answered.                                                      *)
LEMMA ClientStepServer ==
  ASSUME Base, NEW c \in Client, EventStep(c) \/ MainStep(c)
  PROVE  /\ UNCHANGED server
         /\ OnServer(c)' = OnServer(c) \/ (mpc[c] = "hello" /\ Ends(c))
<1>0. /\ TypedThreads /\ TypedWire /\ TypedClients /\ Exchange(c) /\ Step(c) /\ Alive(c)
  <2>1. Alive(c)
    <3>1. MainStep(c) => Alive(c)
      BY DEF MainStep, GotHello, GotMap, GotStart, CopyStart, GotReply, Open, Exit, Waits, Alive
    <3> QED BY <3>1, EventCases
  <2> QED BY <2>1 DEF Base, Typed, Exchanges, Step
<1>1. UNCHANGED server
  <2>1. UNCHANGED <<game, walls, lock, job, channel>> /\ UNCHANGED hpc
    BY <1>0, ClientFrame DEF Alive
  <2> QED BY <2>1
<1>2. Stage(c)' = Stage(c) /\ Todo(c)' = Todo(c) /\ Turns(c)' = Turns(c)
      /\ Finishes(c)' = Finishes(c)
  BY <1>1 DEF Stage, Casting, Todo, Turns, Finishes
<1>3. ASSUME UNCHANGED req, mpc'[c] = "hello" <=> mpc[c] = "hello"
      PROVE  OnServer(c)' = OnServer(c)
  <2>1. Requests(c)' = Requests(c)
    BY <1>2, <1>3 DEF Requests
  <2> QED BY <1>2, <2>1 DEF OnServer
<1>4. CASE Ends(c)
  <2>1. UNCHANGED req /\ mpc'[c] \in {"gone", "crashed"}
    BY <1>0, <1>4, EndsHow
  <2>2. CASE mpc[c] # "hello"
    BY <1>1, <1>3, <2>1, <2>2
  <2> QED BY <1>1, <1>4, <2>2
<1>5. CASE EventStep(c) /\ ~Ends(c)
  <2>1. UNCHANGED <<mpc, req>>
    BY <1>5, EventCases DEF Handles, Ends
  <2> QED BY <1>1, <1>3, <2>1
<1>6. CASE GotHello(c)
  <2>1. mpc[c] = "hello" /\ rep[c] # <<>> /\ mpc'[c] = "map"
    BY <1>0, <1>6 DEF GotHello, Waits, TypedClients
  <2>2. req[c] = <<>>
    BY <1>0, <2>1, FewReplies DEF Answered
  <2>3. req'[c] = <<"LOBBY_UPDATE", "MAPQUERY">>
    BY <1>0, <1>6, <2>2, ConcatEmpty DEF GotHello, Send, TypedWire
  <2>4. Len(req[c]) = 0 /\ Len(req'[c]) = 2
    BY <2>2, <2>3, LengthsOfTuples
  <2>5. Requests(c)' = Requests(c)
    BY <1>2, <2>1, <2>4 DEF Requests
  <2> QED BY <1>1, <1>2, <2>1, <2>5 DEF OnServer
<1>7. CASE GotMap(c) \/ GotStart(c) \/ CopyStart(c) \/ GotReply(c)
  <2>1. UNCHANGED req /\ mpc[c] # "hello" /\ mpc'[c] # "hello"
    BY <1>0, <1>7 DEF GotMap, GotStart, CopyStart, GotReply, Waits, Done, TypedClients
  <2> QED BY <1>1, <1>3, <2>1
<1>8. CASE (Open(c) \/ Exit(c)) /\ ~Ends(c)
  <2>1. UNCHANGED req /\ mpc[c] # "hello" /\ mpc'[c] # "hello"
    BY <1>0, <1>8 DEF Open, Exit, Ends, TypedClients
  <2> QED BY <1>1, <1>3, <2>1
<1> QED BY <1>4, <1>5, <1>6, <1>7, <1>8 DEF MainStep

LEMMA ClientStepNearer ==
  ASSUME Base, NEW c \in Client, EventStep(c) \/ MainStep(c)
  PROVE  ProcessNearer(c)
<1>0. TypedWire /\ TypedClients /\ Step(c)
  BY DEF Base, Typed, Step
<1>1. Way(c)' < Way(c) => ProcessNearer(c)
  BY DEF ProcessNearer, Less
<1>2. CASE Ends(c)
  <2>1. mpc'[c] \in {"gone", "crashed"}
    BY <1>0, <1>2, EndsHow
  <2>2. Alive(c)
    <3>1. MainStep(c) => Alive(c)
      BY DEF MainStep, GotHello, GotMap, GotStart, CopyStart, GotReply, Open, Exit, Waits, Alive
    <3> QED BY <3>1, EventCases
  <2>3. mpc[c] \in {"hello", "map", "shell", "start", "copying", "opening", "play", "move",
                    "pickup", "leaving"}
    BY <1>0, <2>2 DEF TypedClients, Alive
  <2>4. Way(c)' = 0 /\ Way(c) \in {1, 2, 3, 4, 5}
    BY <2>1, <2>3 DEF Way
  <2> QED BY <1>1, <2>4
<1>3. CASE EventStep(c) /\ ~Ends(c)
  <2>1. UNCHANGED mpc /\ evt[c] # <<>> /\ evt'[c] = Tail(evt[c]) /\ evt[c] \in Seq(Message)
    BY <1>0, <1>3, EventCases DEF Handles, Ends, TypedWire
  <2>2. Len(evt'[c]) = Len(evt[c]) - 1 /\ Len(evt[c]) \in Nat
    BY <2>1, TailFacts
  <2>3. Way(c)' = Way(c) /\ Events(c)' < Events(c)
    BY <2>1, <2>2 DEF Way, Events
  <2> QED BY <2>3 DEF ProcessNearer, Less
<1>4. ASSUME Done(c) PROVE mpc'[c] \in {"play", "opening", "shell"}
  BY <1>0, <1>4 DEF Done, TypedClients
<1>5. CASE GotHello(c)
  BY <1>0, <1>1, <1>5 DEF GotHello, Waits, TypedClients, Way
<1>6. CASE GotMap(c) \/ CopyStart(c) \/ GotReply(c)
  <2>1. mpc[c] \in {"map", "copying", "move", "pickup"} /\ Done(c)
    BY <1>6 DEF GotMap, CopyStart, GotReply, Waits
  <2> QED BY <1>1, <1>4, <2>1 DEF Way
<1>7. CASE GotStart(c)
  <2>1. mpc[c] = "start" /\ mpc'[c] \in {"play", "opening", "shell", "copying"}
    BY <1>0, <1>4, <1>7 DEF GotStart, Waits, TypedClients
  <2> QED BY <1>1, <2>1 DEF Way
<1>8. CASE (Open(c) \/ Exit(c)) /\ ~Ends(c)
  <2>1. mpc[c] = "opening" /\ mpc'[c] = "play"
    BY <1>0, <1>8 DEF Open, Exit, Ends, TypedClients
  <2> QED BY <1>1, <2>1 DEF Way
<1> QED BY <1>2, <1>3, <1>5, <1>6, <1>7, <1>8 DEF MainStep

LEMMA StepNearer ==
  ASSUME Base, FewParts, NEW c \in Client, ServerStep(c) \/ EventStep(c) \/ MainStep(c)
  PROVE  Nearer(c)
<1>0. Step(c) /\ TypedThreads
  BY DEF Step, Base, Typed
<1>1. \A d \in Client \ {c} :
        /\ Unheard(d)' = Unheard(d) /\ Way(d)' = Way(d)
        /\ subs' = subs => OnServer(d)' = OnServer(d)
        /\ ~PostTo(c) => Events(d)' = Events(d)
  BY <1>0, OthersAsBefore
<1>2. CASE Subscribe(c)
  BY <1>1, <1>2, UnheardKept DEF Nearer
<1>3. CASE ServerStep(c) /\ ~Subscribe(c)
  <2>1. subs' = subs
    BY <1>0, <1>3, SubsHow
  <2>2. \A d \in Client : Unheard(d)' = Unheard(d)
    BY <1>1, <2>1, UnheardKept
  <2>3. ServerNearer(c)
    BY <1>3, ServerStepNearer
  <2> QED BY <1>1, <2>1, <2>2, <2>3 DEF Nearer
<1>4. CASE EventStep(c) \/ MainStep(c)
  <2>1. UNCHANGED server
    BY <1>4, ClientStepServer
  <2>2. \A d \in Client : Unheard(d)' = Unheard(d)
    BY <1>1, <2>1, UnheardKept
  <2>3. CASE OnServer(c)' = OnServer(c)
    <3>1. \A d \in Client : OnServer(d)' = OnServer(d)
      BY <1>1, <2>1, <2>3
    <3>2. ~PostTo(c)
      BY <1>0, <2>1 DEF PostTo, TypedThreads
    <3>3. \A d \in Client \ {c} : InProcess(d)' = InProcess(d)
      BY <1>1, <3>2 DEF InProcess
    <3>4. ProcessNearer(c)
      BY <1>4, ClientStepNearer
    <3> QED BY <2>2, <3>1, <3>3, <3>4 DEF Nearer
  <2>4. CASE mpc[c] = "hello" /\ Ends(c)
    <3>1. mpc'[c] \in {"gone", "crashed"} /\ UNCHANGED req
      BY <1>0, <2>4, EndsHow
    <3>2. Finishes(c)' = Finishes(c)
      BY <2>1 DEF Finishes
    <3>3. Requests(c)' < Requests(c)
      <4> DEFINE k == IF Finishes(c) THEN 0 ELSE 1
      <4>1. Requests(c) = Len(req[c]) + 2 + k /\ Requests(c)' = Len(req[c]) + 0 + k
        BY <2>4, <3>1, <3>2 DEF Requests
      <4>2. Len(req[c]) \in Nat /\ k \in Nat
        BY DEF Base, Typed, TypedWire
      <4> HIDE DEF k
      <4> QED BY <4>1, <4>2
    <3>4. ServerNearer(c) /\ \A d \in Client \ {c} : OnServer(d)' = OnServer(d)
      BY <1>1, <2>1, <3>3 DEF ServerNearer, Less
    <3> QED BY <2>2, <3>4 DEF Nearer
  <2> QED BY <1>4, <2>3, <2>4, ClientStepServer
<1> QED BY <1>2, <1>3, <1>4

(* Unless users give commands, everything comes to rest: whatever a thread *)
(* of the program does lowers what is left to do, whichever thread it is   *)
(* and however they take turns.  No two of them keep each other busy: a    *)
(* request leads to one broadcast, an event to no request, a crash to one  *)
(* last broadcast.                                                         *)
THEOREM ComesToRest == Spec => []Counted /\ [][ComesNearer]_vars
<1>1. Init => Base /\ FewParts
  BY BaseInit, FewPartsInit
<1>2. Base /\ FewParts /\ [Next]_vars => Base' /\ FewParts'
  <2> SUFFICES ASSUME Base, FewParts, [Next]_vars PROVE Base' /\ FewParts'
    OBVIOUS
  <2>1. CASE UNCHANGED vars
    <3>1. FewParts'
      BY <2>1 DEF vars, FewParts, InGame
    <3> QED BY <3>1, BaseStep
  <2>2. ASSUME NEW c \in Client, Step(c) PROVE Base' /\ FewParts'
    BY <2>2, BaseStep, FewPartsStep
  <2> QED BY <2>1, <2>2, NextCases
<1>3. Base /\ FewParts => Counted
  BY CountedNow
<1>4. Base /\ FewParts => ComesNearer
  BY StepNearer DEF ComesNearer
<1> QED BY <1>1, <1>2, <1>3, <1>4, PTL DEF Spec
=============================================================================
