---------------------------- MODULE CopiesProofs ----------------------------
(***************************************************************************)
(* The copies the clients keep move forward only: Feed implements Copies,  *)
(* for any number of clients.                                              *)
(***************************************************************************)
EXTENDS FeedProofs

USE DEF game, walls, thread, channel, wire, copies, client, history, server

(* What is older: no part of it is newer.                                  *)
AtMost(f, g) == \A p \in Part : f[p] <= g[p]
Game(m) == m.mt \in {"START", "GAME_UPDATE"}
Loose == astray \cup overtaken

(* Nothing shows what the server has not had, the events of a client show  *)
(* the game as it went on, and its copy is older than those that are still *)
(* under way.                                                              *)
Past(c) ==
  /\ AtMost(view[c], part)
  /\ \A k \in DOMAIN rep[c] : AtMost(rep[c][k].view, part)
  /\ \A k \in DOMAIN evt[c] : AtMost(evt[c][k].view, part)
InOrder(c) == \A j, k \in DOMAIN evt[c] :
  j < k /\ Game(evt[c][j]) /\ Game(evt[c][k]) => AtMost(evt[c][j].view, evt[c][k].view)
Behind(c) == c \notin Loose /\ cstatus[c] # "NOT_STARTED" =>
  \A k \in DOMAIN evt[c] : Game(evt[c][k]) => AtMost(view[c], evt[c][k].view)
Order == \A c \in Client : Past(c) /\ InOrder(c) /\ Behind(c)

LEMMA AtMostTrans ==
  ASSUME NEW f \in [Part -> Nat], NEW g \in [Part -> Nat], NEW h \in [Part -> Nat],
         AtMost(f, g), AtMost(g, h)
  PROVE  AtMost(f, h)
BY DEF AtMost

LEMMA AtMostZero ==
  ASSUME NEW f \in [Part -> Nat]
  PROVE  AtMost(Zero, f) /\ AtMost(f, f)
BY ZeroType DEF AtMost

(* A part is changed by one step at a time, which changes nothing else     *)
(* that a client could see.                                                *)
LEMMA PartHow ==
  ASSUME Typed, NEW c \in Client, Step(c)
  PROVE  \/ part' = part
         \/ /\ \E p \in Part : part' = [part EXCEPT ![p] = @ + 1]
            /\ UNCHANGED <<history, view, cstatus>>
<1>1. CASE EventStep(c) \/ MainStep(c) \/ UserStep(c)
  BY <1>1, ClientFrame
<1>2. CASE Change(c)
  BY <1>2 DEF Change, Typed, TypedThreads
<1>3. CASE Clear(c)
  BY <1>3 DEF Clear, Part
<1>4. CASE ReadStart(c) \/ ReadLobby(c) \/ ReadGoodbye(c) \/ Lost(c) \/ QueryMap(c) \/ Hello(c)
  BY <1>4 DEF ReadStart, ReadLobby, ReadGoodbye, Lost, QueryMap, Hello
<1>5. CASE StartGame(c) \/ Move(c) \/ Pickup(c) \/ Break(c) \/ Win(c) \/ Unlock(c)
  BY <1>5 DEF StartGame, Move, Pickup, Acquire, Break, Win, Unlock
<1>6. CASE Answer(c) \/ Refuse(c) \/ ResetCell(c) \/ PostBegin(c) \/ PostTo(c) \/ PostEnd(c)
           \/ Subscribe(c)
  BY <1>6 DEF Answer, Refuse, ResetCell, PostBegin, PostTo, PostEnd, Subscribe
<1> QED BY <1>1, <1>2, <1>3, <1>4, <1>5, <1>6 DEF Step, ServerStep

LEMMA PartGrows ==
  ASSUME Typed, NEW c \in Client, Step(c)
  PROVE  AtMost(part, part')
<1>1. part \in [Part -> Nat]
  BY DEF Typed, TypedGame
<1> QED BY <1>1, PartHow DEF AtMost

(* A broadcast may make several clients loose, a client only itself.       *)
LEMMA LooseGrows ==
  ASSUME NEW c \in Client, Step(c)
  PROVE  /\ Loose \subseteq Loose'
         /\ EventStep(c) \/ MainStep(c) \/ UserStep(c) => Loose' \in {Loose, Loose \cup {c}}
<1> DEFINE Own == Loose' \in {Loose, Loose \cup {c}}
<1>1. EventStep(c) => Own
  BY DEF EventStep, GotLobby, GotGameOver, GotStartEvent, GotGameUpdate, GotMapUpdate, Dies, Loose
<1>2. MainStep(c) => Own
  BY DEF MainStep, GotHello, GotMap, GotStart, CopyStart, GotReply, Open, Exit, Dies, Loose
<1>3. UserStep(c) => Own
  BY DEF UserStep, Connect, Start, Play, Enter, Quit, Loose
<1>4. CASE ReadStart(c) \/ ReadLobby(c) \/ ReadGoodbye(c) \/ Lost(c) \/ QueryMap(c) \/ Hello(c)
  BY <1>1, <1>2, <1>3, <1>4 DEF ReadStart, ReadLobby, ReadGoodbye, Lost, QueryMap, Hello, Loose
<1>5. CASE StartGame(c) \/ Move(c) \/ Pickup(c) \/ Change(c) \/ Break(c) \/ Win(c) \/ Unlock(c)
  BY <1>1, <1>2, <1>3, <1>5 DEF StartGame, Move, Pickup, Change, Break, Win, Unlock, Loose
<1>6. CASE Answer(c) \/ Refuse(c) \/ Clear(c) \/ ResetCell(c) \/ PostTo(c) \/ PostEnd(c)
           \/ Subscribe(c)
  BY <1>1, <1>2, <1>3, <1>6 DEF Answer, Refuse, Clear, ResetCell, PostTo, PostEnd, Subscribe, Loose
<1>7. CASE PostBegin(c)
  BY <1>1, <1>2, <1>3, <1>7 DEF PostBegin, Loose
<1> HIDE DEF Own
<1>8. Own => Loose \subseteq Loose'
  BY DEF Own
<1> QED BY <1>1, <1>2, <1>3, <1>4, <1>5, <1>6, <1>7, <1>8 DEF Step, ServerStep, Own

----------------------------------------------------------------------------
(* Order *)

(* A message with the game in it shows it as it is, the others show none.  *)
LEMMA PostedView ==
  ASSUME Base
  PROVE  LET m == PostMessage(cast.mt) IN
         m \in Message /\ AtMost(m.view, part) /\ (Game(m) => m.view = part)
<1>1. cast.mt \in Event /\ part \in [Part -> Nat] /\ TypedGame
  BY DEF Base, Typed, TypedGame, TypedThreads
<1>2. PostMessage(cast.mt) \in Message /\ PostFields(cast.mt, PostMessage(cast.mt))
  BY <1>1, MessagesTyped, PostMessageFields
<1> HIDE DEF Base
<1> QED BY <1>1, <1>2, AtMostZero DEF PostFields, Game

LEMMA PastStep ==
  ASSUME Base, Order, NEW c \in Client, Step(c), NEW d \in Client
  PROVE  Past(d)'
<1> USE DEF Base, Typed
<1>1. Base' /\ Past(d) /\ AtMost(part, part')
  BY BaseStep, PartGrows DEF Order, Next, Step, Program
<1>2. /\ part \in [Part -> Nat] /\ part' \in [Part -> Nat]
      /\ view[d] \in [Part -> Nat] /\ view'[d] \in [Part -> Nat]
      /\ evt[d] \in Seq(Message) /\ evt'[d] \in Seq(Message)
      /\ rep[d] \in Seq(Message) /\ rep'[d] \in Seq(Message)
  BY <1>1 DEF TypedGame, TypedClients, TypedWire
<1>3. \A m \in Message : m.view \in [Part -> Nat]
  BY DEF Message
<1> HIDE DEF Base, Typed
<1>4. ASSUME NEW f \in [Part -> Nat], AtMost(f, part) PROVE AtMost(f, part')
  BY <1>1, <1>2, <1>4, AtMostTrans
<1>5. rep[d] # <<>> => Head(rep[d]) \in Message /\ AtMost(Head(rep[d]).view, part)
  BY <1>1, <1>2 DEF Past
<1>6. evt[d] # <<>> => Head(evt[d]) \in Message /\ AtMost(Head(evt[d]).view, part)
  BY <1>1, <1>2 DEF Past
<1>7. AtMost(view'[d], part')
  <2>1. CASE view'[d] = view[d]
    BY <1>1, <1>2, <1>4, <2>1 DEF Past
  <2>2. CASE d = c /\ Ends(c)
    BY <1>2, <2>2, EndsHow, AtMostZero
  <2>3. CASE d = c /\ Adopts(c)
    BY <1>3, <1>4, <1>6, <2>3 DEF Adopts, Handles
  <2>4. CASE d = c /\ Copies(c)
    BY <1>3, <1>4, <1>5, <2>4 DEF Copies
  <2>5. CASE d = c /\ Races(c)
    <3>1. \A p \in Part : view'[c][p] \in {view[c][p], Head(rep[c]).view[p]}
      BY <2>5 DEF Races
    <3>2. AtMost(view[d], part') /\ AtMost(Head(rep[d]).view, part')
      BY <1>1, <1>2, <1>3, <1>4, <1>5, <2>5 DEF Past, Races
    <3> QED BY <2>5, <3>1, <3>2 DEF AtMost
  <2>6. CASE d = c /\ TakesMap(c)
    <3>1. AtMost(view[d], part') /\ AtMost(Head(rep[d]).view, part')
      BY <1>1, <1>2, <1>3, <1>4, <1>5, <2>6 DEF Past, TakesMap
    <3> QED BY <1>2, <2>6, <3>1 DEF AtMost, TakesMap
  <2> QED BY <2>1, <2>2, <2>3, <2>4, <2>5, <2>6, CopyCases
<1>8. \A k \in DOMAIN rep'[d] : AtMost(rep'[d][k].view, part')
  <2>1. CASE rep'[d] = rep[d]
    BY <1>1, <1>2, <1>3, <1>4, <2>1 DEF Past
  <2>2. CASE rep'[d] = <<>>
    BY <2>2
  <2>3. CASE d = c /\ \E m \in Message : RepliesWith(c, m)
    <3>1. PICK m \in Message : RepliesWith(c, m)
      BY <2>3
    <3>2. rep'[d] = <<m>> /\ part' = part
      BY <2>3, <3>1 DEF RepliesWith
    <3>3. m.view = part \/ m.view = Zero
      BY <3>1, MapReplyFields, SnapshotFields, HeaderFields DEF RepliesWith
    <3>4. AtMost(m.view, part')
      BY <1>2, <3>2, <3>3, AtMostZero
    <3> QED BY <3>2, <3>4
  <2> QED BY <2>1, <2>2, <2>3, ReplyQueues
<1>9. \A k \in DOMAIN evt'[d] : AtMost(evt'[d][k].view, part')
  <2>1. CASE evt'[d] = evt[d]
    BY <1>1, <1>2, <1>3, <1>4, <2>1 DEF Past
  <2>2. CASE Appends(c, d)
    <3>1. PICK m \in Message : evt'[d] = Append(evt[d], m) /\ AtMost(m.view, part)
      BY <2>2, PostedView DEF Appends
    <3> QED BY <1>1, <1>2, <1>3, <1>4, <3>1 DEF Past
  <2>3. CASE d = c /\ Handles(c)
    BY <1>1, <1>2, <1>3, <1>4, <2>3, TailFacts DEF Past, Handles
  <2>4. CASE d = c /\ Ends(c)
    BY <2>4, EndsHow
  <2> QED BY <2>1, <2>2, <2>3, <2>4, EventQueues
<1> QED BY <1>7, <1>8, <1>9 DEF Past

LEMMA InOrderStep ==
  ASSUME Base, Order, NEW c \in Client, Step(c), NEW d \in Client
  PROVE  InOrder(d)'
<1>1. /\ InOrder(d) /\ \A k \in DOMAIN evt[d] : AtMost(evt[d][k].view, part)
      /\ evt[d] \in Seq(Message)
  BY DEF Order, Past, Base, Typed, TypedWire
<1>2. CASE evt'[d] = evt[d]
  BY <1>1, <1>2 DEF InOrder
<1>3. CASE Appends(c, d)
  <2>1. PICK m \in Message : evt'[d] = Append(evt[d], m) /\ (Game(m) => m.view = part)
    BY <1>3, PostedView DEF Appends
  <2>2. /\ DOMAIN evt[d] = 1..Len(evt[d]) /\ DOMAIN evt'[d] = 1..(Len(evt[d]) + 1)
        /\ evt'[d][Len(evt[d]) + 1] = m /\ \A k \in 1..Len(evt[d]) : evt'[d][k] = evt[d][k]
        /\ Len(evt[d]) \in Nat
    BY <1>1, <2>1, AppendFacts
  <2>3. SUFFICES ASSUME NEW j \in DOMAIN evt'[d], NEW k \in DOMAIN evt'[d], j < k,
                        Game(evt'[d][j]), Game(evt'[d][k])
                 PROVE  AtMost(evt'[d][j].view, evt'[d][k].view)
    BY DEF InOrder, Game
  <2>4. j \in 1..Len(evt[d]) /\ evt'[d][j] = evt[d][j]
    BY <2>2, <2>3
  <2>5. CASE k \in 1..Len(evt[d])
    BY <1>1, <2>2, <2>3, <2>4, <2>5 DEF InOrder
  <2>6. CASE k = Len(evt[d]) + 1
    BY <1>1, <2>1, <2>2, <2>3, <2>4, <2>6
  <2> QED BY <2>2, <2>5, <2>6
<1>4. CASE d = c /\ Handles(c)
  <2>1. evt[d] # <<>> /\ evt'[d] = Tail(evt[d])
    BY <1>4 DEF Handles
  <2>2. /\ DOMAIN evt[d] = 1..Len(evt[d]) /\ DOMAIN evt'[d] = 1..Len(evt'[d])
        /\ Len(evt'[d]) = Len(evt[d]) - 1 /\ \A k \in 1..Len(evt'[d]) : evt'[d][k] = evt[d][k + 1]
        /\ Len(evt[d]) \in Nat
    BY <1>1, <2>1, TailFacts
  <2>3. SUFFICES ASSUME NEW j \in DOMAIN evt'[d], NEW k \in DOMAIN evt'[d], j < k,
                        Game(evt'[d][j]), Game(evt'[d][k])
                 PROVE  AtMost(evt'[d][j].view, evt'[d][k].view)
    BY DEF InOrder, Game
  <2> DEFINE n == Len(evt[d])
  <2>n. n \in Nat /\ j \in 1..(n - 1) /\ k \in 1..(n - 1) /\ j < k
    BY <2>2, <2>3
  <2>m. j + 1 \in 1..n /\ k + 1 \in 1..n /\ j + 1 < k + 1
    <3> HIDE DEF n
    <3> QED BY <2>n
  <2>4. /\ j + 1 \in DOMAIN evt[d] /\ k + 1 \in DOMAIN evt[d] /\ j + 1 < k + 1
        /\ evt'[d][j] = evt[d][j + 1] /\ evt'[d][k] = evt[d][k + 1]
    BY <2>2, <2>m
  <2>5. Game(evt[d][j + 1]) /\ Game(evt[d][k + 1])
    BY <2>3, <2>4
  <2>6. AtMost(evt[d][j + 1].view, evt[d][k + 1].view)
    BY <1>1, <2>4, <2>5 DEF InOrder
  <2> QED BY <2>4, <2>6
<1>5. CASE d = c /\ Ends(c)
  <2>1. evt'[d] = <<>>
    BY <1>5, EndsHow
  <2> QED BY <2>1 DEF InOrder
<1> QED BY <1>2, <1>3, <1>4, <1>5, EventQueues

LEMMA BehindStep ==
  ASSUME Base, Order, NEW c \in Client, Step(c), NEW d \in Client
  PROVE  Behind(d)'
<1>1. /\ Past(d) /\ InOrder(d) /\ Behind(d) /\ Loose \subseteq Loose'
      /\ evt[d] \in Seq(Message) /\ view[d] \in [Part -> Nat] /\ part \in [Part -> Nat]
  BY LooseGrows DEF Order, Base, Typed, TypedWire, TypedClients, TypedGame
<1>2. SUFFICES ASSUME d \notin Loose', cstatus'[d] # "NOT_STARTED",
                      NEW k \in DOMAIN evt'[d], Game(evt'[d][k])
               PROVE  AtMost(view'[d], evt'[d][k].view)
  BY DEF Behind, Game
<1>3. d \notin Loose
  BY <1>1, <1>2
<1>4. CASE view'[d] = view[d] /\ cstatus'[d] = cstatus[d]
  <2>1. CASE evt'[d] = evt[d]
    BY <1>1, <1>2, <1>3, <1>4, <2>1 DEF Behind
  <2>2. CASE Appends(c, d)
    <3>1. PICK m \in Message : evt'[d] = Append(evt[d], m) /\ (Game(m) => m.view = part)
      BY <2>2, PostedView DEF Appends
    <3>2. \/ k \in DOMAIN evt[d] /\ evt'[d][k] = evt[d][k]
          \/ evt'[d][k] = m
      BY <1>1, <1>2, <3>1, AppendFacts
    <3> QED BY <1>1, <1>2, <1>3, <1>4, <3>1, <3>2 DEF Behind, Past
  <2>3. CASE d = c /\ Handles(c)
    <3>1. k + 1 \in DOMAIN evt[d] /\ evt'[d][k] = evt[d][k + 1]
      BY <1>1, <1>2, <2>3, TailFacts DEF Handles
    <3> QED BY <1>1, <1>2, <1>3, <1>4, <3>1 DEF Behind
  <2>4. CASE d = c /\ Ends(c)
    BY <1>2, <2>4, EndsHow
  <2> QED BY <2>1, <2>2, <2>3, <2>4, EventQueues
<1>5. CASE d = c /\ Ends(c)
  BY <1>2, <1>5, EndsHow
<1>6. CASE d = c /\ Adopts(c)
  <2>1. /\ 1 \in DOMAIN evt[d] /\ view'[d] = evt[d][1].view /\ Game(evt[d][1])
        /\ k + 1 \in DOMAIN evt[d] /\ 1 < k + 1 /\ evt'[d][k] = evt[d][k + 1]
    <3>1. evt[d] # <<>> /\ evt'[d] = Tail(evt[d]) /\ view'[d] = Head(evt[d]).view
          /\ Game(Head(evt[d]))
      BY <1>6 DEF Adopts, Handles, Game
    <3> QED BY <1>1, <1>2, <3>1, TailFacts
  <2> QED BY <1>1, <1>2, <2>1 DEF InOrder
<1>7. CASE d = c /\ Copies(c)
  <2>1. evt' = evt /\ view'[c] = Head(rep[c]).view /\ ~Older(c, Head(rep[c]))
    BY <1>2, <1>7 DEF Copies, CopyStart, Loose
  <2>2. \A p \in Part : ~(evt[d][k].view[p] < view'[d][p])
    BY <1>2, <1>7, <2>1 DEF Older, Game
  <2>3. evt[d][k].view \in [Part -> Nat] /\ view'[d] \in [Part -> Nat]
    <3>1. rep[c] \in Seq(Message) /\ rep[c] # <<>>
      BY <1>7 DEF Copies, Base, Typed, TypedWire
    <3>2. Head(rep[c]) \in Message /\ evt[d][k] \in Message
      BY <1>1, <1>2, <2>1, <3>1
    <3> QED BY <1>7, <2>1, <3>2 DEF Message
  <2> QED BY <2>1, <2>2, <2>3 DEF AtMost
<1>8. CASE d = c /\ Races(c)
  BY <1>2, <1>8 DEF Races, Loose
<1>9. CASE d = c /\ TakesMap(c)
  BY <1>2, <1>9 DEF TakesMap, Loose
<1> QED BY <1>4, <1>5, <1>6, <1>7, <1>8, <1>9, CopyCases

LEMMA OrderInit == Init => Order
BY ZeroType DEF Init, Order, Past, InOrder, Behind, AtMost

LEMMA OrderStep ==
  ASSUME Base, Order, [Next]_vars
  PROVE  Order'
<1>1. CASE UNCHANGED vars
  BY <1>1 DEF vars, Order, Past, InOrder, Behind, AtMost, Game, Loose
<1>2. CASE \E c \in Client : Step(c)
  BY <1>2, PastStep, InOrderStep, BehindStep DEF Order
<1> QED BY <1>1, <1>2, NextCases

----------------------------------------------------------------------------
(* The refinement *)

USE DEF C!vars

(* Steps that leave every copy alone.                                      *)
LEMMA RefinesAlone ==
  ASSUME Base, NEW c \in Client, Step(c), \A d \in Client : Shown(d)' = Shown(d)
  PROVE  [C!Next]_(C!vars)
<1>1. [d \in Client |-> Shown(d)]' = [d \in Client |-> Shown(d)]
  OBVIOUS
<1>2. CASE part' = part
  <2>1. C!Loosen
    BY <1>1, <1>2, LooseGrows DEF C!Loosen, Loose
  <2> QED BY <2>1 DEF C!Next
<1>3. CASE part' # part
  <2>1. /\ \E p \in Part : part' = [part EXCEPT ![p] = @ + 1]
        /\ UNCHANGED history
    BY <1>3, PartHow DEF Base
  <2>2. \E p \in Part : C!Advance(p)
    BY <1>1, <2>1 DEF C!Advance
  <2> QED BY <2>2 DEF C!Next
<1> QED BY <1>2, <1>3

(* Steps that write one copy.                                              *)
LEMMA RefinesOwn ==
  ASSUME Base, Order, NEW c \in Client, EventStep(c) \/ MainStep(c) \/ UserStep(c),
         Ends(c) \/ Adopts(c) \/ Copies(c) \/ Races(c) \/ TakesMap(c)
  PROVE  [C!Next]_(C!vars)
<1>0. Step(c)
  BY DEF Step
<1>1. /\ Typed /\ Typed' /\ Past(c)' /\ part' = part /\ Loose' \in {Loose, Loose \cup {c}}
      /\ \A d \in Client \ {c} : view'[d] = view[d] /\ cstatus'[d] = cstatus[d]
  <2>1. Base'
    BY <1>0, BaseStep DEF Next, Program, Step
  <2>2. \A d \in Client \ {c} : view'[d] = view[d] /\ cstatus'[d] = cstatus[d]
    BY <1>0, OtherClients DEF Base, Typed
  <2>3. Past(c)'
    BY <1>0, PastStep
  <2>4. part' = part
    BY ClientFrame
  <2>5. Loose' \in {Loose, Loose \cup {c}}
    BY <1>0, LooseGrows
  <2> QED BY <2>1, <2>2, <2>3, <2>4, <2>5 DEF Base
<1>2. /\ part \in [Part -> Nat] /\ view[c] \in [Part -> Nat] /\ view'[c] \in [Part -> Nat]
  BY <1>1 DEF Typed, TypedGame, TypedClients
<1>3. C!OnlyCopyOf(c)
  <2>1. \A p \in Part : Shown(c)'[p] <= part[p]
    BY <1>1, <1>2, ZeroType DEF Shown, Past, AtMost
  <2>2. \A d \in Client \ {c} : Shown(d)' = Shown(d)
    BY <1>1 DEF Shown
  <2> QED BY <1>1, <2>1, <2>2 DEF C!OnlyCopyOf
<1>4. CASE Loose' = Loose \cup {c}
  <2>1. C!FallBack(c)
    BY <1>3, <1>4 DEF C!FallBack, Loose
  <2> QED BY <2>1 DEF C!Next
<1>5. CASE Loose' = Loose /\ c \notin Loose
  <2>1. CASE cstatus'[c] = "NOT_STARTED"
    <3>1. \A p \in Part : Shown(c)'[p] = 0
      BY <2>1, ZeroType DEF Shown
    <3>2. C!Forget(c)
      BY <1>3, <1>5, <3>1 DEF C!Forget, Loose
    <3> QED BY <3>2 DEF C!Next
  <2>2. CASE cstatus[c] = "NOT_STARTED"
    <3>1. \A p \in Part : Shown(c)[p] <= Shown(c)'[p]
      BY <1>2, <2>2, ZeroType DEF Shown
    <3>2. C!Refresh(c)
      BY <1>3, <1>5, <3>1 DEF C!Refresh, Loose
    <3> QED BY <3>2 DEF C!Next
  <2>3. CASE cstatus[c] # "NOT_STARTED" /\ cstatus'[c] # "NOT_STARTED"
    <3>1. Adopts(c)
      BY <1>0, <1>5, <2>3, EndsHow DEF Copies, Races, TakesMap, Loose
    <3>2. /\ evt[c] # <<>> /\ evt[c] \in Seq(Message) /\ Game(Head(evt[c]))
          /\ view'[c] = Head(evt[c]).view
      BY <1>1, <3>1 DEF Adopts, Handles, Game, Typed, TypedWire
    <3>3. 1 \in DOMAIN evt[c] /\ Game(evt[c][1]) /\ view'[c] = evt[c][1].view
      BY <3>2, TailFacts
    <3>4. AtMost(view[c], view'[c])
      BY <1>5, <2>3, <3>3 DEF Order, Behind
    <3>5. C!Refresh(c)
      BY <1>3, <1>5, <2>3, <3>4 DEF C!Refresh, Loose, Shown, AtMost
    <3> QED BY <3>5 DEF C!Next
  <2> QED BY <2>1, <2>2, <2>3
<1> QED BY <1>1, <1>4, <1>5

LEMMA RefinesStep ==
  ASSUME Base, Order, [Next]_vars
  PROVE  [C!Next]_(C!vars)
<1>1. CASE UNCHANGED vars
  BY <1>1 DEF vars, Shown
<1>2. ASSUME NEW c \in Client, Step(c) PROVE [C!Next]_(C!vars)
  <2>1. CASE \A d \in Client : view'[d] = view[d] /\ cstatus'[d] = cstatus[d]
    <3>1. \A d \in Client : Shown(d)' = Shown(d)
      BY <2>1 DEF Shown
    <3> QED BY <1>2, <3>1, RefinesAlone
  <2>2. CASE \E d \in Client : ~(view'[d] = view[d] /\ cstatus'[d] = cstatus[d])
    <3>1. Ends(c) \/ Adopts(c) \/ Copies(c) \/ Races(c) \/ TakesMap(c)
      BY <1>2, <2>2, CopyCases
    <3>2. EventStep(c) \/ MainStep(c) \/ UserStep(c)
      BY <1>2, <2>2, ServerFrame DEF Step
    <3> QED BY <3>1, <3>2, RefinesOwn
  <2> QED BY <2>1, <2>2
<1> QED BY <1>1, <1>2, NextCases

(* A client's copy of the game shows nothing the server has not had, and   *)
(* each part of it only moves forward, until the client forgets it whole;  *)
(* except where both threads of the client have written it, where an event *)
(* was sent before the client had subscribed, and where the reply to the   *)
(* host's START has overtaken an event that shows the game before it.      *)
THEOREM CopiesMoveForward == Spec => Refines
<1>1. Init => Base /\ Order /\ C!Init
  <2>1. Init => C!Init
    BY DEF Init, C!Init, Shown, Zero
  <2> QED BY <2>1, BaseInit, OrderInit
<1>2. Base /\ Order /\ [Next]_vars => Base' /\ Order' /\ [C!Next]_(C!vars)
  BY BaseStep, OrderStep, RefinesStep
<1> QED BY <1>1, <1>2, PTL DEF Spec, Refines, C!Spec
=============================================================================
