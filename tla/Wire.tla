-------------------------------- MODULE Wire --------------------------------
(***************************************************************************)
(* The RPC connection of a client, down to its bytes: the two sessions     *)
(* (src/lib/protocol_session.c) with their headers, bodies and buffers,    *)
(* the partial reads and writes of src/lib/net.c, the query for the map    *)
(* that goes over it, and the loss of the connection at any byte.          *)
(*                                                                         *)
(* Both ends run the same code: send_msg, then rcv_msg; the client asks,   *)
(* the thread of proto_server_rpc_dispatcher answers.  A header has four   *)
(* units here: its type, the game with the size of the map, the length of  *)
(* the body, and the rest; a body has one for each character.  Meanwhile   *)
(* the threads of other clients break walls.                               *)
(***************************************************************************)
EXTENDS Maps

CONSTANTS PROTO_SESSION_BUF_SIZE,
          Socket,    \* units the sockets hold in each direction
          MaxAsks    \* requests of the client

Side == {"client", "server"}
Peer(s) == IF s = "client" THEN "server" ELSE "client"
Least(a, b) == IF a <= b THEN a ELSE b

HeaderSize == 4
Request == {"MAPQUERY", "MOVE"}
Unit == [part : 1..(HeaderSize + 1), mt : Request \cup {"NONE"}, len : Nat, char : Letters]

ASSUME BufferOK == PROTO_SESSION_BUF_SIZE \in Nat /\ PROTO_SESSION_BUF_SIZE >= StringSize
ASSUME BoundsOK == Socket \in Nat \ {0} /\ MaxAsks \in Nat

VARIABLES
  board,    \* the server's map
  \* each end: its descriptor, its thread, the message it is receiving
  open, pc,
  got,      \* units of the header
  mt, blen, \* s->rhdr; 0 and no type until they are read
  filled,   \* units of the body
  rbuf,
  \* the connection, by the end that reads
  stream,   \* what its peer has written or is writing, and it has not read
  sent,     \* how much of that is in the sockets
  \* the server's answer
  str,      \* mapStr, as far as convertToString has come
  sbuf,     \* the body marshalled so far; slen is its length
  \* the client
  cmap,     \* its map
  trust,    \* what that is: no map, a whole one, one cut short, or junk
  shdr,     \* the type of its last request
  asks, before  \* requests so far; the walls broken at the last query

session == <<open, pc, got, mt, blen, filled, rbuf>>
wire == <<stream, sent>>
answer == <<str, sbuf>>
client == <<cmap, trust, shdr, asks, before>>
vars == <<board, session, wire, answer, client>>

Wall == {c \in Cell : Parsed[c] = "WALL_UNFIXED"}
Broken == {c \in Wall : board[c] # "WALL_UNFIXED"}

Init ==
  /\ board = Parsed
  /\ open = [s \in Side |-> TRUE]
  /\ pc = [client |-> "idle", server |-> "header"]
  /\ got = [s \in Side |-> 0] /\ mt = [s \in Side |-> "NONE"]
  /\ blen = [s \in Side |-> 0] /\ filled = [s \in Side |-> 0]
  /\ rbuf = [s \in Side |-> [k \in 1..PROTO_SESSION_BUF_SIZE |-> "nul"]]
  /\ stream = [s \in Side |-> <<>>] /\ sent = [s \in Side |-> 0]
  /\ str = <<>> /\ sbuf = <<>>
  /\ cmap = [c \in Cell |-> "INVALID"] /\ trust = "none"
  /\ shdr = "NONE" /\ asks = 0 /\ before = {}

Goto(s, l) == pc' = [pc EXCEPT ![s] = l]

----------------------------------------------------------------------------
(* proto_session_send_msg and net_writen *)

(* The length counts the terminator of the string. *)
Message_CountsNul(type, body) ==
  [k \in 1..(HeaderSize + Len(body)) |->
     IF k <= HeaderSize
     THEN [part |-> k, mt |-> type, len |-> Len(body) + 1, char |-> "nul"]
     ELSE [part |-> HeaderSize + 1, mt |-> "NONE", len |-> 0, char |-> body[k - HeaderSize]]]

Message(type, body) ==
  [k \in 1..(HeaderSize + Len(body)) |->
     IF k <= HeaderSize
     THEN [part |-> k, mt |-> type, len |-> Len(body), char |-> "nul"]
     ELSE [part |-> HeaderSize + 1, mt |-> "NONE", len |-> 0, char |-> body[k - HeaderSize]]]

Writes(s, m) ==
  /\ stream' = [stream EXCEPT ![Peer(s)] = @ \o m]
  /\ UNCHANGED sent
  /\ Goto(s, "send")

(* proto_session_rcv_msg, which forgets the last header, follows. *)
StartReceive(s) ==
  /\ got' = [got EXCEPT ![s] = 0] /\ mt' = [mt EXCEPT ![s] = "NONE"]
  /\ blen' = [blen EXCEPT ![s] = 0] /\ filled' = [filled EXCEPT ![s] = 0]
  /\ Goto(s, "header")
  /\ UNCHANGED <<open, rbuf>>

(* The server resets its send buffer; there is nothing in the client's.    *)
AfterSend(s) ==
  /\ StartReceive(s)
  /\ sbuf' = IF s = "server" THEN <<>> ELSE sbuf

(* The sockets take as much as they have room for. *)
SendSome(s) ==
  LET p == Peer(s)
      unsent == Len(stream[p]) - sent[p]
  IN /\ pc[s] = "send" /\ open[s] /\ open[p]
     /\ \E n \in 1..Least(unsent, Socket - sent[p]) :
          /\ sent' = [sent EXCEPT ![p] = @ + n]
          /\ IF n = unsent THEN AfterSend(s) ELSE UNCHANGED <<session, sbuf>>
     /\ UNCHANGED <<board, stream, str, client>>

(* Nobody is there any more, or the descriptor is closed: net_writen       *)
(* fails, and send_msg does not tell.                                      *)
SendNothing(s) ==
  /\ pc[s] = "send" /\ ~(open[s] /\ open[Peer(s)])
  /\ stream' = [stream EXCEPT ![Peer(s)] = SubSeq(@, 1, sent[Peer(s)])]
  /\ AfterSend(s)
  /\ UNCHANGED <<board, sent, str, client>>

----------------------------------------------------------------------------
(* proto_session_rcv_msg and net_readn *)

Takes(s, n) ==
  /\ stream' = [stream EXCEPT ![s] = SubSeq(@, n + 1, Len(@))]
  /\ sent' = [sent EXCEPT ![s] = @ - n]

(* Every read asks for a whole header again. *)
RecvHeader_Again(s) ==
  /\ pc[s] = "header" /\ open[s]
  /\ \E n \in 1..Least(HeaderSize, sent[s]) :
       /\ Takes(s, n)
       /\ got' = [got EXCEPT ![s] = @ + n]
       /\ mt' = IF got[s] = 0 THEN [mt EXCEPT ![s] = stream[s][1].mt] ELSE mt
       /\ IF got[s] + n < HeaderSize THEN UNCHANGED pc ELSE Goto(s, "deliver")
  /\ UNCHANGED <<board, open, blen, filled, rbuf, answer, client>>

(* The body is left in the socket. *)
RecvHeader_NoBody(s) ==
  /\ pc[s] = "header" /\ open[s]
  /\ \E n \in 1..Least(HeaderSize - got[s], sent[s]) :
       /\ Takes(s, n)
       /\ got' = [got EXCEPT ![s] = @ + n]
       /\ mt' = IF got[s] = 0 THEN [mt EXCEPT ![s] = stream[s][1].mt] ELSE mt
       /\ IF got[s] + n < HeaderSize THEN UNCHANGED pc ELSE Goto(s, "deliver")
  /\ UNCHANGED <<board, open, blen, filled, rbuf, answer, client>>

RecvHeader(s) ==
  /\ pc[s] = "header" /\ open[s]
  /\ \E n \in 1..Least(HeaderSize - got[s], sent[s]) :
       /\ Takes(s, n)
       /\ got' = [got EXCEPT ![s] = @ + n]
       /\ mt' = IF got[s] = 0 THEN [mt EXCEPT ![s] = stream[s][1].mt] ELSE mt
       /\ blen' = IF got[s] < 3 /\ got[s] + n >= 3
                  THEN [blen EXCEPT ![s] = stream[s][3 - got[s]].len] ELSE blen
       /\ IF got[s] + n < HeaderSize THEN UNCHANGED pc
          ELSE Goto(s, IF blen'[s] = 0 THEN "deliver" ELSE "body")
  /\ UNCHANGED <<board, open, filled, rbuf, answer, client>>

RecvBody(s) ==
  /\ pc[s] = "body" /\ open[s]
  /\ \E n \in 1..Least(blen[s] - filled[s], sent[s]) :
       /\ Takes(s, n)
       /\ rbuf' = [rbuf EXCEPT ![s] =
            [k \in 1..PROTO_SESSION_BUF_SIZE |->
               IF k - filled[s] \in 1..n THEN stream[s][k - filled[s]].char ELSE @[k]]]
       /\ filled' = [filled EXCEPT ![s] = @ + n]
       /\ IF filled[s] + n < blen[s] THEN UNCHANGED pc ELSE Goto(s, "deliver")
  /\ UNCHANGED <<board, open, got, mt, blen, answer, client>>

(* The dispatcher goes on when nothing can be read. *)
RecvEnd_GoesOn(s) ==
  /\ pc[s] \in {"header", "body"}
  /\ ~open[s] \/ (sent[s] = 0 /\ ~open[Peer(s)])
  /\ open' = [open EXCEPT ![s] = FALSE]
  /\ Goto(s, IF s = "client" THEN "deliver" ELSE "header")
  /\ UNCHANGED <<board, got, mt, blen, filled, rbuf, wire, answer, client>>

(* The end of the connection in the middle of a message, or before it: the *)
(* descriptor is closed.  The dispatcher ends; the client goes on and      *)
(* looks at the header it has got.                                         *)
RecvEnd(s) ==
  /\ pc[s] \in {"header", "body"}
  /\ ~open[s] \/ (sent[s] = 0 /\ ~open[Peer(s)])
  /\ open' = [open EXCEPT ![s] = FALSE]
  /\ Goto(s, IF s = "client" THEN "deliver" ELSE "ended")
  /\ UNCHANGED <<board, got, mt, blen, filled, rbuf, wire, answer, client>>

----------------------------------------------------------------------------
(* The thread of the connection on the server *)

(* What was received is dispatched on its type. *)
Serve ==
  /\ pc["server"] = "deliver"
  /\ IF mt["server"] = "MAPQUERY" THEN Goto("server", "convert") /\ UNCHANGED wire
     ELSE Writes("server", Message(mt["server"], sbuf))
  /\ UNCHANGED <<board, open, got, mt, blen, filled, rbuf, answer, client>>

(* convertToString takes cell after cell, without GameLock. *)
Convert ==
  /\ pc["server"] = "convert" /\ Len(str) < StringSize - 1
  /\ str' = Append(str, CharAt(board, Len(str)))
  /\ UNCHANGED <<board, session, wire, sbuf, client>>

(* The terminator is marshalled, too. *)
Marshalled_WithNul(string) == Append(string, "nul")

(* proto_session_hdr_marshall_mapBody: character by character, as long as  *)
(* there is room for one more and a byte; what does not fit is left out.   *)
Marshalled(string) ==
  sbuf \o SubSeq(string, 1, Least(Len(string), PROTO_SESSION_BUF_SIZE - 1 - Len(sbuf)))

AnswerMap ==
  /\ pc["server"] = "convert" /\ Len(str) = StringSize - 1
  /\ sbuf' = Marshalled(str) /\ str' = <<>>
  /\ Writes("server", Message("MAPQUERY", sbuf'))
  /\ UNCHANGED <<board, open, got, mt, blen, filled, rbuf, client>>

----------------------------------------------------------------------------
(* The client's main thread *)

(* A map of some size is kept; it is not asked for again. *)
Ask(type) ==
  /\ pc["client"] = "idle" /\ asks < MaxAsks
  /\ type = "MAPQUERY" => trust \in {"none", "empty"}
  /\ asks' = asks + 1 /\ shdr' = type
  /\ before' = IF type = "MAPQUERY" THEN Broken ELSE before
  /\ Writes("client", Message(type, <<>>))
  /\ UNCHANGED <<board, open, got, mt, blen, filled, rbuf, answer, cmap, trust>>

(* Without a type the RPC has failed.  Otherwise do_generic_dummy_rpc calls *)
(* the handler, also when rcv_msg has failed, and takes its word for it.   *)
(* In a header cut short the size of the map is 0, or it has a size and no *)
(* body, or the length of its body is still in network order.              *)
DeliverNothing ==
  /\ pc["client"] = "deliver" /\ got["client"] = 0
  /\ Goto("client", "lost")
  /\ UNCHANGED <<board, open, got, mt, blen, filled, rbuf, wire, answer, client>>

DeliverMap ==
  /\ pc["client"] = "deliver" /\ mt["client"] = "MAPQUERY"
  /\ trust' = CASE got["client"] = 1 -> "empty"
                 [] got["client"] \in {2, 3} -> "junk"
                 [] got["client"] = HeaderSize /\ filled["client"] < blen["client"] -> "cut"
                 [] OTHER -> "map"
  /\ cmap' = IF got["client"] = HeaderSize THEN FromString(rbuf["client"]) ELSE cmap
  /\ Goto("client", IF got["client"] = 3 THEN "crashed" ELSE "idle")
  /\ UNCHANGED <<board, open, got, mt, blen, filled, rbuf, wire, answer, shdr, asks, before>>

DeliverMove ==
  /\ pc["client"] = "deliver" /\ mt["client"] = "MOVE"
  /\ Goto("client", "idle")
  /\ UNCHANGED <<board, open, got, mt, blen, filled, rbuf, wire, answer, client>>

----------------------------------------------------------------------------
(* The others *)

(* A handler in another thread breaks a wall. *)
BreakWall ==
  /\ \E c \in Wall \ Broken : board' = [board EXCEPT ![c] = Cleared(board, c)]
  /\ UNCHANGED <<session, wire, answer, client>>

(* The process at one end ends, or its machine does: what it has sent may  *)
(* arrive or not.                                                          *)
Die(s) ==
  /\ pc[s] \notin {"crashed", "ended"}
  /\ Goto(s, "ended")
  /\ open' = [open EXCEPT ![s] = FALSE]
  /\ \E n \in 0..sent[Peer(s)] :
       /\ stream' = [stream EXCEPT ![Peer(s)] = SubSeq(@, 1, n)]
       /\ sent' = [sent EXCEPT ![Peer(s)] = n]
  /\ UNCHANGED <<board, got, mt, blen, filled, rbuf, answer, client>>

Session(s) == SendSome(s) \/ SendNothing(s) \/ RecvHeader(s) \/ RecvBody(s) \/ RecvEnd(s)
ClientThread == Session("client") \/ DeliverNothing \/ DeliverMap \/ DeliverMove
ServerThread == Session("server") \/ Serve \/ Convert \/ AnswerMap

Next ==
  \/ ClientThread \/ ServerThread
  \/ \E type \in Request : Ask(type)
  \/ BreakWall
  \/ \E s \in Side : Die(s)

(* A thread that can go on does; a user need not ask. *)
Spec == Init /\ [][Next]_vars /\ WF_vars(ClientThread) /\ WF_vars(ServerThread)

----------------------------------------------------------------------------
(* Properties *)

TypeOK ==
  /\ board \in [Cell -> CellType]
  /\ open \in [Side -> BOOLEAN]
  /\ pc \in [Side -> {"idle", "send", "header", "body", "deliver", "convert",
                      "lost", "crashed", "ended"}]
  /\ got \in [Side -> 0..HeaderSize]
  /\ mt \in [Side -> Request \cup {"NONE"}]
  /\ blen \in [Side -> Nat] /\ filled \in [Side -> Nat]
  /\ rbuf \in [Side -> [1..PROTO_SESSION_BUF_SIZE -> Letters]]
  /\ stream \in [Side -> Seq(Unit)]
  /\ sent \in [Side -> 0..Socket]
  /\ str \in Seq(Letters) /\ sbuf \in Seq(Letters)
  /\ cmap \in [Cell -> CellType]
  /\ trust \in {"none", "map", "cut", "empty", "junk"}
  /\ shdr \in Request \cup {"NONE"}
  /\ asks \in 0..MaxAsks /\ before \subseteq Cell

(* Reader and writer agree on where a message begins and ends, wherever    *)
(* the reads and writes have cut it: the next unit is the next one of the  *)
(* header, or one of the body with no more to come than its length says;   *)
(* and between two requests nothing is left over.                          *)
InStep ==
  \A s \in Side : stream[s] # <<>> =>
    CASE pc[s] = "header" -> stream[s][1].part = got[s] + 1
      [] pc[s] = "body" -> /\ stream[s][1].part = HeaderSize + 1
                           /\ Len(stream[s]) <= blen[s] - filled[s]
      [] OTHER -> ~open[s]

(* What is read fits into the receive buffer, which rcv_msg does not       *)
(* check, and the string with its terminator into the array the client has *)
(* made for it by the size of the map.                                     *)
BodyFits ==
  \A s \in Side : /\ filled[s] <= PROTO_SESSION_BUF_SIZE
                  /\ pc[s] = "deliver" => blen[s] < StringSize

(* A map received whole is the server's, but for the walls that are still  *)
(* standing on it, and the side a broken wall belongs to: the server goes  *)
(* by its neighbours and the client by its column.                         *)
MapsAgree ==
  trust = "map" =>
    \A c \in Cell : IF c \in Wall THEN cmap[c] \in {"WALL_UNFIXED", SideOf(c[2])}
                    ELSE cmap[c] = board[c]

(* Even on a map cut short there is floor only where there is.             *)
NoPhantom ==
  trust \in {"map", "cut"} =>
    \A c \in Cell : cmap[c] \in Floor => board[c] \in Floor

(* An RPC ends: with an answer, or because the connection is lost.         *)
InRpc == pc["client"] \in {"send", "header", "body", "deliver"}
RpcEnds == InRpc ~> ~InRpc

(* The server learns that a client is gone by reading, never by sending,   *)
(* and always.                                                             *)
LossNoticed == ~open["client"] ~> pc["server"] = "ended"

(* While the connection lasts the query for the map is as good as one that *)
(* takes no time, whatever is broken while it is converted and under way.  *)
Whole == open["client"] /\ open["server"]
Shown == {c \in Wall : trust = "map" /\ cmap[c] \in Floor}
E == INSTANCE Exchange WITH
       broken <- Broken,
       before <- IF Whole THEN before ELSE {}, shown <- IF Whole THEN Shown ELSE {},
       state <- IF ~Whole THEN "lost" ELSE IF ~InRpc THEN "idle"
                ELSE IF shdr = "MAPQUERY" THEN "query" ELSE "other"
Refines == E!Spec
=============================================================================
