----------------------------- MODULE WireProofs -----------------------------
(***************************************************************************)
(* Theorems about Wire, for every square map, every size of the buffers    *)
(* and sockets, and any number of requests.                                *)
(***************************************************************************)
EXTENDS Wire, SequenceTheorems, TLAPS

(* Parts of the invariant.  The length of the body of a message, by its    *)
(* reader and type.                                                        *)
L(s, m) == IF s = "client" /\ m = "MAPQUERY" THEN StringSize - 1 ELSE 0

(* The type of the message s is reading the header of. *)
M(s) == IF got[s] = 0 THEN stream[s][1].mt ELSE mt[s]

(* The type of a message is that of the last request of the client.        *)
Asked(m) == m \in Request /\ (Whole => m = shdr)

(* What a character of the string may be: as the map was read from the     *)
(* file, unless its wall had been broken before the client asked, or as it *)
(* is now.                                                                 *)
CellAt(k) == <<k \div (dimension + 1), k % (dimension + 1)>>
Plausible(k, ch) ==
  /\ k \in 1..(StringSize - 1)
  /\ \/ ch = CharAt(board, k - 1)
     \/ ch = CharAt(Parsed, k - 1)
Fresh(k, ch) == CellAt(k - 1) \in before => ch = CharAt(board, k - 1)

BoardOK ==
  \A c \in Cell : IF c \in Wall THEN board[c] \in Floor \cup {"WALL_UNFIXED"}
                  ELSE board[c] = Parsed[c]

Places ==
  /\ pc["client"] \in {"idle", "send", "header", "body", "deliver", "lost", "crashed", "ended"}
  /\ pc["server"] \in {"header", "deliver", "convert", "send", "ended"}
  /\ open["server"] <=> pc["server"] # "ended"
  /\ open["client"] \/ pc["client"] = "ended" \/ ~open["server"]
  /\ pc["client"] = "ended" => ~open["client"]
  /\ pc["client"] = "crashed" => ~open["client"]
  /\ pc["client"] = "lost" => ~open["client"]
  /\ ~open["client"] /\ pc["client"] # "ended" => stream["client"] = <<>>

(* The two ends take turns, as long as both are there. *)
Turns ==
  open["client"] /\ open["server"] =>
    /\ pc["client"] \in {"idle", "deliver"} =>
         pc["server"] = "header" /\ got["server"] = 0 /\ stream["server"] = <<>>
    /\ pc["client"] \in {"idle", "deliver", "send"} =>
         pc["server"] = "header" /\ stream["client"] = <<>>
    /\ pc["client"] \in {"header", "body"} /\ pc["server"] # "send" =>
         \/ pc["server"] = "header" /\ got["server"] = 0 /\ stream["server"] = <<>>
         \/ pc["client"] = "header" /\ got["client"] = 0 /\ stream["client"] = <<>>

(* What the h-th unit of a message of type m is, for its reader s. *)
Sound(s, m, h, u) ==
  IF h <= HeaderSize
  THEN u.part = h /\ u.mt = m /\ u.len = L(s, m)
  ELSE /\ u.part = HeaderSize + 1
       /\ Plausible(h - HeaderSize, u.char) /\ Fresh(h - HeaderSize, u.char)

Heading(s) ==
  /\ got[s] < HeaderSize /\ filled[s] = 0
  /\ got[s] = 0 => blen[s] = 0 /\ mt[s] = "NONE"
  /\ stream[s] # <<>> \/ got[s] > 0 =>
       /\ Asked(M(s))
       /\ Len(stream[s]) <= HeaderSize - got[s] + L(s, M(s))
       /\ got[s] >= 3 => blen[s] = L(s, M(s))
       /\ got[s] < 3 => blen[s] = 0
       /\ \A j \in 1..Len(stream[s]) : Sound(s, M(s), got[s] + j, stream[s][j])

Filling(s) ==
  /\ got[s] = HeaderSize /\ Asked(mt[s]) /\ blen[s] = L(s, mt[s])
  /\ filled[s] < blen[s]
  /\ Len(stream[s]) <= blen[s] - filled[s]
  /\ \A j \in 1..Len(stream[s]) :
       /\ stream[s][j].part = HeaderSize + 1
       /\ Plausible(filled[s] + j, stream[s][j].char)
       /\ Fresh(filled[s] + j, stream[s][j].char)

Delivering(s) ==
  /\ got[s] = 0 => mt[s] = "NONE"
  /\ got[s] > 0 => Asked(mt[s])
  /\ got[s] >= 3 => blen[s] = L(s, mt[s])
  /\ got[s] < 3 => blen[s] = 0
  /\ filled[s] <= blen[s]
  /\ open[s] => got[s] = HeaderSize /\ filled[s] = blen[s]

Receiving(s) ==
  /\ sent[s] <= Len(stream[s])
  /\ pc[Peer(s)] # "send" => sent[s] = Len(stream[s])
  /\ pc[Peer(s)] = "send" /\ Whole => sent[s] < Len(stream[s])
  /\ pc[s] = "header" => Heading(s)
  /\ pc[s] = "body" => Filling(s)
  /\ pc[s] = "deliver" => Delivering(s)
  /\ pc[s] \notin {"header", "body"} /\ open[s] => stream[s] = <<>>
  /\ filled[s] <= PROTO_SESSION_BUF_SIZE

Answering ==
  /\ Len(str) < StringSize
  /\ pc["server"] # "send" /\ pc["server"] # "ended" => sbuf = <<>>
  /\ pc["server"] \notin {"convert", "ended"} => str = <<>>
  /\ pc["server"] = "convert" =>
       /\ Asked("MAPQUERY")
       /\ \A k \in 1..Len(str) : Plausible(k, str[k]) /\ Fresh(k, str[k])

Buffer ==
  /\ \A k \in 1..PROTO_SESSION_BUF_SIZE :
       rbuf["client"][k] = "nul" \/ Plausible(k, rbuf["client"][k])
  /\ pc["client"] \in {"body", "deliver"} =>
       \A k \in 1..filled["client"] :
         Plausible(k, rbuf["client"][k]) /\ Fresh(k, rbuf["client"][k])

Inv ==
  /\ TypeOK /\ BoardOK /\ Places /\ Turns
  /\ \A s \in Side : Receiving(s)
  /\ Answering /\ Buffer /\ before \subseteq Broken
  /\ MapsAgree /\ NoPhantom

----------------------------------------------------------------------------
(* Arithmetic of the string *)

LEMMA DivMod ==
  ASSUME NEW m \in Nat \ {0}, NEW q \in Nat, NEW r \in 0..(m - 1)
  PROVE  (q * m + r) \div m = q /\ (q * m + r) % m = r
<1> DEFINE n == q * m + r
           d == n \div m
           e == n % m
<1>1. n \in Nat /\ d \in Int /\ e \in 0..(m - 1) /\ n = m * d + e
  OBVIOUS
<1>2. CASE d <= q - 1
  <2>1. m * d <= m * (q - 1)
    BY <1>1, <1>2
  <2> QED
    BY <1>1, <2>1
<1>3. CASE d >= q + 1
  <2>1. m * d >= m * (q + 1)
    BY <1>1, <1>3
  <2> QED
    BY <1>1, <2>1
<1>4. CASE d = q
  BY <1>1, <1>4
<1> QED
  BY <1>1, <1>2, <1>3, <1>4

(* The place of a cell in the string. *)
LEMMA PlaceOfCell ==
  ASSUME NEW c \in Cell
  PROVE  LET k == c[1] * (dimension + 1) + c[2] + 1
         IN /\ k \in 1..(StringSize - 1)
            /\ CellAt(k - 1) = c
            /\ \A map : CharAt(map, k - 1) = getCellChar(map[c])
<1> DEFINE k == c[1] * (dimension + 1) + c[2] + 1
           w == dimension + 1
<1>1. /\ c[1] \in 0..(dimension - 1) /\ c[2] \in 0..(dimension - 1)
      /\ c = <<c[1], c[2]>> /\ dimension \in Nat \ {0}
  BY DimensionOK DEF Cell
<1>2. w \in Nat \ {0} /\ c[1] \in Nat /\ c[2] \in 0..(w - 1)
  BY <1>1
<1>3. (c[1] * w + c[2]) \div w = c[1] /\ (c[1] * w + c[2]) % w = c[2]
  BY <1>2, DivMod
<1>4. k - 1 = c[1] * w + c[2]
  BY <1>1, <1>2
<1>5. k \in 1..(StringSize - 1)
  <2>1. c[1] * w <= (dimension - 1) * w /\ c[1] * w \in Nat
    BY <1>1
  <2>2. (dimension - 1) * w = StringSize - w
    BY <1>1 DEF StringSize
  <2>3. StringSize \in Nat
    BY <1>1 DEF StringSize
  <2> QED
    BY <1>1, <1>4, <2>1, <2>2, <2>3
<1>6. CellAt(k - 1) = c
  BY <1>1, <1>3, <1>4 DEF CellAt
<1>7. \A map : CharAt(map, k - 1) = getCellChar(map[c])
  BY <1>1, <1>3, <1>4 DEF CharAt
<1> QED
  BY <1>5, <1>6, <1>7

(* The other way round: where the string has no newline it has a cell.     *)
LEMMA CellOfPlace ==
  ASSUME NEW k \in 0..(StringSize - 2)
  PROVE  \/ k % (dimension + 1) = dimension
         \/ CellAt(k) \in Cell
<1>1. dimension \in Nat \ {0}
  BY DimensionOK
<1> DEFINE w == dimension + 1
           d == k \div w
           e == k % w
<1>2. /\ k \in Nat /\ d \in Int /\ e \in 0..(w - 1) /\ k = w * d + e
      /\ k < w * dimension
  <2>1. StringSize = w * dimension /\ StringSize \in Nat
    BY <1>1 DEF StringSize
  <2> QED
    BY <1>1, <2>1
<1>3. d >= 0
  <2> SUFFICES ASSUME d <= -1 PROVE FALSE
    BY <1>2
  <2>1. w * d <= w * (-1)
    BY <1>1, <1>2
  <2> QED
    BY <1>1, <1>2, <2>1
<1>4. d <= dimension - 1
  <2> SUFFICES ASSUME d >= dimension PROVE FALSE
    BY <1>1, <1>2
  <2>1. w * d >= w * dimension
    BY <1>1, <1>2
  <2> QED
    BY <1>1, <1>2, <2>1
<1> QED
  BY <1>1, <1>2, <1>3, <1>4 DEF CellAt, Cell

(* Reading back a character of a cell gives the cell, up to the side of    *)
(* the floor.                                                              *)
LEMMA ReadBack ==
  ASSUME NEW type \in CellType \ Floor
  PROVE  cellTypeFromChar(getCellChar(type)) = type
<1>1. type \in {"HOME_1", "HOME_2", "JAIL_1", "JAIL_2", "WALL_FIXED", "WALL_UNFIXED", "INVALID"}
  BY DEF CellType, Floor, Region
<1> QED
  BY <1>1 DEF cellTypeFromChar, getCellChar, Floor

LEMMA Sides == \A n : SideOf(n) \in Floor
  BY DEF SideOf, Floor

LEMMA ParsedOK ==
  \A c \in Cell : /\ Parsed[c] \in CellType \ {"INVALID"}
                  /\ Parsed[c] \in Floor => Parsed[c] = SideOf(c[2])
<1> TAKE c \in Cell
<1>1. Parsed[c] = IF Read(c) = "WALL_UNFIXED" /\ Protected(c) THEN "WALL_FIXED" ELSE Read(c)
  BY DEF Parsed
<1>2. File[c] \in Letter
  BY FileOK
<1>3. cellTypeFromChar(File[c]) \in
        {"WALL_UNFIXED", "WALL_FIXED", "FLOOR_1", "HOME_1", "HOME_2", "JAIL_1", "JAIL_2"}
  BY <1>2 DEF cellTypeFromChar, Letter
<1>4. \/ Read(c) \in {"WALL_UNFIXED", "WALL_FIXED", "HOME_1", "HOME_2", "JAIL_1", "JAIL_2"}
      \/ Read(c) = SideOf(c[2])
  BY <1>3 DEF Read, Sided
<1>5. SideOf(c[2]) \in Floor
  BY Sides
<1> QED
  BY <1>1, <1>4, <1>5 DEF CellType, Region, Floor

LEMMA CharsAreLetters ==
  ASSUME NEW type \in CellType
  PROVE  getCellChar(type) \in Letters
BY DEF getCellChar, CellType, Region, Floor, Letters, Letter

LEMMA StringOfLetters ==
  ASSUME NEW map \in [Cell -> CellType], NEW k \in 0..(StringSize - 2)
  PROVE  CharAt(map, k) \in Letters
<1>1. CASE k % (dimension + 1) = dimension
  BY <1>1 DEF CharAt, Letters
<1>2. CASE CellAt(k) \in Cell /\ k % (dimension + 1) # dimension
  <2>1. CharAt(map, k) = getCellChar(map[CellAt(k)])
    BY <1>2 DEF CharAt, CellAt
  <2> QED
    BY <1>2, <2>1, CharsAreLetters
<1> QED
  BY <1>1, <1>2, CellOfPlace

(* A plausible character is read as the cell it stands for.                *)
LEMMA ReadsCell ==
  ASSUME BoardOK, NEW c \in Cell, NEW ch,
         Plausible(c[1] * (dimension + 1) + c[2] + 1, ch)
  PROVE  LET t == Sided(cellTypeFromChar(ch), c[2])
         IN /\ t \in CellType
            /\ c \in Wall => t \in {"WALL_UNFIXED", SideOf(c[2])}
            /\ c \notin Wall => t = board[c]
            /\ t \in Floor => board[c] \in Floor
            /\ ch = getCellChar(board[c]) /\ board[c] \in Floor => t \in Floor
<1> DEFINE t == Sided(cellTypeFromChar(ch), c[2])
<1>1. ch \in {getCellChar(board[c]), getCellChar(Parsed[c])}
  BY PlaceOfCell DEF Plausible
<1>2. Parsed[c] \in CellType \ {"INVALID"} /\ (Parsed[c] \in Floor => Parsed[c] = SideOf(c[2]))
  BY ParsedOK
<1>3. SideOf(c[2]) \in Floor
  BY Sides
<1>4. \A type \in Floor : Sided(cellTypeFromChar(getCellChar(type)), c[2]) = SideOf(c[2])
  BY DEF Floor, getCellChar, cellTypeFromChar, Sided
<1>5. \A type \in CellType \ Floor : Sided(cellTypeFromChar(getCellChar(type)), c[2]) = type
  BY ReadBack DEF Sided, Floor
<1>6. CASE c \in Wall
  <2>1. Parsed[c] = "WALL_UNFIXED" /\ board[c] \in Floor \cup {"WALL_UNFIXED"}
    BY <1>6 DEF Wall, BoardOK
  <2>2. "WALL_UNFIXED" \in CellType \ Floor
    BY DEF CellType, Floor
  <2>3. t = "WALL_UNFIXED" \/ (t = SideOf(c[2]) /\ board[c] \in Floor)
    BY <1>1, <1>4, <1>5, <2>1, <2>2
  <2>4. ch = getCellChar(board[c]) /\ board[c] \in Floor => t \in Floor
    BY <1>3, <1>4
  <2> QED
    BY <1>3, <1>6, <2>2, <2>3, <2>4 DEF CellType
<1>7. CASE c \notin Wall
  <2>1. board[c] = Parsed[c] /\ ch = getCellChar(board[c])
    BY <1>1, <1>7 DEF BoardOK
  <2>2. t = board[c]
    BY <1>2, <1>4, <1>5, <2>1
  <2> QED
    BY <1>2, <1>7, <2>1, <2>2
<1> QED
  BY <1>6, <1>7

(* Breaking a wall changes the board there only, and never the other way.  *)
LEMMA BreakOne ==
  ASSUME TypeOK, BoardOK, NEW w \in Wall \ Broken,
         board' = [board EXCEPT ![w] = Cleared(board, w)]
  PROVE  /\ board' \in [Cell -> CellType]
         /\ BoardOK'
         /\ Broken \subseteq Broken'
         /\ \A c \in Cell : board[c] \in Floor => board'[c] \in Floor
         /\ \A c \in Cell \ Wall : board'[c] = board[c]
<1>1. w \in Cell /\ board[w] = "WALL_UNFIXED" /\ Cleared(board, w) \in Floor
  BY DEF Wall, Broken, Cleared, Floor
<1>2. board \in [Cell -> CellType]
  BY DEF TypeOK
<1>3. board'[w] \in Floor /\ \A c \in Cell \ {w} : board'[c] = board[c]
  BY <1>1, <1>2
<1>4. Floor \subseteq CellType /\ "WALL_UNFIXED" \notin Floor
  BY DEF Floor, CellType
<1>5. board' \in [Cell -> CellType]
  BY <1>1, <1>2, <1>4
<1>6. BoardOK'
  BY <1>3 DEF BoardOK, Wall
<1>7. Broken \subseteq Broken'
  BY <1>3, <1>4 DEF Broken, Wall
<1> QED
  BY <1>1, <1>3, <1>4, <1>5, <1>6, <1>7

LEMMA BreakPlausible ==
  ASSUME TypeOK, BoardOK, before \subseteq Broken, before' = before,
         NEW w \in Wall \ Broken, board' = [board EXCEPT ![w] = Cleared(board, w)],
         NEW k, NEW ch, Plausible(k, ch)
  PROVE  Plausible(k, ch)' /\ (Fresh(k, ch) => Fresh(k, ch)')
<1>1. k \in 1..(StringSize - 1) /\ dimension \in Nat \ {0} /\ StringSize \in Nat
  BY DimensionOK DEF Plausible, StringSize
<1>2. k - 1 \in 0..(StringSize - 2)
  BY <1>1
<1>3. w \in Cell /\ board[w] = "WALL_UNFIXED" /\ Parsed[w] = "WALL_UNFIXED" /\ w \notin before
  BY DEF Wall, Broken
<1>4. \A c \in Cell \ {w} : board'[c] = board[c]
  BY <1>3 DEF TypeOK
<1>5. CASE (k - 1) % (dimension + 1) = dimension
  <2>1. CharAt(board', k - 1) = CharAt(board, k - 1)
    BY <1>5 DEF CharAt
  <2>2. Plausible(k, ch)'
    BY <1>1, <2>1 DEF Plausible
  <2>3. Fresh(k, ch) => Fresh(k, ch)'
    BY <2>1 DEF Fresh
  <2> QED
    BY <2>2, <2>3
<1>6. CASE (k - 1) % (dimension + 1) # dimension
  <2> DEFINE c == CellAt(k - 1)
  <2>1. c \in Cell
    BY <1>2, <1>6, CellOfPlace
  <2>2. \A map : CharAt(map, k - 1) = getCellChar(map[c])
    BY <1>6 DEF CharAt, CellAt
  <2>3. c # w => CharAt(board', k - 1) = CharAt(board, k - 1)
    BY <1>4, <2>1, <2>2
  <2>4. c = w => CharAt(board, k - 1) = CharAt(Parsed, k - 1)
    BY <1>3, <2>2
  <2> HIDE DEF c
  <2>5. Plausible(k, ch)'
    BY <1>1, <2>3, <2>4 DEF Plausible
  <2>6. Fresh(k, ch) => Fresh(k, ch)'
    BY <1>3, <2>3 DEF Fresh, c
  <2> QED
    BY <2>5, <2>6
<1> QED
  BY <1>5, <1>6

----------------------------------------------------------------------------
(* Sides, messages and sequences *)

LEMMA Peers ==
  ASSUME NEW s \in Side
  PROVE  /\ Peer(s) \in Side /\ Peer(s) # s /\ Peer(Peer(s)) = s
         /\ \/ s = "client" /\ Peer(s) = "server"
            \/ s = "server" /\ Peer(s) = "client"
BY DEF Side, Peer

LEMMA Sizes ==
  /\ StringSize \in Nat \ {0, 1} /\ PROTO_SESSION_BUF_SIZE \in Nat
  /\ StringSize <= PROTO_SESSION_BUF_SIZE
  /\ \A s, m : L(s, m) \in Nat /\ L(s, m) < StringSize
<1>1. dimension \in Nat \ {0}
  BY DimensionOK
<1>2. StringSize \in Nat /\ StringSize >= 2
  <2>1. (dimension + 1) * dimension >= 2 * dimension
    BY <1>1
  <2> QED
    BY <1>1, <2>1 DEF StringSize
<1> QED
  BY <1>2, BufferOK DEF L

LEMMA Messages ==
  ASSUME NEW type \in Request, NEW body \in Seq(Letters)
  PROVE  LET q == Message(type, body)
         IN /\ q \in Seq(Unit) /\ Len(q) = HeaderSize + Len(body)
            /\ \A k \in 1..Len(q) :
                 IF k <= HeaderSize
                 THEN q[k].part = k /\ q[k].mt = type /\ q[k].len = Len(body)
                 ELSE q[k].part = HeaderSize + 1 /\ q[k].char = body[k - HeaderSize]
<1> DEFINE n == HeaderSize + Len(body)
           q == Message(type, body)
           u(k) == IF k <= HeaderSize
                   THEN [part |-> k, mt |-> type, len |-> Len(body), char |-> "nul"]
                   ELSE [part |-> HeaderSize + 1, mt |-> "NONE", len |-> 0,
                         char |-> body[k - HeaderSize]]
<1>1. n \in Nat /\ Len(body) \in Nat /\ HeaderSize = 4
  BY DEF HeaderSize
<1>2. q = [k \in 1..n |-> u(k)]
  BY DEF Message
<1>3. ASSUME NEW k \in 1..n PROVE u(k) \in Unit
  <2>1. CASE k <= HeaderSize
    BY <1>1, <2>1 DEF Unit, Letters, HeaderSize
  <2>2. CASE k > HeaderSize
    <3>1. k - HeaderSize \in 1..Len(body)
      BY <1>1, <2>2
    <3>2. body[k - HeaderSize] \in Letters
      BY <3>1
    <3> QED
      BY <1>1, <2>2, <3>2 DEF Unit, HeaderSize
  <2> QED
    BY <1>1, <2>1, <2>2
<1>4. q \in Seq(Unit) /\ Len(q) = n
  <2> HIDE DEF u, q, n
  <2> QED
    BY <1>1, <1>2, <1>3
<1>5. \A k \in 1..n : q[k] = u(k)
  BY <1>2
<1>6. \A k \in 1..Len(q) :
        IF k <= HeaderSize
        THEN q[k].part = k /\ q[k].mt = type /\ q[k].len = Len(body)
        ELSE q[k].part = HeaderSize + 1 /\ q[k].char = body[k - HeaderSize]
  <2>1. \A k \in 1..n :
        IF k <= HeaderSize
        THEN u(k).part = k /\ u(k).mt = type /\ u(k).len = Len(body)
        ELSE u(k).part = HeaderSize + 1 /\ u(k).char = body[k - HeaderSize]
    OBVIOUS
  <2> HIDE DEF u, q, n
  <2> QED
    BY <1>4, <1>5, <2>1
<1> QED
  BY <1>4, <1>6

LEMMA Cuts ==
  ASSUME NEW q \in Seq(Unit), NEW n \in 0..Len(q)
  PROVE  /\ SubSeq(q, 1, n) \in Seq(Unit) /\ Len(SubSeq(q, 1, n)) = n
         /\ \A k \in 1..n : SubSeq(q, 1, n)[k] = q[k]
         /\ SubSeq(q, n + 1, Len(q)) \in Seq(Unit)
         /\ Len(SubSeq(q, n + 1, Len(q))) = Len(q) - n
         /\ \A k \in 1..(Len(q) - n) : SubSeq(q, n + 1, Len(q))[k] = q[n + k]
<1>1. Len(q) \in Nat
  OBVIOUS
<1> QED
  BY <1>1

LEMMA Leasts ==
  ASSUME NEW a \in Int, NEW b \in Int, NEW n \in 1..Least(a, b)
  PROVE  n \in Nat /\ n >= 1 /\ n <= a /\ n <= b
<1>1. CASE a <= b
  BY <1>1 DEF Least
<1>2. CASE ~(a <= b)
  BY <1>2 DEF Least
<1> QED
  BY <1>1, <1>2

----------------------------------------------------------------------------
(* What a step leaves alone *)

LEMMA ReaderSame ==
  ASSUME NEW s \in Side, UNCHANGED <<board, before, shdr>>,
         got'[s] = got[s], mt'[s] = mt[s], blen'[s] = blen[s], filled'[s] = filled[s],
         stream'[s] = stream[s], open'[s] = open[s], Whole' => Whole
  PROVE  /\ Heading(s) => Heading(s)'
         /\ Filling(s) => Filling(s)'
         /\ Delivering(s) => Delivering(s)'
BY DEF Heading, Sound, Filling, Delivering, M, Asked, Plausible, Fresh, L, CharAt, CellAt

LEMMA ReceivingSame ==
  ASSUME NEW s \in Side, Receiving(s), UNCHANGED <<board, before>>,
         got'[s] = got[s], mt'[s] = mt[s], blen'[s] = blen[s], filled'[s] = filled[s],
         stream'[s] = stream[s], sent'[s] = sent[s], pc'[s] = pc[s],
         open'[s] = open[s], shdr' = shdr, Whole' => Whole,
         pc'[Peer(s)] = "send" <=> pc[Peer(s)] = "send"
  PROVE  Receiving(s)'
BY ReaderSame DEF Receiving

LEMMA AnsweringSame ==
  ASSUME Answering, UNCHANGED <<board, before, shdr, answer>>, Whole' => Whole,
         pc'["server"] = pc["server"] \/ pc'["server"] = "ended"
  PROVE  Answering'
BY DEF Answering, Asked, Plausible, Fresh, CharAt, CellAt, answer

LEMMA BufferSame ==
  ASSUME Buffer, UNCHANGED <<board, before>>,
         rbuf'["client"] = rbuf["client"], filled'["client"] = filled["client"],
         pc'["client"] \in {"body", "deliver"} => pc["client"] \in {"body", "deliver"}
  PROVE  Buffer'
BY DEF Buffer, Plausible, Fresh, CharAt, CellAt

LEMMA MapSame ==
  ASSUME BoardOK, before \subseteq Broken, MapsAgree, NoPhantom,
         UNCHANGED <<board, before, cmap, trust>>
  PROVE  BoardOK' /\ (before \subseteq Broken)' /\ MapsAgree' /\ NoPhantom'
BY DEF BoardOK, Broken, MapsAgree, NoPhantom

(* The reader's part when its stream has been cut short behind what has    *)
(* been sent, by an end that is gone.                                      *)
LEMMA ReceivingCut ==
  ASSUME TypeOK, NEW s \in Side, Receiving(s), NEW n \in 0..sent[s],
         UNCHANGED <<board, before, shdr>>,
         got'[s] = got[s], mt'[s] = mt[s], blen'[s] = blen[s], filled'[s] = filled[s],
         stream'[s] = SubSeq(stream[s], 1, n), sent'[s] = n, pc'[s] = pc[s],
         open'[s] = open[s], ~Whole'
  PROVE  Receiving(s)'
<1>1. /\ stream[s] \in Seq(Unit) /\ sent[s] \in Nat /\ n \in 0..Len(stream[s])
      /\ got[s] \in 0..HeaderSize /\ filled[s] \in Nat /\ blen[s] \in Nat
      /\ HeaderSize = 4
  BY DEF TypeOK, Receiving, HeaderSize
<1>2. /\ stream'[s] \in Seq(Unit) /\ Len(stream'[s]) = n /\ n <= Len(stream[s])
      /\ \A k \in 1..n : stream'[s][k] = stream[s][k]
  BY <1>1, Cuts
<1>3. stream[s] = <<>> => stream'[s] = <<>>
  BY <1>1, <1>2
<1>4. pc[s] = "header" => Heading(s)'
  <2> SUFFICES ASSUME pc[s] = "header" PROVE Heading(s)'
    OBVIOUS
  <2>1. Heading(s)
    BY DEF Receiving
  <2>2. ASSUME stream'[s] # <<>> PROVE M(s)' = M(s) /\ stream[s] # <<>>
    <3>1. n >= 1 /\ stream'[s][1] = stream[s][1]
      BY <1>1, <1>2, <2>2
    <3> QED
      BY <1>1, <3>1 DEF M
  <2>3. ASSUME got[s] > 0 PROVE M(s)' = M(s)
    BY <1>1, <2>3 DEF M
  <2>4. \A k, ch : /\ Plausible(k, ch) => Plausible(k, ch)'
                   /\ Fresh(k, ch) => Fresh(k, ch)'
    BY DEF Plausible, Fresh, CharAt, CellAt
  <2>5. \A m : L(s, m)' = L(s, m) /\ L(s, m) \in Nat /\ (Asked(m) => Asked(m)')
    BY Sizes DEF L, Asked
  <2>6. ASSUME stream'[s] # <<>> \/ got[s] > 0
        PROVE  /\ stream[s] # <<>> \/ got[s] > 0
               /\ M(s)' = M(s)
    BY <2>2, <2>3, <2>6
  <2>6a. \A m, h, u : Sound(s, m, h, u) => Sound(s, m, h, u)'
    BY <2>4, <2>5 DEF Sound
  <2>7. ASSUME stream'[s] # <<>> \/ got[s] > 0, NEW j \in 1..n
        PROVE  Sound(s, M(s), got[s] + j, stream[s][j])'
    <3>1. Sound(s, M(s), got[s] + j, stream[s][j]) /\ stream'[s][j] = stream[s][j]
      BY <1>1, <1>2, <2>1, <2>6, <2>7 DEF Heading
    <3> QED
      BY <2>6, <2>6a, <2>7, <3>1
  <2>8. ASSUME stream'[s] # <<>> \/ got[s] > 0
        PROVE  /\ Asked(M(s))'
               /\ n <= HeaderSize - got[s] + L(s, M(s))'
               /\ got[s] >= 3 => blen[s] = L(s, M(s))'
               /\ got[s] < 3 => blen[s] = 0
    <3>1. Asked(M(s)) /\ Asked(M(s))'
      BY <2>1, <2>6, <2>8 DEF Heading, Asked
    <3>2. L(s, M(s))' = L(s, M(s)) /\ L(s, M(s)) \in Nat
      BY <2>6, <2>8, Sizes DEF L
    <3> QED
      BY <1>1, <1>2, <2>1, <2>6, <2>8, <3>1, <3>2 DEF Heading
  <2> QED
    BY <1>1, <1>2, <2>1, <2>7, <2>8 DEF Heading
<1>5. pc[s] = "body" => Filling(s)'
  <2> SUFFICES ASSUME pc[s] = "body" PROVE Filling(s)'
    OBVIOUS
  <2>1. Filling(s)
    BY DEF Receiving
  <2>2. ASSUME NEW j \in 1..n
        PROVE  /\ stream'[s][j].part = HeaderSize + 1
               /\ Plausible(filled[s] + j, stream[s][j].char)'
               /\ Fresh(filled[s] + j, stream[s][j].char)'
    <3>1. /\ stream[s][j].part = HeaderSize + 1 /\ stream'[s][j] = stream[s][j]
          /\ Plausible(filled[s] + j, stream[s][j].char)
          /\ Fresh(filled[s] + j, stream[s][j].char)
      BY <1>1, <1>2, <2>1 DEF Filling
    <3> QED
      BY <3>1 DEF Plausible, Fresh, CharAt, CellAt
  <2>3. /\ got'[s] = HeaderSize /\ Asked(mt[s])' /\ blen'[s] = L(s, mt[s])'
        /\ filled'[s] < blen'[s]
    BY <2>1 DEF Filling, Asked, L
  <2>4. Len(stream'[s]) <= blen'[s] - filled'[s]
    BY <1>1, <1>2, <2>1 DEF Filling
  <2> QED
    BY <1>2, <2>2, <2>3, <2>4 DEF Filling
<1>6. pc[s] = "deliver" => Delivering(s)'
  BY <1>1, <1>2 DEF Receiving, Delivering, Asked, L
<1> QED
  BY <1>1, <1>2, <1>3, <1>4, <1>5, <1>6 DEF Receiving

----------------------------------------------------------------------------
(* The invariant holds at first, and each step keeps it *)

LEMMA InvInit == Init => Inv
<1> SUFFICES ASSUME Init PROVE Inv
  OBVIOUS
<1>1. Side = {"client", "server"} /\ HeaderSize = 4
  BY DEF Side, HeaderSize
<1>2. board = Parsed /\ Parsed = [c \in Cell |-> Parsed[c]] /\ \A c \in Cell : Parsed[c] \in CellType
  <2>1. Parsed = [c \in Cell |-> Parsed[c]]
    BY DEF Parsed
  <2> QED
    BY <2>1, ParsedOK DEF Init
<1>3. board \in [Cell -> CellType]
  BY <1>2
<1>4. TypeOK
  BY <1>1, <1>3, BoundsOK DEF Init, TypeOK, Letters, CellType
<1>5. BoardOK
  BY <1>2 DEF BoardOK, Wall
<1>6. Places /\ Turns
  BY <1>1 DEF Init, Places, Turns
<1>7. ASSUME NEW s \in Side PROVE Receiving(s)
  BY <1>1, BufferOK DEF Init, Receiving, Heading, Peer
<1>8. Answering /\ Buffer /\ before \subseteq Broken /\ MapsAgree /\ NoPhantom
  BY <1>1, Sizes DEF Init, Answering, Buffer, Broken, MapsAgree, NoPhantom
<1> QED
  BY <1>4, <1>5, <1>6, <1>7, <1>8 DEF Inv

(* The types, in two parts. *)
Place == {"idle", "send", "header", "body", "deliver", "convert", "lost", "crashed", "ended"}
Ends ==
  /\ open \in [Side -> BOOLEAN] /\ pc \in [Side -> Place]
  /\ got \in [Side -> 0..4] /\ mt \in [Side -> {"MAPQUERY", "MOVE", "NONE"}]
  /\ blen \in [Side -> Nat] /\ filled \in [Side -> Nat]
  /\ stream \in [Side -> Seq(Unit)] /\ sent \in [Side -> 0..Socket]

Rest ==
  /\ board \in [Cell -> CellType]
  /\ rbuf \in [Side -> [1..PROTO_SESSION_BUF_SIZE -> Letters]]
  /\ str \in Seq(Letters) /\ sbuf \in Seq(Letters)
  /\ cmap \in [Cell -> CellType]
  /\ trust \in {"none", "map", "cut", "empty", "junk"}
  /\ shdr \in Request \cup {"NONE"}
  /\ asks \in 0..MaxAsks /\ before \subseteq Cell

LEMMA Types == TypeOK <=> Ends /\ Rest
<1>1. HeaderSize = 4 /\ Request \cup {"NONE"} = {"MAPQUERY", "MOVE", "NONE"}
  BY DEF HeaderSize, Request
<1> QED
  BY <1>1 DEF TypeOK, Ends, Rest, Place

LEMMA Parts ==
  ASSUME Inv, NEW s \in Side
  PROVE  /\ Ends /\ Rest /\ BoardOK /\ Places /\ Turns /\ Receiving(s) /\ Receiving(Peer(s))
         /\ Answering /\ Buffer /\ before \subseteq Broken /\ MapsAgree /\ NoPhantom
BY Types, Peers DEF Inv

LEMMA Assembled ==
  ASSUME NEW s \in Side, Ends', Rest', BoardOK', Places', Turns',
         Receiving(s)', Receiving(Peer(s))',
         Answering', Buffer', (before \subseteq Broken)', MapsAgree', NoPhantom'
  PROVE  Inv'
<1>1. ASSUME NEW t \in Side PROVE Receiving(t)'
  <2>1. t = s \/ t = Peer(s)
    BY Peers DEF Side
  <2>2. CASE t = s
    BY <2>2
  <2>3. CASE t = Peer(s)
    BY <2>3
  <2> QED
    BY <2>1, <2>2, <2>3
<1>2. TypeOK'
  BY Types, PTL
<1> QED
  BY <1>1, <1>2 DEF Inv

LEMMA StartTypes ==
  ASSUME Ends, NEW s \in Side, open' = open,
         got' = [got EXCEPT ![s] = 0], mt' = [mt EXCEPT ![s] = "NONE"],
         blen' = [blen EXCEPT ![s] = 0], filled' = [filled EXCEPT ![s] = 0],
         pc' = [pc EXCEPT ![s] = "header"],
         stream' \in [Side -> Seq(Unit)], sent' \in [Side -> 0..Socket]
  PROVE  Ends'
<1>1. got' \in [Side -> 0..4]
  BY 0 \in 0..4 DEF Ends
<1>1a. mt' \in [Side -> {"MAPQUERY", "MOVE", "NONE"}]
  BY DEF Ends
<1>2. blen' \in [Side -> Nat] /\ filled' \in [Side -> Nat]
  BY DEF Ends
<1>3. pc' \in [Side -> Place] /\ open' \in [Side -> BOOLEAN]
  BY DEF Ends, Place
<1> QED
  BY <1>1, <1>1a, <1>2, <1>3 DEF Ends

LEMMA SendSomeKeeps ==
  ASSUME Inv, NEW s \in Side, SendSome(s)
  PROVE  Inv'
<1> DEFINE p == Peer(s)
           unsent == Len(stream[p]) - sent[p]
<1>1. /\ p \in Side /\ p # s /\ Peer(p) = s /\ Side = {"client", "server"}
      /\ p = Peer(s)
      /\ (s = "client" /\ p = "server") \/ (s = "server" /\ p = "client")
  BY Peers DEF Side
<1> HIDE DEF p
<1>2. PICK n \in 1..Least(unsent, Socket - sent[p]) :
        /\ sent' = [sent EXCEPT ![p] = @ + n]
        /\ IF n = unsent THEN AfterSend(s) ELSE UNCHANGED <<session, sbuf>>
  BY DEF SendSome, p
<1>3. /\ pc[s] = "send" /\ open[s] /\ open[p]
      /\ UNCHANGED <<board, stream, str, client>>
  BY DEF SendSome, p
<1>4. /\ Ends /\ Rest /\ BoardOK /\ Places /\ Turns /\ Receiving(s) /\ Receiving(p)
      /\ Answering /\ Buffer /\ before \subseteq Broken /\ MapsAgree /\ NoPhantom
  BY <1>1, Parts
<1>5. /\ Len(stream[p]) \in Nat /\ sent[p] \in 0..Socket /\ Socket \in Nat
      /\ n \in Nat /\ n >= 1 /\ n <= unsent /\ sent[p] + n \in 0..Socket
  <2>1. stream[p] \in Seq(Unit) /\ sent[p] \in 0..Socket /\ Socket \in Nat
    BY <1>1, <1>4, BoundsOK DEF Ends
  <2>2. Len(stream[p]) \in Nat
    BY <2>1
  <2>3. unsent \in Int /\ Socket - sent[p] \in Int
    BY <2>1, <2>2
  <2>4. n \in Nat /\ n >= 1 /\ n <= unsent /\ n <= Socket - sent[p]
    BY <2>3, Leasts
  <2> QED
    BY <2>1, <2>2, <2>4
<1>6. /\ UNCHANGED <<board, before, shdr, cmap, trust, str, open, rbuf, stream, asks>>
      /\ Whole' <=> Whole
  BY <1>2, <1>3 DEF AfterSend, StartReceive, client, session, Whole
<1>7. CASE n = unsent
  <2>1. /\ got' = [got EXCEPT ![s] = 0] /\ mt' = [mt EXCEPT ![s] = "NONE"]
        /\ blen' = [blen EXCEPT ![s] = 0] /\ filled' = [filled EXCEPT ![s] = 0]
        /\ pc' = [pc EXCEPT ![s] = "header"] /\ "header" \in Place
        /\ sbuf' = IF s = "server" THEN <<>> ELSE sbuf
    BY <1>2, <1>7 DEF AfterSend, StartReceive, Goto, Place
  <2>2a. Ends'
    <3>1. sent' \in [Side -> 0..Socket]
      BY <1>1, <1>2, <1>4, <1>5 DEF Ends
    <3>2. stream' \in [Side -> Seq(Unit)] /\ open' = open
      BY <1>4, <1>6 DEF Ends
    <3> QED
      BY <1>4, <2>1, <3>1, <3>2, StartTypes
  <2>2. Rest'
    BY <1>4, <1>6, <2>1 DEF Rest
  <2>3. /\ pc'[s] = "header" /\ pc'[p] = pc[p] /\ got'[s] = 0 /\ got'[p] = got[p]
        /\ mt'[s] = "NONE" /\ mt'[p] = mt[p] /\ blen'[s] = 0 /\ blen'[p] = blen[p]
        /\ filled'[s] = 0 /\ filled'[p] = filled[p]
        /\ sent'[s] = sent[s] /\ sent'[p] = Len(stream[p])
    BY <1>1, <1>2, <1>4, <1>5, <1>7, <2>1 DEF Ends
  <2>4. stream[s] = <<>>
    BY <1>3, <1>4 DEF Receiving
  <2>5. Places'
    BY <1>1, <1>3, <1>4, <1>6, <2>3 DEF Places
  <2>6. Turns'
    BY <1>1, <1>3, <1>4, <1>6, <2>3, <2>4 DEF Turns, Places
  <2>7. Receiving(s)'
    BY <1>1, <1>4, <1>6, <2>3, <2>4, BufferOK DEF Receiving, Heading, HeaderSize
  <2>8. Receiving(p)'
    BY <1>1, <1>3, <1>4, <1>5, <1>6, <2>3, ReaderSame DEF Receiving
  <2>9. Answering'
    BY <1>1, <1>3, <1>4, <1>6, <2>1, <2>3 DEF Answering, Places, Asked, Plausible, Fresh, CharAt, CellAt
  <2>10. Buffer'
    BY <1>1, <1>3, <1>4, <1>6, <2>3, BufferSame DEF Buffer, Plausible, Fresh, CharAt, CellAt
  <2> QED
    BY <1>1, <1>4, <1>6, <2>2a, <2>2, <2>5, <2>6, <2>7, <2>8, <2>9, <2>10, MapSame, Assembled
<1>8. CASE n # unsent
  <2>1. UNCHANGED <<session, sbuf, got, mt, blen, filled, pc>>
    BY <1>2, <1>8 DEF session
  <2>2a. Ends'
    <3>1. sent' \in [Side -> 0..Socket]
      BY <1>1, <1>2, <1>4, <1>5 DEF Ends
    <3>2. /\ got' = got /\ mt' = mt /\ blen' = blen /\ filled' = filled /\ pc' = pc
          /\ open' = open /\ stream' = stream
      BY <1>6, <2>1
    <3> QED
      BY <1>4, <3>1, <3>2 DEF Ends
  <2>2. Rest'
    BY <1>4, <1>6, <2>1 DEF Rest
  <2>3. sent'[s] = sent[s] /\ sent'[p] = sent[p] + n
    BY <1>1, <1>2, <1>4 DEF Ends
  <2>4. Places' /\ Turns'
    BY <1>4, <1>6, <2>1 DEF Places, Turns
  <2>5. Receiving(s)'
    BY <1>1, <1>4, <1>6, <2>1, <2>3, ReceivingSame
  <2>6. Receiving(p)'
    BY <1>1, <1>3, <1>4, <1>5, <1>6, <1>8, <2>1, <2>3, ReaderSame DEF Receiving
  <2>7. Answering' /\ Buffer'
    BY <1>4, <1>6, <2>1, AnsweringSame, BufferSame DEF answer
  <2> QED
    BY <1>1, <1>4, <1>6, <2>2a, <2>2, <2>4, <2>5, <2>6, <2>7, MapSame, Assembled
<1> QED
  BY <1>7, <1>8

LEMMA SendNothingKeeps ==
  ASSUME Inv, NEW s \in Side, SendNothing(s)
  PROVE  Inv'
<1> DEFINE p == Peer(s)
<1>1. /\ p \in Side /\ p # s /\ Peer(p) = s /\ Side = {"client", "server"}
      /\ p = Peer(s)
      /\ (s = "client" /\ p = "server") \/ (s = "server" /\ p = "client")
  BY Peers DEF Side
<1> HIDE DEF p
<1>2. /\ pc[s] = "send" /\ ~Whole
      /\ stream' = [stream EXCEPT ![p] = SubSeq(@, 1, sent[p])]
      /\ AfterSend(s)
      /\ UNCHANGED <<board, sent, str, client>>
  BY <1>1 DEF SendNothing, p, Whole
<1>3. /\ got' = [got EXCEPT ![s] = 0] /\ mt' = [mt EXCEPT ![s] = "NONE"]
      /\ blen' = [blen EXCEPT ![s] = 0] /\ filled' = [filled EXCEPT ![s] = 0]
      /\ pc' = [pc EXCEPT ![s] = "header"] /\ open' = open /\ rbuf' = rbuf
      /\ sbuf' = IF s = "server" THEN <<>> ELSE sbuf
  BY <1>2 DEF AfterSend, StartReceive, Goto
<1>4. /\ Ends /\ Rest /\ BoardOK /\ Places /\ Turns /\ Receiving(s) /\ Receiving(p)
      /\ Answering /\ Buffer /\ before \subseteq Broken /\ MapsAgree /\ NoPhantom
      /\ TypeOK
  BY <1>1, Parts, Types
<1>5. /\ stream[p] \in Seq(Unit) /\ sent[p] \in 0..Len(stream[p]) /\ sent[p] \in 0..sent[p]
  BY <1>1, <1>4 DEF Ends, Receiving
<1>6. /\ SubSeq(stream[p], 1, sent[p]) \in Seq(Unit)
      /\ stream[p] = <<>> => SubSeq(stream[p], 1, sent[p]) = <<>>
  BY <1>5, Cuts
<1>7. /\ UNCHANGED <<board, before, shdr, cmap, trust, str, open, rbuf, sent, asks>>
      /\ ~Whole'
  BY <1>2, <1>3 DEF client, Whole
<1>8. stream' \in [Side -> Seq(Unit)] /\ sent' \in [Side -> 0..Socket]
  BY <1>1, <1>2, <1>4, <1>6 DEF Ends
<1>9. /\ pc'[s] = "header" /\ pc'[p] = pc[p] /\ got'[s] = 0 /\ got'[p] = got[p]
      /\ mt'[s] = "NONE" /\ mt'[p] = mt[p] /\ blen'[s] = 0 /\ blen'[p] = blen[p]
      /\ filled'[s] = 0 /\ filled'[p] = filled[p]
      /\ stream'[s] = stream[s] /\ stream'[p] = SubSeq(stream[p], 1, sent[p])
  BY <1>1, <1>2, <1>3, <1>4 DEF Ends
<1>10. stream[s] = <<>>
  BY <1>1, <1>2, <1>4 DEF Receiving, Places
<1>11. Ends'
  BY <1>3, <1>4, <1>8, StartTypes
<1>12. Rest'
  BY <1>3, <1>4, <1>7 DEF Rest
<1>13. Places'
  BY <1>1, <1>2, <1>4, <1>6, <1>7, <1>9, <1>10 DEF Places
<1>14. Turns'
  BY <1>7 DEF Turns, Whole
<1>15. Receiving(s)'
  BY <1>1, <1>2, <1>4, <1>7, <1>9, <1>10, BufferOK DEF Receiving, Heading, HeaderSize
<1>16. Receiving(p)'
  BY <1>1, <1>4, <1>5, <1>7, <1>9, ReceivingCut
<1>17. Answering'
  BY <1>1, <1>2, <1>3, <1>4, <1>7, <1>9
     DEF Answering, Places, Asked, Plausible, Fresh, CharAt, CellAt
<1>18. Buffer'
  BY <1>1, <1>2, <1>4, <1>7, <1>9, BufferSame DEF Buffer, Plausible, Fresh, CharAt, CellAt
<1> QED
  BY <1>1, <1>4, <1>7, <1>11, <1>12, <1>13, <1>14, <1>15, <1>16, <1>17, <1>18, MapSame, Assembled

(* What is read of a header, and what is left behind it. *)
LEMMA HeaderRead ==
  ASSUME TypeOK, NEW s \in Side, Receiving(s), pc[s] = "header",
         NEW n \in 1..Least(HeaderSize - got[s], sent[s])
  PROVE  LET m == M(s)
             q == SubSeq(stream[s], n + 1, Len(stream[s]))
             b == IF got[s] < 3 /\ got[s] + n >= 3 THEN stream[s][3 - got[s]].len ELSE blen[s]
         IN /\ n \in Nat /\ n >= 1 /\ n <= sent[s] /\ sent[s] <= Len(stream[s])
            /\ got[s] \in 0..3 /\ got[s] + n \in 1..4
            /\ filled[s] = 0 /\ stream[s] # <<>> /\ Asked(m)
            /\ m = IF got[s] = 0 THEN stream[s][1].mt ELSE mt[s]
            /\ b \in Nat
            /\ got[s] + n >= 3 => b = L(s, m)
            /\ got[s] + n < 3 => b = 0
            /\ q \in Seq(Unit) /\ Len(q) = Len(stream[s]) - n
            /\ Len(q) <= HeaderSize - (got[s] + n) + L(s, m)
            /\ \A j \in 1..Len(q) :
                 /\ q[j] = stream[s][n + j] /\ n + j \in 1..Len(stream[s])
                 /\ Sound(s, m, (got[s] + n) + j, q[j])
<1> DEFINE m == M(s)
           q == SubSeq(stream[s], n + 1, Len(stream[s]))
           b == IF got[s] < 3 /\ got[s] + n >= 3 THEN stream[s][3 - got[s]].len ELSE blen[s]
           l == L(s, m)
<1>1. /\ stream[s] \in Seq(Unit) /\ Len(stream[s]) \in Nat /\ sent[s] \in Nat
      /\ sent[s] <= Len(stream[s])
      /\ got[s] \in 0..4 /\ filled[s] \in Nat /\ blen[s] \in Nat /\ HeaderSize = 4
  BY DEF TypeOK, Receiving, HeaderSize
<1>2. Heading(s)
  BY DEF Receiving
<1>3. n \in Nat /\ n >= 1 /\ n <= 4 - got[s] /\ n <= sent[s]
  <2>1. HeaderSize - got[s] \in Int /\ sent[s] \in Int
    BY <1>1
  <2> QED
    BY <1>1, <2>1, Leasts
<1>4. got[s] \in 0..3 /\ got[s] + n \in 1..4 /\ n \in 0..Len(stream[s])
  BY <1>1, <1>3
<1>5. stream[s] # <<>>
  BY <1>1, <1>3
<1>6. l \in Nat
  BY Sizes
<1>7. /\ Asked(m)
      /\ Len(stream[s]) <= HeaderSize - got[s] + l
      /\ got[s] >= 3 => blen[s] = l
      /\ got[s] < 3 => blen[s] = 0
      /\ filled[s] = 0
  BY <1>2, <1>5 DEF Heading
<1>8. \A j \in 1..Len(stream[s]) : Sound(s, m, got[s] + j, stream[s][j])
  BY <1>2, <1>5 DEF Heading
<1>9. m = IF got[s] = 0 THEN stream[s][1].mt ELSE mt[s]
  BY DEF M
<1>10. /\ q \in Seq(Unit) /\ Len(q) = Len(stream[s]) - n
       /\ \A j \in 1..(Len(stream[s]) - n) : q[j] = stream[s][n + j]
  BY <1>1, <1>4, Cuts
<1> HIDE DEF m, l, q
<1>11. /\ b \in Nat /\ (got[s] + n >= 3 => b = l) /\ (got[s] + n < 3 => b = 0)
  <2>1. CASE got[s] < 3 /\ got[s] + n >= 3
    <3>1. 3 - got[s] \in 1..Len(stream[s]) /\ got[s] + (3 - got[s]) <= HeaderSize
      BY <1>1, <1>3, <1>4, <2>1
    <3>2. Sound(s, m, got[s] + (3 - got[s]), stream[s][3 - got[s]])
      BY <1>8, <3>1
    <3>3. stream[s][3 - got[s]].len = l
      BY <3>1, <3>2 DEF Sound, l
    <3> QED
      BY <1>4, <1>6, <2>1, <3>3
  <2>2. CASE ~(got[s] < 3 /\ got[s] + n >= 3)
    BY <1>1, <1>3, <1>4, <1>7, <2>2
  <2> QED
    BY <2>1, <2>2
<1>12. ASSUME NEW j \in 1..Len(q)
       PROVE  /\ q[j] = stream[s][n + j] /\ n + j \in 1..Len(stream[s])
              /\ got[s] + (n + j) = (got[s] + n) + j
  <2>1. j \in 1..(Len(stream[s]) - n)
    BY <1>10
  <2>2. q[j] = stream[s][n + j]
    BY <1>10, <2>1
  <2> QED
    BY <1>1, <1>3, <1>4, <2>1, <2>2
<1>13. ASSUME NEW j \in 1..Len(q) PROVE Sound(s, m, (got[s] + n) + j, q[j])
  <2> DEFINE i == n + j
  <2>1. q[j] = stream[s][i] /\ i \in 1..Len(stream[s]) /\ got[s] + i = (got[s] + n) + j
    BY <1>12
  <2> HIDE DEF i
  <2> QED
    BY <1>8, <2>1
<1>14. Len(q) <= HeaderSize - (got[s] + n) + l
  <2>1. /\ Len(stream[s]) \in Nat /\ HeaderSize = 4 /\ got[s] \in Nat /\ n \in Nat /\ l \in Nat
        /\ Len(stream[s]) <= HeaderSize - got[s] + l
    BY <1>1, <1>3, <1>6, <1>7
  <2>2. Len(q) = Len(stream[s]) - n
    BY <1>10
  <2> QED
    BY <2>1, <2>2
<1>15. \A j \in 1..Len(q) : /\ q[j] = stream[s][n + j] /\ n + j \in 1..Len(stream[s])
                          /\ Sound(s, m, (got[s] + n) + j, q[j])
  BY <1>12, <1>13
<1> HIDE DEF b
<1>16. /\ n \in Nat /\ n >= 1 /\ n <= sent[s] /\ sent[s] <= Len(stream[s])
       /\ got[s] \in 0..3 /\ got[s] + n \in 1..4
       /\ filled[s] = 0 /\ stream[s] # <<>> /\ Asked(m)
       /\ q \in Seq(Unit) /\ Len(q) = Len(stream[s]) - n
  BY <1>1, <1>3, <1>4, <1>5, <1>7, <1>10
<1> QED
  BY <1>9, <1>11, <1>14, <1>15, <1>16 DEF m, l, q, b

LEMMA RecvHeaderKeeps ==
  ASSUME Inv, NEW s \in Side, RecvHeader(s)
  PROVE  Inv'
<1> DEFINE p == Peer(s)
           m == M(s)
           l == L(s, m)
<1>1. /\ p \in Side /\ p # s /\ Peer(p) = s /\ Side = {"client", "server"}
      /\ p = Peer(s) /\ HeaderSize = 4
      /\ (s = "client" /\ p = "server") \/ (s = "server" /\ p = "client")
  BY Peers DEF Side, HeaderSize
<1> HIDE DEF p
<1>2. PICK n \in 1..Least(HeaderSize - got[s], sent[s]) :
       /\ Takes(s, n)
       /\ got' = [got EXCEPT ![s] = @ + n]
       /\ mt' = IF got[s] = 0 THEN [mt EXCEPT ![s] = stream[s][1].mt] ELSE mt
       /\ blen' = IF got[s] < 3 /\ got[s] + n >= 3
                  THEN [blen EXCEPT ![s] = stream[s][3 - got[s]].len] ELSE blen
       /\ IF got[s] + n < HeaderSize THEN UNCHANGED pc
          ELSE Goto(s, IF blen'[s] = 0 THEN "deliver" ELSE "body")
  BY DEF RecvHeader
<1>3. /\ pc[s] = "header" /\ open[s]
      /\ UNCHANGED <<board, open, filled, rbuf, answer, client>>
  BY DEF RecvHeader
<1>4. /\ Ends /\ Rest /\ BoardOK /\ Places /\ Turns /\ Receiving(s) /\ Receiving(p)
      /\ Answering /\ Buffer /\ before \subseteq Broken /\ MapsAgree /\ NoPhantom
      /\ TypeOK
  BY <1>1, Parts, Types
<1> DEFINE q == SubSeq(stream[s], n + 1, Len(stream[s]))
           b == IF got[s] < 3 /\ got[s] + n >= 3 THEN stream[s][3 - got[s]].len ELSE blen[s]
<1>5. /\ n \in Nat /\ n >= 1 /\ n <= sent[s] /\ sent[s] <= Len(stream[s])
      /\ got[s] \in 0..3 /\ got[s] + n \in 1..4
      /\ filled[s] = 0 /\ stream[s] # <<>> /\ Asked(m)
      /\ m = IF got[s] = 0 THEN stream[s][1].mt ELSE mt[s]
      /\ b \in Nat
      /\ got[s] + n >= 3 => b = l
      /\ got[s] + n < 3 => b = 0
      /\ q \in Seq(Unit) /\ Len(q) = Len(stream[s]) - n
      /\ Len(q) <= HeaderSize - (got[s] + n) + l
      /\ \A j \in 1..Len(q) : Sound(s, m, (got[s] + n) + j, q[j])
  BY <1>3, <1>4, HeaderRead
<1>6. /\ stream' = [stream EXCEPT ![s] = q] /\ sent' = [sent EXCEPT ![s] = @ - n]
  BY <1>2 DEF Takes
<1>7. m \in {"MAPQUERY", "MOVE"}
  BY <1>5 DEF Asked, Request
<1>8. /\ got'[s] = got[s] + n /\ got'[p] = got[p]
      /\ mt'[s] = m /\ mt'[p] = mt[p] /\ blen'[s] = b /\ blen'[p] = blen[p]
      /\ stream'[s] = q /\ stream'[p] = stream[p]
      /\ sent'[s] = sent[s] - n /\ sent'[p] = sent[p]
      /\ pc'[p] = pc[p]
      /\ pc'[s] = IF got[s] + n < 4 THEN "header" ELSE IF b = 0 THEN "deliver" ELSE "body"
  <2>1. /\ got'[s] = got[s] + n /\ got'[p] = got[p]
        /\ stream'[s] = q /\ stream'[p] = stream[p]
        /\ sent'[s] = sent[s] - n /\ sent'[p] = sent[p]
    BY <1>1, <1>2, <1>4, <1>6 DEF Ends
  <2>2. mt'[s] = m /\ mt'[p] = mt[p]
    BY <1>1, <1>2, <1>4, <1>5 DEF Ends
  <2>3. blen'[s] = b /\ blen'[p] = blen[p]
    BY <1>1, <1>2, <1>4 DEF Ends
  <2>4. pc'[p] = pc[p] /\ pc'[s] = IF got[s] + n < 4 THEN "header"
                                  ELSE IF b = 0 THEN "deliver" ELSE "body"
    BY <1>1, <1>2, <1>3, <1>4, <2>3 DEF Goto, Ends
  <2> QED
    BY <2>1, <2>2, <2>3, <2>4
<1>9. /\ UNCHANGED <<board, before, shdr, cmap, trust, str, sbuf, open, rbuf, filled, asks>>
      /\ Whole' <=> Whole
  BY <1>3 DEF client, answer, Whole
<1>10. Ends'
  <2>1. got' \in [Side -> 0..4]
    <3>1. got[s] + n \in 0..4
      BY <1>5
    <3> QED
      BY <1>2, <1>4, <3>1 DEF Ends
  <2>2. mt' \in [Side -> {"MAPQUERY", "MOVE", "NONE"}]
    BY <1>2, <1>4, <1>5, <1>7 DEF Ends
  <2>3. blen' \in [Side -> Nat]
    BY <1>2, <1>4, <1>5 DEF Ends
  <2>4. stream' \in [Side -> Seq(Unit)]
    BY <1>4, <1>5, <1>6 DEF Ends
  <2>5. sent' \in [Side -> 0..Socket]
    <3>1. sent[s] - n \in 0..Socket
      BY <1>4, <1>5, BoundsOK DEF Ends
    <3> QED
      BY <1>4, <1>6, <3>1 DEF Ends
  <2>6. pc' \in [Side -> Place]
    BY <1>2, <1>4 DEF Ends, Goto, Place
  <2> QED
    BY <1>4, <1>9, <2>1, <2>2, <2>3, <2>4, <2>5, <2>6 DEF Ends
<1>11. Rest'
  BY <1>4, <1>9 DEF Rest
<1>12. l \in Nat /\ (s = "server" => l = 0) /\ Len(stream[s]) \in Nat
       /\ sent[s] \in Nat /\ (pc[p] = "send" /\ Whole => sent[s] < Len(stream[s]))
       /\ (pc[p] # "send" => sent[s] = Len(stream[s]))
  BY <1>1, <1>4, Sizes DEF L, Ends, Receiving
<1> HIDE DEF m, l, q, b
<1>13. /\ pc'[s] \in {"header", "deliver", "body"}
       /\ s = "server" => pc'[s] # "body"
       /\ pc'[s] = "header" => got[s] + n < 4
       /\ pc'[s] # "header" => got[s] + n = 4 /\ b = l
       /\ pc'[s] = "deliver" => l = 0
       /\ pc'[s] = "body" => l # 0
  BY <1>5, <1>8, <1>12
<1>14. pc'[s] = "deliver" => q = <<>>
  BY <1>1, <1>5, <1>12, <1>13
<1>15. pc'[s] = "deliver" /\ Whole => pc[p] # "send"
  BY <1>1, <1>5, <1>12, <1>13, <1>14
<1>16. Places'
  BY <1>1, <1>3, <1>4, <1>8, <1>9, <1>13 DEF Places
<1>17. Turns'
  BY <1>1, <1>3, <1>4, <1>5, <1>8, <1>9, <1>13, <1>14, <1>15 DEF Turns, Whole
<1>18. ASSUME pc'[s] = "header" PROVE Heading(s)'
  <2>1. M(s)' = m /\ got'[s] = got[s] + n /\ got[s] + n \in 1..3
    BY <1>1, <1>5, <1>8, <1>13, <1>18 DEF M
  <2>2. Asked(M(s))'
    BY <1>5, <1>9, <2>1 DEF Asked
  <2>3. L(s, M(s))' = l
    BY <2>1 DEF L, l
  <2>4. \A j \in 1..Len(stream[s])' : Sound(s, M(s), got[s] + j, stream[s][j])'
    <3> SUFFICES ASSUME NEW j \in 1..Len(q)
                 PROVE  Sound(s, M(s), got[s] + j, stream[s][j])'
      BY <1>8
    <3>1. Sound(s, m, (got[s] + n) + j, q[j])
      BY <1>5
    <3> QED
      BY <1>8, <1>9, <2>1, <3>1 DEF Sound, L, Plausible, Fresh, CharAt, CellAt
  <2>5. filled'[s] = 0 /\ Len(stream'[s]) <= HeaderSize - got'[s] + l
    BY <1>5, <1>8, <1>9
  <2>6. /\ got'[s] >= 3 => blen'[s] = l
        /\ got'[s] < 3 => blen'[s] = 0
    BY <1>5, <1>8
  <2> QED
    BY <1>1, <2>1, <2>2, <2>3, <2>4, <2>5, <2>6 DEF Heading
<1>19. ASSUME pc'[s] = "body" PROVE Filling(s)'
  <2>1. got'[s] = 4 /\ got[s] + n = 4 /\ blen'[s] = l /\ mt'[s] = m /\ filled'[s] = 0
    BY <1>5, <1>8, <1>9, <1>13, <1>19
  <2>2. Asked(mt[s])'
    BY <1>5, <1>9, <2>1 DEF Asked
  <2>3. L(s, mt[s])' = l
    BY <2>1 DEF L, l
  <2>4. ASSUME NEW j \in 1..Len(q)
        PROVE  /\ q[j].part = HeaderSize + 1
               /\ Plausible(j, q[j].char) /\ Fresh(j, q[j].char)
    <3> DEFINE h == (got[s] + n) + j
    <3>1. Sound(s, m, h, q[j])
      BY <1>5
    <3>2. ~(h <= HeaderSize) /\ h - HeaderSize = j
      <4>1. j \in Nat /\ j >= 1
        BY <1>5
      <4>2. h = 4 + j
        BY <2>1
      <4> QED
        BY <1>1, <4>1, <4>2
    <3> HIDE DEF h
    <3>3. /\ q[j].part = HeaderSize + 1
          /\ Plausible(h - HeaderSize, q[j].char) /\ Fresh(h - HeaderSize, q[j].char)
      BY <3>1, <3>2 DEF Sound
    <3> QED
      BY <3>2, <3>3
  <2>5. ASSUME NEW j \in 1..Len(q)
        PROVE  /\ stream'[s][j].part = HeaderSize + 1
               /\ Plausible(filled[s] + j, stream[s][j].char)'
               /\ Fresh(filled[s] + j, stream[s][j].char)'
    <3>1. filled'[s] + j = j
      BY <2>1, <1>5
    <3> QED
      BY <1>8, <1>9, <2>4, <3>1 DEF Plausible, Fresh, CharAt, CellAt
  <2>6. filled'[s] < blen'[s] /\ Len(stream'[s]) <= blen'[s] - filled'[s]
    BY <1>1, <1>5, <1>8, <1>12, <1>13, <1>19, <2>1
  <2> QED
    BY <1>1, <1>8, <2>1, <2>2, <2>3, <2>5, <2>6 DEF Filling
<1>20. ASSUME pc'[s] = "deliver" PROVE Delivering(s)'
  <2>1. got'[s] = 4 /\ blen'[s] = l /\ mt'[s] = m /\ filled'[s] = 0 /\ l = 0
    BY <1>5, <1>8, <1>9, <1>13, <1>20
  <2>2. Asked(mt[s])'
    BY <1>5, <1>9, <2>1 DEF Asked
  <2>3. L(s, mt[s])' = l
    BY <2>1 DEF L, l
  <2> QED
    BY <1>1, <2>1, <2>2, <2>3 DEF Delivering
<1>21. Receiving(s)'
  <2>1. /\ sent[s] \in Nat /\ Len(stream[s]) \in Nat /\ n \in Nat
        /\ sent[s] <= Len(stream[s]) /\ Len(q) = Len(stream[s]) - n
    BY <1>5, <1>12
  <2>2. /\ sent'[s] <= Len(stream'[s])
        /\ pc'[Peer(s)] # "send" => sent'[s] = Len(stream'[s])
        /\ pc'[Peer(s)] = "send" /\ Whole' => sent'[s] < Len(stream'[s])
    BY <1>1, <1>8, <1>9, <1>12, <2>1
  <2>3. pc'[s] \notin {"header", "body"} => stream'[s] = <<>>
    BY <1>8, <1>13, <1>14
  <2>4. filled'[s] <= PROTO_SESSION_BUF_SIZE
    BY <1>4, <1>9 DEF Receiving
  <2> QED
    BY <1>18, <1>19, <1>20, <2>2, <2>3, <2>4 DEF Receiving
<1>22. Receiving(p)'
  BY <1>1, <1>3, <1>4, <1>8, <1>9, <1>13, ReceivingSame
<1>23. Answering'
  BY <1>1, <1>3, <1>4, <1>8, <1>9, <1>13
     DEF Answering, Places, Asked, Plausible, Fresh, CharAt, CellAt
<1>24. Buffer'
  <2>1. CASE s = "client"
    <3>1. filled'["client"] = 0
      BY <1>5, <1>9, <2>1
    <3> QED
      BY <1>4, <1>9, <3>1 DEF Buffer, Plausible, CharAt
  <2>2. CASE s = "server"
    BY <1>1, <1>4, <1>8, <1>9, <2>2, BufferSame
  <2> QED
    BY <1>1, <2>1, <2>2
<1> QED
  BY <1>1, <1>4, <1>9, <1>10, <1>11, <1>16, <1>17, <1>21, <1>22, <1>23, <1>24,
     MapSame, Assembled

LEMMA RecvBodyKeeps ==
  ASSUME Inv, NEW s \in Side, RecvBody(s)
  PROVE  Inv'
<1> DEFINE p == Peer(s)
           f == filled[s]
<1>1. /\ p \in Side /\ p # s /\ Peer(p) = s /\ Side = {"client", "server"}
      /\ p = Peer(s) /\ HeaderSize = 4
      /\ (s = "client" /\ p = "server") \/ (s = "server" /\ p = "client")
  BY Peers DEF Side, HeaderSize
<1> HIDE DEF p
<1>2. PICK n \in 1..Least(blen[s] - filled[s], sent[s]) :
       /\ Takes(s, n)
       /\ rbuf' = [rbuf EXCEPT ![s] =
            [k \in 1..PROTO_SESSION_BUF_SIZE |->
               IF k - filled[s] \in 1..n THEN stream[s][k - filled[s]].char ELSE @[k]]]
       /\ filled' = [filled EXCEPT ![s] = @ + n]
       /\ IF filled[s] + n < blen[s] THEN UNCHANGED pc ELSE Goto(s, "deliver")
  BY DEF RecvBody
<1>3. /\ pc[s] = "body" /\ open[s]
      /\ UNCHANGED <<board, open, got, mt, blen, answer, client>>
  BY DEF RecvBody
<1>4. /\ Ends /\ Rest /\ BoardOK /\ Places /\ Turns /\ Receiving(s) /\ Receiving(p)
      /\ Answering /\ Buffer /\ before \subseteq Broken /\ MapsAgree /\ NoPhantom
      /\ TypeOK
  BY <1>1, Parts, Types
<1> DEFINE q == SubSeq(stream[s], n + 1, Len(stream[s]))
<1>5. Filling(s)
  BY <1>3, <1>4 DEF Receiving
<1>6. s = "client" /\ p = "server"
  <2>1. s # "server"
    BY <1>4, <1>5 DEF Filling, L, Ends
  <2> QED
    BY <1>1, <2>1
<1>7. /\ stream[s] \in Seq(Unit) /\ Len(stream[s]) \in Nat /\ sent[s] \in Nat
      /\ sent[s] <= Len(stream[s]) /\ f \in Nat /\ blen[s] \in Nat
      /\ StringSize \in Nat /\ PROTO_SESSION_BUF_SIZE \in Nat
      /\ blen[s] < StringSize /\ StringSize <= PROTO_SESSION_BUF_SIZE
      /\ Len(stream[s]) <= blen[s] - f
  BY <1>4, <1>5, Sizes DEF Ends, Receiving, Filling
<1>8. n \in Nat /\ n >= 1 /\ n <= blen[s] - f /\ n <= sent[s] /\ n \in 0..Len(stream[s])
  <2>1. n \in Nat /\ n >= 1 /\ n <= blen[s] - f /\ n <= sent[s]
    BY <1>7, Leasts
  <2> QED
    BY <1>7, <2>1
<1>9. /\ q \in Seq(Unit) /\ Len(q) = Len(stream[s]) - n
      /\ \A j \in 1..Len(q) : q[j] = stream[s][n + j] /\ n + j \in 1..Len(stream[s])
  <2>1. /\ q \in Seq(Unit) /\ Len(q) = Len(stream[s]) - n
        /\ \A j \in 1..(Len(stream[s]) - n) : q[j] = stream[s][n + j]
    BY <1>7, <1>8, Cuts
  <2> HIDE DEF q
  <2> QED
    BY <1>7, <1>8, <2>1
<1>10. /\ stream' = [stream EXCEPT ![s] = q] /\ sent' = [sent EXCEPT ![s] = @ - n]
  BY <1>2 DEF Takes
<1>11. /\ filled'[s] = f + n /\ filled'[p] = filled[p]
       /\ stream'[s] = q /\ stream'[p] = stream[p]
       /\ sent'[s] = sent[s] - n /\ sent'[p] = sent[p]
       /\ pc'[p] = pc[p]
       /\ pc'[s] = IF f + n < blen[s] THEN "body" ELSE "deliver"
  BY <1>1, <1>2, <1>3, <1>4, <1>10 DEF Ends, Goto
<1>12. /\ UNCHANGED <<board, before, shdr, cmap, trust, str, sbuf, open, got, mt, blen, asks>>
       /\ Whole' <=> Whole
  BY <1>3 DEF client, answer, Whole
<1>13. \A k \in 1..PROTO_SESSION_BUF_SIZE :
         rbuf'[s][k] = IF k - f \in 1..n THEN stream[s][k - f].char ELSE rbuf[s][k]
  BY <1>2, <1>4 DEF Rest
<1> HIDE DEF q
<1>14. Ends'
  <2>1. sent' \in [Side -> 0..Socket]
    <3>1. sent[s] - n \in 0..Socket
      BY <1>4, <1>7, <1>8, BoundsOK DEF Ends
    <3> QED
      BY <1>4, <1>10, <3>1 DEF Ends
  <2>2. stream' \in [Side -> Seq(Unit)]
    BY <1>4, <1>9, <1>10 DEF Ends
  <2>3. filled' \in [Side -> Nat]
    BY <1>2, <1>4, <1>7, <1>8 DEF Ends
  <2>4. pc' \in [Side -> Place]
    BY <1>2, <1>4 DEF Ends, Goto, Place
  <2> QED
    BY <1>4, <1>12, <2>1, <2>2, <2>3, <2>4 DEF Ends
<1>15. Rest'
  <2> DEFINE new == [k \in 1..PROTO_SESSION_BUF_SIZE |->
               IF k - f \in 1..n THEN stream[s][k - f].char ELSE rbuf[s][k]]
  <2>1. ASSUME NEW k \in 1..PROTO_SESSION_BUF_SIZE PROVE new[k] \in Letters
    <3>1. CASE k - f \in 1..n
      <4>1. k - f \in 1..Len(stream[s])
        BY <1>7, <1>8, <3>1
      <4>2. stream[s][k - f] \in Unit
        BY <1>7, <4>1
      <4> QED
        BY <3>1, <4>2 DEF Unit
    <3>2. CASE k - f \notin 1..n
      BY <1>4, <3>2 DEF Rest
    <3> QED
      BY <3>1, <3>2
  <2>2. new \in [1..PROTO_SESSION_BUF_SIZE -> Letters]
    BY <2>1
  <2>3. rbuf' = [rbuf EXCEPT ![s] = new]
    BY <1>2
  <2> HIDE DEF new
  <2>4. rbuf' \in [Side -> [1..PROTO_SESSION_BUF_SIZE -> Letters]]
    BY <1>4, <2>2, <2>3 DEF Rest
  <2> QED
    BY <1>4, <1>12, <2>4 DEF Rest
<1>16. /\ pc'[s] = "deliver" => q = <<>> /\ f + n = blen[s]
       /\ pc'[s] \in {"body", "deliver"}
       /\ pc'[s] = "body" => f + n < blen[s]
       /\ pc'[s] = "deliver" /\ Whole => pc[p] # "send"
       /\ f + n <= PROTO_SESSION_BUF_SIZE
  <2>1. pc'[s] = "deliver" => f + n = blen[s] /\ Len(q) = 0
    <3>1. /\ f \in Nat /\ n \in Nat /\ blen[s] \in Nat /\ Len(stream[s]) \in Nat
          /\ n <= blen[s] - f /\ Len(stream[s]) <= blen[s] - f /\ n <= Len(stream[s])
      BY <1>7, <1>8
    <3>2. Len(q) = Len(stream[s]) - n
      BY <1>9
    <3>3. pc'[s] = "deliver" => ~(f + n < blen[s])
      BY <1>11
    <3> QED
      BY <3>1, <3>2, <3>3
  <2>2. pc'[s] = "deliver" => q = <<>>
    BY <1>9, <2>1
  <2>3. pc'[s] = "deliver" /\ Whole => pc[p] # "send"
    <3>1. pc[p] = "send" /\ Whole => sent[s] < Len(stream[s])
      BY <1>1, <1>4 DEF Receiving
    <3> QED
      BY <1>7, <1>8, <1>9, <2>1, <3>1
  <2> QED
    BY <1>7, <1>8, <1>11, <2>1, <2>2, <2>3
<1>17. Places'
  BY <1>3, <1>4, <1>6, <1>11, <1>12, <1>16 DEF Places
<1>18. Turns'
  BY <1>3, <1>4, <1>6, <1>11, <1>12, <1>16 DEF Turns, Whole
<1>19. ASSUME NEW j \in 1..Len(stream[s])
       PROVE  /\ stream[s][j].part = HeaderSize + 1
              /\ Plausible(f + j, stream[s][j].char) /\ Fresh(f + j, stream[s][j].char)
  BY <1>5 DEF Filling
<1>20. ASSUME pc'[s] = "body" PROVE Filling(s)'
  <2>1. /\ got'[s] = HeaderSize /\ Asked(mt[s])' /\ blen'[s] = L(s, mt[s])'
        /\ filled'[s] < blen'[s]
    BY <1>5, <1>11, <1>12, <1>16, <1>20 DEF Filling, Asked, L
  <2>2. Len(stream'[s]) <= blen'[s] - filled'[s]
    BY <1>7, <1>8, <1>9, <1>11, <1>12
  <2>3. ASSUME NEW j \in 1..Len(q)
        PROVE  /\ stream'[s][j].part = HeaderSize + 1
               /\ Plausible(filled[s] + j, stream[s][j].char)'
               /\ Fresh(filled[s] + j, stream[s][j].char)'
    <3> DEFINE i == n + j
    <3>1. i \in 1..Len(stream[s]) /\ stream'[s][j] = stream[s][i]
      BY <1>9, <1>11
    <3>2. filled'[s] + j = f + i
      BY <1>7, <1>8, <1>9, <1>11
    <3> HIDE DEF i
    <3>3. /\ stream[s][i].part = HeaderSize + 1
          /\ Plausible(f + i, stream[s][i].char) /\ Fresh(f + i, stream[s][i].char)
      BY <1>19, <3>1
    <3> QED
      BY <1>12, <3>1, <3>2, <3>3 DEF Plausible, Fresh, CharAt, CellAt
  <2> QED
    BY <1>11, <2>1, <2>2, <2>3 DEF Filling
<1>21. ASSUME pc'[s] = "deliver" PROVE Delivering(s)'
  BY <1>1, <1>5, <1>7, <1>8, <1>11, <1>12, <1>16, <1>21 DEF Filling, Delivering, Asked, L
<1>22. Receiving(s)'
  <2>1. /\ sent'[s] <= Len(stream'[s])
        /\ pc'[Peer(s)] # "send" => sent'[s] = Len(stream'[s])
        /\ pc'[Peer(s)] = "send" /\ Whole' => sent'[s] < Len(stream'[s])
    BY <1>1, <1>4, <1>7, <1>8, <1>9, <1>11, <1>12 DEF Receiving
  <2> QED
    BY <1>11, <1>16, <1>20, <1>21, <2>1 DEF Receiving
<1>23. Receiving(p)'
  BY <1>1, <1>3, <1>4, <1>11, <1>12, <1>16, ReceivingSame
<1>24. Answering'
  BY <1>1, <1>3, <1>4, <1>6, <1>11, <1>12, AnsweringSame DEF answer
<1>25. Buffer'
  <2>1. ASSUME NEW k \in 1..PROTO_SESSION_BUF_SIZE, k - f \in 1..n
        PROVE  Plausible(k, rbuf'[s][k]) /\ Fresh(k, rbuf'[s][k])
    <3> DEFINE i == k - f
    <3>1. i \in 1..Len(stream[s]) /\ f + i = k
      BY <1>7, <1>8, <2>1
    <3>2. rbuf'[s][k] = stream[s][i].char
      BY <1>13, <2>1
    <3> HIDE DEF i
    <3>3. Plausible(f + i, stream[s][i].char) /\ Fresh(f + i, stream[s][i].char)
      BY <1>19, <3>1
    <3> QED
      BY <3>1, <3>2, <3>3
  <2>2. ASSUME NEW k \in 1..PROTO_SESSION_BUF_SIZE, k - f \notin 1..n
        PROVE  /\ rbuf'[s][k] = rbuf[s][k]
               /\ k \in 1..(f + n) => k \in 1..f
    BY <1>7, <1>8, <1>13, <2>2
  <2>3. ASSUME NEW k \in 1..PROTO_SESSION_BUF_SIZE
        PROVE  rbuf'[s][k] = "nul" \/ Plausible(k, rbuf'[s][k])
    BY <1>4, <1>6, <2>1, <2>2 DEF Buffer
  <2>4. ASSUME NEW k \in 1..(f + n)
        PROVE  Plausible(k, rbuf'[s][k]) /\ Fresh(k, rbuf'[s][k])
    <3>1. k \in 1..PROTO_SESSION_BUF_SIZE
      BY <1>7, <1>8
    <3> QED
      BY <1>3, <1>4, <1>6, <2>1, <2>2, <3>1 DEF Buffer
  <2> QED
    BY <1>6, <1>11, <1>12, <2>3, <2>4 DEF Buffer, Plausible, Fresh, CharAt, CellAt
<1> QED
  BY <1>1, <1>4, <1>12, <1>14, <1>15, <1>17, <1>18, <1>22, <1>23, <1>24, <1>25,
     MapSame, Assembled

LEMMA RecvEndKeeps ==
  ASSUME Inv, NEW s \in Side, RecvEnd(s)
  PROVE  Inv'
<1> DEFINE p == Peer(s)
           next == IF s = "client" THEN "deliver" ELSE "ended"
<1>1. /\ p \in Side /\ p # s /\ Peer(p) = s /\ Side = {"client", "server"}
      /\ p = Peer(s) /\ HeaderSize = 4
      /\ (s = "client" /\ p = "server") \/ (s = "server" /\ p = "client")
  BY Peers DEF Side, HeaderSize
<1> HIDE DEF p
<1>2. /\ pc[s] \in {"header", "body"}
      /\ ~open[s] \/ (sent[s] = 0 /\ ~open[p])
      /\ open' = [open EXCEPT ![s] = FALSE]
      /\ pc' = [pc EXCEPT ![s] = next]
      /\ UNCHANGED <<board, got, mt, blen, filled, rbuf, wire, answer, client>>
  BY <1>1 DEF RecvEnd, Goto
<1>3. /\ Ends /\ Rest /\ BoardOK /\ Places /\ Turns /\ Receiving(s) /\ Receiving(p)
      /\ Answering /\ Buffer /\ before \subseteq Broken /\ MapsAgree /\ NoPhantom
      /\ TypeOK
  BY <1>1, Parts, Types
<1>4. /\ open'[s] = FALSE /\ open'[p] = open[p] /\ pc'[s] = next /\ pc'[p] = pc[p]
  BY <1>1, <1>2, <1>3 DEF Ends
<1>5. /\ UNCHANGED <<board, before, shdr, cmap, trust, str, sbuf, got, mt, blen, filled, rbuf,
                     stream, sent, asks>>
      /\ ~Whole'
  BY <1>1, <1>2, <1>4 DEF client, answer, wire, Whole
<1>6. s = "client" => ~open["server"] /\ stream["client"] = <<>>
  <2>1. s = "client" => ~open["server"]
    BY <1>1, <1>2, <1>3 DEF Places
  <2>2. CASE s = "client" /\ ~open[s]
    BY <1>2, <1>3, <2>1, <2>2 DEF Places
  <2>3. CASE s = "client" /\ open[s]
    <3>1. sent[s] = 0 /\ pc[p] # "send"
      BY <1>1, <1>2, <1>3, <2>1, <2>3 DEF Places
    <3>2. Len(stream[s]) = 0 /\ stream[s] \in Seq(Unit)
      BY <1>1, <1>3, <3>1 DEF Receiving, Ends
    <3> QED
      BY <2>1, <2>3, <3>2
  <2> QED
    BY <2>2, <2>3, <2>1
<1>7. Ends'
  BY <1>2, <1>3, <1>5 DEF Ends, Place
<1>8. Rest'
  BY <1>3, <1>5 DEF Rest
<1>9. Places'
  BY <1>1, <1>2, <1>3, <1>4, <1>5, <1>6 DEF Places
<1>10. Turns'
  BY <1>5 DEF Turns, Whole
<1>11. ASSUME s = "client" PROVE Delivering(s)'
  <2>1. CASE pc[s] = "header"
    <3>1. Heading(s) /\ got[s] \in 0..4 /\ filled[s] \in Nat /\ blen[s] \in Nat
      BY <1>3, <2>1 DEF Receiving, Ends
    <3> QED
      BY <1>1, <1>4, <1>5, <3>1 DEF Heading, Delivering, Asked, M, L
  <2>2. CASE pc[s] = "body"
    <3>1. Filling(s) /\ filled[s] \in Nat /\ blen[s] \in Nat
      BY <1>3, <2>2 DEF Receiving, Ends
    <3> QED
      BY <1>1, <1>4, <1>5, <3>1 DEF Filling, Delivering, Asked, L
  <2> QED
    BY <1>2, <2>1, <2>2
<1>12. Receiving(s)'
  BY <1>1, <1>2, <1>3, <1>4, <1>5, <1>6, <1>11 DEF Receiving
<1>13. Receiving(p)'
  <2>1. pc'[Peer(p)] # "send" /\ pc[Peer(p)] # "send"
    BY <1>1, <1>2, <1>4
  <2>2. Receiving(p) /\ (Whole' => Whole)
    BY <1>3, <1>5
  <2> QED
    BY <1>1, <1>4, <1>5, <2>1, <2>2, ReceivingSame
<1>14. Answering'
  BY <1>1, <1>3, <1>4, <1>5, AnsweringSame DEF answer
<1>15. Buffer'
  <2>1. CASE pc["client"] = "header"
    <3>1. filled["client"] = 0
      BY <1>1, <1>3, <2>1 DEF Receiving, Heading
    <3> QED
      BY <1>3, <1>5, <3>1 DEF Buffer, Plausible, Fresh, CharAt, CellAt
  <2>2. CASE pc["client"] # "header"
    BY <1>1, <1>2, <1>3, <1>4, <1>5, <2>2, BufferSame
  <2> QED
    BY <2>1, <2>2
<1> QED
  BY <1>1, <1>3, <1>5, <1>7, <1>8, <1>9, <1>10, <1>12, <1>13, <1>14, <1>15, MapSame, Assembled

(* Writing a message to an end that waits for one. *)
LEMMA MessageSent ==
  ASSUME Inv, NEW s \in Side, pc[Peer(s)] # "send",
         NEW type \in Request, NEW body \in Seq(Letters), Len(body) = L(s, type),
         \A k \in 1..Len(body) : Plausible(k, body[k])' /\ Fresh(k, body[k])',
         (Whole => type = shdr)',
         \/ pc[s] = "header" /\ got[s] = 0 /\ stream[s] = <<>>
         \/ pc[s] = "ended" /\ ~Whole',
         stream'[s] = stream[s] \o Message(type, body), sent' = sent,
         got' = got, mt' = mt, blen' = blen, filled' = filled,
         pc'[s] = pc[s], open' = open, pc'[Peer(s)] = "send"
  PROVE  Receiving(s)'
<1> DEFINE q == Message(type, body)
<1>1. /\ q \in Seq(Unit) /\ Len(q) = HeaderSize + Len(body)
      /\ \A k \in 1..Len(q) :
           IF k <= HeaderSize
           THEN q[k].part = k /\ q[k].mt = type /\ q[k].len = Len(body)
           ELSE q[k].part = HeaderSize + 1 /\ q[k].char = body[k - HeaderSize]
  BY Messages
<1>2. /\ Ends /\ Receiving(s) /\ HeaderSize = 4 /\ Len(body) \in Nat
      /\ stream[s] \in Seq(Unit) /\ sent[s] \in Nat /\ Len(q) \in Nat
      /\ Len(stream[s]) \in Nat
  BY <1>1, Parts DEF HeaderSize, Ends
<1>2a. stream'[s] = stream[s] \o q
  OBVIOUS
<1> HIDE DEF q
<1>3. /\ stream'[s] = stream[s] \o q /\ Len(stream'[s]) = Len(stream[s]) + Len(q)
      /\ sent[s] <= Len(stream[s])
  <2>1. Len(stream[s] \o q) = Len(stream[s]) + Len(q)
    <3>1. q \in Seq(Unit) /\ stream[s] \in Seq(Unit)
      BY <1>1, <1>2
    <3> QED
      BY <3>1, ConcatProperties
  <2>2. sent[s] <= Len(stream[s])
    BY <1>2 DEF Receiving
  <2> QED
    BY <1>2a, <2>1, <2>2
<1>4. CASE pc[s] = "header" /\ got[s] = 0 /\ stream[s] = <<>>
  <2>1. stream'[s] = q
    BY <1>1, <1>3, <1>4
  <2>2. Heading(s) /\ got[s] = 0 /\ blen[s] = 0 /\ mt[s] = "NONE" /\ filled[s] = 0
    BY <1>2, <1>4 DEF Receiving, Heading
  <2>3. M(s)' = type
    BY <1>1, <1>2, <1>4, <2>1 DEF M
  <2>4. Asked(M(s))' /\ L(s, M(s))' = Len(body)
    BY <2>3 DEF Asked, L
  <2>5. ASSUME NEW j \in 1..Len(q) PROVE Sound(s, M(s), got[s] + j, stream[s][j])'
    <3>1. got'[s] + j = j /\ L(s, M(s))' = L(s, type) /\ j \in Nat
      BY <1>2, <2>2, <2>3 DEF L
    <3>2. CASE j <= HeaderSize
      BY <1>1, <2>1, <2>3, <2>4, <3>1, <3>2 DEF Sound
    <3>3. CASE ~(j <= HeaderSize)
      <4> DEFINE k == j - HeaderSize
      <4>1. k \in 1..Len(body) /\ q[j].part = HeaderSize + 1 /\ q[j].char = body[k]
        BY <1>1, <1>2, <3>1, <3>3
      <4> HIDE DEF k
      <4>2. Plausible(k, body[k])' /\ Fresh(k, body[k])'
        BY <4>1 DEF k
      <4>3. Plausible(k, stream[s][j].char)' /\ Fresh(k, stream[s][j].char)'
        BY <2>1, <4>1, <4>2 DEF k
      <4> QED
        BY <2>1, <3>1, <3>3, <4>1, <4>3 DEF Sound, k
    <3> QED
      BY <3>2, <3>3
  <2>6. Heading(s)'
    BY <1>1, <1>2, <2>1, <2>2, <2>4, <2>5 DEF Heading
  <2> QED
    BY <1>1, <1>2, <1>3, <1>4, <2>6 DEF Receiving
<1>5. CASE pc[s] = "ended" /\ ~Whole'
  <2>1. ~open[s]
    BY <1>5, Parts DEF Places, Side
  <2> QED
    BY <1>1, <1>2, <1>3, <1>5, <2>1 DEF Receiving
<1> QED
  BY <1>4, <1>5

LEMMA AnswerKeeps ==
  ASSUME Inv, pc["server"] \in {"deliver", "convert"},
         NEW type, Asked(type), NEW body \in Seq(Letters), Len(body) = L("client", type),
         \A k \in 1..Len(body) : Plausible(k, body[k]) /\ Fresh(k, body[k]),
         Writes("server", Message(type, body)),
         UNCHANGED <<board, open, got, mt, blen, filled, rbuf, client>>,
         str' = <<>>, sbuf' \in Seq(Letters)
  PROVE  Inv'
<1>1. "client" \in Side /\ "server" \in Side /\ Side = {"client", "server"}
      /\ Peer("server") = "client" /\ Peer("client") = "server" /\ HeaderSize = 4
  BY DEF Side, Peer, HeaderSize
<1>2. /\ Ends /\ Rest /\ BoardOK /\ Places /\ Turns
      /\ Receiving("server") /\ Receiving("client")
      /\ Answering /\ Buffer /\ before \subseteq Broken /\ MapsAgree /\ NoPhantom
  BY <1>1, Parts
<1> DEFINE q == Message(type, body)
<1>3. type \in Request /\ q \in Seq(Unit)
  BY Messages DEF Asked
<1>4. /\ stream' = [stream EXCEPT !["client"] = @ \o q] /\ sent' = sent
      /\ pc' = [pc EXCEPT !["server"] = "send"]
  BY <1>1 DEF Writes, Goto
<1> HIDE DEF q
<1>5. /\ stream'["client"] = stream["client"] \o q /\ stream'["server"] = stream["server"]
      /\ pc'["client"] = pc["client"] /\ pc'["server"] = "send"
  BY <1>1, <1>2, <1>4 DEF Ends
<1>6. /\ UNCHANGED <<board, before, shdr, cmap, trust, open, rbuf, got, mt, blen, filled,
                     sent, asks>>
      /\ (Whole' <=> Whole)
  BY <1>4 DEF client, Whole
<1>7. \/ /\ Whole /\ pc["client"] = "header" /\ got["client"] = 0 /\ stream["client"] = <<>>
      \/ pc["client"] = "ended" /\ ~Whole
  <2>1. open["server"]
    BY <1>2 DEF Places
  <2>2. CASE open["client"]
    BY <1>2, <2>1, <2>2 DEF Places, Turns, Whole
  <2>3. CASE ~open["client"]
    BY <1>2, <2>1, <2>3 DEF Places, Whole
  <2> QED
    BY <2>2, <2>3
<1>8. Ends'
  <2>1. stream["client"] \o q \in Seq(Unit)
    BY <1>1, <1>2, <1>3, ConcatProperties DEF Ends
  <2>2. stream' \in [Side -> Seq(Unit)]
    BY <1>2, <1>4, <2>1 DEF Ends
  <2>3. pc' \in [Side -> Place]
    BY <1>2, <1>4 DEF Ends, Place
  <2> QED
    BY <1>2, <1>6, <2>2, <2>3 DEF Ends
<1>9. str' \in Seq(Letters)
  OBVIOUS
<1>10. Rest'
  BY <1>2, <1>6, <1>9 DEF Rest
<1>11. Places'
  BY <1>2, <1>5, <1>6, <1>7 DEF Places
<1>12. Turns'
  BY <1>2, <1>5, <1>6, <1>7 DEF Turns, Whole
<1>13. \A k \in 1..Len(body) : Plausible(k, body[k])' /\ Fresh(k, body[k])'
  BY <1>6 DEF Plausible, Fresh, CharAt, CellAt
<1>14. Receiving("client")'
  <2>1. (Whole => type = shdr)'
    BY <1>6 DEF Asked
  <2>2. pc[Peer("client")] # "send" /\ pc'[Peer("client")] = "send"
    BY <1>1, <1>5
  <2>3. stream'["client"] = stream["client"] \o Message(type, body)
    BY <1>5 DEF q
  <2> QED
    BY <1>1, <1>3, <1>5, <1>6, <1>7, <1>13, <2>1, <2>2, <2>3, MessageSent
<1>15. Receiving("server")'
  BY <1>1, <1>2, <1>5, <1>6 DEF Receiving
<1>16. Answering'
  BY <1>5, Sizes DEF Answering
<1>17. Buffer'
  BY <1>1, <1>2, <1>5, <1>6, BufferSame
<1> QED
  BY <1>1, <1>2, <1>6, <1>8, <1>10, <1>11, <1>12, <1>14, <1>15, <1>16, <1>17, MapSame, Assembled

LEMMA ServeKeeps ==
  ASSUME Inv, Serve
  PROVE  Inv'
<1>1. "client" \in Side /\ "server" \in Side /\ Side = {"client", "server"}
      /\ Peer("server") = "client" /\ Peer("client") = "server" /\ HeaderSize = 4
  BY DEF Side, Peer, HeaderSize
<1>2. /\ Ends /\ Rest /\ BoardOK /\ Places /\ Turns
      /\ Receiving("server") /\ Receiving("client")
      /\ Answering /\ Buffer /\ before \subseteq Broken /\ MapsAgree /\ NoPhantom
  BY <1>1, Parts
<1>3. /\ pc["server"] = "deliver" /\ open["server"]
      /\ UNCHANGED <<board, open, got, mt, blen, filled, rbuf, answer, client>>
  BY <1>2 DEF Serve, Places
<1>4. Asked(mt["server"]) /\ sbuf = <<>> /\ str = <<>>
  BY <1>2, <1>3 DEF Receiving, Delivering, Answering, HeaderSize
<1>5. CASE mt["server"] = "MAPQUERY"
  <2>1. pc' = [pc EXCEPT !["server"] = "convert"] /\ UNCHANGED wire
    BY <1>3, <1>5 DEF Serve, Goto
  <2>2. /\ UNCHANGED <<board, before, shdr, cmap, trust, open, rbuf, got, mt, blen, filled,
                       stream, sent, asks, str, sbuf>>
        /\ (Whole' <=> Whole)
    BY <1>3, <2>1 DEF client, Whole, wire, answer
  <2>3. pc'["client"] = pc["client"] /\ pc'["server"] = "convert"
    BY <1>1, <1>2, <2>1 DEF Ends
  <2>4. Ends'
    BY <1>2, <2>1, <2>2 DEF Ends, Place
  <2>5. Rest'
    BY <1>2, <2>2 DEF Rest
  <2>6. Places'
    BY <1>2, <1>3, <2>2, <2>3 DEF Places
  <2>7. Turns'
    BY <1>2, <1>3, <2>2, <2>3 DEF Turns
  <2>8. Receiving("server")'
    BY <1>1, <1>2, <1>3, <2>2, <2>3 DEF Receiving
  <2>9. Receiving("client")'
    BY <1>1, <1>2, <1>3, <2>2, <2>3, ReceivingSame
  <2>10. Answering'
    BY <1>4, <1>5, <2>2, <2>3, Sizes DEF Answering, Asked
  <2>11. Buffer'
    BY <1>1, <1>2, <2>2, <2>3, BufferSame
  <2> QED
    BY <1>1, <1>2, <2>2, <2>4, <2>5, <2>6, <2>7, <2>8, <2>9, <2>10, <2>11, MapSame, Assembled
<1>6. CASE mt["server"] # "MAPQUERY"
  <2>1. Writes("server", Message(mt["server"], sbuf))
    BY <1>3, <1>6 DEF Serve
  <2>2. sbuf \in Seq(Letters) /\ Len(sbuf) = 0 /\ L("client", mt["server"]) = 0
    BY <1>4, <1>6 DEF L
  <2>3. str' = <<>> /\ sbuf' \in Seq(Letters)
    BY <1>3, <1>4 DEF answer
  <2>4. \A k \in 1..Len(sbuf) : Plausible(k, sbuf[k]) /\ Fresh(k, sbuf[k])
    BY <2>2
  <2> QED
    BY <1>3, <1>4, <2>1, <2>2, <2>3, <2>4, AnswerKeeps
<1> QED
  BY <1>5, <1>6

LEMMA AnswerMapKeeps ==
  ASSUME Inv, AnswerMap
  PROVE  Inv'
<1>1. "server" \in Side
  BY DEF Side
<1>2. Rest /\ Answering
  BY <1>1, Parts
<1>3. /\ pc["server"] = "convert" /\ Len(str) = StringSize - 1
      /\ sbuf' = Marshalled(str) /\ str' = <<>>
      /\ Writes("server", Message("MAPQUERY", sbuf'))
      /\ UNCHANGED <<board, open, got, mt, blen, filled, rbuf, client>>
  BY DEF AnswerMap
<1>4. sbuf = <<>> /\ Asked("MAPQUERY") /\ str \in Seq(Letters)
      /\ \A k \in 1..Len(str) : Plausible(k, str[k]) /\ Fresh(k, str[k])
  BY <1>2, <1>3 DEF Answering, Rest
<1>5. sbuf' = str
  <2>1. Len(str) <= PROTO_SESSION_BUF_SIZE - 1 /\ Len(str) \in Nat /\ Len(sbuf) = 0
        /\ PROTO_SESSION_BUF_SIZE \in Nat
    BY <1>3, <1>4, Sizes
  <2>2. Least(Len(str), PROTO_SESSION_BUF_SIZE - 1 - Len(sbuf)) = Len(str)
    BY <2>1 DEF Least
  <2>3. SubSeq(str, 1, Len(str)) = str
    BY <1>4
  <2>4. <<>> \o str = str
    BY <1>4, ConcatEmptySeq
  <2> QED
    BY <1>3, <1>4, <2>2, <2>3, <2>4 DEF Marshalled
<1>6. Writes("server", Message("MAPQUERY", str)) /\ Len(str) = L("client", "MAPQUERY")
  BY <1>3, <1>5 DEF L
<1> QED
  BY <1>3, <1>4, <1>5, <1>6, AnswerKeeps

LEMMA ConvertKeeps ==
  ASSUME Inv, Convert
  PROVE  Inv'
<1>1. "client" \in Side /\ "server" \in Side /\ Side = {"client", "server"}
      /\ Peer("server") = "client" /\ Peer("client") = "server"
  BY DEF Side, Peer
<1>2. /\ Ends /\ Rest /\ BoardOK /\ Places /\ Turns
      /\ Receiving("server") /\ Receiving("client")
      /\ Answering /\ Buffer /\ before \subseteq Broken /\ MapsAgree /\ NoPhantom
  BY <1>1, Parts
<1> DEFINE ch == CharAt(board, Len(str))
<1>3. /\ pc["server"] = "convert" /\ Len(str) < StringSize - 1
      /\ str' = Append(str, ch)
      /\ UNCHANGED <<board, session, wire, sbuf, client>>
  BY DEF Convert
<1>4. /\ UNCHANGED <<board, before, shdr, cmap, trust, open, rbuf, got, mt, blen, filled, pc,
                     stream, sent, asks, sbuf>>
      /\ (Whole' <=> Whole)
  BY <1>3 DEF client, Whole, wire, session
<1>5. str \in Seq(Letters) /\ Len(str) \in Nat /\ StringSize \in Nat
      /\ Len(str) \in 0..(StringSize - 2) /\ board \in [Cell -> CellType]
  BY <1>2, <1>3, Sizes DEF Rest
<1>6. ch \in Letters
  BY <1>5, StringOfLetters
<1>7. Plausible(Len(str) + 1, ch) /\ Fresh(Len(str) + 1, ch)
  <2>1. (Len(str) + 1) - 1 = Len(str) /\ Len(str) + 1 \in 1..(StringSize - 1)
    BY <1>5
  <2> QED
    BY <2>1 DEF Plausible, Fresh
<1> HIDE DEF ch
<1>8. /\ str' \in Seq(Letters) /\ Len(str') = Len(str) + 1
      /\ \A k \in 1..Len(str) : str'[k] = str[k]
      /\ str'[Len(str) + 1] = ch
  BY <1>3, <1>5, <1>6
<1>9. Answering'
  <2>1. Asked("MAPQUERY") /\ \A k \in 1..Len(str) : Plausible(k, str[k]) /\ Fresh(k, str[k])
    BY <1>2, <1>3 DEF Answering
  <2>2. ASSUME NEW k \in 1..(Len(str) + 1)
        PROVE  Plausible(k, str'[k]) /\ Fresh(k, str'[k])
    <3>1. k \in 1..Len(str) \/ k = Len(str) + 1
      BY <1>5
    <3>2. CASE k \in 1..Len(str)
      BY <1>8, <2>1, <3>2
    <3>3. CASE k = Len(str) + 1
      BY <1>7, <1>8, <3>3
    <3> QED
      BY <3>1, <3>2, <3>3
  <2>3. Len(str') < StringSize
    BY <1>3, <1>5, <1>8
  <2> QED
    BY <1>2, <1>3, <1>4, <1>8, <2>1, <2>2, <2>3
       DEF Answering, Asked, Plausible, Fresh, CharAt, CellAt
<1>10. Ends'
  BY <1>2, <1>4 DEF Ends
<1>11. Rest'
  BY <1>2, <1>4, <1>8 DEF Rest
<1>12. Places' /\ Turns'
  BY <1>2, <1>4 DEF Places, Turns
<1>13. Receiving("server")' /\ Receiving("client")'
  BY <1>1, <1>2, <1>4, ReceivingSame
<1>14. Buffer'
  BY <1>2, <1>4, BufferSame
<1> QED
  BY <1>1, <1>2, <1>4, <1>9, <1>10, <1>11, <1>12, <1>13, <1>14, MapSame, Assembled

LEMMA AskKeeps ==
  ASSUME Inv, NEW type \in Request, Ask(type)
  PROVE  Inv'
<1>1. "client" \in Side /\ "server" \in Side /\ Side = {"client", "server"}
      /\ Peer("server") = "client" /\ Peer("client") = "server" /\ HeaderSize = 4
  BY DEF Side, Peer, HeaderSize
<1>2. /\ Ends /\ Rest /\ BoardOK /\ Places /\ Turns
      /\ Receiving("server") /\ Receiving("client")
      /\ Answering /\ Buffer /\ before \subseteq Broken /\ MapsAgree /\ NoPhantom
  BY <1>1, Parts
<1> DEFINE q == Message(type, <<>>)
<1>3. <<>> \in Seq(Letters) /\ Len(<<>>) = 0 /\ q \in Seq(Unit)
  <2>1. <<>> \in Seq(Letters) /\ Len(<<>>) = 0
    OBVIOUS
  <2> QED
    BY <2>1, Messages
<1>4. /\ pc["client"] = "idle" /\ asks < MaxAsks
      /\ asks' = asks + 1 /\ shdr' = type
      /\ before' = IF type = "MAPQUERY" THEN Broken ELSE before
      /\ UNCHANGED <<board, open, got, mt, blen, filled, rbuf, answer, cmap, trust>>
  BY DEF Ask
<1>5. /\ stream' = [stream EXCEPT !["server"] = @ \o q] /\ sent' = sent
      /\ pc' = [pc EXCEPT !["client"] = "send"]
  BY <1>1 DEF Ask, Writes, Goto
<1> HIDE DEF q
<1>6. /\ stream'["server"] = stream["server"] \o q /\ stream'["client"] = stream["client"]
      /\ pc'["server"] = pc["server"] /\ pc'["client"] = "send"
  BY <1>1, <1>2, <1>5 DEF Ends
<1>7. /\ UNCHANGED <<board, cmap, trust, open, rbuf, got, mt, blen, filled, sent, str, sbuf>>
      /\ (Whole' <=> Whole)
  BY <1>4, <1>5 DEF answer, Whole
<1>8. \/ /\ Whole /\ pc["server"] = "header" /\ got["server"] = 0 /\ stream["server"] = <<>>
         /\ stream["client"] = <<>>
      \/ pc["server"] = "ended" /\ ~Whole
  <2>1. CASE Whole
    BY <1>2, <1>4, <2>1 DEF Turns, Whole
  <2>2. CASE ~Whole
    BY <1>2, <1>4, <2>2 DEF Places, Whole
  <2> QED
    BY <2>1, <2>2
<1>9. Ends'
  <2>1. stream["server"] \o q \in Seq(Unit)
    BY <1>1, <1>2, <1>3, ConcatProperties DEF Ends
  <2>2. stream' \in [Side -> Seq(Unit)]
    BY <1>2, <1>5, <2>1 DEF Ends
  <2>3. pc' \in [Side -> Place]
    BY <1>2, <1>5 DEF Ends, Place
  <2> QED
    BY <1>2, <1>7, <2>2, <2>3 DEF Ends
<1>10. before' \subseteq Broken /\ Broken' = Broken /\ before' \subseteq Cell
  BY <1>2, <1>4, <1>7 DEF Broken, Wall
<1>11. Rest'
  <2>1. asks' \in 0..MaxAsks
    BY <1>2, <1>4, BoundsOK DEF Rest
  <2> QED
    BY <1>2, <1>4, <1>7, <1>10, <2>1 DEF Rest
<1>12. Places'
  BY <1>2, <1>4, <1>6, <1>7 DEF Places
<1>13. Turns'
  BY <1>2, <1>6, <1>7, <1>8 DEF Turns, Whole
<1>14. Receiving("server")'
  <2>1. stream'["server"] = stream["server"] \o Message(type, <<>>)
    BY <1>6 DEF q
  <2>2. Len(<<>>) = L("server", type)
    BY <1>3 DEF L
  <2>3. \A k \in 1..Len(<<>>) : Plausible(k, <<>>[k])' /\ Fresh(k, <<>>[k])'
    BY <1>3
  <2>4. pc[Peer("server")] # "send" /\ pc'[Peer("server")] = "send"
    BY <1>1, <1>4, <1>6
  <2>5. (Whole => type = shdr)'
    BY <1>4
  <2> QED
    BY <1>1, <1>3, <1>6, <1>7, <1>8, <2>1, <2>2, <2>3, <2>4, <2>5, MessageSent
<1>15. Receiving("client")'
  BY <1>1, <1>2, <1>4, <1>6, <1>7 DEF Receiving
<1>16. Answering'
  BY <1>2, <1>6, <1>7, <1>8 DEF Answering
<1>17. Buffer'
  BY <1>2, <1>6, <1>7 DEF Buffer, Plausible, CharAt
<1>18. BoardOK' /\ MapsAgree' /\ NoPhantom' /\ (before \subseteq Broken)'
  BY <1>2, <1>7, <1>10 DEF BoardOK, MapsAgree, NoPhantom
<1> QED
  BY <1>1, <1>9, <1>11, <1>12, <1>13, <1>14, <1>15, <1>16, <1>17, <1>18, Assembled

LEMMA DeliverNothingKeeps ==
  ASSUME Inv, DeliverNothing
  PROVE  Inv'
<1>1. "client" \in Side /\ "server" \in Side /\ Side = {"client", "server"}
      /\ Peer("server") = "client" /\ Peer("client") = "server" /\ HeaderSize = 4
  BY DEF Side, Peer, HeaderSize
<1>2. /\ Ends /\ Rest /\ BoardOK /\ Places /\ Turns
      /\ Receiving("server") /\ Receiving("client")
      /\ Answering /\ Buffer /\ before \subseteq Broken /\ MapsAgree /\ NoPhantom
  BY <1>1, Parts
<1>3. /\ pc["client"] = "deliver" /\ got["client"] = 0
      /\ pc' = [pc EXCEPT !["client"] = "lost"]
      /\ UNCHANGED <<board, open, got, mt, blen, filled, rbuf, wire, answer, client>>
  BY DEF DeliverNothing, Goto
<1>4. /\ UNCHANGED <<board, before, shdr, cmap, trust, open, rbuf, got, mt, blen, filled,
                     stream, sent, asks, str, sbuf>>
      /\ (Whole' <=> Whole)
  BY <1>3 DEF client, Whole, wire, answer
<1>5. pc'["server"] = pc["server"] /\ pc'["client"] = "lost" /\ ~open["client"]
  BY <1>1, <1>2, <1>3 DEF Ends, Receiving, Delivering
<1>6. Ends'
  BY <1>2, <1>3, <1>4 DEF Ends, Place
<1>7. Rest'
  BY <1>2, <1>4 DEF Rest
<1>8. Places' /\ Turns'
  BY <1>2, <1>3, <1>4, <1>5 DEF Places, Turns
<1>9. Receiving("client")'
  BY <1>1, <1>2, <1>4, <1>5 DEF Receiving
<1>10. Receiving("server")'
  BY <1>1, <1>2, <1>3, <1>4, <1>5, ReceivingSame
<1>11. Answering'
  BY <1>2, <1>4, <1>5, AnsweringSame DEF answer
<1>12. Buffer'
  BY <1>2, <1>4, <1>5, BufferSame
<1> QED
  BY <1>1, <1>2, <1>4, <1>6, <1>7, <1>8, <1>9, <1>10, <1>11, <1>12, MapSame, Assembled

LEMMA DeliverMoveKeeps ==
  ASSUME Inv, DeliverMove
  PROVE  Inv'
<1>1. "client" \in Side /\ "server" \in Side /\ Side = {"client", "server"}
      /\ Peer("server") = "client" /\ Peer("client") = "server" /\ HeaderSize = 4
  BY DEF Side, Peer, HeaderSize
<1>2. /\ Ends /\ Rest /\ BoardOK /\ Places /\ Turns
      /\ Receiving("server") /\ Receiving("client")
      /\ Answering /\ Buffer /\ before \subseteq Broken /\ MapsAgree /\ NoPhantom
  BY <1>1, Parts
<1>3. /\ pc["client"] = "deliver"
      /\ pc' = [pc EXCEPT !["client"] = "idle"]
      /\ UNCHANGED <<board, open, got, mt, blen, filled, rbuf, wire, answer, client>>
  BY DEF DeliverMove, Goto
<1>4. /\ UNCHANGED <<board, before, shdr, cmap, trust, open, rbuf, got, mt, blen, filled,
                     stream, sent, asks, str, sbuf>>
      /\ (Whole' <=> Whole)
  BY <1>3 DEF client, Whole, wire, answer
<1>5. pc'["server"] = pc["server"] /\ pc'["client"] = "idle"
  BY <1>1, <1>2, <1>3 DEF Ends
<1>6. Ends'
  BY <1>2, <1>3, <1>4 DEF Ends, Place
<1>7. Rest'
  BY <1>2, <1>4 DEF Rest
<1>8. Places'
  BY <1>2, <1>3, <1>4, <1>5 DEF Places
<1>13. Turns'
  BY <1>2, <1>3, <1>4, <1>5 DEF Turns
<1>9. Receiving("client")'
  BY <1>1, <1>2, <1>3, <1>4, <1>5 DEF Receiving
<1>10. Receiving("server")'
  BY <1>1, <1>2, <1>3, <1>4, <1>5, ReceivingSame
<1>11. Answering'
  BY <1>2, <1>4, <1>5, AnsweringSame DEF answer
<1>12. Buffer'
  BY <1>2, <1>4, <1>5, BufferSame
<1> QED
  BY <1>1, <1>2, <1>4, <1>6, <1>7, <1>8, <1>13, <1>9, <1>10, <1>11, <1>12, MapSame, Assembled

(* What the client reads in its buffer. *)
LEMMA BufferReads ==
  ASSUME Inv, NEW c \in Cell
  PROVE  LET ch == rbuf["client"][c[1] * (dimension + 1) + c[2] + 1]
             t == Sided(cellTypeFromChar(ch), c[2])
         IN /\ t = FromString(rbuf["client"])[c]
            /\ t \in CellType
            /\ t \in Floor => board[c] \in Floor
            /\ pc["client"] = "deliver" /\ filled["client"] = StringSize - 1 =>
                 /\ c \in Wall => t \in {"WALL_UNFIXED", SideOf(c[2])}
                 /\ c \notin Wall => t = board[c]
                 /\ c \in before /\ board[c] \in Floor => t \in Floor
<1> DEFINE k == c[1] * (dimension + 1) + c[2] + 1
           ch == rbuf["client"][k]
           t == Sided(cellTypeFromChar(ch), c[2])
<1>1. Buffer /\ BoardOK
  BY DEF Inv
<1>2. /\ k \in 1..(StringSize - 1) /\ CellAt(k - 1) = c
      /\ \A map : CharAt(map, k - 1) = getCellChar(map[c])
  BY PlaceOfCell
<1>3. t = FromString(rbuf["client"])[c]
  BY DEF FromString
<1>4. k \in 1..PROTO_SESSION_BUF_SIZE
  <2>1. StringSize - 1 <= PROTO_SESSION_BUF_SIZE /\ StringSize \in Nat
        /\ PROTO_SESSION_BUF_SIZE \in Nat
    BY Sizes
  <2> HIDE DEF k
  <2> QED
    BY <1>2, <2>1
<1>5. ASSUME Plausible(k, ch)
      PROVE  /\ t \in CellType
             /\ c \in Wall => t \in {"WALL_UNFIXED", SideOf(c[2])}
             /\ c \notin Wall => t = board[c]
             /\ t \in Floor => board[c] \in Floor
             /\ ch = getCellChar(board[c]) /\ board[c] \in Floor => t \in Floor
  BY <1>1, <1>5, ReadsCell
<1>6. ch = "nul" => t = "INVALID"
  BY DEF cellTypeFromChar, Sided
<1>7. "INVALID" \in CellType /\ "INVALID" \notin Floor
  BY DEF CellType, Floor
<1> HIDE DEF k, ch, t
<1>8. ch = "nul" \/ Plausible(k, ch)
  BY <1>1, <1>4 DEF Buffer, ch
<1>9. ASSUME pc["client"] = "deliver", filled["client"] = StringSize - 1
      PROVE  Plausible(k, ch) /\ Fresh(k, ch)
  BY <1>1, <1>2, <1>9 DEF Buffer, ch
<1>10. ASSUME Fresh(k, ch), c \in before PROVE ch = getCellChar(board[c])
  BY <1>2, <1>10 DEF Fresh
<1>11. t \in CellType /\ (t \in Floor => board[c] \in Floor)
  BY <1>5, <1>6, <1>7, <1>8
<1> QED
  BY <1>3, <1>5, <1>9, <1>10, <1>11 DEF k, ch, t

LEMMA DeliverMapKeeps ==
  ASSUME Inv, DeliverMap
  PROVE  Inv'
<1> DEFINE next == IF got["client"] = 3 THEN "crashed" ELSE "idle"
<1>1. "client" \in Side /\ "server" \in Side /\ Side = {"client", "server"}
      /\ Peer("server") = "client" /\ Peer("client") = "server" /\ HeaderSize = 4
  BY DEF Side, Peer, HeaderSize
<1>2. /\ Ends /\ Rest /\ BoardOK /\ Places /\ Turns
      /\ Receiving("server") /\ Receiving("client")
      /\ Answering /\ Buffer /\ before \subseteq Broken /\ MapsAgree /\ NoPhantom
  BY <1>1, Parts
<1>3. /\ pc["client"] = "deliver" /\ mt["client"] = "MAPQUERY"
      /\ trust' = CASE got["client"] = 1 -> "empty"
                 [] got["client"] \in {2, 3} -> "junk"
                 [] got["client"] = 4 /\ filled["client"] < blen["client"] -> "cut"
                 [] OTHER -> "map"
      /\ cmap' = IF got["client"] = 4 THEN FromString(rbuf["client"]) ELSE cmap
      /\ pc' = [pc EXCEPT !["client"] = next]
      /\ UNCHANGED <<board, open, got, mt, blen, filled, rbuf, wire, answer, shdr, asks, before>>
  BY <1>1 DEF DeliverMap, Goto
<1>4. /\ UNCHANGED <<board, before, shdr, open, rbuf, got, mt, blen, filled,
                     stream, sent, asks, str, sbuf>>
      /\ (Whole' <=> Whole)
  BY <1>3 DEF Whole, wire, answer
<1>5. /\ pc'["server"] = pc["server"] /\ pc'["client"] = next
      /\ next \in {"crashed", "idle"} /\ (next = "crashed" => got["client"] = 3)
  BY <1>1, <1>2, <1>3 DEF Ends
<1>6. /\ got["client"] \in 1..4 /\ filled["client"] \in Nat /\ blen["client"] \in Nat
      /\ got["client"] # 4 => ~open["client"]
      /\ got["client"] = 4 => blen["client"] = StringSize - 1
      /\ filled["client"] <= blen["client"]
  <2>1. Delivering("client") /\ got["client"] \in 0..4
        /\ filled["client"] \in Nat /\ blen["client"] \in Nat
    BY <1>1, <1>2, <1>3 DEF Receiving, Ends
  <2>2. got["client"] # 0
    BY <1>3, <2>1 DEF Delivering
  <2> QED
    BY <1>1, <1>3, <2>1, <2>2 DEF Delivering, L
<1>7. Ends'
  BY <1>2, <1>3, <1>4, <1>5 DEF Ends, Place
<1>8. /\ trust' \in {"map", "cut", "empty", "junk"}
      /\ trust' \in {"map", "cut"} => got["client"] = 4
      /\ trust' = "map" => filled["client"] = StringSize - 1
  <2>1. CASE got["client"] \in 1..3
    <3>1. trust' = "empty" \/ trust' = "junk"
      BY <1>3, <2>1
    <3> QED
      BY <3>1
  <2>2. CASE got["client"] = 4
    <3>1. CASE filled["client"] < blen["client"]
      BY <1>3, <2>2, <3>1
    <3>2. CASE ~(filled["client"] < blen["client"])
      <4>1. filled["client"] = StringSize - 1
        BY <1>6, <2>2, <3>2, Sizes
      <4>2. trust' = "map"
        BY <1>3, <2>2, <3>2
      <4> QED
        BY <2>2, <4>1, <4>2
    <3> QED
      BY <3>1, <3>2
  <2> QED
    BY <1>6, <2>1, <2>2
<1>9. ASSUME got["client"] = 4, NEW c \in Cell
      PROVE  /\ cmap'[c] \in CellType
             /\ cmap'[c] \in Floor => board[c] \in Floor
             /\ filled["client"] = StringSize - 1 =>
                  IF c \in Wall THEN cmap'[c] \in {"WALL_UNFIXED", SideOf(c[2])}
                  ELSE cmap'[c] = board[c]
  BY <1>3, <1>9, BufferReads
<1>10. cmap' \in [Cell -> CellType]
  <2>1. CASE got["client"] = 4
    <3>1. cmap' = [c \in Cell |-> cmap'[c]]
      BY <1>3, <2>1 DEF FromString
    <3> QED
      BY <1>9, <2>1, <3>1
  <2>2. CASE got["client"] # 4
    BY <1>2, <1>3, <2>2 DEF Rest
  <2> QED
    BY <2>1, <2>2
<1>11. Rest'
  BY <1>2, <1>4, <1>8, <1>10 DEF Rest
<1>12. Places'
  BY <1>2, <1>3, <1>4, <1>5, <1>6 DEF Places
<1>13. Turns'
  BY <1>2, <1>3, <1>4, <1>5, <1>6 DEF Turns
<1>14. Receiving("client")'
  BY <1>1, <1>2, <1>3, <1>4, <1>5 DEF Receiving
<1>15. Receiving("server")'
  <2>1. pc'[Peer("server")] # "send" /\ pc[Peer("server")] # "send"
    BY <1>1, <1>3, <1>5
  <2> QED
    BY <1>1, <1>2, <1>4, <1>5, <2>1, ReceivingSame
<1>16. Answering'
  BY <1>2, <1>4, <1>5, AnsweringSame DEF answer
<1>17. Buffer'
  BY <1>2, <1>3, <1>4, <1>5, BufferSame
<1>18. MapsAgree' /\ NoPhantom'
  <2>1. MapsAgree'
    BY <1>4, <1>8, <1>9 DEF MapsAgree
  <2>2. NoPhantom'
    BY <1>4, <1>8, <1>9 DEF NoPhantom
  <2> QED
    BY <2>1, <2>2
<1>19. BoardOK' /\ (before \subseteq Broken)'
  BY <1>2, <1>4 DEF BoardOK, Broken
<1> QED
  BY <1>1, <1>7, <1>11, <1>12, <1>13, <1>14, <1>15, <1>16, <1>17, <1>18, <1>19, Assembled

LEMMA BreakWallKeeps ==
  ASSUME Inv, BreakWall
  PROVE  Inv'
<1>1. "client" \in Side /\ "server" \in Side /\ Side = {"client", "server"}
      /\ Peer("server") = "client" /\ Peer("client") = "server" /\ HeaderSize = 4
  BY DEF Side, Peer, HeaderSize
<1>2. /\ Ends /\ Rest /\ BoardOK /\ Places /\ Turns /\ TypeOK
      /\ \A s \in Side : Receiving(s)
      /\ Answering /\ Buffer /\ before \subseteq Broken /\ MapsAgree /\ NoPhantom
  BY <1>1, Parts, Types DEF Inv
<1>3. PICK w \in Wall \ Broken : board' = [board EXCEPT ![w] = Cleared(board, w)]
  BY DEF BreakWall
<1>4. /\ UNCHANGED <<before, shdr, cmap, trust, open, rbuf, got, mt, blen, filled, pc,
                     stream, sent, asks, str, sbuf>>
      /\ (Whole' <=> Whole)
  BY DEF BreakWall, session, wire, answer, client, Whole
<1>5. /\ board' \in [Cell -> CellType]
      /\ BoardOK'
      /\ Broken \subseteq Broken'
      /\ \A c \in Cell : board[c] \in Floor => board'[c] \in Floor
      /\ \A c \in Cell \ Wall : board'[c] = board[c]
  BY <1>2, <1>3, BreakOne
<1>6. \A k, ch : Plausible(k, ch) => Plausible(k, ch)' /\ (Fresh(k, ch) => Fresh(k, ch)')
  BY <1>2, <1>3, <1>4, BreakPlausible
<1>7. \A s, m, h, u : Sound(s, m, h, u) => Sound(s, m, h, u)'
  BY <1>6 DEF Sound, L
<1>8. ASSUME NEW s \in Side PROVE Receiving(s)'
  <2>1. Receiving(s)
    BY <1>2
  <2>2. M(s)' = M(s)
    BY <1>4 DEF M
  <2>3. Heading(s) => Heading(s)'
    <3> SUFFICES ASSUME Heading(s) PROVE Heading(s)'
      OBVIOUS
    <3>1. ASSUME stream[s] # <<>> \/ got[s] > 0, NEW j \in 1..Len(stream[s])
          PROVE  Sound(s, M(s), got[s] + j, stream[s][j])'
      <4>1. Sound(s, M(s), got[s] + j, stream[s][j])
        BY <3>1 DEF Heading
      <4> QED
        BY <1>4, <1>7, <2>2, <4>1
    <3> QED
      BY <1>4, <2>2, <3>1 DEF Heading, Asked, L
  <2>4. Filling(s) => Filling(s)'
    BY <1>4, <1>6 DEF Filling, Asked, L
  <2>5. Delivering(s) => Delivering(s)'
    BY <1>4 DEF Delivering, Asked, L
  <2> QED
    BY <1>4, <2>1, <2>3, <2>4, <2>5 DEF Receiving
<1>9. Ends'
  BY <1>2, <1>4 DEF Ends
<1>10. Rest'
  BY <1>2, <1>4, <1>5 DEF Rest
<1>11. Places' /\ Turns'
  BY <1>2, <1>4 DEF Places, Turns
<1>12. Answering'
  BY <1>2, <1>4, <1>6 DEF Answering, Asked
<1>13. Buffer'
  BY <1>2, <1>4, <1>6 DEF Buffer
<1>14. MapsAgree' /\ NoPhantom' /\ (before \subseteq Broken)'
  BY <1>2, <1>4, <1>5 DEF MapsAgree, NoPhantom
<1> QED
  BY <1>1, <1>5, <1>8, <1>9, <1>10, <1>11, <1>12, <1>13, <1>14, Assembled

LEMMA DieKeeps ==
  ASSUME Inv, NEW s \in Side, Die(s)
  PROVE  Inv'
<1> DEFINE p == Peer(s)
<1>1. /\ p \in Side /\ p # s /\ Peer(p) = s /\ Side = {"client", "server"}
      /\ p = Peer(s) /\ HeaderSize = 4
      /\ (s = "client" /\ p = "server") \/ (s = "server" /\ p = "client")
  BY Peers DEF Side, HeaderSize
<1> HIDE DEF p
<1>2. PICK n \in 0..sent[p] :
        /\ stream' = [stream EXCEPT ![p] = SubSeq(@, 1, n)]
        /\ sent' = [sent EXCEPT ![p] = n]
  BY <1>1 DEF Die
<1>3. /\ open' = [open EXCEPT ![s] = FALSE]
      /\ pc' = [pc EXCEPT ![s] = "ended"]
      /\ UNCHANGED <<board, got, mt, blen, filled, rbuf, answer, client>>
  BY DEF Die, Goto
<1>4. /\ Ends /\ Rest /\ BoardOK /\ Places /\ Turns /\ Receiving(s) /\ Receiving(p)
      /\ Answering /\ Buffer /\ before \subseteq Broken /\ MapsAgree /\ NoPhantom
      /\ TypeOK
  BY <1>1, Parts, Types
<1>5. /\ stream[p] \in Seq(Unit) /\ sent[p] \in 0..Socket /\ n \in 0..Len(stream[p])
      /\ n \in 0..Socket
  BY <1>1, <1>4, BoundsOK DEF Ends, Receiving
<1>6. /\ SubSeq(stream[p], 1, n) \in Seq(Unit)
      /\ stream[p] = <<>> => SubSeq(stream[p], 1, n) = <<>>
  BY <1>5, Cuts
<1>7. /\ open'[s] = FALSE /\ open'[p] = open[p] /\ pc'[s] = "ended" /\ pc'[p] = pc[p]
      /\ stream'[s] = stream[s] /\ stream'[p] = SubSeq(stream[p], 1, n)
      /\ sent'[s] = sent[s] /\ sent'[p] = n
  BY <1>1, <1>2, <1>3, <1>4 DEF Ends
<1>8. /\ UNCHANGED <<board, before, shdr, cmap, trust, str, sbuf, got, mt, blen, filled, rbuf,
                     asks>>
      /\ ~Whole'
  BY <1>1, <1>3, <1>7 DEF client, answer, Whole
<1>9. Ends'
  <2>1. stream' \in [Side -> Seq(Unit)]
    BY <1>2, <1>4, <1>6 DEF Ends
  <2>2. sent' \in [Side -> 0..Socket]
    BY <1>2, <1>4, <1>5 DEF Ends
  <2> QED
    BY <1>3, <1>4, <1>8, <2>1, <2>2 DEF Ends, Place
<1>10. Rest'
  BY <1>4, <1>8 DEF Rest
<1>11. Places'
  BY <1>1, <1>4, <1>6, <1>7 DEF Places
<1>12. Turns'
  BY <1>8 DEF Turns, Whole
<1>13. Receiving(s)'
  BY <1>1, <1>4, <1>7, <1>8 DEF Receiving
<1>14. Receiving(p)'
  BY <1>1, <1>4, <1>7, <1>8, ReceivingCut
<1>15. Answering'
  BY <1>1, <1>4, <1>7, <1>8, AnsweringSame DEF answer
<1>16. Buffer'
  BY <1>1, <1>4, <1>7, <1>8, BufferSame
<1> QED
  BY <1>1, <1>4, <1>8, <1>9, <1>10, <1>11, <1>12, <1>13, <1>14, <1>15, <1>16, MapSame, Assembled

LEMMA StutterKeeps ==
  ASSUME Inv, UNCHANGED vars
  PROVE  Inv'
<1>1. "client" \in Side /\ "server" \in Side /\ Side = {"client", "server"}
      /\ Peer("server") = "client" /\ Peer("client") = "server"
  BY DEF Side, Peer
<1>2. /\ Ends /\ Rest /\ BoardOK /\ Places /\ Turns
      /\ Receiving("server") /\ Receiving("client")
      /\ Answering /\ Buffer /\ before \subseteq Broken /\ MapsAgree /\ NoPhantom
  BY <1>1, Parts
<1>3. /\ UNCHANGED <<board, before, shdr, cmap, trust, open, rbuf, got, mt, blen, filled, pc,
                     stream, sent, asks, str, sbuf>>
      /\ (Whole' <=> Whole)
  BY DEF vars, session, wire, answer, client, Whole
<1>4. Ends'
  BY <1>2, <1>3 DEF Ends
<1>5. Rest'
  BY <1>2, <1>3 DEF Rest
<1>6. Places' /\ Turns'
  BY <1>2, <1>3 DEF Places, Turns
<1>7. Receiving("server")' /\ Receiving("client")'
  BY <1>1, <1>2, <1>3, ReceivingSame
<1>8. Answering' /\ Buffer'
  BY <1>2, <1>3, AnsweringSame, BufferSame DEF answer
<1> QED
  BY <1>1, <1>2, <1>3, <1>4, <1>5, <1>6, <1>7, <1>8, MapSame, Assembled

LEMMA InvStep == Inv /\ [Next]_vars => Inv'
<1> SUFFICES ASSUME Inv, [Next]_vars PROVE Inv'
  OBVIOUS
<1>1. "client" \in Side /\ "server" \in Side
  BY DEF Side
<1>2. ASSUME NEW s \in Side, Session(s) PROVE Inv'
  BY <1>2, SendSomeKeeps, SendNothingKeeps, RecvHeaderKeeps, RecvBodyKeeps, RecvEndKeeps
     DEF Session
<1>3. CASE ClientThread
  BY <1>1, <1>2, <1>3, DeliverNothingKeeps, DeliverMapKeeps, DeliverMoveKeeps DEF ClientThread
<1>4. CASE ServerThread
  BY <1>1, <1>2, <1>4, ServeKeeps, ConvertKeeps, AnswerMapKeeps DEF ServerThread
<1>5. CASE \E type \in Request : Ask(type)
  BY <1>5, AskKeeps
<1>6. CASE BreakWall
  BY <1>6, BreakWallKeeps
<1>7. CASE \E s \in Side : Die(s)
  BY <1>7, DieKeeps
<1>8. CASE UNCHANGED vars
  BY <1>8, StutterKeeps
<1> QED
  BY <1>3, <1>4, <1>5, <1>6, <1>7, <1>8 DEF Next

LEMMA Invariant == Spec => []Inv
<1>1. Init => Inv
  BY InvInit
<1>2. Inv /\ [Next]_vars => Inv'
  BY InvStep
<1> QED
  BY <1>1, <1>2, PTL DEF Spec

----------------------------------------------------------------------------
(* The theorems *)

(* The variables have their types: for any number of requests, walls and   *)
(* cuts of the connection. *)
THEOREM TypeCorrect == Spec => []TypeOK
<1>1. Inv => TypeOK
  BY DEF Inv
<1> QED
  BY <1>1, Invariant, PTL

(* net_writen, net_readn and rcv_msg never lose the boundary between two   *)
(* messages, however the sockets cut what goes through them.               *)
THEOREM FramingKept == Spec => []InStep
<1>1. Inv => InStep
  <2> SUFFICES ASSUME Inv, NEW s \in Side, stream[s] # <<>>
               PROVE  CASE pc[s] = "header" -> stream[s][1].part = got[s] + 1
                        [] pc[s] = "body" -> /\ stream[s][1].part = HeaderSize + 1
                                             /\ Len(stream[s]) <= blen[s] - filled[s]
                        [] OTHER -> ~open[s]
    BY DEF InStep
  <2>1. /\ Receiving(s) /\ stream[s] \in Seq(Unit) /\ got[s] \in 0..4 /\ HeaderSize = 4
        /\ 1 \in 1..Len(stream[s])
    BY Parts DEF Ends, HeaderSize
  <2>2. CASE pc[s] = "header"
    <3>1. Heading(s) /\ got[s] + 1 <= HeaderSize
      BY <2>1, <2>2 DEF Receiving, Heading
    <3>2. Sound(s, M(s), got[s] + 1, stream[s][1])
      BY <2>1, <3>1 DEF Heading
    <3> QED
      BY <2>2, <3>1, <3>2 DEF Sound
  <2>3. CASE pc[s] = "body"
    BY <2>1, <2>3 DEF Receiving, Filling
  <2>4. CASE pc[s] \notin {"header", "body"}
    BY <2>1, <2>4 DEF Receiving
  <2> QED
    BY <2>2, <2>3, <2>4
<1> QED
  BY <1>1, Invariant, PTL

(* What rcv_msg reads fits into the receive buffer, and the string with    *)
(* its terminator into the array the client has made for it.               *)
THEOREM BodiesFit == Spec => []BodyFits
<1>1. Inv => BodyFits
  <2> SUFFICES ASSUME Inv, NEW s \in Side
               PROVE  /\ filled[s] <= PROTO_SESSION_BUF_SIZE
                      /\ pc[s] = "deliver" => blen[s] < StringSize
    BY DEF BodyFits
  <2>1. Receiving(s) /\ got[s] \in 0..4
    BY Parts DEF Ends
  <2>2. filled[s] <= PROTO_SESSION_BUF_SIZE
    BY <2>1 DEF Receiving
  <2>3. ASSUME pc[s] = "deliver" PROVE blen[s] < StringSize
    <3>1. Delivering(s)
      BY <2>1, <2>3 DEF Receiving
    <3>2. CASE got[s] >= 3
      BY <3>1, <3>2, Sizes DEF Delivering
    <3>3. CASE got[s] < 3
      BY <3>1, <3>3, Sizes DEF Delivering
    <3> QED
      BY <2>1, <3>2, <3>3
  <2> QED
    BY <2>2, <2>3
<1> QED
  BY <1>1, Invariant, PTL

(* parseMapFromString reads back what convertToString has written, up to   *)
(* the walls broken while it was under way, and the side they went to.     *)
THEOREM MapsReadBack == Spec => []MapsAgree
<1>1. Inv => MapsAgree
  BY DEF Inv
<1> QED
  BY <1>1, Invariant, PTL

(* No map the client has from the server, even one cut short by the end of *)
(* the connection, shows floor where the server has none.                  *)
THEOREM NoPhantomFloor == Spec => []NoPhantom
<1>1. Inv => NoPhantom
  BY DEF Inv
<1> QED
  BY <1>1, Invariant, PTL

----------------------------------------------------------------------------
(* The query for the map is atomic *)

(* What Exchange sees of the state. *)
EState == IF ~Whole THEN "lost" ELSE IF ~InRpc THEN "idle"
          ELSE IF shdr = "MAPQUERY" THEN "query" ELSE "other"
EBefore == IF Whole THEN before ELSE {}
EShown == IF Whole THEN Shown ELSE {}

LEMMA Steps ==
  ASSUME \/ /\ EState = "idle" /\ EState' = "query" /\ EBefore' = Broken
            /\ UNCHANGED <<Broken, EShown>>
         \/ /\ EState = "idle" /\ EState' = "other"
            /\ UNCHANGED <<Broken, EBefore, EShown>>
         \/ /\ EState = "query" /\ EState' = "idle"
            /\ EBefore \subseteq EShown' /\ EShown' \subseteq Broken
            /\ UNCHANGED <<Broken, EBefore>>
         \/ /\ EState = "other" /\ EState' = "idle"
            /\ UNCHANGED <<Broken, EBefore, EShown>>
         \/ /\ EState' = "lost" /\ EBefore' = {} /\ EShown' = {} /\ UNCHANGED Broken
         \/ \E w \in Wall : /\ Broken' = Broken \cup {w}
                           /\ UNCHANGED <<EState, EBefore, EShown>>
         \/ UNCHANGED <<Broken, EState, EBefore, EShown>>
  PROVE  [E!Next]_(E!vars)
BY DEF EState, EBefore, EShown, E!Next, E!vars, E!Query, E!AskOther, E!Return, E!Lose, E!Break

(* Nothing but the map itself and the end of the connection is seen of     *)
(* a step that leaves the client in its request, or out of it.             *)
LEMMA Unseen ==
  ASSUME UNCHANGED <<board, before, shdr, cmap, trust>>, Whole' <=> Whole, InRpc' <=> InRpc
  PROVE  UNCHANGED <<Broken, EState, EBefore, EShown>>
BY DEF Broken, EState, EBefore, EShown, Shown

LEMMA StepRefines ==
  ASSUME Inv, Inv', Next
  PROVE  [E!Next]_(E!vars)
<1>1. "client" \in Side /\ "server" \in Side /\ Side = {"client", "server"}
      /\ Peer("server") = "client" /\ Peer("client") = "server" /\ HeaderSize = 4
  BY DEF Side, Peer, HeaderSize
<1>2. /\ Ends /\ Rest /\ BoardOK /\ Places /\ Turns
      /\ Receiving("server") /\ Receiving("client")
      /\ before \subseteq Broken
  BY <1>1, Parts
<1>3. ASSUME NEW s \in Side, SendSome(s) \/ RecvHeader(s) \/ RecvBody(s)
      PROVE  UNCHANGED <<Broken, EState, EBefore, EShown>>
  <2>1. /\ UNCHANGED <<board, before, shdr, cmap, trust, open>>
        /\ pc[s] \in {"send", "header", "body"}
        /\ \/ pc' = pc
           \/ \E l \in {"header", "body", "deliver"} : pc' = [pc EXCEPT ![s] = l]
    BY <1>3 DEF SendSome, RecvHeader, RecvBody, AfterSend, StartReceive, Goto, session, client
  <2>2. InRpc' <=> InRpc
    <3>1. CASE s = "client"
      BY <1>1, <1>2, <2>1, <3>1 DEF InRpc, Ends
    <3>2. CASE s = "server"
      BY <1>1, <1>2, <2>1, <3>2 DEF InRpc, Ends
    <3> QED
      BY <1>1, <3>1, <3>2
  <2> QED
    BY <2>1, <2>2, Unseen DEF Whole
<1>4. ASSUME NEW s \in Side, SendNothing(s)
      PROVE  UNCHANGED <<Broken, EState, EBefore, EShown>>
  <2>1. UNCHANGED <<board, open>> /\ ~Whole
    BY <1>1, <1>4 DEF SendNothing, AfterSend, StartReceive, Whole
  <2> QED
    BY <2>1 DEF Broken, EState, EBefore, EShown, Whole
<1>5. ASSUME NEW s \in Side, RecvEnd(s) \/ Die(s)
      PROVE  EState' = "lost" /\ EBefore' = {} /\ EShown' = {} /\ UNCHANGED Broken
  <2>1. open' = [open EXCEPT ![s] = FALSE] /\ board' = board
    BY <1>5 DEF RecvEnd, Die
  <2>2. ~Whole'
    BY <1>1, <1>2, <2>1 DEF Whole, Ends
  <2> QED
    BY <2>1, <2>2 DEF Broken, EState, EBefore, EShown
<1>6. CASE Serve \/ Convert \/ AnswerMap
  <2>1. /\ UNCHANGED <<board, before, shdr, cmap, trust, open>>
        /\ pc' = pc \/ \E l \in {"convert", "send"} : pc' = [pc EXCEPT !["server"] = l]
    BY <1>6 DEF Serve, Convert, AnswerMap, Writes, Goto, session, client
  <2>2. pc'["client"] = pc["client"]
    BY <1>1, <1>2, <2>1 DEF Ends
  <2> QED
    BY <2>1, <2>2, Unseen, Steps DEF Whole, InRpc
<1>7. CASE DeliverNothing
  <2>1. UNCHANGED <<board, open>> /\ ~open["client"]
    BY <1>1, <1>2, <1>7 DEF DeliverNothing, Receiving, Delivering
  <2>2. UNCHANGED <<Broken, EState, EBefore, EShown>>
    BY <2>1 DEF Broken, EState, EBefore, EShown, Whole
  <2> QED
    BY <2>2, Steps
<1>8. CASE DeliverMove
  <2>1. /\ UNCHANGED <<board, before, shdr, cmap, trust, open>>
        /\ pc["client"] = "deliver" /\ mt["client"] = "MOVE" /\ pc'["client"] = "idle"
    BY <1>1, <1>2, <1>8 DEF DeliverMove, Goto, client, Ends
  <2>2. Whole => shdr = "MOVE"
    BY <1>1, <1>2, <2>1 DEF Receiving, Delivering, Asked, Whole
  <2>3. CASE Whole
    <3>1. EState = "other" /\ EState' = "idle" /\ UNCHANGED <<Broken, EBefore, EShown>>
      BY <2>1, <2>2, <2>3 DEF EState, InRpc, Broken, EBefore, EShown, Shown, Whole
    <3> QED
      BY <3>1, Steps
  <2>4. CASE ~Whole
    <3>1. UNCHANGED <<Broken, EState, EBefore, EShown>>
      BY <2>1, <2>4 DEF EState, Broken, EBefore, EShown, Whole
    <3> QED
      BY <3>1, Steps
  <2> QED
    BY <2>3, <2>4
<1>9. CASE DeliverMap
  <2>1. /\ UNCHANGED <<board, before, shdr, open>>
        /\ pc["client"] = "deliver" /\ mt["client"] = "MAPQUERY"
        /\ pc'["client"] = IF got["client"] = 3 THEN "crashed" ELSE "idle"
    BY <1>1, <1>2, <1>9 DEF DeliverMap, Goto, Ends
  <2>2. CASE Whole
    <3>1. /\ shdr = "MAPQUERY" /\ got["client"] = 4
          /\ filled["client"] = StringSize - 1 /\ filled["client"] = blen["client"]
      BY <1>1, <1>2, <2>1, <2>2 DEF Receiving, Delivering, Asked, Whole, L
    <3>2. trust' = "map" /\ cmap' = FromString(rbuf["client"])
      BY <1>1, <1>2, <1>9, <3>1 DEF DeliverMap, Ends
    <3>3. EShown' = {c \in Wall : cmap'[c] \in Floor} /\ EBefore = before
      BY <2>1, <2>2, <3>2 DEF EShown, Shown, EBefore, Whole
    <3>4. ASSUME NEW c \in before PROVE c \in EShown'
      <4>1. c \in Wall /\ c \in Cell /\ board[c] \in Floor
        BY <1>2 DEF Broken, Wall, BoardOK
      <4> QED
        BY <2>1, <3>1, <3>2, <3>3, <4>1, BufferReads
    <3>5. ASSUME NEW c \in EShown' PROVE c \in Broken
      <4>1. c \in Wall /\ c \in Cell /\ cmap'[c] \in Floor
        BY <3>3 DEF Wall
      <4>2. board[c] \in Floor
        BY <3>2, <4>1, BufferReads
      <4> QED
        BY <4>1, <4>2 DEF Broken, Floor
    <3>6. EState = "query" /\ EState' = "idle" /\ UNCHANGED <<Broken, EBefore>>
      BY <2>1, <2>2, <3>1 DEF EState, InRpc, Broken, EBefore, Whole
    <3> QED
      BY <3>3, <3>4, <3>5, <3>6, Steps
  <2>3. CASE ~Whole
    <3>1. UNCHANGED <<Broken, EState, EBefore, EShown>>
      BY <2>1, <2>3 DEF EState, Broken, EBefore, EShown, Whole
    <3> QED
      BY <3>1, Steps
  <2> QED
    BY <2>2, <2>3
<1>10. ASSUME NEW type \in Request, Ask(type) PROVE [E!Next]_(E!vars)
  <2>1. /\ UNCHANGED <<board, cmap, trust, open>>
        /\ pc["client"] = "idle" /\ pc'["client"] = "send" /\ shdr' = type
        /\ before' = IF type = "MAPQUERY" THEN Broken ELSE before
        /\ UNCHANGED Broken
    BY <1>1, <1>2, <1>10 DEF Ask, Writes, Goto, Ends, Broken
  <2>2. CASE ~Whole
    <3>1. UNCHANGED <<Broken, EState, EBefore, EShown>>
      BY <2>1, <2>2 DEF EState, Broken, EBefore, EShown, Whole
    <3> QED
      BY <3>1, Steps
  <2>3. CASE Whole /\ type = "MAPQUERY"
    <3>1. EState = "idle" /\ EState' = "query" /\ EBefore' = Broken /\ UNCHANGED EShown
      BY <2>1, <2>3 DEF EState, InRpc, EBefore, EShown, Shown, Whole
    <3> QED
      BY <2>1, <3>1, Steps
  <2>4. CASE Whole /\ type # "MAPQUERY"
    <3>1. EState = "idle" /\ EState' = "other" /\ UNCHANGED <<EBefore, EShown>>
      BY <2>1, <2>4 DEF EState, InRpc, EBefore, EShown, Shown, Whole
    <3> QED
      BY <2>1, <3>1, Steps
  <2> QED
    BY <2>2, <2>3, <2>4
<1>11. CASE BreakWall
  <2>1. PICK w \in Wall \ Broken : board' = [board EXCEPT ![w] = Cleared(board, w)]
    BY <1>11 DEF BreakWall
  <2>2. Broken' = Broken \cup {w}
    <3>1. board'[w] \in Floor /\ \A c \in Cell \ {w} : board'[c] = board[c]
      BY <1>2, <2>1 DEF Rest, Wall, Cleared, Floor
    <3> QED
      BY <3>1 DEF Broken, Wall, Floor
  <2>3. UNCHANGED <<EState, EBefore, EShown>>
    BY <1>11 DEF BreakWall, session, wire, client, EState, EBefore, EShown, Shown, Whole, InRpc
  <2> QED
    BY <2>2, <2>3, Steps
<1>12. ASSUME NEW s \in Side, Session(s) PROVE [E!Next]_(E!vars)
  <2>1. \/ UNCHANGED <<Broken, EState, EBefore, EShown>>
        \/ EState' = "lost" /\ EBefore' = {} /\ EShown' = {} /\ UNCHANGED Broken
    BY <1>3, <1>4, <1>5, <1>12 DEF Session
  <2> QED
    BY <2>1, Steps
<1>13. ASSUME NEW s \in Side, Die(s) PROVE [E!Next]_(E!vars)
  BY <1>5, <1>13, Steps
<1> QED
  BY <1>1, <1>6, <1>7, <1>8, <1>9, <1>10, <1>11, <1>12, <1>13
     DEF Next, ClientThread, ServerThread

(* While the connection lasts a query for the map is as good as one that   *)
(* takes no time: the answer shows each wall that was broken when the      *)
(* client asked, and none that is standing when the client gets it.        *)
THEOREM QueryIsAtomic == Spec => Refines
<1>1. Init => E!Init
  <2> SUFFICES ASSUME Init PROVE E!Init
    OBVIOUS
  <2>1. Broken = {} /\ Shown = {} /\ before = {} /\ Whole /\ ~InRpc
    BY DEF Init, Broken, Wall, Shown, Whole, InRpc, Side
  <2> QED
    BY <2>1 DEF E!Init
<1>2. Inv /\ Inv' /\ [Next]_vars => [E!Next]_(E!vars)
  <2> SUFFICES ASSUME Inv, Inv', [Next]_vars PROVE [E!Next]_(E!vars)
    OBVIOUS
  <2>1. CASE UNCHANGED vars
    <3>1. UNCHANGED <<Broken, EState, EBefore, EShown>>
      BY <2>1 DEF vars, session, client, Broken, EState, EBefore, EShown, Shown, Whole, InRpc
    <3> QED
      BY <3>1, Steps
  <2> QED
    BY <2>1, StepRefines
<1> QED
  BY <1>1, <1>2, Invariant, PTL DEF Spec, Refines, E!Spec

----------------------------------------------------------------------------
(* What RpcEnds and LossNoticed need besides fairness: somebody can go on, *)
(* and there is less to do after each step                                 *)

(* The guards of the two threads. *)
CanSend(s) ==
  pc[s] = "send" /\ (Whole => sent[Peer(s)] < Least(Len(stream[Peer(s)]), Socket))
CanReceive(s) ==
  /\ pc[s] = "header" \/ pc[s] = "body"
  /\ open[s] => sent[s] > 0 \/ ~open[Peer(s)]
  /\ open[s] /\ sent[s] > 0 =>
       IF pc[s] = "header" THEN got[s] < HeaderSize ELSE filled[s] < blen[s]
ClientCan ==
  \/ CanSend("client") \/ CanReceive("client")
  \/ pc["client"] = "deliver" /\ (got["client"] = 0 \/ mt["client"] \in Request)
ServerCan ==
  \/ CanSend("server") \/ CanReceive("server") \/ pc["server"] = "deliver"
  \/ pc["server"] = "convert" /\ Len(str) < StringSize

(* Nobody waits for a message that is not on its way: while the connection *)
(* lasts, what is left of a message is all there, and a client that waits  *)
(* has asked and not been answered, or has the answer coming.              *)
Complete(s) ==
  /\ pc[s] = "header" /\ (stream[s] # <<>> \/ got[s] > 0) =>
       Len(stream[s]) = HeaderSize - got[s] + L(s, M(s))
  /\ pc[s] = "body" => Len(stream[s]) = blen[s] - filled[s]
Awaited ==
  /\ pc["client"] \in {"header", "body"}
  /\ pc["server"] = "header" /\ got["server"] = 0 /\ stream["server"] = <<>>
  => stream["client"] # <<>> \/ got["client"] > 0
Flow == Whole => Complete("client") /\ Complete("server") /\ Awaited

(* Pairs of numbers, the first of which counts most. *)
Below(x, y) == x[1] < y[1] \/ (x[1] = y[1] /\ x[2] < y[2])

(* How far an RPC has come, and how much there is to send, to read and to  *)
(* convert.                                                                *)
Stage ==
  IF ~Whole
  THEN IF pc["client"] = "send" THEN 2 ELSE IF pc["client"] = "deliver" THEN 0 ELSE 1
  ELSE IF pc["client"] = "send" THEN 9
  ELSE IF pc["client"] = "deliver" THEN 3
  ELSE IF pc["server"] = "deliver" THEN 7
  ELSE IF pc["server"] = "convert" THEN 6
  ELSE IF pc["server"] = "send" THEN 5
  ELSE IF stream["server"] # <<>> \/ got["server"] > 0 THEN 8 ELSE 4
Load ==
  (2 * Len(stream["server"]) - sent["server"]) + (2 * Len(stream["client"]) - sent["client"])
  + (StringSize - Len(str))
RpcLeft == <<Stage, Load>>

(* What the thread of a client that is gone has still to read, and to do   *)
(* about the last request it has read.                                     *)
Chores ==
  IF pc["server"] = "deliver" THEN StringSize + 2
  ELSE IF pc["server"] = "convert" THEN 1 + (StringSize - Len(str))
  ELSE IF pc["server"] = "send" THEN 1 ELSE 0
LossLeft == <<Len(stream["server"]), Chores>>

RpcStep == InRpc /\ InRpc' => BreakWall \/ Below(RpcLeft', RpcLeft)
LossStep == ~open["client"] /\ pc'["server"] # "ended" =>
              BreakWall \/ Below(LossLeft', LossLeft)

(* What the proofs of the steps begin with. *)
LEMMA Ground ==
  ASSUME Inv
  PROVE  /\ "client" \in Side /\ "server" \in Side /\ Side = {"client", "server"}
         /\ Peer("server") = "client" /\ Peer("client") = "server" /\ HeaderSize = 4
         /\ Ends /\ Rest /\ Places /\ Turns /\ Answering /\ TypeOK
         /\ Receiving("server") /\ Receiving("client")
         /\ Len(str) \in Nat /\ StringSize \in Nat /\ Len(str) < StringSize
         /\ Socket \in Nat \ {0}
<1>1. /\ "client" \in Side /\ "server" \in Side /\ Side = {"client", "server"}
      /\ Peer("server") = "client" /\ Peer("client") = "server" /\ HeaderSize = 4
  BY DEF Side, Peer, HeaderSize
<1>2. /\ Ends /\ Rest /\ Places /\ Turns /\ Answering /\ TypeOK
      /\ Receiving("server") /\ Receiving("client")
  BY <1>1, Parts, Types
<1>3. Len(str) \in Nat /\ StringSize \in Nat /\ Len(str) < StringSize
  BY <1>2, Sizes DEF Answering, Rest
<1> QED
  BY <1>1, <1>2, <1>3, BoundsOK

LEMMA Numbers ==
  ASSUME Inv, NEW s \in Side
  PROVE  /\ stream[s] \in Seq(Unit) /\ Len(stream[s]) \in Nat
         /\ stream[s] # <<>> <=> Len(stream[s]) > 0
         /\ sent[s] \in Nat /\ sent[s] <= Len(stream[s]) /\ sent[s] <= Socket
         /\ got[s] \in 0..4 /\ filled[s] \in Nat /\ blen[s] \in Nat
<1>1. /\ stream[s] \in Seq(Unit) /\ sent[s] \in 0..Socket /\ Socket \in Nat
      /\ got[s] \in 0..4 /\ filled[s] \in Nat /\ blen[s] \in Nat
  BY Parts, BoundsOK DEF Ends
<1>2. Len(stream[s]) \in Nat /\ (stream[s] # <<>> <=> Len(stream[s]) > 0)
  BY <1>1
<1>3. sent[s] <= Len(stream[s])
  BY Parts DEF Receiving
<1> QED
  BY <1>1, <1>2, <1>3

(* Sending n units to p, or reading n of its own, makes the load less.     *)
LEMMA LoadLess ==
  ASSUME Inv, NEW p \in Side, NEW n \in Nat, n >= 1, str' = str,
         sent'[Peer(p)] = sent[Peer(p)],
         Len(stream'[Peer(p)]) = Len(stream[Peer(p)]),
         \/ Len(stream'[p]) = Len(stream[p]) /\ sent'[p] = sent[p] + n
         \/ Len(stream'[p]) = Len(stream[p]) - n /\ sent'[p] = sent[p] - n
  PROVE  Load' < Load /\ Load \in Nat /\ Load' \in Int
<1>1. "client" \in Side /\ "server" \in Side
  BY DEF Side
<1> DEFINE ls == Len(stream["server"])
           lc == Len(stream["client"])
           ts == sent["server"]
           tc == sent["client"]
           r == StringSize - Len(str)
<1>2. /\ ls \in Nat /\ lc \in Nat /\ ts \in Nat /\ tc \in Nat /\ ts <= ls /\ tc <= lc
  BY <1>1, Numbers
<1>3. r \in Nat /\ r' = r
  BY Ground
<1>4. Load = (2 * ls - ts) + (2 * lc - tc) + r /\ Load' = (2 * ls' - ts') + (2 * lc' - tc') + r'
  BY DEF Load
<1>5. \/ ls' = ls /\ lc' = lc /\ ((ts' = ts + n /\ tc' = tc) \/ (ts' = ts /\ tc' = tc + n))
      \/ ls' = ls - n /\ ts' = ts - n /\ lc' = lc /\ tc' = tc
      \/ lc' = lc - n /\ tc' = tc - n /\ ls' = ls /\ ts' = ts
  <2>1. CASE p = "client" /\ Peer(p) = "server"
    BY <2>1
  <2>2. CASE p = "server" /\ Peer(p) = "client"
    <3>1. lc' = lc /\ tc' = tc
      BY <2>2
    <3>2. (ls' = ls /\ ts' = ts + n) \/ (ls' = ls - n /\ ts' = ts - n)
      BY <2>2
    <3> QED
      BY <3>1, <3>2
  <2> QED
    BY <2>1, <2>2, Peers
<1> HIDE DEF ls, lc, ts, tc, r
<1> DEFINE ls1 == ls'
           lc1 == lc'
           ts1 == ts'
           tc1 == tc'
<1>6. /\ 2 * ls1 - ts1 \in Int /\ 2 * lc1 - tc1 \in Int /\ ls1 \in Int /\ lc1 \in Int
      /\ (2 * ls1 - ts1) + (2 * lc1 - tc1) + r < (2 * ls - ts) + (2 * lc - tc) + r
      /\ (2 * ls - ts) + (2 * lc - tc) + r \in Nat
  <2>1. /\ ls1 \in Int /\ lc1 \in Int /\ ts1 \in Int /\ tc1 \in Int
        /\ \/ ls1 = ls /\ lc1 = lc /\ ((ts1 = ts + n /\ tc1 = tc) \/ (ts1 = ts /\ tc1 = tc + n))
           \/ ls1 = ls - n /\ ts1 = ts - n /\ lc1 = lc /\ tc1 = tc
           \/ lc1 = lc - n /\ tc1 = tc - n /\ ls1 = ls /\ ts1 = ts
    BY <1>2, <1>5
  <2> HIDE DEF ls1, lc1, ts1, tc1
  <2> QED
    BY <1>2, <1>3, <2>1
<1> QED
  BY <1>2, <1>3, <1>4, <1>6

LEMMA CompleteSame ==
  ASSUME NEW s, got'[s] = got[s], mt'[s] = mt[s], blen'[s] = blen[s],
         filled'[s] = filled[s], stream'[s] = stream[s], pc'[s] = pc[s]
  PROVE  Complete(s) => Complete(s)'
BY DEF Complete, M, L

(* Sending lowers what is left of an RPC, and what is left after a loss.   *)
LEMMA SendSomeGoesOn ==
  ASSUME Inv, Flow, NEW s \in Side, SendSome(s)
  PROVE  Flow' /\ RpcStep /\ LossStep
<1> DEFINE p == Peer(s)
           unsent == Len(stream[p]) - sent[p]
<1>1. /\ p \in Side /\ p # s /\ p = Peer(s)
      /\ (s = "client" /\ p = "server") \/ (s = "server" /\ p = "client")
  BY Peers DEF Side
<1> HIDE DEF p
<1>2. PICK n \in 1..Least(unsent, Socket - sent[p]) :
        /\ sent' = [sent EXCEPT ![p] = @ + n]
        /\ IF n = unsent THEN AfterSend(s) ELSE UNCHANGED <<session, sbuf>>
  BY DEF SendSome, p
<1>3. /\ pc[s] = "send" /\ open[s] /\ open[p] /\ open' = open /\ stream' = stream /\ str' = str
      /\ Whole /\ Whole' /\ open["client"] /\ UNCHANGED StringSize
  BY <1>1, <1>2 DEF SendSome, p, Whole, AfterSend, StartReceive, session
<1>4. /\ Side = {"client", "server"} /\ Ends /\ Turns
      /\ Receiving("server") /\ Receiving("client")
      /\ Peer("server") = "client" /\ Peer("client") = "server"
      /\ stream[p] # <<>> <=> Len(stream[p]) > 0
      /\ Len(stream[p]) \in Nat /\ sent[p] \in Nat /\ Socket \in Nat
  BY <1>1, Ground, Numbers
<1>5. n \in Nat /\ n >= 1 /\ n <= unsent
  <2>1. unsent \in Int /\ Socket - sent[p] \in Int
    BY <1>1, <1>4
  <2> QED
    BY <2>1, Leasts
<1>6. sent'[p] = sent[p] + n /\ sent'[s] = sent[s]
  BY <1>1, <1>2, <1>4 DEF Ends
<1>7. Load' < Load /\ Load \in Nat
  <2>1. Peer(p) = s
    BY <1>1, <1>4
  <2> QED
    BY <1>1, <1>3, <1>5, <1>6, <2>1, LoadLess
<1>8. stream[s] = <<>> /\ stream[p] # <<>>
  <2>1. stream[s] = <<>>
    BY <1>1, <1>3, <1>4 DEF Receiving
  <2> QED
    BY <1>1, <1>4, <1>5, <2>1
<1>9. CASE n = unsent
  <2>1. /\ pc'[s] = "header" /\ pc'[p] = pc[p] /\ got'[s] = 0 /\ got'[p] = got[p]
        /\ mt'[p] = mt[p] /\ blen'[p] = blen[p] /\ filled'[p] = filled[p]
    BY <1>1, <1>2, <1>4, <1>9 DEF AfterSend, StartReceive, Goto, Ends
  <2>2. Complete(s)'
    BY <1>3, <1>8, <2>1 DEF Complete
  <2>3. Complete(p)'
    BY <1>1, <1>3, <2>1, CompleteSame DEF Flow
  <2>4. Awaited'
    BY <1>1, <1>3, <1>8, <2>1 DEF Awaited
  <2>5. Flow'
    BY <1>1, <2>2, <2>3, <2>4 DEF Flow
  <2>6. InRpc /\ InRpc' => Below(RpcLeft', RpcLeft)
    <3>1. CASE s = "client"
      <4>1. pc["server"] = "header"
        BY <1>3, <1>4, <3>1 DEF Turns, Whole
      <4>2. Stage' = 8 /\ Stage = 9
        BY <1>1, <1>3, <1>8, <2>1, <3>1, <4>1 DEF Stage
      <4> QED
        BY <4>2 DEF Below, RpcLeft
    <3>2. CASE s = "server"
      <4>1. InRpc => pc["client"] \in {"header", "body"}
        BY <1>3, <1>4, <3>2 DEF Turns, Whole, InRpc
      <4>2. InRpc => Stage' = 4 /\ Stage = 5
        BY <1>1, <1>3, <1>8, <2>1, <3>2, <4>1 DEF Stage
      <4> QED
        BY <4>2 DEF Below, RpcLeft
    <3> QED
      BY <1>1, <3>1, <3>2
  <2> QED
    BY <1>3, <2>5, <2>6 DEF RpcStep, LossStep
<1>10. CASE n # unsent
  <2>1. UNCHANGED <<pc, got, mt, blen, filled>>
    BY <1>2, <1>10 DEF session
  <2>2. Flow'
    BY <1>3, <2>1, CompleteSame DEF Flow, Awaited
  <2>3. Stage' = Stage
    BY <1>3, <2>1 DEF Stage
  <2>4. Below(RpcLeft', RpcLeft)
    BY <1>7, <2>3 DEF Below, RpcLeft
  <2> QED
    BY <1>3, <2>2, <2>4 DEF RpcStep, LossStep
<1> QED
  BY <1>9, <1>10

LEMMA SendNothingGoesOn ==
  ASSUME Inv, Flow, NEW s \in Side, SendNothing(s)
  PROVE  Flow' /\ RpcStep /\ LossStep
<1> DEFINE p == Peer(s)
<1>1. /\ p \in Side /\ p # s /\ p = Peer(s)
      /\ (s = "client" /\ p = "server") \/ (s = "server" /\ p = "client")
  BY Peers DEF Side
<1> HIDE DEF p
<1>2. /\ pc[s] = "send" /\ ~(open[s] /\ open[p])
      /\ stream' = [stream EXCEPT ![p] = SubSeq(@, 1, sent[p])]
      /\ AfterSend(s) /\ UNCHANGED <<board, sent, str, client>>
  BY DEF SendNothing, p
<1>3. open' = open /\ ~Whole /\ ~Whole'
  BY <1>1, <1>2 DEF Whole, AfterSend, StartReceive
<1>4. Ends /\ Places /\ Side = {"client", "server"}
  BY Ground
<1>5. pc'[s] = "header" /\ pc'[p] = pc[p] /\ stream'[s] = stream[s]
  BY <1>1, <1>2, <1>4 DEF AfterSend, StartReceive, Goto, Ends
<1>6. s = "client" => Stage' = 1 /\ Stage = 2
  BY <1>2, <1>3, <1>5 DEF Stage
<1>7. s = "server" => ~InRpc
  BY <1>2, <1>3, <1>4 DEF Places, InRpc, Whole
<1>8. s = "server" => LossLeft[1]' = LossLeft[1] /\ LossLeft[2]' = 0 /\ LossLeft[2] = 1
  BY <1>2, <1>5 DEF LossLeft, Chores
<1>9. s = "client" /\ ~open["client"] => pc'["server"] = "ended"
  BY <1>1, <1>2, <1>4, <1>5 DEF Places, Ends
<1> QED
  BY <1>1, <1>3, <1>6, <1>7, <1>8, <1>9
     DEF Flow, RpcStep, LossStep, RpcLeft, Below, LossLeft

LEMMA RecvHeaderGoesOn ==
  ASSUME Inv, Flow, NEW s \in Side, RecvHeader(s)
  PROVE  Flow' /\ RpcStep /\ LossStep
<1> DEFINE p == Peer(s)
           m == M(s)
           l == L(s, m)
<1>1. /\ p \in Side /\ p # s /\ p = Peer(s) /\ HeaderSize = 4
      /\ (s = "client" /\ p = "server") \/ (s = "server" /\ p = "client")
  BY Peers DEF Side, HeaderSize
<1> HIDE DEF p
<1>2. PICK n \in 1..Least(HeaderSize - got[s], sent[s]) :
       /\ Takes(s, n)
       /\ got' = [got EXCEPT ![s] = @ + n]
       /\ mt' = IF got[s] = 0 THEN [mt EXCEPT ![s] = stream[s][1].mt] ELSE mt
       /\ blen' = IF got[s] < 3 /\ got[s] + n >= 3
                  THEN [blen EXCEPT ![s] = stream[s][3 - got[s]].len] ELSE blen
       /\ IF got[s] + n < HeaderSize THEN UNCHANGED pc
          ELSE Goto(s, IF blen'[s] = 0 THEN "deliver" ELSE "body")
  BY DEF RecvHeader
<1>3. /\ pc[s] = "header" /\ open[s] /\ UNCHANGED <<open, filled, str>> /\ (Whole' <=> Whole)
  BY DEF RecvHeader, answer, Whole
<1>4. TypeOK /\ Receiving(s) /\ Ends /\ Turns /\ Len(stream[s]) \in Nat /\ sent[s] \in Nat
  BY <1>1, Parts, Types, Numbers
<1> DEFINE q == SubSeq(stream[s], n + 1, Len(stream[s]))
           b == IF got[s] < 3 /\ got[s] + n >= 3 THEN stream[s][3 - got[s]].len ELSE blen[s]
<1>5. /\ n \in Nat /\ n >= 1 /\ n <= sent[s] /\ sent[s] <= Len(stream[s])
      /\ got[s] \in 0..3 /\ got[s] + n \in 1..4
      /\ filled[s] = 0 /\ stream[s] # <<>> /\ Asked(m)
      /\ m = IF got[s] = 0 THEN stream[s][1].mt ELSE mt[s]
      /\ b \in Nat
      /\ got[s] + n >= 3 => b = l
      /\ got[s] + n < 3 => b = 0
      /\ q \in Seq(Unit) /\ Len(q) = Len(stream[s]) - n
      /\ Len(q) <= HeaderSize - (got[s] + n) + l
  BY <1>3, <1>4, HeaderRead
<1>6. /\ got'[s] = got[s] + n /\ got'[p] = got[p]
      /\ stream'[s] = q /\ stream'[p] = stream[p]
      /\ sent'[s] = sent[s] - n /\ sent'[p] = sent[p]
  BY <1>1, <1>2, <1>4 DEF Takes, Ends
<1>7. mt'[s] = m /\ mt'[p] = mt[p] /\ blen'[s] = b /\ blen'[p] = blen[p]
  BY <1>1, <1>2, <1>4, <1>5 DEF Ends
<1>8. pc'[p] = pc[p] /\ pc'[s] = IF got[s] + n < 4 THEN "header"
                                 ELSE IF b = 0 THEN "deliver" ELSE "body"
  BY <1>1, <1>2, <1>3, <1>4, <1>7 DEF Goto, Ends
<1>9. l \in Nat
  BY Sizes
<1>10. Complete(s) => Complete(s)'
  <2> SUFFICES ASSUME Complete(s) PROVE Complete(s)'
    OBVIOUS
  <2>1. Len(stream[s]) = 4 - got[s] + l
    BY <1>1, <1>3, <1>5 DEF Complete
  <2>2. L(s, M(s))' = l
    BY <1>5, <1>6, <1>7 DEF M, L
  <2>3. pc'[s] = "body" => b = l /\ got[s] + n = 4
    BY <1>5, <1>8
  <2> HIDE DEF m, l, b, q
  <2>4. pc'[s] = "header" => Len(stream'[s]) = HeaderSize - got'[s] + L(s, M(s))'
    <3>1. Len(stream'[s]) = Len(stream[s]) - n /\ got'[s] = got[s] + n
      BY <1>5, <1>6
    <3>2. Len(stream[s]) - n = HeaderSize - (got[s] + n) + l
      BY <1>1, <1>4, <1>5, <1>9, <2>1
    <3> QED
      BY <2>2, <3>1, <3>2
  <2>5. pc'[s] = "body" => Len(stream'[s]) = blen'[s] - filled'[s]
    BY <1>1, <1>3, <1>4, <1>5, <1>6, <1>7, <1>9, <2>1, <2>3
  <2> QED
    BY <1>1, <2>4, <2>5 DEF Complete
<1>11. Complete(p) => Complete(p)'
  BY <1>3, <1>6, <1>7, <1>8, CompleteSame
<1>12. Awaited'
  <2>1. got'[s] > 0
    BY <1>5, <1>6
  <2> QED
    BY <1>1, <2>1 DEF Awaited
<1>13. Flow'
  BY <1>1, <1>3, <1>10, <1>11, <1>12 DEF Flow
<1> HIDE DEF m, l, b, q
<1>14. Load' < Load /\ Load \in Nat
  <2>1. Peer(s) = p /\ str' = str
    BY <1>1, <1>3
  <2> QED
    BY <1>5, <1>6, <2>1, LoadLess
<1>15. InRpc /\ InRpc' => Stage' <= Stage /\ Stage \in Nat /\ Stage' \in Nat
  <2> SUFFICES ASSUME InRpc, InRpc'
               PROVE  Stage' <= Stage /\ Stage \in Nat /\ Stage' \in Nat
    OBVIOUS
  <2>1. CASE ~Whole
    BY <1>1, <1>3, <1>8, <2>1 DEF Stage
  <2>2. CASE Whole /\ s = "client"
    BY <1>1, <1>3, <1>6, <1>8, <2>2 DEF Stage
  <2>3. CASE Whole /\ s = "server"
    <3>1. pc["client"] # "deliver" /\ Stage \in {8, 9}
      BY <1>1, <1>3, <1>4, <1>5, <2>3 DEF Stage, Turns, Whole
    <3>2. pc'["client"] = pc["client"] /\ (pc'["server"] = "header" => got'["server"] > 0)
          /\ pc'["server"] \in {"header", "deliver", "body"}
      BY <1>1, <1>5, <1>6, <1>8, <2>3
    <3>3. pc["client"] # "send" => Stage = 8 /\ Stage' \in {4, 7, 8}
      BY <1>3, <3>1, <3>2, <2>3 DEF Stage
    <3>4. pc["client"] = "send" => Stage' = 9 /\ Stage = 9
      BY <1>3, <3>2, <2>3 DEF Stage
    <3> QED
      BY <3>3, <3>4
  <2> QED
    BY <1>1, <2>1, <2>2, <2>3
<1>16. InRpc /\ InRpc' => Below(RpcLeft', RpcLeft)
  BY <1>14, <1>15 DEF Below, RpcLeft
<1>17. ~open["client"] => s = "server"
  BY <1>1, <1>3
<1>18. s = "server" => Below(LossLeft', LossLeft)
  BY <1>1, <1>4, <1>5, <1>6 DEF Below, LossLeft
<1> QED
  BY <1>13, <1>16, <1>17, <1>18 DEF RpcStep, LossStep

LEMMA RecvBodyGoesOn ==
  ASSUME Inv, Flow, NEW s \in Side, RecvBody(s)
  PROVE  Flow' /\ RpcStep /\ LossStep
<1> DEFINE p == Peer(s)
           f == filled[s]
<1>1. /\ p \in Side /\ p # s /\ p = Peer(s) /\ Peer(p) = s
      /\ (s = "client" /\ p = "server") \/ (s = "server" /\ p = "client")
  BY Peers DEF Side
<1> HIDE DEF p
<1>2. PICK n \in 1..Least(blen[s] - filled[s], sent[s]) :
       /\ Takes(s, n)
       /\ filled' = [filled EXCEPT ![s] = @ + n]
       /\ IF filled[s] + n < blen[s] THEN UNCHANGED pc ELSE Goto(s, "deliver")
  BY DEF RecvBody
<1>3. /\ pc[s] = "body" /\ open[s] /\ UNCHANGED <<open, got, mt, blen, str>> /\ (Whole' <=> Whole)
  BY DEF RecvBody, answer, Whole
<1>4. /\ Ends /\ Turns /\ Places /\ Filling(s)
      /\ stream[s] \in Seq(Unit) /\ Len(stream[s]) \in Nat /\ sent[s] \in Nat
      /\ sent[s] <= Len(stream[s]) /\ f \in Nat /\ blen[s] \in Nat
  BY <1>1, <1>3, Parts, Numbers DEF Receiving
<1>5. s = "client" /\ p = "server"
  BY <1>1, <1>3, <1>4 DEF Places
<1>6. n \in Nat /\ n >= 1 /\ n <= sent[s] /\ n \in 0..Len(stream[s])
  <2>1. blen[s] - filled[s] \in Int /\ sent[s] \in Int
    BY <1>4
  <2> QED
    BY <1>4, <2>1, Leasts
<1>7. Len(stream'[s]) = Len(stream[s]) - n
  <2>1. stream'[s] = SubSeq(stream[s], n + 1, Len(stream[s]))
    BY <1>2, <1>4 DEF Takes, Ends
  <2> QED
    BY <1>4, <1>6, <2>1, Cuts
<1>8. /\ stream'[p] = stream[p] /\ sent'[s] = sent[s] - n /\ sent'[p] = sent[p]
      /\ filled'[s] = filled[s] + n /\ filled'[p] = filled[p] /\ pc'[p] = pc[p]
      /\ pc'[s] = IF filled[s] + n < blen[s] THEN "body" ELSE "deliver"
  BY <1>1, <1>2, <1>3, <1>4 DEF Takes, Goto, Ends
<1>9. Complete(s) => Complete(s)'
  <2> SUFFICES ASSUME Complete(s) PROVE Complete(s)'
    OBVIOUS
  <2>1. Len(stream[s]) = blen[s] - filled[s]
    BY <1>3 DEF Complete
  <2>2. Len(stream'[s]) = blen[s] - (filled[s] + n)
    BY <1>4, <1>6, <1>7, <2>1
  <2>3. pc'[s] # "header"
    BY <1>8
  <2> QED
    BY <1>3, <1>8, <2>2, <2>3 DEF Complete
<1>10. Complete(p) => Complete(p)'
  BY <1>3, <1>8, CompleteSame
<1>11. Awaited'
  BY <1>3, <1>4, <1>5 DEF Awaited, Filling, HeaderSize
<1>12. Flow'
  BY <1>3, <1>5, <1>9, <1>10, <1>11 DEF Flow
<1>13. Load' < Load /\ Load \in Nat
  BY <1>1, <1>3, <1>6, <1>7, <1>8, LoadLess
<1>14. Stage' <= Stage
  BY <1>3, <1>5, <1>8 DEF Stage
<1>15. Stage \in Nat /\ Stage' \in Nat
  BY DEF Stage
<1>16. Below(RpcLeft', RpcLeft)
  BY <1>13, <1>14, <1>15 DEF Below, RpcLeft
<1> QED
  BY <1>3, <1>5, <1>12, <1>16 DEF RpcStep, LossStep

(* As long as the server's thread runs the client waits for it only over a *)
(* whole connection; and the other way round.                              *)
LEMMA WaitsOnWhole ==
  ASSUME Inv, pc["server"] # "ended"
  PROVE  /\ InRpc => Whole
         /\ ~open["client"] => pc["client"] = "ended"
         /\ open["server"]
BY Ground DEF Places, InRpc, Whole

LEMMA RecvEndGoesOn ==
  ASSUME Inv, Flow, NEW s \in Side, RecvEnd(s)
  PROVE  Flow' /\ RpcStep /\ LossStep
<1>1. /\ Ends /\ "client" \in Side /\ "server" \in Side
      /\ (s = "client" /\ Peer(s) = "server") \/ (s = "server" /\ Peer(s) = "client")
  BY Ground, Peers DEF Side
<1>2. /\ pc[s] \in {"header", "body"}
      /\ ~open[s] \/ ~open[Peer(s)]
      /\ open' = [open EXCEPT ![s] = FALSE]
      /\ pc' = [pc EXCEPT ![s] = IF s = "client" THEN "deliver" ELSE "ended"]
  BY DEF RecvEnd, Goto
<1>3. ~Whole /\ ~Whole'
  BY <1>1, <1>2 DEF Whole, Ends
<1>4. CASE s = "client"
  <2>1. pc'["client"] = "deliver" /\ pc'["server"] = pc["server"]
    BY <1>1, <1>2, <1>4 DEF Ends
  <2>2. Stage = 1 /\ Stage' = 0
    BY <1>2, <1>3, <1>4, <2>1 DEF Stage
  <2>3. pc["server"] = "ended" \/ open["client"]
    BY <1>2, <1>4, WaitsOnWhole
  <2> QED
    BY <1>3, <2>1, <2>2, <2>3 DEF Flow, RpcStep, LossStep, Below, RpcLeft
<1>5. CASE s = "server"
  <2>1. ~InRpc
    BY <1>2, <1>3, <1>5, WaitsOnWhole
  <2>2. pc'["server"] = "ended"
    BY <1>1, <1>2, <1>5 DEF Ends
  <2> QED
    BY <1>3, <2>1, <2>2 DEF Flow, RpcStep, LossStep
<1> QED
  BY <1>1, <1>4, <1>5

(* A message that is written where there was none is complete.             *)
LEMMA WrittenComplete ==
  ASSUME Inv, NEW s \in Side, stream[s] = <<>>, got[s] = 0,
         NEW type \in Request, NEW body \in Seq(Letters), Len(body) = L(s, type),
         stream'[s] = stream[s] \o Message(type, body), got'[s] = got[s],
         pc'[s] # "body"
  PROVE  Complete(s)' /\ stream'[s] # <<>>
<1> DEFINE m == Message(type, body)
<1>1. /\ m \in Seq(Unit) /\ Len(m) = HeaderSize + Len(body) /\ HeaderSize = 4
      /\ m[1].mt = type /\ Len(body) \in Nat
  <2>1. /\ m \in Seq(Unit) /\ Len(m) = HeaderSize + Len(body)
        /\ \A k \in 1..Len(m) :
             IF k <= HeaderSize
             THEN m[k].part = k /\ m[k].mt = type /\ m[k].len = Len(body)
             ELSE m[k].part = HeaderSize + 1 /\ m[k].char = body[k - HeaderSize]
    BY Messages
  <2>2. HeaderSize = 4 /\ Len(body) \in Nat
    BY DEF HeaderSize
  <2>3. 1 \in 1..Len(m) /\ 1 <= HeaderSize
    BY <2>1, <2>2
  <2> HIDE DEF m
  <2> QED
    BY <2>1, <2>2, <2>3
<1>2. stream'[s] = m
  BY <1>1, ConcatEmptySeq
<1> HIDE DEF m
<1>3. M(s)' = type
  BY <1>1, <1>2 DEF M
<1>4. L(s, M(s))' = L(s, type)
  BY <1>3 DEF L
<1>5. Len(stream'[s]) = HeaderSize - got'[s] + L(s, M(s))'
  <2>1. Len(m) = HeaderSize - 0 + Len(body)
    BY <1>1
  <2> QED
    BY <1>2, <1>4, <2>1
<1>6. Complete(s)'
  BY <1>5 DEF Complete
<1>7. stream'[s] # <<>>
  BY <1>1, <1>2
<1> QED
  BY <1>6, <1>7

(* The answer of the server, written.                                      *)
LEMMA AnswerGoesOn ==
  ASSUME Inv, Flow, pc["server"] = "deliver" \/ pc["server"] = "convert",
         NEW type \in Request, NEW body \in Seq(Letters), Len(body) = L("client", type),
         Writes("server", Message(type, body)),
         UNCHANGED <<open, got, mt, blen, filled, client>>
  PROVE  /\ Flow'
         /\ InRpc => Stage' = 5 /\ Stage \in {6, 7}
         /\ pc'["server"] = "send" /\ stream'["server"] = stream["server"]
<1>1. /\ "client" \in Side /\ "server" \in Side /\ Peer("server") = "client"
      /\ Ends /\ Turns /\ Receiving("server")
  BY Ground
<1>2. /\ stream'["client"] = stream["client"] \o Message(type, body)
      /\ stream'["server"] = stream["server"]
      /\ pc'["server"] = "send" /\ pc'["client"] = pc["client"]
  <2> DEFINE q == Message(type, body)
  <2>1. /\ stream' = [stream EXCEPT !["client"] = @ \o q]
        /\ pc' = [pc EXCEPT !["server"] = "send"]
    BY <1>1 DEF Writes, Goto
  <2> HIDE DEF q
  <2>2. stream'["client"] = stream["client"] \o q
    BY <1>1, <2>1 DEF Ends
  <2>3. /\ stream'["server"] = stream["server"]
        /\ pc'["server"] = "send" /\ pc'["client"] = pc["client"]
    BY <1>1, <2>1 DEF Ends
  <2> QED
    BY <2>2, <2>3 DEF q
<1>3. Whole' <=> Whole
  BY DEF Whole
<1>4. ASSUME Whole, pc["client"] \in {"send", "header", "body", "deliver", "idle"}
      PROVE  pc["client"] = "header" /\ got["client"] = 0 /\ stream["client"] = <<>>
  BY <1>1, <1>4 DEF Turns, Whole
<1>5. Flow'
  <2> SUFFICES ASSUME Whole' PROVE Complete("client")' /\ Complete("server")' /\ Awaited'
    BY DEF Flow
  <2>1. Whole /\ pc["client"] \in {"send", "header", "body", "deliver", "idle"}
    BY <1>3, Ground DEF Places, Whole
  <2>2. Complete("client")'
    BY <1>1, <1>2, <1>4, <2>1, WrittenComplete
  <2>3. Complete("server")' /\ Awaited'
    BY <1>2 DEF Complete, Awaited
  <2> QED
    BY <2>2, <2>3
<1>6. ASSUME InRpc PROVE Stage' = 5 /\ Stage \in {6, 7}
  <2>1. Whole /\ pc["client"] = "header"
    BY <1>4, <1>6, WaitsOnWhole DEF InRpc
  <2> QED
    BY <1>2, <1>3, <2>1 DEF Stage
<1> QED
  BY <1>2, <1>5, <1>6

LEMMA ServeGoesOn ==
  ASSUME Inv, Flow, Serve
  PROVE  Flow' /\ RpcStep /\ LossStep
<1>1. /\ Ends /\ Receiving("server") /\ Answering /\ "client" \in Side /\ "server" \in Side
      /\ Len(str) \in Nat /\ StringSize \in Nat /\ Len(str) < StringSize
  BY Ground
<1>2. /\ pc["server"] = "deliver" /\ open["server"]
      /\ UNCHANGED <<board, open, got, mt, blen, filled, rbuf, answer, client>>
      /\ str' = str /\ (Whole' <=> Whole)
  BY WaitsOnWhole DEF Serve, answer, Whole
<1>3. CASE mt["server"] = "MAPQUERY"
  <2>1. pc' = [pc EXCEPT !["server"] = "convert"] /\ UNCHANGED <<stream, sent>>
    BY <1>2, <1>3 DEF Serve, Goto, wire
  <2>2. pc'["client"] = pc["client"] /\ pc'["server"] = "convert"
    BY <1>1, <2>1 DEF Ends
  <2>3. Flow'
    BY <1>2, <2>1, <2>2, CompleteSame DEF Flow, Complete, Awaited
  <2>4. RpcStep
    <3>1. InRpc => Whole /\ pc["client"] \notin {"deliver", "send"}
      BY <1>2, WaitsOnWhole, Ground DEF Turns, Whole
    <3>2. InRpc => Stage' = 6 /\ Stage = 7
      BY <1>2, <2>2, <3>1 DEF Stage
    <3> QED
      BY <3>2 DEF RpcStep, Below, RpcLeft
  <2>5. Chores' < Chores
    <3>1. Chores' = 1 + (StringSize - Len(str)) /\ Chores = StringSize + 2
      BY <1>2, <2>2 DEF Chores
    <3> QED
      BY <1>1, <3>1
  <2> QED
    BY <2>1, <2>3, <2>4, <2>5 DEF LossStep, Below, LossLeft
<1>4. CASE mt["server"] # "MAPQUERY"
  <2>1. mt["server"] \in Request /\ sbuf \in Seq(Letters) /\ Len(sbuf) = L("client", mt["server"])
    <3>1. Asked(mt["server"]) /\ sbuf = <<>>
      BY <1>1, <1>2 DEF Receiving, Delivering, Answering, HeaderSize
    <3> QED
      BY <1>4, <3>1 DEF Asked, L
  <2>2. Writes("server", Message(mt["server"], sbuf))
    BY <1>2, <1>4 DEF Serve
  <2>3. /\ Flow' /\ (InRpc => Stage' = 5 /\ Stage \in {6, 7})
        /\ pc'["server"] = "send" /\ stream'["server"] = stream["server"]
    BY <1>2, <2>1, <2>2, AnswerGoesOn
  <2>4. Chores' = 1 /\ Chores = StringSize + 2
    BY <1>2, <2>3 DEF Chores
  <2>5. Chores' < Chores
    BY <1>1, <2>4
  <2> QED
    BY <2>3, <2>5 DEF RpcStep, LossStep, Below, RpcLeft, LossLeft
<1> QED
  BY <1>3, <1>4

LEMMA ConvertGoesOn ==
  ASSUME Inv, Flow, Convert
  PROVE  Flow' /\ RpcStep /\ LossStep
<1>1. /\ pc["server"] = "convert" /\ Len(str) < StringSize - 1
      /\ str' = Append(str, CharAt(board, Len(str)))
      /\ UNCHANGED <<open, pc, got, mt, blen, filled, stream, sent>>
  BY DEF Convert, session, wire
<1>2. Len(str') = Len(str) + 1
  <2>1. str \in Seq(Letters)
    BY Ground DEF Rest
  <2> QED
    BY <1>1, <2>1
<1>3. Flow'
  BY <1>1, CompleteSame DEF Flow, Awaited, Whole
<1>4. Len(str) \in Nat /\ StringSize \in Nat
  BY Ground
<1>5. Stage' = Stage
  BY <1>1 DEF Stage, Whole
<1>6. Load' < Load
  <2> DEFINE a == 2 * Len(stream["server"]) - sent["server"]
             b == 2 * Len(stream["client"]) - sent["client"]
  <2>1. a \in Int /\ b \in Int
    <3>1. "client" \in Side /\ "server" \in Side
      BY DEF Side
    <3>2. /\ Len(stream["server"]) \in Nat /\ sent["server"] \in Nat
          /\ Len(stream["client"]) \in Nat /\ sent["client"] \in Nat
      BY <3>1, Numbers
    <3> QED
      BY <3>2
  <2>2. Load = a + b + (StringSize - Len(str)) /\ Load' = a + b + (StringSize - (Len(str) + 1))
    BY <1>1, <1>2 DEF Load
  <2> HIDE DEF a, b
  <2> QED
    BY <1>4, <2>1, <2>2
<1>7. Chores' < Chores
  <2>1. Chores = 1 + (StringSize - Len(str)) /\ Chores' = 1 + (StringSize - (Len(str) + 1))
    BY <1>1, <1>2 DEF Chores
  <2> QED
    BY <1>4, <2>1
<1> QED
  BY <1>1, <1>3, <1>5, <1>6, <1>7 DEF RpcStep, LossStep, Below, RpcLeft, LossLeft

LEMMA AnswerMapGoesOn ==
  ASSUME Inv, Flow, AnswerMap
  PROVE  Flow' /\ RpcStep /\ LossStep
<1>1. /\ pc["server"] = "convert" /\ Len(str) = StringSize - 1
      /\ sbuf' = Marshalled(str)
      /\ Writes("server", Message("MAPQUERY", sbuf'))
      /\ UNCHANGED <<open, got, mt, blen, filled, client>>
  BY DEF AnswerMap
<1>2. /\ str \in Seq(Letters) /\ sbuf = <<>> /\ StringSize \in Nat /\ Len(str) \in Nat
      /\ PROTO_SESSION_BUF_SIZE \in Nat /\ StringSize <= PROTO_SESSION_BUF_SIZE
  BY <1>1, Ground, Sizes DEF Rest, Answering
<1>3. sbuf' = str
  <2>1. Least(Len(str), PROTO_SESSION_BUF_SIZE - 1 - Len(sbuf)) = Len(str)
    BY <1>1, <1>2 DEF Least
  <2>2. SubSeq(str, 1, Len(str)) = str /\ <<>> \o str = str
    BY <1>2, ConcatEmptySeq
  <2> QED
    BY <1>1, <1>2, <2>1, <2>2 DEF Marshalled
<1>4. Len(str) = L("client", "MAPQUERY") /\ "MAPQUERY" \in Request
  BY <1>1 DEF L, Request
<1>5. /\ Flow' /\ (InRpc => Stage' = 5 /\ Stage \in {6, 7})
      /\ pc'["server"] = "send" /\ stream'["server"] = stream["server"]
  BY <1>1, <1>2, <1>3, <1>4, AnswerGoesOn
<1>6. Chores' = 1 /\ Chores = 1 + (StringSize - (StringSize - 1))
  BY <1>1, <1>5 DEF Chores
<1>7. Chores' < Chores
  BY <1>2, <1>6
<1> QED
  BY <1>5, <1>7 DEF RpcStep, LossStep, Below, RpcLeft, LossLeft

LEMMA AskGoesOn ==
  ASSUME Inv, Flow, NEW type \in Request, Ask(type)
  PROVE  Flow' /\ RpcStep /\ LossStep
<1>1. /\ "client" \in Side /\ "server" \in Side /\ Peer("client") = "server" /\ Ends /\ Turns
  BY Ground
<1>2. /\ pc["client"] = "idle" /\ Writes("client", Message(type, <<>>))
      /\ UNCHANGED <<open, got, mt, blen, filled>> /\ (Whole' <=> Whole)
  BY DEF Ask, Whole
<1>3. /\ stream'["server"] = stream["server"] \o Message(type, <<>>)
      /\ pc'["client"] = "send" /\ pc'["server"] = pc["server"]
  <2> DEFINE q == Message(type, <<>>)
  <2>1. /\ stream' = [stream EXCEPT !["server"] = @ \o q]
        /\ pc' = [pc EXCEPT !["client"] = "send"]
    BY <1>1, <1>2 DEF Writes, Goto
  <2> HIDE DEF q
  <2>2. stream'["server"] = stream["server"] \o q
    BY <1>1, <2>1 DEF Ends
  <2>3. pc'["client"] = "send" /\ pc'["server"] = pc["server"]
    BY <1>1, <2>1 DEF Ends
  <2> QED
    BY <2>2, <2>3 DEF q
<1>4. Flow'
  <2> SUFFICES ASSUME Whole' PROVE Complete("client")' /\ Complete("server")' /\ Awaited'
    BY DEF Flow
  <2>1. pc["server"] = "header" /\ got["server"] = 0 /\ stream["server"] = <<>>
    BY <1>1, <1>2 DEF Turns, Whole
  <2>2. <<>> \in Seq(Letters) /\ Len(<<>>) = L("server", type)
    BY DEF L
  <2>3. Complete("server")'
    BY <1>1, <1>2, <1>3, <2>1, <2>2, WrittenComplete
  <2>4. Complete("client")' /\ Awaited'
    BY <1>3 DEF Complete, Awaited
  <2> QED
    BY <2>3, <2>4
<1>5. ~InRpc
  BY <1>2 DEF InRpc
<1>6. ~open["client"] => pc'["server"] = "ended"
  BY <1>2, <1>3, WaitsOnWhole
<1> QED
  BY <1>4, <1>5, <1>6 DEF RpcStep, LossStep

LEMMA DeliverGoesOn ==
  ASSUME Inv, Flow, DeliverNothing \/ DeliverMap \/ DeliverMove
  PROVE  Flow' /\ RpcStep /\ LossStep
<1>1. "client" \in Side /\ "server" \in Side /\ Ends
  BY Ground
<1>2. /\ pc["client"] = "deliver"
      /\ pc'["client"] \in {"lost", "crashed", "idle"} /\ pc'["server"] = pc["server"]
      /\ UNCHANGED <<open, got, mt, blen, filled, stream, sent>> /\ (Whole' <=> Whole)
  <2>1. CASE DeliverNothing
    BY <1>1, <2>1 DEF DeliverNothing, Goto, wire, Whole, Ends
  <2>2. CASE DeliverMap
    BY <1>1, <2>2 DEF DeliverMap, Goto, wire, Whole, Ends
  <2>3. CASE DeliverMove
    BY <1>1, <2>3 DEF DeliverMove, Goto, wire, Whole, Ends
  <2> QED
    BY <2>1, <2>2, <2>3
<1>3. Flow'
  BY <1>2, CompleteSame DEF Flow, Complete, Awaited
<1>4. ~InRpc'
  BY <1>2 DEF InRpc
<1>5. ~open["client"] => pc'["server"] = "ended"
  BY <1>2, WaitsOnWhole
<1> QED
  BY <1>3, <1>4, <1>5 DEF RpcStep, LossStep

LEMMA DieGoesOn ==
  ASSUME Inv, Flow, NEW s \in Side, Die(s)
  PROVE  Flow' /\ RpcStep /\ LossStep
<1>1. "client" \in Side /\ "server" \in Side /\ Ends /\ (s = "client" \/ s = "server")
  BY Ground DEF Side
<1>2. /\ pc[s] # "ended" /\ pc' = [pc EXCEPT ![s] = "ended"]
      /\ open' = [open EXCEPT ![s] = FALSE]
  BY DEF Die, Goto
<1>3. ~Whole' /\ pc'[s] = "ended"
  BY <1>1, <1>2 DEF Whole, Ends
<1>4. CASE s = "client"
  <2>1. ~InRpc'
    BY <1>3, <1>4 DEF InRpc
  <2>2. ~open["client"] => pc'["server"] = "ended"
    BY <1>1, <1>2, <1>4, WaitsOnWhole DEF Ends
  <2> QED
    BY <1>3, <2>1, <2>2 DEF Flow, RpcStep, LossStep
<1>5. CASE s = "server"
  <2>1. InRpc => Whole
    BY <1>2, <1>5, WaitsOnWhole
  <2>2. InRpc => Stage \in 3..9 /\ Stage' \in 0..2
    BY <1>3, <2>1 DEF Stage
  <2> QED
    BY <1>3, <1>5, <2>2 DEF Flow, RpcStep, LossStep, Below, RpcLeft
<1> QED
  BY <1>1, <1>4, <1>5

LEMMA BreakWallGoesOn ==
  ASSUME Flow, BreakWall
  PROVE  Flow' /\ RpcStep /\ LossStep
<1>1. UNCHANGED <<open, pc, got, mt, blen, filled, stream, sent>>
  BY DEF BreakWall, session, wire
<1>2. Flow'
  BY <1>1, CompleteSame DEF Flow, Awaited, Whole
<1> QED
  BY <1>2 DEF RpcStep, LossStep

LEMMA GoesOn ==
  ASSUME Inv, Flow, Next
  PROVE  Flow' /\ RpcStep /\ LossStep
<1>1. "client" \in Side /\ "server" \in Side
  BY DEF Side
<1>2. ASSUME NEW s \in Side, Session(s) PROVE Flow' /\ RpcStep /\ LossStep
  BY <1>2, SendSomeGoesOn, SendNothingGoesOn, RecvHeaderGoesOn, RecvBodyGoesOn, RecvEndGoesOn
     DEF Session
<1>3. CASE ClientThread
  BY <1>1, <1>2, <1>3, DeliverGoesOn DEF ClientThread
<1>4. CASE ServerThread
  BY <1>1, <1>2, <1>4, ServeGoesOn, ConvertGoesOn, AnswerMapGoesOn DEF ServerThread
<1>5. CASE \E type \in Request : Ask(type)
  BY <1>5, AskGoesOn
<1>6. CASE BreakWall
  BY <1>6, BreakWallGoesOn
<1>7. CASE \E s \in Side : Die(s)
  BY <1>7, DieGoesOn
<1> QED
  BY <1>3, <1>4, <1>5, <1>6, <1>7 DEF Next

LEMMA FlowKept == Spec => []Flow
<1>1. Init => Flow
  BY DEF Init, Flow, Complete, Awaited, Side
<1>2. Inv /\ Flow /\ [Next]_vars => Flow'
  <2> SUFFICES ASSUME Inv, Flow, UNCHANGED vars PROVE Flow'
    BY GoesOn
  <2>1. UNCHANGED <<open, pc, got, mt, blen, filled, stream>>
    BY DEF vars, session, wire
  <2> QED
    BY <2>1, CompleteSame DEF Flow, Awaited, Whole
<1> QED
  BY <1>1, <1>2, Invariant, PTL DEF Spec

(* An RPC never waits for nothing: until it is over the client's thread or *)
(* the server's has something it can do, however little the sockets take   *)
(* and wherever the connection has ended. *)
THEOREM RpcNeverStuck == Spec => [](InRpc => ClientCan \/ ServerCan)
<1>1. Inv /\ Flow => (InRpc => ClientCan \/ ServerCan)
  <2> SUFFICES ASSUME Inv, Flow, InRpc, ~ClientCan PROVE ServerCan
    OBVIOUS
  <2>1. /\ "client" \in Side /\ "server" \in Side /\ Places /\ Turns /\ Answering
        /\ Receiving("server") /\ Receiving("client")
        /\ Peer("server") = "client" /\ Peer("client") = "server" /\ HeaderSize = 4
        /\ Socket \in Nat \ {0}
    BY Ground
  <2>2. \A s \in Side : /\ Len(stream[s]) \in Nat /\ sent[s] \in Nat
                        /\ stream[s] # <<>> <=> Len(stream[s]) > 0
                        /\ sent[s] <= Len(stream[s]) /\ sent[s] <= Socket
                        /\ got[s] \in 0..4 /\ filled[s] \in Nat /\ blen[s] \in Nat
    BY Numbers
  <2>3. pc["client"] # "deliver"
    BY <2>1, <2>2 DEF ClientCan, Receiving, Delivering, Asked
  <2>4. ASSUME pc["client"] = "header" \/ pc["client"] = "body"
        PROVE  IF pc["client"] = "header" THEN got["client"] < HeaderSize
               ELSE filled["client"] < blen["client"]
    BY <2>1, <2>4 DEF Receiving, Heading, Filling
  <2>5. ASSUME pc["server"] = "header", Whole, sent["server"] > 0 PROVE ServerCan
    BY <2>1, <2>5 DEF ServerCan, CanReceive, Receiving, Heading, Whole
  <2>6. CASE pc["client"] = "send"
    <3>1. Whole /\ ~(sent["server"] < Least(Len(stream["server"]), Socket))
      BY <2>1, <2>6 DEF ClientCan, CanSend
    <3>2. pc["server"] = "header" /\ sent["server"] < Len(stream["server"])
      BY <2>1, <2>6, <3>1 DEF Turns, Receiving, Whole
    <3>3. sent["server"] > 0
      BY <2>1, <2>2, <3>1, <3>2 DEF Least
    <3> QED
      BY <2>5, <3>1, <3>2, <3>3
  <2>7. CASE pc["client"] = "header" \/ pc["client"] = "body"
    <3>1. open["client"] /\ ~(sent["client"] > 0) /\ open["server"]
      BY <2>1, <2>4, <2>7 DEF ClientCan, CanReceive
    <3>2. Whole /\ sent["client"] = 0
      BY <2>1, <2>2, <3>1 DEF Whole
    <3>3. CASE pc["server"] = "send"
      <4>1. 0 < Len(stream["client"]) /\ 0 < Socket
        BY <2>1, <3>2, <3>3 DEF Receiving
      <4> QED
        BY <2>1, <3>2, <3>3, <4>1 DEF ServerCan, CanSend, Least
    <3>4. CASE pc["server"] = "header"
      <4>1. stream["client"] = <<>>
        BY <2>1, <2>2, <3>2, <3>4 DEF Receiving
      <4>2. ~(pc["client"] = "body")
        BY <2>1, <2>2, <3>2, <4>1 DEF Receiving, Filling, Flow, Complete
      <4>3. got["client"] = 0
        <5>1. ASSUME got["client"] > 0 PROVE FALSE
          <6>1. Len(stream["client"]) = HeaderSize - got["client"] + L("client", M("client"))
            BY <2>7, <3>2, <4>2, <5>1 DEF Flow, Complete
          <6>2. got["client"] < 4 /\ L("client", M("client")) \in Nat
            BY <2>1, <2>4, <2>7, <4>2, Sizes
          <6> QED
            BY <2>1, <2>2, <4>1, <6>1, <6>2
        <5> QED
          BY <2>1, <2>2, <5>1
      <4>4. stream["server"] # <<>> \/ got["server"] # 0
        BY <2>7, <3>2, <3>4, <4>1, <4>3 DEF Flow, Awaited
      <4>5. got["server"] < 4 /\ L("server", M("server")) = 0
        BY <2>1, <3>4 DEF Receiving, Heading, L
      <4>6. Len(stream["server"]) > 0
        <5>1. CASE stream["server"] # <<>>
          BY <2>1, <2>2, <5>1
        <5>2. CASE stream["server"] = <<>>
          <6>1. got["server"] > 0
            BY <2>1, <2>2, <4>4, <5>2
          <6>2. Len(stream["server"]) = HeaderSize - got["server"] + L("server", M("server"))
            BY <3>2, <3>4, <6>1 DEF Flow, Complete
          <6> QED
            BY <2>1, <2>2, <4>5, <6>1, <6>2
        <5> QED
          BY <5>1, <5>2
      <4>7. sent["server"] > 0
        BY <2>1, <2>7, <4>6 DEF Receiving
      <4> QED
        BY <2>5, <3>2, <3>4, <4>7
    <3>5. CASE pc["server"] = "deliver"
      BY <3>5 DEF ServerCan
    <3>6. CASE pc["server"] = "convert"
      BY <2>1, <3>6 DEF ServerCan, Answering
    <3> QED
      BY <2>1, <3>1, <3>3, <3>4, <3>5, <3>6 DEF Places
  <2> QED
    BY <2>3, <2>6, <2>7 DEF InRpc
<1> QED
  BY <1>1, Invariant, FlowKept, PTL

(* Each step while an RPC is under way brings it nearer to its end, but    *)
(* for the walls that others break, which change nothing of it.            *)
THEOREM RpcAdvances == Spec => /\ [](RpcLeft \in Nat \X Nat)
                               /\ [][RpcStep]_vars
<1>1. Inv => RpcLeft \in Nat \X Nat
  <2> SUFFICES ASSUME Inv PROVE Stage \in Nat /\ Load \in Nat
    BY DEF RpcLeft
  <2>1. Stage \in Nat
    BY DEF Stage
  <2>2. "client" \in Side /\ "server" \in Side
    BY DEF Side
  <2>3. /\ Len(stream["server"]) \in Nat /\ sent["server"] \in Nat
        /\ sent["server"] <= Len(stream["server"])
        /\ Len(stream["client"]) \in Nat /\ sent["client"] \in Nat
        /\ sent["client"] <= Len(stream["client"])
    BY <2>2, Numbers
  <2>4. StringSize - Len(str) \in Nat
    BY Ground
  <2>5. /\ 2 * Len(stream["server"]) - sent["server"] \in Nat
        /\ 2 * Len(stream["client"]) - sent["client"] \in Nat
    BY <2>3
  <2>6. Load \in Nat
    BY <2>4, <2>5 DEF Load
  <2> QED
    BY <2>1, <2>6
<1>2. Inv /\ Flow /\ [Next]_vars => [RpcStep]_vars
  BY GoesOn
<1> QED
  BY <1>1, <1>2, Invariant, FlowKept, PTL DEF Spec

(* The thread of a client that is gone is never stuck before it has ended. *)
THEOREM LossNeverStuck == Spec => [](~open["client"] => pc["server"] = "ended" \/ ServerCan)
<1>1. Inv => (~open["client"] => pc["server"] = "ended" \/ ServerCan)
  <2> SUFFICES ASSUME Inv, ~open["client"], pc["server"] # "ended" PROVE ServerCan
    OBVIOUS
  <2>1. /\ Places /\ Receiving("server") /\ Answering /\ Peer("server") = "client"
    BY Ground
  <2>2. CASE pc["server"] = "header"
    BY <2>1, <2>2 DEF ServerCan, CanReceive, Receiving, Heading
  <2>3. CASE pc["server"] = "send"
    BY <2>3 DEF ServerCan, CanSend, Whole
  <2>4. CASE pc["server"] = "deliver"
    BY <2>4 DEF ServerCan
  <2>5. CASE pc["server"] = "convert"
    BY <2>1, <2>5 DEF ServerCan, Answering
  <2> QED
    BY <2>1, <2>2, <2>3, <2>4, <2>5 DEF Places
<1> QED
  BY <1>1, Invariant, PTL

(* And whatever it does brings its end nearer: at most it answers the      *)
(* requests it has received, into the void.                                *)
THEOREM LossAdvances == Spec => /\ [](LossLeft \in Nat \X Nat)
                                /\ [][LossStep]_vars
<1>1. Inv => LossLeft \in Nat \X Nat
  <2> SUFFICES ASSUME Inv PROVE Len(stream["server"]) \in Nat /\ Chores \in Nat
    BY DEF LossLeft
  <2>1. "server" \in Side
    BY DEF Side
  <2>2. Chores \in Nat
    BY Ground DEF Chores
  <2> QED
    BY <2>1, <2>2, Numbers
<1>2. Inv /\ Flow /\ [Next]_vars => [LossStep]_vars
  BY GoesOn
<1> QED
  BY <1>1, <1>2, Invariant, FlowKept, PTL DEF Spec
=============================================================================
