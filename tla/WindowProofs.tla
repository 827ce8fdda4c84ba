---------------------------- MODULE WindowProofs ----------------------------
(***************************************************************************)
(* Theorems about Window, for every size of the window and every map that  *)
(* is at least twice as wide, any positions and any players.               *)
(***************************************************************************)
EXTENDS Window, SequenceTheorems, TLAPS

(* Half a window, in cells, lies between one cell and half the window that *)
(* is painted, which fits on the map at either zoom factor.                *)
LEMMA HalfFits ==
  ASSUME NEW z \in 1..2
  PROVE  /\ Half(z) \in Nat /\ 1 <= Half(z)
         /\ 2 * Half(z) = WINDOW_SIZE * z
         /\ WINDOW_SIZE * z \in Nat /\ WINDOW_SIZE * z <= dimension
         /\ (WINDOW_SIZE - 1) * z = WINDOW_SIZE * z - z
<1> DEFINE h == WINDOW_SIZE \div 2
<1>1. h \in Nat /\ 1 <= h /\ 2 * h = WINDOW_SIZE
  BY SizeOK
<1> HIDE DEF h
<1>2. CASE z = 1
  <2>1. Half(z) = h /\ WINDOW_SIZE * z = WINDOW_SIZE /\ (WINDOW_SIZE - 1) * z = WINDOW_SIZE - 1
    BY <1>1, <1>2, SizeOK DEF Half, h
  <2> QED
    BY <1>1, <1>2, <2>1, SizeOK, DimensionOK
<1>3. CASE z = 2
  <2>1. Half(z) = 2 * h /\ WINDOW_SIZE * z = 2 * WINDOW_SIZE
        /\ (WINDOW_SIZE - 1) * z = 2 * WINDOW_SIZE - 2
    BY <1>1, <1>3, SizeOK DEF Half, h
  <2> QED
    BY <1>1, <1>3, <2>1, SizeOK, DimensionOK
<1> QED
  BY <1>2, <1>3

(* Half a window is never wider than an unzoomed window. *)
LEMMA HalfNarrow ==
  ASSUME NEW z \in 1..2
  PROVE  Half(z) <= WINDOW_SIZE
<1> DEFINE h == WINDOW_SIZE \div 2
<1>1. h \in Nat /\ 2 * h <= WINDOW_SIZE
  BY SizeOK
<1> HIDE DEF h
<1>2. Half(z) = h * z
  BY DEF Half, h
<1>3. CASE z = 1
  BY <1>1, <1>2, <1>3, SizeOK
<1>4. CASE z = 2
  BY <1>1, <1>2, <1>4, SizeOK
<1> QED
  BY <1>3, <1>4

(* A painting that has seen one zoom factor stays on the map. *)
LEMMA SteadyInside ==
  ASSUME NEW p \in Coord, NEW r \in [1..5 -> 1..2], Steady(r)
  PROVE  First(p, r) \in Coord /\ Last(p, r) \in Coord
<1> DEFINE z == r[1]
<1>1. z \in 1..2 /\ r[2] = z /\ r[3] = z /\ r[4] = z /\ r[5] = z
  <2>1. DOMAIN r = 1..5
    OBVIOUS
  <2> QED
    BY <2>1 DEF Steady
<1> HIDE DEF z
<1>2. /\ First(p, r) = IF p < Half(z) THEN 0
                       ELSE IF p > dimension - Half(z) THEN dimension - WINDOW_SIZE * z
                       ELSE p - Half(z)
      /\ Last(p, r) = IF p < Half(z) THEN (WINDOW_SIZE - 1) * z
                      ELSE IF p > dimension - Half(z) THEN dimension - 1
                      ELSE p + Half(z) - 1
  BY <1>1 DEF First, Last, z
<1>3. /\ Half(z) \in Nat /\ 1 <= Half(z)
      /\ 2 * Half(z) = WINDOW_SIZE * z
      /\ WINDOW_SIZE * z \in Nat /\ WINDOW_SIZE * z <= dimension
      /\ (WINDOW_SIZE - 1) * z = WINDOW_SIZE * z - z
  BY <1>1, HalfFits
<1>4. dimension \in Nat /\ p \in 0..(dimension - 1)
  BY DimensionOK DEF Coord
<1> QED
  BY <1>1, <1>2, <1>3, <1>4 DEF Coord

(* Whatever zoom factors a painting has seen, the point it is centred on   *)
(* lies in it.                                                             *)
LEMMA CentreSeen ==
  ASSUME NEW p \in Coord, NEW r \in [1..5 -> 1..2]
  PROVE  First(p, r) <= p /\ p <= Last(p, r)
<1>1. dimension \in Nat /\ p \in 0..(dimension - 1)
  BY DimensionOK DEF Coord
<1>2. \A k \in 1..5 : r[k] \in 1..2
  OBVIOUS
<1>3. \A k \in 1..5 : Half(r[k]) \in Nat /\ 1 <= Half(r[k]) /\ Half(r[k]) <= WINDOW_SIZE
  BY <1>2, HalfFits, HalfNarrow
<1>4. r[4] = 1 \/ r[4] = 2
  BY <1>2
<1>5. WINDOW_SIZE * r[4] \in Nat /\ WINDOW_SIZE <= WINDOW_SIZE * r[4]
  BY <1>4, SizeOK
<1>6. r[3] = 1 \/ r[3] = 2
  BY <1>2
<1>7. (WINDOW_SIZE - 1) * r[3] \in Nat /\ WINDOW_SIZE - 1 <= (WINDOW_SIZE - 1) * r[3]
  BY <1>6, SizeOK
<1>8. /\ Half(r[1]) \in Nat /\ Half(r[1]) <= WINDOW_SIZE
      /\ Half(r[2]) \in Nat /\ Half(r[2]) <= WINDOW_SIZE
      /\ Half(r[5]) \in Nat /\ 1 <= Half(r[5])
  BY <1>3
<1>9. First(p, r) <= p
  BY <1>1, <1>5, <1>8, SizeOK DEF First
<1>10. p <= Last(p, r)
  BY <1>1, <1>7, <1>8, SizeOK DEF Last
<1> QED
  BY <1>9, <1>10

----------------------------------------------------------------------------
(* The invariant: what a thread has read of the zoom factor so far are     *)
(* factors of an open window, five of them before it paints; the main      *)
(* thread, the only one that changes the factor, has read a single value.  *)
ReadsOK(t) ==
  /\ reads[t] \in Seq(0..2)
  /\ pc[t] = "limits" => reads[t] \in Seq(1..2) /\ Len(reads[t]) < 5
  /\ pc[t] = "draw" => reads[t] \in [1..5 -> 1..2]
  /\ t = "main" /\ pc[t] = "limits" => reads[t] = <<>>
  /\ t = "main" /\ pc[t] = "draw" => Steady(reads[t])

Inv == TypeOK /\ \A t \in Thread : ReadsOK(t)

LEMMA PannedOnMap ==
  ASSUME TypeOK, zoom \in 1..2, NEW d \in Arrow
  PROVE  Panned(d) \in Point
<1>1. /\ Half(zoom) \in Nat /\ 1 <= Half(zoom) /\ 2 * Half(zoom) <= WINDOW_SIZE * zoom
      /\ WINDOW_SIZE * zoom \in Nat /\ WINDOW_SIZE * zoom <= dimension
  BY HalfFits
<1>2. ASSUME NEW q \in Int
      PROVE  Clamp(q) \in Coord
  BY <1>1, DimensionOK DEF Clamp, Coord
<1>3. \A a \in Axis : pan[a] \in Coord /\ pan[a] + d[a] \in Int
  <2>1. d \in [Axis -> -1..1]
    BY DEF Arrow
  <2>2. \A a \in Axis : d[a] \in Int
    BY <2>1
  <2>3. \A a \in Axis : pan[a] \in Coord
    BY DEF TypeOK, Point
  <2>4. \A c \in Coord : c \in Int
    BY DimensionOK DEF Coord
  <2>5. ASSUME NEW a \in Axis
        PROVE  pan[a] \in Coord /\ pan[a] + d[a] \in Int
    BY <2>2, <2>3, <2>4
  <2> QED
    BY <2>5
<1> DEFINE q == [a \in Axis |-> pan[a] + d[a]]
<1>4. \A a \in Axis : q[a] \in Int /\ Clamp(q[a]) \in Coord
  BY <1>2, <1>3
<1>5. Panned(d) = [a \in Axis |-> IF InRange(q[a]) /\ \E b \in Axis : ~InRange(q[b])
                                  THEN pan[a] ELSE Clamp(q[a])]
  BY DEF Panned
<1> QED
  BY <1>3, <1>4, <1>5 DEF Point

LEMMA InvInit == Init => Inv
<1> SUFFICES ASSUME Init PROVE Inv
  OBVIOUS
<1>1. 0 \in Coord
  BY DimensionOK, SizeOK DEF Coord
<1>2. pan \in Point /\ position \in Point
  BY <1>1, SpotOK DEF Init, Point
<1>3. centre \in [Thread -> Point] /\ reads \in [Thread -> Seq(0..2)]
  BY <1>2 DEF Init
<1>4. pc \in [Thread -> {"idle", "paint", "paint pan", "limits", "draw", "wander"}]
      /\ \A t \in Thread : pc[t] = "idle"
  BY DEF Init
<1>5. stage = "shell" /\ zoom = 0 /\ dead = FALSE /\ sprites = {} /\ roster \subseteq Player /\ Me \in roster
  BY DEF Init
<1>6. TypeOK
  <2>1. roster \subseteq Player /\ Me \in roster /\ sprites \subseteq Player
    BY <1>5
  <2>2. stage \in {"shell", "opening", "open", "closed"} /\ zoom \in 0..2
        /\ (stage = "open" => zoom \in 1..2)
    BY <1>5
  <2>3. dead \in BOOLEAN
    BY <1>5, Zenon
  <2> QED
    BY <1>2, <1>3, <1>4, <2>1, <2>2, <2>3, Zenon DEF TypeOK
<1>7. \A t \in Thread : ReadsOK(t)
  BY <1>3, <1>4 DEF ReadsOK
<1> QED
  BY <1>6, <1>7 DEF Inv

(* A thread that goes on with its painting reads zoom once more, the main  *)
(* thread all at once.                                                     *)
LEMMA ReadZoomOK ==
  ASSUME Inv, NEW t \in Thread, ReadZoom(t)
  PROVE  Inv'
<1>1. /\ stage = "open" /\ zoom \in 1..2 /\ pc[t] = "limits"
      /\ reads[t] \in Seq(1..2) /\ Len(reads[t]) < 5
      /\ reads \in [Thread -> Seq(0..2)]
      /\ t = "main" => reads[t] = <<>>
  BY DEF Inv, ReadsOK, ReadZoom, Paints, TypeOK
<1>2. PICK n \in IF t = "main" THEN {5} ELSE {1} :
        reads' = [reads EXCEPT ![t] = @ \o [k \in 1..n |-> zoom]]
  BY DEF ReadZoom
<1> DEFINE add == [k \in 1..n |-> zoom]
<1>3. n \in 1..5 /\ (t = "main" => n = 5) /\ (t # "main" => n = 1)
  BY <1>2
<1>4. add \in Seq(1..2) /\ Len(add) = n
  BY <1>1, <1>3
<1> HIDE DEF add
<1>5. reads'[t] = reads[t] \o add /\ \A u \in Thread \ {t} : reads'[u] = reads[u]
  BY <1>1, <1>2 DEF add
<1>6. /\ reads'[t] \in Seq(1..2)
      /\ Len(reads'[t]) = Len(reads[t]) + n
      /\ Len(reads'[t]) \in 0..5
  <2>1. reads[t] \o add \in Seq(1..2) /\ Len(reads[t] \o add) = Len(reads[t]) + Len(add)
    BY <1>1, <1>4
  <2>2. t = "main" => Len(reads[t]) = 0
    BY <1>1
  <2>3. Len(reads[t]) \in Nat
    BY <1>1
  <2> QED
    BY <1>1, <1>3, <1>4, <1>5, <2>1, <2>2, <2>3
<1>7. reads'[t] \in Seq(0..2)
  <2>1. \A k \in 1..Len(reads'[t]) : reads'[t][k] \in 0..2
    BY <1>6
  <2> QED
    BY <1>6, <2>1
<1>8. pc' = [pc EXCEPT ![t] = IF Len(reads'[t]) = 5 THEN "draw" ELSE "limits"]
  BY DEF ReadZoom, At
<1>9. /\ pc \in [Thread -> {"idle", "paint", "paint pan", "limits", "draw", "wander"}]
      /\ pc'[t] = (IF Len(reads'[t]) = 5 THEN "draw" ELSE "limits")
      /\ \A u \in Thread \ {t} : pc'[u] = pc[u]
  BY <1>8 DEF Inv, TypeOK
<1>10. ReadsOK(t)'
  <2>1. CASE Len(reads'[t]) = 5
    <3>1. reads'[t] \in [1..5 -> 1..2]
      BY <1>6, <2>1, LenProperties
    <3>2. t = "main" => Steady(reads'[t])
      <4> SUFFICES ASSUME t = "main" PROVE Steady(reads'[t])
        OBVIOUS
      <4>1. reads'[t] = add /\ n = 5
        BY <1>1, <1>3, <1>4, <1>5, ConcatEmptySeq
      <4>2. \A k \in DOMAIN add : add[k] = zoom
        BY DEF add
      <4> QED
        BY <4>1, <4>2 DEF Steady
    <3> QED
      BY <1>7, <1>9, <2>1, <3>1, <3>2 DEF ReadsOK
  <2>2. CASE Len(reads'[t]) # 5
    <3>1. t # "main"
      <4> SUFFICES ASSUME t = "main" PROVE FALSE
        OBVIOUS
      <4>1. Len(reads[t]) = 0 /\ n = 5
        BY <1>1, <1>3
      <4> QED
        BY <1>6, <2>2, <4>1
    <3>2. Len(reads'[t]) < 5
      BY <1>6, <2>2
    <3> QED
      BY <1>6, <1>7, <1>9, <2>2, <3>1, <3>2 DEF ReadsOK
  <2> QED
    BY <2>1, <2>2
<1>11. \A u \in Thread \ {t} : ReadsOK(u)'
  <2> TAKE u \in Thread \ {t}
  <2>1. reads'[u] = reads[u] /\ pc'[u] = pc[u] /\ ReadsOK(u)
    BY <1>5, <1>9 DEF Inv
  <2> QED
    BY <2>1 DEF ReadsOK
<1>12. TypeOK'
  <2>1. reads' \in [Thread -> Seq(0..2)]
    BY <1>1, <1>2, <1>5, <1>7
  <2>2. pc' \in [Thread -> {"idle", "paint", "paint pan", "limits", "draw", "wander"}]
    BY <1>8, <1>9
  <2>3. UNCHANGED <<stage, shared, copy, sprites, centre, dead>>
    BY DEF ReadZoom
  <2> QED
    BY <2>1, <2>2, <2>3 DEF Inv, TypeOK, shared, copy
<1> QED
  BY <1>10, <1>11, <1>12 DEF Inv

(* A step of thread t that leaves the values read alone, or forgets them,  *)
(* and goes neither to "limits" with some nor to "draw", keeps the reads.  *)
LEMMA OtherReadsOK ==
  ASSUME Inv, NEW t \in Thread, NEW l,
         pc' = [pc EXCEPT ![t] = l],
         \/ reads' = reads /\ l \notin {"limits", "draw"}
         \/ reads' = [reads EXCEPT ![t] = <<>>] /\ l = "limits"
  PROVE  \A u \in Thread : ReadsOK(u)'
<1>1. /\ pc \in [Thread -> {"idle", "paint", "paint pan", "limits", "draw", "wander"}]
      /\ reads \in [Thread -> Seq(0..2)]
  BY DEF Inv, TypeOK
<1>2. pc'[t] = l /\ \A u \in Thread \ {t} : pc'[u] = pc[u]
  BY <1>1
<1>3. \A u \in Thread \ {t} : reads'[u] = reads[u]
  BY <1>1
<1>4. \A u \in Thread \ {t} : ReadsOK(u)'
  <2> TAKE u \in Thread \ {t}
  <2>1. reads'[u] = reads[u] /\ pc'[u] = pc[u] /\ ReadsOK(u)
    BY <1>2, <1>3 DEF Inv
  <2> QED
    BY <2>1 DEF ReadsOK
<1>5. ReadsOK(t)'
  <2>1. CASE reads' = reads /\ l \notin {"limits", "draw"}
    <3>1. reads'[t] \in Seq(0..2) /\ pc'[t] \notin {"limits", "draw"}
      BY <1>1, <1>2, <2>1
    <3> QED
      BY <3>1, Zenon DEF ReadsOK
  <2>2. CASE reads' = [reads EXCEPT ![t] = <<>>] /\ l = "limits"
    <3>1. reads'[t] = <<>> /\ <<>> \in Seq(0..2) /\ <<>> \in Seq(1..2) /\ Len(<<>>) = 0
      BY <1>1, <2>2, EmptySeq
    <3>2. reads'[t] \in Seq(0..2) /\ reads'[t] \in Seq(1..2) /\ Len(reads'[t]) < 5
      BY <3>1
    <3>3. pc'[t] = "limits" /\ pc'[t] # "draw"
      BY <1>2, <2>2
    <3> QED
      BY <3>1, <3>2, <3>3, Zenon DEF ReadsOK
  <2> QED
    BY <2>1, <2>2
<1> QED
  BY <1>4, <1>5

LEMMA InvNext == Inv /\ [Next]_vars => Inv'
<1> SUFFICES ASSUME Inv, [Next]_vars PROVE Inv'
  OBVIOUS
<1> USE DEF Inv
<1> DEFINE Places == {"idle", "paint", "paint pan", "limits", "draw", "wander"}
<1>1. CASE LeaveShell
  <2>1. TypeOK'
    BY <1>1 DEF TypeOK, LeaveShell, shared, copy, painting
  <2>2. \A t \in Thread : ReadsOK(t)'
    BY <1>1 DEF LeaveShell, painting, ReadsOK
  <2> QED
    BY <2>1, <2>2
<1>2. CASE Open
  <2>1. \A t \in Thread : ReadsOK(t)'
    BY <1>2, OtherReadsOK DEF Open, At, Thread
  <2>2. pc' \in [Thread -> Places]
    BY <1>2 DEF Open, At, TypeOK
  <2>3. stage' = "open" /\ zoom' = 1 /\ sprites' = roster
        /\ UNCHANGED <<pan, copy, centre, reads, dead>>
    BY <1>2 DEF Open
  <2>4. zoom' \in 0..2 /\ zoom' \in 1..2
    BY <2>3
  <2>5. TypeOK'
    BY <2>2, <2>3, <2>4 DEF TypeOK, copy
  <2> QED
    BY <2>1, <2>5
<1>3. ASSUME NEW fac \in {-1, 1}, PressZoom(fac)
      PROVE  Inv'
  <2>1. \A t \in Thread : ReadsOK(t)'
    BY <1>3, OtherReadsOK DEF PressZoom, At, Thread
  <2>2. pc' \in [Thread -> Places]
    BY <1>3 DEF PressZoom, At, TypeOK
  <2>3. zoom \in 1..2 /\ zoom' = Zoomed(fac)
    BY <1>3 DEF PressZoom, Ready, TypeOK
  <2>4. zoom' \in 1..2 /\ zoom' \in 0..2
    BY <2>3 DEF Zoomed
  <2>5. UNCHANGED <<stage, pan, copy, sprites, centre, reads, dead>>
    BY <1>3 DEF PressZoom
  <2>6. TypeOK'
    BY <2>2, <2>4, <2>5 DEF TypeOK, copy
  <2> QED
    BY <2>1, <2>6
<1>4. ASSUME NEW d \in Arrow, PressPan(d)
      PROVE  Inv'
  <2>1. \A t \in Thread : ReadsOK(t)'
    BY <1>4, OtherReadsOK DEF PressPan, At, Thread
  <2>2. pc' \in [Thread -> Places]
    BY <1>4 DEF PressPan, At, TypeOK
  <2>3. zoom \in 1..2
    BY <1>4 DEF PressPan, Ready, TypeOK
  <2>4. pan' \in Point
    BY <1>4, <2>3, PannedOnMap DEF PressPan
  <2>5. TypeOK'
    BY <1>4, <2>2, <2>4 DEF TypeOK, PressPan, copy
  <2> QED
    BY <2>1, <2>5
<1>5. CASE PressWander
  <2>1. \A t \in Thread : ReadsOK(t)'
    BY <1>5, OtherReadsOK DEF PressWander, At, Thread
  <2>2. pc' \in [Thread -> Places]
    BY <1>5 DEF PressWander, At, TypeOK
  <2>3. TypeOK'
    BY <1>5, <2>2 DEF TypeOK, PressWander, shared, copy
  <2> QED
    BY <2>1, <2>3
<1>6. CASE PressQuit
  <2>1. TypeOK'
    BY <1>6 DEF TypeOK, PressQuit, shared, copy, painting
  <2>2. \A t \in Thread : ReadsOK(t)'
    BY <1>6 DEF PressQuit, painting, ReadsOK
  <2> QED
    BY <2>1, <2>2
<1>7. CASE GameUpdate
  <2>1. pc' \in [Thread -> Places]
    BY <1>7 DEF GameUpdate, At, TypeOK
  <2>2. dead' \in BOOLEAN
    BY <1>7, Zenon DEF GameUpdate, TypeOK
  <2>3. \A t \in Thread : ReadsOK(t)'
    <3>1. CASE stage = "open"
      BY <1>7, <3>1, OtherReadsOK DEF GameUpdate, At, Thread
    <3>2. CASE stage # "open"
      BY <1>7, <3>2 DEF GameUpdate, ReadsOK
    <3> QED
      BY <3>1, <3>2
  <2>4. position' \in Point /\ roster' \subseteq Player /\ Me \in roster'
    BY <1>7, SpotOK DEF GameUpdate
  <2>5. UNCHANGED <<stage, shared, sprites, centre, reads>>
    BY <1>7 DEF GameUpdate
  <2>6. TypeOK'
    BY <2>1, <2>2, <2>4, <2>5 DEF TypeOK, shared
  <2> QED
    BY <2>3, <2>6
<1>8. ASSUME NEW t \in Thread, CentreOnMe(t)
      PROVE  Inv'
  <2>1. \A u \in Thread : ReadsOK(u)'
    BY <1>8, OtherReadsOK DEF CentreOnMe, At
  <2>2. /\ pc' \in [Thread -> Places] /\ centre' \in [Thread -> Point]
        /\ pan' \in Point
    BY <1>8 DEF CentreOnMe, At, TypeOK
  <2>3. reads' \in [Thread -> Seq(0..2)]
    BY <1>8, EmptySeq DEF CentreOnMe, TypeOK
  <2>4. TypeOK'
    BY <1>8, <2>2, <2>3 DEF TypeOK, CentreOnMe, copy
  <2> QED
    BY <2>1, <2>4
<1>9. ASSUME NEW t \in Thread, CentreOnPan(t)
      PROVE  Inv'
  <2>1. \A u \in Thread : ReadsOK(u)'
    BY <1>9, OtherReadsOK DEF CentreOnPan, At
  <2>2. pc' \in [Thread -> Places] /\ centre' \in [Thread -> Point]
    BY <1>9 DEF CentreOnPan, At, TypeOK
  <2>3. reads' \in [Thread -> Seq(0..2)]
    BY <1>9, EmptySeq DEF CentreOnPan, TypeOK
  <2>4. TypeOK'
    BY <1>9, <2>2, <2>3 DEF TypeOK, CentreOnPan, copy, shared
  <2> QED
    BY <2>1, <2>4
<1>10. ASSUME NEW t \in Thread, ReadZoom(t)
       PROVE  Inv'
  BY <1>10, ReadZoomOK
<1>11. ASSUME NEW t \in Thread, Draw(t)
       PROVE  Inv'
  <2>1. \A u \in Thread : ReadsOK(u)'
    BY <1>11, OtherReadsOK DEF Draw, At
  <2>2. pc' \in [Thread -> Places]
    BY <1>11 DEF Draw, At, TypeOK
  <2>3. dead' \in BOOLEAN
    <3>1. dead' = FALSE \/ dead' = (~Inside(t) \/ ~(roster \subseteq sprites))
      BY <1>11, Zenon DEF Draw
    <3> QED
      BY <3>1, Zenon
  <2>4. UNCHANGED <<stage, shared, copy, sprites, centre, reads>>
    BY <1>11 DEF Draw
  <2>5. TypeOK'
    BY <2>2, <2>3, <2>4 DEF TypeOK, copy, shared
  <2> QED
    BY <2>1, <2>5
<1>12. CASE UNCHANGED vars
  BY <1>12 DEF vars, shared, copy, painting, TypeOK, ReadsOK
<1> QED
  BY <1>1, <1>2, <1>3, <1>4, <1>5, <1>6, <1>7, <1>8, <1>9, <1>10, <1>11, <1>12
  DEF Next, Paint

LEMMA InvAlways == Spec => []Inv
  BY InvInit, InvNext, PTL DEF Spec

----------------------------------------------------------------------------
(* Theorems *)

(* The point panned to and every centre stay on the map, whatever keys and *)
(* updates come, and zoom stays a factor of the open window.               *)
THEOREM TypeCorrect == Spec => []TypeOK
<1>1. Inv => TypeOK
  BY DEF Inv
<1> QED
  BY <1>1, InvAlways, PTL

(* ui_paintmap reads only cells of the map when it sees one zoom factor.   *)
THEOREM PaintsInsideMap == Spec => []InsideMap
<1>1. Inv => InsideMap
  <2> SUFFICES ASSUME Inv, NEW t \in Thread, pc[t] = "draw", Steady(reads[t])
               PROVE  Inside(t)
    BY DEF InsideMap
  <2>1. reads[t] \in [1..5 -> 1..2] /\ \A a \in Axis : centre[t][a] \in Coord
    BY DEF Inv, ReadsOK, TypeOK, Point
  <2> QED
    BY <2>1, SteadyInside DEF Inside
<1> QED
  BY <1>1, InvAlways, PTL

(* The client's own player is in the window painted around it, even when   *)
(* the zoom factor changes while the bounds are computed.                  *)
THEOREM PlayerSeesItself == Spec => []SeesItself
<1>1. Inv => SeesItself
  <2> SUFFICES ASSUME Inv, NEW t \in Thread, pc[t] = "draw", NEW a \in Axis
               PROVE  /\ First(centre[t][a], reads[t]) <= centre[t][a]
                      /\ centre[t][a] <= Last(centre[t][a], reads[t])
    BY DEF SeesItself
  <2>1. reads[t] \in [1..5 -> 1..2] /\ centre[t][a] \in Coord
    BY DEF Inv, ReadsOK, TypeOK, Point
  <2> QED
    BY <2>1, CentreSeen
<1> QED
  BY <1>1, InvAlways, PTL

(* Once the window is open, the process crashes only when a player without *)
(* a sprite is painted or the zoom factor changes under the event thread.  *)
THEOREM ClientStaysUp == Spec => []StaysUp
<1>1. Init => StaysUp
  BY Zenon DEF Init, StaysUp
<1>2. Inv /\ StaysUp /\ [Next]_vars => StaysUp'
  <2> SUFFICES ASSUME Inv, StaysUp, [Next]_vars PROVE StaysUp'
    OBVIOUS
  <2>1. CASE dead
    <3>1. UNCHANGED vars
      BY <2>1, Zenon DEF Next, LeaveShell, Open, PressZoom, PressPan, PressWander, PressQuit,
         GameUpdate, Paint, CentreOnMe, CentreOnPan, ReadZoom, Draw, Paints, Ready
    <3>2. /\ stage' = stage /\ roster' = roster /\ sprites' = sprites
          /\ reads' = reads /\ dead' = dead
      BY <3>1 DEF vars, copy, painting
    <3> QED
      BY <3>2 DEF StaysUp, Steady
  <2>2. CASE ~dead
    <3> SUFFICES ASSUME dead'
                 PROVE  \/ stage' # "open"
                        \/ ~(roster' \subseteq sprites')
                        \/ ~Steady(reads'["event"])
      BY DEF StaysUp, Steady
    <3>1. CASE GameUpdate
      <4>1. stage # "open" /\ stage' = stage
        BY <2>2, <3>1, Zenon DEF GameUpdate
      <4> QED
        BY <4>1
    <3>2. ASSUME NEW t \in Thread, Draw(t)
          PROVE  ~(roster' \subseteq sprites') \/ ~Steady(reads'["event"])
      <4>1. ~Inside(t) \/ ~(roster \subseteq sprites)
        BY <2>2, <3>2, Zenon DEF Draw
      <4>2. roster' = roster /\ sprites' = sprites /\ reads' = reads /\ pc[t] = "draw"
        BY <3>2 DEF Draw, copy, Paints
      <4>3. ~Inside(t) => ~Steady(reads[t])
        <5>1. reads[t] \in [1..5 -> 1..2] /\ \A a \in Axis : centre[t][a] \in Coord
          BY <4>2 DEF Inv, ReadsOK, TypeOK, Point
        <5> QED
          BY <5>1, SteadyInside DEF Inside
      <4>4. t = "main" => Steady(reads[t])
        BY <4>2 DEF Inv, ReadsOK
      <4>5. CASE ~(roster \subseteq sprites)
        BY <4>2, <4>5
      <4>6. CASE ~Inside(t)
        BY <4>2, <4>3, <4>4, <4>6 DEF Thread
      <4> QED
        BY <4>1, <4>5, <4>6
    <3>3. CASE ~GameUpdate /\ ~(\E t \in Thread : Draw(t))
      <4>1. dead' = dead
        BY <3>3, Zenon DEF Next, LeaveShell, Open, PressZoom, PressPan, PressWander,
           PressQuit, Paint, CentreOnMe, CentreOnPan, ReadZoom, vars
      <4> QED
        BY <2>2, <4>1, Zenon
    <3> QED
      BY <3>1, <3>2, <3>3
  <2> QED
    BY <2>1, <2>2
<1> QED
  BY <1>1, <1>2, InvAlways, PTL DEF Spec

(* An arrow key moves the window by one cell at most.                      *)
THEOREM PanningIsSteady == Spec => PanSteady
<1>1. Inv /\ [Next]_vars =>
        [\A d \in Arrow : PressPan(d) =>
           \A a \in Axis :
             First(pan'[a], [k \in 1..5 |-> zoom]) - First(pan[a], [k \in 1..5 |-> zoom])
               \in -1..1]_vars
  <2> SUFFICES ASSUME Inv, NEW d \in Arrow, PressPan(d), NEW a \in Axis
               PROVE  First(pan'[a], [k \in 1..5 |-> zoom]) - First(pan[a], [k \in 1..5 |-> zoom])
                        \in -1..1
    OBVIOUS
  <2> DEFINE q == [b \in Axis |-> pan[b] + d[b]]
             S(p) == IF p < Half(zoom) THEN 0
                     ELSE IF p > dimension - Half(zoom) THEN dimension - WINDOW_SIZE * zoom
                     ELSE p - Half(zoom)
  <2>1. zoom \in 1..2 /\ pan \in Point /\ pan' = Panned(d)
    BY DEF PressPan, Ready, Inv, TypeOK
  <2>2. \A p : First(p, [k \in 1..5 |-> zoom]) = S(p)
    BY DEF First
  <2>3. d[a] \in -1..1 /\ pan[a] \in Coord /\ q[a] = pan[a] + d[a]
    BY <2>1 DEF Arrow, Point
  <2>4. pan'[a] = pan[a] \/ pan'[a] = Clamp(q[a])
    BY <2>1 DEF Panned
  <2>5. /\ Half(zoom) \in Nat /\ 1 <= Half(zoom) /\ 2 * Half(zoom) = WINDOW_SIZE * zoom
        /\ WINDOW_SIZE * zoom \in Nat /\ WINDOW_SIZE * zoom <= dimension
    BY <2>1, HalfFits
  <2>6. pan[a] \in 0..(dimension - 1) /\ dimension \in Nat /\ q[a] \in Int
        /\ q[a] - pan[a] \in -1..1
    BY <2>3, DimensionOK DEF Coord
  <2>7. Clamp(q[a]) = IF q[a] < Half(zoom) THEN Half(zoom)
                      ELSE IF q[a] > dimension - Half(zoom) THEN dimension - Half(zoom)
                      ELSE q[a]
    BY DEF Clamp
  <2> HIDE DEF q
  <2>8. S(pan[a]) - S(pan[a]) \in -1..1 /\ S(Clamp(q[a])) - S(pan[a]) \in -1..1
    BY <2>5, <2>6, <2>7
  <2>9. /\ First(pan'[a], [k \in 1..5 |-> zoom]) = S(pan'[a])
        /\ First(pan[a], [k \in 1..5 |-> zoom]) = S(pan[a])
    BY <2>2
  <2> HIDE DEF S
  <2> QED
    BY <2>4, <2>8, <2>9
<1> QED
  BY <1>1, InvAlways, PTL DEF Spec, PanSteady
=============================================================================
