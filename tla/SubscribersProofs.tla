------------------------- MODULE SubscribersProofs -------------------------
(***************************************************************************)
(* What holds of the table of subscribers for every number of clients,     *)
(* descriptors and entries.                                                *)
(***************************************************************************)
EXTENDS Subscribers, TLAPS, WellFoundedInduction, FiniteSetTheorems

----------------------------------------------------------------------------
(* Helpers *)

(* A non-empty set of naturals has a least element. *)
LEMMA LeastNatural ==
  ASSUME NEW S, S \subseteq Nat, S # {}
  PROVE  \E n \in S : \A m \in S : n <= m
<1> DEFINE R == OpToRel(<, Nat)
<1>1. IsWellFoundedOn(R, Nat)
  BY NatLessThanWellFounded
<1>2. PICK n \in S : \A m \in S : <<m, n>> \notin R
  <2> HIDE DEF R
  <2> QED BY <1>1, WFMin
<1>3. \A m \in S : ~(m < n)
  BY <1>2 DEF OpToRel
<1> QED BY <1>3

LEMMA TakenFinite ==
  /\ Taken \subseteq Index /\ Index \subseteq Nat
  /\ IsFiniteSet(Taken) /\ IsFiniteSet(Index)
<1>1. IsFiniteSet(Index)
  BY MaxSubsOK, FS_Interval DEF Index
<1>2. Taken \in SUBSET Index
  BY DEF Taken
<1>3. Index \subseteq Nat
  BY MaxSubsOK DEF Index
<1>4. IsFiniteSet(Taken)
  BY <1>1, <1>2, FS_Subset
<1> QED BY <1>1, <1>2, <1>3, <1>4

(* The entry that a record chooses is free. *)
LEMMA ChosenFree ==
  ASSUME Taken # Index
  PROVE  Chosen \in Index /\ Chosen \notin Taken
<1>1. Index \ Taken # {} /\ Index \ Taken \subseteq Nat
  BY TakenFinite
<1>2. \E k \in Index \ Taken : \A j \in Index \ Taken : k <= j
  BY <1>1, LeastNatural
<1> QED BY <1>2 DEF Chosen

----------------------------------------------------------------------------
(* Types *)

LEMMA TypeInit == Init => TypeOK
<1> SUFFICES ASSUME Init PROVE TypeOK
  OBVIOUS
<1>1. pc \in [Thread -> {"away", "serving", "goodbye", "lost", "closing"} \cup Posting]
  BY DEF Init
<1>2. slot \in [Thread -> 0..MaxSubs]
  BY MaxSubsOK DEF Init
<1>3. /\ EventNumSubscribers \in Int /\ EventLastSubscriber \in 0..MaxSubs
      /\ i \in 0..MaxSubs /\ num \in Int
  BY MaxSubsOK DEF Init
<1>4. /\ EventSubscribers \in [Index -> Fd \cup {NoFd}]
      /\ conn \in [Fd -> {"free", "rpc", "event"}]
      /\ rpcFd \in [Thread -> Fd \cup {NoFd}] /\ eventFd \in [Client -> Fd \cup {NoFd}]
      /\ incoming \in Fd \cup {NoFd} /\ lock \in Thread \cup {NoFd} /\ sent \subseteq Fd
  BY DEF Init
<1>5. crashed \in BOOLEAN /\ spoiled \in BOOLEAN
  BY DEF Init
<1> QED BY <1>1, <1>2, <1>3, <1>4, <1>5 DEF TypeOK

LEMMA TypeConnecting ==
  ASSUME TypeOK, Connecting
  PROVE  TypeOK'
<1>1. ASSUME NEW c \in Client, AcceptRpc(c)
      PROVE  TypeOK'
  BY <1>1 DEF TypeOK, AcceptRpc, Free, Thread, table, poster
<1>2. ASSUME NEW c \in Client, AcceptEvent(c)
      PROVE  TypeOK'
  BY <1>2 DEF TypeOK, AcceptEvent, Free, Thread, table, poster
<1>3. CASE AcceptRpcFails
  BY <1>3 DEF TypeOK, AcceptRpcFails, Thread, table, poster
<1>4. CASE Record
  <2>1. Chosen \in Index /\ Chosen \in 0..MaxSubs
    BY <1>4, ChosenFree, MaxSubsOK DEF Record, Index
  <2> QED BY <1>4, <2>1 DEF TypeOK, Record, Listens, poster
<1>5. CASE RecordFails
  BY <1>5, MaxSubsOK DEF TypeOK, RecordFails, Listens, Index, table, poster
<1> QED BY <1>1, <1>2, <1>3, <1>4, <1>5 DEF Connecting

LEMMA TypeBroadcast ==
  ASSUME TypeOK, NEW t \in Thread,
         Request(t) \/ PostLock(t) \/ Broadcasting(t)
  PROVE  TypeOK'
<1>1. CASE Request(t)
  BY <1>1 DEF TypeOK, Request, Posting, table, poster
<1>2. CASE PostLock(t)
  BY <1>2, MaxSubsOK DEF TypeOK, PostLock, Counted, table
<1>3. CASE PostNext(t)
  <2>1. i' \in 0..MaxSubs
    BY <1>3, MaxSubsOK DEF TypeOK, PostNext, InTable, Index
  <2>2. num' \in Int /\ sent' \subseteq Fd
    BY <1>3 DEF TypeOK, PostNext, Taken
  <2> QED BY <1>3, <2>1, <2>2 DEF TypeOK, PostNext, table
<1>4. CASE PostOverrun(t)
  BY <1>4 DEF TypeOK, PostOverrun, table, poster
<1>5. CASE PostDone(t)
  <2>1. pc' \in [Thread -> {"away", "serving", "goodbye", "lost", "closing"} \cup Posting]
    <3>1. PICK v : /\ v \in {"serving", "lost", "closing"}
                   /\ pc' = [pc EXCEPT ![t] = v]
      <4>1. CASE pc[t] = "post"
        BY <1>5, <4>1 DEF PostDone
      <4>2. CASE pc[t] = "post after goodbye"
        BY <1>5, <4>2 DEF PostDone
      <4>3. CASE pc[t] \notin {"post", "post after goodbye"}
        BY <1>5, <4>3 DEF PostDone
      <4> QED BY <4>1, <4>2, <4>3
    <3> QED BY <3>1 DEF TypeOK
  <2>2. slot' \in [Thread -> 0..MaxSubs] /\ i' \in 0..MaxSubs
    <3>1. slot' = [slot EXCEPT ![t] = 0] /\ i' = 0
      BY <1>5, Zenon DEF PostDone
    <3> QED BY <3>1, MaxSubsOK DEF TypeOK
  <2> QED BY <1>5, <2>1, <2>2 DEF TypeOK, PostDone, table
<1> QED BY <1>1, <1>2, <1>3, <1>4, <1>5 DEF Broadcasting

LEMMA TypeEnding ==
  ASSUME TypeOK, NEW t \in Thread,
         Ending(t) \/ (t \in Client /\ Goodbye(t))
  PROVE  TypeOK'
<1>1. CASE t \in Client /\ Goodbye(t)
  BY <1>1, MaxSubsOK DEF TypeOK, Goodbye, table, poster
<1>2. CASE EndOfFile(t)
  BY <1>2, MaxSubsOK DEF TypeOK, EndOfFile, Close, table, poster
<1>3. CASE RemoveNext(t)
  <2>1. slot' \in [Thread -> 0..MaxSubs]
    BY <1>3, MaxSubsOK DEF TypeOK, RemoveNext, Index
  <2>2. /\ EventSubscribers' \in [Index -> Fd \cup {NoFd}]
        /\ EventNumSubscribers' \in Int
    <3>1. CASE EventSubscribers[slot[t]] = rpcFd[t]
      BY <1>3, <3>1 DEF TypeOK, RemoveNext
    <3>2. CASE EventSubscribers[slot[t]] # rpcFd[t]
      BY <1>3, <3>2 DEF TypeOK, RemoveNext, table
    <3> QED BY <3>1, <3>2
  <2>3. spoiled' \in BOOLEAN
    BY <1>3, Zenon DEF TypeOK, RemoveNext
  <2> QED BY <1>3, <2>1, <2>2, <2>3 DEF TypeOK, RemoveNext, poster
<1>4. CASE RemoveDone(t)
  BY <1>4 DEF TypeOK, RemoveDone, Posting, table, poster
<1>5. CASE ThreadEnds(t)
  BY <1>5 DEF TypeOK, ThreadEnds, Close, table, poster
<1> QED BY <1>1, <1>2, <1>3, <1>4, <1>5 DEF Ending

LEMMA TypeNext == TypeOK /\ [Next]_vars => TypeOK'
<1> SUFFICES ASSUME TypeOK, [Next]_vars
             PROVE  TypeOK'
  OBVIOUS
<1>1. CASE UNCHANGED vars
  BY <1>1 DEF TypeOK, vars, table, poster
<1>2. CASE Next
  BY <1>2, TypeConnecting, TypeBroadcast, TypeEnding DEF Next, Thread
<1> QED BY <1>1, <1>2

(* Types are kept whatever happens, races and failed accepts included. *)
THEOREM TypeCorrect == Spec => []TypeOK
<1> QED BY TypeInit, TypeNext, PTL DEF Spec

----------------------------------------------------------------------------
(* The table *)

(* What a broadcast that has reached entry i still has to find. *)
Ahead == {k \in Taken : i <= k}

(* Every entry is an event connection, none of them twice, and the one     *)
(* that waits to be recorded is not among them.                            *)
EntriesOpen ==
  /\ \A k \in Taken : /\ conn[EventSubscribers[k]] = "event"
                      /\ \A j \in Taken : EventSubscribers[j] = EventSubscribers[k]
                                            => j = k
  /\ incoming # NoFd => /\ conn[incoming] = "event"
                        /\ \A k \in Taken : EventSubscribers[k] # incoming

(* The counter agrees with the table, and a broadcast's own count with     *)
(* the part of the table that is ahead of it.                              *)
Counts ==
  /\ EventNumSubscribers = Cardinality(Taken)
  /\ lock # NoFd => /\ num = Cardinality(Ahead)
                    /\ \A k \in Taken : k < i => EventSubscribers[k] \in sent
  /\ ~crashed

TableSound == ~spoiled => EntriesOpen /\ Counts

LEMMA AheadFinite == IsFiniteSet(Ahead) /\ Cardinality(Ahead) \in Nat
<1>1. Ahead \in SUBSET Taken
  BY DEF Ahead
<1> QED BY <1>1, TakenFinite, FS_Subset, FS_CardinalityType

LEMMA SoundInit == Init => TableSound
<1> SUFFICES ASSUME Init PROVE TableSound
  OBVIOUS
<1>1. Taken = {}
  BY DEF Init, Taken
<1> QED BY <1>1, FS_EmptySet DEF Init, TableSound, EntriesOpen, Counts

(* A step that leaves the table and the broadcast alone, and closes no     *)
(* event connection, keeps them sound.                                     *)
LEMMA SoundAside ==
  ASSUME TypeOK, TableSound, UNCHANGED <<table, poster, incoming, crashed>>,
         \A f \in Fd : conn[f] = "event" => conn'[f] = "event",
         spoiled' = spoiled
  PROVE  TableSound'
<1>1. Taken' = Taken /\ Ahead' = Ahead
  BY DEF Taken, Ahead, table, poster
<1>2. \A k \in Taken : EventSubscribers[k] \in Fd
  BY DEF TypeOK, Taken
<1>3. ASSUME ~spoiled, EntriesOpen PROVE EntriesOpen'
  BY <1>1, <1>2, <1>3 DEF EntriesOpen, TypeOK, table
<1>4. ASSUME Counts PROVE Counts'
  BY <1>1, <1>4 DEF Counts, table, poster
<1> QED BY <1>3, <1>4 DEF TableSound

LEMMA SoundConnecting ==
  ASSUME TypeOK, TableSound, Connecting
  PROVE  TableSound'
<1>1. ASSUME NEW c \in Client, AcceptRpc(c)
      PROVE  TableSound'
  <2>1. \A f \in Fd : conn[f] = "event" => conn'[f] = "event"
    BY <1>1 DEF AcceptRpc, Free, TypeOK
  <2> QED BY <1>1, <2>1, SoundAside DEF AcceptRpc
<1>2. CASE AcceptRpcFails
  BY <1>2, SoundAside DEF AcceptRpcFails
<1>3. ASSUME NEW c \in Client, AcceptEvent(c)
      PROVE  TableSound'
  <2>1. PICK f \in Free : /\ conn' = [conn EXCEPT ![f] = "event"]
                          /\ incoming' = f
    BY <1>3 DEF AcceptEvent
  <2>2. Taken' = Taken /\ Ahead' = Ahead
    BY <1>3 DEF AcceptEvent, Taken, Ahead, table, poster
  <2>3. \A k \in Taken : EventSubscribers[k] \in Fd
    BY DEF TypeOK, Taken
  <2>4. ASSUME EntriesOpen PROVE EntriesOpen'
    BY <1>3, <2>1, <2>2, <2>3, <2>4 DEF AcceptEvent, EntriesOpen, Free, TypeOK, table
  <2>5. ASSUME Counts PROVE Counts'
    BY <1>3, <2>2, <2>5 DEF AcceptEvent, Counts, table, poster
  <2> QED BY <1>3, <2>4, <2>5 DEF AcceptEvent, TableSound
<1>4. CASE Record
  <2> DEFINE n == Chosen
  <2>1. n \in Index /\ n \notin Taken
    BY <1>4, ChosenFree DEF Record
  <2>2. /\ EventSubscribers' = [EventSubscribers EXCEPT ![n] = incoming]
        /\ incoming \in Fd /\ incoming' = NoFd
    BY <1>4 DEF Record, Listens, TypeOK
  <2> HIDE DEF n
  <2>3. Taken' = Taken \cup {n}
    BY <2>1, <2>2, FdsOK DEF Taken, TypeOK
  <2>4. ASSUME EntriesOpen PROVE EntriesOpen'
    BY <1>4, <2>1, <2>2, <2>3, <2>4 DEF Record, EntriesOpen, TypeOK, Taken
  <2>5. ASSUME Counts PROVE Counts'
    <3>1. Cardinality(Taken') = Cardinality(Taken) + 1
      BY <2>1, <2>3, TakenFinite, FS_AddElement
    <3>2. EventNumSubscribers' = Cardinality(Taken')
      BY <1>4, <2>5, <3>1 DEF Record, Counts
    <3> QED BY <1>4, <2>5, <3>2 DEF Record, Counts, poster
  <2> QED BY <1>4, <2>4, <2>5 DEF Record, TableSound
<1>5. CASE RecordFails
  <2>1. Taken' = Taken /\ Ahead' = Ahead
    BY <1>5 DEF RecordFails, Taken, Ahead, table, poster
  <2>2. ASSUME EntriesOpen PROVE EntriesOpen'
    BY <1>5, <2>1, <2>2 DEF RecordFails, Listens, EntriesOpen, table
  <2>3. ASSUME Counts PROVE Counts'
    BY <1>5, <2>1, <2>3 DEF RecordFails, Counts, table, poster
  <2> QED BY <1>5, <2>2, <2>3 DEF RecordFails, TableSound
<1> QED BY <1>1, <1>2, <1>3, <1>4, <1>5 DEF Connecting

LEMMA SoundBroadcast ==
  ASSUME TypeOK, TableSound, NEW t \in Thread,
         Request(t) \/ PostLock(t) \/ Broadcasting(t)
  PROVE  TableSound'
<1>1. CASE Request(t)
  BY <1>1, SoundAside DEF Request
<1> SUFFICES ASSUME PostLock(t) \/ Broadcasting(t), ~spoiled'
             PROVE  EntriesOpen' /\ Counts'
  BY <1>1 DEF TableSound
<1>2. /\ UNCHANGED <<table, conn, incoming>> /\ Taken' = Taken
      /\ EntriesOpen /\ Counts
  BY DEF PostLock, Broadcasting, PostNext, PostOverrun, PostDone, Taken, table,
         TableSound
<1>3. EntriesOpen'
  BY <1>2 DEF EntriesOpen, table
<1>4. \A k \in Taken : k \in Nat /\ k < MaxSubs
  BY MaxSubsOK DEF Taken, Index
<1>5. CASE PostLock(t)
  <2>1. Ahead' = Taken
    BY <1>2, <1>4, <1>5 DEF PostLock, Ahead
  <2> QED BY <1>2, <1>3, <1>4, <1>5, <2>1 DEF PostLock, Counts, Counted, table
<1>6. CASE PostNext(t)
  <2>1. lock # NoFd /\ lock' = lock /\ i' = i + 1 /\ i \in Nat
    BY <1>6, ThreadsOK DEF PostNext, TypeOK
  <2>2. Ahead' = Ahead \ {i}
    BY <1>2, <1>4, <2>1 DEF Ahead
  <2>3. i \in Ahead <=> i \in Taken
    BY <1>4, <2>1 DEF Ahead
  <2>4. Cardinality(Ahead') = IF i \in Taken THEN num - 1 ELSE num
    BY <1>2, <2>1, <2>2, <2>3, AheadFinite, FS_RemoveElement DEF Counts
  <2>5. num' = Cardinality(Ahead')
    BY <1>6, <2>4 DEF PostNext
  <2>6. \A k \in Taken : k < i' => EventSubscribers[k] \in sent'
    <3> SUFFICES ASSUME NEW k \in Taken, k < i'
                 PROVE  EventSubscribers[k] \in sent'
      OBVIOUS
    <3>1. CASE k = i
      BY <1>6, <3>1 DEF PostNext
    <3>2. CASE k < i
      BY <1>2, <1>6, <2>1, <3>2 DEF PostNext, Counts
    <3> QED BY <1>4, <2>1, <3>1, <3>2
  <2> QED BY <1>2, <1>3, <1>6, <2>5, <2>6 DEF PostNext, Counts, table
<1>7. CASE PostOverrun(t)
  <2>1. lock # NoFd /\ i = MaxSubs /\ num # 0
    BY <1>7, ThreadsOK, MaxSubsOK DEF PostOverrun, InTable, Index, TypeOK
  <2>2. Ahead = {}
    BY <1>4, <2>1, MaxSubsOK DEF Ahead
  <2> QED BY <1>2, <2>1, <2>2, FS_EmptySet DEF Counts
<1>8. CASE PostDone(t)
  BY <1>2, <1>3, <1>8 DEF PostDone, Counts, table
<1> QED BY <1>5, <1>6, <1>7, <1>8 DEF Broadcasting

LEMMA SoundEnding ==
  ASSUME TypeOK, TableSound, NEW t \in Thread,
         Ending(t) \/ (t \in Client /\ Goodbye(t))
  PROVE  TableSound'
<1> SUFFICES ASSUME ~spoiled' PROVE TableSound'
  BY DEF TableSound
<1>1. CASE t \in Client /\ Goodbye(t)
  BY <1>1, SoundAside DEF Goodbye
<1>2. ASSUME NEW f \in Fd \cup {NoFd}, Close(f)
      PROVE  /\ spoiled' = spoiled
             /\ \A g \in Fd : conn[g] = "event" => conn'[g] = "event"
  BY <1>2 DEF Close, TypeOK
<1>3. CASE EndOfFile(t)
  BY <1>2, <1>3, SoundAside DEF EndOfFile, TypeOK
<1>4. CASE RemoveNext(t)
  BY <1>4, SoundAside DEF RemoveNext, table
<1>5. CASE RemoveDone(t)
  BY <1>5, SoundAside DEF RemoveDone
<1>6. CASE ThreadEnds(t)
  BY <1>2, <1>6, SoundAside DEF ThreadEnds, TypeOK
<1> QED BY <1>1, <1>3, <1>4, <1>5, <1>6 DEF Ending

LEMMA SoundNext == TypeOK /\ TableSound /\ [Next]_vars => TableSound'
<1> SUFFICES ASSUME TypeOK, TableSound, [Next]_vars
             PROVE  TableSound'
  OBVIOUS
<1>1. CASE UNCHANGED vars
  BY <1>1, SoundAside DEF vars
<1>2. CASE Next
  BY <1>2, SoundConnecting, SoundBroadcast, SoundEnding DEF Next, Thread
<1> QED BY <1>1, <1>2

LEMMA SoundAlways == Spec => []TableSound
<1> QED BY TypeInit, TypeNext, SoundInit, SoundNext, PTL DEF Spec

(* The table holds open event connections, each of them once, until the    *)
(* end of a session hits one.                                              *)
THEOREM EntriesAreOpen == Spec => []SubscribersOpen
<1>1. TableSound => SubscribersOpen
  BY DEF TableSound, EntriesOpen, SubscribersOpen
<1> QED BY <1>1, SoundAlways, PTL

(* EventNumSubscribers is the number of entries. *)
THEOREM CountIsRight == Spec => []CountMatches
<1>1. TableSound => CountMatches
  BY DEF TableSound, Counts, CountMatches
<1> QED BY <1>1, SoundAlways, PTL

(* The loop of a broadcast, which has no bound of its own, ends in the     *)
(* table.                                                                  *)
THEOREM LoopStaysInTable == Spec => []StaysInTable
<1>1. TableSound => StaysInTable
  BY DEF TableSound, Counts, StaysInTable
<1> QED BY <1>1, SoundAlways, PTL

(* When a broadcast gives its lock back everybody has been sent the event. *)
THEOREM BroadcastReachesAll == Spec => ReachesAll
<1> DEFINE R == lock # NoFd /\ lock' = NoFd /\ ~spoiled
                  => \A k \in Taken : EventSubscribers[k] \in sent
<1>1. TypeOK /\ TableSound /\ [Next]_vars => [R]_vars
  <2> SUFFICES ASSUME TypeOK, TableSound, Next, ~spoiled,
                      lock # NoFd, lock' = NoFd
               PROVE  \A k \in Taken : EventSubscribers[k] \in sent
    BY DEF vars
  <2>1. PICK t \in Thread : PostDone(t)
    BY ThreadsOK DEF Next, Connecting, AcceptRpc, AcceptRpcFails, AcceptEvent, Record,
       RecordFails, Goodbye, Request, PostLock, Broadcasting, PostNext, PostOverrun,
       Ending, EndOfFile, RemoveNext, RemoveDone, ThreadEnds, poster, Thread
  <2>2. Ahead = {}
    BY <2>1, AheadFinite, FS_EmptySet DEF PostDone, TableSound, Counts
  <2>3. \A k \in Taken : k < i
    BY <2>2, TakenFinite, MaxSubsOK DEF Ahead, TypeOK
  <2> QED BY <2>3 DEF TableSound, Counts
<1>2. Spec => [][R]_vars
  BY <1>1, TypeCorrect, SoundAlways, PTL DEF Spec
<1> QED BY <1>2 DEF ReachesAll
=============================================================================
