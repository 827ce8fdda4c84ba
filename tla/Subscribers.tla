---------------------------- MODULE Subscribers ----------------------------
(***************************************************************************)
(* The event channel of the server (src/lib/protocol_server.c): the table  *)
(* of subscribers, the broadcasts over it, and the descriptors of the      *)
(* connections that come and go.                                           *)
(*                                                                         *)
(* A client has two connections: one for RPCs, served by a dispatcher      *)
(* thread of its own, and one for events, which the event-listen thread    *)
(* accepts and records in the table.  Every request may end in a           *)
(* broadcast, under EventSubscribersLock.  A client leaves by a goodbye    *)
(* or by closing its end; then the session-lost handler goes through the   *)
(* table, without the lock, and broadcasts.                                *)
(*                                                                         *)
(* The kernel is modelled by its descriptors: accept returns one that is   *)
(* free, close frees one whoever has it by then.                           *)
(***************************************************************************)
EXTENDS Integers, FiniteSets

CONSTANTS Client,    \* clients; one that has left may come back
          Shell,     \* the thread that reads the operator's commands
          Stray,     \* the dispatcher thread of an accept that failed
          Fd,        \* descriptors the process may have open for clients
          NoFd,      \* -1: an empty entry, and what a failed accept returns
          Requesters, \* the threads whose requests are followed
          MaxSubs    \* PROTO_SERVER_MAX_EVENT_SUBSCRIBERS

Thread == Client \cup {Shell, Stray}
Index == 0..(MaxSubs - 1)

ASSUME MaxSubsOK == MaxSubs \in Nat \ {0}
ASSUME ThreadsOK == /\ Shell \notin Client /\ Stray \notin Client
                    /\ Shell # Stray /\ NoFd \notin Thread
ASSUME RequestersOK == Requesters \subseteq Client \cup {Shell}
ASSUME FdsOK == NoFd \notin Fd

VARIABLES
  EventSubscribers, EventNumSubscribers, EventLastSubscriber,
  conn,      \* what the kernel has each descriptor open for
  rpcFd,     \* the descriptor each dispatcher thread serves
  eventFd,   \* the descriptor the event connection of a client was given
  incoming,  \* the descriptor accepted for events but not yet recorded
  pc,        \* what each thread is doing
  slot,      \* the loop counter of its session-lost handler
  lock,      \* the thread that holds EventSubscribersLock, or NoFd
  i, num,    \* the variables of proto_server_post_event
  sent,      \* history: where the current broadcast has been sent
  crashed,   \* a broadcast has run past the end of the table
  spoiled    \* history: the end of a session has hit another connection

table == <<EventSubscribers, EventNumSubscribers>>
poster == <<lock, i, num, sent>>
vars == <<table, EventLastSubscriber, conn, rpcFd, eventFd, incoming, pc, slot,
          poster, crashed, spoiled>>

Taken == {k \in Index : EventSubscribers[k] # NoFd}

Init ==
  /\ EventSubscribers = [k \in Index |-> NoFd]
  /\ EventNumSubscribers = 0 /\ EventLastSubscriber = 0
  /\ conn = [f \in Fd |-> "free"]
  /\ rpcFd = [t \in Thread |-> NoFd]
  /\ eventFd = [c \in Client |-> NoFd]
  /\ incoming = NoFd
  /\ pc = [t \in Thread |-> IF t = Shell THEN "serving" ELSE "away"]
  /\ slot = [t \in Thread |-> 0]
  /\ lock = NoFd /\ i = 0 /\ num = 0 /\ sent = {}
  /\ crashed = FALSE /\ spoiled = FALSE

----------------------------------------------------------------------------
(* Connections *)

Free == {f \in Fd : conn[f] = "free"}

(* proto_server_rpc_listen accepts a client and starts its thread. *)
AcceptRpc(c) ==
  /\ ~crashed /\ pc[c] = "away"
  /\ \E f \in Free : /\ conn' = [conn EXCEPT ![f] = "rpc"]
                      /\ rpcFd' = [rpcFd EXCEPT ![c] = f]
  /\ eventFd' = [eventFd EXCEPT ![c] = NoFd]
  /\ pc' = [pc EXCEPT ![c] = "serving"]
  /\ UNCHANGED <<table, EventLastSubscriber, incoming, slot, poster, crashed,
                 spoiled>>

(* Its connfd is unsigned, so a failed accept starts a thread as well, for *)
(* descriptor -1.                                                          *)
AcceptRpcFails ==
  /\ ~crashed /\ pc[Stray] = "away" /\ Free = {}
  /\ pc' = [pc EXCEPT ![Stray] = "serving"]
  /\ UNCHANGED <<table, EventLastSubscriber, conn, rpcFd, eventFd, incoming, slot,
                 poster, crashed, spoiled>>

(* proto_server_event_listen accepts the second connection of a client.    *)
(* Its test for a full table, MAX - num < 0, is never true.                *)
AcceptEvent(c) ==
  /\ ~crashed /\ pc[c] # "away" /\ eventFd[c] = NoFd /\ incoming = NoFd
  /\ \E f \in Free : /\ conn' = [conn EXCEPT ![f] = "event"]
                      /\ eventFd' = [eventFd EXCEPT ![c] = f]
                      /\ incoming' = f
  /\ UNCHANGED <<table, EventLastSubscriber, rpcFd, pc, slot, poster, crashed,
                 spoiled>>

(* The entry proto_server_record_event_subscriber chooses: the last one it *)
(* gave out if that is free, else the first free one.                      *)
Chosen_Last == EventLastSubscriber
Chosen ==
  IF EventLastSubscriber \in Index \ Taken THEN EventLastSubscriber
  ELSE CHOOSE k \in Index \ Taken : \A j \in Index \ Taken : k <= j

(* The listener is done with the connection and accepts the next one. *)
Listens_Twice == UNCHANGED incoming
Listens == incoming' = NoFd

Record ==
  /\ ~crashed /\ incoming # NoFd /\ lock = NoFd /\ Taken # Index
  /\ EventSubscribers' = [EventSubscribers EXCEPT ![Chosen] = incoming]
  /\ EventNumSubscribers' = EventNumSubscribers + 1
  /\ EventLastSubscriber' = Chosen
  /\ Listens
  /\ UNCHANGED <<conn, rpcFd, eventFd, pc, slot, poster, crashed, spoiled>>

(* No entry is free: the connection stays conn, unrecorded, and            *)
(* EventLastSubscriber is set from a variable that was never initialised.  *)
(* MaxSubs stands for every value that is no index.                        *)
RecordFails ==
  /\ ~crashed /\ incoming # NoFd /\ lock = NoFd /\ Taken = Index
  /\ EventLastSubscriber' \in Index \cup {MaxSubs}
  /\ Listens
  /\ UNCHANGED <<table, conn, rpcFd, eventFd, pc, slot, poster, crashed, spoiled>>

----------------------------------------------------------------------------
(* proto_server_post_event *)

(* A request, or a command of the operator, whose handler broadcasts. *)
Request(t) ==
  /\ ~crashed /\ t \in Requesters /\ pc[t] = "serving"
  /\ pc' = [pc EXCEPT ![t] = "post"]
  /\ UNCHANGED <<table, EventLastSubscriber, conn, rpcFd, eventFd, incoming, slot,
                 poster, crashed, spoiled>>

Posting == {"post", "post after goodbye", "post after loss"}

(* How many subscribers its loop will look for. *)
Counted_LastIndex == EventLastSubscriber
Counted_TooEarly == EventNumSubscribers + (IF incoming # NoFd THEN 1 ELSE 0)
Counted == EventNumSubscribers

PostLock(t) ==
  /\ ~crashed /\ pc[t] \in Posting /\ lock = NoFd
  /\ lock' = t /\ i' = 0 /\ num' = Counted /\ sent' = {}
  /\ UNCHANGED <<table, EventLastSubscriber, conn, rpcFd, eventFd, incoming, pc,
                 slot, crashed, spoiled>>

(* One turn of its loop, which counts down the subscribers it finds.  The  *)
(* send never reports an error, so nobody is removed here.                 *)
InTable_OneMore == i <= MaxSubs
InTable == i \in Index

PostNext(t) ==
  /\ ~crashed /\ lock = t /\ num # 0 /\ InTable
  /\ IF i \in Taken
     THEN num' = num - 1 /\ sent' = sent \cup {EventSubscribers[i]}
     ELSE UNCHANGED <<num, sent>>
  /\ i' = i + 1
  /\ UNCHANGED <<table, EventLastSubscriber, conn, rpcFd, eventFd, incoming, pc,
                 slot, lock, crashed, spoiled>>

(* Subscribers it counted are missing: it reads on after the table. *)
PostOverrun(t) ==
  /\ ~crashed /\ lock = t /\ num # 0 /\ ~InTable
  /\ crashed' = TRUE
  /\ UNCHANGED <<table, EventLastSubscriber, conn, rpcFd, eventFd, incoming, pc,
                 slot, poster, spoiled>>

PostDone(t) ==
  /\ ~crashed /\ lock = t /\ num = 0
  /\ lock' = NoFd /\ i' = 0 /\ sent' = {} /\ UNCHANGED num
  /\ pc' = [pc EXCEPT ![t] = CASE pc[t] = "post" -> "serving"
                               [] pc[t] = "post after goodbye" -> "lost"
                               [] OTHER -> "closing"]
  /\ slot' = [slot EXCEPT ![t] = 0]
  /\ UNCHANGED <<table, EventLastSubscriber, conn, rpcFd, eventFd, incoming, crashed,
                 spoiled>>

----------------------------------------------------------------------------
(* The end of a session *)

(* Closing -1, or a descriptor that is closed already, does nothing. *)
Close(f) == /\ conn' = [g \in Fd |-> IF g = f THEN "free" ELSE conn[g]]
            /\ spoiled' = (spoiled \/ \E g \in Fd : g = f /\ conn[g] = "event")

(* A goodbye runs the session-lost handler as its request handler; the     *)
(* dispatcher then ends and runs it once more.                             *)
Goodbye(c) ==
  /\ ~crashed /\ pc[c] = "serving"
  /\ pc' = [pc EXCEPT ![c] = "goodbye"]
  /\ slot' = [slot EXCEPT ![c] = 0]
  /\ UNCHANGED <<table, EventLastSubscriber, conn, rpcFd, eventFd, incoming, poster,
                 crashed, spoiled>>

(* proto_session_rcv_msg reads nothing more and closes the descriptor, the *)
(* first time; the dispatcher closes it again at its end.                  *)
EndOfFile(t) ==
  /\ ~crashed /\ t # Shell /\ pc[t] = "serving"
  /\ Close(rpcFd[t])
  /\ pc' = [pc EXCEPT ![t] = "lost"]
  /\ slot' = [slot EXCEPT ![t] = 0]
  /\ UNCHANGED <<table, EventLastSubscriber, rpcFd, eventFd, incoming, poster,
                 crashed>>

(* One turn of the handler's loop: it compares the RPC descriptor with the *)
(* descriptors of event connections, or -1 with empty entries.             *)
RemoveNext(t) ==
  /\ ~crashed /\ pc[t] \in {"goodbye", "lost"} /\ slot[t] \in Index
  /\ IF EventSubscribers[slot[t]] = rpcFd[t]
     THEN /\ EventSubscribers' = [EventSubscribers EXCEPT ![slot[t]] = NoFd]
          /\ EventNumSubscribers' = EventNumSubscribers - 1
          /\ spoiled' = TRUE
     ELSE UNCHANGED <<table, spoiled>>
  /\ slot' = [slot EXCEPT ![t] = slot[t] + 1]
  /\ UNCHANGED <<EventLastSubscriber, conn, rpcFd, eventFd, incoming, pc, poster,
                 crashed>>

RemoveDone(t) ==
  /\ ~crashed /\ pc[t] \in {"goodbye", "lost"} /\ slot[t] \notin Index
  /\ pc' = [pc EXCEPT ![t] = IF pc[t] = "goodbye" THEN "post after goodbye"
                             ELSE "post after loss"]
  /\ UNCHANGED <<table, EventLastSubscriber, conn, rpcFd, eventFd, incoming, slot,
                 poster, crashed, spoiled>>

(* The dispatcher closes the descriptor and its thread ends. *)
ThreadEnds(t) ==
  /\ ~crashed /\ pc[t] = "closing"
  /\ Close(rpcFd[t])
  /\ pc' = [pc EXCEPT ![t] = "away"]
  /\ rpcFd' = [rpcFd EXCEPT ![t] = NoFd]
  /\ UNCHANGED <<table, EventLastSubscriber, eventFd, incoming, slot, poster, crashed>>

----------------------------------------------------------------------------
Connecting == \/ \E c \in Client : AcceptRpc(c) \/ AcceptEvent(c)
              \/ AcceptRpcFails \/ Record \/ RecordFails

Broadcasting(t) == PostNext(t) \/ PostOverrun(t) \/ PostDone(t)

Ending(t) == EndOfFile(t) \/ RemoveNext(t) \/ RemoveDone(t) \/ ThreadEnds(t)

Next == \/ Connecting
        \/ \E c \in Client : Goodbye(c)
        \/ \E t \in Thread :
             Request(t) \/ PostLock(t) \/ Broadcasting(t) \/ Ending(t)

Spec == Init /\ [][Next]_vars

----------------------------------------------------------------------------
(* Properties *)

(* Every variable has the type its declaration in the code gives it; the   *)
(* counters stay in the range the table allows.                            *)
TypeOK ==
  /\ EventSubscribers \in [Index -> Fd \cup {NoFd}]
  /\ EventNumSubscribers \in Int
  /\ EventLastSubscriber \in 0..MaxSubs
  /\ conn \in [Fd -> {"free", "rpc", "event"}]
  /\ rpcFd \in [Thread -> Fd \cup {NoFd}]
  /\ eventFd \in [Client -> Fd \cup {NoFd}]
  /\ incoming \in Fd \cup {NoFd}
  /\ pc \in [Thread -> {"away", "serving", "goodbye", "lost", "closing"} \cup Posting]
  /\ slot \in [Thread -> 0..MaxSubs]
  /\ lock \in Thread \cup {NoFd}
  /\ i \in 0..MaxSubs /\ num \in Int /\ sent \subseteq Fd
  /\ crashed \in BOOLEAN /\ spoiled \in BOOLEAN

(* As long as no session end has hit another connection, the table holds   *)
(* event connections that are conn, each of them once: the descriptors of  *)
(* the RPC connections come and go around it.                              *)
SubscribersOpen ==
  ~spoiled => \A k \in Taken :
                 /\ conn[EventSubscribers[k]] = "event"
                 /\ \A j \in Taken : EventSubscribers[j] = EventSubscribers[k] => j = k

(* The counter agrees with the table, through records into gaps, failed    *)
(* records and departures.                                                 *)
CountMatches == ~spoiled => EventNumSubscribers = Cardinality(Taken)

(* A broadcast, which stops by counting, never reads past the table, while *)
(* sessions end and connections wait to be recorded beside it.             *)
StaysInTable == ~spoiled => ~crashed

(* A broadcast that ends has been sent to everybody in the table. *)
ReachesAll ==
  [][lock # NoFd /\ lock' = NoFd /\ ~spoiled
       => \A k \in Taken : EventSubscribers[k] \in sent]_vars

(* "Remove the subscriber": when the handler's loop over the table is over  *)
(* the event connection of the client that left is not in it.              *)
SubscriberRemoved ==
  [][\A c \in Client :
       pc[c] = "lost" /\ pc'[c] # "lost" /\ eventFd[c] # NoFd
         => \A k \in Taken : EventSubscribers[k] # eventFd[c]]_vars
=============================================================================
