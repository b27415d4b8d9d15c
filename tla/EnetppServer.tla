---------------------------- MODULE EnetppServer ----------------------------
(***************************************************************************)
(* enetpp::server as EnetSocket uses it.  Three threads share one server:  *)
(* the application calls its functions, the consumer (run_server) handles  *)
(* its events and stops it, the worker (run_in_thread) owns the ENetHost.  *)
(* A step of a thread is what it does between two accesses to what another *)
(* thread may change: a section under a mutex is one step, and so is one   *)
(* turn of a loop that looks at an unprotected flag.                       *)
(*                                                                         *)
(* ENet is used through PeerStates, the rules that EnetHost implements.    *)
(* A client is the number init_client_func gives it as uid (external: the  *)
(* function belongs to the user of the server, who is trusted to make the  *)
(* numbers unique); it stands for the object and for the pointers to it.   *)
(***************************************************************************)
EXTENDS Integers, Sequences, FiniteSets, SequencesExt, PeerStates

CONSTANTS
  PeerCount,               \* params._max_client_count
  Budget                   \* bound: how often each call or outside event
                           \* happens, [Kinds -> Nat]

\* tryConnect, tryDisconnect, send_packet_to, closeConnectingPeer, clear_peers;
\* a connection and a packet from outside.
Kinds == {"connect", "disconnect", "send", "close", "clear", "accept", "receive"}

ASSUME ServerAssumption == PeerCount \in Nat \ {0} /\ Budget \in [Kinds -> Nat]

Slots   == 0 .. PeerCount - 1
None    == 0                                   \* nullptr
Clients == 1 .. Budget["connect"] + Budget["accept"]

VARIABLES
  left,                    \* what is left of Budget
  \* The worker's own data.
  wpc,                     \* where the worker is
  peers,                   \* the ENetHost: state and data of each peer
  threadPeerMap,           \* _thread_peer_map: uid to slot
  connectingPeers,         \* _connecting_peers
  created,                 \* clients created so far: next_uid
  \* Shared data.
  packetQueue,             \* _packet_queue: how many packets
  tryConnectQueue,         \* _try_connect_queue: how many addresses
  tryDisconnectQueue,      \* _try_disconnect_queue
  eventQueue,              \* _event_queue
  connectedClients,        \* _connected_clients
  closeConnecting,         \* _is_close_connecting_peer
  clearPeers,              \* _is_clear_peers
  shouldExit,              \* _should_exit_thread
  socketExit,              \* EnetSocket::s_exit
  \* The consumer's own data.
  cpc,                     \* where the consumer is
  eventQueueCopy,          \* _event_queue_copy
  \* The application's.
  apc,                     \* where the application is in clear_peers
  \* The heap.
  freed                    \* clients deleted, a bag: how many times each

worker   == <<wpc, peers, threadPeerMap, connectingPeers, created>>
consumer == <<cpc, eventQueueCopy>>
queues   == <<packetQueue, tryConnectQueue, tryDisconnectQueue, eventQueue>>
flags    == <<closeConnecting, clearPeers, shouldExit, socketExit>>
vars     == <<left, worker, queues, connectedClients, flags, consumer, apc, freed>>

Take(kind) ==
  /\ left[kind] > 0
  /\ left' = [left EXCEPT ![kind] = @ - 1]

Event(type, client) == [type |-> type, client |-> client]

\* delete of clients, a bag: how many times each.
Delete(clients) == freed' = [c \in Clients |-> freed[c] + clients[c]]

\* delete_all_connected_clients deletes those of the list.
Listed(clients) ==
  [c \in Clients |-> Cardinality({i \in DOMAIN clients : clients[i] = c})]

\* Mutant: the client of every event is deleted.
Unhandled_AllEvents(events) ==
  [c \in Clients |-> Cardinality({i \in DOMAIN events : events[i].client = c})]

\* destroy_all_queued_events deletes the clients whose CONNECT nobody handled.
Unhandled(events) ==
  [c \in Clients |->
     Cardinality({i \in DOMAIN events : events[i] = Event("CONNECT", c)})]

-----------------------------------------------------------------------------
(* The calls.  The application makes them until it waits in EnetSocket::close;  *)
(* the consumer makes them too, in the callbacks of consume_events and when a   *)
(* send task or ICE times out.                                                  *)

Calling == cpc \in {"consume", "erase"}

\* The calls that only the application makes.
Ready == apc = "ready" /\ ~ socketExit

\* The worker pops these two queues under _packet_queue_mutex, but the push is
\* under no mutex: one that meets the worker's loop may be lost.
Raced(pc, queue) == IF wpc = pc THEN {queue} ELSE {}

TryConnect ==
  /\ Calling /\ Take("connect")
  /\ tryConnectQueue' \in {tryConnectQueue + 1} \cup Raced("connect", tryConnectQueue)
  /\ UNCHANGED <<worker, packetQueue, tryDisconnectQueue, eventQueue,
                 connectedClients, flags, consumer, apc, freed>>

TryDisconnect ==
  /\ Calling /\ Take("disconnect")
  /\ \E uid \in 1 .. created :
       tryDisconnectQueue' \in {Append(tryDisconnectQueue, uid)}
                                \cup Raced("disconnect", tryDisconnectQueue)
  /\ UNCHANGED <<worker, packetQueue, tryConnectQueue, eventQueue,
                 connectedClients, flags, consumer, apc, freed>>

SendPacketTo ==
  /\ Calling /\ Take("send")
  /\ packetQueue' = packetQueue + 1
  /\ UNCHANGED <<worker, tryConnectQueue, tryDisconnectQueue, eventQueue,
                 connectedClients, flags, consumer, apc, freed>>

CloseConnectingPeer ==
  /\ Calling /\ Take("close")
  /\ closeConnecting' = TRUE
  /\ UNCHANGED <<worker, queues, connectedClients, clearPeers, shouldExit,
                 socketExit, consumer, apc, freed>>

\* EnetSocket::close sets s_exit and waits for the consumer.
Close ==
  /\ Ready
  /\ socketExit' = TRUE
  /\ UNCHANGED <<left, worker, queues, connectedClients, closeConnecting,
                 clearPeers, shouldExit, consumer, apc, freed>>

\* clear_peers: the flag, then a section for each container.
ClearPeers ==
  /\ Ready /\ Take("clear")
  /\ clearPeers' = TRUE
  /\ apc' = "packets"
  /\ UNCHANGED <<worker, queues, connectedClients, closeConnecting, shouldExit,
                 socketExit, consumer, freed>>

ClearPackets ==
  /\ apc = "packets"
  /\ packetQueue' = 0
  /\ apc' = "events"
  /\ UNCHANGED <<left, worker, tryConnectQueue, tryDisconnectQueue, eventQueue,
                 connectedClients, flags, consumer, freed>>

ClearEvents ==
  /\ apc = "events"
  /\ eventQueue' = <<>>
  /\ Delete(Unhandled(eventQueue))
  /\ apc' = "clients"
  /\ UNCHANGED <<left, worker, packetQueue, tryConnectQueue, tryDisconnectQueue,
                 connectedClients, flags, consumer>>

ClearClients ==
  /\ apc = "clients"
  /\ connectedClients' = <<>>
  /\ Delete(Listed(connectedClients))
  /\ apc' = "ready"
  /\ UNCHANGED <<left, worker, queues, flags, consumer>>

-----------------------------------------------------------------------------
(* The worker: run_in_thread, one turn of its loop after the other. *)

NoMap == [c \in {} |-> None]

FreePeer == [state |-> "DISCONNECTED", data |-> None]

\* enet_peer_disconnect_now resets the peer; `data` is not ENet's to reset.
Dropped(ps, slots) ==
  [p \in Slots |-> IF p \in slots THEN [ps[p] EXCEPT !.state = "DISCONNECTED"]
                   ELSE ps[p]]

Forgotten(ps, slots) ==
  [p \in Slots |-> IF p \in slots THEN [ps[p] EXCEPT !.data = None] ELSE ps[p]]

Mapped == Range(threadPeerMap)

DisconnectAllPeers ==
  /\ peers' = Forgotten(Dropped(peers, Mapped \cup ToSet(connectingPeers)), Mapped)
  /\ threadPeerMap' = NoMap
  /\ connectingPeers' = <<>>

Unmap(uid) == [c \in DOMAIN threadPeerMap \ {uid} |-> threadPeerMap[c]]

WorkerClear ==
  /\ wpc = "clear"
  /\ clearPeers
  /\ DisconnectAllPeers
  /\ wpc' = "cleared"
  /\ UNCHANGED <<left, created, queues, connectedClients, flags, consumer, apc, freed>>

\* The flag is reset only after the peers are; then comes the test for the exit.
WorkerExit ==
  /\ wpc = (IF clearPeers THEN "cleared" ELSE "clear")
  /\ clearPeers' = FALSE
  /\ IF shouldExit
     THEN DisconnectAllPeers /\ wpc' = "done"
     ELSE wpc' = "close" /\ UNCHANGED <<peers, threadPeerMap, connectingPeers>>
  /\ UNCHANGED <<left, created, queues, connectedClients, closeConnecting,
                 shouldExit, socketExit, consumer, apc, freed>>

WorkerClose ==
  /\ wpc = "close"
  /\ wpc' = "connect"
  /\ closeConnecting' = FALSE
  /\ IF closeConnecting
     THEN /\ peers' = Dropped(peers, ToSet(connectingPeers))
          /\ connectingPeers' = <<>>
     ELSE UNCHANGED <<peers, connectingPeers>>
  /\ UNCHANGED <<left, threadPeerMap, created, queues, connectedClients, clearPeers,
                 shouldExit, socketExit, consumer, apc, freed>>

FreeSlots == {p \in Slots : peers[p].state = "DISCONNECTED"}

\* Mutant: lists the peer after the one that connects.
WorkerConnect_OffByOne ==
  /\ wpc = "connect"
  /\ IF tryConnectQueue = 0
     THEN wpc' = "disconnect" /\ UNCHANGED <<peers, connectingPeers, tryConnectQueue>>
     ELSE /\ wpc' = wpc
          /\ tryConnectQueue' = tryConnectQueue - 1
          /\ \/ FreeSlots = {} /\ UNCHANGED <<peers, connectingPeers>>
             \/ \E p \in FreeSlots :
                  /\ \A q \in FreeSlots : p =< q
                  /\ peers' = [peers EXCEPT ![p].state = "CONNECTING"]
                  /\ connectingPeers' = Append(connectingPeers, p + 1)
  /\ UNCHANGED <<left, threadPeerMap, created, packetQueue, tryDisconnectQueue,
                 eventQueue, connectedClients, flags, consumer, apc, freed>>

\* One address of the queue: enet_host_connect takes the first free peer, if any.
WorkerConnect ==
  /\ wpc = "connect"
  /\ IF tryConnectQueue = 0
     THEN wpc' = "disconnect" /\ UNCHANGED <<peers, connectingPeers, tryConnectQueue>>
     ELSE /\ wpc' = wpc
          /\ tryConnectQueue' = tryConnectQueue - 1
          /\ \/ FreeSlots = {} /\ UNCHANGED <<peers, connectingPeers>>
             \/ \E p \in FreeSlots :
                  /\ \A q \in FreeSlots : p =< q
                  /\ peers' = [peers EXCEPT ![p].state = "CONNECTING"]
                  /\ connectingPeers' = Append(connectingPeers, p)
  /\ UNCHANGED <<left, threadPeerMap, created, packetQueue, tryDisconnectQueue,
                 eventQueue, connectedClients, flags, consumer, apc, freed>>

\* Mutant: the data of the peer is not reset.
WorkerDisconnect_KeepsData ==
  /\ wpc = "disconnect"
  /\ IF tryDisconnectQueue = <<>>
     THEN wpc' = "send" /\ UNCHANGED <<peers, threadPeerMap, tryDisconnectQueue>>
     ELSE LET uid == Head(tryDisconnectQueue) IN
          /\ wpc' = wpc
          /\ tryDisconnectQueue' = Tail(tryDisconnectQueue)
          /\ IF uid \in DOMAIN threadPeerMap
             THEN LET p == {threadPeerMap[uid]} IN
                  /\ peers' = Dropped(peers, p)
                  /\ threadPeerMap' = Unmap(uid)
             ELSE UNCHANGED <<peers, threadPeerMap>>
  /\ UNCHANGED <<left, connectingPeers, created, packetQueue, tryConnectQueue,
                 eventQueue, connectedClients, flags, consumer, apc, freed>>

WorkerDisconnect ==
  /\ wpc = "disconnect"
  /\ IF tryDisconnectQueue = <<>>
     THEN wpc' = "send" /\ UNCHANGED <<peers, threadPeerMap, tryDisconnectQueue>>
     ELSE LET uid == Head(tryDisconnectQueue) IN
          /\ wpc' = wpc
          /\ tryDisconnectQueue' = Tail(tryDisconnectQueue)
          /\ IF uid \in DOMAIN threadPeerMap
             THEN LET p == {threadPeerMap[uid]} IN
                  /\ peers' = Forgotten(Dropped(peers, p), p)
                  /\ threadPeerMap' = Unmap(uid)
             ELSE UNCHANGED <<peers, threadPeerMap>>
  /\ UNCHANGED <<left, connectingPeers, created, packetQueue, tryConnectQueue,
                 eventQueue, connectedClients, flags, consumer, apc, freed>>

\* send_queued_packets_in_thread.  To whom a packet goes is MapAgrees' business.
WorkerSend ==
  /\ wpc = "send"
  /\ wpc' = "service"
  /\ packetQueue' = 0
  /\ UNCHANGED <<left, peers, threadPeerMap, connectingPeers, created,
                 tryConnectQueue, tryDisconnectQueue, eventQueue,
                 connectedClients, flags, consumer, apc, freed>>

\* enet_host_service: any number of datagrams and timeouts.
WorkerService ==
  /\ wpc = "service"
  /\ \E p \in Slots, s \in PeerStates :
       /\ <<peers[p].state, s>> \in Served
       /\ IF s = "PENDING" THEN Take("accept") ELSE UNCHANGED left
       /\ peers' = [peers EXCEPT ![p].state = s]
  /\ UNCHANGED <<wpc, threadPeerMap, connectingPeers, created, queues,
                 connectedClients, flags, consumer, apc, freed>>

\* After enet_host_service returns come the events.
Polling == wpc \in {"service", "events"} /\ wpc' = "events"

\* The first entry for the peer, if there is one.
EraseFirst(p) ==
  IF p \in ToSet(connectingPeers)
  THEN \E i \in DOMAIN connectingPeers :
         /\ connectingPeers[i] = p
         /\ \A j \in 1 .. i - 1 : connectingPeers[j] # p
         /\ connectingPeers' = RemoveAt(connectingPeers, i)
  ELSE UNCHANGED connectingPeers

\* The events of enet_host_check_events.
ConnectEvent(p) ==
  LET client == created + 1 IN
  /\ Polling
  /\ peers[p].state \in {"PENDING", "SUCCEEDED"}
  /\ created' = client
  /\ EraseFirst(p)
  /\ peers' = [peers EXCEPT ![p] = [state |-> Polled[@.state], data |-> client]]
  /\ threadPeerMap' = [c \in DOMAIN threadPeerMap \cup {client} |->
                         IF c = client THEN p ELSE threadPeerMap[c]]
  /\ eventQueue' = Append(eventQueue, Event("CONNECT", client))
  /\ UNCHANGED <<left, packetQueue, tryConnectQueue, tryDisconnectQueue,
                 connectedClients, flags, consumer, apc, freed>>

\* Mutant: the data of the peer is not reset.
DisconnectEvent_KeepsData(p) ==
  LET client == peers[p].data IN
  /\ Polling
  /\ peers[p].state = "ZOMBIE"
  /\ peers' = [peers EXCEPT ![p].state = "DISCONNECTED"]
  /\ IF client # None
     THEN /\ threadPeerMap' = Unmap(client)
          /\ eventQueue' = Append(eventQueue, Event("DISCONNECT", client))
     ELSE UNCHANGED <<threadPeerMap, eventQueue>>
  /\ UNCHANGED <<left, connectingPeers, created, packetQueue, tryConnectQueue,
                 tryDisconnectQueue, connectedClients, flags, consumer, apc, freed>>

DisconnectEvent(p) ==
  LET client == peers[p].data IN
  /\ Polling
  /\ peers[p].state = "ZOMBIE"
  /\ peers' = [peers EXCEPT ![p] = FreePeer]
  /\ IF client # None
     THEN /\ threadPeerMap' = Unmap(client)
          /\ eventQueue' = Append(eventQueue, Event("DISCONNECT", client))
     ELSE UNCHANGED <<threadPeerMap, eventQueue>>
  /\ UNCHANGED <<left, connectingPeers, created, packetQueue, tryConnectQueue,
                 tryDisconnectQueue, connectedClients, flags, consumer, apc, freed>>

ReceiveEvent(p) ==
  /\ Polling
  /\ peers[p].state = "CONNECTED"
  /\ Take("receive")
  /\ eventQueue' = IF peers[p].data # None
                   THEN Append(eventQueue, Event("RECEIVE", peers[p].data))
                   ELSE eventQueue
  /\ UNCHANGED <<peers, threadPeerMap, connectingPeers, created, packetQueue,
                 tryConnectQueue, tryDisconnectQueue, connectedClients, flags,
                 consumer, apc, freed>>

\* An incoming connection may wait for its last acknowledgement; every other
\* event is polled before the loop turns.
WorkerPolled ==
  /\ wpc \in {"service", "events"}
  /\ \A p \in Slots : peers[p].state \notin {"SUCCEEDED", "ZOMBIE"}
  /\ wpc' = "clear"
  /\ UNCHANGED <<left, peers, threadPeerMap, connectingPeers, created, queues,
                 connectedClients, flags, consumer, apc, freed>>

-----------------------------------------------------------------------------
(* The consumer: the loop of EnetSocket::run_server, and consume_events. *)

\* Mutant: the queue is copied and not emptied.
ConsumeEvents_NotSwapped ==
  /\ cpc = "consume"
  /\ eventQueueCopy = <<>>
  /\ eventQueueCopy' = eventQueue
  /\ UNCHANGED eventQueue
  /\ UNCHANGED <<left, worker, packetQueue, tryConnectQueue, tryDisconnectQueue,
                 connectedClients, flags, cpc, apc, freed>>

ConsumeEvents ==
  /\ cpc = "consume"
  /\ eventQueueCopy = <<>>
  /\ eventQueueCopy' = eventQueue
  /\ eventQueue' = <<>>
  /\ UNCHANGED <<left, worker, packetQueue, tryConnectQueue, tryDisconnectQueue,
                 connectedClients, flags, cpc, apc, freed>>

Current(type) ==
  /\ cpc = "consume"
  /\ eventQueueCopy # <<>>
  /\ Head(eventQueueCopy).type = type

OnClientConnected ==
  /\ Current("CONNECT")
  /\ connectedClients' = Append(connectedClients, Head(eventQueueCopy).client)
  /\ eventQueueCopy' = Tail(eventQueueCopy)
  /\ UNCHANGED <<left, worker, queues, flags, cpc, apc, freed>>

OnClientDataReceived ==
  /\ Current("RECEIVE")
  /\ eventQueueCopy' = Tail(eventQueueCopy)
  /\ UNCHANGED <<left, worker, queues, connectedClients, flags, cpc, apc, freed>>

\* The client is looked up without the mutex and erased under it later.
OnClientDisconnected ==
  /\ Current("DISCONNECT")
  /\ Head(eventQueueCopy).client \in ToSet(connectedClients)
  /\ cpc' = "erase"
  /\ UNCHANGED <<left, worker, queues, connectedClients, flags, eventQueueCopy,
                 apc, freed>>

EraseClient ==
  /\ cpc = "erase"
  /\ cpc' = "consume"
  /\ connectedClients' = RemoveFirst(connectedClients, Head(eventQueueCopy).client)
  /\ Delete(Listed(<<Head(eventQueueCopy).client>>))
  /\ eventQueueCopy' = Tail(eventQueueCopy)
  /\ UNCHANGED <<left, worker, queues, flags, apc>>

\* Mutant: the worker is not told.
CheckExit_NotTold ==
  /\ cpc = "consume"
  /\ eventQueueCopy = <<>>
  /\ socketExit
  /\ cpc' = "join"
  /\ UNCHANGED shouldExit
  /\ UNCHANGED <<left, worker, queues, connectedClients, closeConnecting, clearPeers,
                 socketExit, eventQueueCopy, apc, freed>>

\* Back in run_server: stop_listening once s_exit is set.  The flag is neither
\* atomic nor under a mutex, so it may be seen a turn late.
CheckExit ==
  /\ cpc = "consume"
  /\ eventQueueCopy = <<>>
  /\ socketExit
  /\ cpc' = "join"
  /\ shouldExit' = TRUE
  /\ UNCHANGED <<left, worker, queues, connectedClients, closeConnecting, clearPeers,
                 socketExit, eventQueueCopy, apc, freed>>

\* The worker has ended: destroy_all_queued_packets, destroy_all_queued_events and
\* delete_all_connected_clients meet nobody.
StopListening ==
  /\ cpc = "join"
  /\ wpc = "done"
  /\ cpc' = "done"
  /\ packetQueue' = 0
  /\ eventQueue' = <<>>
  /\ connectedClients' = <<>>
  /\ LET unhandled == Unhandled(eventQueue)
         listed    == Listed(connectedClients)
     IN Delete([c \in Clients |-> unhandled[c] + listed[c]])
  /\ UNCHANGED <<left, worker, tryConnectQueue, tryDisconnectQueue, flags,
                 eventQueueCopy, apc>>

-----------------------------------------------------------------------------

Init ==
  /\ left = Budget
  /\ wpc = "clear"
  /\ peers = [p \in Slots |-> FreePeer]
  /\ threadPeerMap = NoMap
  /\ connectingPeers = <<>>
  /\ created = 0
  /\ packetQueue = 0
  /\ tryConnectQueue = 0
  /\ tryDisconnectQueue = <<>>
  /\ eventQueue = <<>>
  /\ connectedClients = <<>>
  /\ closeConnecting = FALSE
  /\ clearPeers = FALSE
  /\ shouldExit = FALSE
  /\ socketExit = FALSE
  /\ cpc = "consume"
  /\ eventQueueCopy = <<>>
  /\ apc = "ready"
  /\ freed = [c \in Clients |-> 0]

Worker ==
  \/ WorkerExit \/ WorkerClose \/ WorkerConnect \/ WorkerDisconnect
  \/ WorkerSend \/ WorkerPolled
  \/ \E p \in Slots : ConnectEvent(p) \/ DisconnectEvent(p)

Consumer ==
  \/ ConsumeEvents \/ OnClientConnected \/ OnClientDataReceived
  \/ OnClientDisconnected \/ EraseClient \/ CheckExit \/ StopListening

Application ==
  \/ TryConnect \/ TryDisconnect \/ SendPacketTo \/ CloseConnectingPeer \/ Close

Outside == WorkerService \/ \E p \in Slots : ReceiveEvent(p)

Next == Worker \/ Consumer \/ Application \/ Outside

Spec == Init /\ [][Next]_vars

\* Both loops go on: the threads are scheduled and none holds a mutex for long.
FairSpec == Spec /\ WF_vars(Worker) /\ WF_vars(Consumer)

\* The server with an application that also calls clear_peers.
Clearing ==
  ClearPeers \/ ClearPackets \/ ClearEvents \/ ClearClients \/ WorkerClear

ClearSpec == Init /\ [][Next \/ Clearing]_vars

-----------------------------------------------------------------------------
(* Properties. *)

Alive == {c \in 1 .. created : freed[c] = 0}

\* The queues and lists hold slots and clients that exist, and init_client_func is
\* called no more often than there are connections.
TypeOK ==
  /\ left \in [Kinds -> Nat]
  /\ wpc \in {"clear", "cleared", "close", "connect", "disconnect", "send",
              "service", "events", "done"}
  /\ peers \in [Slots -> [state : PeerStates, data : {None} \cup Clients]]
  /\ connectingPeers \in Seq(Slots)
  /\ created \in 0 .. Cardinality(Clients)
  /\ packetQueue \in Nat
  /\ tryConnectQueue \in Nat
  /\ tryDisconnectQueue \in Seq(Clients)
  /\ connectedClients \in Seq(Clients)
  /\ cpc \in {"consume", "erase", "join", "done"}
  /\ apc \in {"ready", "packets", "events", "clients"}
  /\ freed \in [Clients -> Nat]

\* The events that the consumer has still to handle.
Pending == eventQueueCopy \o eventQueue

Connects == {i \in DOMAIN Pending : Pending[i].type = "CONNECT"}

\* Every client that was created and not deleted has exactly one owner, the list
\* of connected clients or the CONNECT event that is on its way there, and no
\* client is deleted twice: what the two threads hand each other through the
\* queue is neither leaked nor freed by both.
OwnedOnce ==
  /\ \A c \in Clients : freed[c] =< 1
  /\ \A i, j \in DOMAIN connectedClients :
       connectedClients[i] = connectedClients[j] => i = j
  /\ \A i, j \in Connects : Pending[i].client = Pending[j].client => i = j
  /\ LET coming == {Pending[i].client : i \in Connects} IN
     /\ ToSet(connectedClients) \cap coming = {}
     /\ ToSet(connectedClients) \cup coming = Alive

\* No pointer to a deleted client is left where a thread will follow it: in the
\* worker's peers, in an event, in the list that isPeerConnected reads.
NoneDangling ==
  /\ \A p \in Slots : peers[p].data \in Alive \cup {None}
  /\ \A i \in DOMAIN Pending : Pending[i].client \in Alive

\* _thread_peer_map and the data of the peers say the same, of peers that are up
\* or about to be reported as gone: so a packet for a client is sent to the
\* peer of that client although slots are reused (server.h:41), and the asserts
\* of server.h:431, 446 and 447 hold.
MapAgrees ==
  /\ \A uid \in DOMAIN threadPeerMap : peers[threadPeerMap[uid]].data = uid
  /\ \A p \in Slots : peers[p].data # None =>
       /\ peers[p].data \in DOMAIN threadPeerMap
       /\ threadPeerMap[peers[p].data] = p
       /\ peers[p].state \in {"CONNECTED", "LEAVING", "ZOMBIE"}

\* The consumer sees the events of a client in order: the CONNECT once and first,
\* nothing after the DISCONNECT, and it has the client when it handles what comes
\* after the CONNECT (the assert of server.h:175).
EventsInOrder ==
  \A i \in DOMAIN Pending :
    LET client == Pending[i].client IN
    /\ \A j \in DOMAIN Pending : (i < j /\ Pending[j].client = client) =>
         Pending[i].type # "DISCONNECT" /\ Pending[j].type # "CONNECT"
    /\ client \in ToSet(connectedClients) <=>
         \A j \in DOMAIN Pending : Pending[j] # Event("CONNECT", client)

\* EnetSocket::close returns, and by then every client is deleted.
Stops == socketExit ~> (cpc = "done" /\ Alive = {})

\* assert(e.peer->data == nullptr), server.h:431.
NoClientBeforeConnect ==
  \A p \in Slots :
    (wpc \in {"service", "events"} /\ peers[p].state \in {"PENDING", "SUCCEEDED"}) =>
      peers[p].data = None

\* assert(iter != _connected_clients.end()), server.h:175.
ClientListed ==
  Current("DISCONNECT") => Head(eventQueueCopy).client \in ToSet(connectedClients)
=============================================================================
