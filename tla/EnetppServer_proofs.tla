------------------------ MODULE EnetppServer_proofs ------------------------
(***************************************************************************)
(* Two sets of theorems about enetpp::server, for any number of slots,     *)
(* connections and calls.                                                  *)
(*                                                                         *)
(* The worker keeps _thread_peer_map and the data of the peers in          *)
(* agreement, provided that the application uses closeConnectingPeer only  *)
(* if it connects at most once.  (With two attempts it does not hold: see  *)
(* the run MCEnetppServerStale.)                                           *)
(*                                                                         *)
(* The worker, the consumer and the application hand events and clients    *)
(* to each other without leaking, deleting twice or following a pointer to *)
(* a deleted client, whatever the application does but clear_peers.  (With *)
(* clear_peers it does not hold: see the run MCEnetppServerClear.)         *)
(***************************************************************************)
EXTENDS EnetppServer, ListLemmas

-----------------------------------------------------------------------------
(* The map and the peers. *)

\* What the worker's data and the application's flags are made of.  (TypeOK bounds
\* the clients by the Budget; nothing here needs that.)
WorkerType ==
  /\ peers \in [Slots -> [state : PeerStates, data : Nat]]
  /\ created \in Nat
  /\ DOMAIN threadPeerMap \subseteq 1 .. created
  /\ threadPeerMap \in [DOMAIN threadPeerMap -> Slots]
  /\ connectingPeers \in Seq(Slots)
  /\ tryConnectQueue \in Nat
  /\ left \in [Kinds -> Nat]
  /\ closeConnecting \in BOOLEAN

\* An address queued, an entry of _connecting_peers or an attempt to come: the
\* attempts of an application that connects at most once.
SingleAttempt == Len(connectingPeers) + tryConnectQueue + left["connect"] =< 1

\* _connecting_peers never names the peer of a client.
ConnectingUnmapped == \A p \in ToSet(connectingPeers) : peers[p].data = None

\* What the hypothesis of the theorem is worth in every state.
ClosesSafely ==
  \/ ~ closeConnecting /\ left["close"] = 0
  \/ SingleAttempt /\ ConnectingUnmapped

WorkerInv == WorkerType /\ MapAgrees /\ ClosesSafely

\* The variables that WorkerInv is about.
workerInvVars == <<peers, created, threadPeerMap, connectingPeers, tryConnectQueue,
                   left, closeConnecting>>

LEMMA SlotsAreNumbers == Slots \subseteq Nat /\ None = 0 /\ None \in Nat
  BY ServerAssumption DEF Slots, None

LEMMA UnchangedInv == WorkerInv /\ UNCHANGED workerInvVars => WorkerInv'
  BY DEF WorkerInv, workerInvVars, WorkerType, MapAgrees, ClosesSafely, SingleAttempt,
         ConnectingUnmapped, ToSet

\* Every step by which ENet alone changes a peer keeps the peers that are up in
\* the states that MapAgrees allows them.
LEMMA ServedStaysUp ==
  ASSUME NEW s, NEW t, <<s, t>> \in Served, s \in {"CONNECTED", "LEAVING", "ZOMBIE"}
  PROVE  t \in {"CONNECTED", "LEAVING", "ZOMBIE"}
  BY DEF Served

LEMMA ServedType ==
  ASSUME NEW s, NEW t, <<s, t>> \in Served
  PROVE  t \in PeerStates
  BY DEF Served, PeerStates

LEMMA InitInv ==
  ASSUME Init, Budget["close"] = 0 \/ Budget["connect"] =< 1
  PROVE  WorkerInv
<1>1. "connect" \in Kinds /\ "close" \in Kinds
  BY DEF Kinds
<1>2. WorkerType
  <2>1. peers \in [Slots -> [state : PeerStates, data : Nat]]
    BY DEF Init, FreePeer, None, PeerStates
  <2>2. DOMAIN threadPeerMap \subseteq 1 .. created
    BY DEF Init, NoMap
  <2>3. threadPeerMap \in [DOMAIN threadPeerMap -> Slots]
    BY DEF Init, NoMap
  <2>4. connectingPeers \in Seq(Slots)
    BY DEF Init
  <2>5. left \in [Kinds -> Nat]
    BY ServerAssumption DEF Init
  <2> QED
    BY <2>1, <2>2, <2>3, <2>4, <2>5 DEF Init, WorkerType
<1>3. MapAgrees
  BY DEF Init, MapAgrees, FreePeer, NoMap
<1>4. ClosesSafely
  BY <1>1, ServerAssumption DEF Init, ClosesSafely, SingleAttempt, ConnectingUnmapped,
     ToSet
<1> QED
  BY <1>2, <1>3, <1>4 DEF WorkerInv

\* A call or an outside event other than "connect" and "close".
LEMMA TakeOther ==
  ASSUME WorkerInv, NEW kind \in Kinds \ {"connect", "close"}, Take(kind),
         UNCHANGED <<peers, created, threadPeerMap, connectingPeers, closeConnecting>>,
         tryConnectQueue' = tryConnectQueue
  PROVE  WorkerInv'
<1>1. left' \in [Kinds -> Nat] /\ left'["connect"] = left["connect"]
      /\ left'["close"] = left["close"]
  BY DEF WorkerInv, WorkerType, Take, Kinds
<1> QED
  BY <1>1 DEF WorkerInv, WorkerType, MapAgrees, ClosesSafely, SingleAttempt,
              ConnectingUnmapped, ToSet

-----------------------------------------------------------------------------
(* The application. *)

LEMMA TryConnectInv == ASSUME WorkerInv, TryConnect PROVE WorkerInv'
<1>1. /\ left' \in [Kinds -> Nat]
      /\ left'["close"] = left["close"]
      /\ left["connect"] \in Nat
      /\ left'["connect"] = left["connect"] - 1
  BY DEF WorkerInv, WorkerType, TryConnect, Take, Kinds
<1>2. tryConnectQueue' \in {tryConnectQueue, tryConnectQueue + 1}
  BY DEF TryConnect, Raced
<1>3. UNCHANGED <<peers, created, threadPeerMap, connectingPeers, closeConnecting>>
  BY DEF TryConnect, worker, flags
<1>4. Len(connectingPeers) \in Nat /\ tryConnectQueue \in Nat
  BY DEF WorkerInv, WorkerType
<1>5. SingleAttempt => SingleAttempt'
  BY <1>1, <1>2, <1>3, <1>4 DEF SingleAttempt
<1> QED
  BY <1>1, <1>2, <1>3, <1>5 DEF WorkerInv, WorkerType, MapAgrees, ClosesSafely,
                               ConnectingUnmapped, ToSet

LEMMA CloseConnectingPeerInv ==
  ASSUME WorkerInv, CloseConnectingPeer PROVE WorkerInv'
<1>1. /\ left' \in [Kinds -> Nat]
      /\ left["close"] > 0
      /\ left'["connect"] = left["connect"]
  BY DEF WorkerInv, WorkerType, CloseConnectingPeer, Take, Kinds
<1>2. closeConnecting' = TRUE
      /\ UNCHANGED <<peers, created, threadPeerMap, connectingPeers, tryConnectQueue>>
  BY DEF CloseConnectingPeer, worker, queues
<1>3. SingleAttempt /\ ConnectingUnmapped
  BY <1>1 DEF WorkerInv, ClosesSafely
<1> QED
  BY <1>1, <1>2, <1>3 DEF WorkerInv, WorkerType, MapAgrees, ClosesSafely,
                          SingleAttempt, ConnectingUnmapped, ToSet

LEMMA ApplicationInv == ASSUME WorkerInv, Application PROVE WorkerInv'
<1>1. CASE TryConnect
  BY <1>1, TryConnectInv
<1>2. CASE TryDisconnect
  BY <1>2, TakeOther DEF TryDisconnect, worker, flags, Kinds
<1>3. CASE SendPacketTo
  BY <1>3, TakeOther DEF SendPacketTo, worker, flags, Kinds
<1>4. CASE CloseConnectingPeer
  BY <1>4, CloseConnectingPeerInv
<1>5. CASE Close
  BY <1>5, UnchangedInv DEF Close, worker, queues, workerInvVars
<1> QED
  BY <1>1, <1>2, <1>3, <1>4, <1>5 DEF Application

-----------------------------------------------------------------------------
(* The consumer: it shares no variable of WorkerInv. *)

LEMMA ConsumerInv == ASSUME WorkerInv, Consumer PROVE WorkerInv'
<1>1. UNCHANGED workerInvVars
  BY DEF Consumer, ConsumeEvents, OnClientConnected, OnClientDataReceived,
         OnClientDisconnected, EraseClient, CheckExit, StopListening, worker, queues,
         flags, workerInvVars
<1> QED
  BY <1>1, UnchangedInv

-----------------------------------------------------------------------------
(* The worker. *)

LEMMA DropType ==
  ASSUME NEW ps \in [Slots -> [state : PeerStates, data : Nat]], NEW slots
  PROVE  /\ Dropped(ps, slots) \in [Slots -> [state : PeerStates, data : Nat]]
         /\ Forgotten(ps, slots) \in [Slots -> [state : PeerStates, data : Nat]]
  BY DEF Dropped, Forgotten, PeerStates, None

\* What becomes of the peers that are dropped, and of their data.
LEMMA DropEffect ==
  ASSUME NEW ps \in [Slots -> [state : PeerStates, data : Nat]],
         NEW slots, NEW p \in Slots
  PROVE  /\ Dropped(ps, slots)[p].data = ps[p].data
         /\ p \in slots => Dropped(ps, slots)[p].state = "DISCONNECTED"
         /\ p \notin slots => Dropped(ps, slots)[p] = ps[p]
         /\ Forgotten(ps, slots)[p].data = IF p \in slots THEN None ELSE ps[p].data
         /\ Forgotten(ps, slots)[p].state = ps[p].state
  BY DEF Dropped, Forgotten

\* After disconnect_all_peers_in_thread no peer has data, because every peer that
\* had some was mapped.
LEMMA DisconnectAllInv ==
  ASSUME WorkerInv, DisconnectAllPeers,
         UNCHANGED <<created, tryConnectQueue, left, closeConnecting>>
  PROVE  WorkerInv'
<1> DEFINE gone == Mapped \cup ToSet(connectingPeers)
<1>1. Dropped(peers, gone) \in [Slots -> [state : PeerStates, data : Nat]]
  BY DropType DEF WorkerInv, WorkerType
<1>2. peers' \in [Slots -> [state : PeerStates, data : Nat]]
  BY <1>1, DropType DEF DisconnectAllPeers
<1>3. ASSUME NEW p \in Slots PROVE peers'[p].data = None
  <2> DEFINE dropped == Dropped(peers, gone)
  <2>a. dropped[p].data = peers[p].data
    BY DropEffect DEF WorkerInv, WorkerType
  <2>b. peers' = Forgotten(dropped, Mapped)
    BY DEF DisconnectAllPeers
  <2>c. dropped \in [Slots -> [state : PeerStates, data : Nat]]
    BY <1>1
  <2> HIDE DEF dropped
  <2>1. peers'[p].data = IF p \in Mapped THEN None ELSE peers[p].data
    BY <2>a, <2>b, <2>c, DropEffect
  <2>2. p \notin Mapped => peers[p].data = None
    BY DEF WorkerInv, MapAgrees, Mapped, Range
  <2> QED
    BY <2>1, <2>2
<1>4. threadPeerMap' = NoMap /\ connectingPeers' = <<>>
  BY DEF DisconnectAllPeers
<1>5. WorkerType'
  BY <1>2, <1>4 DEF WorkerInv, WorkerType, NoMap
<1>6. MapAgrees'
  BY <1>3, <1>4 DEF MapAgrees, NoMap
<1>7. ClosesSafely'
  <2>1. SingleAttempt => SingleAttempt'
    <3>1. Len(connectingPeers) \in Nat /\ tryConnectQueue \in Nat /\ left["connect"] \in Nat
      BY DEF WorkerInv, WorkerType, Kinds
    <3> QED
      BY <3>1, <1>4 DEF SingleAttempt
  <2>2. ConnectingUnmapped'
    BY <1>4 DEF ConnectingUnmapped, ToSet
  <2> QED
    BY <2>1, <2>2 DEF WorkerInv, ClosesSafely
<1> QED
  BY <1>5, <1>6, <1>7 DEF WorkerInv

LEMMA WorkerExitInv == ASSUME WorkerInv, WorkerExit PROVE WorkerInv'
<1>1. UNCHANGED <<created, tryConnectQueue, left, closeConnecting>>
  BY DEF WorkerExit, queues
<1>2. CASE shouldExit
  BY <1>1, <1>2, DisconnectAllInv DEF WorkerExit
<1>3. CASE ~ shouldExit
  BY <1>1, <1>3, UnchangedInv DEF WorkerExit, workerInvVars
<1> QED
  BY <1>2, <1>3

\* The peers that are closed have no client.
LEMMA WorkerCloseInv == ASSUME WorkerInv, WorkerClose PROVE WorkerInv'
<1>1. UNCHANGED <<created, threadPeerMap, tryConnectQueue, left>> /\ closeConnecting' = FALSE
  BY DEF WorkerClose, queues
<1>2. CASE ~ closeConnecting
  <2>1. closeConnecting = FALSE
    BY <1>2 DEF WorkerInv, WorkerType
  <2>2. UNCHANGED workerInvVars
    BY <1>1, <1>2, <2>1 DEF WorkerClose, workerInvVars
  <2> QED
    BY <2>2, UnchangedInv
<1>3. CASE closeConnecting
  <2>1. SingleAttempt /\ ConnectingUnmapped
    BY <1>3 DEF WorkerInv, ClosesSafely
  <2>2. peers' = Dropped(peers, ToSet(connectingPeers)) /\ connectingPeers' = <<>>
    BY <1>3 DEF WorkerClose
  <2>3. peers' \in [Slots -> [state : PeerStates, data : Nat]]
    BY <2>2, DropType DEF WorkerInv, WorkerType
  <2>4. ASSUME NEW p \in Slots
        PROVE  /\ peers'[p].data = peers[p].data
               /\ peers[p].data # None => peers'[p] = peers[p]
    BY <2>1, <2>2, DropEffect DEF WorkerInv, WorkerType, ConnectingUnmapped
  <2>5. WorkerType'
    <3>1. connectingPeers' \in Seq(Slots)
      BY <2>2
    <3>2. closeConnecting' \in BOOLEAN
      BY <1>1
    <3> QED
      BY <1>1, <2>3, <3>1, <3>2 DEF WorkerInv, WorkerType
  <2>6. MapAgrees'
    BY <1>1, <2>4 DEF WorkerInv, WorkerType, MapAgrees
  <2>7. SingleAttempt'
    <3>1. Len(connectingPeers) \in Nat /\ tryConnectQueue \in Nat /\ left["connect"] \in Nat
      BY DEF WorkerInv, WorkerType, Kinds
    <3> QED
      BY <1>1, <2>1, <2>2, <3>1 DEF SingleAttempt
  <2>8. ConnectingUnmapped'
    BY <2>2 DEF ConnectingUnmapped, ToSet
  <2> QED
    BY <2>5, <2>6, <2>7, <2>8 DEF WorkerInv, ClosesSafely
<1> QED
  BY <1>2, <1>3

\* A peer that is free has no client, so a new attempt takes none from the map.
LEMMA WorkerConnectInv == ASSUME WorkerInv, WorkerConnect PROVE WorkerInv'
<1>1. UNCHANGED <<created, threadPeerMap, left, closeConnecting>>
  BY DEF WorkerConnect, flags
<1>2. CASE UNCHANGED <<peers, connectingPeers, tryConnectQueue>>
  BY <1>1, <1>2, UnchangedInv DEF workerInvVars
<1>3. CASE tryConnectQueue # 0 /\ UNCHANGED <<peers, connectingPeers>>
  <2>1. Len(connectingPeers) \in Nat /\ tryConnectQueue \in Nat \ {0}
        /\ tryConnectQueue' = tryConnectQueue - 1 /\ left["connect"] \in Nat
    BY <1>3 DEF WorkerConnect, WorkerInv, WorkerType, Kinds
  <2>2. SingleAttempt => SingleAttempt'
    BY <1>1, <1>3, <2>1 DEF SingleAttempt
  <2> QED
    BY <1>1, <1>3, <2>1, <2>2 DEF WorkerInv, WorkerType, MapAgrees, ClosesSafely,
                                  ConnectingUnmapped, ToSet
<1>4. ASSUME tryConnectQueue # 0, NEW p \in FreeSlots,
             peers' = [peers EXCEPT ![p].state = "CONNECTING"],
             connectingPeers' = Append(connectingPeers, p)
      PROVE  WorkerInv'
  <2>1. p \in Slots /\ peers[p].state = "DISCONNECTED" /\ peers[p].data = None
    BY <1>4 DEF FreeSlots, WorkerInv, MapAgrees
  <2>2. Len(connectingPeers) \in Nat /\ tryConnectQueue \in Nat \ {0}
        /\ tryConnectQueue' = tryConnectQueue - 1 /\ left["connect"] \in Nat
    BY <1>4 DEF WorkerConnect, WorkerInv, WorkerType, Kinds
  <2>3. connectingPeers' \in Seq(Slots) /\ Len(connectingPeers') = Len(connectingPeers) + 1
    BY <1>4, <2>1 DEF WorkerInv, WorkerType
  <2>4. peers' \in [Slots -> [state : PeerStates, data : Nat]]
    BY <1>4 DEF WorkerInv, WorkerType, PeerStates
  <2>5. WorkerType'
    BY <1>1, <2>2, <2>3, <2>4 DEF WorkerInv, WorkerType
  <2>6. \A q \in Slots : peers'[q].data = peers[q].data /\ (q # p => peers'[q] = peers[q])
    BY <1>4, <2>1 DEF WorkerInv, WorkerType
  <2>7. MapAgrees'
    BY <1>1, <2>1, <2>6 DEF WorkerInv, WorkerType, MapAgrees
  <2>8. SingleAttempt => SingleAttempt'
    BY <1>1, <2>2, <2>3 DEF SingleAttempt
  <2>9. ConnectingUnmapped => ConnectingUnmapped'
    <3>1. ToSet(connectingPeers') \subseteq ToSet(connectingPeers) \cup {p}
      BY <1>4 DEF ToSet, WorkerInv, WorkerType
    <3>2. ToSet(connectingPeers) \subseteq Slots
      BY DEF ToSet, WorkerInv, WorkerType
    <3> QED
      BY <2>1, <2>6, <3>1, <3>2 DEF ConnectingUnmapped
  <2> QED
    BY <1>1, <2>5, <2>7, <2>8, <2>9 DEF WorkerInv, ClosesSafely
<1> QED
  BY <1>2, <1>3, <1>4 DEF WorkerConnect

LEMMA WorkerDisconnectInv == ASSUME WorkerInv, WorkerDisconnect PROVE WorkerInv'
<1>1. UNCHANGED <<created, connectingPeers, tryConnectQueue, left, closeConnecting>>
  BY DEF WorkerDisconnect, flags
<1>2. CASE UNCHANGED <<peers, threadPeerMap>>
  BY <1>1, <1>2, UnchangedInv DEF workerInvVars
<1>3. ASSUME NEW uid \in DOMAIN threadPeerMap, NEW p, p = threadPeerMap[uid],
             peers' = Forgotten(Dropped(peers, {p}), {p}),
             threadPeerMap' = Unmap(uid)
      PROVE  WorkerInv'
  <2> DEFINE dropped == Dropped(peers, {p})
  <2>1. p \in Slots /\ peers[p].data = uid
    BY <1>3 DEF WorkerInv, WorkerType, MapAgrees
  <2>2. dropped \in [Slots -> [state : PeerStates, data : Nat]]
    BY DropType DEF WorkerInv, WorkerType
  <2>3. \A q \in Slots : q # p => dropped[q] = peers[q]
    <3>1. SUFFICES ASSUME NEW q \in Slots, q # p PROVE dropped[q] = peers[q]
      OBVIOUS
    <3>2. peers \in [Slots -> [state : PeerStates, data : Nat]]
      BY DEF WorkerInv, WorkerType
    <3>3. q \notin {p}
      BY <3>1
    <3> QED
      BY <3>2, <3>3, DropEffect
  <2>4. peers' = Forgotten(dropped, {p})
    BY <1>3
  <2> HIDE DEF dropped
  <2>5. peers' \in [Slots -> [state : PeerStates, data : Nat]]
    BY <2>2, <2>4, DropType
  <2>6. /\ peers'[p].data = None
        /\ \A q \in Slots : q # p => peers'[q].data = peers[q].data
                                    /\ peers'[q].state = peers[q].state
    BY <2>1, <2>2, <2>3, <2>4, DropEffect
  <2>7. /\ DOMAIN threadPeerMap' = DOMAIN threadPeerMap \ {uid}
        /\ \A c \in DOMAIN threadPeerMap' : threadPeerMap'[c] = threadPeerMap[c]
        /\ threadPeerMap' \in [DOMAIN threadPeerMap' -> Slots]
    BY <1>3 DEF Unmap, WorkerInv, WorkerType
  <2>8. WorkerType'
    BY <1>1, <2>5, <2>7 DEF WorkerInv, WorkerType
  <2>9. MapAgrees'
    <3>1. \A c \in DOMAIN threadPeerMap' : peers'[threadPeerMap'[c]].data = c
      <4> SUFFICES ASSUME NEW c \in DOMAIN threadPeerMap'
                   PROVE  peers'[threadPeerMap'[c]].data = c
        OBVIOUS
      <4>1. c \in DOMAIN threadPeerMap /\ c # uid /\ threadPeerMap'[c] = threadPeerMap[c]
        BY <2>7
      <4>2. threadPeerMap[c] \in Slots /\ peers[threadPeerMap[c]].data = c
        BY <4>1 DEF WorkerInv, WorkerType, MapAgrees
      <4>3. threadPeerMap[c] # p
        BY <2>1, <4>1, <4>2
      <4> QED
        BY <2>6, <4>1, <4>2, <4>3
    <3>2. ASSUME NEW q \in Slots, peers'[q].data # None
          PROVE  /\ peers'[q].data \in DOMAIN threadPeerMap'
                 /\ threadPeerMap'[peers'[q].data] = q
                 /\ peers'[q].state \in {"CONNECTED", "LEAVING", "ZOMBIE"}
      <4>1. q # p
        BY <2>6, <3>2
      <4>2. peers'[q].data = peers[q].data /\ peers'[q].state = peers[q].state
        BY <2>6, <4>1
      <4>3. /\ peers[q].data \in DOMAIN threadPeerMap /\ threadPeerMap[peers[q].data] = q
            /\ peers[q].state \in {"CONNECTED", "LEAVING", "ZOMBIE"}
        BY <3>2, <4>2 DEF WorkerInv, MapAgrees
      <4>4. peers[q].data # uid
        BY <1>3, <4>1, <4>3
      <4> QED
        BY <2>7, <4>2, <4>3, <4>4
    <3> QED
      BY <3>1, <3>2 DEF MapAgrees
  <2>10. ConnectingUnmapped => ConnectingUnmapped'
    <3>1. ToSet(connectingPeers) \subseteq Slots
      BY DEF ToSet, WorkerInv, WorkerType
    <3>2. ToSet(connectingPeers') = ToSet(connectingPeers)
      BY <1>1 DEF ToSet
    <3> QED
      BY <2>6, <3>1, <3>2 DEF ConnectingUnmapped
  <2> QED
    BY <1>1, <2>8, <2>9, <2>10 DEF WorkerInv, ClosesSafely, SingleAttempt
<1> QED
  BY <1>2, <1>3 DEF WorkerDisconnect

LEMMA WorkerServiceInv == ASSUME WorkerInv, WorkerService PROVE WorkerInv'
<1>1. UNCHANGED <<created, threadPeerMap, connectingPeers, tryConnectQueue,
                  closeConnecting>>
  BY DEF WorkerService, queues, flags
<1>2. PICK p \in Slots, s \in PeerStates :
        /\ <<peers[p].state, s>> \in Served
        /\ IF s = "PENDING" THEN Take("accept") ELSE UNCHANGED left
        /\ peers' = [peers EXCEPT ![p].state = s]
  BY DEF WorkerService
<1>3. left' \in [Kinds -> Nat] /\ left'["connect"] = left["connect"]
      /\ left'["close"] = left["close"]
  <2>1. CASE Take("accept")
    BY <2>1 DEF WorkerInv, WorkerType, Take, Kinds
  <2>2. CASE UNCHANGED left
    BY <2>2 DEF WorkerInv, WorkerType
  <2> QED
    BY <1>2, <2>1, <2>2
<1>4. peers' \in [Slots -> [state : PeerStates, data : Nat]]
  BY <1>2 DEF WorkerInv, WorkerType
<1>5. /\ peers'[p].state = s
      /\ \A q \in Slots : peers'[q].data = peers[q].data /\ (q # p => peers'[q] = peers[q])
  BY <1>2 DEF WorkerInv, WorkerType
<1>6. WorkerType'
  BY <1>1, <1>3, <1>4 DEF WorkerInv, WorkerType
<1>7. MapAgrees'
  <2>1. peers[p].data # None => s \in {"CONNECTED", "LEAVING", "ZOMBIE"}
    BY <1>2, ServedStaysUp DEF WorkerInv, MapAgrees
  <2> QED
    BY <1>1, <1>5, <2>1 DEF WorkerInv, WorkerType, MapAgrees
<1>8. ConnectingUnmapped => ConnectingUnmapped'
  BY <1>1, <1>5 DEF ConnectingUnmapped, ToSet, WorkerInv, WorkerType
<1> QED
  BY <1>1, <1>3, <1>6, <1>7, <1>8 DEF WorkerInv, ClosesSafely, SingleAttempt

\* Erasing an entry only makes the list shorter, and no attempt is left in the
\* list if it was the only one.
LEMMA EraseEffect ==
  ASSUME connectingPeers \in Seq(Slots), NEW p \in Slots, EraseFirst(p)
  PROVE  /\ connectingPeers' \in Seq(Slots)
         /\ Len(connectingPeers') =< Len(connectingPeers)
         /\ ToSet(connectingPeers') \subseteq ToSet(connectingPeers)
         /\ Len(connectingPeers) =< 1 => p \notin ToSet(connectingPeers')
<1>1. CASE p \notin ToSet(connectingPeers)
  BY <1>1 DEF EraseFirst
<1>2. CASE p \in ToSet(connectingPeers)
  <2>1. PICK i \in DOMAIN connectingPeers : connectingPeers' = RemoveAt(connectingPeers, i)
                                         /\ connectingPeers[i] = p
    BY <1>2 DEF EraseFirst
  <2>2. i \in 1 .. Len(connectingPeers) /\ Len(connectingPeers) \in Nat
    BY <2>1
  <2> DEFINE before == SubSeq(connectingPeers, 1, i - 1)
             after  == SubSeq(connectingPeers, i + 1, Len(connectingPeers))
  <2>3. connectingPeers' = before \o after
    BY <2>1 DEF RemoveAt
  <2>4. /\ before \in Seq(Slots) /\ Len(before) = i - 1
        /\ \A k \in 1 .. i - 1 : before[k] = connectingPeers[k]
    BY <2>2
  <2>5. /\ after \in Seq(Slots) /\ Len(after) = Len(connectingPeers) - i
        /\ \A k \in 1 .. Len(connectingPeers) - i : after[k] = connectingPeers[i + k]
    BY <2>2
  <2> HIDE DEF before, after
  <2>6. /\ connectingPeers' \in Seq(Slots)
        /\ Len(connectingPeers') = Len(connectingPeers) - 1
    BY <2>2, <2>3, <2>4, <2>5
  <2>7. \A k \in 1 .. Len(connectingPeers') :
          connectingPeers'[k] = connectingPeers[IF k < i THEN k ELSE k + 1]
    <3> SUFFICES ASSUME NEW k \in 1 .. Len(connectingPeers')
                 PROVE  connectingPeers'[k] = connectingPeers[IF k < i THEN k ELSE k + 1]
      OBVIOUS
    <3>1. CASE k < i
      <4>1. connectingPeers'[k] = before[k]
        BY <2>2, <2>3, <2>4, <2>5, <3>1
      <4> QED
        BY <2>2, <2>4, <3>1, <4>1
    <3>2. CASE k >= i
      <4>1. connectingPeers'[k] = after[k - (i - 1)]
        <5>1. k \in 1 .. Len(before) + Len(after) /\ ~ (k =< Len(before))
          BY <2>2, <2>4, <2>5, <2>6, <3>2
        <5>2. (before \o after)[k] = after[k - Len(before)]
          BY <5>1, <2>4, <2>5, ConcatProperties, Zenon
        <5> QED
          BY <2>3, <2>4, <5>2
      <4>2. k - (i - 1) \in 1 .. Len(connectingPeers) - i /\ i + (k - (i - 1)) = k + 1
        BY <2>2, <2>6, <3>2
      <4> QED
        BY <2>2, <2>5, <3>2, <4>1, <4>2, SMTT(20)
    <3> QED
      BY <2>2, <3>1, <3>2
  <2>8. ToSet(connectingPeers') \subseteq ToSet(connectingPeers)
    BY <2>2, <2>6, <2>7 DEF ToSet
  <2>9. Len(connectingPeers) =< 1 => ToSet(connectingPeers') = {}
    BY <2>2, <2>6 DEF ToSet
  <2> QED
    BY <2>2, <2>6, <2>8, <2>9
<1> QED
  BY <1>1, <1>2

LEMMA ConnectEventInv ==
  ASSUME WorkerInv, NEW p \in Slots, ConnectEvent(p) PROVE WorkerInv'
<1> DEFINE client == created + 1
<1>1. /\ UNCHANGED <<left, tryConnectQueue, closeConnecting>>
      /\ created' = client
      /\ EraseFirst(p)
      /\ threadPeerMap' = [c \in DOMAIN threadPeerMap \cup {client} |->
                             IF c = client THEN p ELSE threadPeerMap[c]]
      /\ peers' = [peers EXCEPT ![p] = [state |-> Polled[@.state], data |-> client]]
      /\ peers[p].state \in {"PENDING", "SUCCEEDED"}
  BY DEF ConnectEvent, flags
<1>2. created \in Nat /\ client \in Nat /\ client # None /\ client \notin DOMAIN threadPeerMap
  BY DEF WorkerInv, WorkerType, None
<1>3. peers[p].data = None
  BY <1>1 DEF WorkerInv, MapAgrees
<1>4. Polled[peers[p].state] = "CONNECTED"
  BY <1>1 DEF Polled
<1>5. /\ peers' \in [Slots -> [state : PeerStates, data : Nat]]
      /\ peers'[p] = [state |-> "CONNECTED", data |-> client]
      /\ \A q \in Slots : q # p => peers'[q] = peers[q]
  BY <1>1, <1>2, <1>4 DEF WorkerInv, WorkerType, PeerStates
<1>6. /\ DOMAIN threadPeerMap' = DOMAIN threadPeerMap \cup {client}
      /\ threadPeerMap'[client] = p
      /\ \A c \in DOMAIN threadPeerMap : threadPeerMap'[c] = threadPeerMap[c]
      /\ threadPeerMap' \in [DOMAIN threadPeerMap' -> Slots]
  BY <1>1, <1>2 DEF WorkerInv, WorkerType
<1>7. /\ connectingPeers' \in Seq(Slots)
      /\ Len(connectingPeers') =< Len(connectingPeers)
      /\ ToSet(connectingPeers') \subseteq ToSet(connectingPeers)
      /\ Len(connectingPeers) =< 1 => p \notin ToSet(connectingPeers')
  BY <1>1, EraseEffect DEF WorkerInv, WorkerType
<1>8. WorkerType'
  <2>1. DOMAIN threadPeerMap' \subseteq 1 .. created'
    BY <1>1, <1>2, <1>6 DEF WorkerInv, WorkerType
  <2> QED
    BY <1>1, <1>2, <1>5, <1>6, <1>7, <2>1 DEF WorkerInv, WorkerType
<1>9. MapAgrees'
  <2>1. ASSUME NEW c \in DOMAIN threadPeerMap' PROVE peers'[threadPeerMap'[c]].data = c
    <3>1. CASE c = client
      BY <1>5, <1>6, <3>1
    <3>2. CASE c \in DOMAIN threadPeerMap
      <4>1. threadPeerMap[c] \in Slots /\ peers[threadPeerMap[c]].data = c /\ c # None
        BY <3>2 DEF WorkerInv, WorkerType, MapAgrees, None
      <4> QED
        BY <1>3, <1>5, <1>6, <3>2, <4>1
    <3> QED
      BY <1>6, <3>1, <3>2
  <2>2. ASSUME NEW q \in Slots, peers'[q].data # None
        PROVE  /\ peers'[q].data \in DOMAIN threadPeerMap'
               /\ threadPeerMap'[peers'[q].data] = q
               /\ peers'[q].state \in {"CONNECTED", "LEAVING", "ZOMBIE"}
    <3>1. CASE q = p
      BY <1>5, <1>6, <3>1
    <3>2. CASE q # p
      BY <1>5, <1>6, <2>2, <3>2 DEF WorkerInv, MapAgrees
    <3> QED
      BY <3>1, <3>2
  <2> QED
    BY <2>1, <2>2 DEF MapAgrees
<1>10. ASSUME SingleAttempt, ConnectingUnmapped PROVE SingleAttempt' /\ ConnectingUnmapped'
  <2>1. /\ Len(connectingPeers) \in Nat /\ Len(connectingPeers') \in Nat
        /\ tryConnectQueue \in Nat /\ left["connect"] \in Nat
    BY <1>7 DEF WorkerInv, WorkerType, Kinds
  <2>2. SingleAttempt'
    BY <1>1, <1>7, <1>10, <2>1 DEF SingleAttempt
  <2>3. p \notin ToSet(connectingPeers')
    BY <1>7, <1>10, <2>1 DEF SingleAttempt
  <2>4. ToSet(connectingPeers') \subseteq Slots
    BY <1>7 DEF ToSet
  <2> QED
    BY <1>5, <1>7, <1>10, <2>2, <2>3, <2>4 DEF ConnectingUnmapped
<1> QED
  BY <1>1, <1>8, <1>9, <1>10 DEF WorkerInv, ClosesSafely

LEMMA DisconnectEventInv ==
  ASSUME WorkerInv, NEW p \in Slots, DisconnectEvent(p) PROVE WorkerInv'
<1> DEFINE client == peers[p].data
<1>1. /\ UNCHANGED <<left, created, connectingPeers, tryConnectQueue, closeConnecting>>
      /\ peers' = [peers EXCEPT ![p] = FreePeer]
      /\ IF client # None THEN threadPeerMap' = Unmap(client)
                          ELSE UNCHANGED threadPeerMap
  BY DEF DisconnectEvent, flags
<1>2. /\ peers' \in [Slots -> [state : PeerStates, data : Nat]]
      /\ peers'[p].data = None
      /\ \A q \in Slots : q # p => peers'[q] = peers[q]
  BY <1>1 DEF WorkerInv, WorkerType, FreePeer, PeerStates, None
<1>3. /\ DOMAIN threadPeerMap' = DOMAIN threadPeerMap \ {client}
      /\ \A c \in DOMAIN threadPeerMap' : threadPeerMap'[c] = threadPeerMap[c]
      /\ threadPeerMap' \in [DOMAIN threadPeerMap' -> Slots]
  <2>1. CASE client # None
    BY <1>1, <2>1 DEF Unmap, WorkerInv, WorkerType
  <2>2. CASE client = None
    <3>1. None \notin DOMAIN threadPeerMap
      BY DEF WorkerInv, WorkerType, None
    <3> QED
      BY <1>1, <2>2, <3>1 DEF WorkerInv, WorkerType
  <2> QED
    BY <2>1, <2>2
<1>4. WorkerType'
  BY <1>1, <1>2, <1>3 DEF WorkerInv, WorkerType
<1>5. MapAgrees'
  <2>1. ASSUME NEW c \in DOMAIN threadPeerMap' PROVE peers'[threadPeerMap'[c]].data = c
    <3>1. c \in DOMAIN threadPeerMap /\ c # client /\ threadPeerMap'[c] = threadPeerMap[c]
      BY <1>3
    <3>2. threadPeerMap[c] \in Slots /\ peers[threadPeerMap[c]].data = c
      BY <3>1 DEF WorkerInv, WorkerType, MapAgrees
    <3>3. threadPeerMap[c] # p
      BY <3>1, <3>2
    <3> QED
      BY <1>2, <3>1, <3>2, <3>3
  <2>2. ASSUME NEW q \in Slots, peers'[q].data # None
        PROVE  /\ peers'[q].data \in DOMAIN threadPeerMap'
               /\ threadPeerMap'[peers'[q].data] = q
               /\ peers'[q].state \in {"CONNECTED", "LEAVING", "ZOMBIE"}
    <3>1. q # p /\ peers'[q] = peers[q]
      BY <1>2, <2>2
    <3>2. /\ peers[q].data \in DOMAIN threadPeerMap /\ threadPeerMap[peers[q].data] = q
          /\ peers[q].state \in {"CONNECTED", "LEAVING", "ZOMBIE"}
      BY <2>2, <3>1 DEF WorkerInv, MapAgrees
    <3>3. peers[q].data # client
      <4>1. CASE client = None
        BY <2>2, <3>1, <4>1
      <4>2. CASE client # None
        BY <3>1, <3>2, <4>2 DEF WorkerInv, MapAgrees
      <4> QED
        BY <4>1, <4>2
    <3> QED
      BY <1>3, <3>1, <3>2, <3>3
  <2> QED
    BY <2>1, <2>2 DEF MapAgrees
<1>6. ConnectingUnmapped => ConnectingUnmapped'
  <2>1. ToSet(connectingPeers) \subseteq Slots /\ ToSet(connectingPeers') = ToSet(connectingPeers)
    BY <1>1 DEF ToSet, WorkerInv, WorkerType
  <2> QED
    BY <1>2, <2>1 DEF ConnectingUnmapped
<1> QED
  BY <1>1, <1>4, <1>5, <1>6 DEF WorkerInv, ClosesSafely, SingleAttempt

LEMMA WorkerStepInv == ASSUME WorkerInv, Worker PROVE WorkerInv'
<1>1. CASE WorkerExit
  BY <1>1, WorkerExitInv
<1>2. CASE WorkerClose
  BY <1>2, WorkerCloseInv
<1>3. CASE WorkerConnect
  BY <1>3, WorkerConnectInv
<1>4. CASE WorkerDisconnect
  BY <1>4, WorkerDisconnectInv
<1>5. CASE WorkerSend
  BY <1>5, UnchangedInv DEF WorkerSend, flags, workerInvVars
<1>6. CASE WorkerPolled
  BY <1>6, UnchangedInv DEF WorkerPolled, queues, flags, workerInvVars
<1>7. CASE \E p \in Slots : ConnectEvent(p) \/ DisconnectEvent(p)
  BY <1>7, ConnectEventInv, DisconnectEventInv
<1> QED
  BY <1>1, <1>2, <1>3, <1>4, <1>5, <1>6, <1>7 DEF Worker

LEMMA OutsideInv == ASSUME WorkerInv, Outside PROVE WorkerInv'
<1>1. CASE WorkerService
  BY <1>1, WorkerServiceInv
<1>2. ASSUME NEW p \in Slots, ReceiveEvent(p) PROVE WorkerInv'
  BY <1>2, TakeOther DEF ReceiveEvent, flags, Kinds
<1> QED
  BY <1>1, <1>2 DEF Outside

-----------------------------------------------------------------------------
(* The theorem about them. *)

\* Packets are sent to the peer of their client, and the asserts of
\* server.h:431, 446 and 447 hold, whatever the threads, the network and the
\* application do, as long as the application does not close connecting peers, or
\* has at most one connection attempt to close.
THEOREM MapAlwaysAgrees ==
  ASSUME Budget["close"] = 0 \/ Budget["connect"] =< 1
  PROVE  Spec => []MapAgrees
<1>1. Init => WorkerInv
  BY InitInv
<1>2. WorkerInv /\ [Next]_vars => WorkerInv'
  <2> SUFFICES ASSUME WorkerInv, [Next]_vars PROVE WorkerInv'
    OBVIOUS
  <2>1. CASE Worker
    BY <2>1, WorkerStepInv
  <2>2. CASE Consumer
    BY <2>2, ConsumerInv
  <2>3. CASE Application
    BY <2>3, ApplicationInv
  <2>4. CASE Outside
    BY <2>4, OutsideInv
  <2>5. CASE UNCHANGED vars
    BY <2>5, UnchangedInv DEF vars, worker, queues, flags, workerInvVars
  <2> QED
    BY <2>1, <2>2, <2>3, <2>4, <2>5 DEF Next
<1>3. WorkerInv => MapAgrees
  BY DEF WorkerInv
<1> QED
  BY <1>1, <1>2, <1>3, PTL DEF Spec

-----------------------------------------------------------------------------
(* The hand-over of clients and events between the threads.  What follows needs   *)
(* no assumption about closeConnectingPeer: where a slot still has a client when  *)
(* the next one connects, the map keeps an entry too many, but no pointer is left *)
(* behind.                                                                        *)

Events == [type : {"CONNECT", "DISCONNECT", "RECEIVE"}, client : Clients]

ServerType ==
  /\ TypeOK
  /\ eventQueue \in Seq(Events)
  /\ eventQueueCopy \in Seq(Events)
  /\ threadPeerMap \in [DOMAIN threadPeerMap -> Slots]

\* The connections that may still become clients.
Attempts == {p \in Slots : peers[p].state \in {"CONNECTING", "PENDING", "SUCCEEDED"}}

\* There is a number for every connection still to come.
Room ==
  created + Cardinality(Attempts) + tryConnectQueue + left["connect"] + left["accept"]
    =< Cardinality(Clients)

\* The half of MapAgrees that every step keeps.
DataMapped ==
  \A p \in Slots : peers[p].data # None =>
    peers[p].data \in DOMAIN threadPeerMap /\ threadPeerMap[peers[p].data] = p

\* A client whose DISCONNECT is queued is no peer's any more.
Parted ==
  \A p \in Slots : \A i \in DOMAIN Pending :
    peers[p].data # None => Pending[i] # Event("DISCONNECT", peers[p].data)

\* Where the threads are tells what they hold.
Phases ==
  /\ wpc = "done" => \A p \in Slots : peers[p].data = None
  /\ cpc = "erase" => /\ eventQueueCopy # <<>>
                      /\ Head(eventQueueCopy).type = "DISCONNECT"
                      /\ Head(eventQueueCopy).client \in ToSet(connectedClients)
  /\ cpc \in {"join", "done"} => eventQueueCopy = <<>>

\* No client is deleted before it is created.
Unborn == \A c \in Clients : c > created => freed[c] = 0

HandOver == OwnedOnce /\ NoneDangling /\ EventsInOrder /\ Unborn

ServerInv == ServerType /\ Room /\ DataMapped /\ Parted /\ Phases /\ HandOver

LEMMA ClientNumbers ==
  /\ Budget["connect"] + Budget["accept"] \in Nat
  /\ Clients = 1 .. Budget["connect"] + Budget["accept"]
  /\ IsFiniteSet(Clients)
  /\ Cardinality(Clients) = Budget["connect"] + Budget["accept"]
  /\ None \notin Clients
<1>1. Budget["connect"] \in Nat /\ Budget["accept"] \in Nat
  BY ServerAssumption DEF Kinds
<1> DEFINE n == Budget["connect"] + Budget["accept"]
<1>2. n \in Nat /\ Clients = 1 .. n
  BY <1>1 DEF Clients
<1> HIDE DEF n
<1>3. IsFiniteSet(1 .. n) /\ Cardinality(1 .. n) = IF 1 > n THEN 0 ELSE n - 1 + 1
  BY <1>2, FS_Interval
<1>4. 0 \notin Clients
  BY <1>2
<1> QED
  BY <1>2, <1>3, <1>4 DEF n, None

LEMMA AttemptsFinite ==
  ASSUME NEW T, T \subseteq Slots
  PROVE  IsFiniteSet(T) /\ Cardinality(T) \in Nat
<1>1. IsFiniteSet(Slots)
  BY ServerAssumption, FS_Interval DEF Slots
<1> QED
  BY <1>1, FS_Subset, FS_CardinalityType

LEMMA ServerInitInv == Init => ServerInv
<1> SUFFICES ASSUME Init PROVE ServerInv
  OBVIOUS
<1>1. ServerType
  <2>1. peers \in [Slots -> [state : PeerStates, data : {None} \cup Clients]]
    BY DEF Init, FreePeer, PeerStates
  <2>2. created \in 0 .. Cardinality(Clients)
    BY ClientNumbers DEF Init
  <2>3. threadPeerMap \in [DOMAIN threadPeerMap -> Slots]
    BY DEF Init, NoMap
  <2>4. left \in [Kinds -> Nat]
    BY ServerAssumption DEF Init
  <2>5. freed \in [Clients -> Nat]
    BY DEF Init
  <2> QED
    BY <2>1, <2>2, <2>3, <2>4, <2>5 DEF Init, ServerType, TypeOK
<1>2. Room
  <2>1. Attempts = {}
    BY DEF Init, Attempts, FreePeer
  <2>2. Cardinality(Attempts) = 0
    BY <2>1, FS_EmptySet
  <2>3. Budget["connect"] \in Nat /\ Budget["accept"] \in Nat
    BY ServerAssumption DEF Kinds
  <2> QED
    BY <2>2, <2>3, ClientNumbers DEF Init, Room
<1>3. Pending = <<>>
  BY DEF Init, Pending
<1>4. DataMapped /\ Parted
  BY DEF Init, DataMapped, Parted, FreePeer
<1>5. Phases
  BY DEF Init, Phases
<1>6. HandOver
  <2>1. DOMAIN Pending = {} /\ Connects = {} /\ DOMAIN connectedClients = {}
        /\ ToSet(connectedClients) = {}
    BY <1>3 DEF Connects, Init, ToSet
  <2>2. Alive = {}
    BY DEF Alive, Init
  <2>3. OwnedOnce
    BY <2>1, <2>2 DEF OwnedOnce, Init
  <2>4. NoneDangling
    BY <2>1 DEF NoneDangling, Init, FreePeer
  <2>5. EventsInOrder
    BY <2>1 DEF EventsInOrder
  <2>6. Unborn
    BY DEF Unborn, Init
  <2> QED
    BY <2>3, <2>4, <2>5, <2>6 DEF HandOver
<1> QED
  BY <1>1, <1>2, <1>4, <1>5, <1>6 DEF ServerInv

-----------------------------------------------------------------------------
(* What the threads do to the events that are pending. *)

LEMMA PendingProperties ==
  ASSUME ServerType
  PROVE  /\ Pending \in Seq(Events)
         /\ Len(Pending) \in Nat
         /\ DOMAIN Pending = 1 .. Len(Pending)
         /\ \A i \in 1 .. Len(Pending) : Pending[i] \in Events
<1>1. Pending \in Seq(Events)
  BY ConcatProperties DEF ServerType, Pending
<1> HIDE DEF Pending
<1> QED
  BY <1>1, LenProperties, ElementOfSeq

\* The worker adds an event.
LEMMA PendingAppend ==
  ASSUME ServerType, NEW e \in Events, eventQueue' = Append(eventQueue, e),
         UNCHANGED eventQueueCopy
  PROVE  /\ Len(Pending') = Len(Pending) + 1
         /\ DOMAIN Pending' = 1 .. Len(Pending) + 1
         /\ \A i \in 1 .. Len(Pending) : Pending'[i] = Pending[i]
         /\ Pending'[Len(Pending) + 1] = e
<1> DEFINE q == eventQueue  c == eventQueueCopy  r == Append(q, e)
<1>1. q \in Seq(Events) /\ c \in Seq(Events)
  BY DEF ServerType
<1>2. /\ r \in Seq(Events) /\ Len(r) = Len(q) + 1
      /\ \A i \in 1 .. Len(q) : r[i] = q[i]
      /\ r[Len(q) + 1] = e
  BY <1>1, AppendProperties
<1>3. Pending = c \o q /\ Pending' = c \o r
  BY DEF Pending
<1> HIDE DEF q, c, r
<1>4. /\ Len(c \o q) = Len(c) + Len(q)
      /\ \A i \in 1 .. Len(c) + Len(q) :
           (c \o q)[i] = IF i <= Len(c) THEN c[i] ELSE q[i - Len(c)]
  BY <1>1, ConcatProperties
<1>5. /\ c \o r \in Seq(Events)
      /\ Len(c \o r) = Len(c) + Len(r)
      /\ \A i \in 1 .. Len(c) + Len(r) :
           (c \o r)[i] = IF i <= Len(c) THEN c[i] ELSE r[i - Len(c)]
  BY <1>1, <1>2, ConcatProperties
<1>6. Len(c) \in Nat /\ Len(q) \in Nat
  BY <1>1, LenProperties
<1>7. \A i \in 1 .. Len(c) + Len(q) : (c \o r)[i] = (c \o q)[i]
  <2> TAKE i \in 1 .. Len(c) + Len(q)
  <2>1. CASE i <= Len(c)
    BY <1>2, <1>4, <1>5, <1>6, <2>1
  <2>2. CASE ~ i <= Len(c)
    <3>1. i - Len(c) \in 1 .. Len(q) /\ i \in 1 .. Len(c) + Len(r)
      BY <1>2, <1>6, <2>2
    <3> QED
      BY <1>2, <1>4, <1>5, <2>2, <3>1
  <2> QED
    BY <2>1, <2>2
<1>8. (c \o r)[Len(c) + Len(q) + 1] = e
  <2>1. /\ Len(c) + Len(q) + 1 \in 1 .. Len(c) + Len(r)
        /\ ~ (Len(c) + Len(q) + 1 <= Len(c))
        /\ Len(c) + Len(q) + 1 - Len(c) = Len(q) + 1
    BY <1>2, <1>6
  <2> QED
    BY <1>2, <1>5, <2>1
<1>9. Len(c \o r) = Len(c \o q) + 1
  BY <1>2, <1>4, <1>5, <1>6
<1>10. DOMAIN (c \o r) = 1 .. Len(c \o q) + 1
  BY <1>5, <1>9, LenProperties
<1> QED
  BY <1>3, <1>4, <1>7, <1>8, <1>9, <1>10

\* The consumer has handled the first event.
LEMMA PendingTail ==
  ASSUME ServerType, eventQueueCopy # <<>>, eventQueueCopy' = Tail(eventQueueCopy),
         UNCHANGED eventQueue
  PROVE  /\ Len(Pending) > 0 /\ Pending[1] = Head(eventQueueCopy)
         /\ Len(Pending') = Len(Pending) - 1
         /\ DOMAIN Pending' = 1 .. Len(Pending) - 1
         /\ \A i \in 1 .. Len(Pending) - 1 : Pending'[i] = Pending[i + 1]
<1> DEFINE q == eventQueue  c == eventQueueCopy  d == Tail(c)
<1>1. q \in Seq(Events) /\ c \in Seq(Events) /\ c # <<>>
  BY DEF ServerType
<1>2. /\ d \in Seq(Events) /\ Len(d) = Len(c) - 1
      /\ \A i \in 1 .. Len(d) : d[i] = c[i + 1]
  BY <1>1, HeadTailProperties
<1>3. Pending = c \o q /\ Pending' = d \o q
  BY DEF Pending
<1>a. Head(c) = c[1]
  BY <1>1
<1> HIDE DEF q, c, d
<1>4. /\ Len(c \o q) = Len(c) + Len(q)
      /\ \A i \in 1 .. Len(c) + Len(q) :
           (c \o q)[i] = IF i <= Len(c) THEN c[i] ELSE q[i - Len(c)]
  BY <1>1, ConcatProperties
<1>5. /\ d \o q \in Seq(Events)
      /\ Len(d \o q) = Len(d) + Len(q)
      /\ \A i \in 1 .. Len(d) + Len(q) :
           (d \o q)[i] = IF i <= Len(d) THEN d[i] ELSE q[i - Len(d)]
  BY <1>1, <1>2, ConcatProperties
<1>6. Len(c) \in Nat \ {0} /\ Len(q) \in Nat
  BY <1>1, LenProperties, EmptySeq
<1>7. \A i \in 1 .. Len(c) + Len(q) - 1 : (d \o q)[i] = (c \o q)[i + 1]
  <2> TAKE i \in 1 .. Len(c) + Len(q) - 1
  <2>0. i \in 1 .. Len(d) + Len(q) /\ i + 1 \in 1 .. Len(c) + Len(q)
    BY <1>2, <1>6
  <2>1. CASE i <= Len(d)
    BY <1>2, <1>4, <1>5, <1>6, <2>0, <2>1
  <2>2. CASE ~ i <= Len(d)
    <3>1. i - Len(d) = (i + 1) - Len(c) /\ ~ (i + 1 <= Len(c))
      BY <1>2, <1>6, <2>2
    <3> QED
      BY <1>4, <1>5, <2>0, <2>2, <3>1
  <2> QED
    BY <2>1, <2>2
<1>8. (c \o q)[1] = c[1]
  BY <1>4, <1>6
<1>9. Len(d \o q) = Len(c \o q) - 1 /\ Len(c \o q) > 0
  BY <1>2, <1>4, <1>5, <1>6
<1>10. DOMAIN (d \o q) = 1 .. Len(c \o q) - 1
  BY <1>5, <1>9, LenProperties
<1>11. Head(eventQueueCopy) = c[1]
  BY <1>a DEF c
<1> QED
  BY <1>3, <1>4, <1>7, <1>8, <1>9, <1>10, <1>11

\* consume_events takes all of them over.
LEMMA PendingSwap ==
  ASSUME ServerType, ConsumeEvents
  PROVE  Pending' = Pending
<1>1. eventQueueCopy = <<>> /\ eventQueueCopy' = eventQueue /\ eventQueue' = <<>>
  BY DEF ConsumeEvents
<1> QED
  BY <1>1, ConcatEmptySeq DEF ServerType, Pending

-----------------------------------------------------------------------------
(* Steps that hand nothing over. *)

\* A step that only takes data away from peers keeps the hand-over right.
LEMMA PendingKept ==
  ASSUME ServerInv, Pending' = Pending, UNCHANGED <<connectedClients, freed, created>>,
         \A p \in Slots : peers'[p].data \in {peers[p].data, None}
  PROVE  HandOver' /\ Parted'
<1>1. Pending' = Pending
  OBVIOUS
<1>2. Connects' = Connects
  BY <1>1 DEF Connects
<1>3. Alive' = Alive
  BY DEF Alive
<1>4. OwnedOnce'
  BY <1>1, <1>2, <1>3 DEF ServerInv, HandOver, OwnedOnce, ToSet
<1>5. NoneDangling'
  BY <1>1, <1>3 DEF ServerInv, HandOver, NoneDangling
<1>6. EventsInOrder'
  BY <1>1 DEF ServerInv, HandOver, EventsInOrder, ToSet
<1>7. Parted'
  BY <1>1 DEF ServerInv, Parted
<1>8. Unborn'
  BY DEF ServerInv, HandOver, Unborn
<1> QED
  BY <1>4, <1>5, <1>6, <1>7, <1>8 DEF HandOver

LEMMA HandOverKept ==
  ASSUME ServerInv,
         UNCHANGED <<eventQueue, eventQueueCopy, connectedClients, freed, created>>,
         \A p \in Slots : peers'[p].data \in {peers[p].data, None}
  PROVE  HandOver' /\ Parted'
<1>1. Pending' = Pending
  BY DEF Pending
<1> QED
  BY <1>1, PendingKept

LEMMA NumbersOf ==
  ASSUME ServerType
  PROVE  /\ created \in Nat /\ tryConnectQueue \in Nat
         /\ left["connect"] \in Nat /\ left["accept"] \in Nat
         /\ created + Cardinality(Attempts) + tryConnectQueue + left["connect"]
              + left["accept"] \in Nat
         /\ IsFiniteSet(Attempts) /\ Cardinality(Attempts) \in Nat
<1>1. Attempts \subseteq Slots
  BY DEF Attempts
<1>2. IsFiniteSet(Attempts) /\ Cardinality(Attempts) \in Nat
  BY <1>1, AttemptsFinite
<1>3. created \in Nat /\ tryConnectQueue \in Nat
  BY ClientNumbers DEF ServerType, TypeOK
<1>4. left["connect"] \in Nat /\ left["accept"] \in Nat
  BY DEF ServerType, TypeOK, Kinds
<1> QED
  BY <1>2, <1>3, <1>4

\* Attempts that end leave room.
LEMMA RoomKept ==
  ASSUME ServerInv, Attempts' \subseteq Attempts, UNCHANGED created,
         tryConnectQueue' \in Nat, left' \in [Kinds -> Nat],
         tryConnectQueue' + left'["connect"] =< tryConnectQueue + left["connect"],
         left'["accept"] =< left["accept"]
  PROVE  Room'
<1>1. Cardinality(Attempts') =< Cardinality(Attempts) /\ Cardinality(Attempts') \in Nat
  BY NumbersOf, FS_Subset, FS_CardinalityType DEF ServerInv
<1>2. left'["connect"] \in Nat /\ left'["accept"] \in Nat
  BY DEF Kinds
<1>3. Cardinality(Clients) \in Nat
  BY ClientNumbers
<1> QED
  BY <1>1, <1>2, <1>3, NumbersOf DEF ServerInv, Room

\* A step of the application or the worker that changes no peer and no client.
LEMMA QueuesInv ==
  ASSUME ServerInv,
         UNCHANGED <<peers, threadPeerMap, created, eventQueue, connectedClients, cpc,
                     eventQueueCopy, apc, freed, connectingPeers>>,
         left' \in [Kinds -> Nat], packetQueue' \in Nat, tryConnectQueue' \in Nat,
         tryDisconnectQueue' \in Seq(Clients),
         tryConnectQueue' + left'["connect"] =< tryConnectQueue + left["connect"],
         left'["accept"] =< left["accept"],
         wpc' \in {"clear", "cleared", "close", "connect", "disconnect", "send",
                   "service", "events", "done"},
         wpc' = "done" => wpc = "done"
  PROVE  ServerInv'
<1>1. ServerType'
  BY DEF ServerInv, ServerType, TypeOK
<1>2. Room'
  <2>1. Attempts' = Attempts
    BY DEF Attempts
  <2> QED
    BY <2>1, RoomKept
<1>3. DataMapped' /\ Phases'
  BY DEF ServerInv, DataMapped, Phases, ToSet
<1>4. HandOver' /\ Parted'
  BY HandOverKept
<1> QED
  BY <1>1, <1>2, <1>3, <1>4 DEF ServerInv

LEMMA TakeProperties ==
  ASSUME left \in [Kinds -> Nat], NEW kind \in Kinds, Take(kind)
  PROVE  /\ left' \in [Kinds -> Nat]
         /\ left'[kind] = left[kind] - 1
         /\ \A k \in Kinds : k # kind => left'[k] = left[k]
  BY DEF Take

LEMMA ApplicationServerInv ==
  ASSUME ServerInv, Application PROVE ServerInv'
<1>1. left \in [Kinds -> Nat] /\ packetQueue \in Nat /\ tryConnectQueue \in Nat
      /\ tryDisconnectQueue \in Seq(Clients)
      /\ wpc \in {"clear", "cleared", "close", "connect", "disconnect", "send",
                   "service", "events", "done"}
  BY DEF ServerInv, ServerType, TypeOK
<1>2. {"connect", "disconnect", "send", "close", "accept"} \subseteq Kinds
  BY DEF Kinds
<1>3. left["connect"] \in Nat /\ left["accept"] \in Nat
  BY <1>1, <1>2
<1>4. CASE TryConnect
  <2>1. /\ left' \in [Kinds -> Nat] /\ left'["connect"] = left["connect"] - 1
        /\ left'["accept"] = left["accept"]
    BY <1>1, <1>2, <1>4, TakeProperties DEF TryConnect
  <2>2. tryConnectQueue' \in {tryConnectQueue, tryConnectQueue + 1}
    BY <1>4 DEF TryConnect, Raced
  <2>3. UNCHANGED <<wpc, peers, threadPeerMap, created, eventQueue, connectedClients, cpc,
                    eventQueueCopy, apc, freed, connectingPeers, packetQueue,
                    tryDisconnectQueue>>
    BY <1>4 DEF TryConnect, worker, consumer
  <2> QED
    BY <1>1, <1>3, <2>1, <2>2, <2>3, QueuesInv
<1>5. CASE TryDisconnect
  <2>1. /\ left' \in [Kinds -> Nat] /\ left'["connect"] = left["connect"]
        /\ left'["accept"] = left["accept"]
    BY <1>1, <1>2, <1>5, TakeProperties DEF TryDisconnect
  <2>2. tryDisconnectQueue' \in Seq(Clients)
    <3>1. PICK uid \in 1 .. created :
            tryDisconnectQueue' \in {tryDisconnectQueue, Append(tryDisconnectQueue, uid)}
      BY <1>5 DEF TryDisconnect, Raced
    <3>2. uid \in Clients
      BY ClientNumbers DEF ServerInv, ServerType, TypeOK
    <3> QED
      BY <1>1, <3>1, <3>2
  <2>3. UNCHANGED <<wpc, peers, threadPeerMap, created, eventQueue, connectedClients, cpc,
                    eventQueueCopy, apc, freed, connectingPeers, packetQueue,
                    tryConnectQueue>>
    BY <1>5 DEF TryDisconnect, worker, consumer
  <2> QED
    BY <1>1, <1>3, <2>1, <2>2, <2>3, QueuesInv
<1>6. CASE SendPacketTo
  <2>1. /\ left' \in [Kinds -> Nat] /\ left'["connect"] = left["connect"]
        /\ left'["accept"] = left["accept"]
    BY <1>1, <1>2, <1>6, TakeProperties DEF SendPacketTo
  <2>2. packetQueue' \in Nat
    BY <1>1, <1>6 DEF SendPacketTo
  <2>3. UNCHANGED <<wpc, peers, threadPeerMap, created, eventQueue, connectedClients, cpc,
                    eventQueueCopy, apc, freed, connectingPeers, tryDisconnectQueue,
                    tryConnectQueue>>
    BY <1>6 DEF SendPacketTo, worker, consumer
  <2> QED
    BY <1>1, <1>3, <2>1, <2>2, <2>3, QueuesInv
<1>7. CASE CloseConnectingPeer
  <2>1. /\ left' \in [Kinds -> Nat] /\ left'["connect"] = left["connect"]
        /\ left'["accept"] = left["accept"]
    BY <1>1, <1>2, <1>7, TakeProperties DEF CloseConnectingPeer
  <2>3. UNCHANGED <<wpc, peers, threadPeerMap, created, eventQueue, connectedClients, cpc,
                    eventQueueCopy, apc, freed, connectingPeers, packetQueue,
                    tryDisconnectQueue, tryConnectQueue>>
    BY <1>7 DEF CloseConnectingPeer, worker, consumer, queues
  <2> QED
    BY <1>1, <1>3, <2>1, <2>3, QueuesInv
<1>8. CASE Close
  <2>3. UNCHANGED <<left, wpc, peers, threadPeerMap, created, eventQueue, connectedClients,
                    cpc, eventQueueCopy, apc, freed, connectingPeers, packetQueue,
                    tryDisconnectQueue, tryConnectQueue>>
    BY <1>8 DEF Close, worker, consumer, queues
  <2> QED
    BY <1>1, <1>3, <2>3, QueuesInv
<1> QED
  BY <1>4, <1>5, <1>6, <1>7, <1>8 DEF Application

-----------------------------------------------------------------------------
(* The worker's steps that drop peers. *)

LEMMA DropTypes ==
  ASSUME NEW D, None \in D, NEW ps \in [Slots -> [state : PeerStates, data : D]], NEW slots
  PROVE  /\ Dropped(ps, slots) \in [Slots -> [state : PeerStates, data : D]]
         /\ Forgotten(ps, slots) \in [Slots -> [state : PeerStates, data : D]]
         /\ \A p \in Slots :
              /\ Dropped(ps, slots)[p].data = ps[p].data
              /\ Dropped(ps, slots)[p].state = IF p \in slots THEN "DISCONNECTED" ELSE ps[p].state
              /\ Forgotten(ps, slots)[p].data = IF p \in slots THEN None ELSE ps[p].data
              /\ Forgotten(ps, slots)[p].state = ps[p].state
<1>1. "DISCONNECTED" \in PeerStates
  BY DEF PeerStates
<1>2. \A p \in Slots : ps[p] \in [state : PeerStates, data : D]
  OBVIOUS
<1> QED
  BY <1>1, <1>2 DEF Dropped, Forgotten

PeerType == [Slots -> [state : PeerStates, data : {None} \cup Clients]]

\* A worker's step that drops some peers, forgets the data of some, and keeps the
\* rest of the map.
LEMMA DroppingInv ==
  ASSUME ServerInv,
         UNCHANGED <<left, created, packetQueue, tryConnectQueue, eventQueue,
                     connectedClients, cpc, eventQueueCopy, apc, freed>>,
         peers' \in PeerType, connectingPeers' \in Seq(Slots),
         tryDisconnectQueue' \in Seq(Clients),
         threadPeerMap' \in [DOMAIN threadPeerMap' -> Slots],
         \A p \in Slots : /\ peers'[p].data \in {peers[p].data, None}
                          /\ peers'[p].state \in {peers[p].state, "DISCONNECTED"},
         DataMapped',
         wpc' \in {"clear", "cleared", "close", "connect", "disconnect", "send",
                   "service", "events", "done"},
         wpc' = "done" => \A p \in Slots : peers'[p].data = None
  PROVE  ServerInv'
<1>1. ServerType'
  BY DEF ServerInv, ServerType, TypeOK, PeerType
<1>2. Room'
  <2>1. Attempts' \subseteq Attempts
    BY DEF Attempts
  <2>2. tryConnectQueue' \in Nat /\ left' \in [Kinds -> Nat]
    BY DEF ServerInv, ServerType, TypeOK
  <2>3. left["connect"] \in Nat /\ left["accept"] \in Nat /\ tryConnectQueue \in Nat
    BY NumbersOf DEF ServerInv
  <2> QED
    BY <2>1, <2>2, <2>3, RoomKept
<1>3. Phases'
  BY DEF ServerInv, Phases, ToSet
<1>4. HandOver' /\ Parted'
  BY HandOverKept
<1> QED
  BY <1>1, <1>2, <1>3, <1>4 DEF ServerInv

LEMMA WorkerTypes ==
  ASSUME ServerInv
  PROVE  /\ peers \in PeerType /\ connectingPeers \in Seq(Slots)
         /\ tryDisconnectQueue \in Seq(Clients)
         /\ threadPeerMap \in [DOMAIN threadPeerMap -> Slots]
         /\ \A p \in Slots : peers[p] \in [state : PeerStates, data : {None} \cup Clients]
  BY DEF ServerInv, ServerType, TypeOK, PeerType

LEMMA DisconnectAllEffect ==
  ASSUME ServerInv, DisconnectAllPeers
  PROVE  /\ peers' \in PeerType
         /\ \A p \in Slots : /\ peers'[p].data = None
                             /\ peers'[p].state \in {peers[p].state, "DISCONNECTED"}
         /\ threadPeerMap' = NoMap /\ connectingPeers' = <<>>
<1> DEFINE gone == Mapped \cup ToSet(connectingPeers)
           D == {None} \cup Clients
           dropped == Dropped(peers, gone)
<1>1. peers \in [Slots -> [state : PeerStates, data : D]] /\ None \in D
  BY WorkerTypes DEF PeerType
<1>2. peers' = Forgotten(dropped, Mapped) /\ threadPeerMap' = NoMap /\ connectingPeers' = <<>>
  BY DEF DisconnectAllPeers
<1> HIDE DEF D, gone
<1>3. /\ dropped \in [Slots -> [state : PeerStates, data : D]]
      /\ \A p \in Slots : /\ dropped[p].data = peers[p].data
                          /\ dropped[p].state \in {peers[p].state, "DISCONNECTED"}
  BY <1>1, DropTypes
<1> HIDE DEF dropped
<1>4. /\ peers' \in [Slots -> [state : PeerStates, data : D]]
      /\ \A p \in Slots : /\ peers'[p].data = IF p \in Mapped THEN None ELSE dropped[p].data
                          /\ peers'[p].state = dropped[p].state
  BY <1>1, <1>2, <1>3, DropTypes
<1>5. \A p \in Slots : p \notin Mapped => peers[p].data = None
  BY DEF ServerInv, DataMapped, Mapped, Range
<1> QED
  BY <1>2, <1>3, <1>4, <1>5 DEF PeerType, D

LEMMA WorkerExitServerInv == ASSUME ServerInv, WorkerExit PROVE ServerInv'
<1>1. UNCHANGED <<left, created, packetQueue, tryConnectQueue, tryDisconnectQueue,
                  eventQueue, connectedClients, cpc, eventQueueCopy, apc, freed>>
  BY DEF WorkerExit, queues, consumer
<1>2. CASE shouldExit
  <2>1. DisconnectAllPeers /\ wpc' = "done"
    BY <1>2 DEF WorkerExit
  <2>2. /\ peers' \in PeerType
        /\ \A p \in Slots : /\ peers'[p].data = None
                            /\ peers'[p].state \in {peers[p].state, "DISCONNECTED"}
        /\ threadPeerMap' = NoMap /\ connectingPeers' = <<>>
    BY <2>1, DisconnectAllEffect
  <2>3. DataMapped'
    BY <2>2 DEF DataMapped
  <2>4. threadPeerMap' \in [DOMAIN threadPeerMap' -> Slots] /\ connectingPeers' \in Seq(Slots)
    BY <2>2 DEF NoMap
  <2> QED
    BY <1>1, <2>1, <2>2, <2>3, <2>4, WorkerTypes, DroppingInv
<1>3. CASE ~ shouldExit
  <2>1. wpc' = "close" /\ UNCHANGED <<peers, threadPeerMap, connectingPeers>>
    BY <1>3 DEF WorkerExit
  <2>2. DataMapped'
    BY <2>1 DEF ServerInv, DataMapped
  <2> QED
    BY <1>1, <2>1, <2>2, WorkerTypes, DroppingInv
<1> QED
  BY <1>2, <1>3

LEMMA WorkerCloseServerInv == ASSUME ServerInv, WorkerClose PROVE ServerInv'
<1>1. UNCHANGED <<left, created, packetQueue, tryConnectQueue, tryDisconnectQueue,
                  eventQueue, connectedClients, cpc, eventQueueCopy, apc, freed,
                  threadPeerMap>>
      /\ wpc' = "connect"
  BY DEF WorkerClose, queues, consumer
<1>2. /\ peers' \in PeerType
      /\ \A p \in Slots : /\ peers'[p].data = peers[p].data
                          /\ peers'[p].state \in {peers[p].state, "DISCONNECTED"}
      /\ connectingPeers' \in Seq(Slots)
  <2>1. CASE closeConnecting
    <3> DEFINE D == {None} \cup Clients  slots == ToSet(connectingPeers)
    <3>1. peers' = Dropped(peers, slots) /\ connectingPeers' = <<>>
      BY <2>1 DEF WorkerClose
    <3>2. peers \in [Slots -> [state : PeerStates, data : D]] /\ None \in D
      BY WorkerTypes DEF PeerType
    <3>a. connectingPeers' \in Seq(Slots)
      BY <3>1
    <3> HIDE DEF D, slots
    <3>3. /\ peers' \in [Slots -> [state : PeerStates, data : D]]
          /\ \A p \in Slots : /\ peers'[p].data = peers[p].data
                              /\ peers'[p].state \in {peers[p].state, "DISCONNECTED"}
      BY <3>1, <3>2, DropTypes
    <3> QED
      BY <3>a, <3>3 DEF PeerType, D
  <2>2. CASE ~ closeConnecting
    BY <2>2, WorkerTypes DEF WorkerClose
  <2> QED
    BY <2>1, <2>2
<1>3. DataMapped'
  BY <1>1, <1>2 DEF ServerInv, DataMapped
<1> QED
  BY <1>1, <1>2, <1>3, WorkerTypes, DroppingInv

LEMMA WorkerDisconnectServerInv == ASSUME ServerInv, WorkerDisconnect PROVE ServerInv'
<1>1. UNCHANGED <<left, created, packetQueue, tryConnectQueue, eventQueue,
                  connectedClients, cpc, eventQueueCopy, apc, freed, connectingPeers>>
      /\ wpc' \in {"send", "disconnect"}
  BY DEF WorkerDisconnect, consumer
<1>2. tryDisconnectQueue' \in Seq(Clients)
  <2>1. CASE tryDisconnectQueue = <<>>
    BY <2>1, WorkerTypes DEF WorkerDisconnect
  <2>2. CASE tryDisconnectQueue # <<>>
    <3>1. tryDisconnectQueue' = Tail(tryDisconnectQueue)
      BY <2>2 DEF WorkerDisconnect
    <3> QED
      BY <2>2, <3>1, WorkerTypes, HeadTailProperties
  <2> QED
    BY <2>1, <2>2
<1>3. CASE UNCHANGED <<peers, threadPeerMap>>
  <2>1. DataMapped'
    BY <1>3 DEF ServerInv, DataMapped
  <2> QED
    BY <1>1, <1>2, <1>3, <2>1, WorkerTypes, DroppingInv
<1>4. ASSUME NEW uid \in DOMAIN threadPeerMap, NEW p, p = threadPeerMap[uid],
             peers' = Forgotten(Dropped(peers, {p}), {p}),
             threadPeerMap' = Unmap(uid)
      PROVE  ServerInv'
  <2> DEFINE D == {None} \cup Clients  dropped == Dropped(peers, {p})
  <2>1. peers \in [Slots -> [state : PeerStates, data : D]] /\ None \in D
    BY WorkerTypes DEF PeerType
  <2> HIDE DEF D
  <2>2. /\ dropped \in [Slots -> [state : PeerStates, data : D]]
        /\ \A q \in Slots : /\ dropped[q].data = peers[q].data
                            /\ dropped[q].state \in {peers[q].state, "DISCONNECTED"}
    BY <2>1, DropTypes
  <2>3. peers' = Forgotten(dropped, {p})
    BY <1>4
  <2> HIDE DEF dropped
  <2>4. /\ peers' \in [Slots -> [state : PeerStates, data : D]]
        /\ \A q \in Slots :
             /\ peers'[q].data = IF q = p THEN None ELSE dropped[q].data
             /\ peers'[q].state = dropped[q].state
    BY <2>1, <2>2, <2>3, DropTypes
  <2>5. \A q \in Slots : /\ peers'[q].data = IF q = p THEN None ELSE peers[q].data
                         /\ peers'[q].state \in {peers[q].state, "DISCONNECTED"}
    BY <2>2, <2>4
  <2>6. peers' \in PeerType
    BY <2>4 DEF PeerType, D
  <2>7. /\ DOMAIN threadPeerMap' = DOMAIN threadPeerMap \ {uid}
        /\ \A c \in DOMAIN threadPeerMap' : threadPeerMap'[c] = threadPeerMap[c]
        /\ threadPeerMap' \in [DOMAIN threadPeerMap' -> Slots]
    BY <1>4, WorkerTypes DEF Unmap
  <2>8. DataMapped'
    <3>1. ASSUME NEW q \in Slots, peers'[q].data # None
          PROVE  /\ peers'[q].data \in DOMAIN threadPeerMap'
                 /\ threadPeerMap'[peers'[q].data] = q
      <4>1. q # p /\ peers'[q].data = peers[q].data
        BY <2>5, <3>1
      <4>2. peers[q].data \in DOMAIN threadPeerMap /\ threadPeerMap[peers[q].data] = q
        BY <3>1, <4>1 DEF ServerInv, DataMapped
      <4>3. peers[q].data # uid
        BY <1>4, <4>1, <4>2
      <4> QED
        BY <2>7, <4>1, <4>2, <4>3
    <3> QED
      BY <3>1 DEF DataMapped
  <2> QED
    BY <1>1, <1>2, <2>5, <2>6, <2>7, <2>8, WorkerTypes, DroppingInv
<1> QED
  BY <1>3, <1>4 DEF WorkerDisconnect

\* A new attempt takes one address and one free peer.
LEMMA WorkerConnectServerInv == ASSUME ServerInv, WorkerConnect PROVE ServerInv'
<1>1. UNCHANGED <<left, threadPeerMap, created, packetQueue, tryDisconnectQueue,
                  eventQueue, connectedClients, cpc, eventQueueCopy, apc, freed>>
      /\ wpc' \in {"disconnect", "connect"}
  BY DEF WorkerConnect, consumer
<1>2. /\ tryConnectQueue \in Nat /\ left \in [Kinds -> Nat] /\ packetQueue \in Nat
      /\ left["connect"] \in Nat /\ left["accept"] \in Nat /\ created \in Nat
      /\ Cardinality(Attempts) \in Nat
  BY NumbersOf DEF ServerInv, ServerType, TypeOK
<1>3. CASE UNCHANGED <<peers, connectingPeers>>
  <2>1. tryConnectQueue' \in Nat /\ tryConnectQueue' =< tryConnectQueue
    BY <1>2 DEF WorkerConnect
  <2> QED
    BY <1>1, <1>2, <1>3, <2>1, WorkerTypes, QueuesInv
<1>4. ASSUME tryConnectQueue # 0, NEW p \in FreeSlots,
             peers' = [peers EXCEPT ![p].state = "CONNECTING"],
             connectingPeers' = Append(connectingPeers, p)
      PROVE  ServerInv'
  <2>1. p \in Slots /\ "CONNECTING" \in PeerStates /\ peers[p].state = "DISCONNECTED"
    BY DEF FreeSlots, PeerStates
  <2>2. /\ peers' \in PeerType
        /\ \A q \in Slots : /\ peers'[q].data = peers[q].data
                            /\ peers'[q].state = IF q = p THEN "CONNECTING" ELSE peers[q].state
    BY <1>4, <2>1, WorkerTypes DEF PeerType
  <2>3. tryConnectQueue' = tryConnectQueue - 1
    BY <1>4 DEF WorkerConnect
  <2>4. connectingPeers' \in Seq(Slots)
    BY <1>4, <2>1, WorkerTypes
  <2>5. tryConnectQueue' \in Nat
    BY <1>2, <1>4, <2>3
  <2>6. ServerType'
    BY <1>1, <1>2, <2>2, <2>4, <2>5 DEF ServerInv, ServerType, TypeOK, PeerType
  <2>7. Room'
    <3>1. Attempts' = Attempts \cup {p} /\ p \notin Attempts
      BY <2>1, <2>2 DEF Attempts
    <3>2. Cardinality(Attempts') = Cardinality(Attempts) + 1
      BY <3>1, NumbersOf, FS_AddElement DEF ServerInv
    <3>3. Cardinality(Clients) \in Nat
      BY ClientNumbers
    <3> QED
      BY <1>1, <1>2, <2>3, <3>2, <3>3 DEF ServerInv, Room
  <2>8. DataMapped'
    BY <1>1, <2>2 DEF ServerInv, DataMapped
  <2>9. Phases'
    BY <1>1, <2>2 DEF ServerInv, Phases, ToSet
  <2>10. HandOver' /\ Parted'
    BY <1>1, <2>2, HandOverKept
  <2> QED
    BY <2>6, <2>7, <2>8, <2>9, <2>10 DEF ServerInv
<1> QED
  BY <1>3, <1>4 DEF WorkerConnect

LEMMA WorkerServiceServerInv == ASSUME ServerInv, WorkerService PROVE ServerInv'
<1>1. UNCHANGED <<wpc, threadPeerMap, connectingPeers, created, packetQueue,
                  tryConnectQueue, tryDisconnectQueue, eventQueue, connectedClients,
                  cpc, eventQueueCopy, apc, freed>>
  BY DEF WorkerService, queues, consumer
<1>2. /\ tryConnectQueue \in Nat /\ left \in [Kinds -> Nat] /\ "accept" \in Kinds
      /\ "connect" \in Kinds
      /\ left["connect"] \in Nat /\ left["accept"] \in Nat /\ created \in Nat
      /\ Cardinality(Attempts) \in Nat
  BY NumbersOf DEF ServerInv, ServerType, TypeOK, Kinds
<1>3. PICK p \in Slots, s \in PeerStates :
        /\ <<peers[p].state, s>> \in Served
        /\ IF s = "PENDING" THEN Take("accept") ELSE UNCHANGED left
        /\ peers' = [peers EXCEPT ![p].state = s]
  BY DEF WorkerService
<1>4. /\ peers' \in PeerType
      /\ \A q \in Slots : /\ peers'[q].data = peers[q].data
                          /\ peers'[q].state = IF q = p THEN s ELSE peers[q].state
  BY <1>3, WorkerTypes DEF PeerType
<1>5. left' \in [Kinds -> Nat]
  BY <1>2, <1>3, TakeProperties
<1>6. ServerType'
  BY <1>1, <1>4, <1>5 DEF ServerInv, ServerType, TypeOK, PeerType
<1>7. Room'
  <2>1. CASE s = "PENDING"
    <3>1. peers[p].state = "DISCONNECTED"
      BY <1>3, <2>1 DEF Served
    <3>2. Attempts' = Attempts \cup {p} /\ p \notin Attempts
      BY <1>4, <2>1, <3>1 DEF Attempts
    <3>3. Cardinality(Attempts') = Cardinality(Attempts) + 1
      BY <3>2, NumbersOf, FS_AddElement DEF ServerInv
    <3>4. left'["accept"] = left["accept"] - 1 /\ left'["connect"] = left["connect"]
      BY <1>2, <1>3, <2>1, TakeProperties
    <3>5. Cardinality(Clients) \in Nat
      BY ClientNumbers
    <3> QED
      BY <1>1, <1>2, <3>3, <3>4, <3>5 DEF ServerInv, Room
  <2>2. CASE s # "PENDING"
    <3>1. s \in {"CONNECTING", "PENDING", "SUCCEEDED"} => peers[p].state = "CONNECTING"
      BY <1>3, <2>2 DEF Served
    <3>2. Attempts' \subseteq Attempts
      BY <1>4, <3>1 DEF Attempts
    <3>3. UNCHANGED left
      BY <1>3, <2>2
    <3> QED
      BY <1>1, <1>2, <3>2, <3>3, RoomKept
  <2> QED
    BY <2>1, <2>2
<1>8. DataMapped'
  BY <1>1, <1>4 DEF ServerInv, DataMapped
<1>9. Phases'
  BY <1>1, <1>4 DEF ServerInv, Phases, ToSet
<1>10. HandOver' /\ Parted'
  BY <1>1, <1>4, HandOverKept
<1> QED
  BY <1>6, <1>7, <1>8, <1>9, <1>10 DEF ServerInv

LEMMA WorkerSendServerInv == ASSUME ServerInv, WorkerSend \/ WorkerPolled PROVE ServerInv'
<1>1. UNCHANGED <<left, peers, threadPeerMap, created, tryConnectQueue, eventQueue,
                  connectedClients, cpc, eventQueueCopy, apc, freed, connectingPeers,
                  tryDisconnectQueue>>
      /\ wpc' \in {"service", "clear"} /\ packetQueue' \in {packetQueue, 0}
  BY DEF WorkerSend, WorkerPolled, queues, consumer
<1>2. left \in [Kinds -> Nat] /\ packetQueue \in Nat /\ tryConnectQueue \in Nat
      /\ tryDisconnectQueue \in Seq(Clients)
  BY DEF ServerInv, ServerType, TypeOK
<1>3. left["connect"] \in Nat /\ left["accept"] \in Nat
  BY NumbersOf DEF ServerInv
<1> QED
  BY <1>1, <1>2, <1>3, QueuesInv

-----------------------------------------------------------------------------
(* The worker's events. *)

LEMMA ConnectOf ==
  \A e \in Events : \A c : e = Event("CONNECT", c) <=> (e.type = "CONNECT" /\ e.client = c)
  BY DEF Events, Event

\* The first half of EventsInOrder; the second follows from OwnedOnce.
Ordered ==
  \A i, j \in DOMAIN Pending :
    (i < j /\ Pending[j].client = Pending[i].client) =>
      Pending[i].type # "DISCONNECT" /\ Pending[j].type # "CONNECT"

LEMMA OrderedInv == ServerInv => Ordered
  BY DEF ServerInv, HandOver, EventsInOrder, Ordered

LEMMA OwnedFacts ==
  ASSUME ServerInv
  PROVE  /\ ToSet(connectedClients) \subseteq Alive
         /\ \A i \in DOMAIN Pending : Pending[i].client \in Alive
         /\ Alive \subseteq 1 .. created
         /\ Alive \subseteq Clients
  BY ClientNumbers DEF ServerInv, ServerType, TypeOK, HandOver, OwnedOnce, NoneDangling, Alive

\* The events of clients that exist, and the CONNECT of one that is new, join the
\* queue; no event follows a DISCONNECT.
LEMMA AppendHandOver ==
  ASSUME ServerInv, NEW e \in Events, eventQueue' = Append(eventQueue, e),
         UNCHANGED <<eventQueueCopy, connectedClients, freed>>,
         \A i \in DOMAIN Pending : Pending[i] # Event("DISCONNECT", e.client),
         \/ e.type = "CONNECT" /\ e.client = created + 1 /\ created' = created + 1
         \/ e.type # "CONNECT" /\ e.client \in Alive /\ created' = created
  PROVE  /\ OwnedOnce' /\ EventsInOrder' /\ Unborn'
         /\ Alive \subseteq Alive' /\ e.client \in Alive'
         /\ \A i \in DOMAIN Pending' : Pending'[i].client \in Alive'
<1> DEFINE n == Len(Pending)  L == ToSet(connectedClients)
<1>1. /\ DOMAIN Pending' = 1 .. n + 1
      /\ \A i \in 1 .. n : Pending'[i] = Pending[i]
      /\ Pending'[n + 1] = e
  BY PendingAppend DEF ServerInv
<1>2. /\ n \in Nat /\ DOMAIN Pending = 1 .. n
      /\ \A i \in 1 .. n : Pending[i] \in Events
  BY PendingProperties DEF ServerInv
<1>3. created \in Nat /\ created' \in Nat
  BY NumbersOf DEF ServerInv
<1>4. e.client \in Clients /\ freed \in [Clients -> Nat]
  BY DEF Events, ServerInv, ServerType, TypeOK
<1>5. Alive' = Alive \cup {e.client}
  <2>1. freed[e.client] = 0
    BY <1>3, <1>4 DEF ServerInv, HandOver, Unborn, Alive
  <2>2. CASE e.type = "CONNECT"
    <3>1. 1 .. created' = (1 .. created) \cup {e.client}
      BY <1>3, <2>2
    <3> QED
      BY <2>1, <3>1 DEF Alive
  <2>3. CASE e.type # "CONNECT"
    BY <2>3 DEF Alive
  <2> QED
    BY <2>2, <2>3
<1>6. Unborn'
  BY <1>3, <1>4, SMTT(20) DEF ServerInv, HandOver, Unborn
<1>7. \A i \in 1 .. n : Pending[i].client \in Alive
  BY <1>2, OwnedFacts
<1> HIDE DEF n
<1>8. \A i \in DOMAIN Pending' : Pending'[i] \in Events /\ Pending'[i].client \in Alive'
  BY <1>1, <1>2, <1>5, <1>7
<1>9. e.type = "CONNECT" => e.client \notin Alive
  BY <1>3, OwnedFacts
<1>10. /\ Connects = {i \in 1 .. n : Pending[i].type = "CONNECT"}
       /\ Connects' = IF e.type = "CONNECT" THEN Connects \cup {n + 1} ELSE Connects
  <2>1. Connects = {i \in 1 .. n : Pending[i].type = "CONNECT"}
    BY <1>2 DEF Connects
  <2>2. Connects' = {i \in 1 .. n + 1 : Pending'[i].type = "CONNECT"}
    BY <1>1 DEF Connects
  <2>3. 1 .. n + 1 = (1 .. n) \cup {n + 1}
    BY <1>2
  <2> QED
    BY <1>1, <2>1, <2>2, <2>3
<1> DEFINE coming == {Pending[i].client : i \in Connects}
<1>11. {Pending'[i].client : i \in Connects'} =
         IF e.type = "CONNECT" THEN coming \cup {e.client} ELSE coming
  <2>1. \A i \in Connects : Pending'[i].client = Pending[i].client
    BY <1>1, <1>10
  <2>2. Pending'[n + 1].client = e.client
    BY <1>1
  <2>3. CASE e.type = "CONNECT"
    <3>1. Connects' = Connects \cup {n + 1}
      BY <1>10, <2>3
    <3>2. {Pending'[i].client : i \in Connects'}
            = {Pending'[i].client : i \in Connects} \cup {Pending'[n + 1].client}
      BY <3>1, Zenon
    <3>3. {Pending'[i].client : i \in Connects} = coming
      BY <2>1, Zenon
    <3> QED
      BY <2>2, <2>3, <3>2, <3>3
  <2>4. CASE e.type # "CONNECT"
    <3>1. Connects' = Connects
      BY <1>10, <2>4
    <3>2. {Pending'[i].client : i \in Connects'} = coming
      BY <2>1, <3>1, Zenon
    <3> QED
      BY <2>4, <3>2
  <2> QED
    BY <2>3, <2>4
<1>12. L' = L /\ L \subseteq Alive
  BY OwnedFacts DEF ToSet
<1>13. L \cap coming = {} /\ L \cup coming = Alive
  BY DEF ServerInv, HandOver, OwnedOnce
<1> HIDE DEF coming, L
<1>14. /\ L' \cap {Pending'[i].client : i \in Connects'} = {}
       /\ L' \cup {Pending'[i].client : i \in Connects'} = Alive'
  BY <1>5, <1>9, <1>11, <1>12, <1>13
<1>15. \A i, j \in Connects' : Pending'[i].client = Pending'[j].client => i = j
  <2>1. \A i, j \in Connects : Pending[i].client = Pending[j].client => i = j
    BY DEF ServerInv, HandOver, OwnedOnce
  <2>2. \A i \in Connects : i \in 1 .. n /\ Pending'[i].client = Pending[i].client
    BY <1>1, <1>10
  <2>3. \A i \in Connects : e.type = "CONNECT" => Pending'[i].client # e.client
    BY <1>7, <1>9, <2>2
  <2>4. Pending'[n + 1].client = e.client
    BY <1>1
  <2> QED
    BY <1>10, <2>1, <2>2, <2>3, <2>4
<1>16. OwnedOnce'
  <2>1. \A c \in Clients : freed'[c] =< 1
    BY DEF ServerInv, HandOver, OwnedOnce
  <2>2. \A i, j \in DOMAIN connectedClients' :
          connectedClients'[i] = connectedClients'[j] => i = j
    BY DEF ServerInv, HandOver, OwnedOnce
  <2> QED
    BY <1>14, <1>15, <2>1, <2>2 DEF OwnedOnce, L
<1>17. \A i, j \in DOMAIN Pending' :
         (i < j /\ Pending'[j].client = Pending'[i].client) =>
           Pending'[i].type # "DISCONNECT" /\ Pending'[j].type # "CONNECT"
  <2> SUFFICES ASSUME NEW i \in 1 .. n + 1, NEW j \in 1 .. n + 1, i < j,
                      Pending'[j].client = Pending'[i].client
               PROVE  Pending'[i].type # "DISCONNECT" /\ Pending'[j].type # "CONNECT"
    BY <1>1
  <2>1. i \in 1 .. n /\ Pending'[i] = Pending[i]
    BY <1>1, <1>2
  <2>2. CASE j \in 1 .. n
    <3>1. Pending'[j] = Pending[j]
      BY <1>1, <2>2
    <3> QED
      BY <1>2, <2>1, <2>2, <3>1, OrderedInv DEF Ordered
  <2>3. CASE j = n + 1
    <3>1. Pending[i].client = e.client
      BY <1>1, <2>1, <2>3
    <3>2. Pending[i].type # "DISCONNECT"
      <4>1. Pending[i] \in [type : {"CONNECT", "DISCONNECT", "RECEIVE"}, client : Clients]
        BY <1>2, <2>1 DEF Events
      <4>2. Pending[i] # Event("DISCONNECT", e.client)
        BY <1>2, <2>1
      <4> QED
        BY <3>1, <4>1, <4>2 DEF Event
    <3>3. e.type # "CONNECT"
      BY <1>7, <1>9, <2>1, <3>1
    <3> QED
      BY <1>1, <2>1, <2>3, <3>2, <3>3
  <2> QED
    BY <1>2, <2>2, <2>3
<1>18. EventsInOrder'
  <2>1. Connects' = {k \in DOMAIN Pending' : Pending'[k].type = "CONNECT"}
    BY DEF Connects
  <2>3. \A i \in DOMAIN Pending' :
          Pending'[i].client \in L'
            <=> \A j \in DOMAIN Pending' : Pending'[j] # Event("CONNECT", Pending'[i].client)
    <3> DEFINE P == Pending'  M == L'  A == Alive'
               C == {P[i].client : i \in {k \in DOMAIN P : P[k].type = "CONNECT"}}
    <3>2. \A i \in DOMAIN P : P[i] \in Events /\ P[i].client \in A
      BY <1>8
    <3>3. M \cap C = {} /\ M \cup C = A
      BY <1>14, <2>1
    <3> HIDE DEF P, M, A
    <3>1. \A c : c \in C <=> \E k \in DOMAIN P : P[k].type = "CONNECT" /\ P[k].client = c
      OBVIOUS
    <3> HIDE DEF C
    <3>4. \A i \in DOMAIN P :
            P[i].client \in M <=> \A j \in DOMAIN P : P[j] # Event("CONNECT", P[i].client)
      <4> TAKE i \in DOMAIN P
      <4>1. P[i].client \in M <=> P[i].client \notin C
        BY <3>2, <3>3
      <4>2. \A j \in DOMAIN P : P[j] = Event("CONNECT", P[i].client) <=>
              (P[j].type = "CONNECT" /\ P[j].client = P[i].client)
        BY <3>2, ConnectOf
      <4> QED
        BY <3>1, <4>1, <4>2
    <3> QED
      BY <3>4 DEF P, M
  <2> QED
    BY <1>17, <2>3 DEF EventsInOrder, L
<1> QED
  BY <1>5, <1>6, <1>8, <1>16, <1>18

LEMMA EraseFirstType ==
  ASSUME connectingPeers \in Seq(Slots), NEW p, EraseFirst(p)
  PROVE  connectingPeers' \in Seq(Slots)
<1>1. CASE p \in ToSet(connectingPeers)
  <2>1. PICK i \in DOMAIN connectingPeers : connectingPeers' = RemoveAt(connectingPeers, i)
    BY <1>1 DEF EraseFirst
  <2> QED
    BY <2>1, RemoveAtProperties
<1>2. CASE p \notin ToSet(connectingPeers)
  BY <1>2 DEF EraseFirst
<1> QED
  BY <1>1, <1>2

\* The types, but for the peers, that a step of polling keeps.
LEMMA PollingPhases ==
  ASSUME ServerInv, Polling, UNCHANGED <<cpc, eventQueueCopy, connectedClients>>
  PROVE  Phases' /\ wpc' = "events"
  BY DEF Polling, ServerInv, Phases, ToSet

LEMMA ConnectEventServerInv ==
  ASSUME ServerInv, NEW p \in Slots, ConnectEvent(p)
  PROVE  ServerInv'
<1> DEFINE client == created + 1  e == Event("CONNECT", client)
<1>1. /\ UNCHANGED <<left, packetQueue, tryConnectQueue, tryDisconnectQueue,
                     connectedClients, cpc, eventQueueCopy, apc, freed>>
      /\ Polling /\ peers[p].state \in {"PENDING", "SUCCEEDED"}
      /\ created' = client /\ EraseFirst(p)
      /\ peers' = [peers EXCEPT ![p] = [state |-> Polled[@.state], data |-> client]]
      /\ threadPeerMap' = [c \in DOMAIN threadPeerMap \cup {client} |->
                            IF c = client THEN p ELSE threadPeerMap[c]]
      /\ eventQueue' = Append(eventQueue, e)
  BY DEF ConnectEvent, consumer
<1>2. /\ tryConnectQueue \in Nat /\ left["connect"] \in Nat /\ left["accept"] \in Nat
      /\ created \in Nat /\ Cardinality(Attempts) \in Nat /\ IsFiniteSet(Attempts)
  BY NumbersOf DEF ServerInv
<1>3. p \in Attempts
  BY <1>1 DEF Attempts
<1>4. Cardinality(Attempts \ {p}) = Cardinality(Attempts) - 1
      /\ Cardinality(Attempts \ {p}) \in Nat
  BY <1>2, <1>3, FS_RemoveElement, FS_CardinalityType
<1>5. client \in Clients /\ Cardinality(Clients) \in Nat /\ client =< Cardinality(Clients)
  BY <1>2, <1>4, ClientNumbers DEF ServerInv, Room
<1>6. e \in Events /\ e.type = "CONNECT" /\ e.client = client
  BY <1>5 DEF Event, Events
<1>7. /\ peers' \in PeerType
      /\ \A q \in Slots : peers'[q] = IF q = p THEN [state |-> "CONNECTED", data |-> client]
                                     ELSE peers[q]
  <2>1. Polled[peers[p].state] = "CONNECTED" /\ "CONNECTED" \in PeerStates
    BY <1>1 DEF Polled, PeerStates
  <2>2. peers' = [peers EXCEPT ![p] = [state |-> "CONNECTED", data |-> client]]
    BY <1>1, <2>1
  <2> QED
    BY <1>5, <2>1, <2>2, WorkerTypes DEF PeerType
<1>8. ASSUME NEW i \in DOMAIN Pending PROVE Pending[i] # Event("DISCONNECT", client)
  <2>1. Pending[i].client \in 1 .. created
    BY OwnedFacts
  <2> QED
    BY <1>2, <2>1 DEF Event
<1>9. /\ OwnedOnce' /\ EventsInOrder' /\ Unborn'
      /\ Alive \subseteq Alive' /\ client \in Alive'
      /\ \A i \in DOMAIN Pending' : Pending'[i].client \in Alive'
  <2> HIDE DEF client, e
  <2> QED
    BY <1>1, <1>6, <1>8, AppendHandOver DEF client
<1>10. NoneDangling'
  <2>1. \A q \in Slots : peers'[q].data \in Alive' \cup {None}
    BY <1>7, <1>9 DEF ServerInv, HandOver, NoneDangling
  <2> QED
    BY <1>9, <2>1 DEF NoneDangling
<1>11. ServerType'
  <2>1. threadPeerMap' \in [DOMAIN threadPeerMap' -> Slots]
    BY <1>1, WorkerTypes
  <2>2. connectingPeers' \in Seq(Slots)
    BY <1>1, WorkerTypes, EraseFirstType
  <2>3. eventQueue' \in Seq(Events)
    BY <1>1, <1>6 DEF ServerInv, ServerType
  <2>4. created' \in 0 .. Cardinality(Clients)
    BY <1>1, <1>2, <1>5
  <2>5. wpc' = "events"
    BY <1>1 DEF Polling
  <2> QED
    BY <1>1, <1>7, <2>1, <2>2, <2>3, <2>4, <2>5 DEF ServerInv, ServerType, TypeOK, PeerType
<1>12. Room'
  <2>1. Attempts' = Attempts \ {p}
    BY <1>3, <1>7 DEF Attempts
  <2> QED
    BY <1>1, <1>2, <1>4, <1>5, <2>1 DEF ServerInv, Room
<1>13. DataMapped'
  <2>1. ASSUME NEW q \in Slots, peers'[q].data # None
        PROVE  peers'[q].data \in DOMAIN threadPeerMap' /\ threadPeerMap'[peers'[q].data] = q
    <3>1. CASE q = p
      BY <1>1, <1>7, <3>1
    <3>2. CASE q # p
      <4>1. peers'[q] = peers[q]
        BY <1>7, <3>2
      <4>2. peers[q].data \in DOMAIN threadPeerMap /\ threadPeerMap[peers[q].data] = q
        BY <2>1, <4>1 DEF ServerInv, DataMapped
      <4>3. peers[q].data # client
        <5>1. peers[q].data \in 1 .. created
          BY <2>1, <4>1, OwnedFacts DEF ServerInv, HandOver, NoneDangling
        <5> QED
          BY <1>2, <5>1
      <4> QED
        BY <1>1, <4>1, <4>2, <4>3
    <3> QED
      BY <3>1, <3>2
  <2> QED
    BY <2>1 DEF DataMapped
<1>14. Parted'
  <2> DEFINE n == Len(Pending)
  <2>1. /\ DOMAIN Pending' = 1 .. n + 1
        /\ \A i \in 1 .. n : Pending'[i] = Pending[i]
        /\ Pending'[n + 1] = e
    BY <1>1, <1>6, PendingAppend DEF ServerInv
  <2>2. n \in Nat /\ DOMAIN Pending = 1 .. n
    BY PendingProperties DEF ServerInv
  <2> HIDE DEF n
  <2>3. ASSUME NEW q \in Slots, NEW i \in DOMAIN Pending', peers'[q].data # None
        PROVE  Pending'[i] # Event("DISCONNECT", peers'[q].data)
    <3>1. CASE i = n + 1
      BY <1>6, <2>1, <3>1 DEF Event
    <3>2. CASE i # n + 1
      <4>1. i \in DOMAIN Pending /\ Pending'[i] = Pending[i]
        BY <2>1, <2>2, <3>2
      <4>2. CASE q = p
        BY <1>7, <1>8, <4>1, <4>2
      <4>3. CASE q # p
        BY <1>7, <2>3, <4>1, <4>3 DEF ServerInv, Parted
      <4> QED
        BY <4>2, <4>3
    <3> QED
      BY <3>1, <3>2
  <2> QED
    BY <2>3 DEF Parted
<1> QED
  BY <1>1, <1>9, <1>10, <1>11, <1>12, <1>13, <1>14, PollingPhases DEF ServerInv, HandOver

LEMMA DisconnectEventServerInv ==
  ASSUME ServerInv, NEW p \in Slots, DisconnectEvent(p)
  PROVE  ServerInv'
<1> DEFINE client == peers[p].data  e == Event("DISCONNECT", client)
<1>1. /\ UNCHANGED <<left, created, connectingPeers, packetQueue, tryConnectQueue,
                     tryDisconnectQueue, connectedClients, cpc, eventQueueCopy, apc, freed>>
      /\ Polling
      /\ peers' = [peers EXCEPT ![p] = FreePeer]
      /\ IF client # None
         THEN threadPeerMap' = Unmap(client) /\ eventQueue' = Append(eventQueue, e)
         ELSE UNCHANGED <<threadPeerMap, eventQueue>>
  BY DEF DisconnectEvent, consumer
<1>2. /\ peers' \in PeerType
      /\ \A q \in Slots : peers'[q] = IF q = p THEN FreePeer ELSE peers[q]
  BY <1>1, WorkerTypes DEF PeerType, FreePeer, PeerStates
<1>3. FreePeer.state = "DISCONNECTED" /\ FreePeer.data = None
  BY DEF FreePeer
<1>4. left \in [Kinds -> Nat] /\ tryConnectQueue \in Nat
      /\ left["connect"] \in Nat /\ left["accept"] \in Nat
  BY NumbersOf DEF ServerInv, ServerType, TypeOK
<1>5. Room'
  <2>1. Attempts' \subseteq Attempts
    BY <1>2, <1>3 DEF Attempts
  <2> QED
    BY <1>1, <1>4, <2>1, RoomKept
<1>6. Phases' /\ wpc' = "events"
  BY <1>1, PollingPhases
<1>7. CASE client = None
  <2>1. ServerType'
    BY <1>1, <1>2, <1>6, <1>7 DEF ServerInv, ServerType, TypeOK, PeerType
  <2>2. HandOver' /\ Parted'
    BY <1>1, <1>2, <1>3, <1>7, HandOverKept
  <2>3. DataMapped'
    BY <1>1, <1>2, <1>3, <1>7 DEF ServerInv, DataMapped
  <2> QED
    BY <1>5, <1>6, <2>1, <2>2, <2>3 DEF ServerInv
<1>8. CASE client # None
  <2>1. client \in Alive /\ client \in Clients
    BY <1>8, OwnedFacts DEF ServerInv, HandOver, NoneDangling
  <2>2. e \in Events /\ e.type = "DISCONNECT" /\ e.client = client
    BY <2>1 DEF Event, Events
  <2>3. eventQueue' = Append(eventQueue, e) /\ threadPeerMap' = Unmap(client)
    BY <1>1, <1>8
  <2>4. \A i \in DOMAIN Pending : Pending[i] # Event("DISCONNECT", client)
    BY <1>8 DEF ServerInv, Parted
  <2>a. /\ client \in DOMAIN threadPeerMap /\ threadPeerMap[client] = p
    BY <1>8 DEF ServerInv, DataMapped
  <2>b. /\ DOMAIN threadPeerMap' = DOMAIN threadPeerMap \ {client}
        /\ \A c \in DOMAIN threadPeerMap' : threadPeerMap'[c] = threadPeerMap[c]
        /\ threadPeerMap' \in [DOMAIN threadPeerMap' -> Slots]
    BY <2>3, WorkerTypes DEF Unmap
  <2>5. ASSUME NEW q \in Slots, peers'[q].data # None
        PROVE  q # p /\ peers'[q] = peers[q] /\ peers[q].data # client
               /\ peers[q].data \in DOMAIN threadPeerMap /\ threadPeerMap[peers[q].data] = q
    <3>1. q # p /\ peers'[q] = peers[q]
      BY <1>2, <1>3, <2>5
    <3>2. peers[q].data \in DOMAIN threadPeerMap /\ threadPeerMap[peers[q].data] = q
      BY <2>5, <3>1 DEF ServerInv, DataMapped
    <3> QED
      BY <2>a, <3>1, <3>2
  <2> HIDE DEF client
  <2>6. /\ OwnedOnce' /\ EventsInOrder' /\ Unborn'
        /\ Alive \subseteq Alive'
        /\ \A i \in DOMAIN Pending' : Pending'[i].client \in Alive'
    <3> HIDE DEF e
    <3> QED
      BY <1>1, <2>1, <2>2, <2>3, <2>4, AppendHandOver
  <2>7. NoneDangling'
    <3>1. \A q \in Slots : peers'[q].data \in Alive' \cup {None}
      BY <1>2, <1>3, <2>6 DEF ServerInv, HandOver, NoneDangling
    <3> QED
      BY <2>6, <3>1 DEF NoneDangling
  <2>8. ServerType'
    <3>1. eventQueue' \in Seq(Events)
      BY <2>2, <2>3 DEF ServerInv, ServerType
    <3> QED
      BY <1>1, <1>2, <1>6, <2>b, <3>1 DEF ServerInv, ServerType, TypeOK, PeerType
  <2>9. DataMapped'
    BY <2>b, <2>5 DEF DataMapped
  <2>10. Parted'
    <3> DEFINE n == Len(Pending)
    <3>1. /\ DOMAIN Pending' = 1 .. n + 1
          /\ \A i \in 1 .. n : Pending'[i] = Pending[i]
          /\ Pending'[n + 1] = e
      BY <1>1, <2>2, <2>3, PendingAppend DEF ServerInv
    <3>2. n \in Nat /\ DOMAIN Pending = 1 .. n
      BY PendingProperties DEF ServerInv
    <3> HIDE DEF n
    <3>3. ASSUME NEW q \in Slots, NEW i \in DOMAIN Pending', peers'[q].data # None
          PROVE  Pending'[i] # Event("DISCONNECT", peers'[q].data)
      <4>1. CASE i = n + 1
        BY <2>5, <3>1, <3>3, <4>1 DEF Event
      <4>2. CASE i # n + 1
        <5>1. i \in DOMAIN Pending /\ Pending'[i] = Pending[i]
          BY <3>1, <3>2, <4>2
        <5> QED
          BY <2>5, <3>3, <5>1 DEF ServerInv, Parted
      <4> QED
        BY <4>1, <4>2
    <3> QED
      BY <3>3 DEF Parted
  <2> QED
    BY <1>5, <1>6, <2>6, <2>7, <2>8, <2>9, <2>10 DEF ServerInv, HandOver
<1> QED
  BY <1>7, <1>8

LEMMA ReceiveEventServerInv ==
  ASSUME ServerInv, NEW p \in Slots, ReceiveEvent(p)
  PROVE  ServerInv'
<1> DEFINE client == peers[p].data  e == Event("RECEIVE", client)
<1>1. /\ UNCHANGED <<peers, threadPeerMap, created, connectingPeers, packetQueue,
                     tryConnectQueue, tryDisconnectQueue, connectedClients, cpc,
                     eventQueueCopy, apc, freed>>
      /\ Polling /\ Take("receive")
      /\ eventQueue' = IF client # None THEN Append(eventQueue, e) ELSE eventQueue
  BY DEF ReceiveEvent, consumer
<1>2. /\ left \in [Kinds -> Nat] /\ tryConnectQueue \in Nat
      /\ left["connect"] \in Nat /\ left["accept"] \in Nat
  BY NumbersOf DEF ServerInv, ServerType, TypeOK
<1>3. /\ left' \in [Kinds -> Nat] /\ left'["connect"] = left["connect"]
      /\ left'["accept"] = left["accept"]
  BY <1>1, <1>2, TakeProperties DEF Kinds
<1>4. Room'
  <2>1. Attempts' = Attempts
    BY <1>1 DEF Attempts
  <2> QED
    BY <1>1, <1>2, <1>3, <2>1, RoomKept
<1>5. Phases' /\ wpc' = "events"
  BY <1>1, PollingPhases
<1>6. DataMapped'
  BY <1>1 DEF ServerInv, DataMapped
<1>7. CASE client = None
  <2>1. ServerType'
    BY <1>1, <1>3, <1>5, <1>7 DEF ServerInv, ServerType, TypeOK
  <2>2. HandOver' /\ Parted'
    BY <1>1, <1>7, HandOverKept
  <2> QED
    BY <1>4, <1>5, <1>6, <2>1, <2>2 DEF ServerInv
<1>8. CASE client # None
  <2>1. client \in Alive /\ client \in Clients
    BY <1>8, OwnedFacts DEF ServerInv, HandOver, NoneDangling
  <2>2. e \in Events /\ e.type = "RECEIVE" /\ e.client = client
    BY <2>1 DEF Event, Events
  <2>3. eventQueue' = Append(eventQueue, e)
    BY <1>1, <1>8
  <2>4. \A i \in DOMAIN Pending : Pending[i] # Event("DISCONNECT", client)
    BY <1>8 DEF ServerInv, Parted
  <2> HIDE DEF client
  <2>6. /\ OwnedOnce' /\ EventsInOrder' /\ Unborn'
        /\ Alive \subseteq Alive'
        /\ \A i \in DOMAIN Pending' : Pending'[i].client \in Alive'
    <3> HIDE DEF e
    <3> QED
      BY <1>1, <2>1, <2>2, <2>3, <2>4, AppendHandOver
  <2>7. NoneDangling'
    <3>1. \A q \in Slots : peers'[q].data \in Alive' \cup {None}
      BY <1>1, <2>6 DEF ServerInv, HandOver, NoneDangling
    <3> QED
      BY <2>6, <3>1 DEF NoneDangling
  <2>8. ServerType'
    <3>1. eventQueue' \in Seq(Events)
      BY <2>2, <2>3 DEF ServerInv, ServerType
    <3> QED
      BY <1>1, <1>3, <1>5, <3>1 DEF ServerInv, ServerType, TypeOK
  <2>10. Parted'
    <3> DEFINE n == Len(Pending)
    <3>1. /\ DOMAIN Pending' = 1 .. n + 1
          /\ \A i \in 1 .. n : Pending'[i] = Pending[i]
          /\ Pending'[n + 1] = e
      BY <1>1, <2>2, <2>3, PendingAppend DEF ServerInv
    <3>2. n \in Nat /\ DOMAIN Pending = 1 .. n
      BY PendingProperties DEF ServerInv
    <3> HIDE DEF n
    <3>3. ASSUME NEW q \in Slots, NEW i \in DOMAIN Pending', peers'[q].data # None
          PROVE  Pending'[i] # Event("DISCONNECT", peers'[q].data)
      <4>1. CASE i = n + 1
        BY <3>1, <4>1 DEF Event
      <4>2. CASE i # n + 1
        <5>1. i \in DOMAIN Pending /\ Pending'[i] = Pending[i]
          BY <3>1, <3>2, <4>2
        <5> QED
          BY <1>1, <3>3, <5>1 DEF ServerInv, Parted
      <4> QED
        BY <4>1, <4>2
    <3> QED
      BY <3>3 DEF Parted
  <2> QED
    BY <1>4, <1>5, <1>6, <2>6, <2>7, <2>8, <2>10 DEF ServerInv, HandOver
<1> QED
  BY <1>7, <1>8

-----------------------------------------------------------------------------
(* The consumer. *)

\* The consumer's steps leave the worker's data alone.
LEMMA ConsumerOnly ==
  ASSUME ServerInv,
         UNCHANGED <<left, wpc, peers, threadPeerMap, connectingPeers, created,
                     tryConnectQueue, tryDisconnectQueue, apc>>,
         packetQueue' \in Nat, eventQueue' \in Seq(Events),
         eventQueueCopy' \in Seq(Events), connectedClients' \in Seq(Clients),
         freed' \in [Clients -> Nat], cpc' \in {"consume", "erase", "join", "done"}
  PROVE  ServerType' /\ Room' /\ DataMapped'
<1>1. ServerType'
  BY DEF ServerInv, ServerType, TypeOK
<1>2. Room'
  <2>1. Attempts' = Attempts
    BY DEF Attempts
  <2> QED
    BY <2>1 DEF ServerInv, Room
<1>3. DataMapped'
  BY DEF ServerInv, DataMapped
<1> QED
  BY <1>1, <1>2, <1>3

LEMMA ConsumerTypes ==
  ASSUME ServerInv
  PROVE  /\ packetQueue \in Nat /\ eventQueue \in Seq(Events)
         /\ eventQueueCopy \in Seq(Events) /\ connectedClients \in Seq(Clients)
         /\ freed \in [Clients -> Nat]
  BY DEF ServerInv, ServerType, TypeOK

\* Steps that handle no event.
LEMMA ConsumerMovesInv ==
  ASSUME ServerInv, ConsumeEvents \/ OnClientDisconnected \/ CheckExit
  PROVE  ServerInv'
<1>1. UNCHANGED <<left, wpc, peers, threadPeerMap, connectingPeers, created,
                  tryConnectQueue, tryDisconnectQueue, apc, packetQueue,
                  connectedClients, freed>>
  BY DEF ConsumeEvents, OnClientDisconnected, CheckExit, worker, queues
<1>2. /\ eventQueue' \in Seq(Events) /\ eventQueueCopy' \in Seq(Events)
      /\ cpc' \in {"consume", "erase", "join", "done"}
  <2>1. CASE ConsumeEvents
    BY <2>1, ConsumerTypes DEF ConsumeEvents
  <2>2. CASE OnClientDisconnected
    BY <2>2, ConsumerTypes DEF OnClientDisconnected, queues
  <2>3. CASE CheckExit
    BY <2>3, ConsumerTypes DEF CheckExit, queues
  <2> QED
    BY <2>1, <2>2, <2>3
<1>3. Pending' = Pending
  <2>1. CASE ConsumeEvents
    BY <2>1, PendingSwap DEF ServerInv
  <2>2. CASE OnClientDisconnected
    BY <2>2 DEF OnClientDisconnected, queues, Pending
  <2>3. CASE CheckExit
    BY <2>3 DEF CheckExit, queues, Pending
  <2> QED
    BY <2>1, <2>2, <2>3
<1>4. Phases'
  <2>1. CASE ConsumeEvents
    <3>1. cpc' = "consume" /\ UNCHANGED <<wpc, peers>>
      BY <2>1 DEF ConsumeEvents, worker
    <3> QED
      BY <3>1 DEF ServerInv, Phases
  <2>2. CASE OnClientDisconnected
    BY <2>2 DEF OnClientDisconnected, Current, worker, ServerInv, Phases, ToSet
  <2>3. CASE CheckExit
    BY <2>3 DEF CheckExit, worker, ServerInv, Phases
  <2> QED
    BY <2>1, <2>2, <2>3
<1>5. HandOver' /\ Parted'
  BY <1>1, <1>3, PendingKept
<1> QED
  BY <1>1, <1>2, <1>4, <1>5, ConsumerTypes, ConsumerOnly DEF ServerInv

\* What becomes of the events when the first one is handled: its CONNECT puts the
\* client in the list, its DISCONNECT takes it out and deletes it.
LEMMA TailHandOver ==
  ASSUME ServerInv, eventQueueCopy # <<>>, eventQueueCopy' = Tail(eventQueueCopy),
         UNCHANGED <<eventQueue, created>>,
         NEW h, h = Head(eventQueueCopy),
         \A c \in Clients : freed'[c] =< 1,
         \A i, j \in DOMAIN connectedClients' :
           connectedClients'[i] = connectedClients'[j] => i = j,
         ToSet(connectedClients') =
           CASE h.type = "CONNECT" -> ToSet(connectedClients) \cup {h.client}
             [] h.type = "DISCONNECT" -> ToSet(connectedClients) \ {h.client}
             [] h.type = "RECEIVE" -> ToSet(connectedClients),
         Alive' = IF h.type = "DISCONNECT" THEN Alive \ {h.client} ELSE Alive,
         h.type = "DISCONNECT" => h.client \in ToSet(connectedClients)
  PROVE  /\ OwnedOnce' /\ EventsInOrder'
         /\ \A i \in DOMAIN Pending' : Pending'[i].client \in Alive'
         /\ \A i \in DOMAIN Pending' : \E k \in DOMAIN Pending : Pending'[i] = Pending[k]
<1> DEFINE n == Len(Pending)  L == ToSet(connectedClients)  M == ToSet(connectedClients')
           P == Pending  R == Pending'  A == Alive  B == Alive'
           C == {P[i].client : i \in Connects}
           D == {R[i].client : i \in Connects'}
<1>1. /\ n > 0 /\ P[1] = h /\ DOMAIN R = 1 .. n - 1
      /\ \A i \in 1 .. n - 1 : R[i] = P[i + 1]
  BY PendingTail DEF ServerInv
<1>2. /\ n \in Nat /\ DOMAIN P = 1 .. n
      /\ \A i \in 1 .. n : P[i] \in Events
  BY PendingProperties DEF ServerInv
<1>3. /\ Connects = {i \in DOMAIN P : P[i].type = "CONNECT"}
      /\ Connects' = {i \in DOMAIN R : R[i].type = "CONNECT"}
  BY DEF Connects
<1>4. \A i, j \in DOMAIN P : (i < j /\ P[j].client = P[i].client) =>
        P[i].type # "DISCONNECT" /\ P[j].type # "CONNECT"
  BY OrderedInv DEF Ordered
<1>5. /\ \A i, j \in Connects : P[i].client = P[j].client => i = j
      /\ L \cap C = {} /\ L \cup C = A
  BY DEF ServerInv, HandOver, OwnedOnce
<1>6. \A i \in 1 .. n : P[i].client \in A
  BY <1>2, OwnedFacts
<1>7. M = CASE h.type = "CONNECT" -> L \cup {h.client}
            [] h.type = "DISCONNECT" -> L \ {h.client}
            [] h.type = "RECEIVE" -> L
  OBVIOUS
<1>8. /\ B = IF h.type = "DISCONNECT" THEN A \ {h.client} ELSE A
      /\ h.type = "DISCONNECT" => h.client \in L
  OBVIOUS
<1>9. \A c : c \in C <=> \E k \in DOMAIN P : P[k].type = "CONNECT" /\ P[k].client = c
  BY <1>3
<1>10. \A c : c \in D <=> \E k \in DOMAIN R : R[k].type = "CONNECT" /\ R[k].client = c
  BY <1>3
<1>11. h \in Events /\ h.type \in {"CONNECT", "DISCONNECT", "RECEIVE"}
  <2>1. h \in Events
    BY <1>1, <1>2
  <2> QED
    BY <2>1 DEF Events
<1> HIDE DEF n, L, M, P, R, A, B, C, D
<1>12. \A i \in DOMAIN R : i + 1 \in DOMAIN P /\ 1 \in DOMAIN P /\ R[i] = P[i + 1] /\ 1 < i + 1
  BY <1>1, <1>2
<1>13. \A k \in DOMAIN P : k = 1 \/ (k - 1 \in DOMAIN R /\ R[k - 1] = P[k])
  <2> TAKE k \in DOMAIN P
  <2>1. CASE k # 1
    <3>1. k - 1 \in 1 .. n - 1 /\ (k - 1) + 1 = k
      BY <1>2, <2>1
    <3> QED
      BY <1>1, <3>1
  <2> QED
    BY <2>1
<1>14. \A i \in DOMAIN R : R[i] \in Events /\ R[i].client \in B
  <2> TAKE i \in DOMAIN R
  <2>1. R[i] \in Events /\ R[i].client \in A
    BY <1>2, <1>6, <1>12
  <2>2. h.type = "DISCONNECT" => R[i].client # h.client
    BY <1>1, <1>4, <1>12
  <2> QED
    BY <1>8, <2>1, <2>2
<1>15. D = IF h.type = "CONNECT" THEN C \ {h.client} ELSE C
  <2>1. ASSUME NEW c \in D PROVE c \in C /\ (h.type = "CONNECT" => c # h.client)
    <3>1. PICK k \in DOMAIN R : R[k].type = "CONNECT" /\ R[k].client = c
      BY <1>10, <2>1
    <3>2. k + 1 \in Connects /\ P[k + 1].client = c /\ k + 1 # 1
      BY <1>3, <1>12, <3>1
    <3>3. c \in C
      BY <1>3, <1>9, <3>2
    <3>4. h.type = "CONNECT" => 1 \in Connects /\ P[1] = h
      BY <1>1, <1>3, <1>12
    <3> QED
      BY <1>5, <3>2, <3>3, <3>4
  <2>2. ASSUME NEW c \in C, ~ (h.type = "CONNECT" /\ c = h.client) PROVE c \in D
    <3>1. PICK k \in DOMAIN P : P[k].type = "CONNECT" /\ P[k].client = c
      BY <1>9, <2>2
    <3>2. k # 1
      BY <1>1, <2>2, <3>1
    <3> QED
      BY <1>10, <1>13, <3>1, <3>2
  <2> QED
    BY <2>1, <2>2
<1>16. h.type = "CONNECT" => h.client \in C
  BY <1>1, <1>2, <1>9
<1>17. M \cap D = {} /\ M \cup D = B
  <2>1. CASE h.type = "CONNECT"
    <3>1. M = L \cup {h.client} /\ D = C \ {h.client} /\ B = A
      BY <1>7, <1>8, <1>15, <2>1
    <3> QED
      BY <1>5, <1>16, <2>1, <3>1
  <2>2. CASE h.type = "DISCONNECT"
    <3>1. M = L \ {h.client} /\ D = C /\ B = A \ {h.client}
      BY <1>7, <1>8, <1>15, <2>2
    <3> QED
      BY <1>5, <1>8, <2>2, <3>1
  <2>3. CASE h.type = "RECEIVE"
    <3>1. M = L /\ D = C /\ B = A
      BY <1>7, <1>8, <1>15, <2>3
    <3> QED
      BY <1>5, <3>1
  <2> QED
    BY <1>11, <2>1, <2>2, <2>3
<1>18. \A i, j \in Connects' : R[i].client = R[j].client => i = j
  <2>1. \A i \in Connects' : i + 1 \in Connects /\ R[i] = P[i + 1] /\ i \in Int
    BY <1>1, <1>3, <1>12
  <2>2. \A i, j \in Int : i + 1 = j + 1 => i = j
    OBVIOUS
  <2> QED
    BY <1>5, <2>1, <2>2
<1>19. \A i, j \in DOMAIN R : (i < j /\ R[j].client = R[i].client) =>
         R[i].type # "DISCONNECT" /\ R[j].type # "CONNECT"
  <2> TAKE i, j \in DOMAIN R
  <2>1. i < j => i + 1 < j + 1
    BY <1>1, <1>2
  <2> QED
    BY <1>4, <1>12, <2>1
<1>20. \A i \in DOMAIN R :
         R[i].client \in M <=> \A j \in DOMAIN R : R[j] # Event("CONNECT", R[i].client)
  <2> TAKE i \in DOMAIN R
  <2>1. R[i].client \in M <=> R[i].client \notin D
    BY <1>14, <1>17
  <2>2. \A j \in DOMAIN R : R[j] = Event("CONNECT", R[i].client) <=>
          (R[j].type = "CONNECT" /\ R[j].client = R[i].client)
    BY <1>14, ConnectOf
  <2> QED
    BY <1>10, <2>1, <2>2
<1>21. ToSet(connectedClients)' = M
  BY DEF M, ToSet
<1>22. OwnedOnce'
  BY <1>17, <1>18, <1>21 DEF OwnedOnce, R, B, D
<1>23. EventsInOrder'
  BY <1>19, <1>20, <1>21 DEF EventsInOrder, R
<1>24. \A i \in DOMAIN R : \E k \in DOMAIN P : R[i] = P[k]
  BY <1>12
<1> QED
  BY <1>14, <1>22, <1>23, <1>24 DEF R, P, B

\* The facts that the three steps which handle an event share.
LEMMA HandledInv ==
  ASSUME ServerInv, cpc' = "consume", eventQueueCopy # <<>>,
         eventQueueCopy' = Tail(eventQueueCopy),
         UNCHANGED <<left, worker, queues, apc>>,
         connectedClients' \in Seq(Clients), freed' \in [Clients -> Nat],
         OwnedOnce', EventsInOrder', Unborn',
         \A i \in DOMAIN Pending' : Pending'[i].client \in Alive',
         \A i \in DOMAIN Pending' : \E k \in DOMAIN Pending : Pending'[i] = Pending[k],
         \A p \in Slots : peers[p].data \in Alive' \cup {None}
  PROVE  ServerInv'
<1>1. UNCHANGED <<left, wpc, peers, threadPeerMap, connectingPeers, created,
                  tryConnectQueue, tryDisconnectQueue, apc, packetQueue, eventQueue>>
  BY DEF worker, queues
<1>2. eventQueueCopy' \in Seq(Events)
  BY ConsumerTypes, HeadTailProperties
<1>3. ServerType' /\ Room' /\ DataMapped'
  BY <1>1, <1>2, ConsumerTypes, ConsumerOnly
<1>4. Phases'
  BY <1>1 DEF ServerInv, Phases
<1>5. NoneDangling'
  BY <1>1 DEF NoneDangling
<1>6. Parted'
  BY <1>1 DEF ServerInv, Parted
<1> QED
  BY <1>3, <1>4, <1>5, <1>6 DEF ServerInv, HandOver

LEMMA HeadPending ==
  ASSUME ServerInv, eventQueueCopy # <<>>
  PROVE  /\ Head(eventQueueCopy) \in Events /\ Head(eventQueueCopy).client \in Clients
         /\ 1 \in DOMAIN Pending /\ Pending[1] = Head(eventQueueCopy)
<1>1. Head(eventQueueCopy) \in Events
  BY ConsumerTypes, HeadTailProperties
<1> DEFINE c == eventQueueCopy  q == eventQueue
<1>2. c \in Seq(Events) /\ q \in Seq(Events) /\ Len(c) \in Nat \ {0}
  BY ConsumerTypes, EmptySeq
<1>3. Len(q) \in Nat /\ Len(c) \in Nat
  BY <1>2, LenProperties
<1>4. Head(c) = c[1]
  BY <1>2
<1> HIDE DEF c, q
<1>5. /\ c \o q \in Seq(Events) /\ Len(c \o q) = Len(c) + Len(q)
      /\ \A i \in 1 .. Len(c) + Len(q) :
           (c \o q)[i] = IF i <= Len(c) THEN c[i] ELSE q[i - Len(c)]
  BY <1>2, ConcatProperties
<1>6. 1 \in DOMAIN (c \o q) /\ (c \o q)[1] = c[1]
  BY <1>2, <1>3, <1>5, LenProperties
<1>7. Pending = c \o q /\ Head(eventQueueCopy) = c[1]
  BY <1>4 DEF Pending, c, q
<1>8. Head(eventQueueCopy).client \in Clients
  BY <1>1 DEF Events
<1> QED
  BY <1>1, <1>6, <1>7, <1>8

LEMMA OnClientConnectedInv == ASSUME ServerInv, OnClientConnected PROVE ServerInv'
<1> DEFINE h == Head(eventQueueCopy)  cs == connectedClients
<1>1. /\ cpc = "consume" /\ eventQueueCopy # <<>> /\ h.type = "CONNECT"
      /\ connectedClients' = Append(cs, h.client)
      /\ eventQueueCopy' = Tail(eventQueueCopy)
      /\ UNCHANGED <<left, worker, queues, cpc, apc, freed>>
  BY DEF OnClientConnected, Current
<1>2. UNCHANGED <<created, eventQueue, peers>>
  BY <1>1 DEF worker, queues
<1>3. h.client \in Clients /\ 1 \in Connects /\ Pending[1] = h
  BY <1>1, HeadPending DEF Connects
<1>4. h.client \notin ToSet(cs)
  BY <1>3 DEF ServerInv, HandOver, OwnedOnce
<1>5. /\ connectedClients' \in Seq(Clients) /\ Len(connectedClients') = Len(cs) + 1
      /\ \A i \in 1 .. Len(cs) : connectedClients'[i] = cs[i]
      /\ connectedClients'[Len(cs) + 1] = h.client
  BY <1>1, <1>3, ConsumerTypes, AppendProperties
<1>6. Len(cs) \in Nat /\ DOMAIN cs = 1 .. Len(cs)
      /\ DOMAIN connectedClients' = 1 .. Len(cs) + 1
  BY <1>5, ConsumerTypes, LenProperties
<1>7. ToSet(connectedClients') = ToSet(cs) \cup {h.client}
  <2>1. 1 .. Len(cs) + 1 = (1 .. Len(cs)) \cup {Len(cs) + 1}
    BY <1>6
  <2> QED
    BY <1>5, <1>6, <2>1 DEF ToSet
<1>8. \A i, j \in DOMAIN connectedClients' :
        connectedClients'[i] = connectedClients'[j] => i = j
  <2>1. \A i, j \in 1 .. Len(cs) : cs[i] = cs[j] => i = j
    BY <1>6 DEF ServerInv, HandOver, OwnedOnce
  <2>2. \A i \in 1 .. Len(cs) : cs[i] # h.client
    BY <1>4, <1>6 DEF ToSet
  <2> QED
    BY <1>5, <1>6, <2>1, <2>2
<1>9. Alive' = Alive
  BY <1>1, <1>2 DEF Alive
<1>10. Unborn'
  BY <1>1, <1>2 DEF ServerInv, HandOver, Unborn
<1>11. \A c \in Clients : freed'[c] =< 1
  BY <1>1 DEF ServerInv, HandOver, OwnedOnce
<1> HIDE DEF h, cs
<1>12. /\ OwnedOnce' /\ EventsInOrder'
       /\ \A i \in DOMAIN Pending' : Pending'[i].client \in Alive'
       /\ \A i \in DOMAIN Pending' : \E k \in DOMAIN Pending : Pending'[i] = Pending[k]
  <2>1. h = Head(eventQueueCopy) /\ cs = connectedClients
    BY DEF h, cs
  <2>2. ToSet(connectedClients') =
           CASE h.type = "CONNECT" -> ToSet(connectedClients) \cup {h.client}
             [] h.type = "DISCONNECT" -> ToSet(connectedClients) \ {h.client}
             [] h.type = "RECEIVE" -> ToSet(connectedClients)
    BY <1>1, <1>7, <2>1
  <2> QED
    BY <1>1, <1>2, <1>8, <1>9, <1>11, <2>1, <2>2, TailHandOver
<1>13. \A p \in Slots : peers[p].data \in Alive' \cup {None}
  BY <1>9 DEF ServerInv, HandOver, NoneDangling
<1>14. freed' \in [Clients -> Nat] /\ cpc' = "consume"
  BY <1>1, ConsumerTypes
<1> QED
  BY <1>1, <1>5, <1>10, <1>12, <1>13, <1>14, HandledInv

LEMMA OnClientDataReceivedInv == ASSUME ServerInv, OnClientDataReceived PROVE ServerInv'
<1> DEFINE h == Head(eventQueueCopy)
<1>1. /\ cpc = "consume" /\ eventQueueCopy # <<>> /\ h.type = "RECEIVE"
      /\ eventQueueCopy' = Tail(eventQueueCopy)
      /\ UNCHANGED <<left, worker, queues, cpc, apc, freed, connectedClients>>
  BY DEF OnClientDataReceived, Current
<1>2. UNCHANGED <<created, eventQueue, peers>>
  BY <1>1 DEF worker, queues
<1>3. Alive' = Alive
  BY <1>1, <1>2 DEF Alive
<1>4. Unborn'
  BY <1>1, <1>2 DEF ServerInv, HandOver, Unborn
<1>5. /\ \A c \in Clients : freed'[c] =< 1
      /\ \A i, j \in DOMAIN connectedClients' :
           connectedClients'[i] = connectedClients'[j] => i = j
  BY <1>1 DEF ServerInv, HandOver, OwnedOnce
<1> HIDE DEF h
<1>6. h = Head(eventQueueCopy)
  BY DEF h
<1>7. ToSet(connectedClients') =
        CASE h.type = "CONNECT" -> ToSet(connectedClients) \cup {h.client}
          [] h.type = "DISCONNECT" -> ToSet(connectedClients) \ {h.client}
          [] h.type = "RECEIVE" -> ToSet(connectedClients)
  BY <1>1
<1>8. /\ OwnedOnce' /\ EventsInOrder'
      /\ \A i \in DOMAIN Pending' : Pending'[i].client \in Alive'
      /\ \A i \in DOMAIN Pending' : \E k \in DOMAIN Pending : Pending'[i] = Pending[k]
  BY <1>1, <1>2, <1>3, <1>5, <1>6, <1>7, TailHandOver
<1>9. \A p \in Slots : peers[p].data \in Alive' \cup {None}
  BY <1>3 DEF ServerInv, HandOver, NoneDangling
<1>10. freed' \in [Clients -> Nat] /\ cpc' = "consume" /\ connectedClients' \in Seq(Clients)
  BY <1>1, ConsumerTypes
<1> QED
  BY <1>1, <1>4, <1>8, <1>9, <1>10, HandledInv

\* The list without a client that it holds once.
LEMMA RemoveFirstEffect ==
  ASSUME NEW s \in Seq(Clients), NEW c \in ToSet(s), \A i, j \in DOMAIN s : s[i] = s[j] => i = j
  PROVE  /\ RemoveFirst(s, c) \in Seq(Clients)
         /\ ToSet(RemoveFirst(s, c)) = ToSet(s) \ {c}
         /\ \A i, j \in DOMAIN RemoveFirst(s, c) :
              RemoveFirst(s, c)[i] = RemoveFirst(s, c)[j] => i = j
<1> DEFINE p == SelectInSeq(s, LAMBDA v : v = c)  r == RemoveAt(s, p)
<1>1. Len(s) \in Nat /\ DOMAIN s = 1 .. Len(s)
  BY LenProperties
<1>2. \E k \in 1 .. Len(s) : s[k] = c
  BY <1>1 DEF ToSet
<1>3. p \in 1 .. Len(s) /\ s[p] = c
  BY <1>2, SelectInSeqProperties
<1>4. RemoveFirst(s, c) = r
  BY <1>2 DEF RemoveFirst
<1> HIDE DEF p
<1>5. /\ r \in Seq(Clients) /\ DOMAIN r = 1 .. Len(s) - 1
      /\ \A k \in 1 .. Len(s) - 1 : r[k] = s[IF k < p THEN k ELSE k + 1]
  BY <1>1, <1>3, RemoveAtProperties, SMTT(20)
<1>6. ASSUME NEW j \in DOMAIN s, j # p PROVE \E k \in DOMAIN r : r[k] = s[j]
  <2>1. p \in DOMAIN s
    BY <1>1, <1>3
  <2> QED
    BY <1>6, <2>1, RemoveAtKeeps
<1> HIDE DEF r
<1>7. \A k \in DOMAIN r :
        LET at == IF k < p THEN k ELSE k + 1 IN at \in DOMAIN s /\ at # p /\ r[k] = s[at]
  BY <1>1, <1>3, <1>5
<1>8. ToSet(r) = ToSet(s) \ {c}
  <2>1. ASSUME NEW k \in DOMAIN r PROVE r[k] \in ToSet(s) \ {c}
    BY <1>1, <1>3, <1>7 DEF ToSet
  <2>2. ASSUME NEW d \in ToSet(s) \ {c} PROVE d \in ToSet(r)
    <3>1. PICK j \in DOMAIN s : s[j] = d
      BY DEF ToSet
    <3> QED
      BY <1>3, <1>6, <3>1 DEF ToSet
  <2> QED
    BY <2>1, <2>2 DEF ToSet
<1>9. \A i, j \in DOMAIN r : r[i] = r[j] => i = j
  <2> TAKE i, j \in DOMAIN r
  <2> DEFINE a == IF i < p THEN i ELSE i + 1  b == IF j < p THEN j ELSE j + 1
  <2>1. a \in DOMAIN s /\ b \in DOMAIN s /\ r[i] = s[a] /\ r[j] = s[b]
    BY <1>7
  <2>2. a = b => i = j
    BY <1>1, <1>3, <1>5
  <2> HIDE DEF a, b
  <2> QED
    BY <2>1, <2>2
<1> QED
  BY <1>4, <1>5, <1>8, <1>9

LEMMA EraseClientInv == ASSUME ServerInv, EraseClient PROVE ServerInv'
<1> DEFINE h == Head(eventQueueCopy)
<1>1. /\ cpc = "erase" /\ cpc' = "consume"
      /\ connectedClients' = RemoveFirst(connectedClients, h.client)
      /\ Delete(Listed(<<h.client>>))
      /\ eventQueueCopy' = Tail(eventQueueCopy)
      /\ UNCHANGED <<left, worker, queues, apc>>
  BY DEF EraseClient
<1>2. UNCHANGED <<created, eventQueue, peers>>
  BY <1>1 DEF worker, queues
<1>3. eventQueueCopy # <<>> /\ h.type = "DISCONNECT" /\ h.client \in ToSet(connectedClients)
  BY <1>1 DEF ServerInv, Phases
<1>4. h.client \in Clients /\ 1 \in DOMAIN Pending /\ Pending[1] = h /\ h \in Events
  BY <1>3, HeadPending
<1> HIDE DEF h
<1>5. \A c \in Clients : freed'[c] = IF c = h.client THEN freed[c] + 1 ELSE freed[c]
  <2>1. ASSUME NEW c \in Clients
        PROVE  Listed(<<h.client>>)[c] = IF c = h.client THEN 1 ELSE 0
    <3>1. {i \in DOMAIN <<h.client>> : <<h.client>>[i] = c} = IF c = h.client THEN {1} ELSE {}
      OBVIOUS
    <3> QED
      BY <3>1, FS_EmptySet, FS_Singleton DEF Listed
  <2>2. freed \in [Clients -> Nat]
    BY ConsumerTypes
  <2> QED
    BY <1>1, <2>1, <2>2 DEF Delete
<1>6. freed' \in [Clients -> Nat]
  <2>1. \A c \in Clients : freed'[c] \in Nat
    BY <1>5, ConsumerTypes
  <2>2. freed' = [c \in Clients |-> freed'[c]]
    BY <1>1 DEF Delete
  <2> QED
    BY <2>1, <2>2
<1>7. freed[h.client] = 0 /\ h.client \in Alive
  BY <1>3, OwnedFacts DEF Alive
<1>8. \A c \in Clients : freed'[c] =< 1
  BY <1>5, <1>7, ConsumerTypes DEF ServerInv, HandOver, OwnedOnce
<1>9. Alive' = Alive \ {h.client}
  <2>1. ASSUME NEW c \in 1 .. created PROVE freed'[c] = 0 <=> (freed[c] = 0 /\ c # h.client)
    <3>1. c \in Clients
      BY ClientNumbers DEF ServerInv, ServerType, TypeOK
    <3> QED
      BY <1>5, <1>7, <3>1
  <2> QED
    BY <1>2, <2>1 DEF Alive
<1>10. Unborn'
  <2>1. h.client \in 1 .. created
    BY <1>7 DEF Alive
  <2>2. created \in Nat
    BY NumbersOf DEF ServerInv
  <2> QED
    BY <1>2, <1>5, <2>1, <2>2, ClientNumbers DEF ServerInv, HandOver, Unborn
<1>11. /\ connectedClients' \in Seq(Clients)
       /\ ToSet(connectedClients') = ToSet(connectedClients) \ {h.client}
       /\ \A i, j \in DOMAIN connectedClients' :
            connectedClients'[i] = connectedClients'[j] => i = j
  <2>1. \A i, j \in DOMAIN connectedClients :
          connectedClients[i] = connectedClients[j] => i = j
    BY DEF ServerInv, HandOver, OwnedOnce
  <2> QED
    BY <1>1, <1>3, <2>1, ConsumerTypes, RemoveFirstEffect
<1>12. /\ OwnedOnce' /\ EventsInOrder'
       /\ \A i \in DOMAIN Pending' : Pending'[i].client \in Alive'
       /\ \A i \in DOMAIN Pending' : \E k \in DOMAIN Pending : Pending'[i] = Pending[k]
  <2>1. h = Head(eventQueueCopy)
    BY DEF h
  <2>2. ToSet(connectedClients') =
           CASE h.type = "CONNECT" -> ToSet(connectedClients) \cup {h.client}
             [] h.type = "DISCONNECT" -> ToSet(connectedClients) \ {h.client}
             [] h.type = "RECEIVE" -> ToSet(connectedClients)
    BY <1>3, <1>11
  <2>3. Alive' = IF h.type = "DISCONNECT" THEN Alive \ {h.client} ELSE Alive
    BY <1>3, <1>9
  <2> QED
    BY <1>1, <1>2, <1>3, <1>8, <1>11, <2>1, <2>2, <2>3, TailHandOver
<1>13. \A p \in Slots : peers[p].data \in Alive' \cup {None}
  <2> TAKE p \in Slots
  <2>1. h = Event("DISCONNECT", h.client)
    BY <1>3, <1>4 DEF Event, Events
  <2>2. peers[p].data # None => peers[p].data # h.client
    BY <1>4, <2>1 DEF ServerInv, Parted
  <2> QED
    BY <1>9, <2>2 DEF ServerInv, HandOver, NoneDangling
<1> QED
  BY <1>1, <1>3, <1>6, <1>10, <1>11, <1>12, <1>13, HandledInv

LEMMA AtMostOne ==
  ASSUME NEW T, \A i, j \in T : i = j
  PROVE  Cardinality(T) = IF T = {} THEN 0 ELSE 1
<1>1. CASE T = {}
  BY <1>1, FS_EmptySet
<1>2. CASE T # {}
  <2>1. PICK i \in T : TRUE
    BY <1>2
  <2>2. T = {i}
    BY <2>1
  <2> QED
    BY <1>2, <2>2, FS_Singleton
<1> QED
  BY <1>1, <1>2

\* When the server stops, every client that is left is deleted once: from the list
\* or from its CONNECT.
LEMMA StopListeningInv == ASSUME ServerInv, StopListening PROVE ServerInv'
<1> DEFINE unhandled == Unhandled(eventQueue)  listed == Listed(connectedClients)
           L == ToSet(connectedClients)
           C == {Pending[i].client : i \in Connects}
<1>1. /\ cpc = "join" /\ wpc = "done" /\ cpc' = "done" /\ packetQueue' = 0
      /\ eventQueue' = <<>> /\ connectedClients' = <<>>
      /\ Delete([c \in Clients |-> unhandled[c] + listed[c]])
      /\ UNCHANGED <<left, worker, tryConnectQueue, tryDisconnectQueue, eventQueueCopy, apc>>
  BY DEF StopListening
<1>2. UNCHANGED <<wpc, peers, threadPeerMap, connectingPeers, created>>
  BY <1>1 DEF worker
<1>3. eventQueueCopy = <<>> /\ \A p \in Slots : peers[p].data = None
  BY <1>1 DEF ServerInv, Phases
<1>4. Pending = eventQueue /\ Pending' = <<>>
  <2>1. eventQueueCopy' = <<>>
    BY <1>1, <1>3
  <2> QED
    BY <1>1, <1>3, <2>1, ConcatEmptySeq, ConsumerTypes DEF Pending
<1>5. DOMAIN Pending' = {} /\ Connects' = {} /\ ToSet(connectedClients') = {}
      /\ DOMAIN connectedClients' = {}
  BY <1>1, <1>4 DEF Connects, ToSet
<1>6. L \cap C = {} /\ L \cup C = Alive
  BY DEF ServerInv, HandOver, OwnedOnce
<1>7. ASSUME NEW c \in Clients
      PROVE  /\ listed[c] = IF c \in L THEN 1 ELSE 0
             /\ unhandled[c] = IF c \in C THEN 1 ELSE 0
  <2> DEFINE T == {i \in DOMAIN connectedClients : connectedClients[i] = c}
             U == {i \in DOMAIN eventQueue : eventQueue[i] = Event("CONNECT", c)}
  <2>1. \A i, j \in T : i = j
    BY DEF ServerInv, HandOver, OwnedOnce
  <2>2. U = {i \in DOMAIN Pending : Pending[i].type = "CONNECT" /\ Pending[i].client = c}
    <3>1. \A i \in DOMAIN Pending : Pending[i] \in Events
      BY PendingProperties DEF ServerInv
    <3>2. \A i \in DOMAIN Pending : Pending[i] = Event("CONNECT", c) <=>
            (Pending[i].type = "CONNECT" /\ Pending[i].client = c)
      BY <3>1, ConnectOf
    <3> QED
      BY <1>4, <3>2
  <2>3. \A i, j \in U : i = j
    BY <2>2 DEF ServerInv, HandOver, OwnedOnce, Connects
  <2>4. c \in L <=> T # {}
    BY DEF ToSet
  <2>5. c \in C <=> U # {}
    BY <2>2 DEF Connects
  <2>6. listed[c] = Cardinality(T) /\ unhandled[c] = Cardinality(U)
    BY DEF Listed, Unhandled
  <2> HIDE DEF T, U, L, C, listed, unhandled
  <2> QED
    BY <2>1, <2>3, <2>4, <2>5, <2>6, AtMostOne
<1> HIDE DEF listed, unhandled, L, C
<1>8. ASSUME NEW c \in Clients
      PROVE  freed'[c] = IF c \in Alive THEN freed[c] + 1 ELSE freed[c]
  <2>1. freed[c] \in Nat
    BY ConsumerTypes
  <2>2. freed'[c] = freed[c] + (unhandled[c] + listed[c])
    BY <1>1 DEF Delete
  <2> QED
    BY <1>6, <1>7, <2>1, <2>2
<1>9. freed' \in [Clients -> Nat]
  <2>1. \A c \in Clients : freed'[c] \in Nat
    BY <1>8, ConsumerTypes
  <2>2. freed' = [c \in Clients |-> freed'[c]]
    BY <1>1 DEF Delete
  <2> QED
    BY <2>1, <2>2
<1>10. created \in Nat /\ 1 .. created \subseteq Clients
  BY NumbersOf, ClientNumbers DEF ServerInv, ServerType, TypeOK
<1>11. Alive' = {}
  <2>1. ASSUME NEW c \in 1 .. created PROVE freed'[c] # 0
    <3>1. c \in Clients /\ freed[c] \in Nat
      BY <1>10, ConsumerTypes
    <3>2. c \notin Alive => freed[c] # 0
      BY DEF Alive
    <3> QED
      BY <1>8, <3>1, <3>2
  <2> QED
    BY <1>2, <2>1 DEF Alive
<1>12. \A c \in Clients : freed'[c] =< 1
  <2>1. \A c \in Clients : freed[c] =< 1 /\ (c \in Alive => freed[c] = 0)
    BY DEF ServerInv, HandOver, OwnedOnce, Alive
  <2> QED
    BY <1>8, <2>1
<1>13. Unborn'
  <2>1. \A c \in Clients : c > created => c \notin Alive
    BY <1>10, ClientNumbers DEF Alive
  <2> QED
    BY <1>2, <1>8, <2>1 DEF ServerInv, HandOver, Unborn
<1>14. OwnedOnce'
  BY <1>5, <1>11, <1>12 DEF OwnedOnce
<1>15. NoneDangling' /\ EventsInOrder' /\ Parted'
  BY <1>2, <1>3, <1>5 DEF NoneDangling, EventsInOrder, Parted
<1>16. ServerType' /\ Room' /\ DataMapped'
  <2>1. eventQueue' \in Seq(Events) /\ connectedClients' \in Seq(Clients)
        /\ eventQueueCopy' \in Seq(Events) /\ packetQueue' \in Nat
    BY <1>1, ConsumerTypes
  <2> QED
    BY <1>1, <1>2, <1>9, <2>1, ConsumerOnly
<1>17. Phases'
  BY <1>1, <1>2, <1>3 DEF Phases
<1> QED
  BY <1>13, <1>14, <1>15, <1>16, <1>17 DEF ServerInv, HandOver

-----------------------------------------------------------------------------
(* The theorems about the hand-over. *)

LEMMA ServerNextInv == ASSUME ServerInv, [Next]_vars PROVE ServerInv'
<1>1. CASE Worker
  <2>1. CASE WorkerExit
    BY <2>1, WorkerExitServerInv
  <2>2. CASE WorkerClose
    BY <2>2, WorkerCloseServerInv
  <2>3. CASE WorkerConnect
    BY <2>3, WorkerConnectServerInv
  <2>4. CASE WorkerDisconnect
    BY <2>4, WorkerDisconnectServerInv
  <2>5. CASE WorkerSend \/ WorkerPolled
    BY <2>5, WorkerSendServerInv
  <2>6. CASE \E p \in Slots : ConnectEvent(p) \/ DisconnectEvent(p)
    BY <2>6, ConnectEventServerInv, DisconnectEventServerInv
  <2> QED
    BY <1>1, <2>1, <2>2, <2>3, <2>4, <2>5, <2>6 DEF Worker
<1>2. CASE Consumer
  <2>1. CASE ConsumeEvents \/ OnClientDisconnected \/ CheckExit
    BY <2>1, ConsumerMovesInv
  <2>2. CASE OnClientConnected
    BY <2>2, OnClientConnectedInv
  <2>3. CASE OnClientDataReceived
    BY <2>3, OnClientDataReceivedInv
  <2>4. CASE EraseClient
    BY <2>4, EraseClientInv
  <2>5. CASE StopListening
    BY <2>5, StopListeningInv
  <2> QED
    BY <1>2, <2>1, <2>2, <2>3, <2>4, <2>5 DEF Consumer
<1>3. CASE Application
  BY <1>3, ApplicationServerInv
<1>4. CASE Outside
  BY <1>4, WorkerServiceServerInv, ReceiveEventServerInv DEF Outside
<1>5. CASE UNCHANGED vars
  <2>1. UNCHANGED <<left, wpc, peers, threadPeerMap, connectingPeers, created,
                    packetQueue, tryConnectQueue, tryDisconnectQueue, eventQueue,
                    connectedClients, cpc, eventQueueCopy, apc, freed>>
    BY <1>5 DEF vars, worker, queues, consumer
  <2>2. /\ left \in [Kinds -> Nat] /\ packetQueue \in Nat /\ tryConnectQueue \in Nat
        /\ tryDisconnectQueue \in Seq(Clients)
        /\ wpc \in {"clear", "cleared", "close", "connect", "disconnect", "send",
                    "service", "events", "done"}
    BY DEF ServerInv, ServerType, TypeOK
  <2>3. left["connect"] \in Nat /\ left["accept"] \in Nat
    BY NumbersOf DEF ServerInv
  <2> QED
    BY <2>1, <2>2, <2>3, QueuesInv
<1> QED
  BY <1>1, <1>2, <1>3, <1>4, <1>5 DEF Next

THEOREM ServerInvariant == Spec => []ServerInv
<1>1. ServerInv /\ [Next]_vars => ServerInv'
  BY ServerNextInv
<1> QED
  BY <1>1, ServerInitInv, PTL DEF Spec

\* The queues and lists hold slots and clients that exist, and next_uid is called
\* no more often than there are connections.
THEOREM TypeCorrect == Spec => []TypeOK
<1>1. ServerInv => TypeOK
  BY DEF ServerInv, ServerType
<1> QED
  BY <1>1, ServerInvariant, PTL

\* However the threads take turns, a client has one owner until it is deleted, and
\* it is deleted once: by the consumer after its DISCONNECT, or by whoever stops
\* the server, from the list or from a CONNECT that nobody handled.
THEOREM AlwaysOwnedOnce == Spec => []OwnedOnce
<1>1. ServerInv => OwnedOnce
  BY DEF ServerInv, HandOver
<1> QED
  BY <1>1, ServerInvariant, PTL

\* No peer and no event that a thread has still to handle points to a client that
\* is deleted.
THEOREM AlwaysNoneDangling == Spec => []NoneDangling
<1>1. ServerInv => NoneDangling
  BY DEF ServerInv, HandOver
<1> QED
  BY <1>1, ServerInvariant, PTL

\* The consumer sees the CONNECT of a client once and first and nothing after its
\* DISCONNECT, and it has the client when it handles what comes in between.
THEOREM AlwaysEventsInOrder == Spec => []EventsInOrder
<1>1. ServerInv => EventsInOrder
  BY DEF ServerInv, HandOver
<1> QED
  BY <1>1, ServerInvariant, PTL

\* The assert of server.h:175 holds as long as nobody calls clear_peers: the client
\* of a DISCONNECT is in the list when the consumer handles it.
THEOREM AlwaysClientListed == Spec => []ClientListed
<1>1. ServerInv => ClientListed
  <2> SUFFICES ASSUME ServerInv, Current("DISCONNECT")
               PROVE  Head(eventQueueCopy).client \in ToSet(connectedClients)
    BY DEF ClientListed
  <2> DEFINE h == Head(eventQueueCopy)
  <2>1. eventQueueCopy # <<>> /\ h.type = "DISCONNECT"
    BY DEF Current
  <2>2. 1 \in DOMAIN Pending /\ Pending[1] = h /\ h \in Events
    BY <2>1, HeadPending
  <2> HIDE DEF h
  <2>3. ASSUME NEW j \in DOMAIN Pending PROVE Pending[j] # Event("CONNECT", h.client)
    <3>1. CASE j = 1
      BY <2>1, <2>2, <3>1 DEF Event
    <3>2. CASE j # 1
      <4>1. 1 < j
        BY <3>2, PendingProperties DEF ServerInv
      <4>2. Pending[j].client # h.client
        BY <2>1, <2>2, <4>1, OrderedInv DEF Ordered
      <4> QED
        BY <4>2 DEF Event
    <3> QED
      BY <3>1, <3>2
  <2>4. Pending[1].client \in ToSet(connectedClients)
    BY <2>2, <2>3 DEF ServerInv, HandOver, EventsInOrder
  <2> QED
    BY <2>2, <2>4 DEF h
<1> QED
  BY <1>1, ServerInvariant, PTL
=============================================================================
