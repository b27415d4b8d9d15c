--------------------------- MODULE EnetHost_proofs ---------------------------
(***************************************************************************)
(* Theorems about EnetHost, for any hosts, any number of peers and every   *)
(* call of their applications.                                             *)
(*                                                                         *)
(* The operators on host records are the functions of the code, so the     *)
(* proof goes the way of the code: a lemma for each operator says what it  *)
(* makes of its peer (Became), a lemma for each handler that the peer      *)
(* stays correct and changes as PeerLifecycle allows (Handled), the send   *)
(* pass is an induction over its turns (Passed), and each action of Next   *)
(* then keeps the invariant and is a step, or a stutter, of PeerLifecycle  *)
(* for every peer of every host, if its applications abandon no attempt.   *)
(***************************************************************************)
EXTENDS EnetHost, PeerStates, ListLemmas

-----------------------------------------------------------------------------
(* The types of what a host keeps and sends. *)

IDs      == (Hosts \cup {NoHost}) \X Nat
Sessions == 0 .. SESSIONS - 1 \cup {NoSession}
Views    == {"none", "connecting", "connected", "closing"}

\* The bodies of CONNECT and VERIFY_CONNECT, and of all other commands.
Handshakes == [id : IDs, peerID : Slots, incomingSessionID : Sessions,
               outgoingSessionID : Sessions, limited : BOOLEAN]
Plain      == [id : IDs]

Commands ==
  [cmd : {"CONNECT", "VERIFY_CONNECT"}, channel : Nat, seq : Nat, body : Handshakes]
    \cup [cmd : {"DISCONNECT", "PING", "SEND_RELIABLE"}, channel : Nat, seq : Nat,
          body : Plain]

Cmds == {"CONNECT", "VERIFY_CONNECT", "DISCONNECT", "PING", "SEND_RELIABLE",
         "ACKNOWLEDGE"}
Acks == [cmd : Cmds, channel : Nat, seq : Nat]

DatagramsOf(cmds, bodies) ==
  [from : Hosts, to : Hosts \cup {NoHost}, peerID : Slots \cup {NoPeer},
   session : Sessions, cmd : cmds, channel : Nat, seq : Nat, ack : BOOLEAN,
   body : bodies]

Datagrams ==
  DatagramsOf({"CONNECT", "VERIFY_CONNECT"}, Handshakes)
    \cup DatagramsOf({"DISCONNECT", "PING", "SEND_RELIABLE", "ACKNOWLEDGE"}, Plain)

PeerRecords ==
  [state : States, connectID : IDs, outgoingPeerID : Slots \cup {NoPeer},
   incomingSessionID : Sessions, outgoingSessionID : Sessions,
   address : Hosts \cup {NoHost}, limited : BOOLEAN, needsDispatch : BOOLEAN,
   seq : Nat, dataSent : BOOLEAN, dataGot : BOOLEAN,
   outgoing : Seq(Commands), sent : Seq(Commands), acks : SUBSET Acks,
   dispatched : Seq(IDs)]

HostRecords ==
  [self : Hosts, peers : [Slots -> PeerRecords], dispatchQueue : Seq(Slots),
   connectedPeers : Int, bandwidthLimitedPeers : Int, connects : Nat,
   accepts : Nat, out : SUBSET Datagrams]

-----------------------------------------------------------------------------
(* The inductive invariant. *)

\* PeersCounted, for one host.
LimitedUp(hs) == {p \in UpPeers(hs) : hs.peers[p].limited}
Counted(hs) ==
  /\ hs.connectedPeers = Cardinality(UpPeers(hs))
  /\ hs.bandwidthLimitedPeers = Cardinality(LimitedUp(hs))

\* The queue links a peer at most once, and exactly those that say so.
Queued(hs) ==
  /\ \A j, k \in DOMAIN hs.dispatchQueue :
       hs.dispatchQueue[j] = hs.dispatchQueue[k] => j = k
  /\ \A p \in Slots :
       hs.peers[p].needsDispatch <=> \E k \in DOMAIN hs.dispatchQueue :
                                       hs.dispatchQueue[k] = p

\* What every operator on host records keeps.
HostOK(hs) == hs \in HostRecords /\ Counted(hs) /\ Queued(hs)

\* A free peer carries nothing over.
CleanPeer(r) ==
  r.state = "DISCONNECTED" =>
    /\ r.outgoing = <<>> /\ r.sent = <<>> /\ r.acks = {} /\ r.dispatched = <<>>
    /\ ~ r.needsDispatch /\ r.connectID = NoID /\ r.outgoingPeerID = NoPeer

\* The states of a connection that was not up yet.
Early == {"DISCONNECTED", "CONNECTING", "ACKNOWLEDGING_CONNECT",
          "CONNECTION_PENDING", "CONNECTION_SUCCEEDED"}

\* Data is queued only once a connection is up, and the acknowledgement of a
\* DISCONNECT only by a peer that then waits to send it.
PeerOK(r) ==
  /\ CleanPeer(r)
  /\ r.state \in Early => r.dispatched = <<>>
  /\ \A a \in r.acks : a.cmd = "DISCONNECT" => r.state = "ACKNOWLEDGING_DISCONNECT"

\* A peer with an event to tell is in the dispatch queue.
Told(r) == Silent(r) \/ r.needsDispatch

\* A change of state that PeerLifecycle allows inside enet_host_service.
ServedStep(r, s) ==
  Seen(s.state) = Seen(r.state) \/ <<Seen(r.state), Seen(s.state)>> \in Served

HostInv(hs) == HostOK(hs) /\ \A p \in Slots : PeerOK(hs.peers[p]) /\ Told(hs.peers[p])

Inv ==
  /\ DOMAIN host = Hosts
  /\ \A h \in Hosts : host[h].self = h /\ HostInv(host[h])
  /\ net \subseteq Datagrams
  /\ view \in [Hosts -> [Slots -> Views]]

-----------------------------------------------------------------------------
(* Lists and counters. *)

\* First is what a loop that searches a list from its front finds.
LEMMA FirstIsLeast ==
  ASSUME NEW T, T \subseteq Nat, T # {}
  PROVE  First(T) \in T /\ \A r \in T : First(T) =< r
  BY LeastElement DEF First

\* The slots are finitely many.
LEMMA SlotsFinite ==
  /\ Slots \subseteq Nat /\ IsFiniteSet(Slots)
  /\ \A hs : IsFiniteSet(UpPeers(hs)) /\ IsFiniteSet(LimitedUp(hs))
<1>1. Slots \subseteq Nat /\ IsFiniteSet(Slots)
  BY HostAssumption, FS_Interval DEF Slots
<1>2. \A hs : UpPeers(hs) \in SUBSET Slots /\ LimitedUp(hs) \in SUBSET Slots
  BY DEF UpPeers, LimitedUp
<1> QED
  BY <1>1, <1>2, FS_Subset

\* An assignment to a peer.
LEMMA SetProperties ==
  ASSUME NEW hs \in HostRecords, NEW p \in Slots, NEW r \in PeerRecords
  PROVE  /\ Set(hs, p, r) \in HostRecords
         /\ Set(hs, p, r).peers = [hs.peers EXCEPT ![p] = r]
         /\ Set(hs, p, r).self = hs.self
         /\ Set(hs, p, r).dispatchQueue = hs.dispatchQueue
         /\ Set(hs, p, r).connectedPeers = hs.connectedPeers
         /\ Set(hs, p, r).bandwidthLimitedPeers = hs.bandwidthLimitedPeers
         /\ Set(hs, p, r).out = hs.out
  BY DEF HostRecords, Set

\* hs2 is hs with a new value for peer p.
Became(hs2, hs, p, r) ==
  /\ HostOK(hs2)
  /\ hs2.self = hs.self
  /\ hs2.peers = [hs.peers EXCEPT ![p] = r]

\* A peer of a host, and the others.
LEMMA PeerType ==
  ASSUME NEW hs \in HostRecords, NEW p \in Slots
  PROVE  /\ hs.peers[p] \in PeerRecords
         /\ hs.peers \in [Slots -> PeerRecords]
         /\ hs.self \in Hosts /\ hs.out \subseteq Datagrams
         /\ hs.dispatchQueue \in Seq(Slots)
  BY DEF HostRecords

\* An assignment that neither gets the peer up nor takes it down.
LEMMA SetKeeps ==
  ASSUME NEW hs, HostOK(hs), NEW p \in Slots, NEW r \in PeerRecords,
         r.needsDispatch = hs.peers[p].needsDispatch,
         r.state \in Up <=> hs.peers[p].state \in Up,
         r.state \in Up => r.limited = hs.peers[p].limited
  PROVE  Became(Set(hs, p, r), hs, p, r)
<1> DEFINE new == Set(hs, p, r)
<1>1. /\ new \in HostRecords /\ new.peers = [hs.peers EXCEPT ![p] = r]
      /\ new.self = hs.self /\ new.dispatchQueue = hs.dispatchQueue
      /\ new.connectedPeers = hs.connectedPeers
      /\ new.bandwidthLimitedPeers = hs.bandwidthLimitedPeers
  BY SetProperties DEF HostOK
<1>2. hs.peers \in [Slots -> PeerRecords]
  BY PeerType DEF HostOK
<1> HIDE DEF new
<1>3. \A q \in Slots : /\ new.peers[q].state \in Up <=> hs.peers[q].state \in Up
                       /\ new.peers[q].needsDispatch = hs.peers[q].needsDispatch
                       /\ new.peers[q].state \in Up =>
                            new.peers[q].limited = hs.peers[q].limited
  BY <1>1, <1>2
<1>4. UpPeers(new) = UpPeers(hs)
  BY <1>3 DEF UpPeers
<1>5. LimitedUp(new) = LimitedUp(hs)
  BY <1>3, <1>4 DEF LimitedUp, UpPeers
<1>6. Counted(new)
  BY <1>1, <1>4, <1>5 DEF Counted, HostOK
<1>7. Queued(new)
  BY <1>1, <1>3 DEF Queued, HostOK
<1> QED
  BY <1>1, <1>6, <1>7 DEF Became, HostOK, new

\* enet_peer_on_connect and enet_peer_on_disconnect change the two counters.
LEMMA CountProperties ==
  ASSUME NEW hs \in HostRecords, NEW p \in Slots, NEW n \in Int
  PROVE  /\ Count(hs, p, n) \in HostRecords
         /\ Count(hs, p, n).peers = hs.peers
         /\ Count(hs, p, n).self = hs.self
         /\ Count(hs, p, n).dispatchQueue = hs.dispatchQueue
         /\ Count(hs, p, n).connectedPeers = hs.connectedPeers + n
         /\ Count(hs, p, n).bandwidthLimitedPeers =
              IF hs.peers[p].limited THEN hs.bandwidthLimitedPeers + n
              ELSE hs.bandwidthLimitedPeers
<1> DEFINE x == hs.connectedPeers + n
           y == IF hs.peers[p].limited THEN hs.bandwidthLimitedPeers + n
                ELSE hs.bandwidthLimitedPeers
<1>1. x \in Int /\ y \in Int
  BY DEF HostRecords
<1>2. Count(hs, p, n) = [hs EXCEPT !.connectedPeers = x, !.bandwidthLimitedPeers = y]
  BY DEF Count
<1> DEFINE new == [hs EXCEPT !.connectedPeers = x, !.bandwidthLimitedPeers = y]
<1> HIDE DEF x, y
<1>3. new \in HostRecords
  BY <1>1 DEF HostRecords
<1>4. /\ new.peers = hs.peers /\ new.self = hs.self
      /\ new.dispatchQueue = hs.dispatchQueue
      /\ new.connectedPeers = x /\ new.bandwidthLimitedPeers = y
  BY <1>1 DEF HostRecords
<1> QED
  BY <1>2, <1>3, <1>4 DEF x, y

\* A change of state, with what else changes in the peer: the counters follow.
LEMMA ChangeTo ==
  ASSUME NEW hs, HostOK(hs), NEW p \in Slots, NEW r \in PeerRecords,
         r.needsDispatch = hs.peers[p].needsDispatch,
         r.state \in Up => r.limited = hs.peers[p].limited
  PROVE  LET counted == IF r.state \in Up THEN OnConnect(hs, p) ELSE OnDisconnect(hs, p)
         IN  Became(Set(counted, p, r), hs, p, r)
<1> DEFINE counted == IF r.state \in Up THEN OnConnect(hs, p) ELSE OnDisconnect(hs, p)
           new == Set(counted, p, r)
           old == hs.peers[p]
<1>1. CASE r.state \in Up <=> old.state \in Up
  <2>1. counted = hs
    BY <1>1 DEF OnConnect, OnDisconnect
  <2> QED
    BY <1>1, <2>1, SetKeeps
<1>2. CASE ~ (r.state \in Up <=> old.state \in Up)
  <2> DEFINE n == IF r.state \in Up THEN 1 ELSE -1
  <2>1. counted = Count(hs, p, n)
    BY <1>2 DEF OnConnect, OnDisconnect
  <2>2. n \in Int /\ hs \in HostRecords
    BY DEF HostOK
  <2> HIDE DEF counted, n
  <2>3. /\ counted \in HostRecords /\ counted.peers = hs.peers /\ counted.self = hs.self
        /\ counted.dispatchQueue = hs.dispatchQueue
        /\ counted.connectedPeers = hs.connectedPeers + n
        /\ counted.bandwidthLimitedPeers =
             IF old.limited THEN hs.bandwidthLimitedPeers + n ELSE hs.bandwidthLimitedPeers
    BY <2>1, <2>2, CountProperties
  <2>4. /\ new \in HostRecords /\ new.peers = [hs.peers EXCEPT ![p] = r]
        /\ new.self = hs.self /\ new.dispatchQueue = hs.dispatchQueue
        /\ new.connectedPeers = counted.connectedPeers
        /\ new.bandwidthLimitedPeers = counted.bandwidthLimitedPeers
    BY <2>3, SetProperties
  <2>5. hs.peers \in [Slots -> PeerRecords]
    BY <2>2, PeerType
  <2> HIDE DEF new
  <2>6. \A q \in Slots : new.peers[q].needsDispatch = hs.peers[q].needsDispatch
    BY <2>4, <2>5
  <2>7. Queued(new)
    BY <2>4, <2>6 DEF Queued, HostOK
  <2>8. /\ new.peers[p] = r
        /\ \A q \in Slots \ {p} : new.peers[q] = hs.peers[q]
    BY <2>4, <2>5
  <2>9. /\ hs.connectedPeers = Cardinality(UpPeers(hs))
        /\ hs.bandwidthLimitedPeers = Cardinality(LimitedUp(hs))
        /\ IsFiniteSet(UpPeers(hs)) /\ IsFiniteSet(LimitedUp(hs))
        /\ Cardinality(UpPeers(hs)) \in Nat /\ Cardinality(LimitedUp(hs)) \in Nat
    BY SlotsFinite, FS_CardinalityType DEF HostOK, Counted
  <2>10. Counted(new)
    <3>1. CASE r.state \in Up
      <4>1. n = 1 /\ old.state \notin Up /\ r.limited = old.limited
        BY <1>2, <3>1 DEF n
      <4>2. UpPeers(new) = UpPeers(hs) \cup {p} /\ p \notin UpPeers(hs)
        BY <2>8, <3>1, <4>1 DEF UpPeers
      <4>3. Cardinality(UpPeers(new)) = Cardinality(UpPeers(hs)) + 1
        BY <2>9, <4>2, FS_AddElement
      <4>4. CASE old.limited
        <5>1. LimitedUp(new) = LimitedUp(hs) \cup {p} /\ p \notin LimitedUp(hs)
          BY <2>8, <4>1, <4>2, <4>4 DEF LimitedUp, UpPeers
        <5>2. Cardinality(LimitedUp(new)) = Cardinality(LimitedUp(hs)) + 1
          BY <2>9, <5>1, FS_AddElement
        <5> QED
          BY <2>3, <2>4, <2>9, <4>1, <4>3, <4>4, <5>2 DEF Counted
      <4>5. CASE ~ old.limited
        <5>1. LimitedUp(new) = LimitedUp(hs)
          BY <2>8, <4>1, <4>2, <4>5 DEF LimitedUp, UpPeers
        <5> QED
          BY <2>3, <2>4, <2>9, <4>1, <4>3, <4>5, <5>1 DEF Counted
      <4> QED
        BY <4>4, <4>5
    <3>2. CASE r.state \notin Up
      <4>1. n = -1 /\ old.state \in Up
        BY <1>2, <3>2 DEF n
      <4>2. UpPeers(new) = UpPeers(hs) \ {p} /\ p \in UpPeers(hs)
        BY <2>8, <3>2, <4>1 DEF UpPeers
      <4>3. Cardinality(UpPeers(new)) = Cardinality(UpPeers(hs)) - 1
        BY <2>9, <4>2, FS_RemoveElement
      <4>4. CASE old.limited
        <5>1. LimitedUp(new) = LimitedUp(hs) \ {p} /\ p \in LimitedUp(hs)
          BY <2>8, <4>1, <4>2, <4>4 DEF LimitedUp, UpPeers
        <5>2. Cardinality(LimitedUp(new)) = Cardinality(LimitedUp(hs)) - 1
          BY <2>9, <5>1, FS_RemoveElement
        <5> QED
          BY <2>3, <2>4, <2>9, <4>1, <4>3, <4>4, <5>2 DEF Counted
      <4>5. CASE ~ old.limited
        <5>1. LimitedUp(new) = LimitedUp(hs)
          BY <2>8, <4>1, <4>2, <4>5 DEF LimitedUp, UpPeers
        <5> QED
          BY <2>3, <2>4, <2>9, <4>1, <4>3, <4>5, <5>1 DEF Counted
      <4> QED
        BY <4>4, <4>5
    <3> QED
      BY <3>1, <3>2
  <2> QED
    BY <2>4, <2>7, <2>10 DEF Became, HostOK, new, counted
<1> QED
  BY <1>1, <1>2

\* Only the dispatch flag and lists of a peer change: the counters do not.
LEMMA CountedKept ==
  ASSUME NEW hs \in HostRecords, Counted(hs), NEW new,
         new.connectedPeers = hs.connectedPeers,
         new.bandwidthLimitedPeers = hs.bandwidthLimitedPeers,
         \A q \in Slots : /\ new.peers[q].state = hs.peers[q].state
                          /\ new.peers[q].limited = hs.peers[q].limited
  PROVE  Counted(new)
<1>1. UpPeers(new) = UpPeers(hs)
  BY DEF UpPeers
<1>2. LimitedUp(new) = LimitedUp(hs)
  BY <1>1 DEF LimitedUp, UpPeers
<1> QED
  BY <1>1, <1>2 DEF Counted

Flagged(r) == [r EXCEPT !.needsDispatch = TRUE]

\* enet_list_insert of a peer into the dispatch queue, unless it is in it.
LEMMA DispatchProperties ==
  ASSUME NEW hs, HostOK(hs), NEW p \in Slots
  PROVE  Became(Dispatch(hs, p), hs, p, Flagged(hs.peers[p]))
<1> DEFINE old == hs.peers[p]
           ps == [hs.peers EXCEPT ![p] = Flagged(old)]
           queue == Append(hs.dispatchQueue, p)
           new == Dispatch(hs, p)
<1>1. /\ hs \in HostRecords /\ old \in PeerRecords
      /\ hs.peers \in [Slots -> PeerRecords] /\ hs.dispatchQueue \in Seq(Slots)
  BY PeerType DEF HostOK
<1>2. Flagged(old) \in PeerRecords
  BY <1>1 DEF PeerRecords, Flagged
<1>3. CASE old.needsDispatch
  <2>1. Flagged(old) = old
    BY <1>1, <1>3 DEF PeerRecords, Flagged
  <2>2. ps = hs.peers /\ new = hs
    BY <1>1, <1>3, <2>1 DEF Dispatch
  <2> QED
    BY <2>2 DEF Became
<1>4. CASE ~ old.needsDispatch
  <2>1. new = [hs EXCEPT !.peers = ps, !.dispatchQueue = queue]
    BY <1>4 DEF Dispatch, Flagged
  <2>2. ps \in [Slots -> PeerRecords] /\ queue \in Seq(Slots)
    BY <1>1, <1>2, AppendProperties
  <2>3. /\ \A q \in Slots : q # p => ps[q] = hs.peers[q]
        /\ ps[p].needsDispatch /\ ps[p].state = old.state /\ ps[p].limited = old.limited
    BY <1>1 DEF Flagged, PeerRecords
  <2> HIDE DEF ps, queue, new
  <2>4. new \in HostRecords
    BY <1>1, <2>1, <2>2 DEF HostRecords
  <2>5. /\ new.peers = ps /\ new.dispatchQueue = queue /\ new.self = hs.self
        /\ new.connectedPeers = hs.connectedPeers
        /\ new.bandwidthLimitedPeers = hs.bandwidthLimitedPeers
    BY <1>1, <2>1 DEF HostRecords
  <2>6. Counted(new)
    BY <1>1, <2>3, <2>5, CountedKept DEF HostOK
  <2>7. /\ Len(hs.dispatchQueue) \in Nat
        /\ DOMAIN hs.dispatchQueue = 1 .. Len(hs.dispatchQueue)
        /\ DOMAIN queue = 1 .. Len(hs.dispatchQueue) + 1
        /\ \A k \in 1 .. Len(hs.dispatchQueue) : queue[k] = hs.dispatchQueue[k]
        /\ queue[Len(hs.dispatchQueue) + 1] = p
    BY <1>1, <2>2, AppendProperties, LenProperties DEF queue
  <2>8. Queued(hs)
    BY DEF HostOK
  <2>9. \A k \in DOMAIN hs.dispatchQueue : hs.dispatchQueue[k] # p
    BY <1>4, <2>8 DEF Queued
  <2>10. \A j, k \in DOMAIN queue : queue[j] = queue[k] => j = k
    BY <2>7, <2>8, <2>9 DEF Queued
  <2>11. ASSUME NEW q \in Slots
         PROVE  ps[q].needsDispatch <=> \E k \in DOMAIN queue : queue[k] = q
    <3>1. CASE q = p
      <4>1. Len(hs.dispatchQueue) + 1 \in DOMAIN queue
        BY <2>7
      <4> QED
        BY <2>3, <2>7, <3>1, <4>1
    <3>2. CASE q # p
      <4>1. ps[q].needsDispatch <=> \E k \in DOMAIN hs.dispatchQueue : hs.dispatchQueue[k] = q
        BY <2>3, <2>8, <3>2 DEF Queued
      <4>2. (\E k \in DOMAIN hs.dispatchQueue : hs.dispatchQueue[k] = q)
              <=> \E k \in DOMAIN queue : queue[k] = q
        BY <2>7, <3>2
      <4> QED
        BY <4>1, <4>2
    <3> QED
      BY <3>1, <3>2
  <2>12. Queued(new)
    BY <2>5, <2>10, <2>11 DEF Queued
  <2> QED
    BY <2>4, <2>5, <2>6, <2>12 DEF Became, HostOK, new, ps
<1> QED
  BY <1>3, <1>4

\* To unlink a peer from the queue takes it out, for it is in it once.
LEMMA Unlinked ==
  ASSUME NEW s \in Seq(Slots), NEW p \in Slots,
         \A j, k \in DOMAIN s : s[j] = s[k] => j = k,
         \E k \in DOMAIN s : s[k] = p
  PROVE  /\ RemoveFirst(s, p) \in Seq(Slots)
         /\ \A j, k \in DOMAIN RemoveFirst(s, p) :
              RemoveFirst(s, p)[j] = RemoveFirst(s, p)[k] => j = k
         /\ \A q \in Slots : (\E k \in DOMAIN RemoveFirst(s, p) : RemoveFirst(s, p)[k] = q)
                               <=> q # p /\ \E k \in DOMAIN s : s[k] = q
<1>1. Len(s) \in Nat /\ DOMAIN s = 1 .. Len(s)
  BY LenProperties
<1>2. PICK m \in DOMAIN s : s[m] = p /\ RemoveFirst(s, p) = RemoveAt(s, m)
  BY <1>1, SelectInSeqProperties DEF RemoveFirst
<1> DEFINE t == RemoveAt(s, m)
<1>3. /\ t \in Seq(Slots) /\ DOMAIN t = 1 .. Len(s) - 1
      /\ \A k \in 1 .. Len(s) - 1 : t[k] = s[IF k < m THEN k ELSE k + 1]
  BY RemoveAtProperties
<1> HIDE DEF t
<1>4. ASSUME NEW j \in DOMAIN t, NEW k \in DOMAIN t, t[j] = t[k] PROVE j = k
  <2> DEFINE f(x) == IF x < m THEN x ELSE x + 1
  <2>1. f(j) \in DOMAIN s /\ f(k) \in DOMAIN s /\ t[j] = s[f(j)] /\ t[k] = s[f(k)]
    BY <1>1, <1>3
  <2>2. f(j) = f(k)
    BY <1>4, <2>1
  <2> QED
    BY <1>1, <1>3, <2>2
<1>5. ASSUME NEW k \in DOMAIN t PROVE t[k] # p /\ \E j \in DOMAIN s : s[j] = t[k]
  <2> DEFINE j == IF k < m THEN k ELSE k + 1
  <2>1. j \in DOMAIN s /\ j # m /\ t[k] = s[j]
    BY <1>1, <1>3
  <2> HIDE DEF j
  <2> QED
    BY <1>2, <2>1
<1>6. ASSUME NEW j \in DOMAIN s, s[j] # p PROVE \E k \in DOMAIN t : t[k] = s[j]
  BY <1>2, <1>6, RemoveAtKeeps DEF t
<1> QED
  BY <1>2, <1>3, <1>4, <1>5, <1>6 DEF t

\* enet_peer_reset_queues.
LEMMA ResetQueuesProperties ==
  ASSUME NEW hs, HostOK(hs), NEW p \in Slots
  PROVE  Became(ResetQueues(hs, p), hs, p, Cleared(hs.peers[p]))
<1> DEFINE old == hs.peers[p]
           ps == [hs.peers EXCEPT ![p] = Cleared(old)]
           queue == IF old.needsDispatch THEN RemoveFirst(hs.dispatchQueue, p)
                    ELSE hs.dispatchQueue
           new == ResetQueues(hs, p)
<1>1. /\ hs \in HostRecords /\ old \in PeerRecords
      /\ hs.peers \in [Slots -> PeerRecords] /\ hs.dispatchQueue \in Seq(Slots)
  BY PeerType DEF HostOK
<1>2. Cleared(old) \in PeerRecords
  <2>1. <<>> \in Seq(Commands) /\ <<>> \in Seq(IDs)
    BY EmptySeq
  <2> QED
    BY <1>1, <2>1 DEF PeerRecords, Cleared
<1>3. new = [Set(hs, p, Cleared(old)) EXCEPT !.dispatchQueue = queue]
  <2>1. Set(hs, p, Cleared(old)).dispatchQueue = hs.dispatchQueue
    BY <1>1, <1>2, SetProperties
  <2> QED
    BY <2>1 DEF ResetQueues
<1>4. Queued(hs)
  BY DEF HostOK
<1>5. /\ queue \in Seq(Slots)
      /\ \A j, k \in DOMAIN queue : queue[j] = queue[k] => j = k
      /\ \A q \in Slots : (\E k \in DOMAIN queue : queue[k] = q)
                            <=> q # p /\ \E k \in DOMAIN hs.dispatchQueue :
                                           hs.dispatchQueue[k] = q
  <2>1. CASE old.needsDispatch
    <3>1. \E k \in DOMAIN hs.dispatchQueue : hs.dispatchQueue[k] = p
      BY <1>4, <2>1 DEF Queued
    <3>2. \A j, k \in DOMAIN hs.dispatchQueue :
            hs.dispatchQueue[j] = hs.dispatchQueue[k] => j = k
      BY <1>4 DEF Queued
    <3>3. queue = RemoveFirst(hs.dispatchQueue, p)
      BY <2>1
    <3> HIDE DEF queue
    <3> QED
      BY <1>1, <3>1, <3>2, <3>3, Unlinked
  <2>2. CASE ~ old.needsDispatch
    BY <1>1, <1>4, <2>2 DEF Queued
  <2> QED
    BY <2>1, <2>2
<1>6. /\ ps \in [Slots -> PeerRecords]
      /\ \A q \in Slots : q # p => ps[q] = hs.peers[q]
      /\ ~ ps[p].needsDispatch /\ ps[p].state = old.state /\ ps[p].limited = old.limited
  BY <1>1, <1>2 DEF Cleared, PeerRecords
<1> HIDE DEF ps, queue, new
<1>7. /\ new \in HostRecords
      /\ new.peers = ps /\ new.dispatchQueue = queue /\ new.self = hs.self
      /\ new.connectedPeers = hs.connectedPeers
      /\ new.bandwidthLimitedPeers = hs.bandwidthLimitedPeers
  <2> DEFINE set == Set(hs, p, Cleared(old))
  <2>1. /\ set \in HostRecords /\ set.peers = ps /\ set.self = hs.self
        /\ set.connectedPeers = hs.connectedPeers
        /\ set.bandwidthLimitedPeers = hs.bandwidthLimitedPeers
    BY <1>1, <1>2, SetProperties DEF ps
  <2> HIDE DEF set
  <2>2. [set EXCEPT !.dispatchQueue = queue] \in HostRecords
    BY <1>5, <2>1 DEF HostRecords
  <2>3. new = [set EXCEPT !.dispatchQueue = queue]
    BY <1>3 DEF set
  <2> QED
    BY <1>1, <2>1, <2>2, <2>3 DEF HostRecords
<1>9. Counted(new)
  BY <1>1, <1>6, <1>7, CountedKept DEF HostOK
<1>10. Queued(new)
  BY <1>4, <1>5, <1>6, <1>7 DEF Queued
<1> QED
  BY <1>7, <1>9, <1>10 DEF Became, HostOK, new, ps

-----------------------------------------------------------------------------
(* The operators on host records: what each makes of its peer. *)

\* One change of a peer after another.
LEMMA BecameThen ==
  ASSUME NEW hs, HostOK(hs), NEW p \in Slots, NEW r, NEW hs2, Became(hs2, hs, p, r)
  PROVE  /\ HostOK(hs2) /\ hs2.self = hs.self
         /\ hs2.peers[p] = r /\ r \in PeerRecords
         /\ \A q \in Slots : q # p => hs2.peers[q] = hs.peers[q]
         /\ \A hs3, s : Became(hs3, hs2, p, s) => Became(hs3, hs, p, s)
<1>1. hs \in HostRecords /\ hs2 \in HostRecords
  BY DEF Became, HostOK
<1>2. hs.peers \in [Slots -> PeerRecords] /\ hs2.peers[p] \in PeerRecords
  BY <1>1, PeerType
<1>3. hs2.peers = [hs.peers EXCEPT ![p] = r]
  BY DEF Became
<1>4. hs2.peers[p] = r /\ \A q \in Slots : q # p => hs2.peers[q] = hs.peers[q]
  BY <1>2, <1>3
<1>5. ASSUME NEW hs3, NEW s, Became(hs3, hs2, p, s) PROVE Became(hs3, hs, p, s)
  <2>1. hs3.peers = [hs2.peers EXCEPT ![p] = s] /\ hs3.self = hs2.self /\ HostOK(hs3)
    BY <1>5 DEF Became
  <2>2. [hs2.peers EXCEPT ![p] = s] = [hs.peers EXCEPT ![p] = s]
    BY <1>2, <1>3
  <2> QED
    BY <2>1, <2>2 DEF Became
<1> QED
  BY <1>2, <1>4, <1>5 DEF Became

In(r, state) == [r EXCEPT !.state = state]

\* enet_protocol_change_state.
LEMMA ChangeStateProperties ==
  ASSUME NEW hs, HostOK(hs), NEW p \in Slots, NEW state \in States
  PROVE  Became(ChangeState(hs, p, state), hs, p, In(hs.peers[p], state))
<1> DEFINE counted == IF state \in Up THEN OnConnect(hs, p) ELSE OnDisconnect(hs, p)
           r == In(hs.peers[p], state)
<1>1. hs \in HostRecords /\ hs.peers[p] \in PeerRecords
  BY PeerType DEF HostOK
<1>2. /\ r \in PeerRecords /\ r.state = state
      /\ r.needsDispatch = hs.peers[p].needsDispatch /\ r.limited = hs.peers[p].limited
  BY <1>1 DEF In, PeerRecords
<1>3. Became(Set(counted, p, r), hs, p, r)
  <2> HIDE DEF r
  <2> QED
    BY <1>2, ChangeTo
<1>4. counted \in HostRecords /\ counted.peers = hs.peers
  BY <1>1, CountProperties DEF OnConnect, OnDisconnect
<1>5. ChangeState(hs, p, state) = [counted EXCEPT !.peers[p].state = state]
  BY DEF ChangeState
<1> HIDE DEF counted
<1>6. ChangeState(hs, p, state) = Set(counted, p, r)
  BY <1>4, <1>5 DEF Set, In
<1> QED
  BY <1>3, <1>6

\* enet_protocol_dispatch_state.
LEMMA DispatchStateProperties ==
  ASSUME NEW hs, HostOK(hs), NEW p \in Slots, NEW state \in States
  PROVE  Became(DispatchState(hs, p, state), hs, p, Flagged(In(hs.peers[p], state)))
<1> DEFINE mid == ChangeState(hs, p, state)  r == In(hs.peers[p], state)
<1>1. Became(mid, hs, p, r)
  BY ChangeStateProperties
<1> HIDE DEF mid, r
<1>2. HostOK(mid) /\ mid.peers[p] = r
  BY <1>1, BecameThen
<1>3. Became(Dispatch(mid, p), mid, p, Flagged(r))
  BY <1>2, DispatchProperties
<1>4. Became(Dispatch(mid, p), hs, p, Flagged(r))
  BY <1>1, <1>3, BecameThen
<1> QED
  BY <1>4 DEF DispatchState, mid, r

\* enet_peer_reset.
LEMMA ResetPeerProperties ==
  ASSUME NEW hs, HostOK(hs), NEW p \in Slots
  PROVE  Became(ResetPeer(hs, p), hs, p, Cleared(Freed(hs.peers[p])))
<1> DEFINE counted == OnDisconnect(hs, p)
           r == Freed(hs.peers[p])
           mid == Set(counted, p, r)
<1>1. hs \in HostRecords /\ hs.peers[p] \in PeerRecords
  BY PeerType DEF HostOK
<1>2. /\ r \in PeerRecords /\ r.state = "DISCONNECTED"
      /\ r.needsDispatch = hs.peers[p].needsDispatch
  <2>1. NoID \in IDs /\ "DISCONNECTED" \in States
    BY DEF NoID, IDs, States
  <2> QED
    BY <1>1, <2>1 DEF Freed, PeerRecords
<1>3. r.state \notin Up
  BY <1>2 DEF Up
<1> HIDE DEF r
<1>4. Became(mid, hs, p, r)
  BY <1>2, <1>3, ChangeTo
<1>5. counted.peers = hs.peers
  BY <1>1, CountProperties DEF OnDisconnect
<1>6. ResetPeer(hs, p) = ResetQueues(mid, p)
  BY <1>5 DEF ResetPeer, r
<1> HIDE DEF mid
<1>7. HostOK(mid) /\ mid.peers[p] = r
  BY <1>4, BecameThen
<1>8. Became(ResetQueues(mid, p), mid, p, Cleared(r))
  BY <1>7, ResetQueuesProperties
<1>9. Became(ResetQueues(mid, p), hs, p, Cleared(r))
  BY <1>4, <1>8, BecameThen
<1> QED
  BY <1>6, <1>9 DEF r

\* A peer with one more command of the control channel to send.
WithControl(r, cmd, body) ==
  [r EXCEPT !.seq = r.seq + 1,
            !.outgoing = Append(r.outgoing, Command(cmd, Control, r.seq + 1, body))]

\* enet_peer_queue_outgoing_command.
LEMMA QueueControlProperties ==
  ASSUME NEW hs, HostOK(hs), NEW p \in Slots, NEW cmd, NEW body,
         \/ cmd \in {"CONNECT", "VERIFY_CONNECT"} /\ body \in Handshakes
         \/ cmd \in {"DISCONNECT", "PING"} /\ body \in Plain
  PROVE  Became(QueueControl(hs, p, cmd, body), hs, p, WithControl(hs.peers[p], cmd, body))
<1> DEFINE old == hs.peers[p]
           r == WithControl(old, cmd, body)
           c == Command(cmd, Control, old.seq + 1, body)
<1>1. hs \in HostRecords /\ old \in PeerRecords
  BY PeerType DEF HostOK
<1>2. old.seq \in Nat /\ old.outgoing \in Seq(Commands)
  BY <1>1 DEF PeerRecords
<1>3. c \in Commands
  BY <1>2 DEF Command, Commands, Control
<1>4. Append(old.outgoing, c) \in Seq(Commands)
  BY <1>2, <1>3, AppendProperties
<1> DEFINE n == old.seq + 1  out == Append(old.outgoing, c)
<1>5. r = [old EXCEPT !.seq = n, !.outgoing = out] /\ n \in Nat
  BY <1>2 DEF WithControl
<1> HIDE DEF n, out, r, c
<1>6. /\ r \in PeerRecords /\ r.state = old.state /\ r.limited = old.limited
      /\ r.needsDispatch = old.needsDispatch
  BY <1>1, <1>4, <1>5 DEF PeerRecords, out
<1>7. QueueControl(hs, p, cmd, body) = Set(hs, p, r)
  BY <1>1, <1>5 DEF QueueControl, Set, n, out, c, HostRecords, PeerRecords
<1>8. Became(Set(hs, p, r), hs, p, r)
  BY <1>6, SetKeeps
<1> QED
  BY <1>7, <1>8 DEF r

\* The fields of the peers that the operators make.
LEMMA PeerFields ==
  ASSUME NEW r \in PeerRecords, NEW state \in States
  PROVE  /\ In(r, state) \in PeerRecords /\ In(r, state).state = state
         /\ In(r, state).acks = r.acks /\ In(r, state).dispatched = r.dispatched
         /\ In(r, state).needsDispatch = r.needsDispatch
         /\ Flagged(r) \in PeerRecords /\ Flagged(r).state = r.state
         /\ Flagged(r).acks = r.acks /\ Flagged(r).dispatched = r.dispatched
         /\ Flagged(r).needsDispatch
         /\ Cleared(r) \in PeerRecords /\ Cleared(r).state = r.state
         /\ Cleared(r).acks = {} /\ Cleared(r).dispatched = <<>>
         /\ Cleared(r).sent = <<>> /\ Cleared(r).outgoing = <<>>
         /\ ~ Cleared(r).needsDispatch /\ Cleared(r).connectID = r.connectID
         /\ Cleared(r).outgoingPeerID = r.outgoingPeerID
         /\ Freed(r) \in PeerRecords /\ Freed(r).state = "DISCONNECTED"
         /\ Freed(r).connectID = NoID /\ Freed(r).outgoingPeerID = NoPeer
<1>1. /\ NoID \in IDs /\ "DISCONNECTED" \in States /\ NoPeer \in Slots \cup {NoPeer}
      /\ <<>> \in Seq(Commands) /\ <<>> \in Seq(IDs)
  BY EmptySeq DEF NoID, IDs, States
<1>2. /\ In(r, state) \in PeerRecords /\ In(r, state).state = state
      /\ In(r, state).acks = r.acks /\ In(r, state).dispatched = r.dispatched
      /\ In(r, state).needsDispatch = r.needsDispatch
  BY DEF In, PeerRecords
<1>3. /\ Flagged(r) \in PeerRecords /\ Flagged(r).state = r.state
      /\ Flagged(r).acks = r.acks /\ Flagged(r).dispatched = r.dispatched
      /\ Flagged(r).needsDispatch
  BY DEF Flagged, PeerRecords
<1>4. /\ Cleared(r) \in PeerRecords /\ Cleared(r).state = r.state
      /\ Cleared(r).acks = {} /\ Cleared(r).dispatched = <<>>
      /\ Cleared(r).sent = <<>> /\ Cleared(r).outgoing = <<>>
      /\ ~ Cleared(r).needsDispatch /\ Cleared(r).connectID = r.connectID
      /\ Cleared(r).outgoingPeerID = r.outgoingPeerID
  BY <1>1 DEF Cleared, PeerRecords
<1>5. /\ Freed(r) \in PeerRecords /\ Freed(r).state = "DISCONNECTED"
      /\ Freed(r).connectID = NoID /\ Freed(r).outgoingPeerID = NoPeer
  BY <1>1 DEF Freed, PeerRecords
<1> QED
  BY <1>2, <1>3, <1>4, <1>5

\* A peer that is freed has nothing left and nothing to tell.
LEMMA FreedIsOK ==
  ASSUME NEW r \in PeerRecords
  PROVE  LET s == Cleared(Freed(r))
         IN  s \in PeerRecords /\ s.state = "DISCONNECTED" /\ PeerOK(s) /\ Told(s)
<1> DEFINE f == Freed(r)  s == Cleared(f)
<1>0. "DISCONNECTED" \in States
  BY DEF States
<1>1. /\ f \in PeerRecords /\ f.state = "DISCONNECTED"
      /\ f.connectID = NoID /\ f.outgoingPeerID = NoPeer
  BY <1>0, PeerFields
<1> HIDE DEF f
<1>2. /\ s \in PeerRecords /\ s.state = "DISCONNECTED" /\ s.acks = {}
      /\ s.dispatched = <<>> /\ s.sent = <<>> /\ s.outgoing = <<>>
      /\ ~ s.needsDispatch /\ s.connectID = NoID /\ s.outgoingPeerID = NoPeer
  BY <1>0, <1>1, PeerFields
<1> HIDE DEF s
<1>3. PeerOK(s)
  BY <1>2 DEF PeerOK, CleanPeer
<1>4. Told(s)
  BY <1>2 DEF Told, Silent
<1> QED
  BY <1>2, <1>3, <1>4 DEF f, s

\* A peer that is dispatched in a state of no data.
LEMMA FlaggedIsOK ==
  ASSUME NEW r \in PeerRecords, NEW state \in States, state # "DISCONNECTED",
         state \in Early => r.dispatched = <<>>,
         \A a \in r.acks : a.cmd # "DISCONNECT"
  PROVE  LET s == Flagged(In(r, state))
         IN  s \in PeerRecords /\ s.state = state /\ PeerOK(s) /\ Told(s)
<1> DEFINE t == In(r, state)  s == Flagged(t)
<1>1. t \in PeerRecords /\ t.state = state /\ t.acks = r.acks /\ t.dispatched = r.dispatched
  BY PeerFields
<1> HIDE DEF t
<1>2. /\ s \in PeerRecords /\ s.state = state /\ s.acks = r.acks
      /\ s.dispatched = r.dispatched /\ s.needsDispatch
  BY <1>1, PeerFields
<1> HIDE DEF s
<1>3. PeerOK(s)
  BY <1>2 DEF PeerOK, CleanPeer
<1> QED
  BY <1>2, <1>3 DEF s, t, Told

\* What the loss of its connection makes of a peer.
Lost(r) == IF r.state \in {"DISCONNECTED", "ACKNOWLEDGING_CONNECT", "CONNECTION_PENDING"}
           THEN Cleared(Freed(r)) ELSE Flagged(In(r, "ZOMBIE"))

LEMMA NotifyDisconnectProperties ==
  ASSUME NEW hs, HostOK(hs), NEW p \in Slots
  PROVE  Became(NotifyDisconnect(hs, p), hs, p, Lost(hs.peers[p]))
<1>1. "ZOMBIE" \in States
  BY DEF States
<1> QED
  BY <1>1, ResetPeerProperties, DispatchStateProperties DEF NotifyDisconnect, Lost

LEMMA LostIsOK ==
  ASSUME NEW r \in PeerRecords, \A a \in r.acks : a.cmd # "DISCONNECT"
  PROVE  PeerOK(Lost(r)) /\ Told(Lost(r)) /\ (r.state # "DISCONNECTED" => ServedStep(r, Lost(r)))
<1>1. r.state \in States /\ "ZOMBIE" \in States /\ "ZOMBIE" \notin Early
  BY DEF PeerRecords, States, Early
<1>2. CASE r.state \in {"DISCONNECTED", "ACKNOWLEDGING_CONNECT", "CONNECTION_PENDING"}
  <2>1. Lost(r) = Cleared(Freed(r))
    BY <1>2 DEF Lost
  <2>2. Lost(r).state = "DISCONNECTED" /\ PeerOK(Lost(r)) /\ Told(Lost(r))
    BY <2>1, FreedIsOK
  <2> QED
    BY <1>2, <2>2 DEF ServedStep, Seen, Served
<1>3. CASE r.state \notin {"DISCONNECTED", "ACKNOWLEDGING_CONNECT", "CONNECTION_PENDING"}
  <2>1. Lost(r) = Flagged(In(r, "ZOMBIE"))
    BY <1>3 DEF Lost
  <2>2. Lost(r).state = "ZOMBIE" /\ PeerOK(Lost(r)) /\ Told(Lost(r))
    BY <1>1, <2>1, FlaggedIsOK
  <2> QED
    BY <1>1, <1>3, <2>2 DEF ServedStep, Seen, Served, States
<1> QED
  BY <1>2, <1>3

\* What NotifyConnect makes of a peer.
Met(r) == Flagged(In(r, IF r.state = "CONNECTING" THEN "CONNECTION_SUCCEEDED"
                        ELSE "CONNECTION_PENDING"))

LEMMA NotifyConnectProperties ==
  ASSUME NEW hs, HostOK(hs), NEW p \in Slots
  PROVE  Became(NotifyConnect(hs, p), hs, p, Met(hs.peers[p]))
<1>1. {"CONNECTION_SUCCEEDED", "CONNECTION_PENDING"} \subseteq States
  BY DEF States
<1> QED
  BY <1>1, DispatchStateProperties DEF NotifyConnect, Met

LEMMA MetIsOK ==
  ASSUME NEW r \in PeerRecords, PeerOK(r), r.state \in {"CONNECTING", "ACKNOWLEDGING_CONNECT"}
  PROVE  PeerOK(Met(r)) /\ Told(Met(r)) /\ ServedStep(r, Met(r))
<1> DEFINE state == IF r.state = "CONNECTING" THEN "CONNECTION_SUCCEEDED"
                    ELSE "CONNECTION_PENDING"
<1>1. state \in States /\ state # "DISCONNECTED" /\ Met(r) = Flagged(In(r, state))
  BY DEF States, Met
<1>2. r.dispatched = <<>> /\ \A a \in r.acks : a.cmd # "DISCONNECT"
  BY DEF PeerOK, Early
<1>3. Met(r).state = state /\ PeerOK(Met(r)) /\ Told(Met(r))
  <2> HIDE DEF state
  <2> QED
    BY <1>1, <1>2, FlaggedIsOK
<1> QED
  BY <1>3 DEF ServedStep, Seen, Served

-----------------------------------------------------------------------------
(* The send pass. *)

\* A datagram says what its header and its command say.
LEMMA DatagramType ==
  ASSUME NEW h \in Hosts, NEW r \in PeerRecords, NEW cmd, NEW channel \in Nat,
         NEW seq \in Nat, NEW ack \in BOOLEAN, NEW body,
         \/ cmd \in {"CONNECT", "VERIFY_CONNECT"} /\ body \in Handshakes
         \/ cmd \in {"DISCONNECT", "PING", "SEND_RELIABLE", "ACKNOWLEDGE"} /\ body \in Plain
  PROVE  Datagram(h, r, cmd, channel, seq, ack, body) \in Datagrams
<1> DEFINE session == IF r.outgoingPeerID = NoPeer THEN 0 ELSE r.outgoingSessionID
<1>1. /\ r.address \in Hosts \cup {NoHost} /\ r.outgoingPeerID \in Slots \cup {NoPeer}
      /\ session \in Sessions
  BY DEF PeerRecords, Sessions, SESSIONS
<1>2. Datagram(h, r, cmd, channel, seq, ack, body) =
        [from |-> h, to |-> r.address, peerID |-> r.outgoingPeerID, session |-> session,
         cmd |-> cmd, channel |-> channel, seq |-> seq, ack |-> ack, body |-> body]
  BY DEF Datagram
<1> HIDE DEF session
<1> QED
  BY <1>1, <1>2 DEF Datagrams, DatagramsOf

LEMMA NoBodyPlain == NoBody \in Plain /\ NoID \in IDs
  BY DEF NoBody, Plain, NoID, IDs

\* What is sent and what is counted for good touches no peer.
LEMMA OutKeeps ==
  ASSUME NEW hs, HostOK(hs), NEW p \in Slots, NEW r, NEW hs2, Became(hs2, hs, p, r)
  PROVE  /\ \A out : out \subseteq Datagrams => Became([hs2 EXCEPT !.out = out], hs, p, r)
         /\ Became([hs2 EXCEPT !.connects = hs2.connects + 1], hs, p, r)
         /\ Became([hs2 EXCEPT !.accepts = hs2.accepts + 1], hs, p, r)
<1>1. hs2 \in HostRecords /\ Counted(hs2) /\ Queued(hs2)
  BY DEF Became, HostOK
<1>2. hs2.connects \in Nat /\ hs2.accepts \in Nat
  BY <1>1 DEF HostRecords
<1>3. ASSUME NEW new \in HostRecords, new.peers = hs2.peers, new.self = hs2.self,
             new.connectedPeers = hs2.connectedPeers,
             new.bandwidthLimitedPeers = hs2.bandwidthLimitedPeers,
             new.dispatchQueue = hs2.dispatchQueue
      PROVE  Became(new, hs, p, r)
  <2>1. Counted(new)
    BY <1>1, <1>3, CountedKept
  <2>2. Queued(new)
    BY <1>1, <1>3 DEF Queued
  <2> QED
    BY <1>3, <2>1, <2>2 DEF Became, HostOK
<1>4. ASSUME NEW out, out \subseteq Datagrams
      PROVE  Became([hs2 EXCEPT !.out = out], hs, p, r)
  <2> DEFINE new == [hs2 EXCEPT !.out = out]
  <2>1. /\ new \in HostRecords /\ new.peers = hs2.peers /\ new.self = hs2.self
        /\ new.connectedPeers = hs2.connectedPeers
        /\ new.bandwidthLimitedPeers = hs2.bandwidthLimitedPeers
        /\ new.dispatchQueue = hs2.dispatchQueue
    BY <1>1, <1>4 DEF HostRecords
  <2> HIDE DEF new
  <2>2. Became(new, hs, p, r)
    BY <1>3, <2>1
  <2> QED
    BY <2>2 DEF new
<1>5. ASSUME NEW n \in Nat
      PROVE  /\ Became([hs2 EXCEPT !.connects = n], hs, p, r)
             /\ Became([hs2 EXCEPT !.accepts = n], hs, p, r)
  <2> DEFINE x == [hs2 EXCEPT !.connects = n]  y == [hs2 EXCEPT !.accepts = n]
  <2>1. /\ x \in HostRecords /\ x.peers = hs2.peers /\ x.self = hs2.self
        /\ x.connectedPeers = hs2.connectedPeers
        /\ x.bandwidthLimitedPeers = hs2.bandwidthLimitedPeers
        /\ x.dispatchQueue = hs2.dispatchQueue
    BY <1>1 DEF HostRecords
  <2>2. /\ y \in HostRecords /\ y.peers = hs2.peers /\ y.self = hs2.self
        /\ y.connectedPeers = hs2.connectedPeers
        /\ y.bandwidthLimitedPeers = hs2.bandwidthLimitedPeers
        /\ y.dispatchQueue = hs2.dispatchQueue
    BY <1>1 DEF HostRecords
  <2> HIDE DEF x, y
  <2>3. Became(x, hs, p, r)
    BY <1>3, <2>1
  <2>4. Became(y, hs, p, r)
    BY <1>3, <2>2
  <2> QED
    BY <2>3, <2>4 DEF x, y
<1>6. hs2.connects + 1 \in Nat /\ hs2.accepts + 1 \in Nat
  BY <1>2
<1> QED
  BY <1>4, <1>5, <1>6

\* An assignment to a peer and to the datagrams sent.
LEMMA SetAndSend ==
  ASSUME NEW hs, HostOK(hs), NEW p \in Slots, NEW r \in PeerRecords, NEW out,
         out \subseteq Datagrams,
         r.needsDispatch = hs.peers[p].needsDispatch,
         r.state = hs.peers[p].state, r.limited = hs.peers[p].limited
  PROVE  Became([hs EXCEPT !.out = out, !.peers[p] = r], hs, p, r)
<1>1. Became(Set(hs, p, r), hs, p, r)
  BY SetKeeps
<1>2. Became([Set(hs, p, r) EXCEPT !.out = out], hs, p, r)
  BY <1>1, OutKeeps
<1>3. [hs EXCEPT !.out = out, !.peers[p] = r] = [Set(hs, p, r) EXCEPT !.out = out]
  BY DEF Set, HostOK, HostRecords
<1> QED
  BY <1>2, <1>3

Acked(r) == [r EXCEPT !.acks = {}]

\* What a peer becomes by sending its acknowledgements.
Acknowledged(r) == IF \E a \in r.acks : a.cmd = "DISCONNECT"
                   THEN Flagged(In(Acked(r), "ZOMBIE")) ELSE Acked(r)

LEMMA SendAcknowledgementsProperties ==
  ASSUME NEW hs, HostOK(hs), NEW p \in Slots
  PROVE  Became(SendAcknowledgements(hs, p), hs, p, Acknowledged(hs.peers[p]))
<1> DEFINE r == hs.peers[p]
           d(a) == Datagram(hs.self, r, "ACKNOWLEDGE", a.channel, a.seq, FALSE, NoBody)
           out == hs.out \cup {d(a) : a \in r.acks}
           acked == [hs EXCEPT !.out = out, !.peers[p].acks = {}]
<1>1. /\ hs \in HostRecords /\ r \in PeerRecords /\ hs.self \in Hosts
      /\ hs.out \subseteq Datagrams
  BY PeerType DEF HostOK
<1>2. ASSUME NEW a \in r.acks PROVE d(a) \in Datagrams
  <2>1. a.channel \in Nat /\ a.seq \in Nat
    BY <1>1 DEF PeerRecords, Acks
  <2> QED
    BY <1>1, <2>1, DatagramType, NoBodyPlain
<1>3. out \subseteq Datagrams
  BY <1>1, <1>2
<1>4. /\ Acked(r) \in PeerRecords /\ Acked(r).state = r.state
      /\ Acked(r).limited = r.limited /\ Acked(r).needsDispatch = r.needsDispatch
  BY <1>1 DEF Acked, PeerRecords
<1>5. SendAcknowledgements(hs, p) = IF \E a \in r.acks : a.cmd = "DISCONNECT"
                                    THEN DispatchState(acked, p, "ZOMBIE") ELSE acked
  BY DEF SendAcknowledgements
<1> HIDE DEF out
<1>6. acked = [hs EXCEPT !.out = out, !.peers[p] = Acked(r)]
  BY <1>1 DEF HostRecords, Acked
<1>7. Became(acked, hs, p, Acked(r))
  <2> HIDE DEF acked
  <2> QED
    BY <1>3, <1>4, <1>6, SetAndSend
<1> HIDE DEF acked
<1>8. HostOK(acked) /\ acked.peers[p] = Acked(r) /\ "ZOMBIE" \in States
  BY <1>7, BecameThen DEF States
<1>9. Became(DispatchState(acked, p, "ZOMBIE"), acked, p, Flagged(In(Acked(r), "ZOMBIE")))
  BY <1>8, DispatchStateProperties
<1>10. Became(DispatchState(acked, p, "ZOMBIE"), hs, p, Flagged(In(Acked(r), "ZOMBIE")))
  BY <1>7, <1>9, BecameThen
<1> QED
  BY <1>5, <1>7, <1>10 DEF Acknowledged

LEMMA AcknowledgedIsOK ==
  ASSUME NEW r \in PeerRecords, PeerOK(r), r.state \notin {"DISCONNECTED", "ZOMBIE"}
  PROVE  LET s == Acknowledged(r)
         IN  /\ s \in PeerRecords /\ PeerOK(s) /\ (Told(r) => Told(s)) /\ s.acks = {}
             /\ \/ s.state = r.state
                \/ s.state = "ZOMBIE" /\ r.state = "ACKNOWLEDGING_DISCONNECT"
<1> DEFINE s == Acknowledged(r)
<1>1. /\ Acked(r) \in PeerRecords /\ Acked(r).state = r.state /\ Acked(r).acks = {}
      /\ Acked(r).needsDispatch = r.needsDispatch
      /\ Acked(r).dispatched = r.dispatched
  BY DEF Acked, PeerRecords
<1>2. CASE \E a \in r.acks : a.cmd = "DISCONNECT"
  <2>1. s = Flagged(In(Acked(r), "ZOMBIE")) /\ r.state = "ACKNOWLEDGING_DISCONNECT"
    BY <1>2 DEF Acknowledged, PeerOK
  <2>2. "ZOMBIE" \in States /\ "ZOMBIE" \notin Early
    BY DEF States, Early
  <2>3. s \in PeerRecords /\ s.state = "ZOMBIE" /\ PeerOK(s) /\ Told(s)
    BY <1>1, <2>1, <2>2, FlaggedIsOK
  <2>4. In(Acked(r), "ZOMBIE") \in PeerRecords /\ In(Acked(r), "ZOMBIE").acks = {}
    BY <1>1, <2>2, PeerFields
  <2>5. s.acks = {}
    BY <2>1, <2>2, <2>4, PeerFields
  <2> QED
    BY <2>1, <2>3, <2>5
<1>3. CASE ~ \E a \in r.acks : a.cmd = "DISCONNECT"
  <2>1. s = Acked(r)
    BY <1>3 DEF Acknowledged
  <2> HIDE DEF s
  <2>2. PeerOK(s)
    BY <1>1, <2>1 DEF PeerOK, CleanPeer
  <2>3. Told(r) => Told(s)
    BY <1>1, <2>1 DEF Told, Silent
  <2> QED
    BY <1>1, <2>1, <2>2, <2>3 DEF s
<1> QED
  BY <1>2, <1>3

\* The commands of a peer, moved from the commands to send to those sent.
Transmitted(r) == [r EXCEPT !.sent = r.sent \o r.outgoing, !.outgoing = <<>>]

LEMMA SendReliableProperties ==
  ASSUME NEW hs, HostOK(hs), NEW p \in Slots
  PROVE  Became(SendReliable(hs, p), hs, p, Transmitted(hs.peers[p]))
<1> DEFINE r == hs.peers[p]
           d(c) == Datagram(hs.self, r, c.cmd, c.channel, c.seq, TRUE, c.body)
           out == hs.out \cup {d(c) : c \in ToSet(r.outgoing)}
           sent == r.sent \o r.outgoing
           s == [r EXCEPT !.sent = sent, !.outgoing = <<>>]
<1>1. /\ hs \in HostRecords /\ r \in PeerRecords /\ hs.self \in Hosts
      /\ hs.out \subseteq Datagrams
  BY PeerType DEF HostOK
<1>2. r.outgoing \in Seq(Commands) /\ r.sent \in Seq(Commands) /\ <<>> \in Seq(Commands)
  BY <1>1, EmptySeq DEF PeerRecords
<1>3. sent \in Seq(Commands) /\ ToSet(r.outgoing) \subseteq Commands
  BY <1>2, ConcatProperties, ElementOfSeq, LenProperties DEF ToSet
<1>4. ASSUME NEW c \in ToSet(r.outgoing) PROVE d(c) \in Datagrams
  <2>1. c \in Commands
    BY <1>3
  <2>2. /\ c.channel \in Nat /\ c.seq \in Nat
        /\ \/ c.cmd \in {"CONNECT", "VERIFY_CONNECT"} /\ c.body \in Handshakes
           \/ c.cmd \in {"DISCONNECT", "PING", "SEND_RELIABLE"} /\ c.body \in Plain
    BY <2>1 DEF Commands
  <2> QED
    BY <1>1, <2>2, DatagramType
<1>5. out \subseteq Datagrams
  BY <1>1, <1>4
<1> HIDE DEF out, sent
<1>6. /\ s \in PeerRecords /\ s.state = r.state
      /\ s.limited = r.limited /\ s.needsDispatch = r.needsDispatch
  BY <1>1, <1>2, <1>3 DEF PeerRecords
<1>7. SendReliable(hs, p) = [hs EXCEPT !.out = out, !.peers[p] = s]
  BY <1>1, ZenonT(30) DEF SendReliable, out, sent, HostRecords, PeerRecords
<1>8. Became([hs EXCEPT !.out = out, !.peers[p] = s], hs, p, s)
  <2> HIDE DEF s
  <2> QED
    BY <1>5, <1>6, SetAndSend
<1> QED
  BY <1>7, <1>8 DEF Transmitted, sent

LEMMA TransmittedIsOK ==
  ASSUME NEW r \in PeerRecords, PeerOK(r), r.state # "DISCONNECTED"
  PROVE  LET s == Transmitted(r)
         IN  s.state = r.state /\ PeerOK(s) /\ (Told(r) => Told(s))
<1> DEFINE s == Transmitted(r)
<1>1. /\ s.state = r.state /\ s.acks = r.acks /\ s.dispatched = r.dispatched
      /\ s.needsDispatch = r.needsDispatch
  BY DEF Transmitted, PeerRecords
<1> HIDE DEF s
<1>2. PeerOK(s)
  BY <1>1 DEF PeerOK, CleanPeer
<1>3. Told(r) => Told(s)
  BY <1>1 DEF Told, Silent
<1> QED
  BY <1>1, <1>2, <1>3 DEF s

LEMMA WithControlIsOK ==
  ASSUME NEW r \in PeerRecords, PeerOK(r), r.state # "DISCONNECTED", NEW cmd, NEW body
  PROVE  LET s == WithControl(r, cmd, body)
         IN  s.state = r.state /\ PeerOK(s) /\ (Told(r) => Told(s))
<1> DEFINE s == WithControl(r, cmd, body)
<1>1. /\ s.state = r.state /\ s.acks = r.acks /\ s.dispatched = r.dispatched
      /\ s.needsDispatch = r.needsDispatch
  BY DEF WithControl, PeerRecords
<1> HIDE DEF s
<1>2. PeerOK(s)
  BY <1>1 DEF PeerOK, CleanPeer
<1>3. Told(r) => Told(s)
  BY <1>1 DEF Told, Silent
<1> QED
  BY <1>1, <1>2, <1>3 DEF s

\* What the service of a host may make of one of its peers: it stays correct, it
\* stays in the dispatch queue while it has an event to tell, and its state
\* changes as PeerLifecycle allows.
Handled(hs2, hs, p) ==
  \E r \in PeerRecords : /\ Became(hs2, hs, p, r)
                         /\ PeerOK(r) /\ (Told(hs.peers[p]) => Told(r))
                         /\ ServedStep(hs.peers[p], r)

LEMMA HandledNothing ==
  ASSUME NEW hs, HostOK(hs), NEW p \in Slots, PeerOK(hs.peers[p])
  PROVE  Handled(hs, hs, p)
<1>1. hs.peers \in [Slots -> PeerRecords] /\ hs.peers[p] \in PeerRecords
  BY PeerType DEF HostOK
<1>2. Became(hs, hs, p, hs.peers[p])
  BY <1>1 DEF Became
<1>3. ServedStep(hs.peers[p], hs.peers[p])
  BY DEF ServedStep
<1> QED
  BY <1>1, <1>2, <1>3 DEF Handled

LEMMA ServeProperties ==
  ASSUME NEW hs, HostOK(hs), NEW p \in Slots, PeerOK(hs.peers[p]), NEW due
  PROVE  Handled(Serve(hs, p, due), hs, p)
<1> DEFINE r == hs.peers[p]
           acked == SendAcknowledgements(hs, p)
           s == Acknowledged(r)
<1>1. hs \in HostRecords /\ r \in PeerRecords /\ hs.out \subseteq Datagrams
  BY PeerType DEF HostOK
<1>2. CASE r.state \in {"DISCONNECTED", "ZOMBIE"}
  BY <1>2, HandledNothing DEF Serve
<1>3. CASE r.state \notin {"DISCONNECTED", "ZOMBIE"}
  <2>1. Became(acked, hs, p, s)
    BY SendAcknowledgementsProperties
  <2>2. /\ s \in PeerRecords /\ PeerOK(s) /\ (Told(r) => Told(s)) /\ s.acks = {}
        /\ \/ s.state = r.state
           \/ s.state = "ZOMBIE" /\ r.state = "ACKNOWLEDGING_DISCONNECT"
    BY <1>1, <1>3, AcknowledgedIsOK
  <2>3. Serve(hs, p, due) =
          IF due = "expired"
          THEN [NotifyDisconnect(acked, p) EXCEPT !.out = hs.out]
          ELSE SendReliable(IF due = "ping" THEN Ping(acked, p) ELSE acked, p)
    BY <1>3 DEF Serve
  <2> HIDE DEF acked, s
  <2>4. HostOK(acked) /\ acked.peers[p] = s
    BY <2>1, BecameThen
  <2>5. CASE due = "expired"
    <3>1. Became(NotifyDisconnect(acked, p), acked, p, Lost(s))
      BY <2>4, NotifyDisconnectProperties
    <3>2. Became(NotifyDisconnect(acked, p), hs, p, Lost(s))
      BY <2>1, <3>1, BecameThen
    <3>3. Became(Serve(hs, p, due), hs, p, Lost(s))
      <4> DEFINE lost == NotifyDisconnect(acked, p)
      <4>1. Serve(hs, p, due) = [lost EXCEPT !.out = hs.out]
        BY <2>3, <2>5
      <4> HIDE DEF lost
      <4>2. Became(lost, hs, p, Lost(s))
        BY <3>2 DEF lost
      <4>3. Became([lost EXCEPT !.out = hs.out], hs, p, Lost(s))
        BY <1>1, <4>2, OutKeeps
      <4> QED
        BY <4>1, <4>3
    <3>4. PeerOK(Lost(s)) /\ Told(Lost(s)) /\ ServedStep(s, Lost(s))
      BY <1>3, <2>2, LostIsOK
    <3>5. Lost(s) \in PeerRecords
      BY <3>2, BecameThen
    <3>6. ServedStep(r, Lost(s))
      <4>1. CASE s.state = r.state
        BY <3>4, <4>1 DEF ServedStep
      <4>2. CASE s.state = "ZOMBIE" /\ r.state = "ACKNOWLEDGING_DISCONNECT"
        <5>1. Lost(s) = Flagged(In(s, "ZOMBIE")) /\ "ZOMBIE" \in States
          BY <4>2 DEF Lost, States
        <5>2. In(s, "ZOMBIE") \in PeerRecords /\ In(s, "ZOMBIE").state = "ZOMBIE"
          BY <2>2, <5>1, PeerFields, SMTT(20)
        <5>3. Lost(s).state = "ZOMBIE"
          BY <5>1, <5>2, PeerFields
        <5> QED
          BY <4>2, <5>3 DEF ServedStep, Seen, Served
      <4> QED
        BY <2>2, <4>1, <4>2
    <3> QED
      BY <3>3, <3>4, <3>5, <3>6 DEF Handled
  <2>6. CASE due # "expired"
    <3> DEFINE pinged == IF due = "ping" THEN Ping(acked, p) ELSE acked
               t == IF due = "ping" THEN WithControl(s, "PING", NoBody) ELSE s
    <3>1. Became(pinged, hs, p, t) /\ PeerOK(t) /\ (Told(s) => Told(t)) /\ t.state = s.state
      <4>1. CASE due = "ping"
        <5>1. Became(Ping(acked, p), acked, p, t)
          BY <2>4, <4>1, QueueControlProperties, NoBodyPlain DEF Ping
        <5>2. Became(pinged, hs, p, t)
          BY <2>1, <4>1, <5>1, BecameThen
        <5>3. s.state # "DISCONNECTED"
          BY <1>3, <2>2
        <5>4. t.state = s.state /\ PeerOK(t) /\ (Told(s) => Told(t))
          BY <2>2, <4>1, <5>3, WithControlIsOK
        <5> QED
          BY <5>2, <5>4
      <4>2. CASE due # "ping"
        BY <2>1, <2>2, <4>2
      <4> QED
        BY <4>1, <4>2
    <3>2. Serve(hs, p, due) = SendReliable(pinged, p)
      BY <2>3, <2>6
    <3> HIDE DEF pinged, t
    <3>3. HostOK(pinged) /\ pinged.peers[p] = t /\ t \in PeerRecords
      BY <3>1, BecameThen
    <3>4. Became(SendReliable(pinged, p), pinged, p, Transmitted(t))
      BY <3>3, SendReliableProperties
    <3>5. Became(SendReliable(pinged, p), hs, p, Transmitted(t))
      BY <3>1, <3>4, BecameThen
    <3>6. t.state # "DISCONNECTED"
      BY <1>3, <2>2, <3>1
    <3>7. /\ Transmitted(t).state = t.state /\ PeerOK(Transmitted(t))
          /\ (Told(t) => Told(Transmitted(t)))
      BY <3>1, <3>3, <3>6, TransmittedIsOK
    <3>8. Transmitted(t) \in PeerRecords
      BY <3>5, BecameThen
    <3>9. ServedStep(r, Transmitted(t))
      BY <2>2, <3>1, <3>7 DEF ServedStep, Seen, Served
    <3> QED
      BY <2>2, <3>1, <3>2, <3>5, <3>7, <3>8, <3>9 DEF Handled
  <2> QED
    BY <2>5, <2>6
<1> QED
  BY <1>2, <1>3

\* What a pass over the peers may make of all of them.
Passed(hs2, hs) ==
  /\ HostOK(hs2) /\ hs2.self = hs.self
  /\ \A q \in Slots : /\ PeerOK(hs2.peers[q])
                      /\ Told(hs.peers[q]) => Told(hs2.peers[q])
                      /\ ServedStep(hs.peers[q], hs2.peers[q])

\* The turns of a pass: each is of the host that the turn before left.
LEMMA PassTurns ==
  ASSUME NEW hs, NEW due, NEW n \in Nat
  PROVE  \E f : /\ Pass(hs, due, n) = f[n] /\ f[0] = hs
                /\ \A k \in 1 .. n : f[k] = Serve(f[k - 1], k - 1, due[k - 1])
<1> DEFINE Turns(m, g) == [k \in 0 .. m |-> IF k = 0 THEN hs
                                            ELSE Serve(g[k - 1], k - 1, due[k - 1])]
           S == {m \in Nat : \E g : g = Turns(m, g)}
<1>1. 0 \in S
  <2>1. [k \in 0 .. 0 |-> hs] = Turns(0, [k \in 0 .. 0 |-> hs])
    OBVIOUS
  <2> QED
    BY <2>1
<1>2. ASSUME NEW m \in 0 .. n - 1, m \in S PROVE m + 1 \in S
  <2>1. PICK g : g = Turns(m, g)
    BY <1>2
  <2> DEFINE last == Serve(g[m], m, due[m])
             f == [k \in 0 .. m + 1 |-> IF k =< m THEN g[k] ELSE last]
  <2>2. \A k \in 0 .. m : f[k] = g[k]
    OBVIOUS
  <2>3. f[m + 1] = last
    OBVIOUS
  <2>4. \A k \in 0 .. m : g[k] = IF k = 0 THEN hs ELSE Serve(g[k - 1], k - 1, due[k - 1])
    BY <2>1
  <2>5. ASSUME NEW k \in 0 .. m + 1
        PROVE  f[k] = IF k = 0 THEN hs ELSE Serve(f[k - 1], k - 1, due[k - 1])
    <3>1. CASE k = m + 1
      <4>1. f[k - 1] = g[m] /\ k - 1 = m /\ k # 0
        BY <2>2, <3>1
      <4> QED
        BY <2>3, <3>1, <4>1
    <3>2. CASE k # m + 1
      <4>1. k \in 0 .. m
        BY <3>2
      <4>2. k # 0 => k - 1 \in 0 .. m
        BY <4>1
      <4> QED
        BY <2>2, <2>4, <4>1, <4>2
    <3> QED
      BY <3>1, <3>2
  <2>6. f = [k \in 0 .. m + 1 |-> f[k]]
    OBVIOUS
  <2> HIDE DEF f
  <2>7. f = Turns(m + 1, f)
    BY <2>5, <2>6
  <2> QED
    BY <2>7
<1>3. n \in S
  <2> HIDE DEF S
  <2>1. 0 .. n \subseteq S
    BY <1>1, <1>2, IntervalInduction
  <2> QED
    BY <2>1
<1> DEFINE f == CHOOSE g : g = Turns(n, g)
<1>4. f = Turns(n, f)
  BY <1>3, Zenon
<1>5. Pass(hs, due, n) = f[n]
  BY DEF Pass
<1> HIDE DEF f
<1>6. f[0] = hs
  BY <1>4
<1>7. \A k \in 1 .. n : f[k] = Serve(f[k - 1], k - 1, due[k - 1])
  BY <1>4
<1> QED
  BY <1>5, <1>6, <1>7

\* enet_protocol_send_outgoing_commands.
LEMMA PassProperties ==
  ASSUME NEW hs, HostOK(hs), \A q \in Slots : PeerOK(hs.peers[q]), NEW due,
         NEW n \in 0 .. PeerCount
  PROVE  Passed(Pass(hs, due, n), hs)
<1>1. PeerCount \in Nat /\ n \in Nat
  BY HostAssumption
<1>2. PICK f : /\ Pass(hs, due, n) = f[n] /\ f[0] = hs
               /\ \A k \in 1 .. n : f[k] = Serve(f[k - 1], k - 1, due[k - 1])
  BY <1>1, PassTurns
<1> DEFINE Ahead(k) == \A q \in Slots : q >= k => f[k].peers[q] = hs.peers[q]
           S == {k \in 0 .. n : Passed(f[k], hs) /\ Ahead(k)}
<1>3. 0 \in S
  <2>1. \A q \in Slots : ServedStep(hs.peers[q], hs.peers[q])
    BY DEF ServedStep
  <2> QED
    BY <1>1, <1>2, <2>1 DEF Passed
<1>4. ASSUME NEW k \in 0 .. n - 1, k \in S PROVE k + 1 \in S
  <2>1. /\ k \in Slots /\ k + 1 \in 1 .. n /\ k \in Nat /\ k + 1 \in 0 .. n
        /\ (k + 1) - 1 = k
    BY <1>1 DEF Slots
  <2>2. f[k + 1] = Serve(f[k], k, due[k])
    BY <1>2, <2>1
  <2>3. Passed(f[k], hs) /\ Ahead(k)
    BY <1>4
  <2>4. HostOK(f[k]) /\ PeerOK(f[k].peers[k]) /\ f[k].peers[k] = hs.peers[k]
    BY <2>1, <2>3 DEF Passed
  <2>5. Handled(f[k + 1], f[k], k)
    BY <2>1, <2>2, <2>4, ServeProperties
  <2>6. PICK r \in PeerRecords : /\ Became(f[k + 1], f[k], k, r)
                                 /\ PeerOK(r) /\ (Told(hs.peers[k]) => Told(r))
                                 /\ ServedStep(hs.peers[k], r)
    BY <2>4, <2>5 DEF Handled
  <2>7. /\ HostOK(f[k + 1]) /\ f[k + 1].self = f[k].self /\ f[k + 1].peers[k] = r
        /\ \A q \in Slots : q # k => f[k + 1].peers[q] = f[k].peers[q]
    BY <2>1, <2>4, <2>6, BecameThen
  <2>8. Passed(f[k + 1], hs)
    BY <2>3, <2>6, <2>7 DEF Passed
  <2>9. Ahead(k + 1)
    <3> SUFFICES ASSUME NEW q \in Slots, q >= k + 1
                 PROVE  f[k + 1].peers[q] = hs.peers[q]
      OBVIOUS
    <3>1. q # k /\ q >= k
      BY <1>1, <2>1 DEF Slots
    <3> QED
      BY <2>3, <2>7, <3>1
  <2> QED
    BY <2>1, <2>8, <2>9
<1>5. 0 .. n \subseteq S
  <2> HIDE DEF S
  <2> QED
    BY <1>1, <1>3, <1>4, IntervalInduction
<1>6. n \in S
  BY <1>1, <1>5
<1> QED
  BY <1>2, <1>6

-----------------------------------------------------------------------------
(* The handlers of incoming commands. *)

\* What is left of a list of commands when the first match is taken out of it.
Without(s, channel, seq) == RemoveFirstMatch(s, LAMBDA c : Matches(c, channel, seq))

LEMMA WithoutType ==
  ASSUME NEW s \in Seq(Commands), NEW channel, NEW seq
  PROVE  Without(s, channel, seq) \in Seq(Commands)
<1> DEFINE I == {k \in 1 .. Len(s) : Matches(s[k], channel, seq)}
           rest == Without(s, channel, seq)
<1>1. CASE I = {}
  <2>1. rest = s
    BY <1>1 DEF RemoveFirstMatch, Without
  <2> QED
    BY <2>1
<1>2. CASE I # {}
  <2>1. Len(s) \in Nat /\ DOMAIN s = 1 .. Len(s)
    BY LenProperties
  <2>2. I \subseteq Nat
    BY <2>1
  <2>3. PICK first \in I : \A r \in I : first =< r
    BY <1>2, <2>2, LeastElement
  <2>4. Min(I) \in I
    BY <2>3 DEF Min
  <2>5. SelectInSeq(s, LAMBDA c : Matches(c, channel, seq)) = Min(I)
    BY <1>2 DEF SelectInSeq
  <2>6. rest = RemoveAt(s, Min(I))
    BY <1>2, <2>5 DEF RemoveFirstMatch, Without
  <2>7. Min(I) \in DOMAIN s
    BY <2>1, <2>4
  <2>8. RemoveAt(s, Min(I)) \in Seq(Commands)
    BY <2>7, RemoveAtProperties
  <2> QED
    BY <2>6, <2>8
<1> QED
  BY <1>1, <1>2

\* A peer with other commands to be acknowledged.
WithSent(r, list) == [r EXCEPT !.sent = list]

LEMMA RemovedProperties ==
  ASSUME NEW hs, HostOK(hs), NEW p \in Slots, NEW channel, NEW seq
  PROVE  \E r \in PeerRecords :
           /\ Became(Removed(hs, p, channel, seq), hs, p, r)
           /\ r.state = hs.peers[p].state /\ r.acks = hs.peers[p].acks
           /\ r.dispatched = hs.peers[p].dispatched
           /\ r.needsDispatch = hs.peers[p].needsDispatch
           /\ r.limited = hs.peers[p].limited
           /\ PeerOK(hs.peers[p]) /\ r.state # "DISCONNECTED" => PeerOK(r)
           /\ Told(hs.peers[p]) => Told(r)
<1> DEFINE old == hs.peers[p]
           list == Without(old.sent, channel, seq)
           r == WithSent(old, list)
<1>1. hs \in HostRecords /\ old \in PeerRecords
  BY PeerType DEF HostOK
<1>2. old.sent \in Seq(Commands)
  BY <1>1 DEF PeerRecords
<1>3. list \in Seq(Commands)
  BY <1>2, WithoutType
<1>4. Removed(hs, p, channel, seq) = [hs EXCEPT !.peers[p].sent = list]
  BY DEF Removed, Without
<1> HIDE DEF list
<1>5. Removed(hs, p, channel, seq) = Set(hs, p, r)
  BY <1>4 DEF Set, WithSent
<1>6. /\ r \in PeerRecords /\ r.state = old.state /\ r.acks = old.acks
      /\ r.dispatched = old.dispatched /\ r.needsDispatch = old.needsDispatch
      /\ r.limited = old.limited
  BY <1>1, <1>3 DEF WithSent, PeerRecords
<1> HIDE DEF r
<1>7. Became(Set(hs, p, r), hs, p, r)
  BY <1>6, SetKeeps
<1>8. PeerOK(old) /\ r.state # "DISCONNECTED" => PeerOK(r)
  BY <1>6 DEF PeerOK, CleanPeer
<1>9. Told(old) => Told(r)
  BY <1>6 DEF Told, Silent
<1> QED
  BY <1>5, <1>6, <1>7, <1>8, <1>9

\* What enet_peer_disconnect makes of a peer that is up.
Leaving(r) == In(WithControl(Cleared(r), "DISCONNECT", NoBody), "DISCONNECTING")

LEMMA DisconnectUp ==
  ASSUME NEW hs, HostOK(hs), NEW p \in Slots, hs.peers[p].state \in Up, NEW n
  PROVE  Became(DisconnectPeer(hs, p, n), hs, p, Leaving(hs.peers[p]))
<1> DEFINE r == Cleared(hs.peers[p])
           s == WithControl(r, "DISCONNECT", NoBody)
           cleared == ResetQueues(hs, p)
           queued == QueueControl(cleared, p, "DISCONNECT", NoBody)
<1>1. DisconnectPeer(hs, p, n) = ChangeState(queued, p, "DISCONNECTING")
  BY DEF DisconnectPeer, ChangeState, Up
<1>2. Became(cleared, hs, p, r)
  BY ResetQueuesProperties
<1> HIDE DEF r, s, cleared, queued
<1>3. HostOK(cleared) /\ cleared.peers[p] = r
  BY <1>2, BecameThen
<1>4. Became(queued, cleared, p, s)
  BY <1>3, QueueControlProperties, NoBodyPlain DEF queued, s
<1>5. Became(queued, hs, p, s)
  BY <1>2, <1>4, BecameThen
<1>6. HostOK(queued) /\ queued.peers[p] = s /\ "DISCONNECTING" \in States
  BY <1>5, BecameThen DEF States
<1>7. Became(ChangeState(queued, p, "DISCONNECTING"), queued, p, In(s, "DISCONNECTING"))
  BY <1>6, ChangeStateProperties
<1>8. Became(ChangeState(queued, p, "DISCONNECTING"), hs, p, In(s, "DISCONNECTING"))
  BY <1>5, <1>7, BecameThen
<1> QED
  BY <1>1, <1>8 DEF Leaving, s, r

LEMMA LeavingIsOK ==
  ASSUME NEW r \in PeerRecords
  PROVE  Leaving(r).state = "DISCONNECTING" /\ PeerOK(Leaving(r)) /\ Told(Leaving(r))
<1> DEFINE c == Cleared(r)
           n == c.seq + 1
           list == Append(c.outgoing, Command("DISCONNECT", Control, n, NoBody))
           s == [c EXCEPT !.seq = n, !.outgoing = list]
           t == [s EXCEPT !.state = "DISCONNECTING"]
<1>1. "DISCONNECTING" \in States /\ "DISCONNECTED" \in States
  BY DEF States
<1>2. c \in PeerRecords /\ c.acks = {} /\ c.dispatched = <<>>
  BY <1>1, PeerFields
<1>3. Leaving(r) = t
  BY DEF Leaving, WithControl, In
<1> HIDE DEF c, n, list
<1>4. t.state = "DISCONNECTING" /\ t.acks = {} /\ t.dispatched = <<>>
  BY <1>2 DEF PeerRecords
<1> HIDE DEF t
<1>5. PeerOK(t)
  BY <1>4 DEF PeerOK, CleanPeer
<1>6. Told(t)
  BY <1>4 DEF Told, Silent
<1> QED
  BY <1>3, <1>4, <1>5, <1>6

LEMMA HandleAcknowledgeProperties ==
  ASSUME NEW hs, HostOK(hs), NEW p \in Slots, PeerOK(hs.peers[p]), NEW d,
         hs.peers[p].state \notin {"DISCONNECTED", "ZOMBIE"}
  PROVE  Handled(HandleAcknowledge(hs, p, d), hs, p)
<1> DEFINE r == hs.peers[p]
           removed == Removed(hs, p, d.channel, d.seq)
           new == HandleAcknowledge(hs, p, d)
<1>1. /\ hs \in HostRecords /\ r \in PeerRecords
  BY PeerType DEF HostOK
<1>2. PICK s \in PeerRecords :
        /\ Became(removed, hs, p, s) /\ s.state = r.state /\ s.acks = r.acks
        /\ PeerOK(s) /\ (Told(r) => Told(s))
  BY RemovedProperties
<1>3. HostOK(removed) /\ removed.peers[p] = s
  BY <1>2, BecameThen
<1>4. \/ r.state = "ACKNOWLEDGING_CONNECT" /\ new = NotifyConnect(removed, p)
      \/ r.state = "DISCONNECTING" /\ new = NotifyDisconnect(removed, p)
      \/ r.state = "DISCONNECT_LATER" /\ new = DisconnectPeer(removed, p, 0)
      \/ new = removed
  BY DEF HandleAcknowledge
<1> HIDE DEF removed, new
<1>5. CASE r.state = "ACKNOWLEDGING_CONNECT" /\ new = NotifyConnect(removed, p)
  <2>1. Became(new, removed, p, Met(s))
    BY <1>3, <1>5, NotifyConnectProperties
  <2>2. Became(new, hs, p, Met(s)) /\ Met(s) \in PeerRecords
    BY <1>2, <2>1, BecameThen
  <2>3. PeerOK(Met(s)) /\ Told(Met(s)) /\ ServedStep(s, Met(s))
    BY <1>2, <1>5, MetIsOK
  <2> QED
    BY <1>2, <2>2, <2>3 DEF Handled, ServedStep, new
<1>6. CASE r.state = "DISCONNECTING" /\ new = NotifyDisconnect(removed, p)
  <2>1. Became(new, removed, p, Lost(s))
    BY <1>3, <1>6, NotifyDisconnectProperties
  <2>2. Became(new, hs, p, Lost(s)) /\ Lost(s) \in PeerRecords
    BY <1>2, <2>1, BecameThen
  <2>3. \A a \in s.acks : a.cmd # "DISCONNECT"
    BY <1>2, <1>6 DEF PeerOK
  <2>4. PeerOK(Lost(s)) /\ Told(Lost(s)) /\ ServedStep(s, Lost(s))
    BY <1>2, <1>6, <2>3, LostIsOK
  <2> QED
    BY <1>2, <2>2, <2>4 DEF Handled, ServedStep, new
<1>7. CASE r.state = "DISCONNECT_LATER" /\ new = DisconnectPeer(removed, p, 0)
  <2>1. removed.peers[p].state \in Up
    BY <1>2, <1>3, <1>7 DEF Up
  <2>2. Became(new, removed, p, Leaving(s))
    BY <1>3, <1>7, <2>1, DisconnectUp
  <2>3. Became(new, hs, p, Leaving(s)) /\ Leaving(s) \in PeerRecords
    BY <1>2, <2>2, BecameThen
  <2>4. Leaving(s).state = "DISCONNECTING" /\ PeerOK(Leaving(s)) /\ Told(Leaving(s))
    BY LeavingIsOK
  <2>5. ServedStep(r, Leaving(s))
    BY <1>7, <2>4 DEF ServedStep, Seen, Served
  <2> QED
    BY <2>3, <2>4, <2>5 DEF Handled, new
<1>8. CASE new = removed
  BY <1>2, <1>8 DEF Handled, ServedStep, new
<1> QED
  BY <1>4, <1>5, <1>6, <1>7, <1>8

LEMMA VerifiedType ==
  ASSUME NEW r \in PeerRecords, NEW body \in Handshakes
  PROVE  LET s == Verified(r, body)
         IN  /\ s \in PeerRecords /\ s.state = r.state /\ s.acks = r.acks
             /\ s.dispatched = r.dispatched /\ s.needsDispatch = r.needsDispatch
  BY DEF Verified, PeerRecords, Handshakes

LEMMA HandleVerifyConnectProperties ==
  ASSUME NEW hs, HostOK(hs), NEW p \in Slots, PeerOK(hs.peers[p]), NEW d,
         d.body \in Handshakes
  PROVE  Handled(HandleVerifyConnect(hs, p, d), hs, p)
<1> DEFINE r == hs.peers[p]
           removed == Removed(hs, p, Control, 1)
           new == HandleVerifyConnect(hs, p, d)
<1>1. hs \in HostRecords /\ r \in PeerRecords
  BY PeerType DEF HostOK
<1>2. CASE r.state # "CONNECTING"
  BY <1>2, HandledNothing DEF HandleVerifyConnect
<1>3. CASE r.state = "CONNECTING" /\ d.body.id # r.connectID
  <2> DEFINE s == Flagged(In(r, "ZOMBIE"))
  <2>1. new = DispatchState(hs, p, "ZOMBIE")
    BY <1>3 DEF HandleVerifyConnect
  <2>2. "ZOMBIE" \in States /\ "ZOMBIE" \notin Early
    BY DEF States, Early
  <2>3. \A a \in r.acks : a.cmd # "DISCONNECT"
    BY <1>3 DEF PeerOK
  <2> HIDE DEF s, new
  <2>4. Became(new, hs, p, s)
    BY <2>1, <2>2, DispatchStateProperties DEF s
  <2>5. s \in PeerRecords /\ s.state = "ZOMBIE" /\ PeerOK(s) /\ Told(s)
    BY <1>1, <2>2, <2>3, FlaggedIsOK DEF s
  <2>6. ServedStep(r, s)
    BY <1>3, <2>5 DEF ServedStep, Seen, Served
  <2> QED
    BY <2>4, <2>5, <2>6 DEF Handled, new
<1>4. CASE r.state = "CONNECTING" /\ d.body.id = r.connectID
  <2>1. PICK s \in PeerRecords :
          /\ Became(removed, hs, p, s) /\ s.state = r.state /\ s.acks = r.acks
          /\ s.dispatched = r.dispatched
    BY RemovedProperties
  <2> DEFINE v == Verified(s, d.body)  set == Set(removed, p, v)
  <2>2. HostOK(removed) /\ removed.peers[p] = s
    BY <2>1, BecameThen
  <2>3. new = NotifyConnect(set, p)
    BY <1>4, <2>2 DEF HandleVerifyConnect
  <2> HIDE DEF removed, v, set, new
  <2>4. /\ v \in PeerRecords /\ v.state = s.state /\ v.acks = s.acks
        /\ v.dispatched = s.dispatched /\ v.needsDispatch = s.needsDispatch
    BY VerifiedType DEF v
  <2>5. v.state \notin Up
    BY <1>4, <2>1, <2>4 DEF Up
  <2>6. Became(set, removed, p, v)
    BY <2>2, <2>4, <2>5, SetKeeps DEF set
  <2>7. Became(set, hs, p, v)
    BY <2>1, <2>6, BecameThen
  <2>8. HostOK(set) /\ set.peers[p] = v
    BY <2>7, BecameThen
  <2>9. Became(new, set, p, Met(v))
    BY <2>3, <2>8, NotifyConnectProperties
  <2>10. Became(new, hs, p, Met(v)) /\ Met(v) \in PeerRecords
    BY <2>7, <2>9, BecameThen
  <2>11. PeerOK(v)
    BY <1>4, <2>1, <2>4 DEF PeerOK, CleanPeer
  <2>12. PeerOK(Met(v)) /\ Told(Met(v)) /\ ServedStep(v, Met(v))
    BY <1>4, <2>1, <2>4, <2>11, MetIsOK
  <2> QED
    BY <2>1, <2>4, <2>10, <2>12 DEF Handled, ServedStep, new
<1> QED
  BY <1>2, <1>3, <1>4

\* The handler of DISCONNECT leaves a peer that acknowledges it, or that no
\* acknowledgement is sent for.
LEMMA HandleDisconnectProperties ==
  ASSUME NEW hs, HostOK(hs), NEW p \in Slots, PeerOK(hs.peers[p]), NEW d,
         hs.peers[p].state \notin {"DISCONNECTED", "ZOMBIE"}
  PROVE  LET new == HandleDisconnect(hs, p, d)
         IN  /\ Handled(new, hs, p)
             /\ new.peers[p].state \in {"ACKNOWLEDGING_DISCONNECT", "ZOMBIE", "DISCONNECTED"}
<1> DEFINE r == hs.peers[p]
           cleared == ResetQueues(hs, p)
           c == Cleared(r)
           new == HandleDisconnect(hs, p, d)
<1>1. hs \in HostRecords /\ r \in PeerRecords /\ r.state \in States
  BY PeerType DEF HostOK, PeerRecords
<1>2. Became(cleared, hs, p, c)
  BY ResetQueuesProperties
<1>3. c \in PeerRecords /\ c.state = r.state /\ c.acks = {} /\ c.dispatched = <<>>
  BY <1>1, PeerFields
<1>4. \/ new = hs /\ r.state = "ACKNOWLEDGING_DISCONNECT"
      \/ /\ new = DispatchState(cleared, p, "ZOMBIE")
         /\ r.state \in {"CONNECTION_SUCCEEDED", "DISCONNECTING", "CONNECTING"} \cup Up
      \/ /\ new = ResetPeer(cleared, p)
         /\ r.state \in {"ACKNOWLEDGING_CONNECT", "CONNECTION_PENDING"}
      \/ new = ChangeState(cleared, p, "ACKNOWLEDGING_DISCONNECT") /\ r.state \in Up
  BY <1>1 DEF HandleDisconnect, States, Up
<1>5. {"ZOMBIE", "ACKNOWLEDGING_DISCONNECT"} \subseteq States
  BY DEF States
<1> HIDE DEF cleared, c, new
<1>6. HostOK(cleared) /\ cleared.peers[p] = c
  BY <1>2, BecameThen
<1>7. CASE new = hs /\ r.state = "ACKNOWLEDGING_DISCONNECT"
  BY <1>7, HandledNothing DEF new
<1>8. CASE /\ new = DispatchState(cleared, p, "ZOMBIE")
           /\ r.state \in {"CONNECTION_SUCCEEDED", "DISCONNECTING", "CONNECTING"} \cup Up
  <2> DEFINE s == Flagged(In(c, "ZOMBIE"))
  <2> HIDE DEF s
  <2>1. Became(new, cleared, p, s)
    BY <1>5, <1>6, <1>8, DispatchStateProperties DEF s
  <2>2. Became(new, hs, p, s) /\ new.peers[p] = s
    BY <1>2, <2>1, BecameThen, <1>6
  <2>3. s \in PeerRecords /\ s.state = "ZOMBIE" /\ PeerOK(s) /\ Told(s)
    BY <1>3, <1>5, FlaggedIsOK DEF s
  <2>4. ServedStep(r, s)
    BY <1>8, <2>3 DEF ServedStep, Seen, Served, Up
  <2> QED
    BY <2>2, <2>3, <2>4 DEF Handled, new
<1>9. CASE /\ new = ResetPeer(cleared, p)
           /\ r.state \in {"ACKNOWLEDGING_CONNECT", "CONNECTION_PENDING"}
  <2> DEFINE s == Cleared(Freed(c))
  <2> HIDE DEF s
  <2>1. Became(new, cleared, p, s)
    BY <1>6, <1>9, ResetPeerProperties DEF s
  <2>2. Became(new, hs, p, s) /\ new.peers[p] = s
    BY <1>2, <2>1, BecameThen, <1>6
  <2>3. s \in PeerRecords /\ s.state = "DISCONNECTED" /\ PeerOK(s) /\ Told(s)
    BY <1>3, FreedIsOK DEF s
  <2>4. ServedStep(r, s)
    BY <1>9, <2>3 DEF ServedStep, Seen, Served
  <2> QED
    BY <2>2, <2>3, <2>4 DEF Handled, new
<1>10. CASE new = ChangeState(cleared, p, "ACKNOWLEDGING_DISCONNECT") /\ r.state \in Up
  <2> DEFINE s == In(c, "ACKNOWLEDGING_DISCONNECT")
  <2>1. /\ s \in PeerRecords /\ s.state = "ACKNOWLEDGING_DISCONNECT"
        /\ s.acks = {} /\ s.dispatched = <<>>
    BY <1>3, <1>5, PeerFields, SMTT(20)
  <2> HIDE DEF s
  <2>2. Became(new, cleared, p, s)
    BY <1>5, <1>6, <1>10, ChangeStateProperties DEF s
  <2>3. Became(new, hs, p, s) /\ new.peers[p] = s
    BY <1>2, <2>2, BecameThen, <1>6
  <2>4. PeerOK(s) /\ Told(s)
    BY <2>1 DEF PeerOK, CleanPeer, Told, Silent
  <2>5. ServedStep(r, s)
    BY <1>10, <2>1 DEF ServedStep, Seen, Served, Up
  <2> QED
    BY <2>1, <2>3, <2>4, <2>5 DEF Handled, new
<1> QED
  BY <1>4, <1>7, <1>8, <1>9, <1>10 DEF new

LEMMA HandleSendReliableProperties ==
  ASSUME NEW hs, HostOK(hs), NEW p \in Slots, PeerOK(hs.peers[p]), NEW d,
         d.body.id \in IDs
  PROVE  Handled(HandleSendReliable(hs, p, d), hs, p)
<1> DEFINE r == hs.peers[p]
           got == Append(r.dispatched, d.body.id)
           s == [r EXCEPT !.dataGot = TRUE, !.dispatched = got]
           set == Set(hs, p, s)
           new == HandleSendReliable(hs, p, d)
<1>1. hs \in HostRecords /\ r \in PeerRecords
  BY PeerType DEF HostOK
<1>2. CASE r.state # "CONNECTED" \/ r.dataGot
  BY <1>2, HandledNothing DEF HandleSendReliable
<1>3. CASE ~ (r.state # "CONNECTED" \/ r.dataGot)
  <2>1. new = Dispatch([hs EXCEPT !.peers[p].dataGot = TRUE, !.peers[p].dispatched = got], p)
    BY <1>3 DEF HandleSendReliable
  <2>2. got \in Seq(IDs)
    BY <1>1, AppendProperties DEF PeerRecords
  <2> HIDE DEF got, new
  <2>3. new = Dispatch(set, p)
    BY <1>1, <2>1 DEF Set, HostRecords, PeerRecords
  <2>4. /\ s \in PeerRecords /\ s.state = r.state /\ s.acks = r.acks
        /\ s.needsDispatch = r.needsDispatch /\ s.limited = r.limited
    BY <1>1, <2>2 DEF PeerRecords
  <2> HIDE DEF s
  <2>5. Became(set, hs, p, s)
    BY <2>4, SetKeeps
  <2> HIDE DEF set
  <2>6. HostOK(set) /\ set.peers[p] = s
    BY <2>5, BecameThen
  <2>7. Became(new, set, p, Flagged(s))
    BY <2>3, <2>6, DispatchProperties
  <2>8. Became(new, hs, p, Flagged(s))
    BY <2>5, <2>7, BecameThen
  <2>9. /\ Flagged(s) \in PeerRecords /\ Flagged(s).state = "CONNECTED"
        /\ Flagged(s).acks = r.acks /\ Flagged(s).needsDispatch
    <3>1. "CONNECTED" \in States
      BY DEF States
    <3> QED
      BY <1>3, <2>4, <3>1, PeerFields
  <2>10. PeerOK(Flagged(s)) /\ Told(Flagged(s))
    BY <1>3, <2>9 DEF PeerOK, CleanPeer, Early, Told
  <2>11. ServedStep(r, Flagged(s))
    BY <1>3, <2>9 DEF ServedStep
  <2> QED
    BY <2>8, <2>9, <2>10, <2>11 DEF Handled, new
<1> QED
  BY <1>2, <1>3

\* What is queued to be acknowledged.
WithAck(r, d) == [r EXCEPT !.acks = r.acks \cup {[cmd |-> d.cmd, channel |-> d.channel,
                                                  seq |-> d.seq]}]

LEMMA QueueAcknowledgementProperties ==
  ASSUME NEW hs, HostOK(hs), NEW p \in Slots, PeerOK(hs.peers[p]), NEW before,
         NEW d, d.cmd \in Cmds, d.channel \in Nat, d.seq \in Nat,
         d.cmd = "DISCONNECT" =>
           hs.peers[p].state \in {"ACKNOWLEDGING_DISCONNECT", "ZOMBIE", "DISCONNECTED"}
  PROVE  \E s \in PeerRecords :
           /\ Became(QueueAcknowledgement(hs, p, d, before), hs, p, s)
           /\ s.state = hs.peers[p].state /\ PeerOK(s)
           /\ Told(hs.peers[p]) => Told(s)
<1> DEFINE r == hs.peers[p]
           new == QueueAcknowledgement(hs, p, d, before)
           s == WithAck(r, d)
<1>1. /\ hs \in HostRecords /\ r \in PeerRecords /\ hs.peers \in [Slots -> PeerRecords]
  BY PeerType DEF HostOK
<1>2. CASE new = hs
  <2>1. Became(hs, hs, p, r)
    BY <1>1 DEF Became
  <2> QED
    BY <1>1, <1>2, <2>1
<1>3. CASE new # hs
  <2>1. /\ new = Set(hs, p, s)
        /\ r.state \notin {"DISCONNECTING", "ACKNOWLEDGING_CONNECT", "DISCONNECTED", "ZOMBIE"}
    BY <1>3 DEF QueueAcknowledgement, Set, WithAck
  <2>2. r.acks \cup {[cmd |-> d.cmd, channel |-> d.channel, seq |-> d.seq]} \in SUBSET Acks
    BY <1>1 DEF PeerRecords, Acks
  <2>3. /\ s \in PeerRecords /\ s.state = r.state /\ s.dispatched = r.dispatched
        /\ s.needsDispatch = r.needsDispatch /\ s.limited = r.limited
        /\ s.acks = r.acks \cup {[cmd |-> d.cmd, channel |-> d.channel, seq |-> d.seq]}
    BY <1>1, <2>2 DEF PeerRecords, WithAck
  <2> HIDE DEF s, new
  <2>4. Became(new, hs, p, s)
    BY <2>1, <2>3, SetKeeps
  <2>5. \A a \in s.acks : a.cmd = "DISCONNECT" => s.state = "ACKNOWLEDGING_DISCONNECT"
    BY <2>1, <2>3 DEF PeerOK
  <2>6. PeerOK(s)
    BY <2>1, <2>3, <2>5 DEF PeerOK, CleanPeer
  <2>7. Told(r) => Told(s)
    BY <2>3 DEF Told, Silent
  <2> QED
    BY <2>3, <2>4, <2>6, <2>7 DEF new
<1> QED
  BY <1>2, <1>3

\* A free peer that is asked for a connection.
Accepting(r, d) ==
  [r EXCEPT !.state = "ACKNOWLEDGING_CONNECT", !.connectID = d.body.id,
            !.address = d.from, !.outgoingPeerID = d.body.peerID,
            !.limited = d.body.limited,
            !.outgoingSessionID = NextSession(d.body.incomingSessionID, @),
            !.incomingSessionID = NextSession(d.body.outgoingSessionID, @),
            !.dataSent = FALSE, !.dataGot = FALSE]

LEMMA NextSessionType ==
  ASSUME NEW theirs \in Sessions, NEW mine \in Sessions
  PROVE  NextSession(theirs, mine) \in Sessions
<1> DEFINE s == ((IF theirs = NoSession THEN mine ELSE theirs) + 1) % SESSIONS
<1>1. theirs \in Nat /\ mine \in Nat
  BY DEF Sessions, SESSIONS, NoSession
<1>2. s \in 0 .. 3
  BY <1>1 DEF SESSIONS
<1>3. (s + 1) % SESSIONS \in 0 .. 3
  BY <1>2 DEF SESSIONS
<1> QED
  BY <1>2, <1>3 DEF NextSession, Sessions, SESSIONS

LEMMA AcceptingType ==
  ASSUME NEW r \in PeerRecords, NEW d, d.from \in Hosts, d.body \in Handshakes
  PROVE  LET s == Accepting(r, d)
         IN  /\ s \in PeerRecords /\ s.state = "ACKNOWLEDGING_CONNECT" /\ s.acks = r.acks
             /\ s.dispatched = r.dispatched /\ s.needsDispatch = r.needsDispatch
<1> DEFINE x == NextSession(d.body.incomingSessionID, r.outgoingSessionID)
           y == NextSession(d.body.outgoingSessionID, r.incomingSessionID)
           s == [r EXCEPT !.state = "ACKNOWLEDGING_CONNECT", !.connectID = d.body.id,
                          !.address = d.from, !.outgoingPeerID = d.body.peerID,
                          !.limited = d.body.limited, !.outgoingSessionID = x,
                          !.incomingSessionID = y, !.dataSent = FALSE, !.dataGot = FALSE]
<1>1. /\ d.body.id \in IDs /\ d.body.peerID \in Slots /\ d.body.limited \in BOOLEAN
      /\ d.body.incomingSessionID \in Sessions /\ d.body.outgoingSessionID \in Sessions
      /\ r.outgoingSessionID \in Sessions /\ r.incomingSessionID \in Sessions
  BY DEF Handshakes, PeerRecords
<1>2. x \in Sessions /\ y \in Sessions /\ "ACKNOWLEDGING_CONNECT" \in States
  BY <1>1, NextSessionType DEF States
<1>3. Accepting(r, d) = s
  BY DEF Accepting
<1> HIDE DEF x, y
<1>4. /\ s \in PeerRecords /\ s.state = "ACKNOWLEDGING_CONNECT" /\ s.acks = r.acks
      /\ s.dispatched = r.dispatched /\ s.needsDispatch = r.needsDispatch
  BY <1>1, <1>2 DEF PeerRecords
<1> QED
  BY <1>3, <1>4

\* What a host has for the body of CONNECT and VERIFY_CONNECT.
LEMMA HandshakeType ==
  ASSUME NEW id \in IDs, NEW p \in Slots, NEW x \in Sessions, NEW y \in Sessions, NEW h
  PROVE  [id |-> id, peerID |-> p, incomingSessionID |-> x, outgoingSessionID |-> y,
          limited |-> h \in BandwidthLimited] \in Handshakes
  BY DEF Handshakes

LEMMA FreeSlot ==
  ASSUME NEW hs, Free(hs) # {}
  PROVE  First(Free(hs)) \in Slots /\ hs.peers[First(Free(hs))].state = "DISCONNECTED"
<1>1. Free(hs) \subseteq Nat
  BY SlotsFinite DEF Free
<1>2. First(Free(hs)) \in Free(hs)
  BY <1>1, FirstIsLeast
<1> QED
  BY <1>2 DEF Free

LEMMA HandleConnectProperties ==
  ASSUME NEW hs, HostOK(hs), \A q \in Slots : PeerOK(hs.peers[q]), NEW d,
         d.from \in Hosts, d.body \in Handshakes
  PROVE  \E p \in Slots : Handled(HandleConnect(hs, d), hs, p)
<1> DEFINE new == HandleConnect(hs, d)
           p == First(Free(hs))
<1>1. CASE new = hs
  <2>1. 0 \in Slots
    BY HostAssumption DEF Slots
  <2> QED
    BY <1>1, <2>1, HandledNothing
<1>2. CASE new # hs
  <2> DEFINE r == hs.peers[p]
             s == Accepting(r, d)
             set == Set(hs, p, s)
             counted == [set EXCEPT !.accepts = set.accepts + 1]
             body == [id |-> s.connectID, peerID |-> p,
                      incomingSessionID |-> s.outgoingSessionID,
                      outgoingSessionID |-> s.incomingSessionID,
                      limited |-> hs.self \in BandwidthLimited]
  <2>1. Free(hs) # {} /\ new = QueueControl(counted, p, "VERIFY_CONNECT", body)
    BY <1>2 DEF HandleConnect, Accepting
  <2>2. p \in Slots /\ r.state = "DISCONNECTED"
    BY <2>1, FreeSlot
  <2> HIDE DEF p, new
  <2>3. hs \in HostRecords /\ r \in PeerRecords /\ PeerOK(r)
    BY <2>2, PeerType DEF HostOK
  <2>4. /\ s \in PeerRecords /\ s.state = "ACKNOWLEDGING_CONNECT" /\ s.acks = r.acks
        /\ s.dispatched = r.dispatched /\ s.needsDispatch = r.needsDispatch
    BY <2>3, AcceptingType
  <2>5. r.acks = {} /\ r.dispatched = <<>>
    BY <2>2, <2>3 DEF PeerOK, CleanPeer
  <2> HIDE DEF s
  <2>6. body \in Handshakes
    <3>1. s.connectID \in IDs /\ s.outgoingSessionID \in Sessions /\ s.incomingSessionID \in Sessions
      BY <2>4 DEF PeerRecords
    <3> QED
      BY <2>2, <3>1, HandshakeType
  <2>7. Became(set, hs, p, s)
    BY <2>2, <2>4, SetKeeps DEF Up
  <2> HIDE DEF set, body
  <2>8. Became(counted, hs, p, s)
    BY <2>2, <2>7, OutKeeps
  <2> HIDE DEF counted
  <2>9. HostOK(counted) /\ counted.peers[p] = s
    BY <2>2, <2>8, BecameThen
  <2> DEFINE t == WithControl(s, "VERIFY_CONNECT", body)
  <2>10. t.state = s.state /\ PeerOK(t) /\ (Told(s) => Told(t))
    <3>1. PeerOK(s)
      BY <2>4, <2>5 DEF PeerOK, CleanPeer
    <3> QED
      BY <2>4, <3>1, WithControlIsOK
  <2> HIDE DEF t
  <2>11. Became(new, counted, p, t)
    BY <2>1, <2>2, <2>6, <2>9, QueueControlProperties DEF t
  <2>12. Became(new, hs, p, t) /\ t \in PeerRecords
    BY <2>2, <2>8, <2>11, BecameThen
  <2>13. Told(t)
    BY <2>4, <2>10 DEF Told, Silent
  <2>14. ServedStep(r, t)
    BY <2>2, <2>4, <2>10 DEF ServedStep, Seen, Served
  <2> QED
    BY <2>2, <2>10, <2>12, <2>13, <2>14 DEF Handled, new
<1> QED
  BY <1>1, <1>2

\* A datagram that is not rejected is for a peer that is in use.
LEMMA NotRejected ==
  ASSUME NEW hs, NEW d \in Datagrams, ~ Rejected(hs, d), d.cmd # "CONNECT"
  PROVE  d.peerID \in Slots /\ hs.peers[d.peerID].state \notin {"DISCONNECTED", "ZOMBIE"}
<1>1. d.peerID \in Slots \cup {NoPeer}
  BY DEF Datagrams, DatagramsOf
<1> QED
  BY <1>1 DEF Rejected

\* enet_protocol_handle_incoming_commands.
LEMMA HandleIncomingProperties ==
  ASSUME NEW hs, HostOK(hs), \A q \in Slots : PeerOK(hs.peers[q]), NEW d \in Datagrams,
         ~ Rejected(hs, d)
  PROVE  \E p \in Slots : Handled(HandleIncoming(hs, d), hs, p)
<1>1. /\ d.from \in Hosts /\ d.channel \in Nat /\ d.seq \in Nat
      /\ d.cmd \in {"CONNECT", "VERIFY_CONNECT", "DISCONNECT", "PING", "SEND_RELIABLE",
                    "ACKNOWLEDGE"}
      /\ d.cmd \in {"CONNECT", "VERIFY_CONNECT"} => d.body \in Handshakes
      /\ d.body.id \in IDs
  BY DEF Datagrams, DatagramsOf, Handshakes, Plain
<1>2. CASE d.cmd = "CONNECT"
  BY <1>1, <1>2, HandleConnectProperties DEF HandleIncoming
<1>3. CASE d.cmd # "CONNECT"
  <2> DEFINE p == d.peerID
             r == hs.peers[p]
             handled == CASE d.cmd = "ACKNOWLEDGE"    -> HandleAcknowledge(hs, p, d)
                          [] d.cmd = "VERIFY_CONNECT" -> HandleVerifyConnect(hs, p, d)
                          [] d.cmd = "DISCONNECT"     -> HandleDisconnect(hs, p, d)
                          [] d.cmd = "SEND_RELIABLE"  -> HandleSendReliable(hs, p, d)
                          [] d.cmd = "PING"           -> hs
             new == QueueAcknowledgement(handled, p, d, r.state)
  <2>1. p \in Slots /\ r.state \notin {"DISCONNECTED", "ZOMBIE"}
    BY <1>3, NotRejected
  <2>2. HandleIncoming(hs, d) = new
    BY <1>3 DEF HandleIncoming
  <2>3. /\ Handled(handled, hs, p)
        /\ d.cmd = "DISCONNECT" =>
             handled.peers[p].state \in {"ACKNOWLEDGING_DISCONNECT", "ZOMBIE", "DISCONNECTED"}
    <3>1. CASE d.cmd = "ACKNOWLEDGE"
      <4>1. handled = HandleAcknowledge(hs, p, d)
        BY <3>1
      <4> HIDE DEF handled
      <4> QED
        BY <2>1, <3>1, <4>1, HandleAcknowledgeProperties
    <3>2. CASE d.cmd = "VERIFY_CONNECT"
      <4>1. handled = HandleVerifyConnect(hs, p, d)
        BY <3>2
      <4> HIDE DEF handled
      <4> QED
        BY <1>1, <2>1, <3>2, <4>1, HandleVerifyConnectProperties
    <3>3. CASE d.cmd = "DISCONNECT"
      <4>1. handled = HandleDisconnect(hs, p, d)
        BY <3>3
      <4> HIDE DEF handled
      <4> QED
        BY <2>1, <4>1, HandleDisconnectProperties
    <3>4. CASE d.cmd = "SEND_RELIABLE"
      <4>1. handled = HandleSendReliable(hs, p, d)
        BY <3>4
      <4> HIDE DEF handled
      <4> QED
        BY <1>1, <2>1, <3>4, <4>1, HandleSendReliableProperties
    <3>5. CASE d.cmd = "PING"
      <4>1. handled = hs
        BY <3>5
      <4> HIDE DEF handled
      <4> QED
        BY <2>1, <3>5, <4>1, HandledNothing
    <3> QED
      BY <1>1, <1>3, <3>1, <3>2, <3>3, <3>4, <3>5
  <2> HIDE DEF handled, new
  <2>4. PICK s \in PeerRecords : /\ Became(handled, hs, p, s) /\ PeerOK(s)
                                 /\ (Told(r) => Told(s)) /\ ServedStep(r, s)
    BY <2>3 DEF Handled
  <2>5. HostOK(handled) /\ handled.peers[p] = s
    BY <2>1, <2>4, BecameThen
  <2>6. PICK t \in PeerRecords : /\ Became(new, handled, p, t) /\ t.state = s.state
                                 /\ PeerOK(t) /\ (Told(s) => Told(t))
    <3>1. d.cmd \in Cmds
      BY <1>1 DEF Cmds
    <3> QED
      BY <1>1, <2>1, <2>3, <2>4, <2>5, <3>1, QueueAcknowledgementProperties DEF new
  <2>7. Became(new, hs, p, t)
    BY <2>1, <2>4, <2>6, BecameThen
  <2>8. ServedStep(r, t)
    BY <2>4, <2>6 DEF ServedStep
  <2>9. Handled(new, hs, p)
    BY <2>4, <2>6, <2>7, <2>8 DEF Handled
  <2> QED
    BY <2>1, <2>2, <2>9
<1> QED
  BY <1>2, <1>3

-----------------------------------------------------------------------------
(* The functions an application calls. *)

\* What a call about peer p may make of the peers: the others change only as the
\* service of the host may change them.
Ended(hs2, hs, p) ==
  /\ HostOK(hs2) /\ hs2.self = hs.self
  /\ \A q \in Slots : /\ PeerOK(hs2.peers[q])
                      /\ Told(hs.peers[q]) => Told(hs2.peers[q])
                      /\ q # p => ServedStep(hs.peers[q], hs2.peers[q])

LEMMA BecameEnded ==
  ASSUME NEW hs, HostOK(hs), \A q \in Slots : PeerOK(hs.peers[q]), NEW p \in Slots,
         NEW r, NEW hs2, Became(hs2, hs, p, r), PeerOK(r), Told(hs.peers[p]) => Told(r)
  PROVE  Ended(hs2, hs, p) /\ hs2.peers[p] = r
<1>1. /\ HostOK(hs2) /\ hs2.self = hs.self /\ hs2.peers[p] = r
      /\ \A q \in Slots : q # p => hs2.peers[q] = hs.peers[q]
  BY BecameThen
<1> QED
  BY <1>1 DEF Ended, ServedStep

LEMMA HandledPassed ==
  ASSUME NEW hs, HostOK(hs), \A q \in Slots : PeerOK(hs.peers[q]), NEW p \in Slots,
         NEW hs2, Handled(hs2, hs, p)
  PROVE  Passed(hs2, hs)
<1>1. PICK r \in PeerRecords : /\ Became(hs2, hs, p, r) /\ PeerOK(r)
                               /\ (Told(hs.peers[p]) => Told(r))
                               /\ ServedStep(hs.peers[p], r)
  BY DEF Handled
<1>2. Ended(hs2, hs, p) /\ hs2.peers[p] = r
  BY <1>1, BecameEnded
<1> QED
  BY <1>1, <1>2 DEF Ended, Passed

LEMMA PassedEnded ==
  ASSUME NEW hs, NEW hs2, Passed(hs2, hs), NEW p
  PROVE  Ended(hs2, hs, p)
  BY DEF Passed, Ended

\* enet_peer_reset, as a call.
LEMMA ResetPeerEnds ==
  ASSUME NEW hs, HostOK(hs), \A q \in Slots : PeerOK(hs.peers[q]), NEW p \in Slots
  PROVE  Ended(ResetPeer(hs, p), hs, p) /\ ResetPeer(hs, p).peers[p].state = "DISCONNECTED"
<1> DEFINE s == Cleared(Freed(hs.peers[p]))
<1>1. hs.peers[p] \in PeerRecords
  BY PeerType DEF HostOK
<1>2. s.state = "DISCONNECTED" /\ PeerOK(s) /\ Told(s)
  BY <1>1, FreedIsOK
<1>3. Became(ResetPeer(hs, p), hs, p, s)
  BY ResetPeerProperties
<1> HIDE DEF s
<1> QED
  BY <1>2, <1>3, BecameEnded

\* One more number is used up by a DISCONNECT that is not queued.
Counting(r) == [r EXCEPT !.seq = r.seq + 1]

LEMMA GoodbyeProperties ==
  ASSUME NEW hs, HostOK(hs), NEW p \in Slots
  PROVE  Became(Goodbye(hs, p), hs, p, Counting(hs.peers[p]))
<1> DEFINE r == hs.peers[p]
           n == r.seq + 1
           d == Datagram(hs.self, r, "DISCONNECT", Control, n, FALSE, NoBody)
           out == hs.out \cup {d}
<1>1. /\ hs \in HostRecords /\ r \in PeerRecords /\ hs.self \in Hosts
      /\ hs.out \subseteq Datagrams
  BY PeerType DEF HostOK
<1>2. n \in Nat /\ Control \in Nat
  BY <1>1 DEF PeerRecords, Control
<1>3. Goodbye(hs, p) = [hs EXCEPT !.out = out, !.peers[p].seq = n]
  BY <1>1 DEF Goodbye, HostRecords, PeerRecords
<1> HIDE DEF n
<1>4. d \in Datagrams
  BY <1>1, <1>2, DatagramType, NoBodyPlain
<1>5. out \subseteq Datagrams
  BY <1>1, <1>4
<1> DEFINE s == [r EXCEPT !.seq = n]
<1>6. /\ s \in PeerRecords /\ s.state = r.state
      /\ s.limited = r.limited /\ s.needsDispatch = r.needsDispatch
  BY <1>1, <1>2 DEF PeerRecords
<1> HIDE DEF out
<1>7. Goodbye(hs, p) = [hs EXCEPT !.out = out, !.peers[p] = s]
  BY <1>1, <1>3 DEF HostRecords
<1>8. Counting(r) = s
  BY DEF Counting, n
<1> HIDE DEF s
<1>9. Became([hs EXCEPT !.out = out, !.peers[p] = s], hs, p, s)
  BY <1>5, <1>6, SetAndSend
<1> QED
  BY <1>7, <1>8, <1>9

\* A connection that is dropped at once: the DISCONNECT goes out with a flush,
\* which serves the other peers too.
LEMMA DroppedProperties ==
  ASSUME NEW hs, HostOK(hs), \A q \in Slots : PeerOK(hs.peers[q]), NEW p \in Slots,
         hs.peers[p].state # "DISCONNECTED", NEW n \in 0 .. PeerCount
  PROVE  LET new == ResetPeer(Flush(Goodbye(ResetQueues(hs, p), p), n), p)
         IN  Ended(new, hs, p) /\ new.peers[p].state = "DISCONNECTED"
<1> DEFINE r == hs.peers[p]
           c == Cleared(r)
           cleared == ResetQueues(hs, p)
           s == Counting(c)
           said == Goodbye(cleared, p)
           flushed == Flush(said, n)
           new == ResetPeer(flushed, p)
<1>1. hs \in HostRecords /\ r \in PeerRecords /\ "DISCONNECTED" \in States
  BY PeerType DEF HostOK, States
<1>2. c \in PeerRecords /\ c.state = r.state /\ c.acks = {} /\ c.dispatched = <<>>
  BY <1>1, PeerFields
<1>3. Became(cleared, hs, p, c)
  BY ResetQueuesProperties
<1> HIDE DEF c, cleared
<1>4. HostOK(cleared) /\ cleared.peers[p] = c
  BY <1>3, BecameThen
<1>5. Became(said, cleared, p, s)
  BY <1>4, GoodbyeProperties
<1>6. s.state = c.state /\ s.acks = {} /\ s.dispatched = <<>>
  BY <1>2 DEF Counting, PeerRecords
<1> HIDE DEF s, said
<1>7. Became(said, hs, p, s)
  BY <1>3, <1>5, BecameThen
<1>8. /\ HostOK(said) /\ said.self = hs.self /\ said.peers[p] = s
      /\ \A q \in Slots : q # p => said.peers[q] = hs.peers[q]
  BY <1>7, BecameThen
<1>9. PeerOK(s)
  BY <1>2, <1>6 DEF PeerOK, CleanPeer
<1>10. \A q \in Slots : PeerOK(said.peers[q])
  BY <1>8, <1>9
<1>11. Passed(flushed, said)
  BY <1>8, <1>10, PassProperties DEF Flush
<1> HIDE DEF flushed
<1>12. HostOK(flushed) /\ \A q \in Slots : PeerOK(flushed.peers[q])
  BY <1>11 DEF Passed
<1>13. Ended(new, flushed, p) /\ new.peers[p].state = "DISCONNECTED"
  BY <1>12, ResetPeerEnds
<1>14. Told(new.peers[p])
  BY <1>13 DEF Ended, Told, Silent, PeerOK, CleanPeer
<1>15. \A q \in Slots : q # p => new.peers[q] = flushed.peers[q]
  BY <1>12, ResetPeerProperties, BecameThen
<1> HIDE DEF new
<1>16. ASSUME NEW q \in Slots
       PROVE  /\ PeerOK(new.peers[q]) /\ (Told(hs.peers[q]) => Told(new.peers[q]))
              /\ q # p => ServedStep(hs.peers[q], new.peers[q])
  <2>1. CASE q = p
    BY <1>13, <1>14, <2>1 DEF Ended
  <2>2. CASE q # p
    BY <1>8, <1>11, <1>15, <2>2 DEF Passed
  <2> QED
    BY <2>1, <2>2
<1>17. HostOK(new) /\ new.self = hs.self
  BY <1>8, <1>11, <1>13 DEF Passed, Ended
<1> QED
  BY <1>13, <1>16, <1>17 DEF Ended, new, flushed, said, cleared

\* enet_peer_disconnect.
LEMMA DisconnectPeerProperties ==
  ASSUME NEW hs, HostOK(hs), \A q \in Slots : PeerOK(hs.peers[q]), NEW p \in Slots,
         NEW n \in 0 .. PeerCount
  PROVE  LET new == DisconnectPeer(hs, p, n)
         IN  /\ Ended(new, hs, p)
             /\ Seen(new.peers[p].state) = Disconnected[Seen(hs.peers[p].state)]
<1> DEFINE r == hs.peers[p]
           new == DisconnectPeer(hs, p, n)
<1>1. hs \in HostRecords /\ r \in PeerRecords /\ r.state \in States
  BY PeerType DEF HostOK, PeerRecords
<1>2. CASE r.state \in {"DISCONNECTING", "DISCONNECTED", "ACKNOWLEDGING_DISCONNECT", "ZOMBIE"}
  <2>1. new = hs
    BY <1>2 DEF DisconnectPeer
  <2>2. Disconnected[Seen(r.state)] = Seen(r.state)
    BY <1>2 DEF Disconnected, PeerStates, Seen
  <2>3. Ended(hs, hs, p)
    BY DEF Ended, ServedStep
  <2> QED
    BY <2>1, <2>2, <2>3
<1>3. CASE r.state \in Up
  <2>1. Became(new, hs, p, Leaving(r))
    BY <1>3, DisconnectUp
  <2>2. Leaving(r).state = "DISCONNECTING" /\ PeerOK(Leaving(r)) /\ Told(Leaving(r))
    BY <1>1, LeavingIsOK
  <2> HIDE DEF new
  <2>3. Ended(new, hs, p) /\ new.peers[p] = Leaving(r)
    BY <2>1, <2>2, BecameEnded
  <2>4. Disconnected[Seen(r.state)] = "LEAVING" /\ Seen("DISCONNECTING") = "LEAVING"
    BY <1>3 DEF Disconnected, PeerStates, Seen, Up
  <2> QED
    BY <2>2, <2>3, <2>4 DEF new
<1>4. CASE r.state \in {"CONNECTING", "ACKNOWLEDGING_CONNECT", "CONNECTION_PENDING",
                        "CONNECTION_SUCCEEDED"}
  <2>1. new = ResetPeer(Flush(Goodbye(ResetQueues(hs, p), p), n), p)
    BY <1>4 DEF DisconnectPeer, Up
  <2>2. r.state # "DISCONNECTED"
    BY <1>4
  <2> HIDE DEF new
  <2>3. Ended(new, hs, p) /\ new.peers[p].state = "DISCONNECTED"
    BY <2>1, <2>2, DroppedProperties
  <2>4. Disconnected[Seen(r.state)] = "DISCONNECTED" /\ Seen("DISCONNECTED") = "DISCONNECTED"
    BY <1>4 DEF Disconnected, PeerStates, Seen
  <2> QED
    BY <2>3, <2>4 DEF new
<1> QED
  BY <1>1, <1>2, <1>3, <1>4 DEF States, Up

\* enet_peer_disconnect_later.
LEMMA DisconnectPeerLaterProperties ==
  ASSUME NEW hs, HostOK(hs), \A q \in Slots : PeerOK(hs.peers[q]), NEW p \in Slots,
         NEW n \in 0 .. PeerCount
  PROVE  LET new == DisconnectPeerLater(hs, p, n)
             was == Seen(hs.peers[p].state)
             is  == Seen(new.peers[p].state)
         IN  /\ Ended(new, hs, p)
             /\ \/ is = Disconnected[was]
                \/ was \in {"CONNECTED", "LATER"} /\ is = "LATER"
<1> DEFINE r == hs.peers[p]
           new == DisconnectPeerLater(hs, p, n)
<1>1. hs \in HostRecords /\ r \in PeerRecords
  BY PeerType DEF HostOK
<1>2. CASE r.state \in Up /\ ~ Idle(r)
  <2> DEFINE s == In(r, "DISCONNECT_LATER")
  <2>1. new = Set(hs, p, s)
    BY <1>2 DEF DisconnectPeerLater, Set, In
  <2>2. "DISCONNECT_LATER" \in States
    BY DEF States
  <2>3. /\ s \in PeerRecords /\ s.state = "DISCONNECT_LATER" /\ s.acks = r.acks
        /\ s.needsDispatch = r.needsDispatch
    BY <1>1, <2>2 DEF In, PeerRecords
  <2>4. s.limited = r.limited
    BY <1>1 DEF In, PeerRecords
  <2> HIDE DEF new, s
  <2>5. Became(new, hs, p, s)
    BY <1>2, <2>1, <2>3, <2>4, SetKeeps DEF Up
  <2>6. PeerOK(s) /\ Told(s)
    <3>1. \A a \in r.acks : a.cmd # "DISCONNECT"
      BY <1>2 DEF PeerOK, Up
    <3> QED
      BY <2>3, <3>1 DEF PeerOK, CleanPeer, Early, Told, Silent
  <2>7. Ended(new, hs, p) /\ new.peers[p] = s
    BY <2>5, <2>6, BecameEnded
  <2>8. Seen(r.state) \in {"CONNECTED", "LATER"} /\ Seen("DISCONNECT_LATER") = "LATER"
    BY <1>2 DEF Seen, Up
  <2> QED
    BY <2>3, <2>7, <2>8 DEF new
<1>3. CASE ~ (r.state \in Up /\ ~ Idle(r))
  <2>1. new = DisconnectPeer(hs, p, n)
    BY <1>3 DEF DisconnectPeerLater
  <2> QED
    BY <2>1, DisconnectPeerProperties
<1> QED
  BY <1>2, <1>3

\* enet_peer_disconnect_now.
LEMMA DisconnectPeerNowProperties ==
  ASSUME NEW hs, HostOK(hs), \A q \in Slots : PeerOK(hs.peers[q]), NEW p \in Slots,
         NEW n \in 0 .. PeerCount
  PROVE  LET new == DisconnectPeerNow(hs, p, n)
         IN  Ended(new, hs, p) /\ new.peers[p].state = "DISCONNECTED"
<1> DEFINE r == hs.peers[p]
           new == DisconnectPeerNow(hs, p, n)
<1>1. CASE r.state = "DISCONNECTED"
  <2>1. new = hs
    BY <1>1 DEF DisconnectPeerNow
  <2>2. Ended(hs, hs, p)
    BY DEF Ended, ServedStep
  <2> QED
    BY <1>1, <2>1, <2>2
<1>2. CASE r.state \in {"ZOMBIE", "DISCONNECTING"}
  <2>1. new = ResetPeer(hs, p)
    BY <1>2 DEF DisconnectPeerNow
  <2> QED
    BY <2>1, ResetPeerEnds
<1>3. CASE r.state \notin {"DISCONNECTED", "ZOMBIE", "DISCONNECTING"}
  <2>1. new = ResetPeer(Flush(Goodbye(ResetQueues(hs, p), p), n), p)
    BY <1>3 DEF DisconnectPeerNow
  <2> QED
    BY <1>3, <2>1, DroppedProperties
<1> QED
  BY <1>1, <1>2, <1>3

\* A free peer that connects.
Connecting(r, id, remote) ==
  [r EXCEPT !.state = "CONNECTING", !.address = remote, !.connectID = id,
            !.dataSent = FALSE, !.dataGot = FALSE]

\* enet_host_connect.
LEMMA ConnectedProperties ==
  ASSUME NEW hs, HostOK(hs), \A q \in Slots : PeerOK(hs.peers[q]), NEW p \in Slots,
         hs.peers[p].state = "DISCONNECTED", NEW remote \in Hosts
  PROVE  LET new == Connected(hs, p, remote)
         IN  Ended(new, hs, p) /\ new.peers[p].state = "CONNECTING" /\ Told(new.peers[p])
<1> DEFINE r == hs.peers[p]
           id == <<hs.self, hs.connects + 1>>
           s == Connecting(r, id, remote)
           set == Set(hs, p, s)
           counted == [set EXCEPT !.connects = set.connects + 1]
           body == [id |-> s.connectID, peerID |-> p,
                    incomingSessionID |-> s.incomingSessionID,
                    outgoingSessionID |-> s.outgoingSessionID,
                    limited |-> hs.self \in BandwidthLimited]
           t == WithControl(s, "CONNECT", body)
           new == Connected(hs, p, remote)
<1>1. hs \in HostRecords /\ r \in PeerRecords /\ PeerOK(r)
  BY PeerType DEF HostOK
<1>2. new = QueueControl(counted, p, "CONNECT", body)
  BY DEF Connected, Connecting
<1>3. id \in IDs /\ "CONNECTING" \in States
  BY <1>1 DEF HostRecords, IDs, States
<1> HIDE DEF id, new
<1>4. /\ s \in PeerRecords /\ s.state = "CONNECTING" /\ s.acks = r.acks
      /\ s.dispatched = r.dispatched /\ s.needsDispatch = r.needsDispatch
  BY <1>1, <1>3 DEF Connecting, PeerRecords
<1> HIDE DEF s
<1>5. body \in Handshakes
  <2>1. s.connectID \in IDs /\ s.outgoingSessionID \in Sessions /\ s.incomingSessionID \in Sessions
    BY <1>4 DEF PeerRecords
  <2> QED
    BY <2>1, HandshakeType
<1>6. Became(set, hs, p, s)
  BY <1>4, SetKeeps DEF Up
<1> HIDE DEF set, body
<1>7. Became(counted, hs, p, s)
  BY <1>6, OutKeeps
<1> HIDE DEF counted
<1>8. HostOK(counted) /\ counted.peers[p] = s
  BY <1>7, BecameThen
<1>9. t.state = s.state /\ PeerOK(t)
  <2>1. PeerOK(s)
    BY <1>1, <1>4 DEF PeerOK, CleanPeer, Early
  <2> QED
    BY <1>4, <2>1, WithControlIsOK
<1> HIDE DEF t
<1>10. Became(new, counted, p, t)
  BY <1>2, <1>5, <1>8, QueueControlProperties DEF t
<1>11. Became(new, hs, p, t)
  BY <1>7, <1>10, BecameThen
<1>12. Told(t)
  BY <1>4, <1>9 DEF Told, Silent
<1>13. Ended(new, hs, p) /\ new.peers[p] = t
  BY <1>9, <1>11, <1>12, BecameEnded
<1> QED
  BY <1>4, <1>9, <1>12, <1>13 DEF new

\* enet_peer_send.
LEMMA SendDataProperties ==
  ASSUME NEW hs, HostOK(hs), \A q \in Slots : PeerOK(hs.peers[q]), NEW p \in Slots,
         hs.peers[p].state = "CONNECTED"
  PROVE  Passed(SendData(hs, p), hs)
<1> DEFINE r == hs.peers[p]
           c == Command("SEND_RELIABLE", 0, 1, [id |-> r.connectID])
           list == Append(r.outgoing, c)
           s == [r EXCEPT !.dataSent = TRUE, !.outgoing = list]
           new == SendData(hs, p)
<1>1. hs \in HostRecords /\ r \in PeerRecords /\ PeerOK(r)
  BY PeerType DEF HostOK
<1>2. r.connectID \in IDs /\ r.outgoing \in Seq(Commands)
  BY <1>1 DEF PeerRecords
<1>3. c \in Commands
  BY <1>2 DEF Command, Commands, Plain
<1> HIDE DEF c
<1>4. list \in Seq(Commands)
  BY <1>2, <1>3, AppendProperties
<1>5. new = Set(hs, p, s)
  BY <1>1 DEF SendData, Set, c, HostRecords, PeerRecords
<1> HIDE DEF list, new
<1>6. /\ s \in PeerRecords /\ s.state = r.state /\ s.acks = r.acks
      /\ s.dispatched = r.dispatched /\ s.needsDispatch = r.needsDispatch
      /\ s.limited = r.limited
  BY <1>1, <1>4 DEF PeerRecords
<1> HIDE DEF s
<1>7. Became(new, hs, p, s)
  BY <1>5, <1>6, SetKeeps
<1>8. PeerOK(s) /\ (Told(r) => Told(s)) /\ ServedStep(r, s)
  BY <1>1, <1>6 DEF PeerOK, CleanPeer, Told, Silent, ServedStep
<1>9. Handled(new, hs, p)
  BY <1>6, <1>7, <1>8 DEF Handled
<1> QED
  BY <1>9, HandledPassed DEF new

-----------------------------------------------------------------------------
(* The events an application polls. *)

Unflagged(r) == [r EXCEPT !.needsDispatch = FALSE]

\* The first k peers of the dispatch queue are taken out of it.
LEMMA DequeuedProperties ==
  ASSUME NEW hs, HostOK(hs), NEW k \in 1 .. Len(hs.dispatchQueue)
  PROVE  LET new == Dequeued(hs, k)
         IN  /\ HostOK(new) /\ new.self = hs.self /\ new.out = hs.out
             /\ \A q \in Slots :
                  new.peers[q] = IF \E j \in 1 .. k : hs.dispatchQueue[j] = q
                                 THEN Unflagged(hs.peers[q]) ELSE hs.peers[q]
<1> DEFINE queue == hs.dispatchQueue
           len == Len(queue)
           rest == SubSeq(queue, k + 1, len)
           ps == [p \in Slots |-> IF \E j \in 1 .. k : queue[j] = p
                                  THEN Unflagged(hs.peers[p]) ELSE hs.peers[p]]
           new == Dequeued(hs, k)
<1>1. /\ hs \in HostRecords /\ queue \in Seq(Slots) /\ hs.peers \in [Slots -> PeerRecords]
      /\ Counted(hs) /\ Queued(hs)
  BY DEF HostOK, HostRecords
<1>2. /\ len \in Nat /\ DOMAIN queue = 1 .. len
      /\ \A j \in 1 .. len : queue[j] \in Slots
  BY <1>1, LenProperties, ElementOfSeq
<1>3. /\ rest \in Seq(Slots) /\ Len(rest) = len - k
      /\ \A j \in 1 .. len - k : rest[j] = queue[k + j]
  <2>1. \A j \in k + 1 .. len : queue[j] \in Slots
    BY <1>2
  <2>2. k + 1 \in 1 .. len + 1 /\ len \in 0 .. len
    BY <1>2
  <2>3. /\ rest \in Seq(Slots) /\ Len(rest) = IF k + 1 =< len THEN len - (k + 1) + 1 ELSE 0
        /\ \A j \in 1 .. len - (k + 1) + 1 : rest[j] = queue[(k + 1) + j - 1]
    BY <1>1, <1>2, <2>1, <2>2, SubSeqProperties
  <2>4. len - (k + 1) + 1 = len - k /\ Len(rest) = len - k
    BY <1>2, <2>3
  <2>5. \A j \in 1 .. len - k : (k + 1) + j - 1 = k + j
    BY <1>2
  <2> QED
    BY <2>3, <2>4, <2>5
<1>4. \A q \in Slots : /\ Unflagged(hs.peers[q]) \in PeerRecords
                       /\ Unflagged(hs.peers[q]).state = hs.peers[q].state
                       /\ Unflagged(hs.peers[q]).limited = hs.peers[q].limited
                       /\ ~ Unflagged(hs.peers[q]).needsDispatch
  <2>1. ASSUME NEW q \in Slots
        PROVE  /\ Unflagged(hs.peers[q]) \in PeerRecords
               /\ Unflagged(hs.peers[q]).state = hs.peers[q].state
               /\ Unflagged(hs.peers[q]).limited = hs.peers[q].limited
               /\ ~ Unflagged(hs.peers[q]).needsDispatch
    <3>1. hs.peers[q] \in PeerRecords
      BY <1>1
    <3> QED
      BY <3>1, ZenonT(30) DEF Unflagged, PeerRecords
  <2> QED
    BY <2>1
<1>5. new = [hs EXCEPT !.dispatchQueue = rest, !.peers = ps]
  BY DEF Dequeued, Unflagged
<1>6. ps \in [Slots -> PeerRecords]
  BY <1>1, <1>4
<1>7. \A q \in Slots : ps[q] = IF \E j \in 1 .. k : queue[j] = q
                               THEN Unflagged(hs.peers[q]) ELSE hs.peers[q]
  OBVIOUS
<1> HIDE DEF ps, rest, new, len
<1>8. /\ new \in HostRecords /\ new.peers = ps /\ new.dispatchQueue = rest
      /\ new.self = hs.self /\ new.out = hs.out
      /\ new.connectedPeers = hs.connectedPeers
      /\ new.bandwidthLimitedPeers = hs.bandwidthLimitedPeers
  BY <1>1, <1>3, <1>5, <1>6 DEF HostRecords
<1>9. \A q \in Slots : /\ new.peers[q].state = hs.peers[q].state
                       /\ new.peers[q].limited = hs.peers[q].limited
  BY <1>4, <1>7, <1>8
<1>10. Counted(new)
  BY <1>1, <1>8, <1>9, CountedKept
<1>11. DOMAIN rest = 1 .. len - k
  BY <1>3, LenProperties
<1>12. Queued(new)
  <2>1. ASSUME NEW i \in 1 .. len - k, NEW j \in 1 .. len - k, rest[i] = rest[j]
        PROVE  i = j
    <3>1. k + i \in DOMAIN queue /\ k + j \in DOMAIN queue /\ queue[k + i] = queue[k + j]
      BY <1>2, <1>3, <2>1 DEF len
    <3>2. k + i = k + j
      BY <1>1, <3>1 DEF Queued
    <3> QED
      BY <1>2, <3>2
  <2>2. ASSUME NEW q \in Slots
        PROVE  ps[q].needsDispatch <=> \E j \in 1 .. len - k : rest[j] = q
    <3>1. hs.peers[q].needsDispatch <=> \E j \in 1 .. len : queue[j] = q
      BY <1>1, <1>2 DEF Queued
    <3>2. CASE \E j \in 1 .. k : queue[j] = q
      <4>1. ~ ps[q].needsDispatch
        BY <1>4, <1>7, <3>2
      <4>2. PICK j \in 1 .. k : queue[j] = q
        BY <3>2
      <4>3. ASSUME NEW i \in 1 .. len - k, rest[i] = q PROVE FALSE
        <5>1. k + i \in DOMAIN queue /\ j \in DOMAIN queue /\ queue[k + i] = queue[j]
          BY <1>2, <1>3, <4>2, <4>3 DEF len
        <5>2. k + i = j
          BY <1>1, <5>1 DEF Queued
        <5> QED
          BY <1>2, <5>2
      <4> QED
        BY <4>1, <4>3
    <3>3. CASE ~ \E j \in 1 .. k : queue[j] = q
      <4>1. ps[q].needsDispatch <=> \E j \in 1 .. len : queue[j] = q
        BY <1>7, <3>1, <3>3
      <4>2. ASSUME NEW j \in 1 .. len, queue[j] = q PROVE \E i \in 1 .. len - k : rest[i] = q
        <5>1. j > k /\ j - k \in 1 .. len - k /\ k + (j - k) = j
          BY <1>2, <3>3, <4>2
        <5> QED
          BY <1>3, <4>2, <5>1
      <4>3. ASSUME NEW i \in 1 .. len - k, rest[i] = q PROVE \E j \in 1 .. len : queue[j] = q
        <5>1. k + i \in 1 .. len
          BY <1>2
        <5> QED
          BY <1>3, <4>3, <5>1
      <4> QED
        BY <4>1, <4>2, <4>3
    <3> QED
      BY <3>2, <3>3
  <2> QED
    BY <1>8, <1>11, <2>1, <2>2 DEF Queued
<1> QED
  BY <1>7, <1>8, <1>10, <1>12 DEF HostOK, new

\* A packet is taken; a peer with more of them goes back into the queue.
LEMMA TakeReceivedProperties ==
  ASSUME NEW hs, HostOK(hs), \A q \in Slots : PeerOK(hs.peers[q]), NEW p \in Slots,
         hs.peers[p].state = "CONNECTED", hs.peers[p].dispatched # <<>>
  PROVE  LET new == TakeReceived(hs, p)
         IN  Passed(new, hs) /\ Told(new.peers[p])
<1> DEFINE r == hs.peers[p]
           list == Tail(r.dispatched)
           s == [r EXCEPT !.dispatched = list]
           taken == [hs EXCEPT !.peers[p].dispatched = list]
           new == TakeReceived(hs, p)
<1>1. hs \in HostRecords /\ r \in PeerRecords /\ PeerOK(r)
  BY PeerType DEF HostOK
<1>2. r.dispatched \in Seq(IDs)
  BY <1>1 DEF PeerRecords
<1>3. list \in Seq(IDs)
  BY <1>2, HeadTailProperties
<1>4. new = IF taken.peers[p].dispatched = <<>> THEN taken ELSE Dispatch(taken, p)
  BY DEF TakeReceived
<1>5. taken = Set(hs, p, s)
  BY DEF Set
<1> HIDE DEF list, new, taken
<1>6. /\ s \in PeerRecords /\ s.state = r.state /\ s.acks = r.acks
      /\ s.dispatched = list /\ s.needsDispatch = r.needsDispatch
      /\ s.limited = r.limited
  BY <1>1, <1>3 DEF PeerRecords
<1> HIDE DEF s
<1>7. Became(taken, hs, p, s)
  BY <1>5, <1>6, SetKeeps
<1>8. HostOK(taken) /\ taken.peers[p] = s
  BY <1>7, BecameThen
<1> DEFINE t == IF list = <<>> THEN s ELSE Flagged(s)
<1>9. Became(new, hs, p, t) /\ t \in PeerRecords
  <2>1. CASE list = <<>>
    BY <1>4, <1>6, <1>7, <1>8, <2>1
  <2>2. CASE list # <<>>
    <3>1. Became(Dispatch(taken, p), taken, p, Flagged(s))
      BY <1>8, DispatchProperties
    <3>2. Became(Dispatch(taken, p), hs, p, Flagged(s)) /\ Flagged(s) \in PeerRecords
      BY <1>7, <3>1, BecameThen
    <3>3. new = Dispatch(taken, p)
      BY <1>4, <1>6, <1>8, <2>2
    <3> QED
      BY <2>2, <3>2, <3>3
  <2> QED
    BY <2>1, <2>2
<1>10. t.state = "CONNECTED" /\ t.acks = r.acks /\ Told(t)
  <2>1. CASE list = <<>>
    BY <1>6, <2>1 DEF Told, Silent
  <2>2. CASE list # <<>>
    <3>1. Flagged(s).state = s.state /\ Flagged(s).acks = s.acks /\ Flagged(s).needsDispatch
      BY <1>6 DEF Flagged, PeerRecords
    <3> QED
      BY <1>6, <2>2, <3>1 DEF Told
  <2> QED
    BY <2>1, <2>2
<1> HIDE DEF t
<1>11. PeerOK(t) /\ ServedStep(r, t)
  BY <1>1, <1>10 DEF PeerOK, CleanPeer, Early, ServedStep
<1>12. Handled(new, hs, p)
  BY <1>9, <1>10, <1>11 DEF Handled
<1>13. new.peers[p] = t
  BY <1>9, BecameThen
<1> QED
  BY <1>10, <1>12, <1>13, HandledPassed DEF new

-----------------------------------------------------------------------------
(* The steps, of a host and of what its application knows. *)

\* A step of PeerLifecycle, for applications that abandon no attempt.
LifecycleStep(h, p) ==
  NobodyAbandons => Lifecycle(h, p)!Next \/ UNCHANGED Lifecycle(h, p)!vars

\* What is known of a peer when its application disconnects it.
Ending(known) ==
  known # "none" /\ (NobodyAbandons => known \in {"connected", "closing"})

\* PeerLifecycle's actions, as relations between the state of a peer and what is
\* known of it before and after.
Allowed(was, known, is, knows) ==
  \/ is = was /\ knows = known
  \/ <<was, is>> \in Served /\ knows = known
  \/ was = "DISCONNECTED" /\ is = "CONNECTING" /\ knows = "connecting"
  \/ /\ was \in DOMAIN Polled /\ is = Polled[was]
     /\ knows = IF was = "ZOMBIE" THEN "none" ELSE "connected"
  \/ Ending(known) /\ is = Disconnected[was] /\ knows = "closing"
  \/ Ending(known) /\ was \in {"CONNECTED", "LATER"} /\ is = "LATER" /\ knows = "closing"
  \/ known # "none" /\ is = "DISCONNECTED" /\ knows = "none"

LEMMA LifecycleSteps ==
  ASSUME NEW h, NEW p, NEW was, was = Seen(host[h].peers[p].state),
         NEW is, is = Seen(host'[h].peers[p].state),
         NEW known, known = view[h][p], NEW knows, knows = view'[h][p],
         Allowed(was, known, is, knows)
  PROVE  LifecycleStep(h, p)
<1>1. CASE is = was /\ knows = known
  BY <1>1 DEF LifecycleStep, Lifecycle!vars
<1>2. CASE <<was, is>> \in Served /\ knows = known
  <2>1. Lifecycle(h, p)!Service
    BY <1>2 DEF Lifecycle!Service, Served, Lifecycle!Served
  <2> QED
    BY <2>1 DEF LifecycleStep, Lifecycle!Next
<1>3. CASE was = "DISCONNECTED" /\ is = "CONNECTING" /\ knows = "connecting"
  <2>1. Lifecycle(h, p)!Connect
    BY <1>3 DEF Lifecycle!Connect
  <2> QED
    BY <2>1 DEF LifecycleStep, Lifecycle!Next
<1>4. CASE /\ was \in DOMAIN Polled /\ is = Polled[was]
           /\ knows = IF was = "ZOMBIE" THEN "none" ELSE "connected"
  <2>1. Lifecycle(h, p)!Poll
    BY <1>4 DEF Lifecycle!Poll, Polled, Lifecycle!Polled
  <2> QED
    BY <2>1 DEF LifecycleStep, Lifecycle!Next
<1>5. CASE Ending(known) /\ is = Disconnected[was] /\ knows = "closing"
  <2>1. NobodyAbandons => Lifecycle(h, p)!Disconnect
    BY <1>5 DEF Ending, Lifecycle!Disconnect, Disconnected, Lifecycle!Disconnected,
                PeerStates, Lifecycle!PeerStates
  <2> QED
    BY <2>1 DEF LifecycleStep, Lifecycle!Next
<1>6. CASE Ending(known) /\ was \in {"CONNECTED", "LATER"} /\ is = "LATER" /\ knows = "closing"
  <2>1. NobodyAbandons => Lifecycle(h, p)!DisconnectLater
    BY <1>6 DEF Ending, Lifecycle!DisconnectLater
  <2> QED
    BY <2>1 DEF LifecycleStep, Lifecycle!Next
<1>7. CASE known # "none" /\ is = "DISCONNECTED" /\ knows = "none"
  <2>1. Lifecycle(h, p)!Drop
    BY <1>7 DEF Lifecycle!Drop
  <2> QED
    BY <2>1 DEF LifecycleStep, Lifecycle!Next
<1> QED
  BY <1>1, <1>2, <1>3, <1>4, <1>5, <1>6, <1>7, Zenon DEF Allowed

\* The invariant says of a host what the operators need and keep.
LEMMA InvHost ==
  ASSUME Inv, NEW h \in Hosts
  PROVE  /\ HostOK(host[h]) /\ host[h].self = h
         /\ \A p \in Slots : PeerOK(host[h].peers[p]) /\ Told(host[h].peers[p])
  BY DEF Inv, HostInv

\* A step of one host that ends as the operators' lemmas say, with what its
\* application then knows of peer p.
LEMMA HostStep ==
  ASSUME Inv, NEW h \in Hosts, NEW p \in Slots, NEW hs, Ended(hs, host[h], p),
         Told(hs.peers[p]), Becomes(h, hs),
         NEW v \in Views, view' = [view EXCEPT ![h][p] = v],
         Allowed(Seen(host[h].peers[p].state), view[h][p], Seen(hs.peers[p].state), v)
  PROVE  Inv' /\ \A g \in Hosts, q \in Slots : LifecycleStep(g, q)
<1> DEFINE new == [hs EXCEPT !.out = {}]
<1>1. /\ HostOK(hs) /\ hs.self = h
      /\ \A q \in Slots : PeerOK(hs.peers[q]) /\ Told(hs.peers[q])
  BY InvHost DEF Ended
<1>2. hs \in HostRecords /\ hs.peers \in [Slots -> PeerRecords] /\ hs.out \subseteq Datagrams
  BY <1>1, PeerType DEF HostOK
<1>3. Became(hs, hs, p, hs.peers[p])
  BY <1>1, <1>2 DEF Became
<1>4. Became(new, hs, p, hs.peers[p])
  BY <1>1, <1>3, OutKeeps
<1>5. new.peers = hs.peers /\ new.self = h /\ HostOK(new)
  BY <1>1, <1>2, <1>4 DEF Became
<1> HIDE DEF new
<1>6. /\ host' = [host EXCEPT ![h] = new]
      /\ net' = net \cup hs.out
  BY DEF Becomes, new
<1>7. DOMAIN host = Hosts
  BY DEF Inv
<1>8. host'[h] = new /\ \A g \in Hosts : g # h => host'[g] = host[g]
  BY <1>6, <1>7
<1>9. /\ view'[h][p] = v /\ \A q \in Slots : q # p => view'[h][q] = view[h][q]
      /\ \A g \in Hosts : g # h => view'[g] = view[g]
      /\ view' \in [Hosts -> [Slots -> Views]]
  BY DEF Inv
<1>10. Inv'
  <2>1. DOMAIN host' = Hosts
    BY <1>6, <1>7
  <2>2. \A g \in Hosts : host'[g].self = g /\ HostInv(host'[g])
    <3> SUFFICES ASSUME NEW g \in Hosts PROVE host'[g].self = g /\ HostInv(host'[g])
      OBVIOUS
    <3>1. CASE g = h
      BY <1>1, <1>5, <1>8, <3>1 DEF HostInv
    <3>2. CASE g # h
      BY <1>8, <3>2 DEF Inv
    <3> QED
      BY <3>1, <3>2
  <2>3. net' \subseteq Datagrams
    BY <1>2, <1>6 DEF Inv
  <2> QED
    BY <1>9, <2>1, <2>2, <2>3 DEF Inv
<1>11. ASSUME NEW g \in Hosts, NEW q \in Slots PROVE LifecycleStep(g, q)
  <2> DEFINE was == Seen(host[g].peers[q].state)
             is  == Seen(host'[g].peers[q].state)
             known == view[g][q]
             knows == view'[g][q]
  <2>1. Allowed(was, known, is, knows)
    <3>1. CASE g = h /\ q = p
      BY <1>5, <1>8, <1>9, <3>1
    <3>2. CASE g = h /\ q # p
      <4>1. ServedStep(host[h].peers[q], hs.peers[q])
        BY <3>2 DEF Ended
      <4>2. is = Seen(hs.peers[q].state) /\ knows = known
        BY <1>5, <1>8, <1>9, <3>2
      <4> QED
        BY <3>2, <4>1, <4>2 DEF ServedStep, Allowed
    <3>3. CASE g # h
      <4>1. is = was /\ knows = known
        BY <1>8, <1>9, <3>3
      <4> HIDE DEF was, is, known, knows
      <4> QED
        BY <4>1 DEF Allowed
    <3> QED
      BY <3>1, <3>2, <3>3
  <2> QED
    BY <2>1, LifecycleSteps
<1> QED
  BY <1>10, <1>11

\* A step of a host that its application does not see.
LEMMA QuietStep ==
  ASSUME Inv, NEW h \in Hosts, NEW hs, Passed(hs, host[h]), Becomes(h, hs), UNCHANGED view
  PROVE  Inv' /\ \A g \in Hosts, q \in Slots : LifecycleStep(g, q)
<1>1. PICK p : p = 0 /\ p \in Slots
  BY HostAssumption DEF Slots
<1>2. PICK v \in Views : v = view[h][p]
  BY <1>1 DEF Inv
<1>3. view' = [view EXCEPT ![h][p] = v]
  BY <1>1, <1>2 DEF Inv
<1>4. Ended(hs, host[h], p) /\ Told(hs.peers[p])
  BY <1>1, InvHost, PassedEnded DEF Passed
<1>5. ServedStep(host[h].peers[p], hs.peers[p])
  BY <1>1 DEF Passed
<1>6. Allowed(Seen(host[h].peers[p].state), view[h][p], Seen(hs.peers[p].state), v)
  BY <1>2, <1>5 DEF ServedStep, Allowed
<1> QED
  BY <1>1, <1>3, <1>4, <1>6, HostStep

StepOK == Inv' /\ \A g \in Hosts, q \in Slots : LifecycleStep(g, q)

LEMMA ConnectStep ==
  ASSUME Inv, NEW h \in Hosts, NEW remote \in Hosts, Connect(h, remote)
  PROVE  StepOK
<1> DEFINE p == First(Free(host[h]))  new == Connected(host[h], p, remote)
<1>1. Free(host[h]) # {} /\ Becomes(h, new) /\ view' = [view EXCEPT ![h][p] = "connecting"]
  BY DEF Connect
<1>2. p \in Slots /\ host[h].peers[p].state = "DISCONNECTED"
  BY <1>1, FreeSlot
<1> HIDE DEF p
<1>3. Ended(new, host[h], p) /\ new.peers[p].state = "CONNECTING" /\ Told(new.peers[p])
  BY <1>2, InvHost, ConnectedProperties
<1> HIDE DEF new
<1>4. Allowed(Seen(host[h].peers[p].state), view[h][p], Seen(new.peers[p].state), "connecting")
  BY <1>2, <1>3 DEF Allowed, Seen
<1>5. "connecting" \in Views
  BY DEF Views
<1> QED
  BY <1>1, <1>2, <1>3, <1>4, <1>5, HostStep DEF StepOK

LEMMA SendStep ==
  ASSUME Inv, NEW h \in Hosts, NEW p \in Slots, Send(h, p)
  PROVE  StepOK
<1>1. Passed(SendData(host[h], p), host[h])
  BY InvHost, SendDataProperties DEF Send
<1> QED
  BY <1>1, QuietStep DEF Send, StepOK

LEMMA DisconnectStep ==
  ASSUME Inv, NEW h \in Hosts, NEW p \in Slots, Disconnect(h, p)
  PROVE  StepOK
<1>1. PICK n \in 0 .. PeerCount : Becomes(h, DisconnectPeer(host[h], p, n))
  BY DEF Disconnect
<1> DEFINE new == DisconnectPeer(host[h], p, n)
<1>2. Ended(new, host[h], p) /\ Seen(new.peers[p].state) = Disconnected[Seen(host[h].peers[p].state)]
  BY InvHost, DisconnectPeerProperties
<1>3. Becomes(h, new)
  BY <1>1
<1> HIDE DEF new
<1>4. Told(new.peers[p])
  BY <1>2, InvHost DEF Ended
<1>5. Ending(view[h][p]) /\ view' = [view EXCEPT ![h][p] = "closing"] /\ "closing" \in Views
  BY DEF Disconnect, MayDisconnect, NobodyAbandons, Ending, Views
<1>6. Allowed(Seen(host[h].peers[p].state), view[h][p], Seen(new.peers[p].state), "closing")
  BY <1>2, <1>5 DEF Allowed
<1> QED
  BY <1>2, <1>3, <1>4, <1>5, <1>6, HostStep DEF StepOK

LEMMA DisconnectLaterStep ==
  ASSUME Inv, NEW h \in Hosts, NEW p \in Slots, DisconnectLater(h, p)
  PROVE  StepOK
<1>1. PICK n \in 0 .. PeerCount : Becomes(h, DisconnectPeerLater(host[h], p, n))
  BY DEF DisconnectLater
<1> DEFINE new == DisconnectPeerLater(host[h], p, n)
           was == Seen(host[h].peers[p].state)
           is  == Seen(new.peers[p].state)
<1>2. /\ Ended(new, host[h], p)
      /\ \/ is = Disconnected[was]
         \/ was \in {"CONNECTED", "LATER"} /\ is = "LATER"
  BY InvHost, DisconnectPeerLaterProperties
<1>3. Becomes(h, new)
  BY <1>1
<1> HIDE DEF new
<1>4. Told(new.peers[p])
  BY <1>2, InvHost DEF Ended
<1>5. /\ Ending(view[h][p]) /\ view' = [view EXCEPT ![h][p] = "closing"]
      /\ "closing" \in Views
  BY DEF DisconnectLater, MayDisconnect, NobodyAbandons, Ending, Views
<1>6. Allowed(was, view[h][p], is, "closing")
  <2> HIDE DEF was, is
  <2> QED
    BY <1>2, <1>5 DEF Allowed
<1> QED
  BY <1>2, <1>3, <1>4, <1>5, <1>6, HostStep DEF StepOK

LEMMA DropSteps ==
  ASSUME Inv, NEW h \in Hosts, NEW p \in Slots, DisconnectNow(h, p) \/ Reset(h, p)
  PROVE  StepOK
<1>1. PICK new : /\ Ended(new, host[h], p) /\ new.peers[p].state = "DISCONNECTED"
                 /\ Becomes(h, new)
  <2>1. CASE DisconnectNow(h, p)
    <3>1. PICK n \in 0 .. PeerCount : Becomes(h, DisconnectPeerNow(host[h], p, n))
      BY <2>1 DEF DisconnectNow
    <3> QED
      BY <3>1, InvHost, DisconnectPeerNowProperties
  <2>2. CASE Reset(h, p)
    BY <2>2, InvHost, ResetPeerEnds DEF Reset
  <2> QED
    BY <2>1, <2>2
<1>2. Told(new.peers[p])
  BY <1>1, InvHost DEF Ended
<1>3. view[h][p] # "none" /\ view' = [view EXCEPT ![h][p] = "none"] /\ "none" \in Views
  BY DEF DisconnectNow, Reset, Views
<1>4. Allowed(Seen(host[h].peers[p].state), view[h][p], Seen(new.peers[p].state), "none")
  BY <1>1, <1>3 DEF Allowed, Seen
<1> QED
  BY <1>1, <1>2, <1>3, <1>4, HostStep DEF StepOK

LEMMA SendOutgoingStep ==
  ASSUME Inv, NEW h \in Hosts, NEW due, SendOutgoing(h, due)
  PROVE  StepOK
<1>1. PICK n \in 1 .. PeerCount : Becomes(h, Pass(host[h], due, n))
  BY DEF SendOutgoing
<1>2. n \in 0 .. PeerCount
  BY HostAssumption
<1>3. Passed(Pass(host[h], due, n), host[h])
  BY <1>2, InvHost, PassProperties
<1> QED
  BY <1>1, <1>3, QuietStep DEF SendOutgoing, StepOK

LEMMA ReceiveIncomingStep ==
  ASSUME Inv, NEW h \in Hosts, NEW d \in net, ReceiveIncoming(h, d)
  PROVE  StepOK
<1>1. d \in Datagrams /\ ~ Rejected(host[h], d)
  BY DEF Inv, ReceiveIncoming
<1>2. PICK p \in Slots : Handled(HandleIncoming(host[h], d), host[h], p)
  BY <1>1, InvHost, HandleIncomingProperties
<1>3. Passed(HandleIncoming(host[h], d), host[h])
  BY <1>2, InvHost, HandledPassed
<1> QED
  BY <1>3, QuietStep DEF ReceiveIncoming, StepOK

\* What the peers that are passed over in the dispatch queue keep.
LEMMA UnflaggedIsOK ==
  ASSUME NEW r \in PeerRecords, PeerOK(r)
  PROVE  /\ Unflagged(r) \in PeerRecords /\ PeerOK(Unflagged(r))
         /\ Unflagged(r).state = r.state /\ Unflagged(r).dispatched = r.dispatched
         /\ Silent(r) => Told(Unflagged(r))
<1>1. /\ Unflagged(r) \in PeerRecords /\ ~ Unflagged(r).needsDispatch
      /\ Unflagged(r).state = r.state /\ Unflagged(r).dispatched = r.dispatched
      /\ Unflagged(r).acks = r.acks /\ Unflagged(r).sent = r.sent
      /\ Unflagged(r).outgoing = r.outgoing /\ Unflagged(r).connectID = r.connectID
      /\ Unflagged(r).outgoingPeerID = r.outgoingPeerID
  BY DEF Unflagged, PeerRecords
<1>2. PeerOK(Unflagged(r))
  BY <1>1 DEF PeerOK, CleanPeer
<1>3. Silent(r) => Told(Unflagged(r))
  BY <1>1 DEF Told, Silent
<1> QED
  BY <1>1, <1>2, <1>3

LEMMA CheckEventsStep ==
  ASSUME Inv, NEW h \in Hosts, CheckEvents(h)
  PROVE  StepOK
<1> DEFINE old == host[h]
           queue == old.dispatchQueue
           len == Len(queue)
<1>1. /\ HostOK(old) /\ old.self = h
      /\ \A q \in Slots : PeerOK(old.peers[q]) /\ Told(old.peers[q])
  BY InvHost
<1>2. /\ \A q \in Slots : old.peers[q] \in PeerRecords
      /\ queue \in Seq(Slots) /\ queue # <<>>
  BY <1>1 DEF HostOK, HostRecords, CheckEvents
<1>3. /\ len \in Nat /\ DOMAIN queue = 1 .. len /\ len >= 1
      /\ \A j \in 1 .. len : queue[j] \in Slots
  BY <1>2, LenProperties, EmptySeq, ElementOfSeq
<1> HIDE DEF old
<1>4. CASE EventPositions(old) = {}
  <2> DEFINE new == Dequeued(old, len)
  <2>1. Becomes(h, new) /\ UNCHANGED view
    BY <1>4 DEF CheckEvents, old
  <2>2. len \in 1 .. len
    BY <1>3
  <2>3. /\ HostOK(new) /\ new.self = old.self
        /\ \A q \in Slots : new.peers[q] = IF \E j \in 1 .. len : queue[j] = q
                                           THEN Unflagged(old.peers[q]) ELSE old.peers[q]
    BY <1>1, <2>2, DequeuedProperties
  <2>4. \A j \in 1 .. len : Silent(old.peers[queue[j]])
    BY <1>3, <1>4 DEF EventPositions
  <2> HIDE DEF new
  <2>5. Passed(new, old)
    <3> SUFFICES ASSUME NEW q \in Slots
                 PROVE  /\ PeerOK(new.peers[q]) /\ Told(new.peers[q])
                        /\ ServedStep(old.peers[q], new.peers[q])
      BY <2>3 DEF Passed
    <3>1. CASE \E j \in 1 .. len : queue[j] = q
      <4>1. new.peers[q] = Unflagged(old.peers[q]) /\ Silent(old.peers[q])
        BY <2>3, <2>4, <3>1
      <4> QED
        BY <1>1, <1>2, <4>1, UnflaggedIsOK DEF ServedStep
    <3>2. CASE ~ \E j \in 1 .. len : queue[j] = q
      BY <1>1, <2>3, <3>2 DEF ServedStep
    <3> QED
      BY <3>1, <3>2
  <2> QED
    BY <2>1, <2>5, QuietStep DEF StepOK, old
<1>5. CASE EventPositions(old) # {}
  <2> DEFINE k == First(EventPositions(old))
             p == queue[k]
             hs == Dequeued(old, k)
             r == hs.peers[p]
  <2>1. EventPositions(old) \subseteq 1 .. len /\ EventPositions(old) \subseteq Nat
    BY <1>3 DEF EventPositions
  <2>2. k \in EventPositions(old) /\ \A j \in EventPositions(old) : k =< j
    BY <1>5, <2>1, FirstIsLeast
  <2>3. \/ /\ r.state \in {"CONNECTION_PENDING", "CONNECTION_SUCCEEDED"}
           /\ Becomes(h, ChangeState(hs, p, "CONNECTED"))
           /\ view' = [view EXCEPT ![h][p] = "connected"]
        \/ /\ r.state = "ZOMBIE"
           /\ Becomes(h, ResetPeer(hs, p))
           /\ view' = [view EXCEPT ![h][p] = "none"]
        \/ /\ r.state = "CONNECTED"
           /\ Becomes(h, TakeReceived(hs, p))
           /\ UNCHANGED view
    BY <1>5 DEF CheckEvents, old
  <2> HIDE DEF k
  <2>4. k \in 1 .. len /\ p \in Slots /\ ~ Silent(old.peers[p])
    BY <1>3, <2>1, <2>2 DEF EventPositions
  <2>5. /\ HostOK(hs) /\ hs.self = old.self
        /\ \A q \in Slots : hs.peers[q] = IF \E j \in 1 .. k : queue[j] = q
                                          THEN Unflagged(old.peers[q]) ELSE old.peers[q]
    BY <1>1, <2>4, DequeuedProperties
  <2>6. ASSUME NEW j \in 1 .. k, queue[j] # p PROVE Silent(old.peers[queue[j]])
    <3>1. j # k /\ j \in 1 .. len /\ ~ k =< j
      BY <1>3, <2>4, <2>6
    <3>2. j \notin EventPositions(old)
      BY <2>2, <3>1
    <3> QED
      BY <1>3, <3>1, <3>2 DEF EventPositions
  <2> HIDE DEF hs, p
  <2>7. ASSUME NEW q \in Slots
        PROVE  /\ PeerOK(hs.peers[q]) /\ hs.peers[q].state = old.peers[q].state
               /\ hs.peers[q].dispatched = old.peers[q].dispatched
               /\ q # p => Told(hs.peers[q])
    <3>1. CASE \E j \in 1 .. k : queue[j] = q
      <4>1. hs.peers[q] = Unflagged(old.peers[q]) /\ (q # p => Silent(old.peers[q]))
        BY <2>5, <2>6, <3>1
      <4> QED
        BY <1>1, <1>2, <4>1, UnflaggedIsOK
    <3>2. CASE ~ \E j \in 1 .. k : queue[j] = q
      BY <1>1, <2>5, <3>2
    <3> QED
      BY <3>1, <3>2
  <2>8. r \in PeerRecords
    BY <2>4, <2>5, PeerType DEF HostOK
  <2>9. ASSUME NEW new, Ended(new, hs, p), Told(new.peers[p])
        PROVE  Ended(new, old, p)
    <3> SUFFICES ASSUME NEW q \in Slots
                 PROVE  /\ PeerOK(new.peers[q]) /\ Told(new.peers[q])
                        /\ q # p => ServedStep(old.peers[q], new.peers[q])
      BY <2>5, <2>9 DEF Ended
    <3>1. PeerOK(new.peers[q])
      BY <2>9 DEF Ended
    <3>2. CASE q = p
      BY <2>9, <3>1, <3>2
    <3>3. CASE q # p
      <4>1. Told(new.peers[q]) /\ ServedStep(hs.peers[q], new.peers[q])
        BY <2>7, <2>9, <3>3 DEF Ended
      <4>2. ServedStep(old.peers[q], new.peers[q])
        BY <2>7, <4>1 DEF ServedStep
      <4> QED
        BY <3>1, <4>1, <4>2
    <3> QED
      BY <3>2, <3>3
  <2>10. CASE /\ r.state \in {"CONNECTION_PENDING", "CONNECTION_SUCCEEDED"}
              /\ Becomes(h, ChangeState(hs, p, "CONNECTED"))
              /\ view' = [view EXCEPT ![h][p] = "connected"]
    <3> DEFINE s == In(r, "CONNECTED")  new == ChangeState(hs, p, "CONNECTED")
    <3>1. "CONNECTED" \in States /\ "connected" \in Views
      BY DEF States, Views
    <3>2. s \in PeerRecords /\ s.state = "CONNECTED" /\ s.acks = r.acks /\ s.dispatched = r.dispatched
      BY <2>8, <3>1 DEF In, PeerRecords
    <3>3. Became(new, hs, p, s)
      BY <2>4, <2>5, <3>1, ChangeStateProperties
    <3> HIDE DEF s
    <3>4. PeerOK(s) /\ Told(s)
      <4>1. r.dispatched = <<>> /\ \A a \in r.acks : a.cmd # "DISCONNECT"
        BY <2>4, <2>7, <2>10 DEF PeerOK, Early
      <4> QED
        BY <3>2, <4>1 DEF PeerOK, CleanPeer, Told, Silent
    <3> HIDE DEF new
    <3>5. Ended(new, hs, p) /\ new.peers[p] = s
      BY <2>4, <2>5, <2>7, <3>3, <3>4, BecameEnded
    <3>6. Ended(new, old, p) /\ Told(new.peers[p])
      BY <2>9, <3>4, <3>5
    <3>7. Allowed(Seen(old.peers[p].state), view[h][p], Seen(new.peers[p].state), "connected")
      <4>1. /\ Seen(old.peers[p].state) \in {"PENDING", "SUCCEEDED"}
            /\ Seen(new.peers[p].state) = "CONNECTED"
        BY <2>4, <2>7, <2>10, <3>2, <3>5 DEF Seen
      <4> QED
        BY <4>1 DEF Allowed, Polled
    <3> QED
      BY <2>4, <2>10, <3>1, <3>6, <3>7, HostStep DEF StepOK, new, old
  <2>11. CASE /\ r.state = "ZOMBIE"
              /\ Becomes(h, ResetPeer(hs, p))
              /\ view' = [view EXCEPT ![h][p] = "none"]
    <3> DEFINE new == ResetPeer(hs, p)
    <3>1. Ended(new, hs, p) /\ new.peers[p].state = "DISCONNECTED"
      BY <2>4, <2>5, <2>7, ResetPeerEnds
    <3>2. Told(new.peers[p])
      BY <2>4, <3>1 DEF Ended, PeerOK, CleanPeer, Told, Silent
    <3> HIDE DEF new
    <3>3. Ended(new, old, p)
      BY <2>9, <3>1, <3>2
    <3>4. Allowed(Seen(old.peers[p].state), view[h][p], Seen(new.peers[p].state), "none")
      <4>1. /\ Seen(old.peers[p].state) = "ZOMBIE"
            /\ Seen(new.peers[p].state) = "DISCONNECTED"
        BY <2>4, <2>7, <2>11, <3>1 DEF Seen
      <4> QED
        BY <4>1 DEF Allowed, Polled
    <3>5. "none" \in Views
      BY DEF Views
    <3> QED
      BY <2>4, <2>11, <3>2, <3>3, <3>4, <3>5, HostStep DEF StepOK, new, old
  <2>12. CASE /\ r.state = "CONNECTED"
              /\ Becomes(h, TakeReceived(hs, p))
              /\ UNCHANGED view
    <3> DEFINE new == TakeReceived(hs, p)
    <3>1. r.dispatched # <<>>
      BY <2>4, <2>7, <2>12 DEF Silent
    <3>2. Passed(new, hs) /\ Told(new.peers[p])
      BY <2>4, <2>5, <2>7, <2>12, <3>1, TakeReceivedProperties
    <3> HIDE DEF new
    <3>3. Ended(new, hs, p)
      BY <3>2, PassedEnded
    <3>4. Ended(new, old, p)
      BY <2>9, <3>2, <3>3
    <3>5. ServedStep(old.peers[p], new.peers[p])
      BY <2>4, <2>7, <3>2 DEF Passed, ServedStep
    <3>6. Passed(new, old)
      BY <3>2, <3>4, <3>5 DEF Passed, Ended
    <3> QED
      BY <2>12, <3>6, QuietStep DEF StepOK, new, old
  <2> QED
    BY <2>3, <2>10, <2>11, <2>12
<1> QED
  BY <1>4, <1>5

-----------------------------------------------------------------------------
(* The theorems. *)

LEMMA InvInit == Init => Inv /\ \A h \in Hosts, p \in Slots : Lifecycle(h, p)!Init
<1> SUFFICES ASSUME Init PROVE Inv /\ \A h \in Hosts, p \in Slots : Lifecycle(h, p)!Init
  OBVIOUS
<1>1. /\ host = [h \in Hosts |-> FreshHost(h)] /\ net = {}
      /\ view = [h \in Hosts |-> [p \in Slots |-> "none"]]
  BY DEF Init
<1>2. /\ FreshPeer \in PeerRecords /\ FreshPeer.state = "DISCONNECTED"
      /\ PeerOK(FreshPeer) /\ Told(FreshPeer) /\ ~ FreshPeer.needsDispatch
  <2>1. /\ NoID \in IDs /\ "DISCONNECTED" \in States /\ NoSession \in Sessions
        /\ <<>> \in Seq(Commands) /\ <<>> \in Seq(IDs)
    BY EmptySeq DEF NoID, IDs, States, Sessions
  <2>2. FreshPeer \in PeerRecords
    BY <2>1 DEF FreshPeer, PeerRecords
  <2>3. PeerOK(FreshPeer) /\ Told(FreshPeer)
    BY DEF FreshPeer, PeerOK, CleanPeer, Told, Silent
  <2> QED
    BY <2>2, <2>3 DEF FreshPeer
<1>3. ASSUME NEW h \in Hosts PROVE FreshHost(h).self = h /\ HostInv(FreshHost(h))
  <2> DEFINE hs == FreshHost(h)
  <2>1. /\ hs.self = h /\ hs.dispatchQueue = <<>> /\ hs.connectedPeers = 0
        /\ hs.bandwidthLimitedPeers = 0 /\ hs.connects = 0 /\ hs.accepts = 0 /\ hs.out = {}
        /\ hs.peers = [p \in Slots |-> FreshPeer]
    BY DEF FreshHost
  <2>2. hs \in HostRecords
    <3>1. <<>> \in Seq(Slots) /\ [p \in Slots |-> FreshPeer] \in [Slots -> PeerRecords]
      BY <1>2, EmptySeq
    <3> QED
      BY <3>1 DEF FreshHost, HostRecords
  <2> HIDE DEF hs
  <2>3. UpPeers(hs) = {} /\ LimitedUp(hs) = {}
    BY <1>2, <2>1 DEF UpPeers, LimitedUp, Up
  <2>4. Counted(hs)
    BY <2>1, <2>3, FS_EmptySet DEF Counted
  <2>5. Queued(hs)
    BY <1>2, <2>1 DEF Queued
  <2> QED
    BY <1>2, <2>1, <2>2, <2>4, <2>5 DEF HostInv, HostOK, hs
<1>4. DOMAIN host = Hosts /\ \A h \in Hosts : host[h].self = h /\ HostInv(host[h])
  BY <1>1, <1>3
<1>5. net \subseteq Datagrams /\ view \in [Hosts -> [Slots -> Views]]
  BY <1>1 DEF Views
<1>6. ASSUME NEW h \in Hosts, NEW p \in Slots PROVE Lifecycle(h, p)!Init
  <2>1. host[h].peers[p] = FreshPeer /\ view[h][p] = "none"
    BY <1>1 DEF FreshHost
  <2> QED
    BY <1>2, <2>1 DEF Lifecycle!Init, Seen
<1> QED
  BY <1>4, <1>5, <1>6 DEF Inv

\* One step for each action of Next.
LEMMA InvNext == Inv /\ [Next]_vars => StepOK
<1> SUFFICES ASSUME Inv, [Next]_vars PROVE StepOK
  OBVIOUS
<1>1. CASE UNCHANGED vars
  <2>1. Inv'
    BY <1>1 DEF Inv, vars
  <2>2. \A g \in Hosts, q \in Slots : LifecycleStep(g, q)
    BY <1>1 DEF LifecycleStep, Lifecycle!vars, vars
  <2> QED
    BY <2>1, <2>2 DEF StepOK
<1>2. CASE Next
  <2> PICK h \in Hosts :
        \/ \E remote \in Hosts : Connect(h, remote)
        \/ \E p \in Slots : \/ Send(h, p)
                            \/ Disconnect(h, p)
                            \/ DisconnectLater(h, p)
                            \/ DisconnectNow(h, p)
                            \/ Reset(h, p)
        \/ \E due \in [Slots -> Due] : SendOutgoing(h, due)
        \/ \E d \in net : ReceiveIncoming(h, d)
        \/ CheckEvents(h)
    BY <1>2 DEF Next
  <2>1. CASE \E remote \in Hosts : Connect(h, remote)
    BY <2>1, ConnectStep
  <2>2. ASSUME NEW p \in Slots, Send(h, p) PROVE StepOK
    BY <2>2, SendStep
  <2>3. ASSUME NEW p \in Slots, Disconnect(h, p) PROVE StepOK
    BY <2>3, DisconnectStep
  <2>4. ASSUME NEW p \in Slots, DisconnectLater(h, p) PROVE StepOK
    BY <2>4, DisconnectLaterStep
  <2>5. ASSUME NEW p \in Slots, DisconnectNow(h, p) \/ Reset(h, p) PROVE StepOK
    BY <2>5, DropSteps
  <2>6. CASE \E due \in [Slots -> Due] : SendOutgoing(h, due)
    BY <2>6, SendOutgoingStep
  <2>7. CASE \E d \in net : ReceiveIncoming(h, d)
    BY <2>7, ReceiveIncomingStep
  <2>8. CASE CheckEvents(h)
    BY <2>8, CheckEventsStep
  <2> QED
    BY <2>1, <2>2, <2>3, <2>4, <2>5, <2>6, <2>7, <2>8
<1> QED
  BY <1>1, <1>2

\* Whatever the applications call and the network does, for any hosts and any
\* number of peers: the invariant of the operators holds of every host.
THEOREM HostInvariant == Spec => []Inv
<1>1. Init => Inv
  BY InvInit
<1>2. Inv /\ [Next]_vars => Inv'
  BY InvNext DEF StepOK
<1> QED
  BY <1>1, <1>2, PTL DEF Spec

\* Every peer keeps to its slots, hosts and two bit sessions, and no counter
\* goes below zero.
THEOREM TypeCorrect == Spec => []TypeOK
<1>1. Inv => TypeOK
  <2> SUFFICES ASSUME Inv PROVE TypeOK
    OBVIOUS
  <2>1. ASSUME NEW h \in Hosts
        PROVE  /\ host[h].dispatchQueue \in Seq(Slots)
               /\ host[h].connectedPeers \in Nat /\ host[h].bandwidthLimitedPeers \in Nat
               /\ \A p \in Slots : host[h].peers[p] \in PeerRecords
    <3>1. host[h] \in HostRecords /\ Counted(host[h])
      BY InvHost DEF HostOK
    <3>2. host[h].connectedPeers \in Nat /\ host[h].bandwidthLimitedPeers \in Nat
      BY <3>1, SlotsFinite, FS_CardinalityType DEF Counted
    <3> QED
      BY <3>1, <3>2, PeerType DEF HostRecords
  <2>2. view \in [Hosts -> [Slots -> Views]]
    BY DEF Inv
  <2> QED
    BY <2>1, <2>2 DEF TypeOK, PeerRecords, Sessions, Views
<1> QED
  BY <1>1, HostInvariant, PTL

\* connectedPeers and bandwidthLimitedPeers are right on every path by which a
\* peer gets up or goes down.
THEOREM AlwaysPeersCounted == Spec => []PeersCounted
<1>1. Inv => PeersCounted
  <2> SUFFICES ASSUME Inv, NEW h \in Hosts
               PROVE  /\ host[h].connectedPeers = Cardinality(UpPeers(host[h]))
                      /\ host[h].bandwidthLimitedPeers =
                           Cardinality({p \in UpPeers(host[h]) : host[h].peers[p].limited})
    BY DEF PeersCounted
  <2>1. Counted(host[h])
    BY InvHost DEF HostOK
  <2> QED
    BY <2>1 DEF Counted, LimitedUp
<1> QED
  BY <1>1, HostInvariant, PTL

\* A peer is linked into the dispatch queue at most once, exactly if it says so,
\* and never missing from it with an event to tell.
THEOREM AlwaysDispatchQueueConsistent == Spec => []DispatchQueueConsistent
<1>1. Inv => DispatchQueueConsistent
  <2> SUFFICES ASSUME Inv, NEW h \in Hosts
               PROVE  /\ IsInjective(host[h].dispatchQueue)
                      /\ \A p \in Slots :
                           /\ host[h].peers[p].needsDispatch
                                <=> p \in ToSet(host[h].dispatchQueue)
                           /\ ~ Silent(host[h].peers[p]) => host[h].peers[p].needsDispatch
    BY DEF DispatchQueueConsistent
  <2>1. Queued(host[h]) /\ \A p \in Slots : Told(host[h].peers[p])
    BY InvHost DEF HostOK
  <2>2. IsInjective(host[h].dispatchQueue)
    BY <2>1 DEF Queued, IsInjective
  <2>3. \A p \in Slots : host[h].peers[p].needsDispatch
                           <=> p \in ToSet(host[h].dispatchQueue)
    BY <2>1 DEF Queued, ToSet
  <2>4. \A p \in Slots : ~ Silent(host[h].peers[p]) => host[h].peers[p].needsDispatch
    BY <2>1 DEF Told
  <2> QED
    BY <2>2, <2>3, <2>4
<1> QED
  BY <1>1, HostInvariant, PTL

\* A free peer carries nothing over to its next connection.
THEOREM AlwaysFreeMeansClean == Spec => []FreeMeansClean
<1>1. Inv => FreeMeansClean
  <2> SUFFICES ASSUME Inv, NEW h \in Hosts, NEW p \in Slots PROVE CleanPeer(host[h].peers[p])
    BY DEF FreeMeansClean, CleanPeer, Idle
  <2> QED
    BY InvHost DEF PeerOK
<1> QED
  BY <1>1, HostInvariant, PTL

\* Every peer of every host behaves as PeerLifecycle promises the application,
\* if no application disconnects a peer that it is still connecting.
THEOREM HostRefinesLifecycle ==
  ASSUME NobodyAbandons
  PROVE  Spec => RefinesLifecycle
<1>1. Init => \A h \in Hosts, p \in Slots : Lifecycle(h, p)!Init
  BY InvInit
<1>2. Inv /\ [Next]_vars =>
        [\A h \in Hosts, p \in Slots :
            Lifecycle(h, p)!Next \/ UNCHANGED Lifecycle(h, p)!vars]_vars
  BY InvNext DEF StepOK, LifecycleStep
<1> QED
  BY <1>1, <1>2, HostInvariant, PTL DEF Spec, RefinesLifecycle
=============================================================================
