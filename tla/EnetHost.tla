------------------------------ MODULE EnetHost ------------------------------
(***************************************************************************)
(* Connection management of ENet hosts: the peers of every ENetHost, the   *)
(* connect and disconnect handshakes between them, the dispatch queue and  *)
(* the events the application polls, over a network that loses, delays,    *)
(* duplicates and reorders datagrams.                                      *)
(*                                                                         *)
(* A host is a record; every function of the code that changes a host is   *)
(* an operator from host records to host records, and an action applies    *)
(* one API function to one host.  The applications call enet_host_service  *)
(* with event = NULL and poll enet_host_check_events, as enetpp does       *)
(* (server.h:383, client.h:224), so that every event passes through the    *)
(* dispatch queue.                                                         *)
(*                                                                         *)
(* One reliable packet per connection and direction stands for the data    *)
(* (EnetChannel models the stream of them).  A datagram carries one        *)
(* command.  Time is abstract: a command that was sent may time out in any *)
(* pass, and an idle peer may be pinged in any pass.                       *)
(***************************************************************************)
EXTENDS Integers, Sequences, FiniteSets, SequencesExt

CONSTANTS
  Hosts,                   \* the hosts; an address is the host that has it
  PeerCount,               \* host->peerCount
  DuplicatePeers,          \* host->duplicatePeers
  BandwidthLimited,        \* the hosts created with an incomingBandwidth
  Calls,                   \* the functions each application calls, a subset of
                           \* {"send", "disconnect", "later", "now", "reset",
                           \* "abandon"}: "abandon" if it may disconnect a
                           \* peer that it is still connecting
  MaxConnects,             \* bound: connections attempted by each host
  MaxAccepts,              \* bound: connections accepted by each host; then
                           \* enet_malloc fails
  MaxSequence              \* bound: control commands a host sends on a
                           \* connection, but for its DISCONNECT

ASSUME HostAssumption ==
  /\ PeerCount \in Nat \ {0}
  /\ DuplicatePeers \in Nat \ {0}
  /\ BandwidthLimited \subseteq Hosts
  /\ MaxConnects \in [Hosts -> Nat]
  /\ MaxAccepts \in [Hosts -> Nat]
  /\ MaxSequence \in [Hosts -> Nat]

VARIABLES
  host,                    \* the ENetHost of each host
  net,                     \* datagrams: once sent, one may arrive any number
                           \* of times, any time later, or never
  view                     \* what each application knows of each peer:
                           \* "none", "connecting", "connected" or "closing"

vars == <<host, net, view>>

Slots  == 0 .. PeerCount - 1
NoPeer == PeerCount        \* ENET_PROTOCOL_MAXIMUM_PEER_ID
NoHost == "no host"
NoID   == <<NoHost, 0>>    \* connectID 0

SESSIONS  == 4             \* ENET_PROTOCOL_HEADER_SESSION_MASK, two bits
NoSession == 255

States == {"DISCONNECTED", "CONNECTING", "ACKNOWLEDGING_CONNECT",
           "CONNECTION_PENDING", "CONNECTION_SUCCEEDED", "CONNECTED",
           "DISCONNECT_LATER", "DISCONNECTING", "ACKNOWLEDGING_DISCONNECT",
           "ZOMBIE"}

Up == {"CONNECTED", "DISCONNECT_LATER"}

-----------------------------------------------------------------------------
(* Commands, datagrams and peers. *)

Command(cmd, channel, seq, body) ==
  [cmd |-> cmd, channel |-> channel, seq |-> seq, body |-> body]

Control == 255             \* channelID 0xFF
NoBody  == [id |-> NoID]

\* A datagram from host h to peer r's foreign host.  The session is on it once
\* the foreign peer is known.
Datagram(h, r, cmd, channel, seq, ack, body) ==
  [from |-> h, to |-> r.address, peerID |-> r.outgoingPeerID,
   session |-> IF r.outgoingPeerID = NoPeer THEN 0 ELSE r.outgoingSessionID,
   cmd |-> cmd, channel |-> channel, seq |-> seq, ack |-> ack, body |-> body]

FreshPeer ==
  [state |-> "DISCONNECTED", connectID |-> NoID, outgoingPeerID |-> NoPeer,
   incomingSessionID |-> NoSession, outgoingSessionID |-> NoSession,
   address |-> NoHost, limited |-> FALSE, needsDispatch |-> FALSE,
   seq |-> 0,              \* outgoingReliableSequenceNumber
   dataSent |-> FALSE,     \* the channel's outgoingReliableSequenceNumber > 0
   dataGot |-> FALSE,      \* its incomingReliableSequenceNumber > 0
   outgoing |-> <<>>,      \* outgoingReliableCommands
   sent |-> <<>>,          \* sentReliableCommands
   acks |-> {},            \* acknowledgements
   dispatched |-> <<>>]    \* dispatchedCommands: the payloads

\* enet_host_create.
FreshHost(h) ==
  [self |-> h, peers |-> [p \in Slots |-> FreshPeer], dispatchQueue |-> <<>>,
   connectedPeers |-> 0, bandwidthLimitedPeers |-> 0,
   connects |-> 0,         \* randomSeed
   accepts |-> 0,          \* history: connections accepted
   out |-> {}]             \* datagrams sent by the current action

Set(hs, p, r) == [hs EXCEPT !.peers[p] = r]

First(S) == CHOOSE p \in S : \A q \in S : p =< q

-----------------------------------------------------------------------------
(* enet_peer_on_connect and enet_peer_on_disconnect count the peers that are *)
(* up.                                                                       *)

Count(hs, p, n) ==
  [hs EXCEPT !.connectedPeers = @ + n,
             !.bandwidthLimitedPeers = IF hs.peers[p].limited THEN @ + n ELSE @]

OnConnect(hs, p) ==
  IF hs.peers[p].state \in Up THEN hs ELSE Count(hs, p, 1)

\* Mutant: what a peer that never got up takes off the count.
OnDisconnect_Always(hs, p) == Count(hs, p, -1)

OnDisconnect(hs, p) ==
  IF hs.peers[p].state \in Up THEN Count(hs, p, -1) ELSE hs

ChangeState(hs, p, state) ==
  [(IF state \in Up THEN OnConnect(hs, p) ELSE OnDisconnect(hs, p))
     EXCEPT !.peers[p].state = state]

Dispatch(hs, p) ==
  IF hs.peers[p].needsDispatch
  THEN hs
  ELSE [hs EXCEPT !.peers[p].needsDispatch = TRUE,
                  !.dispatchQueue = Append(@, p)]

DispatchState(hs, p, state) == Dispatch(ChangeState(hs, p, state), p)

Cleared(r) == [r EXCEPT !.needsDispatch = FALSE, !.acks = {}, !.sent = <<>>,
                        !.outgoing = <<>>, !.dispatched = <<>>]

\* Mutant: forgets the flag and leaves the peer linked.
ResetQueues_StaysLinked(hs, p) == Set(hs, p, Cleared(hs.peers[p]))

ResetQueues(hs, p) ==
  [Set(hs, p, Cleared(hs.peers[p])) EXCEPT
     !.dispatchQueue = IF hs.peers[p].needsDispatch THEN RemoveFirst(@, p) ELSE @]

Freed(r) == [r EXCEPT !.outgoingPeerID = NoPeer, !.connectID = NoID,
                      !.state = "DISCONNECTED", !.limited = FALSE, !.seq = 0]

\* Mutant: the state changes before enet_peer_on_disconnect looks at it.
ResetPeer_StateFirst(hs, p) ==
  LET freed == Set(hs, p, Freed(hs.peers[p])) IN
  ResetQueues(OnDisconnect(freed, p), p)

\* Mutant: resets the identity of the peer and not its queues.
ResetPeer_KeepsQueues(hs, p) == Set(OnDisconnect(hs, p), p, Freed(hs.peers[p]))

\* enet_peer_reset.  The address and the session IDs are kept.
ResetPeer(hs, p) ==
  ResetQueues(Set(OnDisconnect(hs, p), p, Freed(hs.peers[p])), p)

\* enet_peer_queue_outgoing_command for a command of channel 0xFF that wants
\* an acknowledgement.
QueueControl(hs, p, cmd, body) ==
  LET n == hs.peers[p].seq + 1 IN
  [hs EXCEPT !.peers[p].seq = n,
             !.peers[p].outgoing = Append(@, Command(cmd, Control, n, body))]

\* Mutant: a connection attempt that is lost frees the peer and says nothing.
NotifyDisconnect_Silent(hs, p) ==
  IF hs.peers[p].state \in {"DISCONNECTED", "ACKNOWLEDGING_CONNECT",
                            "CONNECTION_PENDING", "CONNECTING"}
  THEN ResetPeer(hs, p)
  ELSE DispatchState(hs, p, "ZOMBIE")

\* Mutant: the peer becomes a zombie that nobody dispatches.
NotifyDisconnect_Undispatched(hs, p) ==
  IF hs.peers[p].state \in {"DISCONNECTED", "ACKNOWLEDGING_CONNECT",
                            "CONNECTION_PENDING"}
  THEN ResetPeer(hs, p)
  ELSE ChangeState(hs, p, "ZOMBIE")

\* What the state a peer is in makes of the loss of its connection.
NotifyDisconnect(hs, p) ==
  IF hs.peers[p].state \in {"DISCONNECTED", "ACKNOWLEDGING_CONNECT",
                            "CONNECTION_PENDING"}
  THEN ResetPeer(hs, p)
  ELSE DispatchState(hs, p, "ZOMBIE")

NotifyConnect(hs, p) ==
  DispatchState(hs, p, IF hs.peers[p].state = "CONNECTING"
                       THEN "CONNECTION_SUCCEEDED"
                       ELSE "CONNECTION_PENDING")

-----------------------------------------------------------------------------
(* The send pass, enet_protocol_send_outgoing_commands. *)

SendAcknowledgements(hs, p) ==
  LET r == hs.peers[p]
      acked == [hs EXCEPT
        !.out = @ \cup {Datagram(hs.self, r, "ACKNOWLEDGE", a.channel, a.seq,
                                 FALSE, NoBody) : a \in r.acks},
        !.peers[p].acks = {}]
  IN IF \E a \in r.acks : a.cmd = "DISCONNECT"
     THEN DispatchState(acked, p, "ZOMBIE")
     ELSE acked

SendReliable(hs, p) ==
  LET r == hs.peers[p] IN
  [hs EXCEPT
     !.out = @ \cup {Datagram(hs.self, r, c.cmd, c.channel, c.seq, TRUE, c.body)
                       : c \in ToSet(r.outgoing)},
     !.peers[p].sent = @ \o r.outgoing,
     !.peers[p].outgoing = <<>>]

Idle(r) == r.outgoing = <<>> /\ r.sent = <<>>

\* When the clock can say what of a peer: only a command that was sent
\* expires, and enet_peer_ping pings a connected peer when nothing is on its way.
CanBeDue(hs, p) ==
  LET r == hs.peers[p] IN
  {"nothing"}
    \cup (IF r.sent # <<>> THEN {"expired"} ELSE {})
    \cup (IF r.state = "CONNECTED" /\ Idle(r) /\ r.seq < MaxSequence[hs.self]
          THEN {"ping"} ELSE {})

Ping(hs, p) == QueueControl(hs, p, "PING", NoBody)

\* One peer's turn in the pass.  `due` is what the clock says of it: "expired"
\* if a command has been unacknowledged for too long, "ping" or "nothing".  A
\* command that is retransmitted is the same datagram again, which net still has.
Serve(hs, p, due) ==
  IF hs.peers[p].state \in {"DISCONNECTED", "ZOMBIE"} THEN hs
  ELSE LET acked == SendAcknowledgements(hs, p) IN
       IF due = "expired"
       THEN [NotifyDisconnect(acked, p) EXCEPT !.out = hs.out]
       ELSE SendReliable(IF due = "ping" THEN Ping(acked, p) ELSE acked, p)

\* The turns of the first n peers: a socket error ends a pass early.
Pass(hs, due, n) ==
  LET after[k \in 0 .. n] ==
        IF k = 0 THEN hs ELSE Serve(after[k - 1], k - 1, due[k - 1])
  IN after[n]

\* enet_host_flush looks at no clock.
Flush(hs, n) == Pass(hs, [p \in Slots |-> "nothing"], n)

-----------------------------------------------------------------------------
(* The functions an application calls. *)

Connected(hs, p, remote) ==
  LET r == [hs.peers[p] EXCEPT
              !.state = "CONNECTING", !.address = remote,
              !.connectID = <<hs.self, hs.connects + 1>>,
              !.dataSent = FALSE, !.dataGot = FALSE]
  IN QueueControl([Set(hs, p, r) EXCEPT !.connects = @ + 1], p, "CONNECT",
       [id |-> r.connectID, peerID |-> p,
        incomingSessionID |-> r.incomingSessionID,
        outgoingSessionID |-> r.outgoingSessionID,
        limited |-> hs.self \in BandwidthLimited])

\* A DISCONNECT that wants no acknowledgement is sent by the flush at once.
Goodbye(hs, p) ==
  [hs EXCEPT !.out = @ \cup {Datagram(hs.self, hs.peers[p], "DISCONNECT",
                                      Control, hs.peers[p].seq + 1, FALSE,
                                      NoBody)},
             !.peers[p].seq = @ + 1]

DisconnectPeer(hs, p, n) ==
  LET r == hs.peers[p]
      cleared == ResetQueues(hs, p) IN
  IF r.state \in {"DISCONNECTING", "DISCONNECTED", "ACKNOWLEDGING_DISCONNECT",
                  "ZOMBIE"}
  THEN hs
  ELSE IF r.state \in Up
       THEN [OnDisconnect(QueueControl(cleared, p, "DISCONNECT", NoBody), p)
               EXCEPT !.peers[p].state = "DISCONNECTING"]
       ELSE ResetPeer(Flush(Goodbye(cleared, p), n), p)

\* Mutant: waits for queued packets although there are none.
DisconnectPeerLater_WhenIdle(hs, p, n) ==
  IF hs.peers[p].state \in Up
  THEN [hs EXCEPT !.peers[p].state = "DISCONNECT_LATER"]
  ELSE DisconnectPeer(hs, p, n)

DisconnectPeerLater(hs, p, n) ==
  IF hs.peers[p].state \in Up /\ ~ Idle(hs.peers[p])
  THEN [hs EXCEPT !.peers[p].state = "DISCONNECT_LATER"]
  ELSE DisconnectPeer(hs, p, n)

DisconnectPeerNow(hs, p, n) ==
  CASE hs.peers[p].state = "DISCONNECTED" -> hs
    [] hs.peers[p].state \in {"ZOMBIE", "DISCONNECTING"} -> ResetPeer(hs, p)
    [] OTHER -> ResetPeer(Flush(Goodbye(ResetQueues(hs, p), p), n), p)

\* enet_peer_send on a peer that is connected.
SendData(hs, p) ==
  LET r == hs.peers[p] IN
  [hs EXCEPT !.peers[p].dataSent = TRUE,
             !.peers[p].outgoing =
               Append(@, Command("SEND_RELIABLE", 0, 1, [id |-> r.connectID]))]

-----------------------------------------------------------------------------
(* The handlers of incoming commands. *)

NextSession(theirs, mine) ==
  LET s == ((IF theirs = NoSession THEN mine ELSE theirs) + 1) % SESSIONS IN
  IF s = mine THEN (s + 1) % SESSIONS ELSE s

Free(hs) == {p \in Slots : hs.peers[p].state = "DISCONNECTED"}

\* The peers of the host that the CONNECT d came from.
FromSameHost(hs, d) ==
  {p \in Slots : /\ hs.peers[p].state \notin {"DISCONNECTED", "CONNECTING"}
                 /\ hs.peers[p].address = d.from}

HandleConnect(hs, d) ==
  IF \/ Free(hs) = {}
     \/ \E p \in FromSameHost(hs, d) : hs.peers[p].connectID = d.body.id
     \/ Cardinality(FromSameHost(hs, d)) >= DuplicatePeers
     \/ hs.accepts = MaxAccepts[hs.self]
  THEN hs
  ELSE LET p == First(Free(hs))
           r == [hs.peers[p] EXCEPT
                   !.state = "ACKNOWLEDGING_CONNECT", !.connectID = d.body.id,
                   !.address = d.from, !.outgoingPeerID = d.body.peerID,
                   !.limited = d.body.limited,
                   !.outgoingSessionID = NextSession(d.body.incomingSessionID, @),
                   !.incomingSessionID = NextSession(d.body.outgoingSessionID, @),
                   !.dataSent = FALSE, !.dataGot = FALSE]
       IN QueueControl([Set(hs, p, r) EXCEPT !.accepts = @ + 1], p, "VERIFY_CONNECT",
            [id |-> r.connectID, peerID |-> p,
             incomingSessionID |-> r.outgoingSessionID,
             outgoingSessionID |-> r.incomingSessionID,
             limited |-> hs.self \in BandwidthLimited])

\* enet_protocol_remove_sent_reliable_command removes the first match.
Matches(c, channel, seq) == c.channel = channel /\ c.seq = seq

Removed(hs, p, channel, seq) ==
  [hs EXCEPT !.peers[p].sent =
     RemoveFirstMatch(@, LAMBDA c : Matches(c, channel, seq))]

\* Mutant: takes the session of one direction only.
Verified_OneSession(r, body) ==
  [r EXCEPT !.outgoingPeerID = body.peerID,
            !.outgoingSessionID = body.outgoingSessionID,
            !.limited = body.limited]

\* What a peer takes from the VERIFY_CONNECT command.
Verified(r, body) ==
  [r EXCEPT !.outgoingPeerID = body.peerID,
            !.incomingSessionID = body.incomingSessionID,
            !.outgoingSessionID = body.outgoingSessionID,
            !.limited = body.limited]

\* Mutant: does not look at the connectID.
HandleVerifyConnect_AnyID(hs, p, d) ==
  LET removed == Removed(hs, p, Control, 1) IN
  IF hs.peers[p].state # "CONNECTING" THEN hs
  ELSE NotifyConnect(Set(removed, p, Verified(removed.peers[p], d.body)), p)

HandleVerifyConnect(hs, p, d) ==
  LET removed == Removed(hs, p, Control, 1) IN
  IF hs.peers[p].state # "CONNECTING" THEN hs
  ELSE IF d.body.id # hs.peers[p].connectID THEN DispatchState(hs, p, "ZOMBIE")
  ELSE NotifyConnect(Set(removed, p, Verified(removed.peers[p], d.body)), p)

\* Here d.ack says whether the DISCONNECT wants an acknowledgement.
HandleDisconnect(hs, p, d) ==
  LET state   == hs.peers[p].state
      cleared == ResetQueues(hs, p) IN
  CASE state = "ACKNOWLEDGING_DISCONNECT" -> hs
    [] state \in {"CONNECTION_SUCCEEDED", "DISCONNECTING", "CONNECTING"} ->
         DispatchState(cleared, p, "ZOMBIE")
    [] state \in {"ACKNOWLEDGING_CONNECT", "CONNECTION_PENDING"} ->
         ResetPeer(cleared, p)
    [] state \in Up -> IF d.ack
                       THEN ChangeState(cleared, p, "ACKNOWLEDGING_DISCONNECT")
                       ELSE DispatchState(cleared, p, "ZOMBIE")

HandleAcknowledge(hs, p, d) ==
  LET r == hs.peers[p]
      found   == {c \in ToSet(r.sent) : Matches(c, d.channel, d.seq)}
      removed == Removed(hs, p, d.channel, d.seq)
      acked(cmd) == \E c \in found : c.cmd = cmd
  IN CASE r.state = "ACKNOWLEDGING_CONNECT" /\ acked("VERIFY_CONNECT") ->
            NotifyConnect(removed, p)
       [] r.state = "DISCONNECTING" /\ acked("DISCONNECT") ->
            NotifyDisconnect(removed, p)
       [] r.state = "DISCONNECT_LATER" /\ Idle(removed.peers[p]) ->
            DisconnectPeer(removed, p, 0)
       [] OTHER -> removed

\* The data of a peer that disconnects later is discarded.
HandleSendReliable(hs, p, d) ==
  IF hs.peers[p].state # "CONNECTED" \/ hs.peers[p].dataGot THEN hs
  ELSE Dispatch([hs EXCEPT !.peers[p].dataGot = TRUE,
                           !.peers[p].dispatched = Append(@, d.body.id)], p)

\* Which commands enet_protocol_handle_incoming_commands acknowledges, given
\* the state `before` the handler ran and the state it left.
QueueAcknowledgement(hs, p, d, before) ==
  LET state == hs.peers[p].state IN
  IF /\ d.ack
     /\ d.cmd \in {"PING", "SEND_RELIABLE"} => before \in Up
     /\ state \notin {"DISCONNECTING", "ACKNOWLEDGING_CONNECT", "DISCONNECTED",
                      "ZOMBIE"}
     /\ state = "ACKNOWLEDGING_DISCONNECT" => d.cmd = "DISCONNECT"
  THEN [hs EXCEPT !.peers[p].acks =
          @ \cup {[cmd |-> d.cmd, channel |-> d.channel, seq |-> d.seq]}]
  ELSE hs

\* Mutant: no test of the session.
Rejected_AnySession(hs, d) ==
  IF d.peerID = NoPeer
  THEN d.cmd # "CONNECT"
  ELSE \/ hs.peers[d.peerID].state \in {"DISCONNECTED", "ZOMBIE"}
       \/ d.from # hs.peers[d.peerID].address

\* The test of a datagram's peer ID, address and session.
Rejected(hs, d) ==
  IF d.peerID = NoPeer
  THEN d.cmd # "CONNECT"
  ELSE LET r == hs.peers[d.peerID] IN
       \/ r.state \in {"DISCONNECTED", "ZOMBIE"}
       \/ d.from # r.address
       \/ r.outgoingPeerID # NoPeer /\ d.session # r.incomingSessionID

HandleIncoming(hs, d) ==
  LET p == d.peerID IN
  IF d.cmd = "CONNECT" THEN HandleConnect(hs, d)
  ELSE QueueAcknowledgement(
         CASE d.cmd = "ACKNOWLEDGE"    -> HandleAcknowledge(hs, p, d)
           [] d.cmd = "VERIFY_CONNECT" -> HandleVerifyConnect(hs, p, d)
           [] d.cmd = "DISCONNECT"     -> HandleDisconnect(hs, p, d)
           [] d.cmd = "SEND_RELIABLE"  -> HandleSendReliable(hs, p, d)
           [] d.cmd = "PING"           -> hs,
         p, d, hs.peers[p].state)

-----------------------------------------------------------------------------
(* enet_protocol_dispatch_incoming_commands. *)

\* The peer has nothing to tell the application.
Silent(r) ==
  /\ r.state \notin {"CONNECTION_PENDING", "CONNECTION_SUCCEEDED", "ZOMBIE"}
  /\ r.state = "CONNECTED" => r.dispatched = <<>>

\* The first peer of the queue that has an event, and the peers before it.
EventPositions(hs) ==
  {k \in DOMAIN hs.dispatchQueue : ~ Silent(hs.peers[hs.dispatchQueue[k]])}

Dequeued(hs, k) ==
  [hs EXCEPT
     !.dispatchQueue = SubSeq(@, k + 1, Len(@)),
     !.peers = [p \in Slots |->
                  IF \E j \in 1 .. k : hs.dispatchQueue[j] = p
                  THEN [@[p] EXCEPT !.needsDispatch = FALSE]
                  ELSE @[p]]]

TakeReceived(hs, p) ==
  LET taken == [hs EXCEPT !.peers[p].dispatched = Tail(@)] IN
  IF taken.peers[p].dispatched = <<>> THEN taken ELSE Dispatch(taken, p)

-----------------------------------------------------------------------------
(* Actions: one API function called by the application of host h, or one     *)
(* datagram handled.                                                         *)

Becomes(h, hs) ==
  /\ host' = [host EXCEPT ![h] = [hs EXCEPT !.out = {}]]
  /\ net' = net \cup hs.out

Connect(h, remote) ==
  /\ h # remote
  /\ host[h].connects < MaxConnects[h]
  /\ Free(host[h]) # {}
  /\ LET p == First(Free(host[h])) IN
     /\ Becomes(h, Connected(host[h], p, remote))
     /\ view' = [view EXCEPT ![h][p] = "connecting"]

Send(h, p) ==
  /\ "send" \in Calls[h]
  /\ host[h].peers[p].state = "CONNECTED"
  /\ ~ host[h].peers[p].dataSent
  /\ Becomes(h, SendData(host[h], p))
  /\ UNCHANGED view

\* The application calls enet_peer_disconnect for a connection that it was told
\* of, or, if it does such things, for one that it is still waiting for.
MayDisconnect(h, p) ==
  \/ view[h][p] \in {"connected", "closing"}
  \/ view[h][p] = "connecting" /\ "abandon" \in Calls[h]

Disconnect(h, p) ==
  /\ "disconnect" \in Calls[h]
  /\ MayDisconnect(h, p)
  /\ \E n \in 0 .. PeerCount : Becomes(h, DisconnectPeer(host[h], p, n))
  /\ view' = [view EXCEPT ![h][p] = "closing"]

DisconnectLater(h, p) ==
  /\ "later" \in Calls[h]
  /\ MayDisconnect(h, p)
  /\ \E n \in 0 .. PeerCount : Becomes(h, DisconnectPeerLater(host[h], p, n))
  /\ view' = [view EXCEPT ![h][p] = "closing"]

DisconnectNow(h, p) ==
  /\ "now" \in Calls[h]
  /\ view[h][p] # "none"
  /\ \E n \in 0 .. PeerCount : Becomes(h, DisconnectPeerNow(host[h], p, n))
  /\ view' = [view EXCEPT ![h][p] = "none"]

Reset(h, p) ==
  /\ "reset" \in Calls[h]
  /\ view[h][p] # "none"
  /\ Becomes(h, ResetPeer(host[h], p))
  /\ view' = [view EXCEPT ![h][p] = "none"]

\* enet_host_service sends and receives; the datagrams it receives are handled
\* one by one.
SendOutgoing(h, due) ==
  /\ \A p \in Slots : due[p] \in CanBeDue(host[h], p)
  /\ \E n \in 1 .. PeerCount : Becomes(h, Pass(host[h], due, n))
  /\ UNCHANGED view

ReceiveIncoming(h, d) ==
  /\ d.to = h
  /\ ~ Rejected(host[h], d)
  /\ Becomes(h, HandleIncoming(host[h], d))
  /\ UNCHANGED view

CheckEvents(h) ==
  /\ host[h].dispatchQueue # <<>>
  /\ IF EventPositions(host[h]) = {}
     THEN /\ Becomes(h, Dequeued(host[h], Len(host[h].dispatchQueue)))
          /\ UNCHANGED view
     ELSE LET k  == First(EventPositions(host[h]))
              p  == host[h].dispatchQueue[k]
              hs == Dequeued(host[h], k)
              state == hs.peers[p].state
          IN \/ /\ state \in {"CONNECTION_PENDING", "CONNECTION_SUCCEEDED"}
                /\ Becomes(h, ChangeState(hs, p, "CONNECTED"))
                /\ view' = [view EXCEPT ![h][p] = "connected"]
             \/ /\ state = "ZOMBIE"
                /\ Becomes(h, ResetPeer(hs, p))
                /\ view' = [view EXCEPT ![h][p] = "none"]
             \/ /\ state = "CONNECTED"
                /\ Becomes(h, TakeReceived(hs, p))
                /\ UNCHANGED view

Init ==
  /\ host = [h \in Hosts |-> FreshHost(h)]
  /\ net = {}
  /\ view = [h \in Hosts |-> [p \in Slots |-> "none"]]

Due == {"nothing", "expired", "ping"}

Next ==
  \E h \in Hosts :
    \/ \E remote \in Hosts : Connect(h, remote)
    \/ \E p \in Slots : \/ Send(h, p)
                        \/ Disconnect(h, p)
                        \/ DisconnectLater(h, p)
                        \/ DisconnectNow(h, p)
                        \/ Reset(h, p)
    \/ \E due \in [Slots -> Due] : SendOutgoing(h, due)
    \/ \E d \in net : ReceiveIncoming(h, d)
    \/ CheckEvents(h)

Spec == Init /\ [][Next]_vars

-----------------------------------------------------------------------------
(* Properties. *)

\* Every peer names a slot, a host and sessions of the two bits the header has
\* for them; the counters never go below zero.
TypeOK ==
  /\ \A h \in Hosts :
       LET hs == host[h] IN
       /\ hs.dispatchQueue \in Seq(Slots)
       /\ hs.connectedPeers \in Nat
       /\ hs.bandwidthLimitedPeers \in Nat
       /\ \A p \in Slots :
            LET r == hs.peers[p] IN
            /\ r.state \in States
            /\ r.outgoingPeerID \in Slots \cup {NoPeer}
            /\ r.incomingSessionID \in 0 .. SESSIONS - 1 \cup {NoSession}
            /\ r.outgoingSessionID \in 0 .. SESSIONS - 1 \cup {NoSession}
            /\ r.address \in Hosts \cup {NoHost}
  /\ view \in [Hosts -> [Slots -> {"none", "connecting", "connected", "closing"}]]

UpPeers(hs) == {p \in Slots : hs.peers[p].state \in Up}

\* host->connectedPeers and host->bandwidthLimitedPeers count the peers that
\* are up, on every path by which a peer gets up or goes down: enet_peer_on_connect
\* and enet_peer_on_disconnect look at the state before it changes, and
\* enet_host_bandwidth_throttle divides by these numbers.
PeersCounted ==
  \A h \in Hosts :
    /\ host[h].connectedPeers = Cardinality(UpPeers(host[h]))
    /\ host[h].bandwidthLimitedPeers =
         Cardinality({p \in UpPeers(host[h]) : host[h].peers[p].limited})

\* The dispatch queue links each peer at most once, exactly the peers that say
\* so (dispatchList is an intrusive list node: linking one twice would corrupt
\* the list), and no peer with an event to tell is missing from it.
DispatchQueueConsistent ==
  \A h \in Hosts :
    LET hs == host[h] IN
    /\ IsInjective(hs.dispatchQueue)
    /\ \A p \in Slots :
         /\ hs.peers[p].needsDispatch <=> p \in ToSet(hs.dispatchQueue)
         /\ ~ Silent(hs.peers[p]) => hs.peers[p].needsDispatch

\* A peer that is free carries nothing over to its next connection.
FreeMeansClean ==
  \A h \in Hosts, p \in Slots :
    LET r == host[h].peers[p] IN
    r.state = "DISCONNECTED" =>
      /\ Idle(r) /\ r.acks = {} /\ r.dispatched = <<>> /\ ~ r.needsDispatch
      /\ r.connectID = NoID /\ r.outgoingPeerID = NoPeer

\* What PeerLifecycle calls a state.
Seen(state) ==
  CASE state \in {"ACKNOWLEDGING_CONNECT", "CONNECTION_PENDING"} -> "PENDING"
    [] state = "CONNECTION_SUCCEEDED" -> "SUCCEEDED"
    [] state = "DISCONNECT_LATER" -> "LATER"
    [] state \in {"DISCONNECTING", "ACKNOWLEDGING_DISCONNECT"} -> "LEAVING"
    [] OTHER -> state

Lifecycle(h, p) == INSTANCE PeerLifecycle
                     WITH state <- Seen(host[h].peers[p].state), view <- view[h][p]

\* No application disconnects a peer that it is still connecting.
NobodyAbandons == \A h \in Hosts : "abandon" \notin Calls[h]

\* Every peer of every host behaves as PeerLifecycle promises the application:
\* a connection that the application was told about, or asked for, never ends
\* behind its back, one that it asked to end ends with an event, and it hears of
\* a disconnection only if it knew the peer.  Where NobodyAbandons is false this
\* is too, see DisconnectHeard.
RefinesLifecycle ==
  /\ \A h \in Hosts, p \in Slots : Lifecycle(h, p)!Init
  /\ [][\A h \in Hosts, p \in Slots :
           Lifecycle(h, p)!Next \/ UNCHANGED Lifecycle(h, p)!vars]_vars

\* "An ENET_EVENT_DISCONNECT event will be generated by enet_host_service() once
\* the disconnection is complete" (peer.cpp:524-525, 567-568): no peer is free
\* again while its application waits for that event.
DisconnectHeard ==
  \A h \in Hosts, p \in Slots :
    view[h][p] = "closing" => host[h].peers[p].state # "DISCONNECTED"

\* A packet is handed out only by the connection it was sent on, although peer
\* slots and session IDs are reused and old datagrams may still arrive.
NoForeignData ==
  \A h \in Hosts, p \in Slots :
    \A id \in ToSet(host[h].peers[p].dispatched) : id = host[h].peers[p].connectID

\* The peers that got an answer from a foreign host.
Paired(hs) ==
  {p \in Slots : hs.peers[p].state \notin
                   {"DISCONNECTED", "CONNECTING", "ACKNOWLEDGING_CONNECT", "ZOMBIE"}}

Linked(h, p, g, q) ==
  LET r == host[h].peers[p]
      s == host[g].peers[q]
  IN /\ r.address = g /\ s.address = h
     /\ r.outgoingPeerID = q /\ s.outgoingPeerID = p
     /\ r.outgoingSessionID = s.incomingSessionID
     /\ r.incomingSessionID = s.outgoingSessionID

\* Two peers that got an answer from each other belong to one connection exactly
\* if they are on different hosts, each names the other's slot and they agree on
\* the session of each direction: what is left of an older or another attempt
\* never mixes two connections up.
EndsAgree ==
  \A h, g \in Hosts :
    \A p \in Paired(host[h]), q \in Paired(host[g]) :
      h # g \/ p # q =>
        (host[h].peers[p].connectID = host[g].peers[q].connectID
           <=> h # g /\ Linked(h, p, g, q))

\* Both applications call enet_host_service and enet_host_check_events again and
\* again, so that passes run, events are polled and, the clock going on, a
\* command that stays unacknowledged expires.  Nothing is asked of the network.
FullPass(h, due) == Becomes(h, Pass(host[h], due, PeerCount)) /\ UNCHANGED view

Quiet == [p \in Slots |-> "nothing"]

SomethingToSend(h) ==
  \E p \in Slots : host[h].peers[p].outgoing # <<>> \/ host[h].peers[p].acks # {}

QuietPass(h) == SomethingToSend(h) /\ FullPass(h, Quiet)

Expire(h, p) ==
  /\ host[h].peers[p].sent # <<>>
  /\ FullPass(h, [Quiet EXCEPT ![p] = "expired"])

Fairness ==
  \A h \in Hosts : /\ WF_vars(QuietPass(h))
                   /\ WF_vars(CheckEvents(h))
                   /\ \A p \in Slots : WF_vars(Expire(h, p))

FairSpec == Spec /\ Fairness

\* A connection attempt ends in a CONNECT or a DISCONNECT event, unless the
\* application gives it up: the timeout of the CONNECT command sees to it
\* ("the peer will be disconnected regardless", peer.cpp:472).
ConnectAnswered ==
  \A h \in Hosts, p \in Slots :
    view[h][p] = "connecting" ~> view[h][p] # "connecting"

\* A connection that the application asked to end, at once or after its queued
\* packets, does end with a DISCONNECT event, whatever the other host does.  Only
\* that event takes "closing" back where no application abandons an attempt.
DisconnectAnswered ==
  \A h \in Hosts, p \in Slots :
    view[h][p] = "closing" ~> view[h][p] # "closing"
=============================================================================
