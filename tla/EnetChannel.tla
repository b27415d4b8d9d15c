----------------------------- MODULE EnetChannel -----------------------------
(***************************************************************************)
(* One channel of a connected ENet peer, in one direction, carrying        *)
(* unfragmented reliable packets (ENET_PROTOCOL_COMMAND_SEND_RELIABLE): the *)
(* sending ENetPeer, the receiving ENetPeer, and a network that loses,     *)
(* duplicates and reorders datagrams.                                      *)
(*                                                                         *)
(* A packet is named by the order in which enet_peer_send accepted it      *)
(* (1, 2, ...); its reliable sequence number on the wire is that number    *)
(* modulo the sequence space, and every test the code makes is a test of   *)
(* wire numbers here.  All packets have the same length, one unit of       *)
(* reliableDataInTransit and of totalWaitingData.                          *)
(*                                                                         *)
(* A datagram carries one command; one that carries several is several     *)
(* steps.  A send pass of the sending host (the loop of                    *)
(* enet_protocol_send_outgoing_commands) is the steps from CheckTimeouts   *)
(* to EndPass or SocketError; the host does nothing else meanwhile.        *)
(* Time is abstract: any retransmission timeouts may have expired when a   *)
(* pass begins.                                                            *)
(***************************************************************************)
EXTENDS Integers, Sequences, FiniteSets, SequencesExt

CONSTANTS
  RELIABLE_WINDOWS,        \* ENET_PEER_RELIABLE_WINDOWS (16)
  RELIABLE_WINDOW_SIZE,    \* ENET_PEER_RELIABLE_WINDOW_SIZE (0x1000)
  FREE_RELIABLE_WINDOWS,   \* ENET_PEER_FREE_RELIABLE_WINDOWS (8)
  WindowSize,              \* peer->windowSize, in packets
  MaximumWaitingData,      \* host->maximumWaitingData, in packets
  MaxPackets,              \* bound: packets the application submits
  MaxUnsent,               \* bound: packets submitted and not sent yet
  MaxDatagrams,            \* bound: datagrams in flight, each direction
  MaxAcks,                 \* bound: packets the receiver has yet to acknowledge
  Lifetime                 \* see NoStaleDatagram

ASSUME WindowAssumption ==
  /\ RELIABLE_WINDOWS \in Nat \ {0}
  /\ RELIABLE_WINDOW_SIZE \in Nat \ {0}
  /\ FREE_RELIABLE_WINDOWS \in 3 .. RELIABLE_WINDOWS

ASSUME BoundAssumption ==
  /\ WindowSize \in Nat \ {0}
  /\ MaximumWaitingData \in Nat \ {0}
  /\ MaxPackets \in Nat
  /\ MaxUnsent \in Nat
  /\ MaxDatagrams \in Nat \ {0}
  /\ MaxAcks \in 1 .. MaxDatagrams
  /\ Lifetime \in Nat

VARIABLES
  (* the sending peer *)
  submitted,               \* number of packets accepted by enet_peer_send
  outgoing,                \* outgoingReliableCommands, front first
  sentReliable,            \* sentReliableCommands, front first
  attempted,               \* the outstanding commands with sendAttempts >= 1
  reliableWindows,         \* channel->reliableWindows
  usedReliableWindows,     \* channel->usedReliableWindows, the set bits
  reliableDataInTransit,   \* peer->reliableDataInTransit
  sending,                 \* the sending host is in a send pass
  (* the network *)
  dataNet,                 \* SEND_RELIABLE commands in flight
  ackNet,                  \* ACKNOWLEDGE commands in flight
  (* the receiving peer *)
  incomingReliableSequenceNumber,
  incomingReliable,        \* channel->incomingReliableCommands, front first
  dispatched,              \* peer->dispatchedCommands, front first
  acknowledgements,        \* peer->acknowledgements, a set: the whole list is
                           \* sent at once and the network reorders
  delivered                \* history: what enet_peer_receive returned

senderVars   == <<submitted, outgoing, sentReliable, attempted, reliableWindows,
                  usedReliableWindows, reliableDataInTransit, sending>>
networkVars  == <<dataNet, ackNet>>
receiverVars == <<incomingReliableSequenceNumber, incomingReliable, dispatched,
                  acknowledgements, delivered>>
vars == <<senderVars, networkVars, receiverVars>>

-----------------------------------------------------------------------------
(* Sequence numbers and windows. *)

Packets  == 1 .. MaxPackets
SeqSpace == RELIABLE_WINDOWS * RELIABLE_WINDOW_SIZE       \* 2^16 in the code
Windows  == 0 .. RELIABLE_WINDOWS - 1

Wire(i)   == i % SeqSpace
Window(q) == q \div RELIABLE_WINDOW_SIZE

\* Mutant: numbers compared as they are.
Unwrap_Plain(q, n) == q

\* A number below the last one received has wrapped around: it counts as one
\* of the next turn of the sequence space.
Unwrap(q, n) == IF q < n THEN q + SeqSpace ELSE q
UnwrappedWindow(q, n) ==
  IF q < n THEN Window(q) + RELIABLE_WINDOWS ELSE Window(q)

-----------------------------------------------------------------------------
(* The sending peer. *)

\* enet_peer_send with a reliable packet: number it and append the command.
Send ==
  /\ ~ sending
  /\ submitted < MaxPackets
  /\ Cardinality(ToSet(outgoing) \ attempted) < MaxUnsent
  /\ submitted' = submitted + 1
  /\ outgoing' = Append(outgoing, submitted + 1)
  /\ UNCHANGED <<sentReliable, attempted, reliableWindows, usedReliableWindows,
                 reliableDataInTransit, sending, networkVars, receiverVars>>

\* The first command of a window waits while the previous window is full of
\* unacknowledged commands or one of the next windows is in use.
WindowWrap(i) ==
  LET w == Window(Wire(i)) IN
  /\ i \notin attempted
  /\ Wire(i) % RELIABLE_WINDOW_SIZE = 0
  /\ \/ reliableWindows[(w + RELIABLE_WINDOWS - 1) % RELIABLE_WINDOWS]
          >= RELIABLE_WINDOW_SIZE
     \/ \E k \in 0 .. FREE_RELIABLE_WINDOWS - 1 :
          (w + k) % RELIABLE_WINDOWS \in usedReliableWindows

\* Assumption on the network and on the receiving host's delays: when packet i
\* is transmitted for the first time, no datagram about a packet numbered
\* i - Lifetime or less is in flight or still to be answered.
NoStaleDatagram(i) ==
  \A d \in dataNet \cup ackNet \cup acknowledgements : d > i - Lifetime

\* The longest lifetime, in packets, that the sequence space allows: a copy that
\* outlives it comes back as a new packet of the next turn.
LongestLifetime ==
  (RELIABLE_WINDOWS - FREE_RELIABLE_WINDOWS + 1) * RELIABLE_WINDOW_SIZE + 1

\* Datagrams enter a network; it drops others only when it is full.
Transmit(net, new, netNext) ==
  IF Cardinality(net \cup new) =< MaxDatagrams
  THEN netNext = net \cup new
  ELSE \E kept \in SUBSET net : /\ netNext = kept \cup new
                                /\ Cardinality(netNext) = MaxDatagrams

\* One turn of the loop of enet_protocol_send_reliable_outgoing_commands.  Both
\* skips (windowWrap, windowExceeded) hold for all later commands of the
\* channel too, so only the head of the list is ever sent.  packetThrottle
\* scales the limit anywhere between the mtu and windowSize.
Sendable ==
  /\ outgoing # <<>>
  /\ ~ WindowWrap(Head(outgoing))
  /\ reliableDataInTransit + 1 =< WindowSize

SendReliable ==
  /\ sending
  /\ Sendable
  /\ LET i == Head(outgoing)
         w == Window(Wire(i)) IN
     /\ i \in attempted \/ NoStaleDatagram(i)
     /\ IF i \in attempted
        THEN UNCHANGED <<attempted, reliableWindows, usedReliableWindows>>
        ELSE /\ attempted' = attempted \cup {i}
             /\ reliableWindows' = [reliableWindows EXCEPT ![w] = @ + 1]
             /\ usedReliableWindows' = usedReliableWindows \cup {w}
     /\ sentReliable' = Append(sentReliable, i)
     /\ outgoing' = Tail(outgoing)
     /\ reliableDataInTransit' = reliableDataInTransit + 1
     /\ Transmit(dataNet, {i}, dataNet')
  /\ UNCHANGED <<submitted, sending, ackNet, receiverVars>>

\* A pass goes on (continueSending) until nothing more may be sent; it ends
\* early when enet_socket_send fails.
EndPass ==
  /\ sending
  /\ ~ Sendable
  /\ sending' = FALSE
  /\ UNCHANGED <<submitted, outgoing, sentReliable, attempted, reliableWindows,
                 usedReliableWindows, reliableDataInTransit, networkVars,
                 receiverVars>>

SocketError ==
  /\ sending
  /\ Sendable
  /\ sending' = FALSE
  /\ UNCHANGED <<submitted, outgoing, sentReliable, attempted, reliableWindows,
                 usedReliableWindows, reliableDataInTransit, networkVars,
                 receiverVars>>

\* The positions in E in increasing order: one sequence.
InOrder(E) ==
  {f \in [1 .. Cardinality(E) -> E] : \A j, k \in DOMAIN f : j < k => f[j] < f[k]}

\* The commands of s at the positions f.
Picked(s, f) == [k \in DOMAIN f |-> s[f[k]]]

\* Mutant: the commands that timed out go behind those never sent.
CheckTimeouts_Behind(expired) ==
  /\ ~ sending
  /\ sending' = TRUE
  /\ \E late \in InOrder(expired), rest \in InOrder(DOMAIN sentReliable \ expired) :
       /\ outgoing' = outgoing \o Picked(sentReliable, late)
       /\ sentReliable' = Picked(sentReliable, rest)
  /\ reliableDataInTransit' = reliableDataInTransit - Cardinality(expired)
  /\ UNCHANGED <<submitted, attempted, reliableWindows, usedReliableWindows,
                 networkVars, receiverVars>>

\* enet_protocol_check_timeouts, at the beginning of a pass: the commands whose
\* timeout expired (any of them, the timeouts differ) go back, in their order,
\* before the front of outgoingReliableCommands.
CheckTimeouts(expired) ==
  /\ ~ sending
  /\ sending' = TRUE
  /\ \E late \in InOrder(expired), rest \in InOrder(DOMAIN sentReliable \ expired) :
       /\ outgoing' = Picked(sentReliable, late) \o outgoing
       /\ sentReliable' = Picked(sentReliable, rest)
  /\ reliableDataInTransit' = reliableDataInTransit - Cardinality(expired)
  /\ UNCHANGED <<submitted, attempted, reliableWindows, usedReliableWindows,
                 networkVars, receiverVars>>

\* Where enet_protocol_remove_sent_reliable_command finds wire number q: the
\* first match of sentReliableCommands, else the first match among the
\* retransmissions at the front of outgoingReliableCommands.
FoundSent(q) == {p \in DOMAIN sentReliable : Wire(sentReliable[p]) = q}
FoundOutgoing(q) ==
  {p \in DOMAIN outgoing : /\ Wire(outgoing[p]) = q
                           /\ \A r \in 1 .. p : outgoing[r] \in attempted}
First(S) == CHOOSE p \in S : \A r \in S : p =< r

\* Mutant: the used bit is tested before the decrement.
Forget_BitLate(i, q) ==
  LET w == Window(q) IN
  /\ attempted' = attempted \ {i}
  /\ IF reliableWindows[w] > 0
     THEN /\ reliableWindows' = [reliableWindows EXCEPT ![w] = @ - 1]
          /\ UNCHANGED usedReliableWindows
     ELSE /\ usedReliableWindows' = usedReliableWindows \ {w}
          /\ UNCHANGED reliableWindows

\* The accounting of a removed command i whose wire number is q.
Forget(i, q) ==
  LET w == Window(q) IN
  /\ attempted' = attempted \ {i}
  /\ IF reliableWindows[w] > 0
     THEN /\ reliableWindows' = [reliableWindows EXCEPT ![w] = @ - 1]
          /\ usedReliableWindows' = IF reliableWindows[w] = 1
                                    THEN usedReliableWindows \ {w}
                                    ELSE usedReliableWindows
     ELSE UNCHANGED <<reliableWindows, usedReliableWindows>>

RemoveSentReliable(q) ==
  \/ /\ FoundSent(q) # {}
     /\ LET p == First(FoundSent(q)) IN
        /\ sentReliable' = RemoveAt(sentReliable, p)
        /\ reliableDataInTransit' = reliableDataInTransit - 1
        /\ Forget(sentReliable[p], q)
     /\ UNCHANGED outgoing
  \/ /\ FoundSent(q) = {}
     /\ FoundOutgoing(q) # {}
     /\ LET p == First(FoundOutgoing(q)) IN
        /\ outgoing' = RemoveAt(outgoing, p)
        /\ Forget(outgoing[p], q)
     /\ UNCHANGED <<sentReliable, reliableDataInTransit>>
  \/ /\ FoundSent(q) \cup FoundOutgoing(q) = {}
     /\ UNCHANGED <<outgoing, sentReliable, attempted, reliableWindows,
                    usedReliableWindows, reliableDataInTransit>>

\* An acknowledgement arrives; the network may keep a second copy of it.
HandleAcknowledge(i) ==
  /\ ~ sending
  /\ i \in ackNet
  /\ RemoveSentReliable(Wire(i))
  /\ ackNet' \in {ackNet, ackNet \ {i}}
  /\ UNCHANGED <<submitted, sending, dataNet, receiverVars>>

-----------------------------------------------------------------------------
(* The receiving peer. *)

\* enet_peer_queue_incoming_command looks from the back of the list for the
\* last command that is not after q.
LastNotAfter(q) ==
  LET n == incomingReliableSequenceNumber
      S == {p \in DOMAIN incomingReliable :
              Unwrap(Wire(incomingReliable[p]), n) =< Unwrap(q, n)}
  IN IF S = {} THEN 0 ELSE CHOOSE p \in S : \A r \in S : r =< p

AcceptedWindow(q) ==
  LET n == incomingReliableSequenceNumber IN
  /\ UnwrappedWindow(q, n) >= Window(n)
  /\ UnwrappedWindow(q, n) < Window(n) + FREE_RELIABLE_WINDOWS - 1

\* Mutant: the receive window is not looked at.
Discard_AnyWindow(q) ==
  \/ q = incomingReliableSequenceNumber
  \/ LastNotAfter(q) # 0 /\ Wire(incomingReliable[LastNotAfter(q)]) = q

Discard(q) ==
  \/ ~ AcceptedWindow(q)
  \/ q = incomingReliableSequenceNumber
  \/ LastNotAfter(q) # 0 /\ Wire(incomingReliable[LastNotAfter(q)]) = q

\* Mutant: gaps are not looked for.
Ready_Gaps(s, n) == Len(s)

\* enet_peer_dispatch_incoming_reliable_commands: how many commands at the
\* front of list s continue the stream after number n.
Ready(s, n) ==
  CHOOSE k \in 0 .. Len(s) :
    /\ \A p \in 1 .. k : Wire(s[p]) = Wire(n + p)
    /\ k < Len(s) => Wire(s[k + 1]) # Wire(n + k + 1)

\* Mutant: the sequence number is wider than 16 bits.
Accept_Wide(i) ==
  LET s == InsertAt(incomingReliable, LastNotAfter(Wire(i)) + 1, i)
      k == Ready(s, incomingReliableSequenceNumber) IN
  /\ incomingReliable' = SubSeq(s, k + 1, Len(s))
  /\ dispatched' = dispatched \o SubSeq(s, 1, k)
  /\ incomingReliableSequenceNumber' = incomingReliableSequenceNumber + k

Accept(i) ==
  LET q == Wire(i)
      s == InsertAt(incomingReliable, LastNotAfter(q) + 1, i)
      k == Ready(s, incomingReliableSequenceNumber) IN
  /\ incomingReliable' = SubSeq(s, k + 1, Len(s))
  /\ dispatched' = dispatched \o SubSeq(s, 1, k)
  /\ incomingReliableSequenceNumber' = Wire(incomingReliableSequenceNumber + k)

\* Mutant: one window too few.
AckSuppressed_OffByOne(q, n) ==
  /\ UnwrappedWindow(q, n) > Window(n) + FREE_RELIABLE_WINDOWS - 1
  /\ UnwrappedWindow(q, n) =< Window(n) + FREE_RELIABLE_WINDOWS

\* enet_peer_queue_acknowledgement: no acknowledgement for the two windows past
\* the accepted ones.
AckSuppressed(q, n) ==
  /\ UnwrappedWindow(q, n) >= Window(n) + FREE_RELIABLE_WINDOWS - 1
  /\ UnwrappedWindow(q, n) =< Window(n) + FREE_RELIABLE_WINDOWS

QueueAcknowledgement(i, n) ==
  acknowledgements' = IF AckSuppressed(Wire(i), n)
                      THEN acknowledgements
                      ELSE acknowledgements \cup {i}

totalWaitingData == Len(incomingReliable) + Len(dispatched)

\* A SEND_RELIABLE command arrives (the network may keep a second copy).  It is
\* discarded, refused for lack of room (then the handler fails and nothing is
\* acknowledged), or queued and dispatched; the acknowledgement is decided
\* with the sequence number as it is after that.
HandleSendReliable(i) ==
  /\ i \in dataNet
  /\ Cardinality(acknowledgements \cup {i}) =< MaxAcks
  /\ dataNet' \in {dataNet, dataNet \ {i}}
  /\ \/ /\ Discard(Wire(i))
        /\ UNCHANGED <<incomingReliable, dispatched,
                       incomingReliableSequenceNumber>>
        /\ QueueAcknowledgement(i, incomingReliableSequenceNumber)
     \/ /\ ~ Discard(Wire(i))
        /\ totalWaitingData >= MaximumWaitingData
        /\ UNCHANGED <<incomingReliable, dispatched,
                       incomingReliableSequenceNumber, acknowledgements>>
     \/ /\ ~ Discard(Wire(i))
        /\ totalWaitingData < MaximumWaitingData
        /\ Accept(i)
        /\ QueueAcknowledgement(i, incomingReliableSequenceNumber')
  /\ UNCHANGED <<senderVars, ackNet, delivered>>

\* enet_protocol_send_acknowledgements empties the list.
SendAcknowledgements ==
  /\ acknowledgements # {}
  /\ acknowledgements' = {}
  /\ Transmit(ackNet, acknowledgements, ackNet')
  /\ UNCHANGED <<senderVars, dataNet, incomingReliableSequenceNumber,
                 incomingReliable, dispatched, delivered>>

\* enet_peer_receive.
Receive ==
  /\ dispatched # <<>>
  /\ dispatched' = Tail(dispatched)
  /\ delivered' = Append(delivered, Head(dispatched))
  /\ UNCHANGED <<senderVars, networkVars, incomingReliableSequenceNumber,
                 incomingReliable, acknowledgements>>

-----------------------------------------------------------------------------
(* The network. *)

LoseData ==
  /\ \E i \in dataNet : dataNet' = dataNet \ {i}
  /\ UNCHANGED <<senderVars, ackNet, receiverVars>>

LoseAck ==
  /\ \E i \in ackNet : ackNet' = ackNet \ {i}
  /\ UNCHANGED <<senderVars, dataNet, receiverVars>>

-----------------------------------------------------------------------------
Init ==
  /\ submitted = 0
  /\ outgoing = <<>>
  /\ sentReliable = <<>>
  /\ attempted = {}
  /\ reliableWindows = [w \in Windows |-> 0]
  /\ usedReliableWindows = {}
  /\ reliableDataInTransit = 0
  /\ sending = FALSE
  /\ dataNet = {}
  /\ ackNet = {}
  /\ incomingReliableSequenceNumber = 0
  /\ incomingReliable = <<>>
  /\ dispatched = <<>>
  /\ acknowledgements = {}
  /\ delivered = <<>>

NextNoError ==
  \/ Send
  \/ \E expired \in SUBSET DOMAIN sentReliable : CheckTimeouts(expired)
  \/ SendReliable
  \/ EndPass
  \/ \E i \in Packets : HandleAcknowledge(i)
  \/ \E i \in Packets : HandleSendReliable(i)
  \/ SendAcknowledgements
  \/ Receive
  \/ LoseData
  \/ LoseAck

Next == NextNoError \/ SocketError

Spec == Init /\ [][Next]_vars

-----------------------------------------------------------------------------
(* Properties. *)

\* Every list holds packets that were submitted, and the counters stay in the
\* ranges of their C types.
TypeOK ==
  /\ submitted \in 0 .. MaxPackets
  /\ outgoing \in Seq(Packets)
  /\ sentReliable \in Seq(Packets)
  /\ attempted \subseteq Packets
  /\ reliableWindows \in [Windows -> Nat]
  /\ usedReliableWindows \subseteq Windows
  /\ reliableDataInTransit \in Nat
  /\ sending \in BOOLEAN
  /\ dataNet \subseteq Packets
  /\ ackNet \subseteq Packets
  /\ incomingReliableSequenceNumber \in 0 .. SeqSpace - 1
  /\ incomingReliable \in Seq(Packets)
  /\ dispatched \in Seq(Packets)
  /\ acknowledgements \subseteq Packets
  /\ delivered \in Seq(Packets)

outstanding == ToSet(outgoing) \cup ToSet(sentReliable)
accepted    == Len(delivered) + Len(dispatched)

\* A packet the sender no longer keeps, because an acknowledgement removed it,
\* is one the receiver accepted: handed out, dispatched, or waiting for an
\* earlier one.  This is what the sender's window gate (protocol.cpp:1488), the
\* receiver's window (peer.cpp:848) and the suppressed acknowledgements
\* (peer.cpp:599) have to achieve together: the receiver acknowledges some
\* packets that it discards.
AcknowledgedMeansAccepted ==
  \A i \in 1 .. submitted :
    i \notin outstanding => i =< accepted \/ i \in ToSet(incomingReliable)

\* The retransmissions in outgoingReliableCommands precede all commands that
\* were never sent.  enet_protocol_remove_sent_reliable_command gives up at the
\* first command that was never sent (protocol.cpp:215) and relies on it.
RetransmitsFirst ==
  \A p, r \in DOMAIN outgoing :
    p < r /\ outgoing[r] \in attempted => outgoing[p] \in attempted

\* The sender's flow control counters agree with its lists: each window counts
\* its unacknowledged commands, the bit set is the set of non-zero counts, and
\* only the commands in sentReliableCommands are in transit, across timeouts,
\* retransmissions and acknowledgements of either list.
FlowAccounting ==
  /\ \A w \in Windows :
       reliableWindows[w] =
         Cardinality({i \in attempted : Window(Wire(i)) = w})
  /\ usedReliableWindows = {w \in Windows : reliableWindows[w] > 0}
  /\ reliableDataInTransit = Len(sentReliable)

\* The commands waiting for an earlier one are in the order of submission,
\* ahead of what was accepted, and the next one of the stream is not among
\* them: nothing that could be dispatched is left waiting.
WaitingOrdered ==
  /\ \A p, r \in DOMAIN incomingReliable :
       p < r => incomingReliable[p] < incomingReliable[r]
  /\ \A p \in DOMAIN incomingReliable : incomingReliable[p] > accepted + 1

\* What was handed out or is ready to be is the stream as submitted, and the
\* receiver's sequence number is that of its last packet.
AcceptedInOrder ==
  /\ delivered \o dispatched = [k \in 1 .. accepted |-> k]
  /\ incomingReliableSequenceNumber = Wire(accepted)

\* The channel delivers each packet once and in order, whatever the network
\* loses, duplicates or reorders.
Stream == INSTANCE ReliableStream
RefinesStream == Stream!Spec

\* The conditions under which a channel can be expected to make progress: both
\* hosts call enet_host_service again and again and their sockets work, so that
\* passes begin and end and every timeout expires; the receiving application
\* calls enet_peer_receive again and again; and a command that is transmitted
\* again and again gets through.
TimesOut(i) ==
  \E expired \in SUBSET DOMAIN sentReliable :
    /\ i \in {sentReliable[p] : p \in expired}
    /\ CheckTimeouts(expired)

FairnessFor(S) ==
  /\ WF_vars(SendReliable)
  /\ WF_vars(EndPass)
  /\ WF_vars(CheckTimeouts({}))
  /\ WF_vars(SendAcknowledgements)
  /\ WF_vars(Receive)
  /\ \A i \in S : /\ SF_vars(TimesOut(i))
                  /\ SF_vars(HandleSendReliable(i))
                  /\ SF_vars(HandleAcknowledge(i))

FairSpec == Init /\ [][NextNoError]_vars /\ FairnessFor(Packets)

\* A reliable packet is received by the remote application, as enet.h:126 says
\* of ENET_PACKET_FLAG_RELIABLE ("packet must be received by the target peer and
\* resend attempts should be made until the packet is delivered").
EventuallyDelivered ==
  \A i \in Packets : (submitted >= i) ~> (Len(delivered) >= i)
=============================================================================
