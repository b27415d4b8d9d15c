---------------------------- MODULE EnetDelivery ----------------------------
(***************************************************************************)
(* Packets of all kinds on one channel of a connected ENet peer, in one    *)
(* direction: how enet_peer_send numbers and fragments them, what the      *)
(* packet throttle drops on the way out, and how the receiving peer sorts, *)
(* reassembles, drops and dispatches what arrives.                         *)
(*                                                                         *)
(* EnetChannel models the retransmission of reliable commands in detail.   *)
(* Here such a command may arrive at any time after it was queued, any     *)
(* number of times; so may any other command after it was transmitted.     *)
(* Losing a command is never receiving it.  A datagram carries one         *)
(* command.  Commands that a handler ignores change nothing and are no     *)
(* steps of the model.                                                     *)
(*                                                                         *)
(* Numbers are kept as they would be without a limit; every test that the  *)
(* code makes is a test of wire numbers.  Lengths are counted in           *)
(* fragments.                                                              *)
(***************************************************************************)
EXTENDS Integers, Sequences, FiniteSets, SequencesExt

CONSTANTS
  RELIABLE_WINDOWS,        \* ENET_PEER_RELIABLE_WINDOWS (16)
  RELIABLE_WINDOW_SIZE,    \* ENET_PEER_RELIABLE_WINDOW_SIZE (0x1000)
  FREE_RELIABLE_WINDOWS,   \* ENET_PEER_FREE_RELIABLE_WINDOWS (8)
  UNSEQUENCED_WINDOWS,     \* ENET_PEER_UNSEQUENCED_WINDOWS (64)
  UNSEQUENCED_WINDOW_SIZE, \* ENET_PEER_UNSEQUENCED_WINDOW_SIZE (1024)
  FREE_UNSEQUENCED_WINDOWS,\* ENET_PEER_FREE_UNSEQUENCED_WINDOWS (32)
  UnreliableLimit,         \* the last unreliable sequence number (0xFFFF)
  MaximumWaitingData,      \* host->maximumWaitingData, in fragments
  Kinds,                   \* the kinds of packets submitted, see KindType
  ReliableBefore,          \* reliable numbers used before the first state
  UnsequencedBefore,       \* unsequenced groups used before the first state
  MaxPackets,              \* bound: packets the application submits
  MaxInFragments           \* bound: those sent in unreliable fragments

\* The flags of a packet and how many fragments its data would fill.
KindType == [reliable : BOOLEAN, unsequenced : BOOLEAN,
             unreliableFragment : BOOLEAN, fragments : Nat \ {0}]

ASSUME DeliveryAssumption ==
  /\ RELIABLE_WINDOWS \in Nat \ {0}
  /\ RELIABLE_WINDOW_SIZE \in Nat \ {0}
  /\ FREE_RELIABLE_WINDOWS \in 2 .. RELIABLE_WINDOWS
  /\ UNSEQUENCED_WINDOWS \in Nat \ {0}
  /\ UNSEQUENCED_WINDOW_SIZE \in Nat \ {0}
  /\ FREE_UNSEQUENCED_WINDOWS \in 1 .. UNSEQUENCED_WINDOWS
  /\ UnreliableLimit \in Nat \ {0}
  /\ MaximumWaitingData \in Nat \ {0}
  /\ \A k \in Kinds : k \in KindType
  /\ ReliableBefore \in Nat
  /\ UnsequencedBefore \in Nat
  /\ MaxPackets \in Nat
  /\ MaxInFragments \in Nat

VARIABLES
  (* the sending peer *)
  submitted,               \* history: the kinds of the packets accepted by
                           \* enet_peer_send; a packet is its position here
  outgoingReliableSequenceNumber,
  outgoingUnreliableSequenceNumber,
  outgoingUnsequencedGroup,
  outgoingUnreliable,      \* peer->outgoingUnreliableCommands, front first
  sentUnreliable,          \* peer->sentUnreliableCommands, front first
  referenceCount,          \* packet->referenceCount
  freed,                   \* the packets destroyed
  network,                 \* the commands that may arrive
  (* the receiving peer *)
  incomingReliableSequenceNumber,
  incomingUnreliableSequenceNumber,
  incomingReliable,        \* channel->incomingReliableCommands, front first
  incomingUnreliable,      \* channel->incomingUnreliableCommands, front first
  incomingUnsequencedGroup,
  unsequencedWindow,       \* peer->unsequencedWindow, the set bits
  totalWaitingData,
  dispatched,              \* peer->dispatchedCommands, front first
  droppedData,             \* history: data of the commands removed undelivered
  delivered                \* history: what enet_peer_receive returned

numberVars   == <<outgoingReliableSequenceNumber,
                  outgoingUnreliableSequenceNumber, outgoingUnsequencedGroup>>
queueVars    == <<outgoingUnreliable, sentUnreliable, referenceCount, freed>>
senderVars   == <<submitted, numberVars, queueVars, network>>
channelVars  == <<incomingReliableSequenceNumber,
                  incomingUnreliableSequenceNumber, incomingReliable,
                  incomingUnreliable, dispatched, droppedData>>
groupVars    == <<incomingUnsequencedGroup, unsequencedWindow>>
receiverVars == <<channelVars, groupVars, totalWaitingData, delivered>>
vars         == <<senderVars, receiverVars>>

Packets == 1 .. MaxPackets

-----------------------------------------------------------------------------
(* Sequence numbers and windows. *)

SeqSpace   == RELIABLE_WINDOWS * RELIABLE_WINDOW_SIZE         \* 2^16 in the code
GroupSpace == UNSEQUENCED_WINDOWS * UNSEQUENCED_WINDOW_SIZE   \* 2^16 in the code

Wire(i)   == i % SeqSpace
Window(q) == q \div RELIABLE_WINDOW_SIZE

\* Mutant: numbers compared as they are.
Unwrap_Plain(q, n) == q

\* A number below the last one received has wrapped around: it counts as one
\* of the next turn of the sequence space.
Unwrap(q, n) == IF q < n THEN q + SeqSpace ELSE q

AcceptedWindow(q) ==
  LET n == Wire(incomingReliableSequenceNumber)
      w == IF q < n THEN Window(q) + RELIABLE_WINDOWS ELSE Window(q) IN
  /\ w >= Window(n)
  /\ w < Window(n) + FREE_RELIABLE_WINDOWS - 1

-----------------------------------------------------------------------------
(* The sending peer. *)

ReliableTypes   == {"SEND_RELIABLE", "SEND_FRAGMENT"}
UnreliableTypes == {"SEND_UNRELIABLE", "SEND_UNRELIABLE_FRAGMENT"}
FragmentTypes   == {"SEND_FRAGMENT", "SEND_UNRELIABLE_FRAGMENT"}

\* The command that carries fragment f of packet i (the whole packet when count
\* is 0).  number is the startSequenceNumber, unreliableSequenceNumber or
\* unsequencedGroup of the command, if it has one.
Command(i, type, reliable, number, f, count) ==
  [packet |-> i, type |-> type, reliable |-> reliable, number |-> number,
   fragment |-> f, count |-> count]

\* Mutant: the end of the unreliable numbers is not looked for.
NumbersLeft_Unlimited == TRUE

\* Unreliable numbers are used up: what should be sent unreliably is sent
\* reliably until a reliable packet starts the next series.
NumbersLeft == outgoingUnreliableSequenceNumber < UnreliableLimit

\* The command type enet_peer_send chooses.
TypeFor(k) ==
  CASE k.fragments > 1 /\ ~ k.reliable /\ k.unreliableFragment /\ NumbersLeft
         -> "SEND_UNRELIABLE_FRAGMENT"
    [] k.fragments > 1 /\ ~ (~ k.reliable /\ k.unreliableFragment /\ NumbersLeft)
         -> "SEND_FRAGMENT"
    [] k.fragments = 1 /\ k.unsequenced /\ ~ k.reliable
         -> "SEND_UNSEQUENCED"
    [] k.fragments = 1 /\ (k.reliable \/ (~ k.unsequenced /\ ~ NumbersLeft))
         -> "SEND_RELIABLE"
    [] OTHER -> "SEND_UNRELIABLE"

\* The commands of packet i of kind k, numbered by
\* enet_peer_setup_outgoing_command one after the other.
CommandsFor(i, k) ==
  LET r == outgoingReliableSequenceNumber
      u == outgoingUnreliableSequenceNumber + 1
      type == TypeFor(k) IN
  CASE type = "SEND_UNRELIABLE_FRAGMENT" ->
         [f \in 1 .. k.fragments |->
            Command(i, type, r, u, f - 1, k.fragments)]
    [] type = "SEND_FRAGMENT" ->
         [f \in 1 .. k.fragments |->
            Command(i, type, r + f, r + 1, f - 1, k.fragments)]
    [] type = "SEND_UNSEQUENCED" ->
         <<Command(i, type, 0, outgoingUnsequencedGroup + 1, 0, 0)>>
    [] type = "SEND_RELIABLE" -> <<Command(i, type, r + 1, 0, 0, 0)>>
    [] OTHER -> <<Command(i, type, r, u, 0, 0)>>

SetupReliable(cs) ==
  /\ outgoingReliableSequenceNumber' = outgoingReliableSequenceNumber + Len(cs)
  /\ outgoingUnreliableSequenceNumber' = 0
  /\ network' = network \cup ToSet(cs)
  /\ UNCHANGED <<outgoingUnsequencedGroup, outgoingUnreliable>>

SetupUnsequenced(cs) ==
  /\ outgoingUnsequencedGroup' = outgoingUnsequencedGroup + 1
  /\ outgoingUnreliable' = outgoingUnreliable \o cs
  /\ UNCHANGED <<outgoingReliableSequenceNumber,
                 outgoingUnreliableSequenceNumber, network>>

\* All fragments of a packet share the number of the first one.
SetupUnreliable(cs) ==
  /\ outgoingUnreliableSequenceNumber' = outgoingUnreliableSequenceNumber + 1
  /\ outgoingUnreliable' = outgoingUnreliable \o cs
  /\ UNCHANGED <<outgoingReliableSequenceNumber, outgoingUnsequencedGroup,
                 network>>

InFragments ==
  Cardinality({j \in DOMAIN submitted :
                 submitted[j].unreliableFragment /\ submitted[j].fragments > 1})

\* Assumption on the application: it never queues a packet with numbers a whole
\* turn ahead of what the receiver has dispatched.  enet_peer_send has no such
\* test, and the window gate of the send pass (protocol.cpp:1488) does not stand
\* in for it: it holds reliable commands back, not the unreliable ones that are
\* numbered behind them.
LessThanATurnAhead(k) ==
  outgoingReliableSequenceNumber + k.fragments
    < incomingReliableSequenceNumber + SeqSpace

\* enet_peer_send of a packet of kind k.  The application calls it between the
\* send passes of its host.
Send(k) ==
  LET i  == Len(submitted) + 1
      cs == CommandsFor(i, k) IN
  /\ i \in Packets
  /\ sentUnreliable = <<>>
  /\ LessThanATurnAhead(k)
  /\ TypeFor(k) = "SEND_UNRELIABLE_FRAGMENT" => InFragments < MaxInFragments
  /\ submitted' = Append(submitted, k)
  /\ CASE TypeFor(k) \in ReliableTypes   -> SetupReliable(cs)
       [] TypeFor(k) \in UnreliableTypes -> SetupUnreliable(cs)
       [] OTHER                          -> SetupUnsequenced(cs)
  /\ referenceCount' = [referenceCount EXCEPT ![i] = @ + Len(cs)]
  /\ UNCHANGED <<sentUnreliable, freed, receiverVars>>

\* How many commands of the list cs refer to packet i.
Held(i, cs) == Cardinality({p \in DOMAIN cs : cs[p].packet = i})

\* The commands cs let go of their packets; the last one destroys the packet.
Release(cs) ==
  /\ referenceCount' = [i \in Packets |-> referenceCount[i] - Held(i, cs)]
  /\ freed' = freed \cup {i \in Packets : /\ Held(i, cs) > 0
                                          /\ referenceCount[i] = Held(i, cs)}

\* outgoingCommand's reliableSequenceNumber and unreliableSequenceNumber.
OutgoingNumbers(c) ==
  IF c.type = "SEND_UNSEQUENCED" THEN <<0, 0>> ELSE <<Wire(c.reliable), c.number>>

\* One turn of the loop of enet_protocol_send_unreliable_outgoing_commands: the
\* packet throttle lets the command pass.
SendUnreliable ==
  /\ outgoingUnreliable # <<>>
  /\ LET c == Head(outgoingUnreliable) IN
     /\ network' = network \cup {c}
     /\ sentUnreliable' = Append(sentUnreliable, c)
  /\ outgoingUnreliable' = Tail(outgoingUnreliable)
  /\ UNCHANGED <<submitted, numberVars, referenceCount, freed, receiverVars>>

\* Mutant: only the first fragment is dropped.
ThrottledWith_First(s) == 1

\* The other commands that go with the first one: those behind it with the same
\* numbers.  For an unsequenced command, these are all that follow at once.
ThrottledWith(s) ==
  CHOOSE m \in 1 .. Len(s) :
    /\ \A p \in 1 .. m : OutgoingNumbers(s[p]) = OutgoingNumbers(s[1])
    /\ m < Len(s) => OutgoingNumbers(s[m + 1]) # OutgoingNumbers(s[1])

\* Mutant: one reference is given back for all dropped commands.
Throttle_OneReference ==
  /\ outgoingUnreliable # <<>>
  /\ Head(outgoingUnreliable).fragment = 0
  /\ LET m == ThrottledWith(outgoingUnreliable) IN
     /\ Release(SubSeq(outgoingUnreliable, 1, 1))
     /\ outgoingUnreliable' =
          SubSeq(outgoingUnreliable, m + 1, Len(outgoingUnreliable))
  /\ UNCHANGED <<submitted, numberVars, sentUnreliable, network, receiverVars>>

\* The throttle (packetThrottleCounter against packetThrottle, any outcome)
\* looks at the first command of a packet only, and drops all of them.
Throttle ==
  /\ outgoingUnreliable # <<>>
  /\ Head(outgoingUnreliable).fragment = 0
  /\ LET m == ThrottledWith(outgoingUnreliable) IN
     /\ Release(SubSeq(outgoingUnreliable, 1, m))
     /\ outgoingUnreliable' =
          SubSeq(outgoingUnreliable, m + 1, Len(outgoingUnreliable))
  /\ UNCHANGED <<submitted, numberVars, sentUnreliable, network, receiverVars>>

\* enet_socket_send took the datagram (or failed):
\* enet_protocol_remove_sent_unreliable_commands.
DatagramSent ==
  /\ sentUnreliable # <<>>
  /\ Release(sentUnreliable)
  /\ sentUnreliable' = <<>>
  /\ UNCHANGED <<submitted, numberVars, outgoingUnreliable, network,
                 receiverVars>>

-----------------------------------------------------------------------------
(* The incoming commands of the channel. *)

\* What enet_peer_queue_incoming_command makes of command c.  fragments holds
\* the bits set so far, each with the packet its data came from.
Incoming(c) ==
  [packet    |-> c.packet,
   type      |-> c.type,
   reliable  |-> IF c.type = "SEND_FRAGMENT" THEN c.number ELSE c.reliable,
   number    |-> IF c.type \in UnreliableTypes THEN c.number ELSE 0,
   count     |-> c.count,
   fragments |-> {}]

fragmentsRemaining(e) == e.count - Cardinality(e.fragments)
Length(e)             == IF e.count = 0 THEN 1 ELSE e.count
DataLength(s) ==
  LET sum[p \in 0 .. Len(s)] ==
        IF p = 0 THEN 0 ELSE sum[p - 1] + Length(s[p])
  IN sum[Len(s)]

\* The commands of list s at the positions P, in the order of the list.
At(s, P) ==
  LET at[p \in 0 .. Len(s)] ==
        IF p = 0 THEN <<>>
        ELSE IF p \in P THEN Append(at[p - 1], s[p]) ELSE at[p - 1]
  IN at[Len(s)]

\* The order of both lists, while n was received last.
NotAfter(e, f, n) ==
  LET a == Unwrap(Wire(e.reliable), n)
      b == Unwrap(Wire(f.reliable), n) IN
  a < b \/ (a = b /\ e.number =< f.number)

\* The search from the back of list s for the last command not after e.
LastNotAfter(s, e) ==
  LET n == Wire(incomingReliableSequenceNumber)
      P == {p \in DOMAIN s : NotAfter(s[p], e, n)} IN
  IF P = {} THEN 0 ELSE CHOOSE p \in P : \A r \in P : r =< p

\* Mutant: unreliable numbers are taken for unique.
SameNumbers_NumberOnly(e, f) == e.number = f.number

SameNumbers(e, f) ==
  Wire(e.reliable) = Wire(f.reliable) /\ e.number = f.number

\* The command of list s that has the numbers of e.
HasTwin(s, e) == LET p == LastNotAfter(s, e) IN p # 0 /\ SameNumbers(s[p], e)
TwinOf(s, e)  == LastNotAfter(s, e)

\* A channel as the dispatch functions see it; out are the commands moved to
\* dispatchedCommands and dropped the data of the commands removed.
Channel ==
  [reliableNumber   |-> incomingReliableSequenceNumber,
   unreliableNumber |-> incomingUnreliableSequenceNumber,
   reliable         |-> incomingReliable,
   unreliable       |-> incomingUnreliable,
   out              |-> <<>>,
   dropped          |-> 0]

Becomes(ch) ==
  /\ incomingReliableSequenceNumber' = ch.reliableNumber
  /\ incomingUnreliableSequenceNumber' = ch.unreliableNumber
  /\ incomingReliable' = ch.reliable
  /\ incomingUnreliable' = ch.unreliable
  /\ dispatched' = dispatched \o ch.out
  /\ droppedData' = droppedData + ch.dropped

\* How enet_peer_dispatch_incoming_unreliable_commands sees command e while n
\* was received last.
Current(e, n) ==
  e.type # "SEND_UNSEQUENCED" /\ Wire(e.reliable) = Wire(n)
Finished(e, n) ==
  e.type = "SEND_UNSEQUENCED" \/ (Current(e, n) /\ fragmentsRemaining(e) =< 0)
Partial(e, n) == Current(e, n) /\ fragmentsRemaining(e) > 0
Early(e, n) ==
  LET q == Wire(e.reliable)
      w == IF q < Wire(n) THEN Window(q) + RELIABLE_WINDOWS ELSE Window(q) IN
  /\ e.type # "SEND_UNSEQUENCED"
  /\ q # Wire(n)
  /\ w >= Window(Wire(n))
  /\ w < Window(Wire(n)) + FREE_RELIABLE_WINDOWS - 1

\* Mutant: the partial command before the last one is removed.
Kept_LastOnly(s, end, n) == {p \in {end} \cap DOMAIN s : Partial(s[p], n)}

\* What a walk to position end keeps of the commands it passes: a partial one at
\* the end and, when it is partial too, the one before that.
Kept(s, end, n) ==
  {p \in {end - 1, end} \cap DOMAIN s : \A r \in p .. end : Partial(s[r], n)}

\* The walk ends at the first early command.  Of those before it, the finished
\* ones are dispatched, and the others removed unless they are kept.
DispatchUnreliable(ch) ==
  LET s == ch.unreliable
      n == ch.reliableNumber
      E == {p \in DOMAIN s : Early(s[p], n)}
      end == IF E = {} THEN Len(s) ELSE (CHOOSE p \in E : \A r \in E : p =< r) - 1
      F == {p \in 1 .. end : Finished(s[p], n)}
      K == Kept(s, end, n)
      N == {p \in F : s[p].type # "SEND_UNSEQUENCED"}
  IN [ch EXCEPT
        !.unreliable = At(s, K \cup (end + 1 .. Len(s))),
        !.unreliableNumber =
          IF N = {} THEN @ ELSE s[CHOOSE p \in N : \A r \in N : r =< p].number,
        !.out = @ \o At(s, F),
        !.dropped = @ + DataLength(At(s, (1 .. end) \ (F \cup K)))]

\* The reliable number after the first k commands of list s.
NumberAfter(s, k, n) ==
  IF k = 0 THEN n
  ELSE s[k].reliable + (IF s[k].count > 0 THEN s[k].count - 1 ELSE 0)

\* How many commands at the front of s continue the stream after number n.
Continues(s, p, n) ==
  /\ fragmentsRemaining(s[p]) =< 0
  /\ Wire(s[p].reliable) = Wire(NumberAfter(s, p - 1, n) + 1)
Ready(s, n) ==
  CHOOSE k \in 0 .. Len(s) :
    /\ \A p \in 1 .. k : Continues(s, p, n)
    /\ k < Len(s) => ~ Continues(s, k + 1, n)

\* Mutant: the unreliable packets that waited for this are forgotten.
DispatchReliable_Only(ch) ==
  LET k == Ready(ch.reliable, ch.reliableNumber) IN
  IF k = 0 THEN ch
  ELSE [ch EXCEPT
          !.reliableNumber = NumberAfter(ch.reliable, k, @),
          !.unreliableNumber = 0,
          !.reliable = SubSeq(@, k + 1, Len(@)),
          !.out = @ \o SubSeq(ch.reliable, 1, k)]

\* enet_peer_dispatch_incoming_reliable_commands, and what follows it.
DispatchReliable(ch) ==
  LET k == Ready(ch.reliable, ch.reliableNumber) IN
  IF k = 0 THEN ch
  ELSE DispatchUnreliable(
         [ch EXCEPT
            !.reliableNumber = NumberAfter(ch.reliable, k, @),
            !.unreliableNumber = 0,
            !.reliable = SubSeq(@, k + 1, Len(@)),
            !.out = @ \o SubSeq(ch.reliable, 1, k)])

\* Behind the last command that is not after it.
Inserted(s, e) == InsertAt(s, LastNotAfter(s, e) + 1, e)

-----------------------------------------------------------------------------
(* The receiving peer. *)

\* Assumptions on the network: it delivers no command so late that its number
\* (the first one, of a fragmented packet) is taken for one of the next turn,
\* and no unsequenced one when a whole turn of groups before it was lost.
Lifetime ==
  (RELIABLE_WINDOWS - FREE_RELIABLE_WINDOWS + 1) * RELIABLE_WINDOW_SIZE
GroupLifetime ==
  (UNSEQUENCED_WINDOWS - FREE_UNSEQUENCED_WINDOWS) * UNSEQUENCED_WINDOW_SIZE

Fresh(c) ==
  IF c.type = "SEND_UNSEQUENCED"
  THEN /\ c.number + GroupLifetime >= incomingUnsequencedGroup
       /\ c.number < incomingUnsequencedGroup + GroupSpace
  ELSE Incoming(c).reliable + Lifetime >= incomingReliableSequenceNumber

\* Mutant: an unreliable packet may be late.
Wanted_Late(e) ==
  LET current == Wire(e.reliable) = Wire(incomingReliableSequenceNumber) IN
  /\ AcceptedWindow(Wire(e.reliable))
  /\ e.type \in ReliableTypes => ~ current

\* What enet_peer_queue_incoming_command tests before it looks at the lists.
Wanted(e) ==
  LET current == Wire(e.reliable) = Wire(incomingReliableSequenceNumber) IN
  /\ AcceptedWindow(Wire(e.reliable))
  /\ e.type \in ReliableTypes => ~ current
  /\ e.type \in UnreliableTypes =>
       ~ (current /\ e.number =< incomingUnreliableSequenceNumber)

\* Mutant: packets are taken whatever waits.
HasRoom_Always == TRUE

HasRoom  == totalWaitingData < MaximumWaitingData
Count(e) == totalWaitingData' = totalWaitingData + Length(e)

\* enet_protocol_handle_send_reliable.
HandleSendReliable(c) ==
  LET e == Incoming(c) IN
  /\ c.type = "SEND_RELIABLE"
  /\ Wanted(e)
  /\ ~ HasTwin(incomingReliable, e)
  /\ HasRoom
  /\ Count(e)
  /\ Becomes(DispatchReliable(
       [Channel EXCEPT !.reliable = Inserted(@, e)]))
  /\ UNCHANGED <<senderVars, groupVars, delivered>>

\* enet_protocol_handle_send_unreliable.
HandleSendUnreliable(c) ==
  LET e == Incoming(c) IN
  /\ c.type = "SEND_UNRELIABLE"
  /\ Wanted(e)
  /\ ~ HasTwin(incomingUnreliable, e)
  /\ HasRoom
  /\ Count(e)
  /\ Becomes(DispatchUnreliable(
       [Channel EXCEPT !.unreliable = Inserted(@, e)]))
  /\ UNCHANGED <<senderVars, groupVars, delivered>>

\* Fragment c is new to the command e of the list, which has its type and size
\* (or the handler fails); then its bit is set and its data copied.
Completes(e, c) ==
  /\ e.type = c.type
  /\ e.count = c.count
  /\ \A x \in e.fragments : x.fragment # c.fragment
Marked(e, c) ==
  [e EXCEPT !.fragments =
     @ \cup {[fragment |-> c.fragment, packet |-> c.packet]}]

\* Command p of the list gets fragment c; the last fragment dispatches it.
WithReliableFragment(ch, p, c) ==
  LET marked == [ch EXCEPT !.reliable[p] = Marked(@, c)] IN
  IF fragmentsRemaining(marked.reliable[p]) =< 0
  THEN DispatchReliable(marked)
  ELSE marked
WithUnreliableFragment(ch, p, c) ==
  LET marked == [ch EXCEPT !.unreliable[p] = Marked(@, c)] IN
  IF fragmentsRemaining(marked.unreliable[p]) =< 0
  THEN DispatchUnreliable(marked)
  ELSE marked

\* enet_protocol_handle_send_fragment: the packet is looked for by the
\* startSequenceNumber, and queued when it is not there.
HandleSendFragment(c) ==
  LET e == Incoming(c) IN
  /\ c.type = "SEND_FRAGMENT"
  /\ AcceptedWindow(Wire(e.reliable))
  /\ \/ /\ HasTwin(incomingReliable, e)
        /\ LET p == TwinOf(incomingReliable, e) IN
           /\ Completes(incomingReliable[p], c)
           /\ Becomes(WithReliableFragment(Channel, p, c))
        /\ UNCHANGED totalWaitingData
     \/ /\ ~ HasTwin(incomingReliable, e)
        /\ Wanted(e)
        /\ HasRoom
        /\ Count(e)
        /\ LET ch == DispatchReliable(
                       [Channel EXCEPT !.reliable = Inserted(@, e)])
               p == CHOOSE r \in DOMAIN ch.reliable : ch.reliable[r] = e IN
           Becomes(WithReliableFragment(ch, p, c))
  /\ UNCHANGED <<senderVars, groupVars, delivered>>

\* enet_protocol_handle_send_unreliable_fragment.  A new packet is dispatched
\* once while it has no fragment yet: older partial ones may be removed.  So may
\* the new one itself, if two younger partial ones wait, and the fragment is then
\* written through the freed command and packet (peer.cpp:738, protocol.cpp:721).
\* Of what the build can make of that, the model has the outcomes that damage
\* nothing outside the freed memory: whatever is read there, the lists are as
\* the first dispatch left them, also if it leads to a second one.
HandleSendUnreliableFragment(c) ==
  LET e == Incoming(c) IN
  /\ c.type = "SEND_UNRELIABLE_FRAGMENT"
  /\ Wanted(e)
  /\ \/ /\ HasTwin(incomingUnreliable, e)
        /\ LET p == TwinOf(incomingUnreliable, e) IN
           /\ Completes(incomingUnreliable[p], c)
           /\ Becomes(WithUnreliableFragment(Channel, p, c))
        /\ UNCHANGED totalWaitingData
     \/ /\ ~ HasTwin(incomingUnreliable, e)
        /\ HasRoom
        /\ Count(e)
        /\ LET ch == DispatchUnreliable(
                       [Channel EXCEPT !.unreliable = Inserted(@, e)]) IN
           \/ \E p \in DOMAIN ch.unreliable :
                /\ ch.unreliable[p] = e
                /\ Becomes(WithUnreliableFragment(ch, p, c))
           \/ /\ e \notin ToSet(ch.unreliable)
              /\ Becomes(ch)
  /\ UNCHANGED <<senderVars, groupVars, delivered>>

\* enet_protocol_handle_send_unsequenced.  The window moves, and forgets, even
\* when the packet is then refused for lack of room.
GroupWire(g) == g % GroupSpace

GroupAccepted(g) ==
  LET n == GroupWire(incomingUnsequencedGroup)
      u == IF GroupWire(g) < n THEN GroupWire(g) + GroupSpace ELSE GroupWire(g) IN
  u < n + FREE_UNSEQUENCED_WINDOWS * UNSEQUENCED_WINDOW_SIZE

HandleSendUnsequenced(c) ==
  LET e     == Incoming(c)
      index == GroupWire(c.number) % UNSEQUENCED_WINDOW_SIZE
      same  == GroupWire(c.number) - index = GroupWire(incomingUnsequencedGroup)
      bits  == IF same THEN unsequencedWindow ELSE {} IN
  /\ c.type = "SEND_UNSEQUENCED"
  /\ GroupAccepted(c.number)
  /\ index \notin bits
  /\ incomingUnsequencedGroup' =
       IF same THEN incomingUnsequencedGroup ELSE c.number - index
  /\ \/ /\ HasRoom
        /\ Count(e)
        /\ unsequencedWindow' = bits \cup {index}
        /\ Becomes(DispatchUnreliable(
             [Channel EXCEPT !.unreliable = <<e>> \o @]))
     \/ /\ ~ HasRoom
        /\ unsequencedWindow' = bits
        /\ UNCHANGED <<totalWaitingData, channelVars>>
  /\ UNCHANGED <<senderVars, delivered>>

\* enet_peer_receive: the packet's data does not wait any more.
Receive ==
  /\ dispatched # <<>>
  /\ delivered' = Append(delivered, Head(dispatched).packet)
  /\ dispatched' = Tail(dispatched)
  /\ totalWaitingData' = totalWaitingData - Length(Head(dispatched))
  /\ UNCHANGED <<senderVars, incomingReliableSequenceNumber,
                 incomingUnreliableSequenceNumber, incomingReliable,
                 incomingUnreliable, droppedData, groupVars>>

Handle(c) ==
  /\ Fresh(c)
  /\ \/ HandleSendReliable(c)
     \/ HandleSendUnreliable(c)
     \/ HandleSendFragment(c)
     \/ HandleSendUnreliableFragment(c)
     \/ HandleSendUnsequenced(c)

-----------------------------------------------------------------------------
\* A channel that has carried ReliableBefore reliable numbers and
\* UnsequencedBefore unsequenced packets, all of them delivered.
Init ==
  /\ submitted = <<>>
  /\ outgoingReliableSequenceNumber = ReliableBefore
  /\ outgoingUnreliableSequenceNumber = 0
  /\ outgoingUnsequencedGroup = UnsequencedBefore
  /\ outgoingUnreliable = <<>>
  /\ sentUnreliable = <<>>
  /\ referenceCount = [i \in Packets |-> 0]
  /\ freed = {}
  /\ network = {}
  /\ incomingReliableSequenceNumber = ReliableBefore
  /\ incomingUnreliableSequenceNumber = 0
  /\ incomingReliable = <<>>
  /\ incomingUnreliable = <<>>
  /\ incomingUnsequencedGroup =
       UnsequencedBefore - (UnsequencedBefore % UNSEQUENCED_WINDOW_SIZE)
  /\ unsequencedWindow =
       {g % UNSEQUENCED_WINDOW_SIZE :
          g \in {h \in 1 .. UnsequencedBefore : h >= incomingUnsequencedGroup}}
  /\ totalWaitingData = 0
  /\ dispatched = <<>>
  /\ droppedData = 0
  /\ delivered = <<>>

Next ==
  \/ \E k \in Kinds : Send(k)
  \/ SendUnreliable
  \/ Throttle
  \/ DatagramSent
  \/ \E c \in network : Handle(c)
  \/ Receive

Spec == Init /\ [][Next]_vars

-----------------------------------------------------------------------------
(* Properties. *)

CommandType ==
  [packet : Packets, type : ReliableTypes \cup UnreliableTypes \cup {"SEND_UNSEQUENCED"},
   reliable : Nat, number : Nat, fragment : Nat, count : Nat]

IsEntry(e) ==
  /\ DOMAIN e = {"packet", "type", "reliable", "number", "count", "fragments"}
  /\ e.packet \in Packets
  /\ e.type \in ReliableTypes \cup UnreliableTypes \cup {"SEND_UNSEQUENCED"}
  /\ e.count \in Nat
  /\ \A x \in e.fragments : x.fragment \in 0 .. e.count - 1 /\ x.packet \in Packets

\* The commands are where commands of their type belong, no counter is below
\* zero, and no unreliable number is above 0xFFFF.
TypeOK ==
  /\ submitted \in Seq(Kinds)
  /\ outgoingReliableSequenceNumber \in Nat
  /\ outgoingUnreliableSequenceNumber \in 0 .. UnreliableLimit
  /\ outgoingUnsequencedGroup \in Nat
  /\ outgoingUnreliable \in Seq(CommandType)
  /\ sentUnreliable \in Seq(CommandType)
  /\ referenceCount \in [Packets -> Nat]
  /\ freed \subseteq Packets
  /\ network \subseteq CommandType
  /\ incomingReliableSequenceNumber \in Nat
  /\ incomingUnreliableSequenceNumber \in 0 .. UnreliableLimit
  /\ \A e \in ToSet(incomingReliable) : IsEntry(e) /\ e.type \in ReliableTypes
  /\ \A e \in ToSet(incomingUnreliable) : IsEntry(e) /\ e.type \notin ReliableTypes
  /\ \A e \in ToSet(dispatched) : IsEntry(e)
  /\ incomingUnsequencedGroup \in Nat
  /\ unsequencedWindow \subseteq 0 .. UNSEQUENCED_WINDOW_SIZE - 1
  /\ totalWaitingData \in Nat
  /\ droppedData \in Nat
  /\ delivered \in Seq(Packets)

\* No packet that could be dispatched is left in a list until some later packet
\* happens to arrive: the reliable list does not begin with the next packet of
\* the stream, and the unreliable list has only packets that wait for a
\* fragment or for a reliable packet.  In particular unsequenced packets never
\* wait, so that the test of the wrong command at peer.cpp:898 has no effect.
NothingDeliverableWaits ==
  /\ incomingReliable # <<>> =>
       ~ Continues(incomingReliable, 1, incomingReliableSequenceNumber)
  /\ \A e \in ToSet(incomingUnreliable) :
       \/ Early(e, incomingReliableSequenceNumber)
       \/ /\ Partial(e, incomingReliableSequenceNumber)
          /\ e.number > incomingUnreliableSequenceNumber

\* Both lists are in the order of submission without duplicates, also when the
\* wire numbers in them have wrapped around: every search from the back relies
\* on it (peer.cpp:859, 894, protocol.cpp:566, 674).
WaitingInOrder ==
  /\ \A p, r \in DOMAIN incomingReliable :
       p < r => incomingReliable[p].packet < incomingReliable[r].packet
  /\ \A p, r \in DOMAIN incomingUnreliable :
       p < r => incomingUnreliable[p].packet < incomingUnreliable[r].packet

\* A packet sent in fragments is dispatched when all its fragments are there,
\* and holds no other packet's data, in whatever order and however often the
\* fragments of several packets arrived.
AssembledWhole ==
  \A e \in ToSet(dispatched) :
    /\ \A x \in e.fragments : x.packet = e.packet
    /\ e.type \in FragmentTypes =>
         {x.fragment : x \in e.fragments}
           = 0 .. submitted[e.packet].fragments - 1

\* The fragment of a new packet is written through a freed command only if two
\* younger packets of which fragments are missing wait: in every other order of
\* arrival the packet that is queued for a fragment is still there to take it.
StrayWriteOnlyBehindTwo ==
  [][\A c \in network :
       /\ totalWaitingData' > totalWaitingData
       /\ \A e \in ToSet(incomingUnreliable') : e.packet # c.packet
       /\ c.type = "SEND_UNRELIABLE_FRAGMENT" /\ Handle(c)
       => \E e, f \in ToSet(incomingUnreliable') :
            /\ c.packet < e.packet /\ e.packet < f.packet
            /\ fragmentsRemaining(e) > 0 /\ fragmentsRemaining(f) > 0]_vars

\* The data of the packets that wait, for earlier ones or for the application.
WaitingData ==
  DataLength(incomingReliable) + DataLength(incomingUnreliable)
    + DataLength(dispatched)

\* What totalWaitingData counts: the data that waits and, for ever, that of all
\* packets the peer has dropped undelivered, which
\* enet_peer_remove_incoming_commands does not subtract (peer.cpp:271).
WaitingDataCounted == totalWaitingData = WaitingData + droppedData

\* maximumWaitingData, which is tested before a packet is queued (peer.cpp:934),
\* is exceeded by less than that packet: totalWaitingData is never below the data
\* that waits, whichever handler queues it and however it is dispatched, and
\* never wraps below zero.
WaitingDataBounded ==
  WaitingData > 0 =>
    \E k \in Kinds : WaitingData < MaximumWaitingData + k.fragments

\* maximumWaitingData is "the maximum aggregate amount of buffer space a peer may
\* use waiting for packets to be delivered" (enet.h:416): there is room as long
\* as less than that waits.
RoomBelowTheLimit == WaitingData < MaximumWaitingData => HasRoom

\* A packet's reference count is the number of its commands that are still
\* queued or in the datagram being sent, whether the throttle dropped the
\* others or they were transmitted, and the packet is destroyed exactly when
\* none is left (peer.cpp:178, protocol.cpp:1347, 172).  Reliable commands keep
\* their packet: this module does not acknowledge them.
PacketsHeld ==
  \A i \in DOMAIN submitted :
    /\ referenceCount[i] =
         Held(i, outgoingUnreliable) + Held(i, sentUnreliable)
           + Cardinality({c \in network : c.packet = i /\ c.type \in ReliableTypes})
    /\ i \in freed <=> referenceCount[i] = 0

\* The throttle takes whole packets: once no command of a packet is queued any
\* more, all of them were transmitted or none, wherever the datagrams ended.
WholeOrNothing ==
  \A i \in DOMAIN submitted :
    LET transmitted == {c \in network : c.packet = i} IN
    Held(i, outgoingUnreliable) = 0 =>
      transmitted = {} \/ Cardinality(transmitted) = submitted[i].fragments

\* The remote application gets what PacketDelivery promises, whatever the
\* network loses, duplicates or reorders and whatever the throttle drops.
Delivery ==
  INSTANCE PacketDelivery WITH
    Sequenced <- {k \in Kinds : k.reliable \/ ~ k.unsequenced},
    Reliable  <- {k \in Kinds : k.reliable}
RefinesDelivery == Delivery!Spec
=============================================================================
