--------------------------- MODULE ReliableStream ---------------------------
(***************************************************************************)
(* What an application may rely on when it sends packets with              *)
(* ENET_PACKET_FLAG_RELIABLE on one channel of a connected peer: the       *)
(* remote application receives the packets one by one, each once, in the   *)
(* order in which they were passed to enet_peer_send.  Packets are named   *)
(* by the order of submission: 1 is the first.                             *)
(***************************************************************************)
EXTENDS Naturals, Sequences

CONSTANT MaxPackets        \* bound: the application submits that many packets

VARIABLES
  submitted,               \* how many packets enet_peer_send accepted
  delivered                \* the packets enet_peer_receive handed out, in order

vars == <<submitted, delivered>>

\* Only packets that were submitted are handed out.
TypeOK ==
  /\ submitted \in 0 .. MaxPackets
  /\ delivered \in Seq(1 .. MaxPackets)

\* A stream that has carried any number of packets, all of them handed out.
Init ==
  /\ submitted \in 0 .. MaxPackets
  /\ delivered = [k \in 1 .. submitted |-> k]

Submit ==
  /\ submitted < MaxPackets
  /\ submitted' = submitted + 1
  /\ UNCHANGED delivered

Deliver ==
  /\ Len(delivered) < submitted
  /\ delivered' = Append(delivered, Len(delivered) + 1)
  /\ UNCHANGED submitted

Next == Submit \/ Deliver

Spec == Init /\ [][Next]_vars
=============================================================================
