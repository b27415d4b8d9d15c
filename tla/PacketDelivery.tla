--------------------------- MODULE PacketDelivery ---------------------------
(***************************************************************************)
(* What an application may rely on when it sends packets of all kinds on   *)
(* one channel of a connected peer: the remote application receives every  *)
(* packet at most once.  The packets that are sequenced it receives in the *)
(* order in which they were passed to enet_peer_send, and none of them     *)
(* before a reliable packet that was passed earlier.  Packets are named by *)
(* the order of submission: 1 is the first.                                *)
(***************************************************************************)
EXTENDS Naturals, Sequences

CONSTANTS
  Kinds,                   \* the kinds of packets the application submits
  Sequenced,               \* those without ENET_PACKET_FLAG_UNSEQUENCED
  Reliable,                \* those with ENET_PACKET_FLAG_RELIABLE
  MaxPackets               \* bound: the application submits that many packets

VARIABLES
  submitted,               \* the kinds of the packets, in order of submission
  delivered                \* the packets enet_peer_receive handed out, in order

vars == <<submitted, delivered>>

WasDelivered(i) == \E p \in DOMAIN delivered : delivered[p] = i

\* Each sequenced packet is handed out after all that were and before none
\* that must be.
InTurn(i) ==
  submitted[i] \in Sequenced =>
    /\ \A p \in DOMAIN delivered :
         submitted[delivered[p]] \in Sequenced => delivered[p] < i
    /\ \A j \in 1 .. i - 1 : submitted[j] \in Reliable => WasDelivered(j)

Init ==
  /\ submitted = <<>>
  /\ delivered = <<>>

Submit(k) ==
  /\ Len(submitted) < MaxPackets
  /\ submitted' = Append(submitted, k)
  /\ UNCHANGED delivered

Deliver(i) ==
  /\ ~ WasDelivered(i)
  /\ InTurn(i)
  /\ delivered' = Append(delivered, i)
  /\ UNCHANGED submitted

Next ==
  \/ \E k \in Kinds : Submit(k)
  \/ \E i \in DOMAIN submitted : Deliver(i)

Spec == Init /\ [][Next]_vars
=============================================================================
