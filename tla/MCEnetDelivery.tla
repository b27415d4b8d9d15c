--------------------------- MODULE MCEnetDelivery ---------------------------
(***************************************************************************)
(* The instance of EnetDelivery that TLC checks.  The code has 16 windows  *)
(* of 4096 reliable numbers, 8 of them free, and 64 windows of 1024        *)
(* unsequenced groups, 32 of them free.                                    *)
(***************************************************************************)
EXTENDS EnetDelivery

Kind(reliable, unsequenced, unreliableFragment, fragments) ==
  [reliable |-> reliable, unsequenced |-> unsequenced,
   unreliableFragment |-> unreliableFragment, fragments |-> fragments]

\* One kind of packet for every way enet_peer_send goes.
MCKinds ==
  {Kind(TRUE,  FALSE, FALSE, 1),     \* reliable
   Kind(TRUE,  FALSE, FALSE, 2),     \* reliable, in fragments
   Kind(FALSE, FALSE, FALSE, 1),     \* unreliable
   Kind(FALSE, FALSE, TRUE,  2),     \* unreliable, in unreliable fragments
   Kind(FALSE, TRUE,  FALSE, 1)}     \* unsequenced
=============================================================================
