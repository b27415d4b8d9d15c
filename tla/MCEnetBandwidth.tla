--------------------------- MODULE MCEnetBandwidth ---------------------------
(***************************************************************************)
(* The instance of EnetBandwidth that TLC checks.                          *)
(***************************************************************************)
EXTENDS EnetBandwidth, TLC

Limit(incoming, outgoing) == [incoming |-> incoming, outgoing |-> outgoing]

\* Peers without limits, with small and with large ones.
MCLimits == {Limit(0, 0), Limit(2, 3), Limit(7, 9)}

\* A host that is limited both ways, or not at all.
MCHostLimits == {Limit(0, 0), Limit(13, 15)}

PeerSymmetry == Permutations(Peers)
=============================================================================
