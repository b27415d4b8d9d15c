--------------------------- MODULE PeerLifecycle ---------------------------
(***************************************************************************)
(* What ENet promises the application about one peer: an abstract          *)
(* specification that EnetHost implements for every peer of every host     *)
(* whose application does not disconnect a peer before it has heard of the *)
(* connection.                                                             *)
(***************************************************************************)
EXTENDS PeerStates

VARIABLES
  state,                   \* the state of the peer
  view                     \* what the application knows: "none", "connecting",
                           \* "connected" or "closing"

vars == <<state, view>>

Views == {"none", "connecting", "connected", "closing"}

Init == state = "DISCONNECTED" /\ view = "none"

Connect ==
  /\ state = "DISCONNECTED"
  /\ state' = "CONNECTING"
  /\ view' = "connecting"

Service ==
  /\ <<state, state'>> \in Served
  /\ UNCHANGED view

Poll ==
  /\ state \in DOMAIN Polled
  /\ state' = Polled[state]
  /\ view' = IF state = "ZOMBIE" THEN "none" ELSE "connected"

\* enet_peer_disconnect, of a connection that the application was told of.
Disconnect ==
  /\ view \in {"connected", "closing"}
  /\ state' = Disconnected[state]
  /\ view' = "closing"

DisconnectLater ==
  /\ view \in {"connected", "closing"}
  /\ state \in {"CONNECTED", "LATER"}
  /\ state' = "LATER"
  /\ view' = "closing"

\* enet_peer_disconnect_now and enet_peer_reset.
Drop ==
  /\ view # "none"
  /\ state' = "DISCONNECTED"
  /\ view' = "none"

Next == Connect \/ Service \/ Poll \/ Disconnect \/ DisconnectLater \/ Drop

Spec == Init /\ [][Next]_vars

\* The state and the view keep to their sets.
TypeOK == state \in PeerStates /\ view \in Views

\* What an application believes of a peer is true enough: a connection it was
\* told about, or asked for, never ends behind its back, one that it asked to end
\* is not over before it hears so, and it hears of a disconnection only if it knew
\* the peer.
ApplicationKnows ==
  /\ state \in {"DISCONNECTED", "PENDING"} => view = "none"
  /\ state \in {"CONNECTING", "SUCCEEDED"} => view = "connecting"
  /\ state = "CONNECTED" => view = "connected"
  /\ state = "LATER" => view = "closing"
  /\ state = "LEAVING" => view \in {"connected", "closing"}
  /\ state = "ZOMBIE" => view # "none"
=============================================================================
