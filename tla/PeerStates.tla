----------------------------- MODULE PeerStates -----------------------------
(***************************************************************************)
(* The life of one ENet peer as the code that uses ENet sees it: which     *)
(* changes of state ENet makes by itself, which come with an event, and    *)
(* what the calls that end a connection do.  The ten states of ENetPeer    *)
(* are told apart only as far as these rules need.                         *)
(*                                                                         *)
(*   "PENDING"  ACKNOWLEDGING_CONNECT or CONNECTION_PENDING: the other     *)
(*              side asked for the connection                              *)
(*   "LEAVING"  DISCONNECTING or ACKNOWLEDGING_DISCONNECT                  *)
(***************************************************************************)

PeerStates == {"DISCONNECTED", "CONNECTING", "PENDING", "SUCCEEDED",
               "CONNECTED", "LATER", "LEAVING", "ZOMBIE"}

\* What datagrams and timeouts do inside enet_host_service: no event, and a
\* connection that the application may know of never just disappears.
Served == {<<"DISCONNECTED", "PENDING">>, <<"PENDING", "DISCONNECTED">>,
           <<"CONNECTING", "SUCCEEDED">>, <<"CONNECTING", "ZOMBIE">>,
           <<"SUCCEEDED", "ZOMBIE">>,     <<"CONNECTED", "LEAVING">>,
           <<"CONNECTED", "ZOMBIE">>,     <<"LATER", "LEAVING">>,
           <<"LATER", "ZOMBIE">>,         <<"LEAVING", "ZOMBIE">>}

\* The state that the event of a peer leaves, by enet_host_check_events.
Polled == [s \in {"PENDING", "SUCCEEDED", "ZOMBIE"} |->
             IF s = "ZOMBIE" THEN "DISCONNECTED" ELSE "CONNECTED"]

\* enet_peer_disconnect: only a connection that is up is closed in agreement
\* with the other side; one that is being made is dropped.
Disconnected == [s \in PeerStates |->
                   IF s \in {"CONNECTED", "LATER"} THEN "LEAVING"
                   ELSE IF s \in {"LEAVING", "ZOMBIE"} THEN s
                   ELSE "DISCONNECTED"]
=============================================================================
