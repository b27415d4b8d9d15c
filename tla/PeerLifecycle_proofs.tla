------------------------ MODULE PeerLifecycle_proofs ------------------------
(***************************************************************************)
(* What every peer that behaves as PeerLifecycle lets its application      *)
(* rely on.  EnetHost's peers do (EnetHost!RefinesLifecycle).              *)
(***************************************************************************)
EXTENDS PeerLifecycle, TLAPS

\* The state and the view keep to their sets, whatever ENet and the application
\* do with the peer.
THEOREM TypeCorrect == Spec => []TypeOK
<1>1. Init => TypeOK
  BY DEF Init, TypeOK, PeerStates, Views
<1>2. TypeOK /\ [Next]_vars => TypeOK'
  <2> SUFFICES ASSUME TypeOK, [Next]_vars PROVE TypeOK'
    OBVIOUS
  <2>1. CASE Connect
    BY <2>1 DEF Connect, TypeOK, PeerStates, Views
  <2>2. CASE Service
    BY <2>2 DEF Service, Served, TypeOK, PeerStates, Views
  <2>3. CASE Poll
    BY <2>3 DEF Poll, Polled, TypeOK, PeerStates, Views
  <2>4. CASE Disconnect
    BY <2>4 DEF Disconnect, Disconnected, TypeOK, PeerStates, Views
  <2>5. CASE DisconnectLater
    BY <2>5 DEF DisconnectLater, TypeOK, PeerStates, Views
  <2>6. CASE Drop
    BY <2>6 DEF Drop, TypeOK, PeerStates, Views
  <2>7. CASE UNCHANGED vars
    BY <2>7 DEF vars, TypeOK
  <2> QED
    BY <2>1, <2>2, <2>3, <2>4, <2>5, <2>6, <2>7 DEF Next
<1> QED
  BY <1>1, <1>2, PTL DEF Spec

\* An application that follows the events of a peer knows how the peer stands:
\* no connection that it was told of or asked for ends without an event or a
\* call of its own.  The property is inductive as it is.
THEOREM KnowledgeIsTrue == Spec => []ApplicationKnows
<1>1. Init => ApplicationKnows
  BY DEF Init, ApplicationKnows
<1>2. TypeOK /\ ApplicationKnows /\ [Next]_vars => ApplicationKnows'
  <2> SUFFICES ASSUME TypeOK, ApplicationKnows, [Next]_vars
               PROVE  ApplicationKnows'
    OBVIOUS
  <2>1. CASE Connect
    BY <2>1 DEF Connect, ApplicationKnows
  <2>2. CASE Service
    BY <2>2 DEF Service, Served, ApplicationKnows
  <2>3. CASE Poll
    BY <2>3 DEF Poll, Polled, ApplicationKnows
  <2>4. CASE Disconnect
    BY <2>4 DEF Disconnect, Disconnected, TypeOK, PeerStates, ApplicationKnows
  <2>5. CASE DisconnectLater
    BY <2>5 DEF DisconnectLater, ApplicationKnows
  <2>6. CASE Drop
    BY <2>6 DEF Drop, ApplicationKnows
  <2>7. CASE UNCHANGED vars
    BY <2>7 DEF vars, ApplicationKnows
  <2> QED
    BY <2>1, <2>2, <2>3, <2>4, <2>5, <2>6, <2>7 DEF Next
<1> QED
  BY <1>1, <1>2, TypeCorrect, PTL DEF Spec
=============================================================================
