------------------------- MODULE EnetChannel_proofs -------------------------
(***************************************************************************)
(* What is proved of a reliable channel, for every window size, sequence   *)
(* space, number of packets and capacity of the network: the type          *)
(* invariant, the sender's accounting and the order of its                 *)
(* retransmissions; and, from end to end, that it delivers the stream of   *)
(* the packets submitted (ChannelRefinesStream), that what waits is        *)
(* ordered, and that the sender forgets only what the receiver has.        *)
(*                                                                         *)
(* The accounting is not inductive by itself.  To remove a command from    *)
(* one list must not leave it in the other, or twice in one (Once); every  *)
(* command in sentReliable was attempted and every command was submitted,  *)
(* so that a new one is in neither list (Known); and the search of         *)
(* outgoing for a command finds only attempted ones (RetransmitsFirst).    *)
(*                                                                         *)
(* Both ends work with wire numbers, and these are unambiguous only while  *)
(* the packets in play span less than a turn of the sequence space.  The   *)
(* invariant StreamInv names the last packet t that was sent for the first *)
(* time and bounds everything from there:                                  *)
(*   - the sender's window gate keeps every unacknowledged command within  *)
(*     Reach of t (SenderSpan, WindowGate);                                *)
(*   - the packet the receiver waits for is unacknowledged (Held), so the  *)
(*     receiver is within Reach of t too (LessThanTurn), and by the gate   *)
(*     within the windows it accepts or those whose acknowledgements it    *)
(*     suppresses (ReceiverSpan): it never takes a packet that is ahead    *)
(*     for one that it has passed and acknowledges it (Arrival,            *)
(*     DiscardedIsReceived);                                               *)
(*   - hence only packets that it has are acknowledged                     *)
(*     (AcknowledgesReceived), and an acknowledgement removes the command  *)
(*     it is about and no other (AcknowledgedCommand), so that what is not *)
(*     accepted stays at the sender (Held);                                *)
(*   - the assumption on the network (Lifetime, at most LongestLifetime)   *)
(*     keeps every datagram within Reach of t (Fresh).                     *)
(* Each of them needs the others: none is inductive by itself.             *)
(***************************************************************************)
EXTENDS EnetChannel, ListLemmas

\* The sender's part of TypeOK.
SenderType ==
  /\ submitted \in 0 .. MaxPackets
  /\ outgoing \in Seq(Packets)
  /\ sentReliable \in Seq(Packets)
  /\ attempted \subseteq Packets
  /\ reliableWindows \in [Windows -> Nat]
  /\ usedReliableWindows \subseteq Windows
  /\ reliableDataInTransit \in Nat
  /\ sending \in BOOLEAN

\* Every outstanding command is in one list, once.
Once ==
  /\ \A p, r \in DOMAIN sentReliable : sentReliable[p] = sentReliable[r] => p = r
  /\ \A p, r \in DOMAIN outgoing : outgoing[p] = outgoing[r] => p = r
  /\ \A p \in DOMAIN sentReliable, r \in DOMAIN outgoing : sentReliable[p] # outgoing[r]

\* The lists hold packets that were submitted; those sent were attempted.
Known ==
  /\ \A p \in DOMAIN sentReliable : sentReliable[p] \in attempted
  /\ \A p \in DOMAIN outgoing : outgoing[p] =< submitted
  /\ attempted \subseteq 1 .. submitted

\* The inductive invariant of the sending peer.
SenderInv == SenderType /\ Once /\ Known /\ FlowAccounting /\ RetransmitsFirst

\* The network's part of TypeOK.
NetworkType ==
  /\ dataNet \subseteq Packets
  /\ ackNet \subseteq Packets

\* The receiver's part of TypeOK.
ReceiverType ==
  /\ incomingReliableSequenceNumber \in 0 .. SeqSpace - 1
  /\ incomingReliable \in Seq(Packets)
  /\ dispatched \in Seq(Packets)
  /\ acknowledgements \subseteq Packets
  /\ delivered \in Seq(Packets)

-----------------------------------------------------------------------------
(* Numbers, windows and lists. *)

\* The sequence space is not empty, so that % is defined on it.
LEMMA SeqSpacePositive == SeqSpace \in Nat \ {0}
  BY WindowAssumption DEF SeqSpace

\* A wire number is in the sequence space.
LEMMA WireType == ASSUME NEW i \in Nat PROVE Wire(i) \in 0 .. SeqSpace - 1
  BY SeqSpacePositive DEF Wire

\* Every wire number belongs to a window of the array reliableWindows.
LEMMA WindowType == ASSUME NEW q \in 0 .. SeqSpace - 1 PROVE Window(q) \in Windows
<1> DEFINE W == RELIABLE_WINDOWS  K == RELIABLE_WINDOW_SIZE  d == q \div RELIABLE_WINDOW_SIZE
<1>1. /\ W \in Nat \ {0} /\ K \in Nat \ {0} /\ q \in Nat /\ q < W * K
  BY WindowAssumption, SeqSpacePositive DEF SeqSpace
<1>2. d \in Nat /\ K * d =< q
  BY <1>1
<1>3. d < W
  BY <1>1, <1>2
<1> QED
  BY <1>1, <1>2, <1>3 DEF Window, Windows

\* First is what a loop that searches a list from its front finds.
LEMMA FirstIsLeast ==
  ASSUME NEW T, T \subseteq Nat, T # {}
  PROVE  First(T) \in T /\ \A r \in T : First(T) =< r
  BY LeastElement DEF First

\* The commands at a set of positions of a list, in order: a list as long as the
\* set, each position picked once.
LEMMA PickedProperties ==
  ASSUME NEW S, NEW s \in Seq(S), NEW E \in SUBSET DOMAIN s, NEW f \in InOrder(E)
  PROVE  /\ Cardinality(E) \in Nat
         /\ Picked(s, f) \in Seq(S)
         /\ Len(Picked(s, f)) = Cardinality(E)
         /\ \A k \in 1 .. Cardinality(E) : f[k] \in E /\ Picked(s, f)[k] = s[f[k]]
         /\ \A j, k \in 1 .. Cardinality(E) : f[j] = f[k] => j = k
<1> DEFINE n == Cardinality(E)
<1>1. Len(s) \in Nat /\ DOMAIN s = 1 .. Len(s) /\ \A k \in DOMAIN s : s[k] \in S
  BY LenProperties, ElementOfSeq
<1>2. n \in Nat
  <2>1. IsFiniteSet(DOMAIN s)
    BY <1>1, FS_Interval
  <2>2. IsFiniteSet(E)
    BY <2>1, FS_Subset
  <2> QED
    BY <2>2, FS_CardinalityType
<1>3. /\ f \in [1 .. n -> E]
      /\ \A j, k \in 1 .. n : j < k => f[j] < f[k]
  BY DEF InOrder
<1> HIDE DEF n
<1>4. Picked(s, f) = [k \in 1 .. n |-> s[f[k]]]
  BY <1>3 DEF Picked
<1>5. [k \in 1 .. n |-> s[f[k]]] \in [1 .. n -> S]
  BY <1>1, <1>3
<1>6. [1 .. n -> S] \subseteq Seq(S)
  BY <1>2, SeqDef
<1>7. Picked(s, f) \in Seq(S) /\ Len(Picked(s, f)) = n
  BY <1>2, <1>4, <1>5, <1>6, LenProperties
<1>8. ASSUME NEW j \in 1 .. n, NEW k \in 1 .. n, f[j] = f[k] PROVE j = k
  <2>1. f[j] \in Nat /\ f[k] \in Nat
    BY <1>1, <1>3
  <2> QED
    BY <1>2, <1>3, <1>8, <2>1
<1> QED
  BY <1>2, <1>3, <1>4, <1>7, <1>8 DEF n

-----------------------------------------------------------------------------
(* Counting the packets of a window. *)

\* The packets of A that reliableWindows[w] counts.
InWindow(A, w) == {i \in A : Window(Wire(i)) = w}

\* A packet that is attempted for the first time counts in its window only.
LEMMA CountAdded ==
  ASSUME NEW A, IsFiniteSet(A), NEW i, i \notin A, NEW w
  PROVE  Cardinality(InWindow(A \cup {i}, w)) =
           IF Window(Wire(i)) = w THEN Cardinality(InWindow(A, w)) + 1
                                  ELSE Cardinality(InWindow(A, w))
<1>1. IsFiniteSet(InWindow(A, w))
  BY FS_Subset DEF InWindow
<1>2. CASE Window(Wire(i)) = w
  <2>1. InWindow(A \cup {i}, w) = InWindow(A, w) \cup {i} /\ i \notin InWindow(A, w)
    BY <1>2 DEF InWindow
  <2> QED
    BY <1>1, <1>2, <2>1, FS_AddElement, ZenonT(30)
<1>3. CASE Window(Wire(i)) # w
  <2>1. InWindow(A \cup {i}, w) = InWindow(A, w)
    BY <1>3 DEF InWindow
  <2> QED
    BY <1>3, <2>1
<1> QED
  BY <1>2, <1>3

\* A packet that is acknowledged no longer counts in its window, where it did.
LEMMA CountRemoved ==
  ASSUME NEW A, IsFiniteSet(A), NEW i \in A, NEW w
  PROVE  /\ Cardinality(InWindow(A, w)) \in Nat
         /\ Cardinality(InWindow(A \ {i}, w)) =
              IF Window(Wire(i)) = w THEN Cardinality(InWindow(A, w)) - 1
                                     ELSE Cardinality(InWindow(A, w))
         /\ Window(Wire(i)) = w => Cardinality(InWindow(A, w)) > 0
<1>1. IsFiniteSet(InWindow(A, w)) /\ Cardinality(InWindow(A, w)) \in Nat
  BY FS_Subset, FS_CardinalityType DEF InWindow
<1>2. CASE Window(Wire(i)) = w
  <2>1. InWindow(A \ {i}, w) = InWindow(A, w) \ {i} /\ i \in InWindow(A, w)
    BY <1>2 DEF InWindow
  <2>2. Cardinality(InWindow(A, w)) # 0
    BY <1>1, <2>1, FS_EmptySet
  <2>3. Cardinality(InWindow(A, w) \ {i}) = Cardinality(InWindow(A, w)) - 1
    BY <1>1, <2>1, FS_RemoveElement
  <2> QED
    BY <1>1, <1>2, <2>1, <2>2, <2>3
<1>3. CASE Window(Wire(i)) # w
  <2>1. InWindow(A \ {i}, w) = InWindow(A, w)
    BY <1>3 DEF InWindow
  <2> QED
    BY <1>1, <1>3, <2>1
<1> QED
  BY <1>2, <1>3

-----------------------------------------------------------------------------
(* The sender's steps. *)

\* Packets are numbers.
LEMMA Bounds == MaxPackets \in Nat /\ Packets \subseteq Nat
  BY BoundAssumption DEF Packets

\* Only finitely many packets are outstanding.
LEMMA AttemptedFinite == ASSUME SenderInv PROVE IsFiniteSet(attempted)
<1>1. attempted \subseteq Packets /\ IsFiniteSet(Packets)
  BY Bounds, FS_Interval DEF SenderInv, SenderType, Packets
<1> QED
  BY <1>1, FS_Subset

\* Steps of the receiver and the network do not concern the sender.
LEMMA SenderUnchanged == SenderInv /\ UNCHANGED senderVars => SenderInv'
  BY DEF SenderInv, senderVars, SenderType, Once, Known, FlowAccounting, RetransmitsFirst

\* A new channel: empty lists, all counters zero.
LEMMA InitSender == Init => SenderInv
<1> SUFFICES ASSUME Init PROVE SenderInv
  OBVIOUS
<1>1. SenderType
  <2>1. outgoing \in Seq(Packets) /\ sentReliable \in Seq(Packets)
    BY EmptySeq DEF Init
  <2>2. submitted \in 0 .. MaxPackets
    BY Bounds DEF Init
  <2> QED
    BY <2>1, <2>2 DEF Init, SenderType
<1>2. Once /\ Known /\ RetransmitsFirst
  BY DEF Init, Once, Known, RetransmitsFirst
<1>3. FlowAccounting
  <2>1. \A w \in Windows : {i \in attempted : Window(Wire(i)) = w} = {}
    BY DEF Init
  <2>2. \A w \in Windows : reliableWindows[w] = 0
    BY DEF Init
  <2>3. usedReliableWindows = {} /\ sentReliable = <<>> /\ reliableDataInTransit = 0
    BY DEF Init
  <2> QED
    BY <2>1, <2>2, <2>3, FS_EmptySet DEF FlowAccounting
<1> QED
  BY <1>1, <1>2, <1>3 DEF SenderInv

\* enet_peer_send appends a packet that is in no list yet.
LEMMA SendInv == ASSUME SenderInv, Send PROVE SenderInv'
<1> DEFINE i == submitted + 1
<1>1. /\ SenderType /\ Once /\ Known /\ FlowAccounting /\ RetransmitsFirst
      /\ outgoing \in Seq(Packets)
  BY DEF SenderInv, SenderType
<1>2. /\ submitted' = i /\ i \in Packets /\ submitted \in Nat
      /\ outgoing' = Append(outgoing, i)
      /\ UNCHANGED <<sentReliable, attempted, reliableWindows, usedReliableWindows,
                     reliableDataInTransit, sending>>
  BY <1>1, Bounds DEF Send, SenderType, Packets
<1>3. /\ outgoing' \in Seq(Packets) /\ Len(outgoing') = Len(outgoing) + 1
      /\ Len(outgoing) \in Nat /\ DOMAIN outgoing = 1 .. Len(outgoing)
      /\ DOMAIN outgoing' = 1 .. Len(outgoing) + 1
      /\ \A p \in 1 .. Len(outgoing) : outgoing'[p] = outgoing[p] /\ outgoing[p] \in Packets
      /\ outgoing'[Len(outgoing) + 1] = i
  BY <1>1, <1>2, AppendProperties, LenProperties, ElementOfSeq
<1>4. i \notin attempted /\ \A p \in DOMAIN outgoing : outgoing[p] # i
  BY <1>1, <1>2, <1>3, Bounds DEF Known
<1> HIDE DEF i
<1>5. SenderType'
  BY <1>1, <1>2, <1>3, Bounds DEF SenderType, Packets
<1>6. Once'
  <2>1. \A p \in DOMAIN sentReliable : sentReliable[p] # i
    BY <1>1, <1>4 DEF Known
  <2> QED
    BY <1>1, <1>2, <1>3, <1>4, <2>1 DEF Once
<1>7. Known'
  <2>1. i = submitted + 1
    BY DEF i
  <2>2. ASSUME NEW p \in DOMAIN outgoing' PROVE outgoing'[p] =< submitted'
    <3>1. CASE p \in 1 .. Len(outgoing)
      <4>1. outgoing[p] =< submitted /\ outgoing[p] \in Nat /\ outgoing'[p] = outgoing[p]
        BY <1>1, <1>3, <3>1, Bounds DEF Known
      <4> QED
        BY <1>2, <2>1, <4>1
    <3>2. CASE p = Len(outgoing) + 1
      BY <1>2, <1>3, <2>1, <3>2
    <3> QED
      BY <1>3, <3>1, <3>2
  <2>3. attempted' \subseteq 1 .. submitted'
    BY <1>1, <1>2, <2>1 DEF Known
  <2> QED
    BY <1>1, <1>2, <2>2, <2>3 DEF Known
<1>8. FlowAccounting'
  BY <1>1, <1>2 DEF FlowAccounting
<1>9. RetransmitsFirst'
  BY <1>1, <1>2, <1>3, <1>4 DEF RetransmitsFirst
<1> QED
  BY <1>5, <1>6, <1>7, <1>8, <1>9 DEF SenderInv

\* enet_protocol_check_timeouts moves commands from one list to the front of the
\* other and takes them off reliableDataInTransit.
LEMMA CheckTimeoutsInv ==
  ASSUME SenderInv, NEW expired \in SUBSET DOMAIN sentReliable, CheckTimeouts(expired)
  PROVE  SenderInv'
<1> DEFINE n == Cardinality(expired)
           m == Cardinality(DOMAIN sentReliable \ expired)
<1>1. /\ SenderType /\ Once /\ Known /\ FlowAccounting /\ RetransmitsFirst
      /\ outgoing \in Seq(Packets) /\ sentReliable \in Seq(Packets)
  BY DEF SenderInv, SenderType
<1>2. PICK late \in InOrder(expired), rest \in InOrder(DOMAIN sentReliable \ expired) :
        /\ outgoing' = Picked(sentReliable, late) \o outgoing
        /\ sentReliable' = Picked(sentReliable, rest)
  BY DEF CheckTimeouts
<1>3. /\ reliableDataInTransit' = reliableDataInTransit - n
      /\ sending' = TRUE
      /\ UNCHANGED <<submitted, attempted, reliableWindows, usedReliableWindows>>
  BY DEF CheckTimeouts
<1> DEFINE back == Picked(sentReliable, late)
<1>4. /\ n \in Nat /\ back \in Seq(Packets) /\ Len(back) = n
      /\ \A k \in 1 .. n : late[k] \in expired /\ back[k] = sentReliable[late[k]]
      /\ \A j, k \in 1 .. n : late[j] = late[k] => j = k
  BY <1>1, PickedProperties
<1>5. /\ m \in Nat /\ sentReliable' \in Seq(Packets) /\ Len(sentReliable') = m
      /\ \A k \in 1 .. m : /\ rest[k] \in DOMAIN sentReliable \ expired
                           /\ sentReliable'[k] = sentReliable[rest[k]]
      /\ \A j, k \in 1 .. m : rest[j] = rest[k] => j = k
  <2>1. DOMAIN sentReliable \ expired \in SUBSET DOMAIN sentReliable
    OBVIOUS
  <2> DEFINE E == DOMAIN sentReliable \ expired
  <2> HIDE DEF E
  <2>2. E \in SUBSET DOMAIN sentReliable /\ rest \in InOrder(E)
    BY <1>2, <2>1 DEF E
  <2>3. /\ Cardinality(E) \in Nat
        /\ Picked(sentReliable, rest) \in Seq(Packets)
        /\ Len(Picked(sentReliable, rest)) = Cardinality(E)
        /\ \A k \in 1 .. Cardinality(E) :
             rest[k] \in E /\ Picked(sentReliable, rest)[k] = sentReliable[rest[k]]
        /\ \A j, k \in 1 .. Cardinality(E) : rest[j] = rest[k] => j = k
    BY <1>1, <2>2, PickedProperties
  <2> QED
    BY <1>2, <2>3 DEF E
<1>6. n + m = Len(sentReliable)
  <2>1. DOMAIN sentReliable = 1 .. Len(sentReliable) /\ Len(sentReliable) \in Nat
    BY <1>1, LenProperties
  <2>2. IsFiniteSet(DOMAIN sentReliable) /\ Cardinality(DOMAIN sentReliable) = Len(sentReliable)
    BY <2>1, FS_Interval
  <2>3. Cardinality(DOMAIN sentReliable \cap expired) = n
    <3>1. DOMAIN sentReliable \cap expired = expired
      OBVIOUS
    <3> QED
      BY <3>1
  <2>4. m = Len(sentReliable) - Cardinality(DOMAIN sentReliable \cap expired)
    BY <2>2, FS_Difference
  <2> HIDE DEF n, m
  <2> QED
    BY <1>4, <2>1, <2>3, <2>4
<1> HIDE DEF n, m, back
<1>7. /\ Len(outgoing) \in Nat /\ DOMAIN outgoing = 1 .. Len(outgoing)
      /\ outgoing' \in Seq(Packets) /\ DOMAIN outgoing' = 1 .. n + Len(outgoing)
      /\ \A k \in 1 .. n + Len(outgoing) :
           outgoing'[k] = IF k =< n THEN back[k] ELSE outgoing[k - n]
      /\ DOMAIN sentReliable' = 1 .. m
  <2>1. outgoing' = back \o outgoing
    BY <1>2 DEF back
  <2>0. back \in Seq(Packets) /\ outgoing \in Seq(Packets)
    BY <1>1, <1>4
  <2>2. /\ back \o outgoing \in Seq(Packets)
        /\ Len(back \o outgoing) = Len(back) + Len(outgoing)
        /\ \A k \in 1 .. Len(back) + Len(outgoing) :
             (back \o outgoing)[k] = IF k =< Len(back) THEN back[k]
                                    ELSE outgoing[k - Len(back)]
    BY <2>0, ConcatProperties
  <2>3. /\ Len(outgoing) \in Nat /\ DOMAIN outgoing = 1 .. Len(outgoing)
        /\ DOMAIN (back \o outgoing) = 1 .. Len(back \o outgoing)
        /\ DOMAIN sentReliable' = 1 .. Len(sentReliable')
    BY <1>1, <1>5, <2>2, LenProperties
  <2> QED
    BY <1>4, <1>5, <2>1, <2>2, <2>3
\* What stands at each position of the new list.
<1>8. ASSUME NEW k \in DOMAIN outgoing'
      PROVE  \/ k \in 1 .. n /\ outgoing'[k] = sentReliable[late[k]] /\ late[k] \in expired
             \/ k - n \in DOMAIN outgoing /\ k > n /\ outgoing'[k] = outgoing[k - n]
  BY <1>4, <1>7
<1>9. SenderType'
  <2>1. reliableDataInTransit' \in Nat
    BY <1>1, <1>3, <1>4, <1>5, <1>6 DEF FlowAccounting
  <2> QED
    BY <1>1, <1>3, <1>5, <1>7, <2>1 DEF SenderType
<1>10. Once'
  <2>1. ASSUME NEW p \in DOMAIN sentReliable', NEW r \in DOMAIN sentReliable',
               sentReliable'[p] = sentReliable'[r]
        PROVE  p = r
    BY <1>1, <1>5, <1>7, <2>1 DEF Once
  <2>2. ASSUME NEW p \in DOMAIN outgoing', NEW r \in DOMAIN outgoing',
               outgoing'[p] = outgoing'[r]
        PROVE  p = r
    <3>1. CASE p \in 1 .. n /\ r \in 1 .. n
      BY <1>1, <1>4, <1>8, <2>2, <3>1 DEF Once
    <3>2. CASE p > n /\ r > n
      <4>1. p - n = r - n
        BY <1>1, <1>4, <1>8, <2>2, <3>2 DEF Once
      <4> QED
        BY <1>4, <1>7, <4>1
    <3> QED
      BY <1>1, <1>4, <1>7, <1>8, <2>2, <3>1, <3>2 DEF Once
  <2>3. ASSUME NEW p \in DOMAIN sentReliable', NEW r \in DOMAIN outgoing'
        PROVE  sentReliable'[p] # outgoing'[r]
    BY <1>1, <1>5, <1>7, <1>8 DEF Once
  <2> QED
    BY <2>1, <2>2, <2>3 DEF Once
<1>11. Known'
  <2>1. \A p \in DOMAIN sentReliable' : sentReliable'[p] \in attempted'
    BY <1>1, <1>3, <1>5, <1>7 DEF Known
  <2>2. \A p \in DOMAIN outgoing' : outgoing'[p] =< submitted'
    <3>1. \A p \in DOMAIN sentReliable : sentReliable[p] \in 1 .. submitted
      BY <1>1 DEF Known
    <3> QED
      BY <1>1, <1>3, <1>8, <3>1 DEF Known
  <2> QED
    BY <1>1, <1>3, <2>1, <2>2 DEF Known
<1>12. FlowAccounting'
  BY <1>1, <1>3, <1>4, <1>5, <1>6 DEF FlowAccounting
<1>13. RetransmitsFirst'
  <2> SUFFICES ASSUME NEW p \in DOMAIN outgoing', NEW r \in DOMAIN outgoing',
                      p < r, outgoing'[r] \in attempted
               PROVE  outgoing'[p] \in attempted
    BY <1>3 DEF RetransmitsFirst
  <2>1. CASE p \in 1 .. n
    BY <1>1, <1>4, <1>8, <2>1 DEF Known
  <2>2. CASE p > n
    <3>1. r > n /\ p - n < r - n
      BY <1>4, <1>7, <2>2
    <3> QED
      BY <1>1, <1>4, <1>8, <2>2, <3>1 DEF RetransmitsFirst
  <2> QED
    BY <1>4, <1>7, <2>1, <2>2
<1> QED
  BY <1>9, <1>10, <1>11, <1>12, <1>13 DEF SenderInv

\* The head of outgoing moves to the end of sentReliable; it enters the accounts
\* of its window at its first attempt only.
LEMMA SendReliableInv == ASSUME SenderInv, SendReliable PROVE SenderInv'
<1> DEFINE i == Head(outgoing)
           w == Window(Wire(i))
<1>1. /\ SenderType /\ Once /\ Known /\ FlowAccounting /\ RetransmitsFirst
      /\ outgoing \in Seq(Packets) /\ sentReliable \in Seq(Packets)
      /\ outgoing # <<>>
  BY DEF SenderInv, SenderType, SendReliable, Sendable
<1>2. /\ sentReliable' = Append(sentReliable, i)
      /\ outgoing' = Tail(outgoing)
      /\ reliableDataInTransit' = reliableDataInTransit + 1
      /\ UNCHANGED <<submitted, sending>>
  BY DEF SendReliable
<1>3. /\ i \in Packets /\ Len(outgoing) \in Nat \ {0} /\ i = outgoing[1]
      /\ DOMAIN outgoing = 1 .. Len(outgoing)
      /\ outgoing' \in Seq(Packets) /\ DOMAIN outgoing' = 1 .. Len(outgoing) - 1
      /\ \A p \in 1 .. Len(outgoing) - 1 : outgoing'[p] = outgoing[p + 1]
  BY <1>1, <1>2, HeadTailProperties, LenProperties, EmptySeq
<1>4. /\ Len(sentReliable) \in Nat /\ DOMAIN sentReliable = 1 .. Len(sentReliable)
      /\ sentReliable' \in Seq(Packets) /\ Len(sentReliable') = Len(sentReliable) + 1
      /\ DOMAIN sentReliable' = 1 .. Len(sentReliable) + 1
      /\ \A p \in 1 .. Len(sentReliable) : sentReliable'[p] = sentReliable[p]
      /\ sentReliable'[Len(sentReliable) + 1] = i
  <2>1. i \in Packets
    BY <1>3
  <2> HIDE DEF i
  <2>2. /\ Append(sentReliable, i) \in Seq(Packets)
        /\ Len(Append(sentReliable, i)) = Len(sentReliable) + 1
        /\ \A p \in 1 .. Len(sentReliable) : Append(sentReliable, i)[p] = sentReliable[p]
        /\ Append(sentReliable, i)[Len(sentReliable) + 1] = i
    BY <1>1, <2>1, AppendProperties
  <2> QED
    BY <1>1, <1>2, <2>2, LenProperties
<1>5. w \in Windows
  <2>1. i \in Nat
    BY <1>3, Bounds
  <2> HIDE DEF i
  <2> QED
    BY <2>1, WireType, WindowType
\* Both branches of the action add the command to the attempted ones.
<1>6. /\ attempted' = attempted \cup {i}
      /\ i \in attempted => UNCHANGED <<reliableWindows, usedReliableWindows>>
      /\ i \notin attempted =>
           /\ reliableWindows' = [reliableWindows EXCEPT ![w] = @ + 1]
           /\ usedReliableWindows' = usedReliableWindows \cup {w}
  BY DEF SendReliable
<1> HIDE DEF i, w
<1>7. SenderType'
  <2>1. reliableWindows' \in [Windows -> Nat] /\ usedReliableWindows' \subseteq Windows
    BY <1>1, <1>5, <1>6 DEF SenderType
  <2> QED
    BY <1>1, <1>2, <1>3, <1>4, <1>6, <2>1 DEF SenderType
<1>8. Once'
  <2>1. ASSUME NEW p \in DOMAIN sentReliable PROVE sentReliable[p] # i
    BY <1>1, <1>3 DEF Once
  <2>2. ASSUME NEW p \in DOMAIN sentReliable', NEW r \in DOMAIN sentReliable',
               sentReliable'[p] = sentReliable'[r]
        PROVE  p = r
    BY <1>1, <1>4, <2>1, <2>2 DEF Once
  <2>3. ASSUME NEW p \in DOMAIN outgoing', NEW r \in DOMAIN outgoing',
               outgoing'[p] = outgoing'[r]
        PROVE  p = r
    <3>1. /\ p + 1 \in DOMAIN outgoing /\ r + 1 \in DOMAIN outgoing
          /\ outgoing'[p] = outgoing[p + 1] /\ outgoing'[r] = outgoing[r + 1]
      BY <1>3
    <3>2. p + 1 = r + 1
      BY <1>1, <2>3, <3>1 DEF Once
    <3> QED
      BY <1>3, <3>2
  <2>4. ASSUME NEW p \in DOMAIN sentReliable', NEW r \in DOMAIN outgoing'
        PROVE  sentReliable'[p] # outgoing'[r]
    <3>1. r + 1 \in DOMAIN outgoing /\ r + 1 # 1 /\ outgoing'[r] = outgoing[r + 1]
      BY <1>3
    <3>2. outgoing[r + 1] # i
      BY <1>1, <1>3, <3>1 DEF Once
    <3> QED
      BY <1>1, <1>4, <3>1, <3>2 DEF Once
  <2> QED
    BY <2>2, <2>3, <2>4 DEF Once
<1>9. Known'
  <2>1. i \in 1 .. submitted
    <3>1. 1 \in DOMAIN outgoing /\ submitted \in Nat
      BY <1>1, <1>3, Bounds DEF SenderType
    <3>2. outgoing[1] =< submitted
      BY <1>1, <3>1 DEF Known
    <3>3. i \in Nat /\ i >= 1
      BY <1>3, Bounds DEF Packets
    <3> QED
      BY <1>3, <3>1, <3>2, <3>3
  <2>2. \A p \in DOMAIN sentReliable' : sentReliable'[p] \in attempted'
    BY <1>1, <1>4, <1>6 DEF Known
  <2>3. \A p \in DOMAIN outgoing' : outgoing'[p] =< submitted'
    BY <1>1, <1>2, <1>3 DEF Known
  <2> QED
    BY <1>1, <1>2, <1>6, <2>1, <2>2, <2>3 DEF Known
<1>10. FlowAccounting'
  <2>1. IsFiniteSet(attempted)
    BY AttemptedFinite
  <2>2. reliableDataInTransit' = Len(sentReliable')
    BY <1>1, <1>2, <1>4 DEF FlowAccounting
  <2>3. CASE i \in attempted
    <3>1. attempted' = attempted
      BY <1>6, <2>3
    <3> QED
      BY <1>1, <1>6, <2>2, <2>3, <3>1 DEF FlowAccounting
  <2>4. CASE i \notin attempted
    <3>1. ASSUME NEW v \in Windows
          PROVE  /\ reliableWindows[v] \in Nat
                 /\ reliableWindows[v] = Cardinality(InWindow(attempted, v))
                 /\ reliableWindows'[v] = IF v = w THEN reliableWindows[v] + 1
                                          ELSE reliableWindows[v]
      BY <1>1, <1>5, <1>6, <2>4 DEF FlowAccounting, InWindow, SenderType
    <3>2. ASSUME NEW v \in Windows
          PROVE  Cardinality(InWindow(attempted', v)) =
                   IF v = w THEN Cardinality(InWindow(attempted, v)) + 1
                   ELSE Cardinality(InWindow(attempted, v))
      BY <1>6, <2>1, <2>4, CountAdded DEF w
    <3>3. \A v \in Windows : reliableWindows'[v] = Cardinality(InWindow(attempted', v))
      BY <3>1, <3>2
    <3>4. usedReliableWindows' = {v \in Windows : reliableWindows'[v] > 0}
      BY <1>1, <1>5, <1>6, <2>4, <3>1 DEF FlowAccounting
    <3> QED
      BY <2>2, <3>3, <3>4 DEF FlowAccounting, InWindow
  <2> QED
    BY <2>3, <2>4
<1>11. RetransmitsFirst'
  <2> SUFFICES ASSUME NEW p \in DOMAIN outgoing', NEW r \in DOMAIN outgoing',
                      p < r, outgoing'[r] \in attempted'
               PROVE  outgoing'[p] \in attempted'
    BY DEF RetransmitsFirst
  <2>1. /\ p + 1 \in DOMAIN outgoing /\ r + 1 \in DOMAIN outgoing /\ p + 1 < r + 1
        /\ outgoing'[p] = outgoing[p + 1] /\ outgoing'[r] = outgoing[r + 1]
        /\ r + 1 # 1
    BY <1>3
  <2>2. outgoing[r + 1] # i
    BY <1>1, <1>3, <2>1 DEF Once
  <2>3. outgoing[r + 1] \in attempted
    BY <1>6, <2>1, <2>2
  <2> QED
    BY <1>1, <1>6, <2>1, <2>3 DEF RetransmitsFirst
<1> QED
  BY <1>7, <1>8, <1>9, <1>10, <1>11 DEF SenderInv

\* The accounting of a removed command.
LEMMA ForgetAccounting ==
  ASSUME SenderInv, NEW i \in attempted, Forget(i, Wire(i))
  PROVE  /\ attempted' = attempted \ {i}
         /\ reliableWindows' \in [Windows -> Nat]
         /\ \A v \in Windows :
              reliableWindows'[v] = Cardinality(InWindow(attempted', v))
         /\ usedReliableWindows' = {v \in Windows : reliableWindows'[v] > 0}
<1> DEFINE w == Window(Wire(i))
<1>1. /\ SenderType /\ FlowAccounting /\ IsFiniteSet(attempted)
      /\ reliableWindows \in [Windows -> Nat]
  BY AttemptedFinite DEF SenderInv, SenderType
<1>2. w \in Windows
  <2>1. i \in Nat
    BY <1>1, Bounds DEF SenderType
  <2> QED
    BY <2>1, WireType, WindowType
<1>3. /\ \A v \in Windows :
           /\ reliableWindows[v] \in Nat
           /\ reliableWindows[v] = Cardinality(InWindow(attempted, v))
      /\ usedReliableWindows = {v \in Windows : reliableWindows[v] > 0}
  BY <1>1 DEF FlowAccounting, InWindow
\* The window's count is positive: the command itself is counted.
<1>4. reliableWindows[w] > 0
  BY <1>1, <1>2, <1>3, CountRemoved
<1>5. /\ attempted' = attempted \ {i}
      /\ reliableWindows' = [reliableWindows EXCEPT ![w] = @ - 1]
      /\ usedReliableWindows' = IF reliableWindows[w] = 1
                                THEN usedReliableWindows \ {w}
                                ELSE usedReliableWindows
  BY <1>4 DEF Forget
<1>6. ASSUME NEW v \in Windows
      PROVE  Cardinality(InWindow(attempted', v)) =
               IF v = w THEN Cardinality(InWindow(attempted, v)) - 1
               ELSE Cardinality(InWindow(attempted, v))
  BY <1>1, <1>5, CountRemoved
<1> HIDE DEF w
<1>7. ASSUME NEW v \in Windows
      PROVE  reliableWindows'[v] = IF v = w THEN reliableWindows[v] - 1
                                   ELSE reliableWindows[v]
  BY <1>1, <1>2, <1>5
<1>8. reliableWindows' \in [Windows -> Nat]
  BY <1>1, <1>2, <1>3, <1>4, <1>5
<1>9. \A v \in Windows : reliableWindows'[v] = Cardinality(InWindow(attempted', v))
  BY <1>3, <1>6, <1>7
<1>10. usedReliableWindows' = {v \in Windows : reliableWindows'[v] > 0}
  BY <1>2, <1>3, <1>4, <1>5, <1>7
<1> QED
  BY <1>5, <1>8, <1>9, <1>10

\* enet_protocol_remove_sent_reliable_command, whichever list the command is
\* found in.
LEMMA RemoveSentReliableInv ==
  ASSUME SenderInv, NEW q, RemoveSentReliable(q), UNCHANGED <<submitted, sending>>
  PROVE  SenderInv'
<1>1. /\ SenderType /\ Once /\ Known /\ FlowAccounting /\ RetransmitsFirst
      /\ outgoing \in Seq(Packets) /\ sentReliable \in Seq(Packets)
  BY DEF SenderInv, SenderType
<1>2. /\ Len(outgoing) \in Nat /\ DOMAIN outgoing = 1 .. Len(outgoing)
      /\ Len(sentReliable) \in Nat /\ DOMAIN sentReliable = 1 .. Len(sentReliable)
  BY <1>1, LenProperties
<1>3. CASE FoundSent(q) # {}
  <2> DEFINE p == First(FoundSent(q))
             i == sentReliable[p]
  <2>1. p \in DOMAIN sentReliable /\ Wire(i) = q
    <3>1. FoundSent(q) \subseteq Nat
      BY <1>2 DEF FoundSent
    <3>2. p \in FoundSent(q)
      BY <1>3, <3>1, FirstIsLeast
    <3> QED
      BY <3>2 DEF FoundSent
  <2>2. /\ sentReliable' = RemoveAt(sentReliable, p)
        /\ reliableDataInTransit' = reliableDataInTransit - 1
        /\ Forget(i, q)
        /\ outgoing' = outgoing
    BY <1>3 DEF RemoveSentReliable
  <2> HIDE DEF p
  <2>3. /\ sentReliable' \in Seq(Packets)
        /\ Len(sentReliable') = Len(sentReliable) - 1
        /\ \A k \in 1 .. Len(sentReliable) - 1 :
             sentReliable'[k] = sentReliable[IF k < p THEN k ELSE k + 1]
    BY <1>1, <2>1, <2>2, RemoveAtProperties
  <2>4. /\ DOMAIN sentReliable' = 1 .. Len(sentReliable) - 1
        /\ p \in 1 .. Len(sentReliable) /\ Len(sentReliable) >= 1
    BY <1>2, <2>1, <2>3, LenProperties
  <2>5. i \in attempted
    BY <1>1, <2>1 DEF Known
  <2>6. /\ attempted' = attempted \ {i}
        /\ reliableWindows' \in [Windows -> Nat]
        /\ \A v \in Windows :
             reliableWindows'[v] = Cardinality(InWindow(attempted', v))
        /\ usedReliableWindows' = {v \in Windows : reliableWindows'[v] > 0}
    BY <2>1, <2>2, <2>5, ForgetAccounting
  <2> HIDE DEF i
  <2>7. i = sentReliable[p]
    BY DEF i
  \* Every other command keeps its place in the list or moves up by one.
  <2>8. ASSUME NEW k \in DOMAIN sentReliable'
        PROVE  \E s \in DOMAIN sentReliable :
                 /\ s = IF k < p THEN k ELSE k + 1
                 /\ s # p
                 /\ sentReliable'[k] = sentReliable[s]
    BY <1>2, <2>3, <2>4
  <2>9. SenderType'
    <3>1. reliableDataInTransit' \in Nat
      BY <1>1, <2>2, <2>4 DEF FlowAccounting
    <3> QED
      BY <1>1, <2>2, <2>3, <2>6, <3>1 DEF SenderType
  <2>10. Once'
    <3>1. ASSUME NEW j \in DOMAIN sentReliable', NEW k \in DOMAIN sentReliable',
                 sentReliable'[j] = sentReliable'[k]
          PROVE  j = k
      <4>1. PICK s \in DOMAIN sentReliable :
              s = (IF j < p THEN j ELSE j + 1) /\ sentReliable'[j] = sentReliable[s]
        BY <2>8
      <4>2. PICK t \in DOMAIN sentReliable :
              t = (IF k < p THEN k ELSE k + 1) /\ sentReliable'[k] = sentReliable[t]
        BY <2>8
      <4>3. s = t
        BY <1>1, <3>1, <4>1, <4>2 DEF Once
      <4> QED
        BY <2>4, <4>1, <4>2, <4>3
    <3> QED
      BY <1>1, <2>2, <2>8, <3>1 DEF Once
  <2>11. Known'
    <3>1. \A k \in DOMAIN sentReliable' : sentReliable'[k] \in attempted'
      BY <1>1, <2>1, <2>6, <2>7, <2>8 DEF Known, Once
    <3> QED
      BY <1>1, <2>2, <2>6, <3>1 DEF Known
  <2>12. FlowAccounting'
    BY <1>1, <2>2, <2>3, <2>6 DEF FlowAccounting, InWindow
  <2>13. RetransmitsFirst'
    <3>1. \A k \in DOMAIN outgoing : outgoing[k] # i
      BY <1>1, <2>1, <2>7 DEF Once
    <3> QED
      BY <1>1, <2>2, <2>6, <3>1 DEF RetransmitsFirst
  <2> QED
    BY <2>9, <2>10, <2>11, <2>12, <2>13 DEF SenderInv
<1>4. CASE FoundSent(q) = {} /\ FoundOutgoing(q) # {}
  <2> DEFINE p == First(FoundOutgoing(q))
             i == outgoing[p]
  <2>1. p \in DOMAIN outgoing /\ Wire(i) = q /\ i \in attempted
    <3>1. FoundOutgoing(q) \subseteq Nat
      BY <1>2 DEF FoundOutgoing
    <3>2. p \in FoundOutgoing(q)
      BY <1>4, <3>1, FirstIsLeast
    <3>3. p \in 1 .. p
      BY <3>1, <3>2, <1>2 DEF FoundOutgoing
    <3> QED
      BY <3>2, <3>3 DEF FoundOutgoing
  <2>2. /\ outgoing' = RemoveAt(outgoing, p)
        /\ Forget(i, q)
        /\ UNCHANGED <<sentReliable, reliableDataInTransit>>
    BY <1>4 DEF RemoveSentReliable
  <2> HIDE DEF p
  <2>3. /\ outgoing' \in Seq(Packets)
        /\ Len(outgoing') = Len(outgoing) - 1
        /\ \A k \in 1 .. Len(outgoing) - 1 :
             outgoing'[k] = outgoing[IF k < p THEN k ELSE k + 1]
    BY <1>1, <2>1, <2>2, RemoveAtProperties
  <2>4. /\ DOMAIN outgoing' = 1 .. Len(outgoing) - 1
        /\ p \in 1 .. Len(outgoing) /\ Len(outgoing) >= 1
    BY <1>2, <2>1, <2>3, LenProperties
  <2>6. /\ attempted' = attempted \ {i}
        /\ reliableWindows' \in [Windows -> Nat]
        /\ \A v \in Windows :
             reliableWindows'[v] = Cardinality(InWindow(attempted', v))
        /\ usedReliableWindows' = {v \in Windows : reliableWindows'[v] > 0}
    BY <2>1, <2>2, ForgetAccounting
  <2> HIDE DEF i
  <2>7. i = outgoing[p]
    BY DEF i
  <2>8. ASSUME NEW k \in DOMAIN outgoing'
        PROVE  \E s \in DOMAIN outgoing :
                 /\ s = IF k < p THEN k ELSE k + 1
                 /\ s # p
                 /\ outgoing'[k] = outgoing[s]
    BY <1>2, <2>3, <2>4
  <2>9. SenderType'
    BY <1>1, <2>2, <2>3, <2>6 DEF SenderType
  <2>10. Once'
    <3>1. ASSUME NEW j \in DOMAIN outgoing', NEW k \in DOMAIN outgoing',
                 outgoing'[j] = outgoing'[k]
          PROVE  j = k
      <4>1. PICK s \in DOMAIN outgoing :
              s = (IF j < p THEN j ELSE j + 1) /\ outgoing'[j] = outgoing[s]
        BY <2>8
      <4>2. PICK t \in DOMAIN outgoing :
              t = (IF k < p THEN k ELSE k + 1) /\ outgoing'[k] = outgoing[t]
        BY <2>8
      <4>3. s = t
        BY <1>1, <3>1, <4>1, <4>2 DEF Once
      <4> QED
        BY <2>4, <4>1, <4>2, <4>3
    <3> QED
      BY <1>1, <2>2, <2>8, <3>1 DEF Once
  <2>11. Known'
    <3>1. \A k \in DOMAIN sentReliable' : sentReliable'[k] \in attempted'
      BY <1>1, <2>1, <2>2, <2>6, <2>7 DEF Known, Once
    <3>2. \A k \in DOMAIN outgoing' : outgoing'[k] =< submitted'
      BY <1>1, <2>8 DEF Known
    <3> QED
      BY <1>1, <2>6, <3>1, <3>2 DEF Known
  <2>12. FlowAccounting'
    BY <1>1, <2>2, <2>6 DEF FlowAccounting, InWindow
  <2>13. RetransmitsFirst'
    <3> SUFFICES ASSUME NEW j \in DOMAIN outgoing', NEW k \in DOMAIN outgoing',
                        j < k, outgoing'[k] \in attempted'
                 PROVE  outgoing'[j] \in attempted'
      BY DEF RetransmitsFirst
    <3>1. PICK s \in DOMAIN outgoing :
            /\ s = (IF j < p THEN j ELSE j + 1) /\ s # p
            /\ outgoing'[j] = outgoing[s]
      BY <2>8
    <3>2. PICK t \in DOMAIN outgoing :
            /\ t = (IF k < p THEN k ELSE k + 1) /\ outgoing'[k] = outgoing[t]
      BY <2>8
    <3>3. s < t
      BY <2>4, <3>1, <3>2
    <3>4. outgoing[s] \in attempted
      BY <1>1, <2>6, <3>2, <3>3 DEF RetransmitsFirst
    <3>5. outgoing[s] # i
      BY <1>1, <2>1, <2>7, <3>1 DEF Once
    <3> QED
      BY <2>6, <3>1, <3>4, <3>5
  <2> QED
    BY <2>9, <2>10, <2>11, <2>12, <2>13 DEF SenderInv
<1>5. CASE FoundSent(q) \cup FoundOutgoing(q) = {}
  <2>1. UNCHANGED senderVars
    BY <1>5 DEF RemoveSentReliable, senderVars
  <2> QED
    BY <2>1, SenderUnchanged
<1> QED
  BY <1>3, <1>4, <1>5

\* Every step keeps the sender's invariant.
LEMMA SenderStep == ASSUME SenderInv, [Next]_vars PROVE SenderInv'
<1>1. CASE Send
  BY <1>1, SendInv
<1>2. CASE \E expired \in SUBSET DOMAIN sentReliable : CheckTimeouts(expired)
  BY <1>2, CheckTimeoutsInv
<1>3. CASE SendReliable
  BY <1>3, SendReliableInv
<1>4. CASE EndPass \/ SocketError
  BY <1>4 DEF EndPass, SocketError, SenderInv, SenderType, Once, Known, FlowAccounting,
              RetransmitsFirst
<1>5. ASSUME NEW i \in Packets, HandleAcknowledge(i) PROVE SenderInv'
  <2>1. RemoveSentReliable(Wire(i)) /\ UNCHANGED <<submitted, sending>>
    BY <1>5 DEF HandleAcknowledge
  <2> QED
    BY <2>1, RemoveSentReliableInv
<1>6. ASSUME NEW i \in Packets, HandleSendReliable(i) PROVE SenderInv'
  BY <1>6, SenderUnchanged DEF HandleSendReliable
<1>7. CASE SendAcknowledgements \/ Receive \/ LoseData \/ LoseAck
  BY <1>7, SenderUnchanged DEF SendAcknowledgements, Receive, LoseData, LoseAck
<1>8. CASE UNCHANGED vars
  BY <1>8, SenderUnchanged DEF vars
<1> QED
  BY <1>1, <1>2, <1>3, <1>4, <1>5, <1>6, <1>7, <1>8 DEF Next, NextNoError

-----------------------------------------------------------------------------
(* The receiver's steps and the network's. *)

\* The place enet_peer_queue_incoming_command finds is in the list or before it.
LEMMA LastNotAfterType ==
  ASSUME ReceiverType, NEW q
  PROVE  LastNotAfter(q) \in 0 .. Len(incomingReliable)
<1> DEFINE n == incomingReliableSequenceNumber
           S == {p \in DOMAIN incomingReliable :
                   Unwrap(Wire(incomingReliable[p]), n) =< Unwrap(q, n)}
           len == Len(incomingReliable)
           last == CHOOSE p \in S : \A r \in S : r =< p
<1>1. len \in Nat /\ DOMAIN incomingReliable = 1 .. len
  BY LenProperties DEF ReceiverType
<1>2. LastNotAfter(q) = IF S = {} THEN 0 ELSE last
  BY DEF LastNotAfter
<1>3. S \subseteq 1 .. len
  BY <1>1
<1>4. S # {} => last \in S
  <2> HIDE DEF S, len
  <2> QED
    BY <1>1, <1>3, LastIsGreatest
<1> HIDE DEF S, last, len
<1>5. CASE S = {}
  BY <1>1, <1>2, <1>5 DEF len
<1>6. CASE S # {}
  <2>1. last \in 1 .. len /\ LastNotAfter(q) = last
    BY <1>2, <1>3, <1>4, <1>6
  <2> QED
    BY <1>1, <2>1 DEF len
<1> QED
  BY <1>5, <1>6

\* The loop of enet_peer_dispatch_incoming_reliable_commands stops: there is a
\* number of commands to dispatch, and it is the one that Ready describes.
LEMMA ReadyProperties ==
  ASSUME NEW s \in Seq(Packets), NEW n \in Nat
  PROVE  /\ Ready(s, n) \in 0 .. Len(s)
         /\ \A p \in 1 .. Ready(s, n) : Wire(s[p]) = Wire(n + p)
         /\ Ready(s, n) < Len(s) => Wire(s[Ready(s, n) + 1]) # Wire(n + Ready(s, n) + 1)
<1> DEFINE T == {k \in 0 .. Len(s) : k = Len(s) \/ Wire(s[k + 1]) # Wire(n + k + 1)}
           k == First(T)
<1>1. Len(s) \in Nat
  BY LenProperties
<1>2. T \subseteq Nat /\ Len(s) \in T
  BY <1>1
<1>3. k \in T /\ \A r \in T : k =< r
  BY <1>2, FirstIsLeast
<1> HIDE DEF k
<1>4. ASSUME NEW p \in 1 .. k PROVE Wire(s[p]) = Wire(n + p)
  <2>1. k \in 0 .. Len(s)
    BY <1>3
  <2>2. p - 1 \in 0 .. Len(s) /\ p - 1 # Len(s) /\ p - 1 < k
    BY <1>1, <2>1
  <2>3. p - 1 \notin T
    <3> HIDE DEF T
    <3>1. p - 1 \in T => k =< p - 1
      BY <1>3
    <3> QED
      BY <2>1, <2>2, <3>1
  <2>4. ~ (Wire(s[(p - 1) + 1]) # Wire(n + (p - 1) + 1))
    BY <2>2, <2>3
  <2>5. (p - 1) + 1 = p /\ n + (p - 1) + 1 = n + p
    BY <2>1
  <2> QED
    BY <2>4, <2>5
<1>5. k \in 0 .. Len(s) /\ (k < Len(s) => Wire(s[k + 1]) # Wire(n + k + 1))
  BY <1>1, <1>3
<1> QED
  BY <1>4, <1>5 DEF Ready

\* A new channel has received nothing.
LEMMA InitReceiver == Init => NetworkType /\ ReceiverType
<1>1. 0 \in 0 .. SeqSpace - 1
  BY SeqSpacePositive
<1>2. <<>> \in Seq(Packets)
  BY EmptySeq
<1> QED
  BY <1>1, <1>2 DEF Init, NetworkType, ReceiverType

\* Queueing a command and dispatching what is ready keeps the lists lists of
\* packets and the sequence number in the sequence space.
LEMMA AcceptType ==
  ASSUME ReceiverType, NEW i \in Packets, Accept(i)
  PROVE  /\ incomingReliableSequenceNumber' \in 0 .. SeqSpace - 1
         /\ incomingReliable' \in Seq(Packets)
         /\ dispatched' \in Seq(Packets)
<1> DEFINE at == LastNotAfter(Wire(i)) + 1
           s == InsertAt(incomingReliable, at, i)
           n == incomingReliableSequenceNumber
           k == Ready(s, n)
<1>1. /\ incomingReliable' = SubSeq(s, k + 1, Len(s))
      /\ dispatched' = dispatched \o SubSeq(s, 1, k)
      /\ incomingReliableSequenceNumber' = Wire(n + k)
  BY DEF Accept
<1>2. /\ incomingReliable \in Seq(Packets) /\ dispatched \in Seq(Packets)
      /\ n \in Nat /\ Len(incomingReliable) \in Nat
  BY SeqSpacePositive, LenProperties DEF ReceiverType
<1>3. at \in 1 .. Len(incomingReliable) + 1
  <2>1. LastNotAfter(Wire(i)) \in 0 .. Len(incomingReliable)
    BY LastNotAfterType
  <2> QED
    BY <1>2, <2>1
<1> HIDE DEF at, n
<1>4. s \in Seq(Packets)
  BY <1>2, <1>3, InsertAtProperties
<1> HIDE DEF s
<1>5. k \in 0 .. Len(s) /\ Len(s) \in Nat
  BY <1>2, <1>4, ReadyProperties, LenProperties
<1> HIDE DEF k
<1>6. \A p \in 1 .. Len(s) : s[p] \in Packets
  BY <1>4, ElementOfSeq
<1>7. SubSeq(s, k + 1, Len(s)) \in Seq(Packets)
  BY <1>4, <1>5, <1>6, SubSeqProperties
<1>8. SubSeq(s, 1, k) \in Seq(Packets)
  BY <1>4, <1>5, <1>6, SubSeqProperties
<1>9. dispatched \o SubSeq(s, 1, k) \in Seq(Packets)
  BY <1>2, <1>8, ConcatProperties
<1>10. n + k \in Nat
  BY <1>2, <1>5
<1>11. Wire(n + k) \in 0 .. SeqSpace - 1
  BY <1>10, WireType
<1> QED
  BY <1>1, <1>7, <1>9, <1>11

\* The whole handler of a SEND_RELIABLE command does so too.
LEMMA HandleSendReliableType ==
  ASSUME NetworkType, ReceiverType, NEW i \in Packets, HandleSendReliable(i)
  PROVE  NetworkType' /\ ReceiverType'
<1>1. NetworkType'
  BY DEF HandleSendReliable, NetworkType
<1>2. /\ acknowledgements' \subseteq Packets
      /\ delivered' = delivered
  BY DEF HandleSendReliable, QueueAcknowledgement, ReceiverType
<1>3. \/ Accept(i)
      \/ UNCHANGED <<incomingReliable, dispatched, incomingReliableSequenceNumber>>
  BY DEF HandleSendReliable
<1>4. /\ incomingReliableSequenceNumber' \in 0 .. SeqSpace - 1
      /\ incomingReliable' \in Seq(Packets)
      /\ dispatched' \in Seq(Packets)
  BY <1>3, AcceptType DEF ReceiverType
<1> QED
  BY <1>1, <1>2, <1>4 DEF ReceiverType

\* The network carries only what was put into it.
LEMMA TransmitType ==
  ASSUME NEW net, NEW new, NEW netNext, net \subseteq Packets, new \subseteq Packets,
         Transmit(net, new, netNext)
  PROVE  netNext \subseteq Packets
  BY DEF Transmit

\* Every step keeps the types of the network and of the receiver.
LEMMA ReceiverStep ==
  ASSUME SenderInv, NetworkType, ReceiverType, [Next]_vars
  PROVE  NetworkType' /\ ReceiverType'
<1>1. CASE \/ Send
           \/ \E expired \in SUBSET DOMAIN sentReliable : CheckTimeouts(expired)
           \/ EndPass \/ SocketError
  BY <1>1 DEF Send, CheckTimeouts, EndPass, SocketError, networkVars, receiverVars,
              NetworkType, ReceiverType
<1>2. CASE SendReliable
  <2>1. Head(outgoing) \in Packets
    BY <1>2, HeadTailProperties DEF SendReliable, Sendable, SenderInv, SenderType
  <2>2. Transmit(dataNet, {Head(outgoing)}, dataNet')
    BY <1>2 DEF SendReliable
  <2>3. dataNet' \subseteq Packets
    BY <2>1, <2>2, TransmitType DEF NetworkType
  <2> QED
    BY <1>2, <2>3 DEF SendReliable, receiverVars, NetworkType, ReceiverType
<1>3. ASSUME NEW i \in Packets, HandleAcknowledge(i) PROVE NetworkType' /\ ReceiverType'
  BY <1>3 DEF HandleAcknowledge, receiverVars, NetworkType, ReceiverType
<1>4. ASSUME NEW i \in Packets, HandleSendReliable(i) PROVE NetworkType' /\ ReceiverType'
  BY <1>4, HandleSendReliableType
<1>5. CASE SendAcknowledgements
  <2>1. ackNet' \subseteq Packets
    BY <1>5, TransmitType DEF SendAcknowledgements, NetworkType, ReceiverType
  <2> QED
    BY <1>5, <2>1 DEF SendAcknowledgements, NetworkType, ReceiverType
<1>6. CASE Receive
  <2>1. /\ Head(dispatched) \in Packets
        /\ dispatched' \in Seq(Packets)
    BY <1>6, HeadTailProperties DEF Receive, ReceiverType
  <2>2. delivered' \in Seq(Packets)
    BY <1>6, <2>1, AppendProperties DEF Receive, ReceiverType
  <2> QED
    BY <1>6, <2>1, <2>2 DEF Receive, networkVars, NetworkType, ReceiverType
<1>7. CASE LoseData \/ LoseAck
  BY <1>7 DEF LoseData, LoseAck, receiverVars, NetworkType, ReceiverType
<1>8. CASE UNCHANGED vars
  BY <1>8 DEF vars, networkVars, receiverVars, NetworkType, ReceiverType
<1> QED
  BY <1>1, <1>2, <1>3, <1>4, <1>5, <1>6, <1>7, <1>8 DEF Next, NextNoError

-----------------------------------------------------------------------------
(* The theorems. *)

\* The inductive invariant holds in every reachable state, whatever the window
\* sizes, the bounds and the number of packets.
THEOREM ChannelInvariant == Spec => [](SenderInv /\ NetworkType /\ ReceiverType)
<1> DEFINE IInv == SenderInv /\ NetworkType /\ ReceiverType
<1>1. Init => IInv
  BY InitSender, InitReceiver
<1>2. IInv /\ [Next]_vars => IInv'
  BY SenderStep, ReceiverStep
<1> QED
  BY <1>1, <1>2, PTL DEF Spec

\* Every list of either peer only ever holds packets that enet_peer_send
\* accepted, no counter goes below zero and the sequence numbers stay in their
\* 16 bits (protocol.cpp:189-272, 1414-1464 and 1467-1588, peer.cpp:825-989).
THEOREM TypeCorrect == Spec => []TypeOK
<1>1. SenderInv /\ NetworkType /\ ReceiverType => TypeOK
  BY DEF SenderInv, SenderType, NetworkType, ReceiverType, TypeOK
<1> QED
  BY <1>1, ChannelInvariant, PTL

\* Timeouts, retransmissions and acknowledgements found in either list leave
\* reliableWindows, usedReliableWindows and reliableDataInTransit in agreement
\* with the lists: the window gate (protocol.cpp:1488) and the flow control
\* (protocol.cpp:1503) never count a command twice or for ever.
THEOREM FlowAlwaysAccounted == Spec => []FlowAccounting
<1>1. SenderInv => FlowAccounting
  BY DEF SenderInv
<1> QED
  BY <1>1, ChannelInvariant, PTL

\* Commands that timed out always precede those never sent, so that the search
\* of outgoingReliableCommands for an acknowledged command may stop at the
\* first command without a send attempt (protocol.cpp:215).
THEOREM RetransmitsAlwaysFirst == Spec => []RetransmitsFirst
<1>1. SenderInv => RetransmitsFirst
  BY DEF SenderInv
<1> QED
  BY <1>1, ChannelInvariant, PTL

-----------------------------------------------------------------------------
(* The stream, from end to end. *)

\* No packet that may be in flight or unacknowledged is further behind the last
\* one sent for the first time: what the sender's window gate allows.
Reach ==
  (RELIABLE_WINDOWS - FREE_RELIABLE_WINDOWS + 1) * RELIABLE_WINDOW_SIZE

\* t is the last packet that was sent for the first time: the commands of
\* outgoing that were never sent are those after t, behind the retransmissions.
Sent(t) ==
  LET again == Len(outgoing) - (submitted - t) IN
  /\ t \in 0 .. submitted
  /\ attempted \subseteq 1 .. t
  /\ again >= 0
  /\ \A p \in DOMAIN outgoing :
       IF p =< again THEN outgoing[p] \in attempted ELSE outgoing[p] = t + p - again

\* The window gate of the sender: no unacknowledged command is so far behind
\* the last one sent that its window would be counted with a free one.
SenderSpan(t) ==
  \A i \in attempted :
    Window(t) =< Window(i) + (RELIABLE_WINDOWS - FREE_RELIABLE_WINDOWS)

\* The sender is never further than the windows whose acknowledgements the
\* receiver suppresses; what waits at the receiver is in those it accepts.
ReceiverSpan(t) ==
  /\ accepted =< t
  /\ Window(t) =< Window(accepted) + FREE_RELIABLE_WINDOWS
  /\ \A p \in DOMAIN incomingReliable :
       /\ incomingReliable[p] =< t
       /\ Window(incomingReliable[p]) =< Window(accepted) + FREE_RELIABLE_WINDOWS - 2

Received(i) == i =< accepted \/ \E p \in DOMAIN incomingReliable : incomingReliable[p] = i

\* What was sent is kept by the sender until the receiver has it.
Held(t) == \A i \in 1 .. t : i \in attempted \/ Received(i)

\* Nothing in the network or about to enter it is older than Reach.
Fresh(t) ==
  \A d \in dataNet \cup ackNet \cup acknowledgements : d =< t /\ t =< d + Reach

\* The receiver only acknowledges what it has.
AcknowledgesReceived == \A d \in ackNet \cup acknowledgements : Received(d)

\* AcceptedInOrder, element by element.
HandedOut ==
  /\ \A k \in DOMAIN delivered : delivered[k] = k
  /\ \A k \in DOMAIN dispatched : dispatched[k] = Len(delivered) + k
  /\ incomingReliableSequenceNumber = Wire(accepted)

StreamPosition(t) ==
  Sent(t) /\ SenderSpan(t) /\ ReceiverSpan(t) /\ Held(t) /\ Fresh(t)

\* The inductive invariant of both ends and the network between them.
StreamInv ==
  /\ \E t \in 0 .. submitted : StreamPosition(t)
  /\ AcknowledgesReceived
  /\ WaitingOrdered
  /\ HandedOut

-----------------------------------------------------------------------------
(* Numbers and windows. *)

\* The constants as the lemmas on windows need them.
LEMMA WindowConstants ==
  /\ RELIABLE_WINDOWS \in Nat \ {0} /\ RELIABLE_WINDOW_SIZE \in Nat \ {0}
  /\ FREE_RELIABLE_WINDOWS \in 3 .. RELIABLE_WINDOWS
  /\ Reach \in Nat /\ SeqSpace \in Nat \ {0}
  /\ Reach + 2 * RELIABLE_WINDOW_SIZE =< SeqSpace
  /\ SeqSpace = Reach + RELIABLE_WINDOW_SIZE * (FREE_RELIABLE_WINDOWS - 1)
<1> DEFINE W == RELIABLE_WINDOWS
           K == RELIABLE_WINDOW_SIZE
           F == FREE_RELIABLE_WINDOWS
<1>1. W \in Nat \ {0} /\ K \in Nat \ {0} /\ F \in 3 .. W
  BY WindowAssumption
<1> HIDE DEF W, K, F
<1>2. PICK a \in Nat : a + F = W
  BY <1>1
<1>3. (W - F + 1) * K = a * K + K
  BY <1>1, <1>2
<1>4. W * K = a * K + F * K
  BY <1>1, <1>2
<1>5. F * K >= 3 * K
  BY <1>1
<1>6. a * K \in Nat /\ F * K \in Nat
  BY <1>1, <1>2
<1>7. K * (F - 1) = F * K - K
  BY <1>1
<1> QED
  BY <1>1, <1>3, <1>4, <1>5, <1>6, <1>7 DEF W, K, F, Reach, SeqSpace

\* A window of the (unbounded) packet numbers is an interval of them.
LEMMA WindowInterval ==
  ASSUME NEW i \in Nat
  PROVE  /\ Window(i) \in Nat
         /\ RELIABLE_WINDOW_SIZE * Window(i) \in Nat
         /\ RELIABLE_WINDOW_SIZE * Window(i) =< i
         /\ i < RELIABLE_WINDOW_SIZE * Window(i) + RELIABLE_WINDOW_SIZE
<1> DEFINE K == RELIABLE_WINDOW_SIZE
<1>1. K \in Nat \ {0}
  BY WindowConstants
<1> HIDE DEF K
<1>2. i \div K \in Nat /\ i % K \in 0 .. K - 1 /\ i = K * (i \div K) + (i % K)
  BY <1>1, Quotient
<1>3. K * (i \div K) \in Nat
  BY <1>1, <1>2
<1> QED
  BY <1>1, <1>2, <1>3 DEF Window, K

\* An interval of packet numbers is one of windows.
LEMMA WindowOf ==
  ASSUME NEW i \in Nat, NEW w \in Nat,
         RELIABLE_WINDOW_SIZE * w =< i,
         i < RELIABLE_WINDOW_SIZE * w + RELIABLE_WINDOW_SIZE
  PROVE  Window(i) = w
<1> DEFINE K == RELIABLE_WINDOW_SIZE
           r == i - K * w
<1>1. K \in Nat \ {0}
  BY WindowConstants
<1> HIDE DEF K
<1>2. K * w \in Nat /\ K * w =< i /\ i < K * w + K
  BY <1>1 DEF K
<1>3. r \in 0 .. K - 1 /\ i = K * w + r
  BY <1>1, <1>2
<1> QED
  BY <1>1, <1>3, QuotientUnique DEF Window, K

\* Windows are in the order of their numbers.
LEMMA WindowMonotone ==
  ASSUME NEW i \in Nat, NEW j \in Nat, i =< j
  PROVE  Window(i) =< Window(j)
<1> DEFINE K == RELIABLE_WINDOW_SIZE
           v == Window(i)
           w == Window(j)
<1>1. /\ K \in Nat \ {0} /\ v \in Nat /\ w \in Nat
      /\ K * v \in Nat /\ K * w \in Nat /\ K * v =< i /\ j < K * w + K
  BY WindowConstants, WindowInterval
<1> HIDE DEF K, v, w
<1>2. ASSUME w < v PROVE FALSE
  <2>1. K * (w + 1) =< K * v
    BY <1>1, <1>2
  <2>2. K * (w + 1) = K * w + K
    BY <1>1
  <2> QED
    BY <1>1, <2>1, <2>2
<1> QED
  BY <1>1, <1>2 DEF v, w

\* Only the first number of a window begins a new one, and only when the last
\* one of the window before has been passed.
LEMMA WindowNext ==
  ASSUME NEW i \in Nat
  PROVE  \/ /\ (i + 1) % RELIABLE_WINDOW_SIZE = 0
            /\ Window(i + 1) = Window(i) + 1
            /\ i = RELIABLE_WINDOW_SIZE * Window(i) + RELIABLE_WINDOW_SIZE - 1
         \/ /\ (i + 1) % RELIABLE_WINDOW_SIZE # 0
            /\ Window(i + 1) = Window(i)
<1> DEFINE K == RELIABLE_WINDOW_SIZE
           w == Window(i)
<1>1. /\ K \in Nat \ {0} /\ w \in Nat /\ K * w \in Nat
      /\ K * w =< i /\ i < K * w + K
  BY WindowConstants, WindowInterval
<1> HIDE DEF K, w
<1>2. CASE i = K * w + K - 1
  <2>1. i + 1 = K * (w + 1) + 0 /\ 0 \in 0 .. K - 1 /\ w + 1 \in Nat
    BY <1>1, <1>2
  <2>2. (K * (w + 1) + 0) \div K = w + 1 /\ (K * (w + 1) + 0) % K = 0
    BY <1>1, <2>1, QuotientUnique
  <2>3. (i + 1) \div K = w + 1 /\ (i + 1) % K = 0
    BY <2>1, <2>2
  <2> QED
    BY <1>2, <2>3 DEF Window, K, w
<1>3. CASE i # K * w + K - 1
  <2> DEFINE r == i + 1 - K * w
  <2>1. r \in 1 .. K - 1 /\ i + 1 = K * w + r
    BY <1>1, <1>3
  <2> HIDE DEF r
  <2>2. (i + 1) \div K = w /\ (i + 1) % K = r
    BY <1>1, <2>1, QuotientUnique
  <2>3. (i + 1) % K # 0
    BY <1>1, <2>1, <2>2
  <2> QED
    BY <2>2, <2>3 DEF Window, K, w
<1> QED
  BY <1>2, <1>3

\* Where a packet number is in the turns of the sequence space.
LEMMA Turn ==
  ASSUME NEW i \in Nat
  PROVE  \E a \in Nat : /\ Wire(i) \in 0 .. SeqSpace - 1
                        /\ i = SeqSpace * a + Wire(i)
                        /\ Window(i) = RELIABLE_WINDOWS * a + Window(Wire(i))
                        /\ Window(Wire(i)) \in 0 .. RELIABLE_WINDOWS - 1
                        /\ i % RELIABLE_WINDOW_SIZE = Wire(i) % RELIABLE_WINDOW_SIZE
<1> DEFINE W == RELIABLE_WINDOWS
           K == RELIABLE_WINDOW_SIZE
           N == SeqSpace
           a == i \div N
           q == Wire(i)
           b == q \div K
           c == q % K
<1>1. W \in Nat \ {0} /\ K \in Nat \ {0} /\ N \in Nat \ {0} /\ N = W * K
  BY WindowConstants DEF SeqSpace
<1>2. a \in Nat /\ q \in 0 .. N - 1 /\ i = N * a + q
  <2> HIDE DEF N
  <2>1. i \div N \in Nat /\ i % N \in 0 .. N - 1 /\ i = N * (i \div N) + (i % N)
    BY <1>1, Quotient
  <2> QED
    BY <2>1 DEF N, Wire
<1> HIDE DEF N, a, q
<1>3. b \in Nat /\ c \in 0 .. K - 1 /\ q = K * b + c
  <2>1. q \in Nat
    BY <1>1, <1>2
  <2> QED
    BY <1>1, <2>1, Quotient
<1>4. b \in 0 .. W - 1
  BY <1>2, WindowType DEF q, N, Window, Windows
<1> HIDE DEF b, c, W, K
<1>5. N * a = K * (W * a)
  BY <1>1, <1>2
<1>6. W * a \in Nat /\ W * a + b \in Nat
  BY <1>1, <1>2, <1>3
<1>7. K * (W * a) + K * b = K * (W * a + b)
  BY <1>1, <1>3, <1>6
<1>8. i = K * (W * a + b) + c
  <2> DEFINE x == K * (W * a)
             y == K * b
             z == K * (W * a + b)
  <2>1. x + y = z /\ i = x + q /\ q = y + c /\ x \in Int /\ y \in Int /\ z \in Int
    BY <1>1, <1>2, <1>3, <1>5, <1>6, <1>7
  <2> HIDE DEF x, y, z
  <2>2. i = z + c
    BY <1>1, <1>3, <2>1
  <2> QED
    BY <2>2 DEF z
<1>9. i \div K = W * a + b /\ i % K = c
  BY <1>1, <1>3, <1>6, <1>8, QuotientUnique
<1> QED
  BY <1>2, <1>4, <1>9 DEF W, K, N, a, q, b, c, Window

\* Windows further on.
LEMMA WindowShift ==
  ASSUME NEW i \in Nat, NEW a \in Nat
  PROVE  Window(i + RELIABLE_WINDOW_SIZE * a) = Window(i) + a
<1> DEFINE K == RELIABLE_WINDOW_SIZE
           w == Window(i)
<1>1. /\ K \in Nat \ {0} /\ w \in Nat /\ K * w \in Nat
      /\ K * w =< i /\ i < K * w + K
  BY WindowConstants, WindowInterval
<1> HIDE DEF K, w
<1>2. K * a \in Nat /\ K * (w + a) = K * w + K * a
  BY <1>1
<1>3. /\ i + K * a \in Nat /\ w + a \in Nat
      /\ K * (w + a) =< i + K * a /\ i + K * a < K * (w + a) + K
  BY <1>1, <1>2
<1>4. Window(i + K * a) = w + a
  BY <1>3, WindowOf DEF K
<1> QED
  BY <1>4 DEF K, w

\* Two numbers less than a turn apart do not share a wire number.
LEMMA SameWire ==
  ASSUME NEW i \in Nat, NEW j \in Nat, Wire(i) = Wire(j),
         i < j + SeqSpace, j < i + SeqSpace
  PROVE  i = j
<1> DEFINE N == SeqSpace
           q == Wire(i)
<1>1. PICK a \in Nat : i = N * a + q
  BY Turn
<1>2. PICK b \in Nat : j = N * b + q
  BY Turn
<1>3. N \in Nat \ {0} /\ q \in Nat
  BY WindowConstants, WireType
<1>4. i < j + N /\ j < i + N
  OBVIOUS
<1> HIDE DEF N, q
<1>5. N * a < N * b + N /\ N * b < N * a + N /\ N * a \in Nat /\ N * b \in Nat
  BY <1>1, <1>2, <1>3, <1>4
<1>6. N * b + N = N * (b + 1) /\ N * a + N = N * (a + 1)
  BY <1>3
<1>7. a < b + 1 /\ b < a + 1
  BY <1>3, <1>5, <1>6
<1> QED
  BY <1>1, <1>2, <1>7

\* The wire number that is p after that of n is the one of n + p.
LEMMA WireNext ==
  ASSUME NEW n \in Nat, NEW p \in Nat
  PROVE  Wire(Wire(n) + p) = Wire(n + p)
<1> DEFINE N == SeqSpace
           q == Wire(n)
           r == Wire(q + p)
<1>1. N \in Nat \ {0}
  BY WindowConstants
<1>2. PICK a \in Nat : n = N * a + q
  BY Turn
<1>3. q \in 0 .. N - 1
  BY WireType
<1>4. q + p \in Nat
  BY <1>1, <1>3
<1>5. PICK b \in Nat : q + p = N * b + r
  BY <1>4, Turn
<1>6. r \in 0 .. N - 1
  BY <1>4, WireType
<1> HIDE DEF N, q, r
<1>7. N * (a + b) = N * a + N * b /\ N * a \in Nat /\ N * b \in Nat
  BY <1>1
<1>8. n + p = N * (a + b) + r
  BY <1>1, <1>2, <1>3, <1>5, <1>6, <1>7
<1>9. (N * (a + b) + r) % N = r
  BY <1>1, <1>6, QuotientUnique
<1> QED
  BY <1>8, <1>9 DEF Wire, N, q, r

\* How the receiver, whose last number is n, sees a number that is less than a
\* turn ahead: as far ahead as it is, in numbers and in windows.
LEMMA UnwrapAhead ==
  ASSUME NEW n \in Nat, NEW d \in Nat, n =< d, d < n + SeqSpace
  PROVE  /\ Unwrap(Wire(d), Wire(n)) = Wire(n) + (d - n)
         /\ UnwrappedWindow(Wire(d), Wire(n)) = Window(Wire(n)) + (Window(d) - Window(n))
<1> DEFINE N == SeqSpace
           W == RELIABLE_WINDOWS
           q == Wire(d)
           m == Wire(n)
           vq == Window(q)
           vm == Window(m)
           vd == Window(d)
           vn == Window(n)
<1>1. N \in Nat \ {0} /\ W \in Nat /\ n =< d /\ d < n + N
  BY WindowConstants
<1>2. PICK a \in Nat : m \in 0 .. N - 1 /\ n = N * a + m /\ vn = W * a + vm /\ vm \in 0 .. W - 1
  BY Turn
<1>3. PICK b \in Nat : q \in 0 .. N - 1 /\ d = N * b + q /\ vd = W * b + vq /\ vq \in 0 .. W - 1
  BY Turn
<1>4. /\ Unwrap(q, m) = IF q < m THEN q + N ELSE q
      /\ UnwrappedWindow(q, m) = IF q < m THEN vq + W ELSE vq
  BY DEF Unwrap, UnwrappedWindow
<1> SUFFICES /\ Unwrap(q, m) = m + (d - n)
             /\ UnwrappedWindow(q, m) = vm + (vd - vn)
  OBVIOUS
<1> HIDE DEF N, W, q, m, vq, vm, vd, vn
<1>5. N * a \in Nat /\ N * b \in Nat /\ W * a \in Nat /\ W * b \in Nat
  BY <1>1
<1>6. CASE q < m
  <2>1. N * a < N * b /\ N * b < N * a + 2 * N
    BY <1>1, <1>2, <1>3, <1>5, <1>6
  <2>2. N * a + 2 * N = N * (a + 2)
    BY <1>1
  <2>3. a < b /\ b < a + 2
    BY <1>1, <2>1, <2>2
  <2>4. b = a + 1
    BY <2>3
  <2>5. N * b = N * a + N /\ W * b = W * a + W
    BY <1>1, <2>4
  <2> QED
    BY <1>1, <1>2, <1>3, <1>4, <1>5, <1>6, <2>5
<1>7. CASE ~ q < m
  <2>1. N * a < N * b + N /\ N * b < N * a + N
    BY <1>1, <1>2, <1>3, <1>5, <1>7
  <2>2. N * b + N = N * (b + 1) /\ N * a + N = N * (a + 1)
    BY <1>1
  <2>3. a < b + 1 /\ b < a + 1
    BY <1>1, <2>1, <2>2
  <2>4. b = a
    BY <2>3
  <2> QED
    BY <1>1, <1>2, <1>3, <1>4, <1>5, <1>7, <2>4
<1> QED
  BY <1>6, <1>7

\* A number of an earlier turn, not more than Reach behind, is seen in a window
\* past those from which the receiver accepts anything.
LEMMA UnwrapBehind ==
  ASSUME NEW n \in Nat, NEW d \in Nat, d < n, n =< d + Reach
  PROVE  UnwrappedWindow(Wire(d), Wire(n)) >= Window(Wire(n)) + FREE_RELIABLE_WINDOWS - 1
<1> DEFINE N == SeqSpace
           K == RELIABLE_WINDOW_SIZE
           F == FREE_RELIABLE_WINDOWS
           e == d + N
           f == n + K * (F - 1)
<1>1. /\ N \in Nat \ {0} /\ K \in Nat \ {0} /\ F - 1 \in Nat /\ F \in Nat
      /\ Reach \in Nat /\ N = Reach + K * (F - 1) /\ K * (F - 1) \in Nat
  <2>1. /\ N \in Nat \ {0} /\ K \in Nat \ {0} /\ F - 1 \in Nat /\ F \in Nat
        /\ Reach \in Nat /\ N = Reach + K * (F - 1)
    BY WindowConstants
  <2> HIDE DEF N, K, F
  <2> QED
    BY <2>1
<1>2. Wire(e) = Wire(d)
  <2>1. PICK a \in Nat : d = N * a + Wire(d) /\ Wire(d) \in 0 .. N - 1
    BY Turn
  <2> DEFINE r == Wire(d)
  <2> HIDE DEF N, r
  <2>2. d = N * a + r /\ r \in 0 .. N - 1 /\ a + 1 \in Nat
    BY <2>1 DEF r
  <2>3. N * (a + 1) = N * a + N /\ N * a \in Nat
    BY <1>1
  <2>4. d + N = N * (a + 1) + r
    BY <1>1, <2>2, <2>3
  <2>5. (N * (a + 1) + r) % N = r
    BY <1>1, <2>2, QuotientUnique
  <2>6. (d + N) % N = r
    BY <2>4, <2>5
  <2> QED
    BY <2>6 DEF r, N, Wire
<1> HIDE DEF N, K, F
<1>3. e \in Nat /\ f \in Nat /\ n =< e /\ e < n + N /\ f =< e
  BY <1>1
<1>4. Window(f) = Window(n) + (F - 1)
  BY <1>1, WindowShift DEF K
<1> HIDE DEF e, f
<1>5. Window(f) =< Window(e)
  BY <1>3, WindowMonotone
<1>6. UnwrappedWindow(Wire(e), Wire(n)) = Window(Wire(n)) + (Window(e) - Window(n))
  BY <1>3, UnwrapAhead DEF N
<1>7. Window(n) \in Nat /\ Window(e) \in Nat /\ Window(Wire(n)) \in Nat
  <2>1. Wire(n) \in Nat
    BY WireType, WindowConstants
  <2> QED
    BY <1>3, <2>1, WindowInterval
<1>8. UnwrappedWindow(Wire(e), Wire(n)) >= Window(Wire(n)) + F - 1
  BY <1>1, <1>4, <1>5, <1>6, <1>7
<1> QED
  BY <1>2, <1>8 DEF F

\* A command whose window is at most W - F before that of t is less than Reach
\* behind t.
LEMMA SpanReach ==
  ASSUME NEW i \in Nat, NEW t \in Nat,
         Window(t) =< Window(i) + (RELIABLE_WINDOWS - FREE_RELIABLE_WINDOWS)
  PROVE  t < i + Reach
<1> DEFINE K == RELIABLE_WINDOW_SIZE
           a == RELIABLE_WINDOWS - FREE_RELIABLE_WINDOWS
           v == Window(i)
           w == Window(t)
<1>1. /\ K \in Nat \ {0} /\ a \in Nat /\ v \in Nat /\ w \in Nat
      /\ K * v \in Nat /\ K * v =< i /\ K * w \in Nat /\ t < K * w + K /\ w =< v + a
  BY WindowConstants, WindowInterval
<1>2. Reach = (a + 1) * K
  BY DEF Reach
<1> HIDE DEF K, a, v, w
<1>3. K * w =< K * (v + a)
  BY <1>1
<1>4. K * (v + a) = K * v + K * a /\ (a + 1) * K = K * a + K /\ K * a \in Nat
  BY <1>1
<1> QED
  BY <1>1, <1>2, <1>3, <1>4

-----------------------------------------------------------------------------
(* The receiver's list. *)

\* While all numbers are less than a turn ahead of the last one received, the
\* search from the back of the list finds the last smaller number.
LEMMA LastNotAfterIs ==
  ASSUME NEW n \in Nat, incomingReliableSequenceNumber = Wire(n),
         incomingReliable \in Seq(Packets),
         \A p \in DOMAIN incomingReliable :
           n =< incomingReliable[p] /\ incomingReliable[p] < n + SeqSpace,
         \A p, r \in DOMAIN incomingReliable : p < r => incomingReliable[p] < incomingReliable[r],
         NEW d \in Nat, n =< d, d < n + SeqSpace
  PROVE  /\ LastNotAfter(Wire(d)) \in 0 .. Len(incomingReliable)
         /\ \A p \in DOMAIN incomingReliable :
              incomingReliable[p] =< d <=> p =< LastNotAfter(Wire(d))
<1> DEFINE m == incomingReliableSequenceNumber
           s == incomingReliable
           len == Len(s)
           S == {p \in DOMAIN s : Unwrap(Wire(s[p]), m) =< Unwrap(Wire(d), m)}
           last == CHOOSE p \in S : \A r \in S : r =< p
           at == LastNotAfter(Wire(d))
<1>1. /\ len \in Nat /\ DOMAIN s = 1 .. len
      /\ \A p \in DOMAIN s : s[p] \in Nat
  BY LenProperties, ElementOfSeq, Bounds
<1>2. at = IF S = {} THEN 0 ELSE last
  BY DEF LastNotAfter
<1>3. ASSUME NEW p \in DOMAIN s PROVE p \in S <=> s[p] =< d
  <2>1. s[p] \in Nat /\ n =< s[p] /\ s[p] < n + SeqSpace
    BY <1>1
  <2>2. Unwrap(Wire(s[p]), Wire(n)) = Wire(n) + (s[p] - n)
    BY <2>1, UnwrapAhead
  <2>3. Unwrap(Wire(d), Wire(n)) = Wire(n) + (d - n)
    BY UnwrapAhead
  <2>4. Wire(n) \in Nat
    BY WireType, WindowConstants
  <2>5. Unwrap(Wire(s[p]), m) =< Unwrap(Wire(d), m) <=> s[p] =< d
    BY <2>1, <2>2, <2>3, <2>4
  <2> QED
    BY <2>5
<1>4. S \subseteq 1 .. len
  BY <1>1
<1>5. S # {} => last \in S /\ \A r \in S : r =< last
  <2> HIDE DEF S, len
  <2> QED
    BY <1>1, <1>4, LastIsGreatest
<1>6. \A p, r \in DOMAIN s : p < r => s[p] < s[r]
  OBVIOUS
<1> HIDE DEF S, last, at, len
<1>7. CASE S = {}
  <2>1. at = 0
    BY <1>2, <1>7
  <2>2. \A p \in DOMAIN s : ~ (s[p] =< d) /\ ~ (p =< 0)
    BY <1>1, <1>3, <1>7
  <2> QED
    BY <1>1, <2>1, <2>2 DEF at, len
<1>8. CASE S # {}
  <2>1. at \in S /\ at \in 1 .. len /\ \A r \in S : r =< at
    BY <1>2, <1>4, <1>5, <1>8
  <2>2. at \in DOMAIN s /\ s[at] =< d
    BY <1>1, <1>3, <2>1
  <2>3. ASSUME NEW p \in DOMAIN s, p =< at PROVE s[p] =< d
    <3>1. CASE p = at
      BY <2>2, <3>1
    <3>2. CASE p < at
      <4>1. s[p] < s[at]
        BY <1>6, <2>2, <3>2
      <4> QED
        BY <1>1, <2>2, <4>1
    <3> QED
      BY <1>1, <2>1, <2>3, <3>1, <3>2
  <2>4. ASSUME NEW p \in DOMAIN s, s[p] =< d PROVE p =< at
    BY <1>3, <2>1, <2>4
  <2> QED
    BY <1>1, <2>1, <2>3, <2>4 DEF at, len
<1> QED
  BY <1>7, <1>8

\* An ordered list of numbers above n has its p-th number at n + p or above.
LEMMA OrderedAbove ==
  ASSUME NEW s \in Seq(Packets), NEW n \in Nat,
         \A p \in 1 .. Len(s) : n < s[p],
         \A p, r \in 1 .. Len(s) : p < r => s[p] < s[r],
         NEW k \in 1 .. Len(s)
  PROVE  n + k =< s[k]
<1> DEFINE T == {p \in 1 .. Len(s) : s[p] < n + p}
<1>1. Len(s) \in Nat /\ \A p \in 1 .. Len(s) : s[p] \in Nat
  BY LenProperties, ElementOfSeq, Bounds
<1>2. T \subseteq Nat
  OBVIOUS
<1>3. ASSUME T # {} PROVE FALSE
  <2>1. First(T) \in T /\ \A r \in T : First(T) =< r
    BY <1>2, <1>3, FirstIsLeast
  <2> DEFINE p == First(T)
  <2> HIDE DEF p
  <2>2. p \in 1 .. Len(s) /\ s[p] < n + p /\ \A r \in T : p =< r
    BY <2>1 DEF p
  <2>3. p # 1
    <3>1. n < s[p]
      BY <2>2
    <3> QED
      BY <1>1, <2>2, <3>1
  <2>4. p - 1 \in 1 .. Len(s) /\ p - 1 < p
    BY <1>1, <2>2, <2>3
  <2>5. p - 1 \notin T
    <3> HIDE DEF T
    <3> QED
      BY <2>2, <2>4
  <2>6. ~ (s[p - 1] < n + (p - 1))
    BY <2>4, <2>5
  <2>7. s[p - 1] < s[p]
    BY <2>2, <2>4
  <2> QED
    BY <1>1, <2>2, <2>4, <2>6, <2>7
<1>4. k \notin T
  BY <1>3
<1> QED
  BY <1>1, <1>4

\* What enet_peer_dispatch_incoming_reliable_commands dispatches from such a list
\* are the numbers that follow n, up to the first gap.
LEMMA ReadyIs ==
  ASSUME NEW s \in Seq(Packets), NEW n \in Nat,
         \A p \in 1 .. Len(s) : n < s[p] /\ s[p] < n + SeqSpace,
         \A p, r \in 1 .. Len(s) : p < r => s[p] < s[r]
  PROVE  /\ Ready(s, Wire(n)) \in 0 .. Len(s)
         /\ \A p \in 1 .. Ready(s, Wire(n)) : s[p] = n + p
         /\ \A p \in Ready(s, Wire(n)) + 1 .. Len(s) : s[p] > n + Ready(s, Wire(n)) + 1
<1> DEFINE k == Ready(s, Wire(n))
           N == SeqSpace
<1>1. /\ Len(s) \in Nat /\ Wire(n) \in Nat /\ N \in Nat
      /\ \A p \in 1 .. Len(s) : s[p] \in Nat /\ n < s[p] /\ s[p] < n + N /\ n + p =< s[p]
  <2>1. Len(s) \in Nat /\ \A p \in 1 .. Len(s) : s[p] \in Nat
    BY LenProperties, ElementOfSeq, Bounds
  <2>2. \A p \in 1 .. Len(s) : n + p =< s[p]
    BY OrderedAbove
  <2>3. Wire(n) \in Nat /\ N \in Nat
    BY WireType, WindowConstants
  <2>4. \A p \in 1 .. Len(s) : n < s[p] /\ s[p] < n + N
    OBVIOUS
  <2> HIDE DEF N
  <2> QED
    BY <2>1, <2>2, <2>3, <2>4
<1>2. /\ k \in 0 .. Len(s)
      /\ \A p \in 1 .. k : Wire(s[p]) = Wire(Wire(n) + p)
      /\ k < Len(s) => Wire(s[k + 1]) # Wire(Wire(n) + k + 1)
  BY <1>1, ReadyProperties
<1>3. \A p, r \in 1 .. Len(s) : p < r => s[p] < s[r]
  OBVIOUS
<1> HIDE DEF k
<1>4. ASSUME NEW p \in 1 .. k PROVE s[p] = n + p
  <2>1. p \in 1 .. Len(s) /\ p \in Nat
    BY <1>1, <1>2
  <2>2. Wire(s[p]) = Wire(n + p)
    <3>1. Wire(Wire(n) + p) = Wire(n + p)
      BY <2>1, WireNext
    <3> QED
      BY <1>2, <3>1
  <2>3. s[p] \in Nat /\ n + p \in Nat /\ s[p] < n + p + N /\ n + p < s[p] + N
    BY <1>1, <2>1
  <2> QED
    BY <2>2, <2>3, SameWire
<1>5. ASSUME k < Len(s) PROVE s[k + 1] > n + k + 1
  <2>1. k + 1 \in 1 .. Len(s) /\ k \in Nat
    BY <1>1, <1>2, <1>5
  <2>2. Wire(Wire(n) + (k + 1)) = Wire(n + (k + 1))
    BY <2>1, WireNext
  <2>3. Wire(n) + k + 1 = Wire(n) + (k + 1) /\ n + k + 1 = n + (k + 1)
    BY <1>1, <2>1
  <2>4. s[k + 1] # n + k + 1
    BY <1>2, <1>5, <2>2, <2>3
  <2>5. s[k + 1] \in Nat /\ n + (k + 1) =< s[k + 1]
    BY <1>1, <2>1
  <2> QED
    BY <2>1, <2>3, <2>4, <2>5
<1>6. ASSUME NEW p \in k + 1 .. Len(s) PROVE s[p] > n + k + 1
  <2>1. k + 1 \in 1 .. Len(s) /\ k < Len(s) /\ p \in 1 .. Len(s)
    BY <1>1, <1>2
  <2>2. p = k + 1 \/ s[k + 1] < s[p]
    BY <1>3, <2>1
  <2> QED
    BY <1>1, <1>2, <1>5, <2>1, <2>2
<1> QED
  BY <1>2, <1>4, <1>6 DEF k

-----------------------------------------------------------------------------
(* The steps. *)

\* The ranges of the numbers the invariant is about.
LEMMA PositionType ==
  ASSUME SenderInv, ReceiverType, NEW t \in 0 .. submitted
  PROVE  /\ t \in Nat /\ submitted \in Nat /\ accepted \in Nat
         /\ Len(delivered) \in Nat /\ Len(dispatched) \in Nat
         /\ DOMAIN delivered = 1 .. Len(delivered)
         /\ DOMAIN dispatched = 1 .. Len(dispatched)
         /\ DOMAIN incomingReliable = 1 .. Len(incomingReliable)
         /\ Len(incomingReliable) \in Nat
         /\ \A p \in DOMAIN incomingReliable : incomingReliable[p] \in Nat
<1>1. submitted \in Nat
  BY Bounds DEF SenderInv, SenderType
<1>2. /\ Len(delivered) \in Nat /\ DOMAIN delivered = 1 .. Len(delivered)
      /\ Len(dispatched) \in Nat /\ DOMAIN dispatched = 1 .. Len(dispatched)
      /\ Len(incomingReliable) \in Nat
      /\ DOMAIN incomingReliable = 1 .. Len(incomingReliable)
  BY LenProperties DEF ReceiverType
<1>3. \A p \in DOMAIN incomingReliable : incomingReliable[p] \in Nat
  BY <1>2, ElementOfSeq, Bounds DEF ReceiverType
<1>4. accepted \in Nat
  BY <1>2 DEF accepted
<1> QED
  BY <1>1, <1>2, <1>3, <1>4

\* The sender is never a turn ahead of the receiver: the packet the receiver
\* waits for is unacknowledged, and the window gate counts from there.
LEMMA LessThanTurn ==
  ASSUME SenderInv, ReceiverType, WaitingOrdered,
         NEW t \in 0 .. submitted, StreamPosition(t)
  PROVE  t =< accepted + Reach /\ t < accepted + SeqSpace
<1> DEFINE n == accepted
<1>1. t \in Nat /\ n \in Nat /\ n =< t
  BY PositionType DEF StreamPosition, ReceiverSpan
<1>2. Reach \in Nat /\ SeqSpace \in Nat /\ Reach < SeqSpace
  <2>1. Reach \in Nat /\ SeqSpace \in Nat
    BY WindowConstants
  <2>2. RELIABLE_WINDOW_SIZE \in Nat \ {0} /\ Reach + 2 * RELIABLE_WINDOW_SIZE =< SeqSpace
    BY WindowConstants
  <2> QED
    BY <2>1, <2>2
<1>3. CASE n = t
  BY <1>1, <1>2, <1>3
<1>4. CASE n # t
  <2>1. n + 1 \in 1 .. t
    BY <1>1, <1>4
  <2>2. ~ Received(n + 1)
    <3>1. \A p \in DOMAIN incomingReliable : incomingReliable[p] > n + 1
      BY DEF WaitingOrdered
    <3>2. \A p \in DOMAIN incomingReliable : incomingReliable[p] \in Nat
      BY PositionType
    <3> HIDE DEF n
    <3> QED
      BY <1>1, <3>1, <3>2 DEF Received, n
  <2>3. n + 1 \in attempted
    BY <2>1, <2>2 DEF StreamPosition, Held
  <2>4. Window(t) =< Window(n + 1) + (RELIABLE_WINDOWS - FREE_RELIABLE_WINDOWS)
    BY <2>3 DEF StreamPosition, SenderSpan
  <2> HIDE DEF n
  <2>5. t < n + 1 + Reach
    BY <1>1, <2>4, SpanReach
  <2> QED
    BY <1>1, <1>2, <2>5 DEF n
<1> QED
  BY <1>3, <1>4

\* What the receiver's variables decide stays as it is with them.
LEMMA ReceiverKept ==
  ASSUME UNCHANGED <<incomingReliableSequenceNumber, incomingReliable, dispatched, delivered>>
  PROVE  /\ accepted' = accepted
         /\ WaitingOrdered => WaitingOrdered'
         /\ HandedOut => HandedOut'
         /\ \A i : Received(i)' <=> Received(i)
         /\ \A t : ReceiverSpan(t) => ReceiverSpan(t)'
<1>1. accepted' = accepted
  BY DEF accepted
<1> QED
  BY <1>1 DEF WaitingOrdered, HandedOut, Received, ReceiverSpan

\* enet_peer_send appends the next command to those never sent.
LEMMA SendStream ==
  ASSUME SenderInv, NetworkType, ReceiverType, StreamInv, Send
  PROVE  StreamInv'
<1>1. PICK t \in 0 .. submitted : StreamPosition(t)
  BY DEF StreamInv
<1>2. /\ submitted' = submitted + 1 /\ submitted \in Nat /\ t \in Nat
      /\ outgoing' = Append(outgoing, submitted + 1)
      /\ UNCHANGED <<attempted, networkVars, receiverVars>>
  BY PositionType DEF Send
<1>3. /\ Len(outgoing) \in Nat /\ DOMAIN outgoing = 1 .. Len(outgoing)
      /\ DOMAIN outgoing' = 1 .. Len(outgoing) + 1 /\ Len(outgoing') = Len(outgoing) + 1
      /\ \A p \in 1 .. Len(outgoing) : outgoing'[p] = outgoing[p]
      /\ outgoing'[Len(outgoing) + 1] = submitted + 1
  <2>1. outgoing \in Seq(Packets) /\ Packets \subseteq Nat
    BY Bounds DEF SenderInv, SenderType
  <2>2. outgoing \in Seq(Nat)
    BY <2>1, SeqMonotonic
  <2>3. submitted + 1 \in Nat
    BY <1>2
  <2> QED
    BY <1>2, <2>2, <2>3, AppendProperties, LenProperties
<1>4. Sent(t)'
  <2> DEFINE again == Len(outgoing) - (submitted - t)
  <2>1. /\ attempted \subseteq 1 .. t /\ again >= 0 /\ again \in Int
        /\ \A p \in DOMAIN outgoing :
             IF p =< again THEN outgoing[p] \in attempted ELSE outgoing[p] = t + p - again
    BY <1>1, <1>2, <1>3 DEF StreamPosition, Sent
  <2>2. Len(outgoing') - (submitted' - t) = again
    BY <1>2, <1>3
  <2>3. ASSUME NEW p \in DOMAIN outgoing'
        PROVE  IF p =< again THEN outgoing'[p] \in attempted' ELSE outgoing'[p] = t + p - again
    <3>1. CASE p \in 1 .. Len(outgoing)
      BY <1>2, <1>3, <2>1, <3>1
    <3>2. CASE p = Len(outgoing) + 1
      <4>1. ~ p =< again /\ t + p - again = submitted + 1
        BY <1>2, <1>3, <2>1, <3>2
      <4> QED
        BY <1>3, <3>2, <4>1
    <3> QED
      BY <1>3, <3>1, <3>2
  <2> HIDE DEF again
  <2>4. t \in 0 .. submitted' /\ attempted' \subseteq 1 .. t
    BY <1>2, <2>1
  <2> QED
    BY <2>1, <2>2, <2>3, <2>4 DEF Sent
<1>5. t \in 0 .. submitted'
  BY <1>2
<1> QED
  BY <1>1, <1>2, <1>4, <1>5, ReceiverKept
     DEF StreamInv, StreamPosition, SenderSpan, Held, Fresh, AcknowledgesReceived,
         networkVars, receiverVars

\* enet_protocol_check_timeouts puts more retransmissions at the front.
LEMMA CheckTimeoutsStream ==
  ASSUME SenderInv, NetworkType, ReceiverType, StreamInv,
         NEW expired \in SUBSET DOMAIN sentReliable, CheckTimeouts(expired)
  PROVE  StreamInv'
<1> DEFINE n == Cardinality(expired)
<1>1. PICK t \in 0 .. submitted : StreamPosition(t)
  BY DEF StreamInv
<1>2. PICK late \in InOrder(expired) : outgoing' = Picked(sentReliable, late) \o outgoing
  BY DEF CheckTimeouts
<1>3. UNCHANGED <<submitted, attempted, networkVars, receiverVars>>
  BY DEF CheckTimeouts
<1> DEFINE back == Picked(sentReliable, late)
<1>4. outgoing \in Seq(Packets) /\ sentReliable \in Seq(Packets)
  BY DEF SenderInv, SenderType
<1>5. /\ n \in Nat /\ back \in Seq(Packets) /\ Len(back) = n
      /\ \A k \in 1 .. n : late[k] \in expired /\ back[k] = sentReliable[late[k]]
  BY <1>4, PickedProperties
<1>6. \A k \in 1 .. n : back[k] \in attempted
  BY <1>5 DEF SenderInv, Known
<1> HIDE DEF n, back
<1>7. /\ Len(outgoing) \in Nat /\ DOMAIN outgoing = 1 .. Len(outgoing)
      /\ DOMAIN outgoing' = 1 .. n + Len(outgoing) /\ Len(outgoing') = n + Len(outgoing)
      /\ \A k \in 1 .. n + Len(outgoing) :
           outgoing'[k] = IF k =< n THEN back[k] ELSE outgoing[k - n]
  <2>1. outgoing' = back \o outgoing
    BY <1>2 DEF back
  <2>2. /\ back \o outgoing \in Seq(Packets)
        /\ Len(back \o outgoing) = Len(back) + Len(outgoing)
        /\ \A k \in 1 .. Len(back) + Len(outgoing) :
             (back \o outgoing)[k] = IF k =< Len(back) THEN back[k]
                                    ELSE outgoing[k - Len(back)]
    BY <1>4, <1>5, ConcatProperties
  <2>3. /\ Len(outgoing) \in Nat /\ DOMAIN outgoing = 1 .. Len(outgoing)
        /\ DOMAIN (back \o outgoing) = 1 .. Len(back \o outgoing)
    BY <1>4, <2>2, LenProperties
  <2> QED
    BY <1>5, <2>1, <2>2, <2>3
<1>8. Sent(t)'
  <2> DEFINE again == Len(outgoing) - (submitted - t)
  <2>0. t \in Nat /\ submitted \in Nat
    BY PositionType
  <2>1. /\ attempted \subseteq 1 .. t /\ again >= 0 /\ again \in Int
        /\ \A p \in DOMAIN outgoing :
             IF p =< again THEN outgoing[p] \in attempted ELSE outgoing[p] = t + p - again
    BY <1>1, <1>7, <2>0 DEF StreamPosition, Sent
  <2>2. Len(outgoing') - (submitted' - t) = n + again
    BY <1>3, <1>5, <1>7, <2>0
  <2> HIDE DEF again
  <2>3. ASSUME NEW p \in DOMAIN outgoing'
        PROVE  IF p =< n + again THEN outgoing'[p] \in attempted'
               ELSE outgoing'[p] = t + p - (n + again)
    <3>1. CASE p =< n
      <4>1. p \in 1 .. n /\ p =< n + again
        BY <1>5, <1>7, <2>1, <3>1
      <4> QED
        BY <1>3, <1>6, <1>7, <3>1, <4>1
    <3>2. CASE p > n
      <4>1. /\ p - n \in DOMAIN outgoing /\ outgoing'[p] = outgoing[p - n]
            /\ p =< n + again <=> p - n =< again
            /\ t + p - (n + again) = t + (p - n) - again
        BY <1>5, <1>7, <2>0, <2>1, <3>2
      <4> QED
        BY <1>3, <2>1, <4>1
    <3> QED
      BY <1>5, <1>7, <3>1, <3>2
  <2>4. n + again >= 0
    BY <1>5, <2>1
  <2> QED
    BY <1>3, <2>1, <2>2, <2>3, <2>4 DEF Sent
<1> QED
  BY <1>1, <1>3, <1>8, ReceiverKept
     DEF StreamInv, StreamPosition, SenderSpan, Held, Fresh, AcknowledgesReceived,
         networkVars, receiverVars

\* The network carries only what was put into it.
LEMMA TransmitSubset ==
  ASSUME NEW net, NEW new, NEW netNext, Transmit(net, new, netNext)
  PROVE  netNext \subseteq net \cup new
  BY DEF Transmit

\* The window that is j windows back, as an index of reliableWindows.
LEMMA WindowBack ==
  ASSUME NEW i \in Nat, NEW s \in Nat, NEW j \in 1 .. RELIABLE_WINDOWS,
         Window(i) + j = Window(s)
  PROVE  Window(Wire(i)) = (Window(Wire(s)) + (RELIABLE_WINDOWS - j)) % RELIABLE_WINDOWS
<1> DEFINE W == RELIABLE_WINDOWS
           u == Window(Wire(s))
           y == Window(Wire(i))
<1>1. W \in Nat \ {0} /\ j \in 1 .. W
  BY WindowConstants
<1>2. PICK a \in Nat : Window(s) = W * a + u /\ u \in 0 .. W - 1
  BY Turn
<1>3. PICK b \in Nat : Window(i) = W * b + y /\ y \in 0 .. W - 1
  BY Turn
<1>4. W * b + y + j = W * a + u
  BY <1>2, <1>3
<1> HIDE DEF W, u, y
<1>5. /\ W * a \in Nat /\ W * b \in Nat
      /\ W * (b + 1) = W * b + W /\ W * (a + 1) = W * a + W
      /\ W * (b + 2) = W * b + 2 * W
  BY <1>1
<1>6. CASE y + j < W
  <2>1. W * a < W * (b + 1) /\ W * b < W * (a + 1)
    BY <1>1, <1>2, <1>3, <1>4, <1>5, <1>6
  <2>2. a < b + 1 /\ b < a + 1
    BY <1>1, <2>1
  <2>3. a = b
    BY <2>2
  <2>4. u + (W - j) = W * 1 + y
    BY <1>1, <1>2, <1>3, <1>4, <1>5, <2>3
  <2>5. (W * 1 + y) % W = y
    BY <1>1, <1>3, QuotientUnique
  <2> QED
    BY <2>4, <2>5 DEF W, u, y
<1>7. CASE ~ (y + j < W)
  <2>1. W * b < W * a /\ W * a < W * (b + 2)
    BY <1>1, <1>2, <1>3, <1>4, <1>5, <1>7
  <2>2. b < a /\ a < b + 2
    BY <1>1, <2>1
  <2>3. a = b + 1
    BY <2>2
  <2>4. u + (W - j) = W * 0 + y
    BY <1>1, <1>2, <1>3, <1>4, <1>5, <2>3
  <2>5. (W * 0 + y) % W = y
    BY <1>1, <1>3, QuotientUnique
  <2> QED
    BY <2>4, <2>5 DEF W, u, y
<1> QED
  BY <1>6, <1>7

\* The first command of a window is only sent while the receiver is at most F
\* windows behind: of an earlier one the sender would still hold every command,
\* because none of them has been acknowledged.
LEMMA WindowGate ==
  ASSUME SenderInv, ReceiverType, WaitingOrdered,
         NEW t \in 0 .. submitted, StreamPosition(t), t + 1 \notin attempted,
         ~ WindowWrap(t + 1)
  PROVE  /\ Window(t + 1) =< Window(accepted) + FREE_RELIABLE_WINDOWS
         /\ \A i \in attempted :
              Window(t + 1) =< Window(i) + (RELIABLE_WINDOWS - FREE_RELIABLE_WINDOWS)
<1> DEFINE W == RELIABLE_WINDOWS
           K == RELIABLE_WINDOW_SIZE
           F == FREE_RELIABLE_WINDOWS
           v == Window(t)
           x == Window(accepted)
           u == Window(Wire(t + 1))
<1>1. /\ t \in Nat /\ accepted \in Nat
      /\ v \in Nat /\ x \in Nat
      /\ W \in Nat \ {0} /\ K \in Nat \ {0} /\ F \in 3 .. W
  BY PositionType, WindowInterval, WindowConstants
<1>2. /\ v =< x + F
      /\ attempted \subseteq 1 .. t
      /\ \A i \in attempted : v =< Window(i) + (W - F)
  BY DEF StreamPosition, ReceiverSpan, Sent, SenderSpan
<1>3. CASE (t + 1) % K # 0
  <2>1. Window(t + 1) = v
    BY <1>1, <1>3, WindowNext
  <2> QED
    BY <1>2, <2>1
<1>4. CASE (t + 1) % K = 0
  <2>1. Window(t + 1) = v + 1 /\ t = K * v + K - 1
    BY <1>1, <1>4, WindowNext
  <2>2. (t + 1) % K = Wire(t + 1) % K /\ t + 1 \in Nat
    <3>1. t + 1 \in Nat
      BY <1>1
    <3> QED
      BY <3>1, Turn
  <2>3. /\ ~ (reliableWindows[(u + W - 1) % W] >= K)
        /\ \A k \in 0 .. F - 1 : (u + k) % W \notin usedReliableWindows
    BY <1>4, <2>2 DEF WindowWrap
  <2>4. ASSUME NEW i \in 1 .. t
        PROVE  Window(Wire(i)) \in Windows /\ Window(i) \in Nat
    <3>1. i \in Nat
      BY <1>1
    <3> QED
      BY <3>1, WireType, WindowType, WindowInterval
  <2>5. /\ IsFiniteSet(attempted)
        /\ \A w \in Windows : reliableWindows[w] = Cardinality(InWindow(attempted, w))
        /\ usedReliableWindows = {w \in Windows : reliableWindows[w] > 0}
    BY AttemptedFinite DEF SenderInv, FlowAccounting, InWindow
  \* The receiver cannot have acknowledged anything of the window just filled.
  <2>6. ASSUME v = x + F PROVE FALSE
    <3> DEFINE C == K * v .. t
               y == (u + (W - 1)) % W
    <3>1. K * v \in Nat /\ K * v >= 3 /\ v >= 3
      <4>1. v \in Nat /\ v >= 3
        BY <1>1, <2>6
      <4> HIDE DEF K, v
      <4> QED
        BY <1>1, <4>1
    <3>2. ASSUME NEW i \in C PROVE i \in attempted /\ Window(Wire(i)) = y
      <4>1. i \in 1 .. t /\ i \in Nat /\ K * v =< i /\ i < K * v + K
        <5> HIDE DEF K, v
        <5> QED
          BY <1>1, <2>1, <3>1, <3>2
      <4>2. Window(i) = v
        BY <1>1, <4>1, WindowOf
      <4>3. ~ Received(i)
        <5>1. ~ i =< accepted
          <6>1. i =< accepted => Window(i) =< x
            BY <1>1, <4>1, WindowMonotone
          <6> HIDE DEF v, x, F
          <6> QED
            BY <1>1, <2>6, <4>2, <6>1
        <5>2. \A p \in DOMAIN incomingReliable : Window(incomingReliable[p]) =< x + F - 2
          BY DEF StreamPosition, ReceiverSpan
        <5> HIDE DEF v, x, F
        <5> QED
          BY <1>1, <2>6, <4>2, <5>1, <5>2 DEF Received
      <4>4. i \in attempted
        BY <4>1, <4>3 DEF StreamPosition, Held
      <4>5. Window(i) + 1 = Window(t + 1) /\ 1 \in 1 .. W
        BY <1>1, <2>1, <4>2
      <4>6. Window(Wire(i)) = (u + (W - 1)) % W
        BY <2>2, <4>1, <4>5, WindowBack
      <4> QED
        BY <4>4, <4>6
    <3>3. y \in Windows /\ t \in C
      <4>1. t \in C
        <5> HIDE DEF K, v
        <5> QED
          BY <1>1, <2>1, <3>1
      <4>2. Window(Wire(t)) = y /\ t \in attempted
        BY <3>2, <4>1
      <4> HIDE DEF C, y
      <4>3. Window(Wire(t)) \in Windows
        BY <1>1, WireType, WindowType
      <4> QED
        BY <4>1, <4>2, <4>3
    <3>4. C \subseteq InWindow(attempted, y)
      BY <3>2 DEF InWindow
    <3>5. Cardinality(C) = K
      <4> HIDE DEF K, v
      <4>1. K * v \in Int /\ t \in Int
        BY <1>1, <3>1
      <4>2. Cardinality(C) = IF K * v > t THEN 0 ELSE t - K * v + 1
        BY <4>1, FS_Interval
      <4> HIDE DEF C
      <4> QED
        BY <1>1, <2>1, <3>1, <4>2
    <3> HIDE DEF C, y
    <3>6. /\ IsFiniteSet(InWindow(attempted, y))
          /\ Cardinality(C) =< Cardinality(InWindow(attempted, y))
          /\ Cardinality(InWindow(attempted, y)) \in Nat
      <4>1. IsFiniteSet(InWindow(attempted, y))
        BY <2>5, FS_Subset DEF InWindow
      <4> QED
        BY <3>4, <4>1, FS_Subset, FS_CardinalityType
    <3>7. reliableWindows[y] >= K
      BY <1>1, <2>5, <3>3, <3>5, <3>6
    <3>8. u + W - 1 = u + (W - 1)
      <4>1. u \in Nat
        BY <2>2, WireType, WindowConstants, WindowInterval
      <4> HIDE DEF u, W
      <4> QED
        BY <1>1, <4>1
    <3> QED
      BY <2>3, <3>7, <3>8 DEF y
  \* The windows that would come too close are those the gate finds free.
  <2>7. ASSUME NEW i \in attempted, v = Window(i) + (W - F) PROVE FALSE
    <3>1. i \in 1 .. t /\ i \in Nat
      BY <1>1, <1>2
    <3>2. W - F + 1 \in 1 .. W /\ Window(i) + (W - F + 1) = Window(t + 1)
      <4>1. Window(i) \in Nat
        BY <2>4, <3>1
      <4> HIDE DEF W, F, v
      <4> QED
        BY <1>1, <2>1, <2>7, <4>1
    <3>3. Window(Wire(i)) = (u + (W - (W - F + 1))) % W
      BY <2>2, <3>1, <3>2, WindowBack
    <3>4. W - (W - F + 1) = F - 1 /\ F - 1 \in 0 .. F - 1
      <4> HIDE DEF W, F
      <4> QED
        BY <1>1
    <3>5. Window(Wire(i)) \notin usedReliableWindows
      BY <2>3, <3>3, <3>4
    <3> DEFINE y == Window(Wire(i))
    <3>6. y \in Windows
      BY <2>4, <3>1
    <3>7. Cardinality(InWindow(attempted, y)) > 0
      BY <2>5, CountRemoved
    <3> HIDE DEF y
    <3>8. y \in usedReliableWindows
      BY <2>5, <3>6, <3>7
    <3> QED
      BY <3>5, <3>8 DEF y
  <2>8. v + 1 =< x + F
    <3> HIDE DEF v, x, F
    <3> QED
      BY <1>1, <1>2, <2>6
  <2>9. ASSUME NEW i \in attempted PROVE v + 1 =< Window(i) + (W - F)
    <3>1. Window(i) \in Nat /\ v =< Window(i) + (W - F) /\ v # Window(i) + (W - F)
      BY <1>2, <2>4, <2>7
    <3> HIDE DEF v, W, F
    <3> QED
      BY <1>1, <3>1
  <2> QED
    BY <2>1, <2>8, <2>9
<1> QED
  BY <1>3, <1>4

\* A command is sent again, or for the first time: then the stream's position
\* moves on by one, as the window gate and the lifetime of datagrams allow.
LEMMA SendReliableStream ==
  ASSUME Lifetime =< LongestLifetime,
         SenderInv, NetworkType, ReceiverType, StreamInv, SendReliable
  PROVE  StreamInv'
<1> DEFINE i == Head(outgoing)
           W == RELIABLE_WINDOWS
           F == FREE_RELIABLE_WINDOWS
<1>1. PICK t \in 0 .. submitted : StreamPosition(t)
  BY DEF StreamInv
<1>2. /\ t \in Nat /\ submitted \in Nat /\ accepted \in Nat
      /\ W - F \in Nat /\ Reach \in Nat
  BY PositionType, WindowConstants
<1>3. /\ outgoing \in Seq(Packets) /\ outgoing # <<>>
      /\ outgoing' = Tail(outgoing) /\ submitted' = submitted
      /\ UNCHANGED <<ackNet, receiverVars>>
      /\ Transmit(dataNet, {i}, dataNet')
      /\ attempted' = attempted \cup {i}
      /\ i \notin attempted => NoStaleDatagram(i) /\ ~ WindowWrap(i)
  BY DEF SendReliable, Sendable, SenderInv, SenderType
<1>4. /\ i \in Nat /\ Len(outgoing) \in Nat \ {0} /\ i = outgoing[1]
      /\ DOMAIN outgoing = 1 .. Len(outgoing)
      /\ DOMAIN outgoing' = 1 .. Len(outgoing) - 1 /\ Len(outgoing') = Len(outgoing) - 1
      /\ \A p \in 1 .. Len(outgoing) - 1 : outgoing'[p] = outgoing[p + 1]
  <2>1. /\ i \in Packets /\ Len(outgoing) \in Nat \ {0} /\ i = outgoing[1]
        /\ DOMAIN outgoing = 1 .. Len(outgoing)
        /\ DOMAIN outgoing' = 1 .. Len(outgoing) - 1 /\ Len(outgoing') = Len(outgoing) - 1
        /\ \A p \in 1 .. Len(outgoing) - 1 : outgoing'[p] = outgoing[p + 1]
    BY <1>3, HeadTailProperties, LenProperties, EmptySeq
  <2> HIDE DEF i
  <2> QED
    BY <2>1, Bounds
<1>5. dataNet' \subseteq dataNet \cup {i}
  BY <1>3, TransmitSubset
<1> DEFINE again == Len(outgoing) - (submitted - t)
<1>6. /\ attempted \subseteq 1 .. t /\ again >= 0 /\ again \in Int
      /\ \A p \in DOMAIN outgoing :
           IF p =< again THEN outgoing[p] \in attempted ELSE outgoing[p] = t + p - again
  BY <1>1, <1>2, <1>4 DEF StreamPosition, Sent
<1>7. /\ accepted' = accepted
      /\ WaitingOrdered' /\ HandedOut'
      /\ \A j : Received(j)' <=> Received(j)
      /\ \A s : ReceiverSpan(s) => ReceiverSpan(s)'
  BY <1>3, ReceiverKept DEF StreamInv, receiverVars
<1>8. AcknowledgesReceived'
  BY <1>3, <1>7 DEF StreamInv, AcknowledgesReceived, receiverVars
<1>9. ackNet' = ackNet /\ acknowledgements' = acknowledgements
      /\ incomingReliable' = incomingReliable
  BY <1>3 DEF receiverVars
<1> HIDE DEF i, again, W, F
<1>10. CASE i \in attempted
  <2>1. again >= 1
    <3>1. 1 \in DOMAIN outgoing
      BY <1>4
    <3>2. CASE ~ 1 =< again
      <4>1. i = t + 1 - again
        BY <1>4, <1>6, <3>1, <3>2
      <4> QED
        BY <1>2, <1>6, <1>10, <3>2, <4>1
    <3> QED
      BY <1>6, <3>2
  <2>2. attempted' = attempted
    BY <1>3, <1>10
  <2>3. Sent(t)'
    <3>1. Len(outgoing') - (submitted' - t) = again - 1
      BY <1>2, <1>3, <1>4 DEF again
    <3>2. ASSUME NEW p \in DOMAIN outgoing'
          PROVE  IF p =< again - 1 THEN outgoing'[p] \in attempted'
                 ELSE outgoing'[p] = t + p - (again - 1)
      <4>1. /\ p + 1 \in DOMAIN outgoing /\ outgoing'[p] = outgoing[p + 1]
            /\ p =< again - 1 <=> p + 1 =< again
            /\ t + p - (again - 1) = t + (p + 1) - again
        BY <1>2, <1>4, <1>6
      <4> QED
        BY <1>6, <2>2, <4>1
    <3>3. t \in 0 .. submitted' /\ attempted' \subseteq 1 .. t /\ again - 1 >= 0
      <4>1. t \in 0 .. submitted' /\ attempted' \subseteq 1 .. t
        BY <1>2, <1>3, <1>6, <2>2
      <4> QED
        BY <1>6, <2>1, <4>1
    <3> QED
      BY <3>1, <3>2, <3>3 DEF Sent
  <2>4. SenderSpan(t)' /\ ReceiverSpan(t)' /\ Held(t)'
    BY <1>1, <1>7, <2>2 DEF StreamPosition, SenderSpan, Held
  <2>5. i =< t /\ t =< i + Reach
    <3>1. Window(t) =< Window(i) + (W - F)
      BY <1>1, <1>10 DEF StreamPosition, SenderSpan, W, F
    <3>2. t < i + Reach
      BY <1>2, <1>4, <3>1, SpanReach DEF W, F
    <3> QED
      BY <1>2, <1>4, <1>6, <1>10, <3>2
  <2>6. Fresh(t)'
    BY <1>1, <1>5, <1>9, <2>5 DEF StreamPosition, Fresh
  <2>7. StreamPosition(t)' /\ t \in 0 .. submitted'
    BY <1>3, <2>3, <2>4, <2>6 DEF StreamPosition
  <2> QED
    BY <1>7, <1>8, <2>7 DEF StreamInv
<1>11. CASE i \notin attempted
  <2>1. again = 0 /\ i = t + 1 /\ t + 1 \in 0 .. submitted
    <3>1. 1 \in DOMAIN outgoing
      BY <1>4
    <3>2. ~ 1 =< again /\ i = t + 1 - again
      BY <1>4, <1>6, <1>11, <3>1
    <3>3. again = 0
      BY <1>6, <3>2
    <3>4. Len(outgoing) - (submitted - t) = 0
      BY <3>3 DEF again
    <3>5. t + 1 \in 0 .. submitted
      BY <1>2, <1>4, <3>4
    <3>6. i = t + 1
      BY <1>2, <3>2, <3>3
    <3> QED
      BY <3>3, <3>5, <3>6
  <2>2. /\ Window(t + 1) =< Window(accepted) + F
        /\ \A j \in attempted : Window(t + 1) =< Window(j) + (W - F)
    <3>1. t + 1 \notin attempted /\ ~ WindowWrap(t + 1) /\ WaitingOrdered
      BY <1>3, <1>11, <2>1 DEF StreamInv
    <3> QED
      BY <1>1, <3>1, WindowGate DEF W, F
  <2>3. Sent(t + 1)'
    <3>1. Len(outgoing') - (submitted' - (t + 1)) = 0
      BY <1>2, <1>3, <1>4, <2>1 DEF again
    <3>2. ASSUME NEW p \in DOMAIN outgoing' PROVE outgoing'[p] = t + 1 + p - 0 /\ ~ p =< 0
      <4>1. /\ p + 1 \in DOMAIN outgoing /\ outgoing'[p] = outgoing[p + 1]
            /\ ~ p + 1 =< again
        BY <1>4, <2>1
      <4>2. outgoing[p + 1] = t + (p + 1) - again
        BY <1>6, <4>1
      <4> QED
        BY <1>2, <1>4, <2>1, <4>1, <4>2
    <3>3. t + 1 \in 0 .. submitted' /\ attempted' \subseteq 1 .. t + 1
      BY <1>2, <1>3, <1>6, <2>1
    <3> QED
      BY <3>1, <3>2, <3>3 DEF Sent
  <2>4. SenderSpan(t + 1)'
    <3>1. Window(t + 1) \in Nat
      BY <1>2, WindowInterval
    <3>2. Window(t + 1) =< Window(i) + (W - F)
      BY <1>2, <2>1, <3>1
    <3>3. \A j \in attempted' : Window(t + 1) =< Window(j) + (W - F)
      BY <1>3, <2>2, <3>2
    <3> QED
      BY <3>3 DEF SenderSpan, W, F
  <2>5. ReceiverSpan(t + 1)'
    <3>1. /\ accepted =< t
          /\ \A p \in DOMAIN incomingReliable :
               /\ incomingReliable[p] =< t /\ incomingReliable[p] \in Nat
               /\ Window(incomingReliable[p]) =< Window(accepted) + F - 2
      BY <1>1, PositionType DEF StreamPosition, ReceiverSpan, F
    <3>2. accepted =< t + 1 /\ \A p \in DOMAIN incomingReliable : incomingReliable[p] =< t + 1
      BY <1>2, <3>1
    <3>3. ReceiverSpan(t + 1)
      BY <2>2, <3>1, <3>2 DEF ReceiverSpan, F
    <3> QED
      BY <1>7, <3>3
  <2>6. Held(t + 1)'
    <3>1. \A j \in 1 .. t + 1 : j \in 1 .. t \/ j = i
      BY <1>2, <2>1
    <3>2. \A j \in 1 .. t : j \in attempted \/ Received(j)
      BY <1>1 DEF StreamPosition, Held
    <3> QED
      BY <1>3, <1>7, <3>1, <3>2 DEF Held
  <2>7. Fresh(t + 1)'
    <3>1. ASSUME NEW d \in dataNet \cup ackNet \cup acknowledgements
          PROVE  d =< t + 1 /\ t + 1 =< d + Reach
      <4>1. d \in Nat /\ d =< t
        BY <1>1, Bounds DEF StreamPosition, Fresh, NetworkType, ReceiverType
      <4>2. d > t + 1 - Lifetime
        <5>1. d > i - Lifetime
          BY <1>3, <1>11 DEF NoStaleDatagram
        <5> QED
          BY <1>2, <1>4, <2>1, <4>1, <5>1, BoundAssumption
      <4>3. Lifetime \in Nat /\ Lifetime =< Reach + 1
        BY BoundAssumption DEF LongestLifetime, Reach
      <4> QED
        BY <1>2, <4>1, <4>2, <4>3
    <3>2. i =< t + 1 /\ t + 1 =< i + Reach
      BY <1>2, <2>1
    <3> QED
      BY <1>5, <1>9, <3>1, <3>2 DEF Fresh
  <2>8. StreamPosition(t + 1)' /\ t + 1 \in 0 .. submitted'
    BY <1>3, <2>1, <2>3, <2>4, <2>5, <2>6, <2>7 DEF StreamPosition
  <2> QED
    BY <1>7, <1>8, <2>8 DEF StreamInv
<1> QED
  BY <1>10, <1>11

\* The command an acknowledgement removes is the one it is about.
LEMMA AcknowledgedCommand ==
  ASSUME SenderInv, NetworkType, NEW t \in 0 .. submitted, t \in Nat, StreamPosition(t),
         NEW i \in ackNet, NEW j \in attempted, Wire(j) = Wire(i)
  PROVE  j = i
<1>1. i \in Nat /\ i =< t /\ t =< i + Reach
  BY Bounds DEF StreamPosition, Fresh, NetworkType
<1>2. j \in Nat /\ j =< t
  BY Bounds DEF StreamPosition, Sent, SenderInv, SenderType
<1>3. Window(t) =< Window(j) + (RELIABLE_WINDOWS - FREE_RELIABLE_WINDOWS)
  BY DEF StreamPosition, SenderSpan
<1>4. t < j + Reach
  BY <1>2, <1>3, SpanReach
<1>5. Reach \in Nat /\ SeqSpace \in Nat /\ Reach < SeqSpace
  <2>1. Reach \in Nat /\ SeqSpace \in Nat
    BY WindowConstants
  <2>2. RELIABLE_WINDOW_SIZE \in Nat \ {0} /\ Reach + 2 * RELIABLE_WINDOW_SIZE =< SeqSpace
    BY WindowConstants
  <2> QED
    BY <2>1, <2>2
<1>6. i < j + SeqSpace /\ j < i + SeqSpace
  BY <1>1, <1>2, <1>4, <1>5
<1> QED
  BY <1>1, <1>2, <1>6, SameWire

\* An acknowledged command is forgotten: the receiver has it.
LEMMA HandleAcknowledgeStream ==
  ASSUME SenderInv, NetworkType, ReceiverType, StreamInv,
         NEW i \in Packets, HandleAcknowledge(i)
  PROVE  StreamInv'
<1>1. PICK t \in 0 .. submitted : StreamPosition(t)
  BY DEF StreamInv
<1>2. /\ t \in Nat /\ submitted \in Nat
      /\ submitted' = submitted /\ i \in ackNet
      /\ ackNet' \subseteq ackNet
      /\ UNCHANGED <<dataNet, receiverVars>>
      /\ RemoveSentReliable(Wire(i))
  BY PositionType DEF HandleAcknowledge
<1>3. /\ outgoing \in Seq(Packets) /\ sentReliable \in Seq(Packets)
      /\ Len(outgoing) \in Nat /\ DOMAIN outgoing = 1 .. Len(outgoing)
      /\ Len(sentReliable) \in Nat /\ DOMAIN sentReliable = 1 .. Len(sentReliable)
      /\ Once /\ Known
  BY LenProperties DEF SenderInv, SenderType
<1> DEFINE again == Len(outgoing) - (submitted - t)
<1>4. /\ attempted \subseteq 1 .. t /\ again >= 0 /\ again \in Int
      /\ \A p \in DOMAIN outgoing :
           IF p =< again THEN outgoing[p] \in attempted ELSE outgoing[p] = t + p - again
  BY <1>1, <1>2, <1>3 DEF StreamPosition, Sent
<1> HIDE DEF again
<1>5. Sent(t)' /\ attempted \ {i} \subseteq attempted' /\ attempted' \subseteq attempted
  <2>1. CASE FoundSent(Wire(i)) # {}
    <3> DEFINE p == First(FoundSent(Wire(i)))
    <3>1. p \in DOMAIN sentReliable /\ Wire(sentReliable[p]) = Wire(i)
      <4>1. FoundSent(Wire(i)) \subseteq Nat
        BY <1>3 DEF FoundSent
      <4>2. p \in FoundSent(Wire(i))
        BY <2>1, <4>1, FirstIsLeast
      <4> QED
        BY <4>2 DEF FoundSent
    <3>2. attempted' = attempted \ {sentReliable[p]} /\ outgoing' = outgoing
      BY <1>2, <2>1 DEF RemoveSentReliable, Forget
    <3> HIDE DEF p
    <3>3. sentReliable[p] \in attempted
      BY <1>3, <3>1 DEF Known
    <3>4. sentReliable[p] = i
      BY <1>1, <1>2, <3>1, <3>3, AcknowledgedCommand
    <3>5. \A k \in DOMAIN outgoing : outgoing[k] # i
      BY <1>3, <3>1, <3>4 DEF Once
    <3>6. Sent(t)'
      <4>1. Len(outgoing') - (submitted' - t) = again
        BY <1>2, <3>2 DEF again
      <4>2. \A k \in DOMAIN outgoing' :
              IF k =< again THEN outgoing'[k] \in attempted' ELSE outgoing'[k] = t + k - again
        BY <1>4, <3>2, <3>4, <3>5
      <4>3. t \in 0 .. submitted' /\ attempted' \subseteq 1 .. t /\ again >= 0
        BY <1>2, <1>4, <3>2
      <4> QED
        BY <4>1, <4>2, <4>3 DEF Sent
    <3> QED
      BY <3>2, <3>4, <3>6
  <2>2. CASE FoundSent(Wire(i)) = {} /\ FoundOutgoing(Wire(i)) # {}
    <3> DEFINE p == First(FoundOutgoing(Wire(i)))
    <3>1. p \in DOMAIN outgoing /\ Wire(outgoing[p]) = Wire(i) /\ outgoing[p] \in attempted
      <4>1. FoundOutgoing(Wire(i)) \subseteq Nat
        BY <1>3 DEF FoundOutgoing
      <4>2. p \in FoundOutgoing(Wire(i))
        BY <2>2, <4>1, FirstIsLeast
      <4>3. p \in 1 .. p
        BY <1>3, <4>1, <4>2 DEF FoundOutgoing
      <4> QED
        BY <4>2, <4>3 DEF FoundOutgoing
    <3>2. attempted' = attempted \ {outgoing[p]} /\ outgoing' = RemoveAt(outgoing, p)
      BY <1>2, <2>2 DEF RemoveSentReliable, Forget
    <3> HIDE DEF p
    <3>3. outgoing[p] = i
      BY <1>1, <1>2, <3>1, AcknowledgedCommand
    <3>4. /\ Len(outgoing') = Len(outgoing) - 1
          /\ DOMAIN outgoing' = 1 .. Len(outgoing) - 1
          /\ \A k \in 1 .. Len(outgoing) - 1 :
               outgoing'[k] = outgoing[IF k < p THEN k ELSE k + 1]
      <4>1. /\ outgoing' \in Seq(Packets) /\ Len(outgoing') = Len(outgoing) - 1
            /\ \A k \in 1 .. Len(outgoing) - 1 :
                 outgoing'[k] = outgoing[IF k < p THEN k ELSE k + 1]
        BY <1>3, <3>1, <3>2, RemoveAtProperties
      <4> QED
        BY <4>1, LenProperties
    <3>5. p =< again /\ p \in 1 .. Len(outgoing)
      <4>1. CASE ~ p =< again
        BY <1>2, <1>3, <1>4, <3>1, <4>1
      <4> QED
        BY <1>3, <3>1, <4>1
    <3>6. Sent(t)'
      <4>1. Len(outgoing') - (submitted' - t) = again - 1
        BY <1>2, <1>3, <3>4 DEF again
      <4>2. ASSUME NEW k \in DOMAIN outgoing'
            PROVE  IF k =< again - 1 THEN outgoing'[k] \in attempted'
                   ELSE outgoing'[k] = t + k - (again - 1)
        <5> DEFINE s == IF k < p THEN k ELSE k + 1
        <5>1. k \in Nat /\ s \in DOMAIN outgoing /\ s # p /\ outgoing'[k] = outgoing[s]
          BY <1>3, <3>4, <3>5
        <5>2. outgoing[s] # i
          BY <1>3, <3>1, <3>3, <5>1 DEF Once
        <5>3. k =< again - 1 => s =< again
          BY <1>4, <3>5, <5>1
        <5>4. ~ k =< again - 1 => ~ s =< again /\ t + k - (again - 1) = t + s - again
          BY <1>2, <1>4, <3>5, <5>1
        <5> HIDE DEF s
        <5> QED
          BY <1>4, <3>2, <3>3, <5>1, <5>2, <5>3, <5>4
      <4>3. t \in 0 .. submitted' /\ attempted' \subseteq 1 .. t
        BY <1>2, <1>4, <3>2
      <4>4. again - 1 >= 0
        BY <1>3, <1>4, <3>5
      <4> QED
        BY <4>1, <4>2, <4>3, <4>4 DEF Sent
    <3> QED
      BY <3>2, <3>3, <3>6
  <2>3. CASE FoundSent(Wire(i)) \cup FoundOutgoing(Wire(i)) = {}
    <3>1. attempted' = attempted /\ outgoing' = outgoing
      BY <1>2, <2>3 DEF RemoveSentReliable
    <3> QED
      BY <1>1, <1>2, <3>1 DEF StreamPosition, Sent
  <2> QED
    BY <2>1, <2>2, <2>3
<1>6. /\ WaitingOrdered' /\ HandedOut'
      /\ \A j : Received(j)' <=> Received(j)
      /\ \A s : ReceiverSpan(s) => ReceiverSpan(s)'
      /\ acknowledgements' = acknowledgements
  BY <1>2, ReceiverKept DEF StreamInv, receiverVars
<1>7. Received(i)
  BY <1>2 DEF StreamInv, AcknowledgesReceived
<1>8. Held(t)'
  BY <1>1, <1>5, <1>6, <1>7 DEF StreamPosition, Held
<1>9. SenderSpan(t)' /\ ReceiverSpan(t)' /\ Fresh(t)'
  BY <1>1, <1>2, <1>5, <1>6 DEF StreamPosition, SenderSpan, Fresh
<1>10. AcknowledgesReceived'
  BY <1>2, <1>6 DEF StreamInv, AcknowledgesReceived
<1> QED
  BY <1>2, <1>5, <1>6, <1>8, <1>9, <1>10 DEF StreamInv, StreamPosition

\* How the receiver sees a packet that arrives: one that it has passed, in no
\* window that it accepts; one that is ahead, in the window where it is.
LEMMA Arrival ==
  ASSUME SenderInv, NetworkType, ReceiverType, WaitingOrdered, HandedOut,
         NEW t \in 0 .. submitted, StreamPosition(t), NEW i \in dataNet
  PROVE  /\ i \in Nat /\ i =< t
         /\ i < accepted + SeqSpace
         /\ i < accepted => ~ AcceptedWindow(Wire(i))
         /\ accepted =< i =>
              /\ AcceptedWindow(Wire(i)) <=>
                   Window(i) =< Window(accepted) + FREE_RELIABLE_WINDOWS - 2
              /\ Window(i) >= Window(accepted) + FREE_RELIABLE_WINDOWS - 1 =>
                   AckSuppressed(Wire(i), incomingReliableSequenceNumber)
<1> DEFINE n == accepted
           F == FREE_RELIABLE_WINDOWS
           u == UnwrappedWindow(Wire(i), Wire(n))
           x == Window(Wire(n))
<1>1. /\ t \in Nat /\ n \in Nat /\ n =< t
      /\ i \in Nat /\ i =< t /\ t =< i + Reach
  <2>1. t \in Nat /\ n \in Nat
    BY PositionType
  <2>2. n =< t
    BY DEF StreamPosition, ReceiverSpan
  <2>3. i \in Nat /\ i =< t /\ t =< i + Reach
    BY Bounds DEF StreamPosition, Fresh, NetworkType
  <2> QED
    BY <2>1, <2>2, <2>3
<1>2. incomingReliableSequenceNumber = Wire(n)
  BY DEF HandedOut
<1>3. t < n + SeqSpace /\ SeqSpace \in Nat /\ Reach \in Nat
  BY LessThanTurn, WindowConstants
<1>4. /\ AcceptedWindow(Wire(i)) <=> u >= x /\ u < x + F - 1
      /\ AckSuppressed(Wire(i), Wire(n)) <=> u >= x + F - 1 /\ u =< x + F
  BY <1>2 DEF AcceptedWindow, AckSuppressed
<1>5. x \in Nat /\ Window(n) \in Nat /\ Window(i) \in Nat /\ F \in Nat
  <2>1. Wire(n) \in Nat
    BY <1>1, WireType, WindowConstants
  <2> QED
    BY <1>1, <2>1, WindowInterval, WindowConstants
<1> HIDE DEF n, F, x
<1>6. i < n + SeqSpace
  BY <1>1, <1>3
<1>7. ASSUME i < n PROVE ~ AcceptedWindow(Wire(i))
  <2>1. n =< i + Reach
    BY <1>1, <1>3
  <2>2. u >= x + F - 1
    BY <1>1, <1>7, <2>1, UnwrapBehind DEF F, x
  <2>3. ~ (u < x + F - 1)
    <3>1. u \in Int
      <4>1. Wire(i) \in Nat /\ Wire(i) \in 0 .. SeqSpace - 1 /\ RELIABLE_WINDOWS \in Nat
        BY <1>1, WireType, WindowConstants
      <4>2. Window(Wire(i)) \in Nat
        BY <4>1, WindowInterval
      <4> QED
        BY <4>1, <4>2 DEF UnwrappedWindow
    <3> HIDE DEF u
    <3> QED
      BY <1>5, <2>2, <3>1
  <2> QED
    BY <1>4, <2>3
<1>8. ASSUME n =< i
      PROVE  /\ AcceptedWindow(Wire(i)) <=> Window(i) =< Window(n) + F - 2
             /\ Window(i) >= Window(n) + F - 1 => AckSuppressed(Wire(i), Wire(n))
  <2>1. u = x + (Window(i) - Window(n))
    BY <1>1, <1>6, <1>8, UnwrapAhead DEF x
  <2>2. Window(n) =< Window(i)
    BY <1>1, <1>8, WindowMonotone
  <2>3. Window(i) =< Window(n) + F
    <3>1. Window(i) =< Window(t) /\ Window(t) \in Nat
      BY <1>1, WindowMonotone, WindowInterval
    <3>2. Window(t) =< Window(n) + F
      BY DEF StreamPosition, ReceiverSpan, n, F
    <3> QED
      BY <1>5, <3>1, <3>2
  <2> HIDE DEF u
  <2> QED
    BY <1>4, <1>5, <2>1, <2>2, <2>3
<1> QED
  BY <1>1, <1>2, <1>6, <1>7, <1>8 DEF n, F

\* What the receiver's list holds is ahead of what it accepted, less than a turn.
LEMMA Waiting ==
  ASSUME SenderInv, ReceiverType, WaitingOrdered,
         NEW t \in 0 .. submitted, StreamPosition(t)
  PROVE  \A p \in DOMAIN incomingReliable :
           /\ incomingReliable[p] \in Nat
           /\ accepted + 1 < incomingReliable[p]
           /\ incomingReliable[p] =< t
           /\ incomingReliable[p] < accepted + SeqSpace
<1>1. t \in Nat /\ accepted \in Nat /\ t < accepted + SeqSpace /\ SeqSpace \in Nat
  BY PositionType, LessThanTurn, WindowConstants
<1>2. \A p \in DOMAIN incomingReliable :
        /\ incomingReliable[p] \in Nat
        /\ accepted + 1 < incomingReliable[p]
        /\ incomingReliable[p] =< t
  <2>1. \A p \in DOMAIN incomingReliable : incomingReliable[p] \in Nat
    BY PositionType
  <2>2. \A p \in DOMAIN incomingReliable : incomingReliable[p] > accepted + 1
    BY DEF WaitingOrdered
  <2>3. \A p \in DOMAIN incomingReliable : incomingReliable[p] =< t
    BY DEF StreamPosition, ReceiverSpan
  <2> QED
    BY <1>1, <2>1, <2>2, <2>3
<1> QED
  BY <1>1, <1>2

\* A packet that arrives ahead of what was accepted: where the search leaves off,
\* and that the packet is in the list only at that place.
LEMMA Place ==
  ASSUME SenderInv, NetworkType, ReceiverType, WaitingOrdered, HandedOut,
         NEW t \in 0 .. submitted, StreamPosition(t), NEW i \in dataNet, accepted =< i
  PROVE  /\ LastNotAfter(Wire(i)) \in 0 .. Len(incomingReliable)
         /\ \A p \in DOMAIN incomingReliable :
              incomingReliable[p] =< i <=> p =< LastNotAfter(Wire(i))
         /\ (\E p \in DOMAIN incomingReliable : incomingReliable[p] = i) <=>
              /\ LastNotAfter(Wire(i)) # 0
              /\ Wire(incomingReliable[LastNotAfter(Wire(i))]) = Wire(i)
<1> DEFINE n == accepted
           s == incomingReliable
           at == LastNotAfter(Wire(i))
<1>1. /\ n \in Nat /\ SeqSpace \in Nat /\ i \in Nat /\ i < n + SeqSpace /\ n =< i
      /\ Len(s) \in Nat /\ DOMAIN s = 1 .. Len(s)
  <2>1. n \in Nat /\ Len(s) \in Nat /\ DOMAIN s = 1 .. Len(s)
    BY PositionType
  <2>2. i \in Nat /\ i < n + SeqSpace
    BY Arrival
  <2> QED
    BY <2>1, <2>2, WindowConstants
<1>2. \A p \in DOMAIN s : s[p] \in Nat /\ n =< s[p] /\ s[p] < n + SeqSpace
  <2>1. \A p \in DOMAIN s : s[p] \in Nat /\ n + 1 < s[p] /\ s[p] < n + SeqSpace
    BY Waiting
  <2> HIDE DEF n, s
  <2> QED
    BY <1>1, <2>1
<1>3. \A p, r \in DOMAIN s : p < r => s[p] < s[r]
  BY DEF WaitingOrdered
<1>4. s \in Seq(Packets) /\ incomingReliableSequenceNumber = Wire(n)
  BY DEF ReceiverType, HandedOut
<1>5. /\ at \in 0 .. Len(s)
      /\ \A p \in DOMAIN s : s[p] =< i <=> p =< at
  <2> HIDE DEF n
  <2> QED
    BY <1>1, <1>2, <1>3, <1>4, LastNotAfterIs
<1> HIDE DEF n, s, at
<1>6. ASSUME NEW p \in DOMAIN s, s[p] = i PROVE at # 0 /\ s[at] = i
  <2>1. p =< at /\ at \in DOMAIN s
    BY <1>1, <1>5, <1>6
  <2>2. s[at] =< i /\ s[at] \in Nat
    BY <1>1, <1>2, <1>5, <2>1
  <2>3. p = at \/ s[p] < s[at]
    BY <1>1, <1>3, <2>1
  <2> QED
    BY <1>1, <1>6, <2>1, <2>2, <2>3
<1>7. ASSUME at # 0, Wire(s[at]) = Wire(i) PROVE \E p \in DOMAIN s : s[p] = i
  <2>1. at \in DOMAIN s
    BY <1>1, <1>5, <1>7
  <2>2. s[at] \in Nat /\ s[at] < i + SeqSpace /\ i < s[at] + SeqSpace
    BY <1>1, <1>2, <2>1
  <2>3. s[at] = i
    BY <1>1, <1>7, <2>2, SameWire
  <2> QED
    BY <2>1, <2>3
<1>8. (\E p \in DOMAIN s : s[p] = i) <=> at # 0 /\ Wire(s[at]) = Wire(i)
  BY <1>6, <1>7
<1> QED
  BY <1>5, <1>8 DEF s, at

\* What is discarded was received before, or is not acknowledged.
LEMMA DiscardedIsReceived ==
  ASSUME SenderInv, NetworkType, ReceiverType, WaitingOrdered, HandedOut,
         NEW t \in 0 .. submitted, StreamPosition(t), NEW i \in dataNet,
         Discard(Wire(i)), ~ AckSuppressed(Wire(i), incomingReliableSequenceNumber)
  PROVE  Received(i)
<1>1. accepted \in Nat /\ i \in Nat /\ i < accepted + SeqSpace /\ SeqSpace \in Nat \ {0}
  BY PositionType, Arrival, WindowConstants
<1>2. CASE i =< accepted
  BY <1>2 DEF Received
<1>3. CASE ~ i =< accepted
  <2>1. accepted =< i
    BY <1>1, <1>3
  <2>2. CASE ~ AcceptedWindow(Wire(i))
    <3>1. ~ (Window(i) =< Window(accepted) + FREE_RELIABLE_WINDOWS - 2)
      BY <2>1, <2>2, Arrival
    <3>2. Window(i) \in Nat /\ Window(accepted) \in Nat /\ FREE_RELIABLE_WINDOWS \in Nat
      <4>1. FREE_RELIABLE_WINDOWS \in 3 .. RELIABLE_WINDOWS
        BY WindowConstants
      <4>2. Window(i) \in Nat /\ Window(accepted) \in Nat
        BY <1>1, WindowInterval
      <4> QED
        BY <4>1, <4>2
    <3>3. Window(i) >= Window(accepted) + FREE_RELIABLE_WINDOWS - 1
      BY <3>1, <3>2
    <3> QED
      BY <2>1, <3>3, Arrival
  <2>3. CASE Wire(i) = incomingReliableSequenceNumber
    <3>1. Wire(i) = Wire(accepted)
      BY <2>3 DEF HandedOut
    <3>2. accepted < i + SeqSpace
      BY <1>1, <2>1
    <3>3. i = accepted
      BY <1>1, <3>1, <3>2, SameWire
    <3> QED
      BY <1>1, <1>3, <3>3
  <2>4. CASE /\ LastNotAfter(Wire(i)) # 0
             /\ Wire(incomingReliable[LastNotAfter(Wire(i))]) = Wire(i)
    BY <2>1, <2>4, Place DEF Received
  <2> QED
    BY <2>2, <2>3, <2>4 DEF Discard
<1> QED
  BY <1>2, <1>3

\* What is not discarded is new, and in a window that the receiver accepts.
LEMMA AcceptedIsNew ==
  ASSUME SenderInv, NetworkType, ReceiverType, WaitingOrdered, HandedOut,
         NEW t \in 0 .. submitted, StreamPosition(t), NEW i \in dataNet,
         ~ Discard(Wire(i))
  PROVE  /\ accepted < i
         /\ Window(i) =< Window(accepted) + FREE_RELIABLE_WINDOWS - 2
         /\ \A p \in DOMAIN incomingReliable : incomingReliable[p] # i
<1>1. accepted \in Nat /\ i \in Nat
  BY PositionType, Arrival
<1>2. /\ AcceptedWindow(Wire(i)) /\ Wire(i) # incomingReliableSequenceNumber
      /\ ~ (/\ LastNotAfter(Wire(i)) # 0
            /\ Wire(incomingReliable[LastNotAfter(Wire(i))]) = Wire(i))
  BY DEF Discard
<1>3. ~ i < accepted
  BY <1>2, Arrival
<1>4. i # accepted
  BY <1>2 DEF HandedOut
<1>5. accepted < i /\ accepted =< i
  BY <1>1, <1>3, <1>4
<1>6. Window(i) =< Window(accepted) + FREE_RELIABLE_WINDOWS - 2
  BY <1>2, <1>5, Arrival
<1> QED
  BY <1>2, <1>5, <1>6, Place

\* A new packet is put in its place, and what continues the stream is dispatched.
LEMMA AcceptStream ==
  ASSUME SenderInv, NetworkType, ReceiverType, WaitingOrdered, HandedOut,
         NEW t \in 0 .. submitted, StreamPosition(t), NEW i \in dataNet,
         ~ Discard(Wire(i)), Accept(i), delivered' = delivered
  PROVE  /\ WaitingOrdered' /\ HandedOut'
         /\ accepted' \in accepted .. t
         /\ \A p \in DOMAIN incomingReliable' :
              incomingReliable'[p] \in Nat /\ incomingReliable'[p] =< t
              /\ Window(incomingReliable'[p]) =< Window(accepted) + FREE_RELIABLE_WINDOWS - 2
         /\ \A j \in Nat : Received(j) \/ j = i => Received(j)'
<1> DEFINE n == accepted
           r == incomingReliable
           at == LastNotAfter(Wire(i))
           s == InsertAt(r, at + 1, i)
           k == Ready(s, Wire(n))
           B == Window(n) + FREE_RELIABLE_WINDOWS - 2
<1>1. /\ t \in Nat /\ n \in Nat /\ SeqSpace \in Nat /\ n =< t /\ t < n + SeqSpace
      /\ Len(r) \in Nat /\ DOMAIN r = 1 .. Len(r)
      /\ Len(delivered) \in Nat /\ Len(dispatched) \in Nat
      /\ DOMAIN dispatched = 1 .. Len(dispatched)
      /\ n = Len(delivered) + Len(dispatched)
  <2>1. n =< t
    BY DEF StreamPosition, ReceiverSpan
  <2>2. t < n + SeqSpace /\ SeqSpace \in Nat
    BY LessThanTurn, WindowConstants
  <2> QED
    BY <2>1, <2>2, PositionType DEF accepted
<1>2. /\ i \in Nat /\ i \in Packets /\ i =< t /\ n < i /\ Window(i) =< B
      /\ \A p \in DOMAIN r : r[p] # i
  BY AcceptedIsNew, Arrival DEF NetworkType
<1>3. \A p \in DOMAIN r : r[p] \in Nat /\ n + 1 < r[p] /\ r[p] =< t /\ Window(r[p]) =< B
  BY Waiting DEF StreamPosition, ReceiverSpan
<1>4. /\ at \in 0 .. Len(r)
      /\ \A p \in DOMAIN r : r[p] =< i <=> p =< at
  <2>1. n =< i
    BY <1>1, <1>2
  <2> QED
    BY <2>1, Place
<1>5. \A p, q \in DOMAIN r : p < q => r[p] < r[q]
  BY DEF WaitingOrdered
<1>6. /\ incomingReliableSequenceNumber = Wire(n)
      /\ \A j \in DOMAIN delivered : delivered[j] = j
      /\ \A j \in DOMAIN dispatched : dispatched[j] = Len(delivered) + j
  BY DEF HandedOut
<1>7. /\ incomingReliable' = SubSeq(s, k + 1, Len(s))
      /\ dispatched' = dispatched \o SubSeq(s, 1, k)
      /\ incomingReliableSequenceNumber' = Wire(Wire(n) + k)
  BY <1>6 DEF Accept
<1>8. r \in Seq(Packets) /\ dispatched \in Seq(Packets)
  BY DEF ReceiverType
<1>9. /\ s \in Seq(Packets) /\ Len(s) = Len(r) + 1
      /\ \A p \in 1 .. Len(r) + 1 :
           s[p] = IF p < at + 1 THEN r[p] ELSE IF p = at + 1 THEN i ELSE r[p - 1]
  <2>1. at + 1 \in 1 .. Len(r) + 1
    BY <1>1, <1>4
  <2> HIDE DEF at, r
  <2>2. PICK a \in 1 .. Len(r) + 1 : a = at + 1
    BY <2>1
  <2>3. /\ InsertAt(r, a, i) \in Seq(Packets) /\ Len(InsertAt(r, a, i)) = Len(r) + 1
        /\ \A p \in 1 .. Len(r) + 1 :
             InsertAt(r, a, i)[p] = IF p < a THEN r[p] ELSE IF p = a THEN i ELSE r[p - 1]
    BY <1>2, <1>8, InsertAtProperties
  <2> QED
    BY <2>2, <2>3
<1> HIDE DEF n, r, at, s, k, B
<1>11. ASSUME NEW p \in 1 .. Len(s)
       PROVE  s[p] \in Nat /\ n < s[p] /\ s[p] =< t /\ Window(s[p]) =< B
  <2>1. CASE p < at + 1
    <3>1. p \in DOMAIN r /\ s[p] = r[p]
      BY <1>1, <1>4, <1>9, <2>1
    <3> QED
      BY <1>1, <1>3, <3>1
  <2>2. CASE p = at + 1
    BY <1>1, <1>2, <1>4, <1>9, <2>2
  <2>3. CASE p > at + 1
    <3>1. p - 1 \in DOMAIN r /\ s[p] = r[p - 1]
      BY <1>1, <1>4, <1>9, <2>3
    <3> QED
      BY <1>1, <1>3, <3>1
  <2> QED
    BY <1>1, <1>4, <1>9, <2>1, <2>2, <2>3
<1>12. ASSUME NEW p \in 1 .. Len(s), NEW q \in 1 .. Len(s), p < q
       PROVE  s[p] < s[q]
  <2>1. /\ p \in Nat /\ q \in Nat /\ at \in Nat /\ Len(s) = Len(r) + 1
        /\ at =< Len(r) /\ p =< Len(r) + 1 /\ q =< Len(r) + 1 /\ 1 =< p
    BY <1>1, <1>4, <1>9
  <2>2. CASE q < at + 1
    <3>1. p \in DOMAIN r /\ q \in DOMAIN r /\ s[p] = r[p] /\ s[q] = r[q]
      BY <1>1, <1>9, <1>12, <2>1, <2>2
    <3> QED
      BY <1>5, <1>12, <3>1
  <2>3. CASE q = at + 1
    <3>1. p \in DOMAIN r /\ s[p] = r[p] /\ s[q] = i /\ p =< at
      BY <1>1, <1>9, <1>12, <2>1, <2>3
    <3>2. r[p] =< i /\ r[p] # i /\ r[p] \in Nat
      BY <1>2, <1>3, <1>4, <3>1
    <3> QED
      BY <1>2, <3>1, <3>2
  <2>4. CASE q > at + 1 /\ p < at + 1
    <3>1. /\ p \in DOMAIN r /\ q - 1 \in DOMAIN r /\ s[p] = r[p] /\ s[q] = r[q - 1]
          /\ p < q - 1
      BY <1>1, <1>9, <2>1, <2>4
    <3> QED
      BY <1>5, <3>1
  <2>5. CASE q > at + 1 /\ p = at + 1
    <3>1. s[p] = i /\ q - 1 \in DOMAIN r /\ s[q] = r[q - 1] /\ ~ q - 1 =< at
      BY <1>1, <1>9, <2>1, <2>5
    <3>2. ~ r[q - 1] =< i /\ r[q - 1] \in Nat
      BY <1>3, <1>4, <3>1
    <3> QED
      BY <1>2, <3>1, <3>2
  <2>6. CASE q > at + 1 /\ p > at + 1
    <3>1. /\ p - 1 \in DOMAIN r /\ q - 1 \in DOMAIN r /\ p - 1 < q - 1
          /\ s[p] = r[p - 1] /\ s[q] = r[q - 1]
      BY <1>1, <1>9, <1>12, <2>1, <2>6
    <3> QED
      BY <1>5, <3>1
  <2> QED
    BY <2>1, <2>2, <2>3, <2>4, <2>5, <2>6
<1>13. /\ k \in 0 .. Len(s)
       /\ \A p \in 1 .. k : s[p] = n + p
       /\ \A p \in k + 1 .. Len(s) : s[p] > n + k + 1
  <2>1. \A p \in 1 .. Len(s) : n < s[p] /\ s[p] < n + SeqSpace
    BY <1>1, <1>11
  <2> QED
    BY <1>1, <1>9, <1>12, <2>1, ReadyIs DEF k
<1>14. Len(s) \in Nat /\ k \in Nat /\ \A p \in 1 .. Len(s) : s[p] \in Packets
  BY <1>9, <1>13, LenProperties, ElementOfSeq
<1>15. /\ Len(incomingReliable') = Len(s) - k
       /\ DOMAIN incomingReliable' = 1 .. Len(s) - k
       /\ \A p \in 1 .. Len(s) - k : incomingReliable'[p] = s[k + p]
  <2>1. \A p \in k + 1 .. Len(s) : s[p] \in Packets
    BY <1>14
  <2>2. /\ incomingReliable' \in Seq(Packets)
        /\ Len(incomingReliable') = IF k + 1 =< Len(s) THEN Len(s) - (k + 1) + 1 ELSE 0
        /\ \A p \in 1 .. Len(s) - (k + 1) + 1 : incomingReliable'[p] = s[(k + 1) + p - 1]
    BY <1>7, <1>14, <2>1, SubSeqProperties
  <2>3. Len(incomingReliable') = Len(s) - k /\ Len(s) - (k + 1) + 1 = Len(s) - k
    BY <1>13, <1>14, <2>2
  <2>4. \A p \in 1 .. Len(s) - k : (k + 1) + p - 1 = k + p
    BY <1>14
  <2> QED
    BY <2>2, <2>3, <2>4, LenProperties
<1>16. /\ Len(dispatched') = Len(dispatched) + k
       /\ DOMAIN dispatched' = 1 .. Len(dispatched) + k
       /\ \A p \in 1 .. Len(dispatched) + k :
            dispatched'[p] = IF p =< Len(dispatched) THEN dispatched[p]
                             ELSE s[p - Len(dispatched)]
  <2> DEFINE f == SubSeq(s, 1, k)
  <2>1. \A p \in 1 .. k : s[p] \in Packets
    BY <1>13, <1>14
  <2>2. f \in Seq(Packets) /\ Len(f) = k /\ \A p \in 1 .. k : f[p] = s[p]
    <3>1. /\ f \in Seq(Packets) /\ Len(f) = IF 1 =< k THEN k - 1 + 1 ELSE 0
          /\ \A p \in 1 .. k - 1 + 1 : f[p] = s[1 + p - 1]
      BY <1>14, <2>1, SubSeqProperties
    <3>2. k - 1 + 1 = k /\ \A p \in 1 .. k : 1 + p - 1 = p
      BY <1>14
    <3>3. Len(f) = k
      BY <1>14, <3>1
    <3> HIDE DEF f
    <3> QED
      BY <3>1, <3>2, <3>3
  <2> HIDE DEF f
  <2>3. dispatched' = dispatched \o f
    BY <1>7 DEF f
  <2>4. /\ dispatched \o f \in Seq(Packets)
        /\ Len(dispatched \o f) = Len(dispatched) + Len(f)
        /\ \A p \in 1 .. Len(dispatched) + Len(f) :
             (dispatched \o f)[p] = IF p =< Len(dispatched) THEN dispatched[p]
                                   ELSE f[p - Len(dispatched)]
    BY <1>8, <2>2, ConcatProperties
  <2>5. \A p \in 1 .. Len(dispatched) + k :
          ~ p =< Len(dispatched) => p - Len(dispatched) \in 1 .. k
    BY <1>1, <1>14
  <2> QED
    BY <2>2, <2>3, <2>4, <2>5, LenProperties
<1>17. accepted' = n + k
  BY <1>1, <1>14, <1>16 DEF accepted
<1>18. accepted' \in accepted .. t
  <2>1. n + k =< t
    <3>1. CASE k = 0
      BY <1>1, <3>1
    <3>2. CASE k # 0
      <4>1. k \in 1 .. k /\ k \in 1 .. Len(s)
        BY <1>13, <1>14, <3>2
      <4> QED
        BY <1>11, <1>13, <4>1
    <3> QED
      BY <3>1, <3>2
  <2> QED
    BY <1>1, <1>14, <1>17, <2>1 DEF n
<1>19. ASSUME NEW p \in DOMAIN incomingReliable'
       PROVE  /\ k + p \in 1 .. Len(s) /\ k + p \in k + 1 .. Len(s)
              /\ incomingReliable'[p] = s[k + p]
  BY <1>14, <1>15
<1>20. WaitingOrdered'
  <2>1. ASSUME NEW p \in DOMAIN incomingReliable', NEW q \in DOMAIN incomingReliable', p < q
        PROVE  incomingReliable'[p] < incomingReliable'[q]
    <3>1. k + p < k + q
      BY <1>14, <1>15, <2>1
    <3> QED
      BY <1>12, <1>19, <3>1
  <2>2. ASSUME NEW p \in DOMAIN incomingReliable'
        PROVE  incomingReliable'[p] > accepted' + 1
    BY <1>13, <1>17, <1>19
  <2> QED
    BY <2>1, <2>2 DEF WaitingOrdered
<1>21. HandedOut'
  <2>1. ASSUME NEW p \in DOMAIN dispatched' PROVE dispatched'[p] = Len(delivered') + p
    <3>1. CASE p =< Len(dispatched)
      BY <1>1, <1>6, <1>14, <1>16, <3>1
    <3>2. CASE ~ p =< Len(dispatched)
      <4>1. /\ p - Len(dispatched) \in 1 .. k
            /\ n + (p - Len(dispatched)) = Len(delivered) + p
        BY <1>1, <1>14, <1>16, <3>2
      <4> QED
        BY <1>13, <1>16, <3>2, <4>1
    <3> QED
      BY <3>1, <3>2
  <2>2. incomingReliableSequenceNumber' = Wire(accepted')
    BY <1>1, <1>7, <1>14, <1>17, WireNext
  <2> QED
    BY <1>6, <2>1, <2>2 DEF HandedOut
<1>22. ASSUME NEW j \in Nat, Received(j) \/ j = i PROVE Received(j)'
  <2>1. CASE j =< n
    <3>1. j =< accepted'
      BY <1>1, <1>14, <1>17, <2>1
    <3> QED
      BY <3>1 DEF Received
  <2>2. CASE \E p \in 1 .. Len(s) : s[p] = j
    <3>1. PICK p \in 1 .. Len(s) : s[p] = j
      BY <2>2
    <3>2. CASE p =< k
      <4>1. p \in 1 .. k
        BY <1>14, <3>2
      <4>2. s[p] = n + p
        BY <1>13, <4>1
      <4>3. n + p =< n + k
        BY <1>1, <1>14, <4>1
      <4> QED
        BY <1>17, <3>1, <4>2, <4>3 DEF Received
    <3>3. CASE p > k
      <4>1. p - k \in DOMAIN incomingReliable' /\ k + (p - k) = p
        BY <1>14, <1>15, <3>3
      <4>2. incomingReliable'[p - k] = j
        BY <1>19, <3>1, <4>1
      <4> QED
        BY <4>1, <4>2 DEF Received
    <3> QED
      BY <1>14, <3>2, <3>3
  <2>3. CASE j = i
    <3>1. at + 1 \in 1 .. Len(s) /\ s[at + 1] = i
      BY <1>1, <1>4, <1>9
    <3> QED
      BY <2>2, <2>3, <3>1
  <2>4. CASE \E p \in DOMAIN r : r[p] = j
    <3>1. PICK p \in DOMAIN r : r[p] = j
      BY <2>4
    <3>2. CASE p =< at
      <4>1. p \in 1 .. Len(s) /\ s[p] = j
        BY <1>1, <1>4, <1>9, <3>1, <3>2
      <4> QED
        BY <2>2, <4>1
    <3>3. CASE p > at
      <4>1. p + 1 \in 1 .. Len(s) /\ s[p + 1] = r[p + 1 - 1] /\ p + 1 - 1 = p
        BY <1>1, <1>4, <1>9, <3>3
      <4> QED
        BY <2>2, <3>1, <4>1
    <3> QED
      BY <1>1, <1>4, <3>2, <3>3
  <2> QED
    BY <1>22, <2>1, <2>3, <2>4 DEF Received, n, r
<1>23. \A p \in DOMAIN incomingReliable' :
         /\ incomingReliable'[p] \in Nat /\ incomingReliable'[p] =< t
         /\ Window(incomingReliable'[p]) =< B
  BY <1>11, <1>19
<1> QED
  BY <1>18, <1>20, <1>21, <1>22, <1>23 DEF B, n

\* The handler of a SEND_RELIABLE command, whatever it does with the command.
LEMMA HandleSendReliableStream ==
  ASSUME SenderInv, NetworkType, ReceiverType, StreamInv,
         NEW i \in Packets, HandleSendReliable(i)
  PROVE  StreamInv'
<1>1. PICK t \in 0 .. submitted : StreamPosition(t)
  BY DEF StreamInv
<1>2. WaitingOrdered /\ HandedOut /\ AcknowledgesReceived
  BY DEF StreamInv
<1>3. /\ i \in dataNet /\ dataNet' \subseteq dataNet
      /\ UNCHANGED <<senderVars, ackNet, delivered>>
      /\ submitted' = submitted
  BY DEF HandleSendReliable, senderVars
<1>4. /\ t \in Nat /\ accepted \in Nat /\ i \in Nat /\ i =< t
      /\ \A d \in dataNet \cup ackNet \cup acknowledgements : d \in Nat
  BY <1>1, <1>2, <1>3, PositionType, Arrival, Bounds DEF NetworkType, ReceiverType
\* What is left of the invariant once the receiver's part of the step is known.
<1>5. ASSUME WaitingOrdered', HandedOut', ReceiverSpan(t)',
             \A j \in Nat : Received(j) => Received(j)',
             acknowledgements' \subseteq acknowledgements \cup {i},
             i \in acknowledgements' => i \in acknowledgements \/ Received(i)'
      PROVE  StreamInv'
  <2>1. Sent(t)' /\ SenderSpan(t)'
    BY <1>1, <1>3 DEF StreamPosition, Sent, SenderSpan, senderVars
  <2>2. Held(t)'
    BY <1>1, <1>3, <1>4, <1>5 DEF StreamPosition, Held, senderVars
  <2>3. Fresh(t)'
    <3>1. dataNet' \cup ackNet' \cup acknowledgements'
            \subseteq dataNet \cup ackNet \cup acknowledgements
      BY <1>3, <1>5
    <3> QED
      BY <1>1, <3>1 DEF StreamPosition, Fresh
  <2>4. AcknowledgesReceived'
    BY <1>2, <1>3, <1>4, <1>5 DEF AcknowledgesReceived
  <2> QED
    BY <1>3, <1>5, <2>1, <2>2, <2>3, <2>4 DEF StreamInv, StreamPosition
<1>6. CASE UNCHANGED <<incomingReliable, dispatched, incomingReliableSequenceNumber>>
  <2>1. /\ WaitingOrdered' /\ HandedOut' /\ ReceiverSpan(t)'
        /\ \A j : Received(j)' <=> Received(j)
    BY <1>1, <1>2, <1>3, <1>6, ReceiverKept DEF StreamPosition
  <2>2. CASE Discard(Wire(i)) /\ QueueAcknowledgement(i, incomingReliableSequenceNumber)
    <3>1. \/ acknowledgements' = acknowledgements
          \/ /\ acknowledgements' = acknowledgements \cup {i}
             /\ ~ AckSuppressed(Wire(i), incomingReliableSequenceNumber)
      BY <2>2 DEF QueueAcknowledgement
    <3>2. i \in acknowledgements' => i \in acknowledgements \/ Received(i)
      BY <1>1, <1>2, <1>3, <2>2, <3>1, DiscardedIsReceived
    <3>3. acknowledgements' \subseteq acknowledgements \cup {i}
      BY <3>1
    <3> QED
      BY <1>5, <2>1, <3>2, <3>3
  <2>3. CASE acknowledgements' = acknowledgements
    BY <1>5, <2>1, <2>3
  <2>4. CASE ~ Discard(Wire(i)) /\ Accept(i)
    <3>1. \/ acknowledgements' = acknowledgements
          \/ acknowledgements' = acknowledgements \cup {i}
      BY DEF HandleSendReliable, QueueAcknowledgement
    <3>2. Received(i)'
      BY <1>1, <1>2, <1>3, <1>4, <2>4, AcceptStream
    <3>3. /\ acknowledgements' \subseteq acknowledgements \cup {i}
          /\ i \in acknowledgements' => i \in acknowledgements \/ Received(i)'
      BY <3>1, <3>2
    <3> QED
      BY <1>5, <2>1, <3>3
  <2> QED
    BY <2>2, <2>3, <2>4 DEF HandleSendReliable
<1>7. CASE ~ Discard(Wire(i)) /\ Accept(i)
  <2>1. /\ WaitingOrdered' /\ HandedOut'
        /\ accepted' \in accepted .. t
        /\ \A p \in DOMAIN incomingReliable' :
             incomingReliable'[p] \in Nat /\ incomingReliable'[p] =< t
             /\ Window(incomingReliable'[p]) =< Window(accepted) + FREE_RELIABLE_WINDOWS - 2
        /\ \A j \in Nat : Received(j) \/ j = i => Received(j)'
    BY <1>1, <1>2, <1>3, <1>7, AcceptStream
  <2>2. ReceiverSpan(t)'
    <3>1. accepted' \in Nat /\ accepted =< accepted' /\ accepted' =< t
      BY <1>4, <2>1
    <3>2. /\ Window(accepted) =< Window(accepted')
          /\ Window(accepted) \in Nat /\ Window(accepted') \in Nat /\ Window(t) \in Nat
          /\ \A p \in DOMAIN incomingReliable' : Window(incomingReliable'[p]) \in Nat
      BY <1>4, <2>1, <3>1, WindowMonotone, WindowInterval
    <3>3. FREE_RELIABLE_WINDOWS \in Nat
      <4>1. FREE_RELIABLE_WINDOWS \in 3 .. RELIABLE_WINDOWS
        BY WindowConstants
      <4> QED
        BY <4>1
    <3>4. Window(t) =< Window(accepted) + FREE_RELIABLE_WINDOWS
      BY <1>1 DEF StreamPosition, ReceiverSpan
    <3>5. Window(t) =< Window(accepted') + FREE_RELIABLE_WINDOWS
      BY <3>2, <3>3, <3>4
    <3>6. ASSUME NEW p \in DOMAIN incomingReliable'
          PROVE  Window(incomingReliable'[p]) =< Window(accepted') + FREE_RELIABLE_WINDOWS - 2
      BY <2>1, <3>2, <3>3
    <3> QED
      BY <2>1, <3>1, <3>5, <3>6 DEF ReceiverSpan
  <2>3. \/ acknowledgements' = acknowledgements
        \/ acknowledgements' = acknowledgements \cup {i}
    BY DEF HandleSendReliable, QueueAcknowledgement
  <2>4. /\ acknowledgements' \subseteq acknowledgements \cup {i}
        /\ i \in acknowledgements' => i \in acknowledgements \/ Received(i)'
    BY <1>4, <2>1, <2>3
  <2> QED
    BY <1>5, <2>1, <2>2, <2>4
<1> QED
  BY <1>6, <1>7 DEF HandleSendReliable

\* enet_protocol_send_acknowledgements puts into the network what was queued.
LEMMA SendAcknowledgementsStream ==
  ASSUME SenderInv, NetworkType, ReceiverType, StreamInv, SendAcknowledgements
  PROVE  StreamInv'
<1>1. PICK t \in 0 .. submitted : StreamPosition(t)
  BY DEF StreamInv
<1>2. /\ acknowledgements' = {}
      /\ ackNet' \subseteq ackNet \cup acknowledgements
      /\ UNCHANGED <<senderVars, dataNet, incomingReliableSequenceNumber,
                     incomingReliable, dispatched, delivered>>
  BY TransmitSubset DEF SendAcknowledgements
<1>3. Fresh(t)'
  BY <1>1, <1>2 DEF StreamPosition, Fresh
<1>4. AcknowledgesReceived'
  BY <1>2, ReceiverKept DEF StreamInv, AcknowledgesReceived
<1> QED
  BY <1>1, <1>2, <1>3, <1>4, ReceiverKept
     DEF StreamInv, StreamPosition, Sent, SenderSpan, Held, senderVars

\* enet_peer_receive hands out the next packet of the stream.
LEMMA ReceiveStream ==
  ASSUME SenderInv, NetworkType, ReceiverType, StreamInv, Receive
  PROVE  /\ StreamInv'
         /\ delivered' = Append(delivered, Len(delivered) + 1)
         /\ Len(delivered) < submitted
<1>1. PICK t \in 0 .. submitted : StreamPosition(t)
  BY DEF StreamInv
<1>2. /\ dispatched # <<>> /\ dispatched' = Tail(dispatched)
      /\ delivered' = Append(delivered, Head(dispatched))
      /\ UNCHANGED <<senderVars, networkVars, incomingReliableSequenceNumber,
                     incomingReliable, acknowledgements>>
  BY DEF Receive
<1>3. /\ t \in Nat /\ submitted \in Nat
      /\ Len(delivered) \in Nat /\ DOMAIN delivered = 1 .. Len(delivered)
      /\ Len(dispatched) \in Nat /\ DOMAIN dispatched = 1 .. Len(dispatched)
  BY PositionType
<1>4. /\ dispatched \in Seq(Packets) /\ delivered \in Seq(Packets)
  BY DEF ReceiverType
<1>5. /\ Len(dispatched) >= 1
      /\ Head(dispatched) = dispatched[1]
      /\ Len(dispatched') = Len(dispatched) - 1
      /\ DOMAIN dispatched' = 1 .. Len(dispatched) - 1
      /\ \A k \in 1 .. Len(dispatched) - 1 : dispatched'[k] = dispatched[k + 1]
      /\ Head(dispatched) \in Packets
  BY <1>2, <1>3, <1>4, HeadTailProperties, LenProperties, EmptySeq
<1>6. /\ Len(delivered') = Len(delivered) + 1
      /\ DOMAIN delivered' = 1 .. Len(delivered) + 1
      /\ \A k \in 1 .. Len(delivered) : delivered'[k] = delivered[k]
      /\ delivered'[Len(delivered) + 1] = Head(dispatched)
  BY <1>2, <1>4, <1>5, AppendProperties, LenProperties
<1>7. HandedOut
  BY DEF StreamInv
<1>8. Head(dispatched) = Len(delivered) + 1
  BY <1>3, <1>5, <1>7 DEF HandedOut
<1>9. accepted' = accepted
  BY <1>3, <1>5, <1>6 DEF accepted
<1>10. HandedOut'
  <2>1. \A k \in DOMAIN delivered' : delivered'[k] = k
    BY <1>3, <1>6, <1>7, <1>8 DEF HandedOut
  <2>2. ASSUME NEW k \in DOMAIN dispatched' PROVE dispatched'[k] = Len(delivered') + k
    <3>1. k + 1 \in DOMAIN dispatched /\ dispatched'[k] = dispatched[k + 1] /\ k \in Nat
      BY <1>3, <1>5
    <3>2. dispatched[k + 1] = Len(delivered) + (k + 1)
      BY <1>7, <3>1 DEF HandedOut
    <3> QED
      BY <1>3, <1>6, <3>1, <3>2
  <2> QED
    BY <1>2, <1>7, <1>9, <2>1, <2>2 DEF HandedOut
<1>11. WaitingOrdered'
  BY <1>2, <1>9 DEF StreamInv, WaitingOrdered
<1>12. StreamPosition(t)'
  BY <1>1, <1>2, <1>9
     DEF StreamPosition, Sent, SenderSpan, ReceiverSpan, Held, Fresh, Received,
         senderVars, networkVars
<1>13. AcknowledgesReceived'
  BY <1>2, <1>9 DEF StreamInv, AcknowledgesReceived, Received, networkVars
<1>14. Len(delivered) < submitted
  <2>1. accepted =< t
    BY <1>1 DEF StreamPosition, ReceiverSpan
  <2> QED
    BY <1>3, <1>5, <2>1 DEF accepted
<1>15. submitted' = submitted
  BY <1>2 DEF senderVars
<1> QED
  BY <1>2, <1>8, <1>10, <1>11, <1>12, <1>13, <1>14, <1>15 DEF StreamInv

\* A smaller network, and nothing else.
LEMMA OthersStream ==
  ASSUME StreamInv, dataNet' \subseteq dataNet, ackNet' \subseteq ackNet,
         UNCHANGED <<submitted, outgoing, attempted, receiverVars>>
  PROVE  StreamInv'
<1>1. PICK t \in 0 .. submitted : StreamPosition(t)
  BY DEF StreamInv
<1>2. /\ accepted' = accepted /\ WaitingOrdered' /\ HandedOut'
      /\ \A i : Received(i)' <=> Received(i)
      /\ ReceiverSpan(t)'
      /\ acknowledgements' = acknowledgements
  BY <1>1, ReceiverKept DEF StreamInv, StreamPosition, receiverVars
<1>3. Sent(t)' /\ SenderSpan(t)' /\ Held(t)' /\ Fresh(t)'
  BY <1>1, <1>2 DEF StreamPosition, Sent, SenderSpan, Held, Fresh
<1>4. AcknowledgesReceived'
  BY <1>2 DEF StreamInv, AcknowledgesReceived
<1> QED
  BY <1>2, <1>3, <1>4 DEF StreamInv, StreamPosition

\* Every step keeps the invariant.
LEMMA StreamStep ==
  ASSUME Lifetime =< LongestLifetime,
         SenderInv, NetworkType, ReceiverType, StreamInv, [Next]_vars
  PROVE  StreamInv'
<1>1. CASE Send
  BY <1>1, SendStream
<1>2. CASE \E expired \in SUBSET DOMAIN sentReliable : CheckTimeouts(expired)
  BY <1>2, CheckTimeoutsStream
<1>3. CASE SendReliable
  BY <1>3, SendReliableStream
<1>4. CASE EndPass \/ SocketError
  BY <1>4, OthersStream DEF EndPass, SocketError, networkVars
<1>5. ASSUME NEW i \in Packets, HandleAcknowledge(i) PROVE StreamInv'
  BY <1>5, HandleAcknowledgeStream
<1>6. ASSUME NEW i \in Packets, HandleSendReliable(i) PROVE StreamInv'
  BY <1>6, HandleSendReliableStream
<1>7. CASE SendAcknowledgements
  BY <1>7, SendAcknowledgementsStream
<1>8. CASE Receive
  BY <1>8, ReceiveStream
<1>9. CASE LoseData \/ LoseAck
  BY <1>9, OthersStream DEF LoseData, LoseAck, senderVars
<1>10. CASE UNCHANGED vars
  BY <1>10, OthersStream DEF vars, senderVars, networkVars
<1> QED
  BY <1>1, <1>2, <1>3, <1>4, <1>5, <1>6, <1>7, <1>8, <1>9, <1>10 DEF Next, NextNoError

\* A new channel has sent, received and acknowledged nothing.
LEMMA InitStream == Init => StreamInv
<1> SUFFICES ASSUME Init PROVE StreamInv
  OBVIOUS
<1>1. /\ accepted = 0 /\ Len(outgoing) = 0 /\ submitted = 0 /\ Wire(0) = 0
      /\ outgoing = <<>> /\ attempted = {} /\ incomingReliable = <<>>
      /\ delivered = <<>> /\ dispatched = <<>> /\ incomingReliableSequenceNumber = 0
      /\ dataNet \cup ackNet \cup acknowledgements = {}
  <2>1. Wire(0) = 0
    BY WindowConstants DEF Wire
  <2> QED
    BY <2>1 DEF Init, accepted
<1>2. Window(0) \in Nat /\ FREE_RELIABLE_WINDOWS \in 3 .. RELIABLE_WINDOWS
  BY WindowInterval, WindowConstants
<1>3. Sent(0) /\ SenderSpan(0) /\ ReceiverSpan(0) /\ Held(0) /\ Fresh(0)
  BY <1>1, <1>2 DEF Sent, SenderSpan, ReceiverSpan, Held, Fresh
<1>4. AcknowledgesReceived /\ WaitingOrdered /\ HandedOut
  BY <1>1 DEF AcknowledgesReceived, WaitingOrdered, HandedOut
<1> QED
  BY <1>1, <1>3, <1>4 DEF StreamInv, StreamPosition

-----------------------------------------------------------------------------
(* What the sender keeps: an attempted command stays in one of its lists. *)

Kept ==
  \A i \in attempted :
    \/ \E p \in DOMAIN outgoing : outgoing[p] = i
    \/ \E p \in DOMAIN sentReliable : sentReliable[p] = i

\* To list a set of positions in order is to list each of them.
LEMMA InOrderCovers ==
  ASSUME NEW E, IsFiniteSet(E), NEW f \in InOrder(E), E \subseteq Nat, NEW e \in E
  PROVE  \E k \in 1 .. Cardinality(E) : f[k] = e
<1> DEFINE n == Cardinality(E)
<1>1. n \in Nat
  BY FS_CardinalityType
<1>2. f \in [1 .. n -> E] /\ \A j, k \in 1 .. n : j < k => f[j] < f[k]
  BY DEF InOrder
<1>3. IsFiniteSet(1 .. n) /\ Cardinality(1 .. n) = n
  BY <1>1, FS_Interval
<1> HIDE DEF n
<1>4. ASSUME NEW j \in 1 .. n, NEW k \in 1 .. n, f[j] = f[k] PROVE j = k
  <2>1. f[j] \in Nat /\ f[k] \in Nat
    BY <1>2
  <2> QED
    BY <1>1, <1>2, <1>4, <2>1
<1>5. f \in Injection(1 .. n, E)
  BY <1>2, <1>4 DEF Injection, IsInjective
<1>6. f \in Surjection(1 .. n, E)
  BY <1>3, <1>5, FS_Injection DEF n
<1> QED
  BY <1>6 DEF Surjection, n

\* A timeout moves a command from one list to the other.
LEMMA CheckTimeoutsKept ==
  ASSUME SenderInv, Kept,
         NEW expired \in SUBSET DOMAIN sentReliable, CheckTimeouts(expired)
  PROVE  Kept'
<1> DEFINE remain == DOMAIN sentReliable \ expired
<1>1. PICK late \in InOrder(expired), rest \in InOrder(remain) :
        /\ outgoing' = Picked(sentReliable, late) \o outgoing
        /\ sentReliable' = Picked(sentReliable, rest)
  BY DEF CheckTimeouts
<1>2. attempted' = attempted
  BY DEF CheckTimeouts
<1>3. outgoing \in Seq(Packets) /\ sentReliable \in Seq(Packets)
  BY DEF SenderInv, SenderType
<1> DEFINE back == Picked(sentReliable, late)  left == Picked(sentReliable, rest)
           n == Cardinality(expired)  m == Cardinality(remain)
<1>4. /\ n \in Nat /\ back \in Seq(Packets) /\ Len(back) = n
      /\ \A k \in 1 .. n : back[k] = sentReliable[late[k]]
  BY <1>3, PickedProperties
<1>5. /\ m \in Nat /\ left \in Seq(Packets) /\ Len(left) = m
      /\ \A k \in 1 .. m : left[k] = sentReliable[rest[k]]
  <2>1. remain \in SUBSET DOMAIN sentReliable
    OBVIOUS
  <2> HIDE DEF remain
  <2> QED
    BY <1>3, <2>1, PickedProperties
<1>6. /\ IsFiniteSet(expired) /\ IsFiniteSet(remain)
      /\ expired \subseteq Nat /\ remain \subseteq Nat
  <2>1. DOMAIN sentReliable = 1 .. Len(sentReliable) /\ Len(sentReliable) \in Nat
    BY <1>3, LenProperties
  <2>2. IsFiniteSet(DOMAIN sentReliable)
    BY <2>1, FS_Interval
  <2> QED
    BY <2>1, <2>2, FS_Subset
<1> HIDE DEF n, m
<1>7. /\ Len(outgoing) \in Nat /\ DOMAIN outgoing = 1 .. Len(outgoing)
      /\ DOMAIN outgoing' = 1 .. n + Len(outgoing)
      /\ \A k \in 1 .. n + Len(outgoing) :
           outgoing'[k] = IF k =< n THEN back[k] ELSE outgoing[k - n]
  <2> HIDE DEF back
  <2>1. /\ back \o outgoing \in Seq(Packets)
        /\ Len(back \o outgoing) = Len(back) + Len(outgoing)
        /\ \A k \in 1 .. Len(back) + Len(outgoing) :
             (back \o outgoing)[k] = IF k =< Len(back) THEN back[k]
                                    ELSE outgoing[k - Len(back)]
    BY <1>3, <1>4, ConcatProperties
  <2>2. /\ Len(outgoing) \in Nat /\ DOMAIN outgoing = 1 .. Len(outgoing)
        /\ DOMAIN (back \o outgoing) = 1 .. Len(back \o outgoing)
    BY <1>3, <2>1, LenProperties
  <2>3. outgoing' = back \o outgoing
    BY <1>1 DEF back
  <2> QED
    BY <1>4, <2>1, <2>2, <2>3
<1>8. DOMAIN sentReliable' = 1 .. m /\ \A k \in 1 .. m : sentReliable'[k] = left[k]
  <2>1. sentReliable' = left
    BY <1>1
  <2> HIDE DEF left
  <2> QED
    BY <1>5, <2>1, LenProperties
<1> HIDE DEF back, left
<1>9. ASSUME NEW i \in attempted
      PROVE  \/ \E p \in DOMAIN outgoing' : outgoing'[p] = i
             \/ \E p \in DOMAIN sentReliable' : sentReliable'[p] = i
  <2>1. CASE \E p \in DOMAIN outgoing : outgoing[p] = i
    <3>1. PICK p \in DOMAIN outgoing : outgoing[p] = i
      BY <2>1
    <3>2. PICK k \in 1 .. n + Len(outgoing) : k = p + n
      BY <1>4, <1>7
    <3>3. ~ k =< n /\ k - n = p
      BY <1>4, <1>7, <3>2
    <3>4. outgoing'[k] = i
      BY <1>7, <3>1, <3>3
    <3> QED
      BY <1>7, <3>4
  <2>2. CASE \E p \in expired : sentReliable[p] = i
    <3>1. PICK p \in expired : sentReliable[p] = i
      BY <2>2
    <3>2. PICK k \in 1 .. n : late[k] = p
      BY <1>6, InOrderCovers DEF n
    <3>3. k \in 1 .. n + Len(outgoing) /\ k =< n
      BY <1>4, <1>7
    <3>4. outgoing'[k] = i
      BY <1>4, <1>7, <3>1, <3>2, <3>3
    <3> QED
      BY <1>7, <3>3, <3>4
  <2>3. CASE \E p \in remain : sentReliable[p] = i
    <3> HIDE DEF remain
    <3>1. PICK p \in remain : sentReliable[p] = i
      BY <2>3
    <3>2. PICK k \in 1 .. m : rest[k] = p
      BY <1>1, <1>6, InOrderCovers DEF m
    <3>3. sentReliable'[k] = i
      BY <1>5, <1>8, <3>1, <3>2
    <3> QED
      BY <1>8, <3>3
  <2> QED
    BY <2>1, <2>2, <2>3 DEF Kept
<1> QED
  BY <1>2, <1>9 DEF Kept

\* A command that is sent joins the other list.
LEMMA SendReliableKept ==
  ASSUME SenderInv, Kept, SendReliable PROVE Kept'
<1> DEFINE i == Head(outgoing)
<1>1. /\ outgoing \in Seq(Packets) /\ sentReliable \in Seq(Packets) /\ outgoing # <<>>
      /\ sentReliable' = Append(sentReliable, i)
      /\ outgoing' = Tail(outgoing)
      /\ attempted' \subseteq attempted \cup {i}
  BY DEF SendReliable, Sendable, SenderInv, SenderType
<1>2. /\ i \in Packets /\ i = outgoing[1]
      /\ Len(outgoing) \in Nat /\ DOMAIN outgoing = 1 .. Len(outgoing)
      /\ DOMAIN outgoing' = 1 .. Len(outgoing) - 1
      /\ \A p \in 1 .. Len(outgoing) - 1 : outgoing'[p] = outgoing[p + 1]
  BY <1>1, HeadTailProperties, LenProperties, EmptySeq
<1>3. /\ Len(sentReliable) \in Nat /\ DOMAIN sentReliable = 1 .. Len(sentReliable)
      /\ DOMAIN sentReliable' = 1 .. Len(sentReliable) + 1
      /\ \A p \in 1 .. Len(sentReliable) : sentReliable'[p] = sentReliable[p]
      /\ sentReliable'[Len(sentReliable) + 1] = i
  BY <1>1, <1>2, AppendProperties, LenProperties
<1> HIDE DEF i
<1>4. ASSUME NEW j \in attempted'
      PROVE  \/ \E p \in DOMAIN outgoing' : outgoing'[p] = j
             \/ \E p \in DOMAIN sentReliable' : sentReliable'[p] = j
  <2>1. CASE j = i
    <3>1. Len(sentReliable) + 1 \in DOMAIN sentReliable'
      BY <1>3
    <3> QED
      BY <1>3, <2>1, <3>1
  <2>2. CASE j # i /\ \E p \in DOMAIN outgoing : outgoing[p] = j
    <3>1. PICK p \in DOMAIN outgoing : outgoing[p] = j
      BY <2>2
    <3>2. p - 1 \in 1 .. Len(outgoing) - 1 /\ p - 1 + 1 = p
      BY <1>2, <2>2, <3>1
    <3> QED
      BY <1>2, <3>1, <3>2
  <2>3. CASE \E p \in DOMAIN sentReliable : sentReliable[p] = j
    <3>1. PICK p \in DOMAIN sentReliable : sentReliable[p] = j
      BY <2>3
    <3>2. p \in DOMAIN sentReliable'
      BY <1>3
    <3> QED
      BY <1>3, <3>1, <3>2
  <2> QED
    BY <1>1, <2>1, <2>2, <2>3 DEF Kept
<1> QED
  BY <1>4 DEF Kept

\* The command an acknowledgement removes from a list is no longer attempted.
LEMMA HandleAcknowledgeKept ==
  ASSUME SenderInv, Kept, NEW i \in Packets, HandleAcknowledge(i)
  PROVE  Kept'
<1>1. RemoveSentReliable(Wire(i))
  BY DEF HandleAcknowledge
<1>2. /\ outgoing \in Seq(Packets) /\ sentReliable \in Seq(Packets)
      /\ DOMAIN outgoing = 1 .. Len(outgoing) /\ DOMAIN sentReliable = 1 .. Len(sentReliable)
      /\ Len(outgoing) \in Nat /\ Len(sentReliable) \in Nat
  BY LenProperties DEF SenderInv, SenderType
<1>3. CASE FoundSent(Wire(i)) # {}
  <2> DEFINE p == First(FoundSent(Wire(i)))
  <2>1. p \in DOMAIN sentReliable
    <3>1. FoundSent(Wire(i)) \subseteq Nat
      BY <1>2 DEF FoundSent
    <3> QED
      BY <1>3, <3>1, FirstIsLeast DEF FoundSent
  <2>2. /\ attempted' = attempted \ {sentReliable[p]} /\ outgoing' = outgoing
        /\ sentReliable' = RemoveAt(sentReliable, p)
    BY <1>1, <1>3 DEF RemoveSentReliable, Forget
  <2> HIDE DEF p
  <2>3. ASSUME NEW j \in attempted'
        PROVE  \/ \E r \in DOMAIN outgoing' : outgoing'[r] = j
               \/ \E r \in DOMAIN sentReliable' : sentReliable'[r] = j
    <3>1. CASE \E r \in DOMAIN outgoing : outgoing[r] = j
      BY <2>2, <3>1
    <3>2. CASE \E r \in DOMAIN sentReliable : sentReliable[r] = j
      <4>1. PICK r \in DOMAIN sentReliable : sentReliable[r] = j
        BY <3>2
      <4>2. r # p
        BY <2>2, <4>1
      <4>3. \E k \in DOMAIN RemoveAt(sentReliable, p) :
              RemoveAt(sentReliable, p)[k] = sentReliable[r]
        BY <1>2, <2>1, <4>2, RemoveAtKeeps
      <4> QED
        BY <2>2, <4>1, <4>3
    <3> QED
      BY <2>2, <3>1, <3>2 DEF Kept
  <2> QED
    BY <2>3 DEF Kept
<1>4. CASE FoundSent(Wire(i)) = {} /\ FoundOutgoing(Wire(i)) # {}
  <2> DEFINE p == First(FoundOutgoing(Wire(i)))
  <2>1. p \in DOMAIN outgoing
    <3>1. FoundOutgoing(Wire(i)) \subseteq Nat
      BY <1>2 DEF FoundOutgoing
    <3> QED
      BY <1>4, <3>1, FirstIsLeast DEF FoundOutgoing
  <2>2. /\ attempted' = attempted \ {outgoing[p]} /\ sentReliable' = sentReliable
        /\ outgoing' = RemoveAt(outgoing, p)
    BY <1>1, <1>4 DEF RemoveSentReliable, Forget
  <2> HIDE DEF p
  <2>3. ASSUME NEW j \in attempted'
        PROVE  \/ \E r \in DOMAIN outgoing' : outgoing'[r] = j
               \/ \E r \in DOMAIN sentReliable' : sentReliable'[r] = j
    <3>1. CASE \E r \in DOMAIN sentReliable : sentReliable[r] = j
      BY <2>2, <3>1
    <3>2. CASE \E r \in DOMAIN outgoing : outgoing[r] = j
      <4>1. PICK r \in DOMAIN outgoing : outgoing[r] = j
        BY <3>2
      <4>2. r # p
        BY <2>2, <4>1
      <4>3. \E k \in DOMAIN RemoveAt(outgoing, p) : RemoveAt(outgoing, p)[k] = outgoing[r]
        BY <1>2, <2>1, <4>2, RemoveAtKeeps
      <4> QED
        BY <2>2, <4>1, <4>3
    <3> QED
      BY <2>2, <3>1, <3>2 DEF Kept
  <2> QED
    BY <2>3 DEF Kept
<1>5. CASE FoundSent(Wire(i)) \cup FoundOutgoing(Wire(i)) = {}
  BY <1>1, <1>5 DEF RemoveSentReliable, Kept
<1> QED
  BY <1>3, <1>4, <1>5

\* Every step keeps what was sent and not acknowledged.
LEMMA KeptStep ==
  ASSUME SenderInv, Kept, [Next]_vars PROVE Kept'
<1>1. CASE Send
  <2>1. /\ outgoing \in Seq(Packets) /\ Packets \subseteq Nat /\ submitted \in Nat
        /\ outgoing' = Append(outgoing, submitted + 1)
        /\ UNCHANGED <<sentReliable, attempted>>
    BY <1>1, Bounds DEF Send, SenderInv, SenderType
  <2>2. outgoing \in Seq(Nat) /\ submitted + 1 \in Nat
    <3>1. outgoing \in Seq(Nat)
      BY <2>1, SeqMonotonic
    <3> QED
      BY <2>1, <3>1
  <2>3. \A p \in DOMAIN outgoing : p \in DOMAIN outgoing' /\ outgoing'[p] = outgoing[p]
    <3>1. /\ Len(outgoing) \in Nat /\ DOMAIN outgoing = 1 .. Len(outgoing)
          /\ DOMAIN outgoing' = 1 .. Len(outgoing) + 1
          /\ \A p \in 1 .. Len(outgoing) : outgoing'[p] = outgoing[p]
      BY <2>1, <2>2, AppendProperties, LenProperties
    <3> QED
      BY <3>1
  <2> QED
    BY <2>1, <2>3 DEF Kept
<1>2. CASE \E expired \in SUBSET DOMAIN sentReliable : CheckTimeouts(expired)
  BY <1>2, CheckTimeoutsKept
<1>3. CASE SendReliable
  BY <1>3, SendReliableKept
<1>4. ASSUME NEW i \in Packets, HandleAcknowledge(i) PROVE Kept'
  BY <1>4, HandleAcknowledgeKept
<1>5. CASE UNCHANGED <<outgoing, sentReliable, attempted>>
  BY <1>5 DEF Kept
<1>6. CASE \/ EndPass \/ SocketError \/ SendAcknowledgements \/ Receive
           \/ LoseData \/ LoseAck \/ UNCHANGED vars
           \/ \E i \in Packets : HandleSendReliable(i)
  BY <1>5, <1>6 DEF EndPass, SocketError, SendAcknowledgements, Receive, LoseData,
     LoseAck, HandleSendReliable, vars, senderVars
<1> QED
  BY <1>1, <1>2, <1>3, <1>4, <1>6 DEF Next, NextNoError

-----------------------------------------------------------------------------
(* The theorems.  They assume that no datagram outlives LongestLifetime.  That *)
(* is the weakest assumption of its kind: with one more a copy of a packet can *)
(* come back as one of the next turn of the sequence space, and TLC finds      *)
(* WaitingOrdered violated (MCEnetChannel.cfg with Lifetime = 10).             *)

\* Both ends of the channel and the network between them stay in step.
THEOREM StreamInvariant ==
  ASSUME Lifetime =< LongestLifetime
  PROVE  Spec => [](StreamInv /\ Kept)
<1>1. Init => StreamInv /\ Kept
  BY InitStream DEF Init, Kept
<1>2. SenderInv /\ NetworkType /\ ReceiverType /\ StreamInv /\ Kept /\ [Next]_vars
        => StreamInv' /\ Kept'
  BY StreamStep, KeptStep
<1> QED
  BY <1>1, <1>2, ChannelInvariant, PTL DEF Spec

\* The list incomingReliableCommands is in the order of submission and holds
\* nothing that enet_peer_dispatch_incoming_reliable_commands could have taken:
\* the search from its back for the place of a command compares 16 bit numbers
\* and still finds the right one, at every turn of the sequence space.
THEOREM AlwaysWaitingOrdered ==
  ASSUME Lifetime =< LongestLifetime
  PROVE  Spec => []WaitingOrdered
<1>1. StreamInv => WaitingOrdered
  BY DEF StreamInv
<1> QED
  BY <1>1, StreamInvariant, PTL

\* What enet_peer_receive returned, and then what is dispatched, is the stream
\* of the packets that enet_peer_send accepted, without gap or repetition.
THEOREM AlwaysAcceptedInOrder ==
  ASSUME Lifetime =< LongestLifetime
  PROVE  Spec => []AcceptedInOrder
<1>1. ReceiverType /\ StreamInv => AcceptedInOrder
  <2> SUFFICES ASSUME ReceiverType, StreamInv PROVE AcceptedInOrder
    OBVIOUS
  <2> DEFINE s == delivered \o dispatched
  <2>1. delivered \in Seq(Packets) /\ dispatched \in Seq(Packets)
    BY DEF ReceiverType
  <2>2. /\ Len(delivered) \in Nat /\ DOMAIN delivered = 1 .. Len(delivered)
        /\ Len(dispatched) \in Nat /\ DOMAIN dispatched = 1 .. Len(dispatched)
    BY <2>1, LenProperties
  <2>3. /\ s \in Seq(Packets)
        /\ Len(s) = accepted
        /\ \A k \in 1 .. accepted :
             s[k] = IF k =< Len(delivered) THEN delivered[k]
                    ELSE dispatched[k - Len(delivered)]
    BY <2>1, ConcatProperties DEF accepted
  <2>4. HandedOut
    BY DEF StreamInv
  <2>5. \A k \in 1 .. accepted : s[k] = k
    <3> HIDE DEF s
    <3> TAKE k \in 1 .. accepted
    <3>1. CASE k =< Len(delivered)
      <4>1. k \in DOMAIN delivered
        BY <2>2, <3>1
      <4> QED
        BY <2>3, <2>4, <3>1, <4>1 DEF HandedOut
    <3>2. CASE ~ k =< Len(delivered)
      <4>1. k - Len(delivered) \in DOMAIN dispatched /\ k \in Nat
        BY <2>2, <3>2 DEF accepted
      <4>2. dispatched[k - Len(delivered)] = Len(delivered) + (k - Len(delivered))
        BY <2>4, <4>1 DEF HandedOut
      <4> QED
        BY <2>2, <2>3, <3>2, <4>1, <4>2
    <3> QED
      BY <3>1, <3>2
  <2> HIDE DEF s
  <2>6. s \in [1 .. accepted -> Packets]
    BY <2>3, LenProperties
  <2>7. s = [k \in 1 .. accepted |-> k]
    BY <2>5, <2>6
  <2> QED
    BY <2>4, <2>7 DEF AcceptedInOrder, HandedOut, s
<1> QED
  BY <1>1, ChannelInvariant, StreamInvariant, PTL

\* The sender forgets a packet only when the receiver has it, although the
\* receiver acknowledges packets that it discards: those it has passed, and
\* those so far ahead that it takes them for passed.
THEOREM AlwaysAcknowledgedMeansAccepted ==
  ASSUME Lifetime =< LongestLifetime
  PROVE  Spec => []AcknowledgedMeansAccepted
<1>1. SenderInv /\ ReceiverType /\ StreamInv /\ Kept => AcknowledgedMeansAccepted
  <2> SUFFICES ASSUME SenderInv, ReceiverType, StreamInv, Kept,
                      NEW i \in 1 .. submitted, i \notin outstanding
               PROVE  i =< accepted \/ i \in ToSet(incomingReliable)
    BY DEF AcknowledgedMeansAccepted
  <2>1. PICK t \in 0 .. submitted : StreamPosition(t)
    BY DEF StreamInv
  <2>2. /\ t \in Nat /\ submitted \in Nat /\ i \in Nat
        /\ Len(outgoing) \in Nat /\ DOMAIN outgoing = 1 .. Len(outgoing)
    BY PositionType, LenProperties DEF SenderInv, SenderType
  <2>3. CASE i =< t
    <3>1. i \notin attempted
      BY DEF Kept, outstanding, ToSet
    <3>2. Received(i)
      BY <2>1, <2>2, <2>3, <3>1 DEF StreamPosition, Held
    <3> QED
      BY <3>2 DEF Received, ToSet
  <2>4. CASE ~ i =< t
    <3> DEFINE again == Len(outgoing) - (submitted - t)
    <3>1. again \in Nat /\ \A p \in DOMAIN outgoing :
            ~ p =< again => outgoing[p] = t + p - again
      BY <2>1, <2>2 DEF StreamPosition, Sent
    <3>2. again + (i - t) \in DOMAIN outgoing
      BY <2>2, <2>4, <3>1
    <3> HIDE DEF again
    <3>3. ~ again + (i - t) =< again /\ t + (again + (i - t)) - again = i
      BY <2>2, <2>4, <3>1
    <3>4. outgoing[again + (i - t)] = i
      BY <3>1, <3>2, <3>3
    <3> QED
      BY <3>2, <3>4 DEF outstanding, ToSet
  <2> QED
    BY <2>3, <2>4
<1> QED
  BY <1>1, ChannelInvariant, StreamInvariant, PTL

\* The channel implements the reliable stream: whatever the network loses,
\* duplicates or reorders, each step of the two peers is a submission, the
\* delivery of the next packet, or nothing that the application can see.
THEOREM ChannelRefinesStream ==
  ASSUME Lifetime =< LongestLifetime
  PROVE  Spec => RefinesStream
<1>1. ASSUME Init
      PROVE  Stream!Init
  <2>1. submitted \in 0 .. MaxPackets
    BY <1>1, Bounds DEF Init
  <2>2. delivered = [k \in 1 .. submitted |-> k]
    BY <1>1 DEF Init
  <2> QED
    BY <2>1, <2>2 DEF Stream!Init
<1>2. ASSUME SenderInv, NetworkType, ReceiverType, StreamInv, [Next]_vars
      PROVE  [Stream!Next]_Stream!vars
  <2>1. CASE Send
    <3>1. submitted < MaxPackets /\ submitted' = submitted + 1 /\ delivered' = delivered
      BY <2>1 DEF Send, receiverVars
    <3> QED
      BY <3>1 DEF Stream!Next, Stream!Submit
  <2>2. CASE Receive
    <3>1. /\ Len(delivered) < submitted
          /\ delivered' = Append(delivered, Len(delivered) + 1)
          /\ submitted' = submitted
      BY <1>2, <2>2, ReceiveStream DEF Receive, senderVars
    <3> QED
      BY <3>1 DEF Stream!Next, Stream!Deliver
  <2>3. CASE UNCHANGED <<submitted, delivered>>
    BY <2>3 DEF Stream!vars
  <2>4. CASE \E expired \in SUBSET DOMAIN sentReliable : CheckTimeouts(expired)
    BY <2>3, <2>4 DEF CheckTimeouts, receiverVars
  <2>5. CASE \E i \in Packets : HandleAcknowledge(i)
    BY <2>3, <2>5 DEF HandleAcknowledge, receiverVars
  <2>6. CASE \E i \in Packets : HandleSendReliable(i)
    BY <2>3, <2>6 DEF HandleSendReliable, senderVars
  <2>7. CASE \/ SendReliable \/ EndPass \/ SocketError \/ SendAcknowledgements
             \/ LoseData \/ LoseAck \/ UNCHANGED vars
    BY <2>3, <2>7 DEF SendReliable, EndPass, SocketError, SendAcknowledgements,
       LoseData, LoseAck, vars, senderVars, receiverVars
  <2> QED
    BY <1>2, <2>1, <2>2, <2>4, <2>5, <2>6, <2>7 DEF Next, NextNoError
<1> QED
  BY <1>1, <1>2, ChannelInvariant, StreamInvariant, PTL DEF Spec, RefinesStream, Stream!Spec
=============================================================================
