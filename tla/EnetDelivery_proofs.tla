------------------------- MODULE EnetDelivery_proofs -------------------------
(***************************************************************************)
(* Theorems about packets of all kinds on a channel, for any kinds of      *)
(* packets, any number of them and any sizes of the windows.               *)
(*                                                                         *)
(* The sending peer counts the references to its packets exactly, and its  *)
(* throttle drops whole packets: the commands of a packet stay next to     *)
(* each other in the queue, and only the packet at the front of the queue  *)
(* can be partly under way.                                                *)
(*                                                                         *)
(* The receiving peer counts the data of the packets that wait exactly:    *)
(* whatever its dispatch functions do to the lists, the data in them, on   *)
(* its way to the application and dropped add up to the same.              *)
(***************************************************************************)
EXTENDS EnetDelivery, ListLemmas

-----------------------------------------------------------------------------
(* How many commands of a list refer to a packet. *)

\* The commands of a list are counted by its positions: never more than it has.
LEMMA HeldCounts ==
  ASSUME NEW S, NEW s \in Seq(S), NEW i
  PROVE  /\ IsFiniteSet({p \in DOMAIN s : s[p].packet = i})
         /\ Held(i, s) \in Nat
         /\ Held(i, s) = 0 <=> \A p \in DOMAIN s : s[p].packet # i
         /\ (\A p \in DOMAIN s : s[p].packet = i) => Held(i, s) = Len(s)
<1> DEFINE P == {p \in DOMAIN s : s[p].packet = i}
<1>1. Len(s) \in Nat /\ DOMAIN s = 1 .. Len(s)
  BY LenProperties
<1>2. IsFiniteSet(1 .. Len(s)) /\ Cardinality(1 .. Len(s)) = Len(s)
  BY <1>1, FS_Interval
<1>3. IsFiniteSet(P) /\ Cardinality(P) \in Nat
  BY <1>1, <1>2, FS_Subset, FS_CardinalityType
<1>4. Held(i, s) = Cardinality(P)
  BY DEF Held
<1>5. Cardinality(P) = 0 <=> P = {}
  BY <1>3, FS_EmptySet
<1>6. (\A p \in DOMAIN s : s[p].packet = i) => P = 1 .. Len(s)
  BY <1>1
<1> QED
  BY <1>2, <1>3, <1>4, <1>5, <1>6

\* A list is counted like its front and its back together.
LEMMA HeldConcat ==
  ASSUME NEW S, NEW s \in Seq(S), NEW t \in Seq(S), NEW i
  PROVE  Held(i, s \o t) = Held(i, s) + Held(i, t)
<1> DEFINE P == {p \in DOMAIN s : s[p].packet = i}
           Q == {p \in DOMAIN t : t[p].packet = i}
           R == {p \in DOMAIN (s \o t) : (s \o t)[p].packet = i}
           moved == [p \in Q |-> p + Len(s)]
           M == R \ P
<1>1. /\ Len(s) \in Nat /\ DOMAIN s = 1 .. Len(s)
      /\ Len(t) \in Nat /\ DOMAIN t = 1 .. Len(t)
  BY LenProperties
<1>2. /\ s \o t \in Seq(S) /\ Len(s \o t) = Len(s) + Len(t)
      /\ \A k \in 1 .. Len(s) + Len(t) :
           (s \o t)[k] = IF k =< Len(s) THEN s[k] ELSE t[k - Len(s)]
  BY ConcatProperties
<1>3. DOMAIN (s \o t) = 1 .. Len(s) + Len(t)
  BY <1>2, LenProperties
<1>4. IsFiniteSet(P) /\ IsFiniteSet(Q) /\ IsFiniteSet(R)
  <2>1. IsFiniteSet(P)
    BY HeldCounts
  <2>2. IsFiniteSet(Q)
    BY HeldCounts
  <2>3. ASSUME NEW u \in Seq(S) PROVE IsFiniteSet({p \in DOMAIN u : u[p].packet = i})
    BY HeldCounts
  <2>4. IsFiniteSet(R)
    BY <1>2, <2>3
  <2> QED
    BY <2>1, <2>2, <2>4
<1>5. P \subseteq R
  BY <1>1, <1>2, <1>3
<1>6. ASSUME NEW p PROVE p \in M <=> p - Len(s) \in Q /\ p \in Int
  <2>1. CASE p \in 1 .. Len(s)
    BY <1>1, <1>2, <1>3, <2>1
  <2>2. CASE p \in Len(s) + 1 .. Len(s) + Len(t)
    <3>1. (s \o t)[p] = t[p - Len(s)] /\ p - Len(s) \in DOMAIN t /\ p \notin DOMAIN s
      BY <1>1, <1>2, <2>2
    <3> QED
      BY <1>1, <1>3, <2>2, <3>1
  <2>3. CASE p \notin 1 .. Len(s) + Len(t)
    BY <1>1, <1>3, <2>3
  <2> QED
    BY <1>1, <2>1, <2>2, <2>3
<1>7. Cardinality(M) = Cardinality(Q)
  <2>1. Q \subseteq Int
    BY <1>1
  <2>2. moved \in [Q -> M]
    BY <1>1, <1>6, <2>1
  <2>3. \A p, r \in Q : moved[p] = moved[r] => p = r
    BY <1>1, <2>1
  <2>4. \A p \in M : \E r \in Q : moved[r] = p
    <3>1. ASSUME NEW p \in M PROVE \E r \in Q : moved[r] = p
      <4>1. p - Len(s) \in Q /\ p \in Int
        BY <1>6
      <4>2. moved[p - Len(s)] = p
        BY <1>1, <4>1
      <4> QED
        BY <4>1, <4>2
    <3> QED
      BY <3>1
  <2> HIDE DEF moved, Q, M
  <2>5. moved \in Bijection(Q, M)
    BY <2>2, <2>3, <2>4 DEF Bijection, Injection, Surjection, IsInjective
  <2> QED
    BY <1>4, <2>5, FS_Bijection DEF ExistsBijection
<1> HIDE DEF P, Q, R
<1>8. R \cap P = P
  BY <1>5
<1>9. Cardinality(M) = Cardinality(R) - Cardinality(P)
  BY <1>4, <1>8, FS_Difference
<1>10. Cardinality(P) \in Nat /\ Cardinality(R) \in Nat
  BY <1>4, FS_CardinalityType
<1>11. Cardinality(R) = Cardinality(P) + Cardinality(Q)
  BY <1>7, <1>9, <1>10
<1> QED
  BY <1>11 DEF Held, P, Q, R

\* A list of one command.
LEMMA HeldOne ==
  ASSUME NEW c, NEW i
  PROVE  Held(i, <<c>>) = IF c.packet = i THEN 1 ELSE 0
<1> DEFINE s == <<c>>
<1>1. s \in Seq({c}) /\ Len(s) = 1 /\ DOMAIN s = {1} /\ s[1] = c
  OBVIOUS
<1> HIDE DEF s
<1>2. CASE c.packet = i
  BY <1>1, <1>2, HeldCounts DEF s
<1>3. CASE c.packet # i
  BY <1>1, <1>3, HeldCounts DEF s
<1> QED
  BY <1>2, <1>3

\* The first m commands of a list and those behind them.
LEMMA HeldSplit ==
  ASSUME NEW S, NEW s \in Seq(S), NEW m \in 0 .. Len(s), NEW i
  PROVE  /\ SubSeq(s, 1, m) \in Seq(S) /\ SubSeq(s, m + 1, Len(s)) \in Seq(S)
         /\ Len(SubSeq(s, 1, m)) = m /\ Len(SubSeq(s, m + 1, Len(s))) = Len(s) - m
         /\ \A p \in 1 .. m : SubSeq(s, 1, m)[p] = s[p]
         /\ \A p \in 1 .. Len(s) - m : SubSeq(s, m + 1, Len(s))[p] = s[m + p]
         /\ Held(i, s) = Held(i, SubSeq(s, 1, m)) + Held(i, SubSeq(s, m + 1, Len(s)))
<1> DEFINE front == SubSeq(s, 1, m)  back == SubSeq(s, m + 1, Len(s))
<1>1. Len(s) \in Nat /\ DOMAIN s = 1 .. Len(s) /\ \A k \in 1 .. Len(s) : s[k] \in S
  BY LenProperties, ElementOfSeq
<1>2. front \in Seq(S) /\ Len(front) = m /\ \A k \in 1 .. m : front[k] = s[k]
  BY <1>1, SubSeqProperties
<1>3. /\ back \in Seq(S) /\ Len(back) = Len(s) - m
      /\ \A k \in 1 .. Len(s) - m : back[k] = s[m + k]
  <2>1. \A k \in m + 1 .. Len(s) : s[k] \in S
    BY <1>1
  <2>2. /\ back \in Seq(S)
        /\ Len(back) = IF m + 1 =< Len(s) THEN Len(s) - (m + 1) + 1 ELSE 0
        /\ \A k \in 1 .. Len(s) - (m + 1) + 1 : back[k] = s[(m + 1) + k - 1]
    BY <1>1, <2>1, SubSeqProperties
  <2> HIDE DEF back
  <2>3. Len(back) = Len(s) - m
    <3>1. CASE m < Len(s)
      <4>1. m + 1 =< Len(s) /\ Len(s) - (m + 1) + 1 = Len(s) - m
        BY <1>1, <3>1
      <4> QED
        BY <2>2, <4>1
    <3>2. CASE m = Len(s)
      <4>1. ~ m + 1 =< Len(s) /\ Len(s) - m = 0
        BY <1>1, <3>2
      <4> QED
        BY <2>2, <4>1
    <3>3. Len(s) \in Nat
      BY <1>1
    <3>4. m < Len(s) \/ m = Len(s)
      BY <3>3
    <3> QED
      BY <3>1, <3>2, <3>4
  <2>4. ASSUME NEW k \in 1 .. Len(s) - m PROVE back[k] = s[m + k]
    <3>1. k \in 1 .. Len(s) - (m + 1) + 1 /\ (m + 1) + k - 1 = m + k
      BY <1>1
    <3> QED
      BY <2>2, <3>1
  <2> QED
    BY <2>2, <2>3, <2>4
<1> HIDE DEF front, back
<1>4. front \o back = s
  <2>1. /\ front \o back \in Seq(S) /\ Len(front \o back) = Len(front) + Len(back)
        /\ \A k \in 1 .. Len(front) + Len(back) :
             (front \o back)[k] = IF k =< Len(front) THEN front[k]
                                 ELSE back[k - Len(front)]
    BY <1>2, <1>3, ConcatProperties
  <2>2. Len(front) + Len(back) = Len(s)
    BY <1>1, <1>2, <1>3
  <2>3. ASSUME NEW k \in 1 .. Len(s) PROVE (front \o back)[k] = s[k]
    <3>1. CASE k =< m
      <4>1. k \in 1 .. m /\ k =< Len(front) /\ k \in 1 .. Len(front) + Len(back)
        BY <1>1, <1>2, <2>2, <3>1
      <4>2. (front \o back)[k] = front[k]
        BY <2>1, <4>1
      <4> QED
        BY <1>2, <4>1, <4>2
    <3>2. CASE ~ k =< m
      <4>0. k \in 1 .. Len(front) + Len(back) /\ ~ k =< Len(front)
        BY <1>2, <2>2, <3>2
      <4>1. k - m \in 1 .. Len(s) - m /\ m + (k - m) = k
        BY <1>1, <3>2
      <4>2. (front \o back)[k] = back[k - m]
        BY <1>2, <2>1, <4>0
      <4>3. back[k - m] = s[m + (k - m)]
        BY <1>3, <4>1
      <4> QED
        BY <4>1, <4>2, <4>3
    <3> QED
      BY <3>1, <3>2
  <2> QED
    BY <1>1, <2>1, <2>2, <2>3, SeqEqual
<1>5. Held(i, front \o back) = Held(i, front) + Held(i, back)
  BY <1>2, <1>3, HeldConcat
<1> QED
  BY <1>2, <1>3, <1>4, <1>5 DEF front, back

\* A list without its first command.
LEMMA HeldTail ==
  ASSUME NEW S, NEW s \in Seq(S), s # <<>>, NEW i
  PROVE  Held(i, s) = (IF Head(s).packet = i THEN 1 ELSE 0) + Held(i, Tail(s))
<1>1. Head(s) \in S /\ Tail(s) \in Seq(S) /\ s = <<Head(s)>> \o Tail(s)
  BY HeadTailProperties, ConcatProperties
<1> DEFINE h == Head(s)  t == Tail(s)  one == <<h>>
<1>2. one \in Seq(S)
  BY <1>1
<1>3. Held(i, one) = IF h.packet = i THEN 1 ELSE 0
  BY HeldOne
<1> HIDE DEF h, t, one
<1>4. Held(i, one \o t) = Held(i, one) + Held(i, t)
  BY <1>1, <1>2, HeldConcat DEF t
<1>5. s = one \o t
  BY <1>1 DEF one, h, t
<1> QED
  BY <1>3, <1>4, <1>5 DEF h, t

\* A list with one more command.
LEMMA HeldAppend ==
  ASSUME NEW S, NEW s \in Seq(S), NEW c \in S, NEW i
  PROVE  Held(i, Append(s, c)) = Held(i, s) + (IF c.packet = i THEN 1 ELSE 0)
<1> DEFINE one == <<c>>
<1>1. one \in Seq(S) /\ Append(s, c) = s \o one
  BY AppendIsConcat
<1>2. Held(i, one) = IF c.packet = i THEN 1 ELSE 0
  BY HeldOne
<1> HIDE DEF one
<1> QED
  BY <1>1, <1>2, HeldConcat

-----------------------------------------------------------------------------
(* The invariant of the sending peer. *)

Transmitted(i) == {c \in network : c.packet = i}
Reliables(i)   == {c \in network : c.packet = i /\ c.type \in ReliableTypes}

SenderType ==
  /\ submitted \in Seq(Kinds)
  /\ Len(submitted) =< MaxPackets
  /\ outgoingReliableSequenceNumber \in Nat
  /\ outgoingUnreliableSequenceNumber \in 0 .. UnreliableLimit
  /\ outgoingUnsequencedGroup \in Nat
  /\ outgoingUnreliable \in Seq(CommandType)
  /\ sentUnreliable \in Seq(CommandType)
  /\ referenceCount \in [Packets -> Nat]
  /\ freed \subseteq Packets
  /\ network \subseteq CommandType
  /\ IsFiniteSet(network)

\* What was not submitted is nowhere.
OnlySubmitted ==
  /\ \A p \in DOMAIN outgoingUnreliable :
       outgoingUnreliable[p].packet \in DOMAIN submitted
  /\ \A p \in DOMAIN sentUnreliable :
       sentUnreliable[p].packet \in DOMAIN submitted
  /\ \A c \in network : c.packet \in DOMAIN submitted
  /\ freed \subseteq DOMAIN submitted
  /\ \A i \in Packets \ DOMAIN submitted : referenceCount[i] = 0

\* The queue is in the order of submission, and the commands of a packet are
\* next to each other, with the same numbers and in the order of fragments.
QueueInOrder ==
  /\ \A p \in DOMAIN outgoingUnreliable :
       outgoingUnreliable[p].type \notin ReliableTypes
  /\ \A p, r \in DOMAIN outgoingUnreliable :
       p < r => LET c == outgoingUnreliable[p]
                    d == outgoingUnreliable[r] IN
                \/ c.packet < d.packet
                \/ /\ c.packet = d.packet
                   /\ c.fragment < d.fragment
                   /\ OutgoingNumbers(c) = OutgoingNumbers(d)

\* A packet of which some commands are queued and some were transmitted is the
\* one at the front of the queue, and its earlier fragments were transmitted.
FirstUnderWay ==
  \A c \in network, p \in DOMAIN outgoingUnreliable :
    c.packet = outgoingUnreliable[p].packet =>
      /\ c.packet = outgoingUnreliable[1].packet
      /\ c.fragment < outgoingUnreliable[1].fragment

\* Every command of a packet is queued or was transmitted, or none is.
Accounted ==
  \A i \in DOMAIN submitted :
    \/ Held(i, outgoingUnreliable) + Cardinality(Transmitted(i))
         = submitted[i].fragments
    \/ Held(i, outgoingUnreliable) = 0 /\ Transmitted(i) = {}

SenderInv == /\ SenderType
             /\ OnlySubmitted
             /\ QueueInOrder
             /\ FirstUnderWay
             /\ Accounted
             /\ PacketsHeld

-----------------------------------------------------------------------------
LEMMA FiniteParts ==
  ASSUME SenderType, NEW i
  PROVE  /\ IsFiniteSet(Transmitted(i)) /\ Cardinality(Transmitted(i)) \in Nat
         /\ IsFiniteSet(Reliables(i)) /\ Cardinality(Reliables(i)) \in Nat
<1>1. Transmitted(i) \subseteq network /\ Reliables(i) \subseteq network
  BY DEF Transmitted, Reliables
<1>2. IsFiniteSet(network)
  BY DEF SenderType
<1> QED
  BY <1>1, <1>2, FS_Subset, FS_CardinalityType

LEMMA KindsHaveFragments ==
  ASSUME NEW k \in Kinds
  PROVE  k.fragments \in Nat /\ k.fragments >= 1
BY DeliveryAssumption DEF KindType

LEMMA CommandIsTyped ==
  ASSUME NEW i \in Packets, NEW number \in Nat, NEW reliable \in Nat,
         NEW f \in Nat, NEW count \in Nat,
         NEW type \in ReliableTypes \cup UnreliableTypes \cup {"SEND_UNSEQUENCED"}
  PROVE  Command(i, type, reliable, number, f, count) \in CommandType
BY DEF Command, CommandType

\* What enet_peer_send makes of a packet: one command per fragment, in order,
\* and, when they are not reliable, all with the same numbers.
LEMMA CommandsForPacket ==
  ASSUME SenderType, NEW k \in Kinds, NEW i \in Packets
  PROVE  LET cs == CommandsFor(i, k) IN
         /\ TypeFor(k) \in ReliableTypes \cup UnreliableTypes \cup {"SEND_UNSEQUENCED"}
         /\ TypeFor(k) \in UnreliableTypes =>
              outgoingUnreliableSequenceNumber < UnreliableLimit
         /\ cs \in Seq(CommandType)
         /\ Len(cs) = k.fragments
         /\ \A p \in DOMAIN cs : cs[p].packet = i /\ cs[p].type = TypeFor(k)
         /\ \A p, r \in DOMAIN cs : p < r =>
              /\ cs[p].fragment < cs[r].fragment
              /\ TypeFor(k) \notin ReliableTypes =>
                   OutgoingNumbers(cs[p]) = OutgoingNumbers(cs[r])
<1> DEFINE cs == CommandsFor(i, k)
           n == k.fragments
           t == TypeFor(k)
           r0 == outgoingReliableSequenceNumber
           u0 == outgoingUnreliableSequenceNumber + 1
           g0 == outgoingUnsequencedGroup + 1
<1>1. n \in Nat /\ n >= 1
  BY KindsHaveFragments
<1>2. r0 \in Nat /\ u0 \in Nat /\ g0 \in Nat /\ UnreliableLimit \in Nat
  BY DeliveryAssumption DEF SenderType
<1>3. t \in {"SEND_UNRELIABLE_FRAGMENT", "SEND_FRAGMENT"} <=> n > 1
  BY <1>1 DEF TypeFor
<1>4. t \in {"SEND_UNRELIABLE_FRAGMENT", "SEND_FRAGMENT", "SEND_UNSEQUENCED",
             "SEND_RELIABLE", "SEND_UNRELIABLE"}
  BY DEF TypeFor
<1>5. t \in UnreliableTypes => NumbersLeft
  BY <1>1, DeliveryAssumption DEF TypeFor, UnreliableTypes, KindType
<1>6. t \in ReliableTypes \cup UnreliableTypes \cup {"SEND_UNSEQUENCED"}
  BY <1>4 DEF ReliableTypes, UnreliableTypes
<1>7. t \in UnreliableTypes => outgoingUnreliableSequenceNumber < UnreliableLimit
  BY <1>5 DEF NumbersLeft
<1> DEFINE Good ==
      /\ cs \in Seq(CommandType)
      /\ Len(cs) = n
      /\ \A p \in DOMAIN cs : cs[p].packet = i /\ cs[p].type = t
      /\ \A p, r \in DOMAIN cs : p < r =>
           /\ cs[p].fragment < cs[r].fragment
           /\ t \notin ReliableTypes =>
                OutgoingNumbers(cs[p]) = OutgoingNumbers(cs[r])
<1>8. CASE t = "SEND_UNRELIABLE_FRAGMENT"
  <2>1. cs = [f \in 1 .. n |-> Command(i, t, r0, u0, f - 1, n)]
    BY <1>8 DEF CommandsFor
  <2>2. ASSUME NEW f \in 1 .. n
        PROVE  Command(i, t, r0, u0, f - 1, n) \in CommandType
    <3>1. f - 1 \in Nat
      BY <1>1
    <3> QED
      BY <1>1, <1>2, <1>6, <3>1, CommandIsTyped
  <2> HIDE DEF cs, n, t, r0, u0
  <2>3. cs \in [1 .. n -> CommandType]
    BY <2>1, <2>2
  <2>4. cs \in Seq(CommandType) /\ Len(cs) = n /\ DOMAIN cs = 1 .. n
    BY <1>1, <2>3, IsASeq, LenProperties
  <2>5. ASSUME NEW p \in 1 .. n
        PROVE  /\ cs[p].packet = i /\ cs[p].type = t /\ cs[p].fragment = p - 1
               /\ cs[p].reliable = r0 /\ cs[p].number = u0
    BY <2>1 DEF Command
  <2>6. ASSUME NEW p \in 1 .. n, NEW r \in 1 .. n, p < r
        PROVE  /\ cs[p].fragment < cs[r].fragment
               /\ OutgoingNumbers(cs[p]) = OutgoingNumbers(cs[r])
    <3>1. cs[p].fragment < cs[r].fragment
      BY <1>1, <2>5, <2>6
    <3>2. OutgoingNumbers(cs[p]) = OutgoingNumbers(cs[r])
      BY <2>5 DEF OutgoingNumbers
    <3> QED
      BY <3>1, <3>2
  <2>7. Good
    BY <2>4, <2>5, <2>6
  <2> QED
    BY <1>6, <1>7, <2>7 DEF cs, n, t
<1>9. CASE t = "SEND_FRAGMENT"
  <2>1. cs = [f \in 1 .. n |-> Command(i, t, r0 + f, r0 + 1, f - 1, n)]
    BY <1>9 DEF CommandsFor
  <2>2. ASSUME NEW f \in 1 .. n
        PROVE  Command(i, t, r0 + f, r0 + 1, f - 1, n) \in CommandType
    <3>1. f - 1 \in Nat /\ r0 + f \in Nat /\ r0 + 1 \in Nat
      BY <1>1, <1>2
    <3> QED
      BY <1>1, <1>6, <3>1, CommandIsTyped
  <2> HIDE DEF cs, n, t, r0, u0
  <2>3. cs \in [1 .. n -> CommandType]
    BY <2>1, <2>2
  <2>4. cs \in Seq(CommandType) /\ Len(cs) = n /\ DOMAIN cs = 1 .. n
    BY <1>1, <2>3, IsASeq, LenProperties
  <2>5. ASSUME NEW p \in 1 .. n
        PROVE  cs[p].packet = i /\ cs[p].type = t /\ cs[p].fragment = p - 1
    BY <2>1 DEF Command
  <2>6. ASSUME NEW p \in 1 .. n, NEW r \in 1 .. n, p < r
        PROVE  cs[p].fragment < cs[r].fragment
    BY <1>1, <2>5, <2>6
  <2>7. t \in ReliableTypes
    BY <1>9 DEF ReliableTypes
  <2>8. Good
    BY <2>4, <2>5, <2>6, <2>7
  <2> QED
    BY <1>6, <1>7, <2>8 DEF cs, n, t
<1>10. CASE t \in {"SEND_UNSEQUENCED", "SEND_RELIABLE", "SEND_UNRELIABLE"}
  <2>1. n = 1
    BY <1>1, <1>3, <1>10
  <2>2. PICK c \in CommandType : c.packet = i /\ c.type = t /\ cs = <<c>>
    <3>1. Command(i, t, 0, g0, 0, 0) \in CommandType
      BY <1>2, <1>6, CommandIsTyped
    <3>2. Command(i, t, r0 + 1, 0, 0, 0) \in CommandType
      <4>1. r0 + 1 \in Nat
        BY <1>2
      <4> QED
        BY <1>6, <4>1, CommandIsTyped
    <3>3. Command(i, t, r0, u0, 0, 0) \in CommandType
      BY <1>2, <1>6, CommandIsTyped
    <3>4. \/ cs = <<Command(i, t, 0, g0, 0, 0)>>
          \/ cs = <<Command(i, t, r0 + 1, 0, 0, 0)>>
          \/ cs = <<Command(i, t, r0, u0, 0, 0)>>
      BY <1>10 DEF CommandsFor
    <3>5. \A r, m, f, count : /\ Command(i, t, r, m, f, count).packet = i
                              /\ Command(i, t, r, m, f, count).type = t
      BY DEF Command
    <3> QED
      BY <3>1, <3>2, <3>3, <3>4, <3>5
  <2> HIDE DEF cs, n, t
  <2>3. cs \in Seq(CommandType) /\ Len(cs) = 1 /\ DOMAIN cs = {1} /\ cs[1] = c
    BY <2>2
  <2>4. Good
    BY <2>1, <2>2, <2>3
  <2> QED
    BY <1>6, <1>7, <2>4 DEF cs, n, t
<1> QED
  BY <1>4, <1>8, <1>9, <1>10

\* The commands of a list in which none is twice.
LEMMA ToSetCounts ==
  ASSUME NEW S, NEW s \in Seq(S), \A p, r \in DOMAIN s : s[p] = s[r] => p = r
  PROVE  IsFiniteSet(ToSet(s)) /\ Cardinality(ToSet(s)) = Len(s)
<1>1. Len(s) \in Nat /\ DOMAIN s = 1 .. Len(s)
  BY LenProperties
<1>2. ToSet(s) = {s[p] : p \in DOMAIN s}
  BY DEF ToSet
<1>3. s \in [DOMAIN s -> ToSet(s)]
  BY <1>1, <1>2, LenProperties
<1> HIDE DEF ToSet
<1>4. \A c \in ToSet(s) : \E p \in DOMAIN s : s[p] = c
  BY <1>2
<1>5. s \in Bijection(DOMAIN s, ToSet(s))
  BY <1>3, <1>4 DEF Bijection, Injection, Surjection, IsInjective
<1>6. IsFiniteSet(1 .. Len(s)) /\ Cardinality(1 .. Len(s)) = Len(s)
  BY <1>1, FS_Interval
<1> QED
  BY <1>1, <1>5, <1>6, FS_Bijection DEF ExistsBijection

-----------------------------------------------------------------------------
(* The steps of the sending peer. *)
\* enet_peer_send: the commands of the new packet are queued behind the others,
\* or, reliable, on their way.
LEMMA SendStep ==
  ASSUME SenderInv, NEW k \in Kinds, Send(k)
  PROVE  SenderInv'
<1> DEFINE i  == Len(submitted) + 1
           cs == CommandsFor(i, k)
           t  == TypeFor(k)
           q  == outgoingUnreliable
<1>1. i \in Packets /\ Len(submitted) \in Nat /\ DOMAIN submitted = 1 .. Len(submitted)
  BY LenProperties DEF SenderInv, SenderType, Send
<1>2. /\ t \in ReliableTypes \cup UnreliableTypes \cup {"SEND_UNSEQUENCED"}
      /\ t \in UnreliableTypes => outgoingUnreliableSequenceNumber < UnreliableLimit
      /\ cs \in Seq(CommandType) /\ Len(cs) = k.fragments
      /\ \A p \in DOMAIN cs : cs[p].packet = i /\ cs[p].type = t
      /\ \A p, r \in DOMAIN cs : p < r =>
           /\ cs[p].fragment < cs[r].fragment
           /\ t \notin ReliableTypes => OutgoingNumbers(cs[p]) = OutgoingNumbers(cs[r])
  BY <1>1, CommandsForPacket DEF SenderInv
<1>3. DOMAIN cs = 1 .. k.fragments /\ k.fragments \in Nat /\ k.fragments >= 1
  BY <1>2, KindsHaveFragments, LenProperties
<1>4. /\ submitted' \in Seq(Kinds) /\ Len(submitted') = i
      /\ DOMAIN submitted' = 1 .. i /\ submitted'[i] = k
      /\ \A j \in DOMAIN submitted : submitted'[j] = submitted[j]
  <2>1. submitted' = Append(submitted, k) /\ submitted \in Seq(Kinds)
    BY DEF Send, SenderInv, SenderType
  <2>2. submitted' \in Seq(Kinds) /\ Len(submitted') = i
    BY <2>1, AppendProperties
  <2>3. DOMAIN submitted' = 1 .. i
    BY <2>2, LenProperties
  <2> QED
    BY <1>1, <2>1, <2>2, <2>3, AppendProperties
<1>5. /\ referenceCount' = [referenceCount EXCEPT ![i] = @ + Len(cs)]
      /\ sentUnreliable = <<>> /\ sentUnreliable' = <<>> /\ freed' = freed
  BY DEF Send
<1>6. /\ outgoingReliableSequenceNumber' \in Nat
      /\ outgoingUnreliableSequenceNumber' \in 0 .. UnreliableLimit
      /\ outgoingUnsequencedGroup' \in Nat
      /\ \/ /\ t \in ReliableTypes
            /\ network' = network \cup ToSet(cs) /\ outgoingUnreliable' = q
         \/ /\ t \notin ReliableTypes
            /\ network' = network /\ outgoingUnreliable' = q \o cs
  <2> HIDE DEF cs, t
  <2>1. /\ outgoingReliableSequenceNumber \in Nat
        /\ outgoingUnreliableSequenceNumber \in 0 .. UnreliableLimit
        /\ outgoingUnsequencedGroup \in Nat /\ UnreliableLimit \in Nat
    BY DeliveryAssumption DEF SenderInv, SenderType
  <2>2. CASE t \in ReliableTypes
    <3>0. t \notin UnreliableTypes
      BY <2>2 DEF ReliableTypes, UnreliableTypes
    <3>1. SetupReliable(cs)
      BY <2>2, <3>0 DEF Send, cs, t
    <3> QED
      BY <1>2, <1>3, <2>1, <2>2, <3>1 DEF SetupReliable
  <2>3. CASE t \in UnreliableTypes
    <3>1. t \notin ReliableTypes
      BY <2>3 DEF ReliableTypes, UnreliableTypes
    <3>2. SetupUnreliable(cs)
      BY <2>3, <3>1 DEF Send, cs, t
    <3>3. outgoingUnreliableSequenceNumber < UnreliableLimit
      BY <1>2, <2>3
    <3> QED
      BY <2>1, <3>1, <3>2, <3>3 DEF SetupUnreliable
  <2>4. CASE t = "SEND_UNSEQUENCED"
    <3>1. t \notin ReliableTypes /\ t \notin UnreliableTypes
      BY <2>4 DEF ReliableTypes, UnreliableTypes
    <3>2. SetupUnsequenced(cs)
      BY <3>1 DEF Send, cs, t
    <3> QED
      BY <2>1, <3>1, <3>2 DEF SetupUnsequenced
  <2> QED
    BY <1>2, <2>2, <2>3, <2>4
<1>7. /\ q \in Seq(CommandType) /\ Len(q) \in Nat /\ DOMAIN q = 1 .. Len(q)
      /\ network \subseteq CommandType /\ IsFiniteSet(network)
      /\ referenceCount \in [Packets -> Nat] /\ freed \subseteq Packets
      /\ MaxPackets \in Nat
  BY LenProperties, DeliveryAssumption DEF SenderInv, SenderType
<1>8. /\ \A c \in network : c.packet \in DOMAIN submitted
      /\ \A p \in DOMAIN q : q[p].packet \in DOMAIN submitted
      /\ freed \subseteq DOMAIN submitted
      /\ \A j \in Packets \ DOMAIN submitted : referenceCount[j] = 0
  BY DEF SenderInv, OnlySubmitted
<1>9. i \notin DOMAIN submitted /\ i =< MaxPackets
  BY <1>1 DEF Packets
<1>10. /\ referenceCount' \in [Packets -> Nat]
       /\ referenceCount'[i] = k.fragments
       /\ \A j \in Packets : j # i => referenceCount'[j] = referenceCount[j]
  BY <1>1, <1>2, <1>3, <1>5, <1>7, <1>8, <1>9
<1>11. ASSUME NEW j \in DOMAIN submitted PROVE j \in Packets /\ j # i
  <2>1. j \in 1 .. Len(submitted) /\ Len(submitted) + 1 =< MaxPackets
    BY <1>1, <1>9
  <2> QED
    BY <1>1, <1>7, <2>1 DEF Packets
<1>12. /\ Held(i, q) = 0 /\ Transmitted(i) = {} /\ Reliables(i) = {}
       /\ \A j : Held(j, <<>>) = 0
  <2>1. Held(i, q) = 0
    BY <1>7, <1>8, <1>9, HeldCounts, ZenonT(30)
  <2>2. \A j : Held(j, <<>>) = 0
    <3>1. ASSUME NEW j PROVE Held(j, <<>>) = 0
      <4>1. <<>> \in Seq(CommandType) /\ DOMAIN <<>> = {}
        OBVIOUS
      <4> QED
        BY <4>1, HeldCounts
    <3> QED
      BY <3>1
  <2> QED
    BY <1>8, <1>9, <2>1, <2>2 DEF Transmitted, Reliables
<1>13. /\ \A j : Held(j, q) \in Nat
       /\ Held(i, cs) = k.fragments
       /\ \A j : j # i => Held(j, cs) = 0
  <2>1. ASSUME NEW j PROVE Held(j, q) \in Nat
    BY <1>7, HeldCounts
  <2>2. Held(i, cs) = k.fragments
    BY <1>2, HeldCounts
  <2>3. ASSUME NEW j, j # i PROVE Held(j, cs) = 0
    BY <1>2, <2>3, HeldCounts
  <2> QED
    BY <2>1, <2>2, <2>3
<1>14. freed' \subseteq DOMAIN submitted
  BY <1>5, <1>8
<1> HIDE DEF cs, t, q, i
<1>15. SenderType' \/ ~ (IsFiniteSet(network') /\ network' \subseteq CommandType
                           /\ outgoingUnreliable' \in Seq(CommandType))
  <2>1. Len(submitted') =< MaxPackets /\ <<>> \in Seq(CommandType)
    BY <1>4, <1>9
  <2> QED
    BY <1>4, <1>5, <1>6, <1>7, <1>10, <2>1 DEF SenderType
<1>16. ASSUME NEW j \in DOMAIN submitted'
       PROVE  j = i \/ (j \in DOMAIN submitted /\ j # i /\ j \in Packets
                         /\ submitted'[j] = submitted[j] /\ referenceCount'[j] = referenceCount[j])
  <2>1. j = i \/ j \in DOMAIN submitted
    BY <1>1, <1>4 DEF i
  <2> QED
    BY <1>4, <1>10, <1>11, <2>1
<1>17. \A p \in DOMAIN q : q[p].packet # i
  BY <1>8, <1>9
<1>18. DOMAIN submitted \subseteq DOMAIN submitted' /\ i \in DOMAIN submitted'
  BY <1>1, <1>4 DEF i
<1>19. /\ freed' \subseteq DOMAIN submitted' /\ i \notin freed'
       /\ \A j \in Packets \ DOMAIN submitted' : referenceCount'[j] = 0
  BY <1>8, <1>9, <1>10, <1>14, <1>18
<1>20. \A j \in DOMAIN submitted :
         /\ \/ Held(j, q) + Cardinality(Transmitted(j)) = submitted[j].fragments
            \/ Held(j, q) = 0 /\ Transmitted(j) = {}
         /\ referenceCount[j] = Held(j, q) + Cardinality(Reliables(j))
         /\ j \in freed <=> referenceCount[j] = 0
  <2>1. \A j : Held(j, sentUnreliable) = 0
    BY <1>5, <1>12
  <2>2. ASSUME NEW j \in DOMAIN submitted
        PROVE  /\ referenceCount[j] = Held(j, q) + Cardinality(Reliables(j))
               /\ j \in freed <=> referenceCount[j] = 0
    <3>1. Cardinality(Reliables(j)) \in Nat /\ Held(j, q) \in Nat
      BY <1>13, FiniteParts DEF SenderInv
    <3>2. /\ referenceCount[j] = Held(j, q) + 0 + Cardinality(Reliables(j))
          /\ j \in freed <=> referenceCount[j] = 0
      BY <2>1 DEF SenderInv, PacketsHeld, Reliables, q
    <3> QED
      BY <3>1, <3>2
  <2> QED
    BY <2>2 DEF SenderInv, Accounted, q
<1>21. QueueInOrder
  BY DEF SenderInv
<1>22. CASE /\ t \in ReliableTypes
            /\ network' = network \cup ToSet(cs) /\ outgoingUnreliable' = q
  <2> DEFINE T == ToSet(cs)
  <2>1. T = {cs[p] : p \in DOMAIN cs}
    BY DEF ToSet
  <2>2. \A c \in T : c \in CommandType /\ c.packet = i /\ c.type \in ReliableTypes
    BY <1>2, <1>22, <2>1, ElementOfSeq
  <2>3. IsFiniteSet(T) /\ Cardinality(T) = k.fragments
    <3>1. ASSUME NEW p \in DOMAIN cs, NEW r \in DOMAIN cs, cs[p] = cs[r] PROVE p = r
      <4>1. p \in Int /\ r \in Int
        BY <1>3
      <4>2. cs[p] \in CommandType
        BY <1>2, ElementOfSeq
      <4>3. cs[p].fragment \in Nat
        BY <4>2 DEF CommandType
      <4>4. ~ p < r /\ ~ r < p
        BY <1>2, <3>1, <4>3
      <4> QED
        BY <4>1, <4>4
    <3> QED
      BY <1>2, <3>1, ToSetCounts
  <2> HIDE DEF T
  <2>4. network' = network \cup T /\ outgoingUnreliable' = q
    BY <1>22 DEF T
  <2>5. network' \subseteq CommandType /\ IsFiniteSet(network')
    BY <1>7, <2>2, <2>3, <2>4, FS_Union
  <2>6. SenderType'
    BY <1>7, <1>15, <2>4, <2>5
  <2>7. OnlySubmitted'
    <3>1. \A c \in network' : c.packet \in DOMAIN submitted'
      BY <1>8, <1>18, <2>2, <2>4
    <3>2. \A p \in DOMAIN outgoingUnreliable' :
            outgoingUnreliable'[p].packet \in DOMAIN submitted'
      BY <1>8, <1>18, <2>4
    <3> QED
      BY <1>5, <1>19, <3>1, <3>2 DEF OnlySubmitted
  <2>8. QueueInOrder'
    BY <1>21, <2>4 DEF QueueInOrder, q
  <2>9. FirstUnderWay'
    <3>1. FirstUnderWay
      BY DEF SenderInv
    <3> QED
      BY <1>17, <2>2, <2>4, <3>1 DEF FirstUnderWay, q
  <2>10. /\ \A j : j # i => Transmitted(j)' = Transmitted(j)
         /\ \A j : j # i => Reliables(j)' = Reliables(j)
         /\ \A j : j = i => Transmitted(j)' = T /\ Reliables(j)' = T
    <3>1. \A j : j # i => Transmitted(j)' = Transmitted(j)
      BY <2>2, <2>4 DEF Transmitted
    <3>2. \A j : j # i => Reliables(j)' = Reliables(j)
      BY <2>2, <2>4 DEF Reliables
    <3>3. {c \in network' : c.packet = i} = T
      BY <1>12, <2>2, <2>4 DEF Transmitted
    <3>4. {c \in network' : c.packet = i /\ c.type \in ReliableTypes} = T
      BY <1>12, <2>2, <2>4 DEF Reliables
    <3> QED
      BY <3>1, <3>2, <3>3, <3>4 DEF Transmitted, Reliables
  <2>11. \A j : Held(j, outgoingUnreliable)' = Held(j, q) /\ Held(j, sentUnreliable)' = 0
    BY <1>5, <1>12, <2>4 DEF Held
  <2>12. ASSUME NEW j \in DOMAIN submitted'
         PROVE  /\ \/ Held(j, outgoingUnreliable)' + Cardinality(Transmitted(j))'
                        = submitted'[j].fragments
                   \/ Held(j, outgoingUnreliable)' = 0 /\ Transmitted(j)' = {}
                /\ referenceCount'[j] = Held(j, outgoingUnreliable)'
                     + Held(j, sentUnreliable)' + Cardinality(Reliables(j))'
                /\ j \in freed' <=> referenceCount'[j] = 0
    <3>1. CASE j = i
      <4>1. submitted'[j] = k /\ referenceCount'[j] = k.fragments /\ j \notin freed'
        BY <1>4, <1>10, <1>19, <3>1
      <4>2. Cardinality(Transmitted(j))' = k.fragments /\ Cardinality(Reliables(j))' = k.fragments
        BY <2>3, <2>10, <3>1
      <4>3. Held(j, outgoingUnreliable)' = 0 /\ Held(j, sentUnreliable)' = 0
        BY <1>12, <2>11, <3>1
      <4> QED
        BY <1>3, <4>1, <4>2, <4>3
    <3>2. CASE j # i
      <4>1. /\ j \in DOMAIN submitted /\ submitted'[j] = submitted[j]
            /\ referenceCount'[j] = referenceCount[j]
        BY <1>16, <3>2
      <4>2. /\ Transmitted(j)' = Transmitted(j) /\ Reliables(j)' = Reliables(j)
            /\ Held(j, outgoingUnreliable)' = Held(j, q) /\ Held(j, sentUnreliable)' = 0
        BY <2>10, <2>11, <3>2
      <4>3. Held(j, q) \in Nat /\ Cardinality(Reliables(j)) \in Nat
        BY <1>13, FiniteParts DEF SenderInv
      <4>4. Held(j, q) = Held(j, q) + 0
        BY <4>3
      <4> QED
        BY <1>5, <1>20, <4>1, <4>2, <4>4
    <3> QED
      BY <3>1, <3>2
  <2>13. Accounted' /\ PacketsHeld'
    BY <2>12 DEF Accounted, PacketsHeld, Reliables
  <2> QED
    BY <2>6, <2>7, <2>8, <2>9, <2>13 DEF SenderInv
<1>23. CASE /\ t \notin ReliableTypes
            /\ network' = network /\ outgoingUnreliable' = q \o cs
  <2> DEFINE new == q \o cs
  <2>1. /\ new \in Seq(CommandType) /\ Len(new) = Len(q) + Len(cs)
        /\ \A p \in 1 .. Len(q) + Len(cs) :
             new[p] = IF p =< Len(q) THEN q[p] ELSE cs[p - Len(q)]
    BY <1>2, <1>7, ConcatProperties
  <2>2. DOMAIN new = 1 .. Len(q) + k.fragments
    BY <1>2, <2>1, LenProperties
  <2> HIDE DEF new
  <2>3. network' = network /\ outgoingUnreliable' = new
    BY <1>23 DEF new
  <2>4. ASSUME NEW p \in DOMAIN new
        PROVE  \/ p \in DOMAIN q /\ p =< Len(q) /\ new[p] = q[p]
               \/ p - Len(q) \in DOMAIN cs /\ p > Len(q) /\ new[p] = cs[p - Len(q)]
    <3>1. p \in 1 .. Len(q) + Len(cs)
      BY <1>2, <2>2
    <3>2. CASE p =< Len(q)
      BY <1>7, <2>1, <3>1, <3>2
    <3>3. CASE ~ p =< Len(q)
      <4>1. p - Len(q) \in 1 .. k.fragments /\ p > Len(q)
        BY <1>2, <1>3, <1>7, <3>1, <3>3
      <4> QED
        BY <1>3, <2>1, <3>1, <3>3, <4>1
    <3> QED
      BY <3>2, <3>3
  <2>5. SenderType'
    BY <1>7, <1>15, <2>1, <2>3
  <2>6. OnlySubmitted'
    <3>1. \A c \in network' : c.packet \in DOMAIN submitted'
      BY <1>8, <1>18, <2>3
    <3>2. ASSUME NEW p \in DOMAIN new PROVE new[p].packet \in DOMAIN submitted'
      BY <1>2, <1>8, <1>18, <2>4
    <3> QED
      BY <1>5, <1>19, <2>3, <3>1, <3>2 DEF OnlySubmitted
  <2>7. QueueInOrder'
    <3>1. ASSUME NEW p \in DOMAIN new PROVE new[p].type \notin ReliableTypes
      <4>1. CASE p \in DOMAIN q /\ new[p] = q[p]
        BY <1>21, <4>1 DEF QueueInOrder, q
      <4>2. CASE p - Len(q) \in DOMAIN cs /\ new[p] = cs[p - Len(q)]
        BY <1>2, <1>23, <4>2
      <4> QED
        BY <2>4, <4>1, <4>2
    <3>2. ASSUME NEW p \in DOMAIN new, NEW r \in DOMAIN new, p < r
          PROVE  \/ new[p].packet < new[r].packet
                 \/ /\ new[p].packet = new[r].packet
                    /\ new[p].fragment < new[r].fragment
                    /\ OutgoingNumbers(new[p]) = OutgoingNumbers(new[r])
      <4>1. CASE p \in DOMAIN q /\ r \in DOMAIN q /\ new[p] = q[p] /\ new[r] = q[r]
        BY <1>21, <3>2, <4>1 DEF QueueInOrder, q
      <4>2. CASE p \in DOMAIN q /\ new[p] = q[p]
                   /\ r - Len(q) \in DOMAIN cs /\ new[r] = cs[r - Len(q)]
        <5>1. q[p].packet \in 1 .. Len(submitted) /\ new[r].packet = i
          BY <1>1, <1>2, <1>8, <4>2
        <5> QED
          BY <1>1, <4>2, <5>1 DEF i
      <4>3. CASE /\ p - Len(q) \in DOMAIN cs /\ new[p] = cs[p - Len(q)]
                 /\ r - Len(q) \in DOMAIN cs /\ new[r] = cs[r - Len(q)]
        <5>1. p - Len(q) < r - Len(q)
          BY <1>2, <1>7, <2>2, <3>2
        <5> QED
          BY <1>2, <1>23, <4>3, <5>1
      <4>4. ~ (p > Len(q) /\ r =< Len(q))
        BY <1>2, <1>7, <2>2, <3>2
      <4> QED
        BY <2>4, <4>1, <4>2, <4>3, <4>4
    <3> QED
      BY <2>3, <3>1, <3>2 DEF QueueInOrder
  <2>8. FirstUnderWay'
    <3>1. ASSUME NEW c \in network, NEW p \in DOMAIN new, c.packet = new[p].packet
          PROVE  c.packet = new[1].packet /\ c.fragment < new[1].fragment
      <4>1. c.packet # i
        BY <1>8, <1>9
      <4>2. p \in DOMAIN q /\ new[p] = q[p]
        BY <1>2, <2>4, <3>1, <4>1
      <4>3. 1 \in DOMAIN q /\ 1 \in DOMAIN new /\ new[1] = q[1]
        <5>1. 1 =< Len(q) /\ 1 \in 1 .. Len(q) + Len(cs)
          BY <1>2, <1>3, <1>7, <4>2
        <5> QED
          BY <1>2, <1>7, <2>1, <2>2, <5>1
      <4>4. c.packet = q[1].packet /\ c.fragment < q[1].fragment
        BY <3>1, <4>2 DEF SenderInv, FirstUnderWay, q
      <4> QED
        BY <4>3, <4>4
    <3> QED
      BY <2>3, <3>1 DEF FirstUnderWay
  <2>9. \A j : Transmitted(j)' = Transmitted(j) /\ Reliables(j)' = Reliables(j)
    BY <2>3 DEF Transmitted, Reliables
  <2>10. ASSUME NEW j
         PROVE  /\ Held(j, outgoingUnreliable)' = Held(j, q) + Held(j, cs)
                /\ Held(j, sentUnreliable)' = 0
    <3>1. Held(j, new) = Held(j, q) + Held(j, cs)
      BY <1>2, <1>7, HeldConcat DEF new
    <3> QED
      BY <1>5, <1>12, <2>3, <3>1 DEF Held
  <2>11. ASSUME NEW j \in DOMAIN submitted'
         PROVE  /\ \/ Held(j, outgoingUnreliable)' + Cardinality(Transmitted(j))'
                        = submitted'[j].fragments
                   \/ Held(j, outgoingUnreliable)' = 0 /\ Transmitted(j)' = {}
                /\ referenceCount'[j] = Held(j, outgoingUnreliable)'
                     + Held(j, sentUnreliable)' + Cardinality(Reliables(j))'
                /\ j \in freed' <=> referenceCount'[j] = 0
    <3>1. CASE j = i
      <4>1. submitted'[j] = k /\ referenceCount'[j] = k.fragments /\ j \notin freed'
        BY <1>4, <1>10, <1>19, <3>1
      <4>2. Cardinality(Transmitted(j))' = 0 /\ Cardinality(Reliables(j))' = 0
        BY <1>12, <2>9, <3>1, FS_EmptySet
      <4>3. Held(j, outgoingUnreliable)' = 0 + k.fragments /\ Held(j, sentUnreliable)' = 0
        BY <1>12, <1>13, <2>10, <3>1
      <4> QED
        BY <1>3, <4>1, <4>2, <4>3
    <3>2. CASE j # i
      <4>1. /\ j \in DOMAIN submitted /\ submitted'[j] = submitted[j]
            /\ referenceCount'[j] = referenceCount[j]
        BY <1>16, <3>2
      <4>2. /\ Transmitted(j)' = Transmitted(j) /\ Reliables(j)' = Reliables(j)
            /\ Held(j, outgoingUnreliable)' = Held(j, q) + 0 /\ Held(j, sentUnreliable)' = 0
        BY <1>13, <2>9, <2>10, <3>2
      <4>3. Held(j, q) \in Nat /\ Cardinality(Reliables(j)) \in Nat
        BY <1>13, FiniteParts DEF SenderInv
      <4>4. Held(j, q) = Held(j, q) + 0
        BY <4>3
      <4> QED
        BY <1>5, <1>20, <4>1, <4>2, <4>4
    <3> QED
      BY <3>1, <3>2
  <2>12. Accounted' /\ PacketsHeld'
    BY <2>11 DEF Accounted, PacketsHeld, Reliables
  <2> QED
    BY <2>5, <2>6, <2>7, <2>8, <2>12 DEF SenderInv
<1> QED
  BY <1>6, <1>22, <1>23

\* What the sender's steps may use of its invariant.
LEMMA SenderFacts ==
  ASSUME SenderInv
  PROVE  /\ outgoingUnreliable \in Seq(CommandType)
         /\ sentUnreliable \in Seq(CommandType)
         /\ Len(outgoingUnreliable) \in Nat
         /\ DOMAIN outgoingUnreliable = 1 .. Len(outgoingUnreliable)
         /\ \A j : /\ Held(j, outgoingUnreliable) \in Nat
                   /\ Held(j, sentUnreliable) \in Nat
                   /\ Cardinality(Transmitted(j)) \in Nat
                   /\ Cardinality(Reliables(j)) \in Nat
         /\ DOMAIN submitted \subseteq Packets
         /\ network \subseteq CommandType /\ IsFiniteSet(network)
<1>1. outgoingUnreliable \in Seq(CommandType) /\ sentUnreliable \in Seq(CommandType)
  BY DEF SenderInv, SenderType
<1>2. /\ Len(outgoingUnreliable) \in Nat
      /\ DOMAIN outgoingUnreliable = 1 .. Len(outgoingUnreliable)
  BY <1>1, LenProperties
<1>3. ASSUME NEW j
      PROVE  /\ Held(j, outgoingUnreliable) \in Nat
             /\ Held(j, sentUnreliable) \in Nat
             /\ Cardinality(Transmitted(j)) \in Nat
             /\ Cardinality(Reliables(j)) \in Nat
  BY <1>1, HeldCounts, FiniteParts DEF SenderInv
<1>4. DOMAIN submitted \subseteq Packets
  <2>1. /\ submitted \in Seq(Kinds) /\ Len(submitted) =< MaxPackets
        /\ MaxPackets \in Nat
    BY DeliveryAssumption DEF SenderInv, SenderType
  <2> QED
    BY <2>1, LenProperties DEF Packets
<1> QED
  BY <1>1, <1>2, <1>3, <1>4 DEF SenderInv, SenderType

\* The throttle lets a command pass: it is neither queued nor in the network
\* before, and moves from the one to the other and to the datagram.
LEMMA SendUnreliableStep ==
  ASSUME SenderInv, SendUnreliable
  PROVE  SenderInv'
<1> DEFINE q == outgoingUnreliable
           t == Tail(q)
           len == Len(q)
<1>1. PICK c : c = Head(q)
  OBVIOUS
<1>2. /\ q \in Seq(CommandType) /\ sentUnreliable \in Seq(CommandType)
      /\ len \in Nat /\ DOMAIN q = 1 .. len
      /\ network \subseteq CommandType /\ IsFiniteSet(network)
      /\ DOMAIN submitted \subseteq Packets
  BY SenderFacts
<1>3. /\ q # <<>> /\ network' = network \cup {c} /\ outgoingUnreliable' = t
      /\ sentUnreliable' = Append(sentUnreliable, c)
      /\ UNCHANGED <<submitted, numberVars, referenceCount, freed>>
  BY <1>1 DEF SendUnreliable
<1>4. /\ len >= 1 /\ c = q[1] /\ c \in CommandType
      /\ t \in Seq(CommandType) /\ Len(t) = len - 1 /\ DOMAIN t = 1 .. len - 1
      /\ \A p \in 1 .. len - 1 : t[p] = q[p + 1]
  <2>1. len # 0
    BY <1>2, <1>3, EmptySeq
  <2>2. c \in CommandType /\ t \in Seq(CommandType) /\ Len(t) = len - 1
        /\ \A p \in 1 .. Len(t) : t[p] = q[p + 1]
    BY <1>1, <1>2, <1>3, HeadTailProperties
  <2>3. DOMAIN t = 1 .. len - 1
    BY <2>2, LenProperties
  <2> QED
    BY <1>1, <1>2, <2>1, <2>2, <2>3
<1>5. ASSUME NEW j
      PROVE  /\ Held(j, q) = (IF c.packet = j THEN 1 ELSE 0) + Held(j, t)
             /\ Held(j, Append(sentUnreliable, c))
                  = Held(j, sentUnreliable) + (IF c.packet = j THEN 1 ELSE 0)
             /\ Held(j, t) \in Nat /\ Held(j, sentUnreliable) \in Nat
  <2>1. Held(j, q) = (IF c.packet = j THEN 1 ELSE 0) + Held(j, t)
    BY <1>1, <1>2, <1>3, HeldTail
  <2> HIDE DEF t
  <2>2. Held(j, Append(sentUnreliable, c))
          = Held(j, sentUnreliable) + (IF c.packet = j THEN 1 ELSE 0)
    BY <1>2, <1>4, HeldAppend
  <2>3. Held(j, t) \in Nat
    BY <1>4, HeldCounts
  <2>4. Held(j, sentUnreliable) \in Nat
    BY <1>2, HeldCounts
  <2> QED
    BY <2>1, <2>2, <2>3, <2>4
<1> HIDE DEF q, t, len
<1>6. QueueInOrder /\ FirstUnderWay
  BY DEF SenderInv
<1>7. c.type \notin ReliableTypes /\ c.packet \in DOMAIN submitted
  BY <1>2, <1>4 DEF SenderInv, QueueInOrder, OnlySubmitted, q
<1>8. c \notin network
  <2>1. c.fragment \in Nat
    BY <1>4 DEF CommandType
  <2>2. 1 \in DOMAIN q /\ c.packet = q[1].packet /\ c.fragment = q[1].fragment
    BY <1>2, <1>4
  <2>3. c \in network => c.fragment < c.fragment
    BY <1>6, <2>2 DEF FirstUnderWay, q
  <2> QED
    BY <2>1, <2>3
<1>9. SenderType'
  <2>1. network' \subseteq CommandType /\ IsFiniteSet(network')
    BY <1>2, <1>3, <1>4, FS_AddElement
  <2>2. sentUnreliable' \in Seq(CommandType)
    BY <1>2, <1>3, <1>4, AppendProperties
  <2> QED
    BY <1>3, <1>4, <2>1, <2>2 DEF SenderInv, SenderType, numberVars
<1>10. OnlySubmitted'
  <2>1. OnlySubmitted
    BY DEF SenderInv
  <2>2. \A p \in DOMAIN t : t[p].packet \in DOMAIN submitted
    <3>1. ASSUME NEW p \in DOMAIN t PROVE t[p].packet \in DOMAIN submitted
      <4>1. p + 1 \in DOMAIN q /\ t[p] = q[p + 1]
        BY <1>2, <1>4
      <4> QED
        BY <2>1, <4>1 DEF OnlySubmitted, q
    <3> QED
      BY <3>1
  <2>3. \A p \in DOMAIN sentUnreliable' : sentUnreliable'[p].packet \in DOMAIN submitted
    <3>1. /\ Len(sentUnreliable) \in Nat
          /\ DOMAIN sentUnreliable = 1 .. Len(sentUnreliable)
          /\ DOMAIN sentUnreliable' = 1 .. Len(sentUnreliable) + 1
          /\ \A p \in 1 .. Len(sentUnreliable) : sentUnreliable'[p] = sentUnreliable[p]
          /\ sentUnreliable'[Len(sentUnreliable) + 1] = c
      BY <1>2, <1>3, <1>4, AppendProperties, LenProperties
    <3>2. ASSUME NEW p \in DOMAIN sentUnreliable'
          PROVE  p \in DOMAIN sentUnreliable \/ p = Len(sentUnreliable) + 1
      BY <3>1
    <3> QED
      BY <1>7, <2>1, <3>1, <3>2 DEF OnlySubmitted
  <2> QED
    BY <1>3, <1>7, <2>1, <2>2, <2>3 DEF OnlySubmitted
<1>11. ASSUME NEW p \in DOMAIN t
       PROVE  p + 1 \in DOMAIN q /\ t[p] = q[p + 1] /\ 1 \in DOMAIN q /\ p >= 1 /\ p \in Nat
  BY <1>2, <1>4
<1>12. QueueInOrder'
  <2>1. ASSUME NEW p \in DOMAIN t PROVE t[p].type \notin ReliableTypes
    BY <1>6, <1>11 DEF QueueInOrder, q
  <2>2. ASSUME NEW p \in DOMAIN t, NEW r \in DOMAIN t, p < r
        PROVE  \/ t[p].packet < t[r].packet
               \/ /\ t[p].packet = t[r].packet
                  /\ t[p].fragment < t[r].fragment
                  /\ OutgoingNumbers(t[p]) = OutgoingNumbers(t[r])
    <3>1. p + 1 < r + 1
      BY <1>11, <2>2
    <3> QED
      BY <1>6, <1>11, <3>1 DEF QueueInOrder, q
  <2> QED
    BY <1>3, <2>1, <2>2 DEF QueueInOrder
<1>13. FirstUnderWay'
  <2>1. ASSUME NEW d \in network', NEW p \in DOMAIN t, d.packet = t[p].packet
        PROVE  d.packet = t[1].packet /\ d.fragment < t[1].fragment
    <3>1. /\ 1 \in DOMAIN t /\ t[1] = q[2] /\ 2 \in DOMAIN q /\ t[p] = q[p + 1]
          /\ p + 1 \in DOMAIN q /\ 1 \in DOMAIN q
      BY <1>2, <1>4, <1>11
    <3>2. /\ q[1] \in CommandType /\ q[2] \in CommandType /\ q[p + 1] \in CommandType
          /\ d \in CommandType
      BY <1>2, <1>3, <1>4, <3>1, ElementOfSeq
    <3>3. /\ q[1].packet \in Int /\ q[2].packet \in Int /\ q[p + 1].packet \in Int
          /\ q[1].fragment \in Int /\ q[2].fragment \in Int /\ d.fragment \in Int
      BY <3>2 DEF CommandType, Packets
    <3>4. d.packet = q[1].packet /\ d.fragment =< q[1].fragment
      <4>1. CASE d = c
        <5>1. q[1].packet =< q[p + 1].packet
          BY <3>3, <4>1, <2>1, <3>1, <1>4
        <5> QED
          BY <1>4, <3>3, <4>1
      <4>2. CASE d \in network
        BY <1>6, <2>1, <3>1, <3>3, <4>2 DEF FirstUnderWay, q
      <4> QED
        BY <1>3, <4>1, <4>2
    <3>5. q[1].packet =< q[2].packet /\ q[2].packet =< q[p + 1].packet
      <4>1. q[1].packet =< q[2].packet
        BY <1>6, <3>1, <3>3 DEF QueueInOrder, q
      <4>2. CASE p = 1
        BY <3>3, <4>1, <4>2
      <4>3. CASE p > 1
        <5>1. 2 < p + 1
          BY <1>11, <4>3
        <5>2. q[2].packet =< q[p + 1].packet
          BY <1>6, <3>1, <3>3, <5>1 DEF QueueInOrder, q
        <5> QED
          BY <4>1, <5>2
      <4> QED
        BY <1>11, <4>2, <4>3
    <3>6. q[2].packet = q[1].packet
      BY <2>1, <3>1, <3>3, <3>4, <3>5
    <3>7. q[1].fragment < q[2].fragment
      BY <1>6, <3>1, <3>3, <3>6 DEF QueueInOrder, q
    <3> QED
      BY <3>1, <3>3, <3>4, <3>6, <3>7
  <2> QED
    BY <1>3, <2>1 DEF FirstUnderWay
<1>14. ASSUME NEW j
       PROVE  /\ Transmitted(j)' = IF c.packet = j THEN Transmitted(j) \cup {c}
                                                   ELSE Transmitted(j)
              /\ Cardinality(Transmitted(j))'
                   = Cardinality(Transmitted(j)) + (IF c.packet = j THEN 1 ELSE 0)
              /\ Reliables(j)' = Reliables(j)
              /\ Held(j, q) = Held(j, outgoingUnreliable)' + (IF c.packet = j THEN 1 ELSE 0)
              /\ Held(j, sentUnreliable)'
                   = Held(j, sentUnreliable) + (IF c.packet = j THEN 1 ELSE 0)
              /\ Held(j, outgoingUnreliable)' \in Nat
              /\ Held(j, sentUnreliable)' \in Nat
  <2>1. Transmitted(j)' = IF c.packet = j THEN Transmitted(j) \cup {c} ELSE Transmitted(j)
    BY <1>3 DEF Transmitted
  <2>2. Reliables(j)' = Reliables(j)
    BY <1>3, <1>7 DEF Reliables
  <2>3. IsFiniteSet(Transmitted(j)) /\ Cardinality(Transmitted(j)) \in Nat /\ c \notin Transmitted(j)
    BY <1>8, FiniteParts DEF SenderInv, Transmitted
  <2>4. Cardinality(Transmitted(j))'
          = Cardinality(Transmitted(j)) + (IF c.packet = j THEN 1 ELSE 0)
    <3>1. Cardinality(Transmitted(j) \cup {c}) = Cardinality(Transmitted(j)) + 1
      BY <2>3, FS_AddElement
    <3> QED
      BY <2>1, <2>3, <3>1
  <2>5. /\ Held(j, outgoingUnreliable)' = Held(j, t)
        /\ Held(j, sentUnreliable)' = Held(j, Append(sentUnreliable, c))
    BY <1>3 DEF Held
  <2>6. Held(j, q) = Held(j, outgoingUnreliable)' + (IF c.packet = j THEN 1 ELSE 0)
    BY <1>5, <2>5
  <2>7. /\ Held(j, sentUnreliable)'
             = Held(j, sentUnreliable) + (IF c.packet = j THEN 1 ELSE 0)
        /\ Held(j, outgoingUnreliable)' \in Nat /\ Held(j, sentUnreliable)' \in Nat
    BY <1>5, <2>5
  <2> QED
    BY <2>1, <2>2, <2>4, <2>6, <2>7
<1>15. ASSUME NEW j \in DOMAIN submitted'
       PROVE  /\ \/ Held(j, outgoingUnreliable)' + Cardinality(Transmitted(j))'
                      = submitted'[j].fragments
                 \/ Held(j, outgoingUnreliable)' = 0 /\ Transmitted(j)' = {}
              /\ referenceCount'[j] = Held(j, outgoingUnreliable)'
                   + Held(j, sentUnreliable)' + Cardinality(Reliables(j))'
              /\ j \in freed' <=> referenceCount'[j] = 0
  <2>1. /\ j \in DOMAIN submitted /\ submitted'[j] = submitted[j]
        /\ referenceCount' = referenceCount /\ freed' = freed
    BY <1>3
  <2>2. /\ \/ Held(j, q) + Cardinality(Transmitted(j)) = submitted[j].fragments
           \/ Held(j, q) = 0 /\ Transmitted(j) = {}
        /\ referenceCount[j] = Held(j, q) + Held(j, sentUnreliable) + Cardinality(Reliables(j))
        /\ j \in freed <=> referenceCount[j] = 0
    BY <2>1 DEF SenderInv, Accounted, PacketsHeld, Reliables, q
  <2>3. /\ Cardinality(Transmitted(j)) \in Nat /\ Cardinality(Reliables(j)) \in Nat
        /\ Held(j, sentUnreliable) \in Nat
    BY SenderFacts
  <2>4. CASE c.packet = j
    BY <1>14, <2>1, <2>2, <2>3, <2>4
  <2>5. CASE c.packet # j
    <3>1. /\ Held(j, outgoingUnreliable)' = Held(j, q)
          /\ Held(j, sentUnreliable)' = Held(j, sentUnreliable)
          /\ Transmitted(j)' = Transmitted(j) /\ Reliables(j)' = Reliables(j)
      BY <1>14, <2>3, <2>5
    <3> QED
      BY <2>1, <2>2, <3>1
  <2> QED
    BY <2>4, <2>5
<1>16. Accounted' /\ PacketsHeld'
  BY <1>15 DEF Accounted, PacketsHeld, Reliables
<1> QED
  BY <1>9, <1>10, <1>12, <1>13, <1>16 DEF SenderInv

\* Where the throttle stops: it takes the longest run of commands with the numbers
\* of the first.
LEMMA ThrottledRun ==
  ASSUME NEW S, NEW s \in Seq(S), s # <<>>
  PROVE  LET m == ThrottledWith(s) IN
         /\ m \in 1 .. Len(s)
         /\ \A p \in 1 .. m : OutgoingNumbers(s[p]) = OutgoingNumbers(s[1])
         /\ m < Len(s) => OutgoingNumbers(s[m + 1]) # OutgoingNumbers(s[1])
<1> DEFINE T == {m \in 1 .. Len(s) :
                   m < Len(s) => OutgoingNumbers(s[m + 1]) # OutgoingNumbers(s[1])}
           Good(m) == /\ \A p \in 1 .. m : OutgoingNumbers(s[p]) = OutgoingNumbers(s[1])
                      /\ m < Len(s) => OutgoingNumbers(s[m + 1]) # OutgoingNumbers(s[1])
<1>1. Len(s) \in Nat /\ Len(s) >= 1
  <2>1. Len(s) \in Nat /\ Len(s) # 0
    BY LenProperties, EmptySeq
  <2> QED
    BY <2>1
<1>2. T \subseteq Nat /\ Len(s) \in T
  BY <1>1
<1> HIDE DEF T
<1>3. PICK m \in T : \A r \in T : m =< r
  BY <1>2, LeastElement
<1>4. m \in 1 .. Len(s) /\ (m < Len(s) => OutgoingNumbers(s[m + 1]) # OutgoingNumbers(s[1]))
  BY <1>3 DEF T
<1>5. ASSUME NEW p \in 1 .. m PROVE OutgoingNumbers(s[p]) = OutgoingNumbers(s[1])
  <2>1. CASE p = 1
    BY <2>1
  <2>2. CASE p # 1
    <3>1. /\ p - 1 \in 1 .. Len(s) /\ p - 1 < m /\ p - 1 < Len(s) /\ (p - 1) + 1 = p
      BY <1>1, <1>4, <2>2
    <3>2. p - 1 \notin T
      <4>1. ~ m =< p - 1
        BY <1>4
      <4> QED
        BY <1>3, <4>1
    <3> QED
      BY <3>1, <3>2 DEF T
  <2> QED
    BY <2>1, <2>2
<1>6. Good(m)
  BY <1>4, <1>5
<1>7. \E r \in 1 .. Len(s) : Good(r)
  BY <1>4, <1>6
<1>8. ThrottledWith(s) = CHOOSE r \in 1 .. Len(s) : Good(r)
  BY DEF ThrottledWith
<1> HIDE DEF Good
<1>9. ThrottledWith(s) \in 1 .. Len(s) /\ Good(ThrottledWith(s))
  BY <1>7, <1>8
<1> QED
  BY <1>9 DEF Good

\* What the commands cs let go when they are those of the queue or the datagram
\* that are not there afterwards.
LEMMA ReleaseCounts ==
  ASSUME SenderInv, NEW cs \in Seq(CommandType), Release(cs),
         \A p \in DOMAIN cs : cs[p].packet \in DOMAIN submitted,
         UNCHANGED <<submitted, network>>,
         \A j : /\ Held(j, outgoingUnreliable') \in Nat
                /\ Held(j, sentUnreliable') \in Nat
                /\ Held(j, outgoingUnreliable) + Held(j, sentUnreliable)
                     = Held(j, cs) + Held(j, outgoingUnreliable') + Held(j, sentUnreliable')
  PROVE  /\ PacketsHeld'
         /\ referenceCount' \in [Packets -> Nat]
         /\ freed' \subseteq DOMAIN submitted
         /\ \A i \in Packets \ DOMAIN submitted : referenceCount'[i] = 0
<1>1. /\ referenceCount' = [i \in Packets |-> referenceCount[i] - Held(i, cs)]
      /\ freed' = freed \cup {i \in Packets : /\ Held(i, cs) > 0
                                              /\ referenceCount[i] = Held(i, cs)}
  BY DEF Release
<1>2. \A j : Held(j, cs) \in Nat
  BY HeldCounts
<1>3. ASSUME NEW j \in Packets \ DOMAIN submitted
      PROVE  Held(j, cs) = 0 /\ referenceCount[j] = 0 /\ referenceCount'[j] = 0
  <2>1. referenceCount[j] = 0
    BY DEF SenderInv, OnlySubmitted
  <2>2. Held(j, cs) = 0
    <3>1. \A p \in DOMAIN cs : cs[p].packet # j
      OBVIOUS
    <3> QED
      BY <3>1, HeldCounts
  <2>3. referenceCount'[j] = 0
    BY <1>1, <2>1, <2>2
  <2> QED
    BY <2>1, <2>2, <2>3
<1>4. ASSUME NEW j \in DOMAIN submitted
      PROVE  /\ j \in Packets
             /\ referenceCount[j] = Held(j, outgoingUnreliable)
                                      + Held(j, sentUnreliable) + Cardinality(Reliables(j))
             /\ j \in freed <=> referenceCount[j] = 0
             /\ referenceCount'[j] = Held(j, outgoingUnreliable')
                                      + Held(j, sentUnreliable') + Cardinality(Reliables(j))
             /\ referenceCount'[j] \in Nat
             /\ j \in freed' <=> referenceCount'[j] = 0
  <2>1. j \in Packets /\ Cardinality(Reliables(j)) \in Nat
        /\ Held(j, outgoingUnreliable) \in Nat /\ Held(j, sentUnreliable) \in Nat
    BY SenderFacts
  <2>2. /\ referenceCount[j] = Held(j, outgoingUnreliable)
                                      + Held(j, sentUnreliable) + Cardinality(Reliables(j))
        /\ j \in freed <=> referenceCount[j] = 0
    BY DEF SenderInv, PacketsHeld, Reliables
  <2>3. referenceCount'[j] = referenceCount[j] - Held(j, cs)
    BY <1>1, <2>1
  <2> DEFINE a == Held(j, outgoingUnreliable)  b == Held(j, sentUnreliable)
             a1 == Held(j, outgoingUnreliable')  b1 == Held(j, sentUnreliable')
             h == Held(j, cs)  r == Cardinality(Reliables(j))
  <2>4. a \in Nat /\ b \in Nat /\ a1 \in Nat /\ b1 \in Nat /\ h \in Nat /\ r \in Nat
        /\ a + b = h + a1 + b1
    BY <1>2, <2>1
  <2>5. referenceCount[j] = a + b + r /\ referenceCount'[j] = referenceCount[j] - h
    BY <2>2, <2>3
  <2>6. j \in freed' <=> j \in freed \/ (h > 0 /\ referenceCount[j] = h)
    BY <1>1, <2>1
  <2> HIDE DEF a, b, a1, b1, h, r
  <2>7. referenceCount'[j] = a1 + b1 + r
    BY <2>4, <2>5
  <2>8. referenceCount'[j] \in Nat
    BY <2>4, <2>7
  <2>9. j \in freed' <=> referenceCount'[j] = 0
    BY <2>2, <2>4, <2>5, <2>6
  <2> QED
    BY <2>1, <2>2, <2>7, <2>8, <2>9 DEF a1, b1, r
<1>5. referenceCount' \in [Packets -> Nat]
  <2>1. ASSUME NEW j \in Packets PROVE referenceCount[j] - Held(j, cs) \in Nat
    <3>1. referenceCount'[j] = referenceCount[j] - Held(j, cs)
      BY <1>1
    <3>2. referenceCount'[j] \in Nat
      BY <1>3, <1>4
    <3> QED
      BY <3>1, <3>2
  <2> QED
    BY <1>1, <2>1
<1>6. freed' \subseteq DOMAIN submitted
  <2>1. freed \subseteq DOMAIN submitted
    BY DEF SenderInv, OnlySubmitted
  <2>2. \A j \in Packets : Held(j, cs) > 0 => j \in DOMAIN submitted
    BY <1>3
  <2> QED
    BY <1>1, <2>1, <2>2
<1>7. PacketsHeld'
  <2>1. ASSUME NEW j \in DOMAIN submitted'
        PROVE  /\ referenceCount'[j] = Held(j, outgoingUnreliable)'
                 + Held(j, sentUnreliable)'
                 + Cardinality({c \in network : c.packet = j /\ c.type \in ReliableTypes})'
               /\ j \in freed' <=> referenceCount'[j] = 0
    <3>1. {c \in network : c.packet = j /\ c.type \in ReliableTypes}' = Reliables(j)
      BY DEF Reliables
    <3>2. /\ Held(j, outgoingUnreliable)' = Held(j, outgoingUnreliable')
          /\ Held(j, sentUnreliable)' = Held(j, sentUnreliable')
      BY DEF Held
    <3> QED
      BY <1>4, <3>1, <3>2
  <2> QED
    BY <2>1 DEF PacketsHeld
<1> QED
  BY <1>3, <1>5, <1>6, <1>7

\* The throttle drops whole packets: the commands of a packet are next to each
\* other and have the same numbers, and none of those it drops is under way.
LEMMA ThrottleStep ==
  ASSUME SenderInv, Throttle
  PROVE  SenderInv'
<1> DEFINE q == outgoingUnreliable
<1>1. PICK m : m = ThrottledWith(q)
  OBVIOUS
<1> DEFINE front == SubSeq(q, 1, m)
           back  == SubSeq(q, m + 1, Len(q))
<1>2. /\ q \in Seq(CommandType) /\ sentUnreliable \in Seq(CommandType)
      /\ Len(q) \in Nat /\ DOMAIN q = 1 .. Len(q)
      /\ network \subseteq CommandType /\ IsFiniteSet(network)
      /\ DOMAIN submitted \subseteq Packets
  BY SenderFacts
<1>3. /\ q # <<>> /\ Head(q).fragment = 0 /\ Release(front) /\ outgoingUnreliable' = back
      /\ UNCHANGED <<submitted, numberVars, sentUnreliable, network>>
  BY <1>1 DEF Throttle
<1>4. /\ m \in 1 .. Len(q)
      /\ \A p \in 1 .. m : OutgoingNumbers(q[p]) = OutgoingNumbers(q[1])
      /\ m < Len(q) => OutgoingNumbers(q[m + 1]) # OutgoingNumbers(q[1])
  BY <1>1, <1>2, <1>3, ThrottledRun
<1>5. m \in 0 .. Len(q) /\ m \in Nat /\ m =< Len(q)
  BY <1>2, <1>4
<1>6. /\ front \in Seq(CommandType) /\ back \in Seq(CommandType)
      /\ Len(front) = m /\ Len(back) = Len(q) - m
      /\ \A p \in 1 .. m : front[p] = q[p]
      /\ \A p \in 1 .. Len(q) - m : back[p] = q[m + p]
      /\ \A j : Held(j, q) = Held(j, front) + Held(j, back)
  <2> HIDE DEF q
  <2>1. /\ front \in Seq(CommandType) /\ Len(front) = m
        /\ \A p \in 1 .. m : front[p] = q[p]
    BY <1>2, <1>5, HeldSplit
  <2>2. back \in Seq(CommandType) /\ Len(back) = Len(q) - m
    BY <1>2, <1>5, HeldSplit
  <2>3. \A p \in 1 .. Len(q) - m : back[p] = q[m + p]
    BY <1>2, <1>5, HeldSplit
  <2>4. ASSUME NEW j PROVE Held(j, q) = Held(j, front) + Held(j, back)
    BY <1>2, <1>5, HeldSplit
  <2> QED
    BY <2>1, <2>2, <2>3, <2>4
<1> HIDE DEF q, front, back
<1>7. DOMAIN front = 1 .. m /\ DOMAIN back = 1 .. Len(q) - m
  BY <1>6, LenProperties
<1>8. QueueInOrder /\ FirstUnderWay /\ OnlySubmitted
  BY DEF SenderInv
<1>9. ASSUME NEW p \in DOMAIN back
      PROVE  m + p \in DOMAIN q /\ back[p] = q[m + p] /\ p \in Nat
  BY <1>2, <1>5, <1>6, <1>7
<1>10. \A p \in DOMAIN front : front[p].packet \in DOMAIN submitted
  <2>1. ASSUME NEW p \in DOMAIN front PROVE front[p].packet \in DOMAIN submitted
    <3>1. p \in DOMAIN q /\ front[p] = q[p]
      BY <1>2, <1>5, <1>6, <1>7
    <3> QED
      BY <1>8, <3>1 DEF OnlySubmitted, q
  <2> QED
    BY <2>1
<1>11. \A j : Held(j, front) \in Nat /\ Held(j, back) \in Nat /\ Held(j, sentUnreliable) \in Nat
  BY <1>2, <1>6, HeldCounts
<1>12. /\ PacketsHeld'
       /\ referenceCount' \in [Packets -> Nat]
       /\ freed' \subseteq DOMAIN submitted
       /\ \A i \in Packets \ DOMAIN submitted : referenceCount'[i] = 0
  <2>1. ASSUME NEW j
        PROVE  /\ Held(j, outgoingUnreliable') \in Nat
               /\ Held(j, sentUnreliable') \in Nat
               /\ Held(j, outgoingUnreliable) + Held(j, sentUnreliable)
                    = Held(j, front) + Held(j, outgoingUnreliable') + Held(j, sentUnreliable')
    <3>1. sentUnreliable' = sentUnreliable
      BY <1>3
    <3>2. Held(j, q) = Held(j, front) + Held(j, back)
      BY <1>6
    <3>3. Held(j, q) + Held(j, sentUnreliable)
            = Held(j, front) + Held(j, back) + Held(j, sentUnreliable)
      BY <1>11, <3>2
    <3> QED
      BY <1>3, <1>11, <3>1, <3>3 DEF q
  <2>2. UNCHANGED <<submitted, network>>
    BY <1>3
  <2> QED
    BY <1>3, <1>6, <1>10, <2>1, <2>2, ReleaseCounts
<1>13. SenderType'
  <2>1. DOMAIN submitted \subseteq Packets
    BY <1>2
  <2> QED
    BY <1>3, <1>6, <1>12, <2>1 DEF SenderInv, SenderType, numberVars
<1>14. OnlySubmitted'
  <2>1. \A p \in DOMAIN back : back[p].packet \in DOMAIN submitted
    BY <1>8, <1>9 DEF OnlySubmitted, q
  <2> QED
    BY <1>3, <1>8, <1>12, <2>1 DEF OnlySubmitted
<1>15. QueueInOrder'
  <2>1. ASSUME NEW p \in DOMAIN back PROVE back[p].type \notin ReliableTypes
    BY <1>8, <1>9 DEF QueueInOrder, q
  <2>2. ASSUME NEW p \in DOMAIN back, NEW r \in DOMAIN back, p < r
        PROVE  \/ back[p].packet < back[r].packet
               \/ /\ back[p].packet = back[r].packet
                  /\ back[p].fragment < back[r].fragment
                  /\ OutgoingNumbers(back[p]) = OutgoingNumbers(back[r])
    <3>1. m + p < m + r
      BY <1>5, <1>9, <2>2
    <3> QED
      BY <1>8, <1>9, <3>1 DEF QueueInOrder, q
  <2> QED
    BY <1>3, <2>1, <2>2 DEF QueueInOrder
<1>16. ASSUME NEW c \in network, NEW p \in DOMAIN q PROVE c.packet # q[p].packet
  <2>1. q[1].fragment = 0
    <3>1. Head(q) = q[1]
      BY DEF Head
    <3> QED
      BY <1>3, <3>1
  <2>2. c.fragment \in Nat
    BY <1>2 DEF CommandType
  <2> QED
    BY <1>8, <2>1, <2>2 DEF FirstUnderWay, q
<1>17. FirstUnderWay'
  BY <1>3, <1>9, <1>16 DEF FirstUnderWay
<1>18. ASSUME NEW j, Held(j, front) > 0 PROVE Held(j, back) = 0
  <2>0. Held(j, front) # 0
    BY <1>18
  <2>1. PICK p \in DOMAIN front : front[p].packet = j
    BY <1>6, <2>0, HeldCounts, ZenonT(30)
  <2>2. p \in DOMAIN q /\ front[p] = q[p] /\ p \in 1 .. m
    BY <1>2, <1>5, <1>6, <1>7
  <2>3. ASSUME NEW r \in DOMAIN back, back[r].packet = j PROVE FALSE
    <3>1. /\ m + r \in DOMAIN q /\ q[m + r].packet = j /\ r >= 1
          /\ m + 1 \in DOMAIN q /\ m < Len(q)
      BY <1>2, <1>5, <1>7, <1>9, <2>3
    <3>2. /\ q[p].packet \in Int /\ q[m + 1].packet \in Int /\ q[m + r].packet \in Int
          /\ q[p].packet = j
      <4>1. q[p] \in CommandType /\ q[m + 1] \in CommandType /\ q[m + r] \in CommandType
        BY <1>2, <2>2, <3>1, ElementOfSeq
      <4> QED
        BY <2>1, <2>2, <4>1 DEF CommandType, Packets
    <3>3. p < m + 1
      BY <1>5, <2>2
    <3>4. q[p].packet =< q[m + 1].packet
      BY <1>8, <2>2, <3>1, <3>2, <3>3 DEF QueueInOrder, q
    <3>5. q[m + 1].packet =< q[m + r].packet
      <4>1. CASE r = 1
        BY <3>2, <4>1
      <4>2. CASE r > 1
        <5>1. m + 1 < m + r
          BY <1>5, <1>9, <4>2
        <5> QED
          BY <1>8, <3>1, <3>2, <5>1 DEF QueueInOrder, q
      <4> QED
        BY <1>9, <3>1, <4>1, <4>2
    <3>6. q[p].packet = q[m + 1].packet
      BY <3>1, <3>2, <3>4, <3>5
    <3>7. OutgoingNumbers(q[p]) = OutgoingNumbers(q[m + 1])
      BY <1>8, <2>2, <3>1, <3>2, <3>3, <3>6 DEF QueueInOrder, q
    <3> QED
      BY <1>4, <2>2, <3>1, <3>7
  <2> QED
    BY <1>6, <2>3, HeldCounts
<1>19. Accounted'
  <2>1. ASSUME NEW j \in DOMAIN submitted'
        PROVE  \/ Held(j, outgoingUnreliable)' + Cardinality(Transmitted(j))'
                      = submitted'[j].fragments
               \/ Held(j, outgoingUnreliable)' = 0 /\ Transmitted(j)' = {}
    <3>1. /\ j \in DOMAIN submitted /\ submitted'[j] = submitted[j]
          /\ Transmitted(j)' = Transmitted(j) /\ Held(j, outgoingUnreliable)' = Held(j, back)
      BY <1>3 DEF Transmitted, Held
    <3>2. \/ Held(j, q) + Cardinality(Transmitted(j)) = submitted[j].fragments
          \/ Held(j, q) = 0 /\ Transmitted(j) = {}
      BY <3>1 DEF SenderInv, Accounted, q
    <3>3. Held(j, q) = Held(j, front) + Held(j, back)
      BY <1>6
    <3>4. CASE Held(j, front) = 0
      <4>1. Held(j, q) = Held(j, back)
        BY <1>11, <3>3, <3>4
      <4> QED
        BY <3>1, <3>2, <4>1
    <3>5. CASE Held(j, front) > 0
      <4>1. Held(j, back) = 0
        BY <1>18, <3>5
      <4>0. Held(j, front) # 0
        BY <3>5
      <4>2. PICK p \in DOMAIN front : front[p].packet = j
        BY <1>6, <4>0, HeldCounts, ZenonT(30)
      <4>3. p \in DOMAIN q /\ q[p].packet = j
        BY <1>2, <1>5, <1>6, <1>7, <4>2
      <4>4. Transmitted(j) = {}
        BY <1>16, <4>3 DEF Transmitted
      <4> QED
        BY <3>1, <4>1, <4>4
    <3>6. Held(j, front) = 0 \/ Held(j, front) > 0
      BY <1>11
    <3> QED
      BY <3>4, <3>5, <3>6
  <2> QED
    BY <2>1 DEF Accounted
<1> QED
  BY <1>12, <1>13, <1>14, <1>15, <1>17, <1>19 DEF SenderInv

\* The datagram was sent: its commands let go of their packets.
LEMMA DatagramSentStep ==
  ASSUME SenderInv, DatagramSent
  PROVE  SenderInv'
<1>1. /\ Release(sentUnreliable) /\ sentUnreliable' = <<>>
      /\ UNCHANGED <<submitted, numberVars, outgoingUnreliable, network>>
  BY DEF DatagramSent
<1>2. /\ outgoingUnreliable \in Seq(CommandType) /\ sentUnreliable \in Seq(CommandType)
      /\ DOMAIN submitted \subseteq Packets
      /\ <<>> \in Seq(CommandType) /\ DOMAIN <<>> = {}
  BY SenderFacts
<1>3. OnlySubmitted
  BY DEF SenderInv
<1>4. /\ PacketsHeld'
      /\ referenceCount' \in [Packets -> Nat]
      /\ freed' \subseteq DOMAIN submitted
      /\ \A i \in Packets \ DOMAIN submitted : referenceCount'[i] = 0
  <2>1. ASSUME NEW j
        PROVE  /\ Held(j, outgoingUnreliable') \in Nat
               /\ Held(j, sentUnreliable') \in Nat
               /\ Held(j, outgoingUnreliable) + Held(j, sentUnreliable)
                    = Held(j, sentUnreliable) + Held(j, outgoingUnreliable')
                        + Held(j, sentUnreliable')
    <3>1. Held(j, sentUnreliable') = 0
      BY <1>1, <1>2, HeldCounts
    <3>2. outgoingUnreliable' = outgoingUnreliable
      BY <1>1
    <3>3. Held(j, outgoingUnreliable) \in Nat /\ Held(j, sentUnreliable) \in Nat
      BY SenderFacts
    <3> QED
      BY <3>1, <3>2, <3>3
  <2>2. UNCHANGED <<submitted, network>>
    BY <1>1
  <2>3. \A p \in DOMAIN sentUnreliable : sentUnreliable[p].packet \in DOMAIN submitted
    BY <1>3 DEF OnlySubmitted
  <2> QED
    BY <1>1, <1>2, <2>1, <2>2, <2>3, ReleaseCounts
<1>5. SenderType'
  BY <1>1, <1>2, <1>4 DEF SenderInv, SenderType, numberVars
<1>6. OnlySubmitted'
  BY <1>1, <1>2, <1>3, <1>4 DEF OnlySubmitted
<1>7. QueueInOrder'
  BY <1>1 DEF SenderInv, QueueInOrder
<1>8. FirstUnderWay'
  BY <1>1 DEF SenderInv, FirstUnderWay
<1>9. Accounted'
  BY <1>1 DEF SenderInv, Accounted, Transmitted
<1> QED
  BY <1>4, <1>5, <1>6, <1>7, <1>8, <1>9 DEF SenderInv

-----------------------------------------------------------------------------
(* The theorems about the sending peer. *)
LEMMA SenderInit ==
  ASSUME Init
  PROVE  SenderInv
<1>1. /\ submitted = <<>> /\ outgoingUnreliable = <<>> /\ sentUnreliable = <<>>
      /\ network = {} /\ freed = {}
      /\ referenceCount = [i \in Packets |-> 0]
      /\ outgoingReliableSequenceNumber \in Nat
      /\ outgoingUnreliableSequenceNumber \in 0 .. UnreliableLimit
      /\ outgoingUnsequencedGroup \in Nat
  BY DeliveryAssumption DEF Init
<1>2. /\ \A S : <<>> \in Seq(S)
      /\ Len(<<>>) = 0 /\ DOMAIN <<>> = {}
  OBVIOUS
<1>3. SenderType
  <2>1. IsFiniteSet({}) /\ MaxPackets \in Nat
    BY FS_EmptySet, DeliveryAssumption
  <2> QED
    BY <1>1, <1>2, <2>1 DEF SenderType
<1>4. OnlySubmitted
  BY <1>1, <1>2 DEF OnlySubmitted
<1>5. QueueInOrder /\ FirstUnderWay /\ Accounted /\ PacketsHeld
  BY <1>1, <1>2 DEF QueueInOrder, FirstUnderWay, Accounted, PacketsHeld
<1> QED
  BY <1>3, <1>4, <1>5 DEF SenderInv

\* What arrives and what the application takes changes nothing of the sender.
LEMMA SenderUnchanged ==
  ASSUME SenderInv, UNCHANGED senderVars
  PROVE  SenderInv'
<1> USE DEF senderVars, numberVars, queueVars
<1>1. SenderType' /\ OnlySubmitted'
  BY DEF SenderInv, SenderType, OnlySubmitted
<1>2. QueueInOrder' /\ FirstUnderWay'
  BY DEF SenderInv, QueueInOrder, FirstUnderWay
<1>3. Accounted' /\ PacketsHeld'
  BY DEF SenderInv, Accounted, PacketsHeld, Transmitted
<1> QED
  BY <1>1, <1>2, <1>3 DEF SenderInv

LEMMA SenderStep ==
  ASSUME SenderInv, [Next]_vars
  PROVE  SenderInv'
<1>1. ASSUME NEW k \in Kinds, Send(k) PROVE SenderInv'
  BY <1>1, SendStep
<1>2. ASSUME NEW c \in network, Handle(c) PROVE SenderInv'
  <2>1. UNCHANGED senderVars
    BY <1>2 DEF Handle, HandleSendReliable, HandleSendUnreliable, HandleSendFragment,
                HandleSendUnreliableFragment, HandleSendUnsequenced
  <2> QED
    BY <2>1, SenderUnchanged
<1>3. CASE Receive
  BY <1>3, SenderUnchanged DEF Receive
<1>4. CASE UNCHANGED vars
  BY <1>4, SenderUnchanged DEF vars
<1> QED
  BY <1>1, <1>2, <1>3, <1>4, SendUnreliableStep, ThrottleStep, DatagramSentStep DEF Next

\* The sending peer's invariant.
THEOREM SenderInvariant == Spec => []SenderInv
<1>1. Init => SenderInv
  BY SenderInit
<1>2. SenderInv /\ [Next]_vars => SenderInv'
  BY SenderStep
<1> QED
  BY <1>1, <1>2, PTL DEF Spec

\* A packet is destroyed exactly when none of its commands is queued or in the
\* datagram any more: never before, and it is never forgotten (peer.cpp:178,
\* protocol.cpp:1347, 172).
THEOREM AlwaysPacketsHeld == Spec => []PacketsHeld
<1>1. SenderInv => PacketsHeld
  BY DEF SenderInv
<1> QED
  BY <1>1, SenderInvariant, PTL

\* The throttle takes whole packets, however many have the same numbers
\* (protocol.cpp:1340).
THEOREM AlwaysWholeOrNothing == Spec => []WholeOrNothing
<1>1. SenderInv => WholeOrNothing
  <2>1. ASSUME SenderInv, NEW i \in DOMAIN submitted, Held(i, outgoingUnreliable) = 0
        PROVE  Transmitted(i) = {} \/ Cardinality(Transmitted(i)) = submitted[i].fragments
    <3>1. Cardinality(Transmitted(i)) \in Nat
      BY <2>1, SenderFacts
    <3>2. \/ 0 + Cardinality(Transmitted(i)) = submitted[i].fragments
          \/ Transmitted(i) = {}
      BY <2>1 DEF SenderInv, Accounted
    <3> QED
      BY <3>1, <3>2
  <2> QED
    BY <2>1 DEF WholeOrNothing, Transmitted
<1> QED
  BY <1>1, SenderInvariant, PTL

-----------------------------------------------------------------------------
(* The data of a list, and the commands at some of its positions. *)

\* The sum that DataLength runs through.
LEMMA DataLengthSum ==
  ASSUME NEW S, NEW s \in Seq(S)
  PROVE  \E f : /\ f[0] = 0
                /\ \A p \in 1 .. Len(s) : f[p] = f[p - 1] + Length(s[p])
                /\ DataLength(s) = f[Len(s)]
<1> DEFINE n == Len(s)
           Sum(m, g) == [p \in 0 .. m |-> IF p = 0 THEN 0 ELSE g[p - 1] + Length(s[p])]
           T == {m \in Nat : \E g : g = Sum(m, g)}
<1>1. n \in Nat
  BY LenProperties
<1>2. 0 \in T
  <2>1. [p \in 0 .. 0 |-> 0] = Sum(0, [p \in 0 .. 0 |-> 0])
    OBVIOUS
  <2> QED
    BY <2>1
<1>3. ASSUME NEW m \in 0 .. n - 1, m \in T PROVE m + 1 \in T
  <2>1. PICK g : g = Sum(m, g)
    BY <1>3
  <2> DEFINE last == g[m] + Length(s[m + 1])
             f == [p \in 0 .. m + 1 |-> IF p =< m THEN g[p] ELSE last]
  <2>2. \A p \in 0 .. m : f[p] = g[p]
    OBVIOUS
  <2>3. f[m + 1] = last
    OBVIOUS
  <2>4. \A p \in 0 .. m : g[p] = IF p = 0 THEN 0 ELSE g[p - 1] + Length(s[p])
    BY <2>1
  <2>5. ASSUME NEW p \in 0 .. m + 1
        PROVE  f[p] = IF p = 0 THEN 0 ELSE f[p - 1] + Length(s[p])
    <3>1. CASE p = m + 1
      <4>1. f[p - 1] = g[m] /\ p # 0
        BY <2>2, <3>1
      <4> QED
        BY <2>3, <3>1, <4>1
    <3>2. CASE p # m + 1
      <4>1. p \in 0 .. m
        BY <3>2
      <4>2. p # 0 => p - 1 \in 0 .. m
        BY <4>1
      <4> QED
        BY <2>2, <2>4, <4>1, <4>2
    <3> QED
      BY <3>1, <3>2
  <2>6. f = [p \in 0 .. m + 1 |-> f[p]]
    OBVIOUS
  <2> HIDE DEF f
  <2>7. f = Sum(m + 1, f)
    BY <2>5, <2>6
  <2> QED
    BY <2>7
<1>4. n \in T
  <2> HIDE DEF T, n
  <2>1. 0 .. n \subseteq T
    BY <1>1, <1>2, <1>3, IntervalInduction
  <2> QED
    BY <1>1, <2>1
<1> DEFINE f == CHOOSE g : g = Sum(n, g)
<1>5. f = Sum(n, f)
  BY <1>4, Zenon
<1>6. DataLength(s) = f[n]
  BY DEF DataLength
<1> HIDE DEF f
<1>7. f[0] = 0
  BY <1>1, <1>5
<1>8. \A p \in 1 .. n : f[p] = f[p - 1] + Length(s[p])
  BY <1>1, <1>5
<1> QED
  BY <1>6, <1>7, <1>8

\* Any such sum is DataLength.
LEMMA DataLengthIs ==
  ASSUME NEW S, NEW s \in Seq(S), NEW g, g[0] = 0,
         \A p \in 1 .. Len(s) : g[p] = g[p - 1] + Length(s[p])
  PROVE  DataLength(s) = g[Len(s)]
<1>1. PICK f : /\ f[0] = 0
               /\ \A p \in 1 .. Len(s) : f[p] = f[p - 1] + Length(s[p])
               /\ DataLength(s) = f[Len(s)]
  BY DataLengthSum
<1> DEFINE T == {p \in 0 .. Len(s) : f[p] = g[p]}
<1>2. Len(s) \in Nat
  BY LenProperties
<1>3. 0 \in T
  BY <1>1, <1>2
<1>4. ASSUME NEW p \in 0 .. Len(s) - 1, p \in T PROVE p + 1 \in T
  <2>1. p + 1 \in 1 .. Len(s) /\ (p + 1) - 1 = p /\ p + 1 \in 0 .. Len(s)
    BY <1>2
  <2>2. f[p + 1] = f[p] + Length(s[p + 1]) /\ g[p + 1] = g[p] + Length(s[p + 1])
    BY <1>1, <2>1
  <2>3. f[p] = g[p]
    BY <1>4
  <2> QED
    BY <2>1, <2>2, <2>3
<1> HIDE DEF T
<1>5. 0 .. Len(s) \subseteq T
  BY <1>2, <1>3, <1>4, IntervalInduction
<1>6. Len(s) \in T
  BY <1>2, <1>5
<1> QED
  BY <1>1, <1>6 DEF T

\* What the lists hold: commands whose data has a length.
Sized(S) == \A e \in S : Length(e) \in Nat

LEMMA DataLengthSums ==
  ASSUME NEW S, Sized(S), NEW s \in Seq(S)
  PROVE  \E f : /\ f[0] = 0
                /\ \A p \in 1 .. Len(s) : f[p] = f[p - 1] + Length(s[p])
                /\ DataLength(s) = f[Len(s)]
                /\ \A p \in 0 .. Len(s) : f[p] \in Nat
                /\ DataLength(s) \in Nat
<1>1. PICK f : /\ f[0] = 0
               /\ \A p \in 1 .. Len(s) : f[p] = f[p - 1] + Length(s[p])
               /\ DataLength(s) = f[Len(s)]
  BY DataLengthSum
<1> DEFINE T == {p \in 0 .. Len(s) : f[p] \in Nat}
<1>2. Len(s) \in Nat
  BY LenProperties
<1>3. 0 \in T
  BY <1>1, <1>2
<1>4. ASSUME NEW p \in 0 .. Len(s) - 1, p \in T PROVE p + 1 \in T
  <2>1. p + 1 \in 1 .. Len(s) /\ (p + 1) - 1 = p /\ p + 1 \in 0 .. Len(s)
    BY <1>2
  <2>2. f[p + 1] = f[p] + Length(s[p + 1])
    BY <1>1, <2>1
  <2>3. Length(s[p + 1]) \in Nat
    BY <2>1, ElementOfSeq DEF Sized
  <2> QED
    BY <1>4, <2>1, <2>2, <2>3
<1> HIDE DEF T
<1>5. 0 .. Len(s) \subseteq T
  BY <1>2, <1>3, <1>4, IntervalInduction
<1>6. \A p \in 0 .. Len(s) : f[p] \in Nat
  BY <1>5 DEF T
<1>7. Len(s) \in 0 .. Len(s)
  BY <1>2
<1> QED
  BY <1>1, <1>6, <1>7

\* Two lists of commands of the same lengths.
LEMMA DataLengthSame ==
  ASSUME NEW S, NEW s \in Seq(S), NEW t \in Seq(S), Len(s) = Len(t),
         \A p \in 1 .. Len(s) : Length(s[p]) = Length(t[p])
  PROVE  DataLength(s) = DataLength(t)
<1>1. PICK f : /\ f[0] = 0
               /\ \A p \in 1 .. Len(s) : f[p] = f[p - 1] + Length(s[p])
               /\ DataLength(s) = f[Len(s)]
  BY DataLengthSum
<1>2. \A p \in 1 .. Len(t) : f[p] = f[p - 1] + Length(t[p])
  BY <1>1
<1>3. DataLength(t) = f[Len(t)]
  BY <1>1, <1>2, DataLengthIs
<1> QED
  BY <1>1, <1>3

LEMMA DataLengthEmpty == DataLength(<<>>) = 0
<1>1. <<>> \in Seq({}) /\ Len(<<>>) = 0
  OBVIOUS
<1> DEFINE s == <<>>
<1> HIDE DEF s
<1>2. PICK f : f[0] = 0 /\ DataLength(s) = f[Len(s)]
  BY <1>1, DataLengthSum DEF s
<1> QED
  BY <1>1, <1>2 DEF s

LEMMA DataLengthAppend ==
  ASSUME NEW S, Sized(S), NEW s \in Seq(S), NEW e \in S
  PROVE  DataLength(Append(s, e)) = DataLength(s) + Length(e)
<1> DEFINE n == Len(s)  t == Append(s, e)
<1>1. PICK f : /\ f[0] = 0
               /\ \A p \in 1 .. n : f[p] = f[p - 1] + Length(s[p])
               /\ DataLength(s) = f[n]
  BY DataLengthSum
<1>2. n \in Nat /\ t \in Seq(S) /\ Len(t) = n + 1 /\ t[n + 1] = e
      /\ \A p \in 1 .. n : t[p] = s[p]
  BY AppendProperties, LenProperties
<1> DEFINE g == [p \in 0 .. n + 1 |-> IF p = n + 1 THEN f[n] + Length(e) ELSE f[p]]
<1> HIDE DEF n, t
<1>3. g[0] = 0
  BY <1>1, <1>2
<1>4. ASSUME NEW p \in 1 .. n + 1 PROVE g[p] = g[p - 1] + Length(t[p])
  <2>1. CASE p = n + 1
    <3>1. p - 1 = n /\ n \in 0 .. n + 1 /\ n # n + 1
      BY <1>2, <2>1
    <3>2. g[p - 1] = f[n] /\ g[p] = f[n] + Length(e)
      BY <2>1, <3>1
    <3> QED
      BY <1>2, <2>1, <3>2
  <2>2. CASE p # n + 1
    <3>1. p \in 1 .. n /\ p - 1 \in 0 .. n + 1 /\ p - 1 # n + 1
      BY <1>2, <2>2
    <3>2. g[p - 1] = f[p - 1] /\ g[p] = f[p]
      BY <2>2, <3>1
    <3> QED
      BY <1>1, <1>2, <3>1, <3>2
  <2> QED
    BY <2>1, <2>2
<1>5. g[n + 1] = f[n] + Length(e)
  BY <1>2
<1> HIDE DEF g
<1>6. DataLength(t) = g[n + 1]
  BY <1>2, <1>3, <1>4, DataLengthIs
<1> QED
  BY <1>1, <1>5, <1>6 DEF n, t

LEMMA DataLengthConcat ==
  ASSUME NEW S, Sized(S), NEW s \in Seq(S), NEW t \in Seq(S)
  PROVE  DataLength(s \o t) = DataLength(s) + DataLength(t)
<1> DEFINE m == Len(s)  n == Len(t)  u == s \o t
<1>1. PICK f : /\ f[0] = 0
               /\ \A p \in 1 .. m : f[p] = f[p - 1] + Length(s[p])
               /\ DataLength(s) = f[m]
               /\ \A p \in 0 .. m : f[p] \in Nat
  BY DataLengthSums
<1>2. PICK g : /\ g[0] = 0
               /\ \A p \in 1 .. n : g[p] = g[p - 1] + Length(t[p])
               /\ DataLength(t) = g[n]
               /\ \A p \in 0 .. n : g[p] \in Nat
  BY DataLengthSums
<1>3. /\ m \in Nat /\ n \in Nat /\ u \in Seq(S) /\ Len(u) = m + n
      /\ \A p \in 1 .. m + n : u[p] = IF p =< m THEN s[p] ELSE t[p - m]
  BY ConcatProperties, LenProperties
<1> DEFINE h == [p \in 0 .. m + n |-> IF p =< m THEN f[p] ELSE f[m] + g[p - m]]
<1>4. ASSUME NEW p \in 1 .. n PROVE Length(t[p]) \in Nat
  BY ElementOfSeq DEF Sized
<1> HIDE DEF m, n, u
<1>5. h[0] = 0
  BY <1>1, <1>3
<1>6. ASSUME NEW p \in 1 .. m + n PROVE h[p] = h[p - 1] + Length(u[p])
  <2>1. CASE p =< m
    <3>1. p \in 1 .. m /\ p - 1 \in 0 .. m + n /\ p - 1 =< m /\ p \in 0 .. m + n
      BY <1>3, <2>1
    <3>2. h[p - 1] = f[p - 1] /\ h[p] = f[p] /\ u[p] = s[p]
      BY <1>3, <2>1, <3>1
    <3> QED
      BY <1>1, <3>1, <3>2
  <2>2. CASE p > m
    <3>1. /\ p - m \in 1 .. n /\ (p - 1) - m = (p - m) - 1 /\ p - m - 1 \in 0 .. n
          /\ p - 1 \in 0 .. m + n /\ p \in 0 .. m + n /\ ~ p =< m
      BY <1>3, <2>2
    <3>2. h[p] = f[m] + g[p - m] /\ u[p] = t[p - m]
      BY <1>3, <3>1
    <3>3. h[p - 1] = f[m] + g[(p - m) - 1]
      <4>1. CASE p = m + 1
        <5>1. p - 1 = m /\ (p - m) - 1 = 0 /\ m =< m /\ m \in 0 .. m
          BY <1>3, <4>1
        <5>2. h[p - 1] = f[m] /\ f[m] \in Nat
          BY <1>1, <3>1, <5>1
        <5> QED
          BY <1>2, <5>1, <5>2
      <4>2. CASE p # m + 1
        <5>1. ~ p - 1 =< m
          BY <1>3, <2>2, <4>2
        <5> QED
          BY <3>1, <5>1
      <4> QED
        BY <4>1, <4>2
    <3>4. g[p - m] = g[(p - m) - 1] + Length(t[p - m]) /\ g[(p - m) - 1] \in Nat
      BY <1>2, <3>1
    <3>5. f[m] \in Nat /\ Length(t[p - m]) \in Nat
      BY <1>1, <1>3, <1>4, <3>1
    <3> QED
      BY <3>2, <3>3, <3>4, <3>5
  <2> QED
    BY <1>3, <2>1, <2>2
<1>7. h[m + n] = f[m] + g[n]
  <2>1. CASE n = 0
    <3>1. h[m + n] = f[m] /\ g[n] = 0 /\ f[m] \in Nat
      BY <1>1, <1>2, <1>3, <2>1
    <3> QED
      BY <3>1
  <2>2. CASE n # 0
    <3>1. ~ m + n =< m /\ (m + n) - m = n /\ m + n \in 0 .. m + n
      BY <1>3, <2>2
    <3>2. h[m + n] = f[m] + g[(m + n) - m]
      BY <3>1
    <3> QED
      BY <3>1, <3>2
  <2> QED
    BY <2>1, <2>2
<1> HIDE DEF h
<1>8. DataLength(u) = h[m + n]
  BY <1>3, <1>5, <1>6, DataLengthIs
<1> QED
  BY <1>1, <1>2, <1>7, <1>8 DEF u

LEMMA DataLengthOne ==
  ASSUME NEW S, Sized(S), NEW e \in S
  PROVE  DataLength(<<e>>) = Length(e)
<1>1. <<>> \in Seq(S) /\ Append(<<>>, e) = <<e>>
  OBVIOUS
<1>2. DataLength(Append(<<>>, e)) = DataLength(<<>>) + Length(e)
  BY <1>1, DataLengthAppend
<1>3. Length(e) \in Nat
  BY DEF Sized
<1> QED
  BY <1>1, <1>2, <1>3, DataLengthEmpty

\* A list without its first command.
LEMMA DataLengthTail ==
  ASSUME NEW S, Sized(S), NEW s \in Seq(S), s # <<>>
  PROVE  /\ DataLength(s) = Length(Head(s)) + DataLength(Tail(s))
         /\ DataLength(Tail(s)) \in Nat /\ Length(Head(s)) \in Nat
<1>1. Head(s) \in S /\ Tail(s) \in Seq(S) /\ s = <<Head(s)>> \o Tail(s)
  BY HeadTailProperties, ConcatProperties
<1> DEFINE h == Head(s)  t == Tail(s)  one == <<h>>
<1>2. one \in Seq(S)
  BY <1>1
<1>3. DataLength(one) = Length(h) /\ Length(h) \in Nat
  BY <1>1, DataLengthOne DEF Sized
<1>4. DataLength(t) \in Nat
  BY <1>1, DataLengthSums
<1> HIDE DEF h, t, one
<1>5. DataLength(one \o t) = DataLength(one) + DataLength(t)
  BY <1>1, <1>2, DataLengthConcat DEF t
<1>6. s = one \o t
  BY <1>1 DEF one, h, t
<1> QED
  BY <1>3, <1>4, <1>5, <1>6 DEF h, t

\* The first m commands of a list and those behind them.
LEMMA DataLengthSplit ==
  ASSUME NEW S, Sized(S), NEW s \in Seq(S), NEW m \in 0 .. Len(s)
  PROVE  /\ DataLength(s) = DataLength(SubSeq(s, 1, m))
                              + DataLength(SubSeq(s, m + 1, Len(s)))
         /\ DataLength(SubSeq(s, 1, m)) \in Nat
         /\ DataLength(SubSeq(s, m + 1, Len(s))) \in Nat
<1> DEFINE front == SubSeq(s, 1, m)  back == SubSeq(s, m + 1, Len(s))
<1>1. front \in Seq(S) /\ Len(front) = m /\ \A p \in 1 .. m : front[p] = s[p]
  BY HeldSplit
<1>2. back \in Seq(S) /\ Len(back) = Len(s) - m
  BY HeldSplit
<1>3. \A p \in 1 .. Len(s) - m : back[p] = s[m + p]
  BY HeldSplit
<1>4. Len(s) \in Nat
  BY LenProperties
<1> HIDE DEF front, back
<1>5. front \o back = s
  <2>1. /\ front \o back \in Seq(S) /\ Len(front \o back) = Len(front) + Len(back)
        /\ \A k \in 1 .. Len(front) + Len(back) :
             (front \o back)[k] = IF k =< Len(front) THEN front[k]
                                 ELSE back[k - Len(front)]
    BY <1>1, <1>2, ConcatProperties
  <2>2. Len(front) + Len(back) = Len(s)
    BY <1>1, <1>2, <1>4
  <2>3. ASSUME NEW k \in 1 .. Len(s) PROVE (front \o back)[k] = s[k]
    <3>1. CASE k =< m
      <4>1. k \in 1 .. m /\ k =< Len(front) /\ k \in 1 .. Len(front) + Len(back)
        BY <1>1, <1>4, <2>2, <3>1
      <4>2. (front \o back)[k] = front[k]
        BY <2>1, <4>1
      <4> QED
        BY <1>1, <4>1, <4>2
    <3>2. CASE ~ k =< m
      <4>1. k \in 1 .. Len(front) + Len(back) /\ ~ k =< Len(front)
        BY <1>1, <2>2, <3>2
      <4>2. k - m \in 1 .. Len(s) - m /\ m + (k - m) = k
        BY <1>4, <3>2
      <4>3. (front \o back)[k] = back[k - m]
        BY <1>1, <2>1, <4>1
      <4>4. back[k - m] = s[m + (k - m)]
        BY <1>3, <4>2
      <4> QED
        BY <4>2, <4>3, <4>4
    <3> QED
      BY <3>1, <3>2
  <2> QED
    BY <2>1, <2>2, <2>3, SeqEqual
<1>6. DataLength(front \o back) = DataLength(front) + DataLength(back)
  BY <1>1, <1>2, DataLengthConcat
<1>7. DataLength(front) \in Nat /\ DataLength(back) \in Nat
  BY <1>1, <1>2, DataLengthSums
<1> QED
  BY <1>5, <1>6, <1>7 DEF front, back

\* A list with one more command somewhere.
LEMMA DataLengthInsert ==
  ASSUME NEW S, Sized(S), NEW s \in Seq(S), NEW p \in 1 .. Len(s) + 1, NEW e \in S
  PROVE  /\ DataLength(InsertAt(s, p, e)) = DataLength(s) + Length(e)
         /\ DataLength(s) \in Nat /\ Length(e) \in Nat
<1> DEFINE m == p - 1
           front == SubSeq(s, 1, m)  back == SubSeq(s, m + 1, Len(s))
           mid == <<e>>  fm == front \o mid
<1>1. Len(s) \in Nat /\ m \in 0 .. Len(s) /\ m + 1 = p
  BY LenProperties
<1>2. front \in Seq(S) /\ back \in Seq(S)
  <2> HIDE DEF m
  <2> QED
    BY <1>1, HeldSplit
<1>3. InsertAt(s, p, e) = fm \o back
  BY <1>1 DEF InsertAt
<1>4. mid \in Seq(S) /\ DataLength(mid) = Length(e) /\ Length(e) \in Nat
  BY DataLengthOne DEF Sized
<1>5. /\ DataLength(s) = DataLength(front) + DataLength(back)
      /\ DataLength(front) \in Nat /\ DataLength(back) \in Nat
  <2> HIDE DEF m
  <2> QED
    BY <1>1, DataLengthSplit
<1> HIDE DEF front, back, mid
<1>6. fm \in Seq(S) /\ DataLength(fm) = DataLength(front) + DataLength(mid)
  BY <1>2, <1>4, ConcatProperties, DataLengthConcat
<1> HIDE DEF fm
<1>7. DataLength(fm \o back) = DataLength(fm) + DataLength(back)
  BY <1>2, <1>6, DataLengthConcat
<1> QED
  BY <1>3, <1>4, <1>5, <1>6, <1>7

\* The turns that At runs through.
LEMMA AtTurns ==
  ASSUME NEW S, NEW s \in Seq(S), NEW P
  PROVE  \E f : /\ f[0] = <<>>
                /\ \A p \in 1 .. Len(s) :
                     f[p] = IF p \in P THEN Append(f[p - 1], s[p]) ELSE f[p - 1]
                /\ At(s, P) = f[Len(s)]
<1> DEFINE n == Len(s)
           Next1(g, p) == IF p \in P THEN Append(g[p - 1], s[p]) ELSE g[p - 1]
           Turns(m, g) == [p \in 0 .. m |-> IF p = 0 THEN <<>>
                                            ELSE IF p \in P THEN Append(g[p - 1], s[p])
                                            ELSE g[p - 1]]
           T == {m \in Nat : \E g : g = Turns(m, g)}
<1>1. n \in Nat
  BY LenProperties
<1>2. 0 \in T
  <2>1. [p \in 0 .. 0 |-> <<>>] = Turns(0, [p \in 0 .. 0 |-> <<>>])
    OBVIOUS
  <2> QED
    BY <2>1
<1>3. ASSUME NEW m \in 0 .. n - 1, m \in T PROVE m + 1 \in T
  <2>1. PICK g : g = Turns(m, g)
    BY <1>3
  <2> DEFINE last == IF m + 1 \in P THEN Append(g[m], s[m + 1]) ELSE g[m]
             f == [p \in 0 .. m + 1 |-> IF p =< m THEN g[p] ELSE last]
  <2>2. \A p \in 0 .. m : f[p] = g[p]
    OBVIOUS
  <2>3. f[m + 1] = last
    OBVIOUS
  <2>4. \A p \in 0 .. m : g[p] = IF p = 0 THEN <<>> ELSE Next1(g, p)
    BY <2>1
  <2>5. ASSUME NEW p \in 0 .. m + 1
        PROVE  f[p] = IF p = 0 THEN <<>> ELSE Next1(f, p)
    <3>1. CASE p = m + 1
      <4>1. f[p - 1] = g[m] /\ p # 0
        BY <2>2, <3>1
      <4> QED
        BY <2>3, <3>1, <4>1
    <3>2. CASE p # m + 1
      <4>1. p \in 0 .. m
        BY <3>2
      <4>2. p # 0 => p - 1 \in 0 .. m
        BY <4>1
      <4> QED
        BY <2>2, <2>4, <4>1, <4>2
    <3> QED
      BY <3>1, <3>2
  <2>6. f = [p \in 0 .. m + 1 |-> f[p]]
    OBVIOUS
  <2> HIDE DEF f
  <2>7. f = Turns(m + 1, f)
    BY <2>5, <2>6
  <2> QED
    BY <2>7
<1>4. n \in T
  <2> HIDE DEF T, n
  <2>1. 0 .. n \subseteq T
    BY <1>1, <1>2, <1>3, IntervalInduction
  <2> QED
    BY <1>1, <2>1
<1> DEFINE f == CHOOSE g : g = Turns(n, g)
<1>5. f = Turns(n, f)
  BY <1>4, Zenon
<1>6. At(s, P) = f[n]
  BY DEF At
<1> HIDE DEF f
<1>7. f[0] = <<>>
  BY <1>1, <1>5
<1>8. ASSUME NEW p \in 1 .. n PROVE f[p] = Next1(f, p)
  <2>1. p \in 0 .. n /\ p # 0
    BY <1>1
  <2>2. f[p] = Turns(n, f)[p]
    BY <1>5, Zenon
  <2> QED
    BY <2>1, <2>2
<1> QED
  BY <1>6, <1>7, <1>8

\* w are the positions in s, in order, of the commands of t, which are those of
\* s at the positions P.
Places(w, t, s, P) ==
  /\ w \in [1 .. Len(t) -> P]
  /\ \A j, k \in 1 .. Len(t) : j < k => w[j] < w[k]
  /\ \A k \in 1 .. Len(t) : t[k] = s[w[k]]
  /\ \A p \in P : \E k \in 1 .. Len(t) : w[k] = p

\* One more position.
LEMMA OnePlaceMore ==
  ASSUME NEW S, NEW s \in Seq(S), NEW t \in Seq(S), NEW w, NEW P, NEW p \in 1 .. Len(s),
         P \subseteq 1 .. p - 1, Places(w, t, s, P)
  PROVE  \E v : Places(v, Append(t, s[p]), s, P \cup {p})
<1> DEFINE n == Len(t)  u == Append(t, s[p])
           v == [k \in 1 .. n + 1 |-> IF k = n + 1 THEN p ELSE w[k]]
<1>1. s[p] \in S /\ Len(s) \in Nat
  BY ElementOfSeq, LenProperties
<1>2. /\ n \in Nat /\ u \in Seq(S) /\ Len(u) = n + 1 /\ u[n + 1] = s[p]
      /\ \A k \in 1 .. n : u[k] = t[k]
  BY <1>1, AppendProperties, LenProperties
<1>3. /\ w \in [1 .. n -> P]
      /\ \A j, k \in 1 .. n : j < k => w[j] < w[k]
      /\ \A k \in 1 .. n : t[k] = s[w[k]]
      /\ \A r \in P : \E k \in 1 .. n : w[k] = r
  BY DEF Places
<1> HIDE DEF n, u
<1>4. ASSUME NEW k \in 1 .. n PROVE v[k] = w[k] /\ w[k] \in P /\ w[k] \in Int /\ w[k] < p /\ k \in 1 .. n + 1
  <2>1. w[k] \in P
    BY <1>3
  <2>2. k \in 1 .. n + 1 /\ k # n + 1
    BY <1>2
  <2>3. v[k] = w[k]
    BY <2>2
  <2>4. w[k] \in 1 .. p - 1
    BY <2>1
  <2>5. w[k] \in Int /\ w[k] < p
    BY <1>1, <2>4
  <2> QED
    BY <2>1, <2>2, <2>3, <2>5
<1>5. v[n + 1] = p /\ n + 1 \in 1 .. n + 1
  BY <1>2
<1> HIDE DEF v
<1>6. \A k \in 1 .. n + 1 : k \in 1 .. n \/ k = n + 1
  BY <1>2
<1>7. v \in [1 .. n + 1 -> P \cup {p}]
  BY <1>4, <1>5, <1>6 DEF v
<1>8. ASSUME NEW j \in 1 .. n + 1, NEW k \in 1 .. n + 1, j < k PROVE v[j] < v[k]
  <2>1. j \in 1 .. n
    BY <1>2, <1>8
  <2>2. CASE k = n + 1
    BY <1>4, <1>5, <2>1, <2>2
  <2>3. CASE k \in 1 .. n
    BY <1>3, <1>4, <1>8, <2>1, <2>3
  <2> QED
    BY <1>6, <2>2, <2>3
<1>9. ASSUME NEW k \in 1 .. n + 1 PROVE u[k] = s[v[k]]
  BY <1>2, <1>3, <1>4, <1>5, <1>6
<1>10. ASSUME NEW r \in P \cup {p} PROVE \E k \in 1 .. n + 1 : v[k] = r
  <2>1. CASE r = p
    BY <1>5, <2>1
  <2>2. CASE r \in P
    BY <1>3, <1>4, <2>2
  <2> QED
    BY <2>1, <2>2
<1>11. Places(v, u, s, P \cup {p})
  BY <1>2, <1>7, <1>8, <1>9, <1>10 DEF Places
<1> QED
  BY <1>11 DEF u

\* At takes from the list what is at the positions, in their order.
LEMMA AtProperties ==
  ASSUME NEW S, NEW s \in Seq(S), NEW P, P \subseteq DOMAIN s
  PROVE  At(s, P) \in Seq(S) /\ \E w : Places(w, At(s, P), s, P)
<1> DEFINE n == Len(s)
<1>1. PICK f : /\ f[0] = <<>>
               /\ \A p \in 1 .. n : f[p] = IF p \in P THEN Append(f[p - 1], s[p]) ELSE f[p - 1]
               /\ At(s, P) = f[n]
  BY AtTurns
<1>2. n \in Nat /\ DOMAIN s = 1 .. n
  BY LenProperties
<1> DEFINE Upto(p) == P \cap (1 .. p)
           T == {p \in 0 .. n : f[p] \in Seq(S) /\ \E w : Places(w, f[p], s, Upto(p))}
<1>3. 0 \in T
  <2>1. Upto(0) = {}
    BY <1>2
  <2>2. Places(<<>>, <<>>, s, {})
    BY DEF Places
  <2> HIDE DEF Upto
  <2>3. \E w : Places(w, f[0], s, Upto(0))
    BY <1>1, <2>1, <2>2
  <2>4. f[0] \in Seq(S) /\ 0 \in 0 .. n
    BY <1>1, <1>2
  <2> QED
    BY <2>3, <2>4
<1>4. ASSUME NEW p \in 0 .. n - 1, p \in T PROVE p + 1 \in T
  <2>1. p + 1 \in 1 .. n /\ (p + 1) - 1 = p /\ p + 1 \in 0 .. n
    BY <1>2
  <2>2. f[p + 1] = IF p + 1 \in P THEN Append(f[p], s[p + 1]) ELSE f[p]
    BY <1>1, <2>1
  <2>3. PICK w : Places(w, f[p], s, Upto(p))
    BY <1>4
  <2>4. f[p] \in Seq(S)
    BY <1>4
  <2>5. CASE p + 1 \in P
    <3>1. Upto(p + 1) = Upto(p) \cup {p + 1} /\ Upto(p) \subseteq 1 .. (p + 1) - 1
      BY <1>2, <2>5
    <3> HIDE DEF Upto
    <3>2. \E v : Places(v, Append(f[p], s[p + 1]), s, Upto(p) \cup {p + 1})
      BY <2>1, <2>3, <2>4, <3>1, OnePlaceMore
    <3>3. Append(f[p], s[p + 1]) \in Seq(S)
      BY <2>1, <2>4, ElementOfSeq, AppendProperties
    <3> QED
      BY <2>1, <2>2, <2>5, <3>1, <3>2, <3>3
  <2>6. CASE p + 1 \notin P
    <3>1. Upto(p + 1) = Upto(p)
      <4>1. \A r : r \in 1 .. p + 1 <=> r \in 1 .. p \/ r = p + 1
        BY <1>2
      <4> QED
        BY <2>6, <4>1
    <3> HIDE DEF Upto
    <3> QED
      BY <2>1, <2>2, <2>3, <2>4, <2>6, <3>1
  <2> QED
    BY <2>5, <2>6
<1>5. n \in T
  <2> HIDE DEF T, n
  <2>1. 0 .. n \subseteq T
    BY <1>2, <1>3, <1>4, IntervalInduction
  <2> QED
    BY <1>2, <2>1
<1>6. Upto(n) = P
  BY <1>2
<1> HIDE DEF Upto
<1> QED
  BY <1>1, <1>5, <1>6

\* It holds what the list holds at these positions.
LEMMA AtHolds ==
  ASSUME NEW S, NEW s \in Seq(S), NEW P, P \subseteq DOMAIN s, NEW R,
         \A p \in P : s[p] \in R
  PROVE  At(s, P) \in Seq(R)
<1>1. PICK w : Places(w, At(s, P), s, P)
  BY AtProperties
<1>2. At(s, P) \in Seq(S)
  BY AtProperties
<1> DEFINE t == At(s, P)
<1> HIDE DEF t
<1>3. \A k \in 1 .. Len(t) : t[k] \in R
  BY <1>1 DEF Places, t
<1>4. Len(t) \in Nat /\ t \in [1 .. Len(t) -> S]
  BY <1>2, LenProperties DEF t
<1>5. t \in [1 .. Len(t) -> R]
  BY <1>3, <1>4
<1> QED
  BY <1>4, <1>5, IsASeq DEF t

\* The data of the commands at two sets of positions.
LEMMA DataLengthUnion ==
  ASSUME NEW S, Sized(S), NEW s \in Seq(S), NEW P, NEW Q, P \cap Q = {}
  PROVE  DataLength(At(s, P \cup Q)) = DataLength(At(s, P)) + DataLength(At(s, Q))
<1> DEFINE n == Len(s)
<1>1. PICK f : /\ f[0] = <<>>
               /\ \A p \in 1 .. n : f[p] = IF p \in P THEN Append(f[p - 1], s[p]) ELSE f[p - 1]
               /\ At(s, P) = f[n]
  BY AtTurns
<1>2. PICK g : /\ g[0] = <<>>
               /\ \A p \in 1 .. n : g[p] = IF p \in Q THEN Append(g[p - 1], s[p]) ELSE g[p - 1]
               /\ At(s, Q) = g[n]
  BY AtTurns
<1>3. PICK h : /\ h[0] = <<>>
               /\ \A p \in 1 .. n :
                    h[p] = IF p \in P \cup Q THEN Append(h[p - 1], s[p]) ELSE h[p - 1]
               /\ At(s, P \cup Q) = h[n]
  BY AtTurns
<1>4. n \in Nat
  BY LenProperties
<1> DEFINE T == {p \in 0 .. n : /\ f[p] \in Seq(S) /\ g[p] \in Seq(S) /\ h[p] \in Seq(S)
                                /\ DataLength(h[p]) = DataLength(f[p]) + DataLength(g[p])}
<1>5. 0 \in T
  <2>1. <<>> \in Seq(S)
    OBVIOUS
  <2>2. f[0] \in Seq(S) /\ g[0] \in Seq(S) /\ h[0] \in Seq(S)
    BY <1>1, <1>2, <1>3, <2>1
  <2>3. DataLength(h[0]) = 0 /\ DataLength(f[0]) = 0 /\ DataLength(g[0]) = 0
    BY <1>1, <1>2, <1>3, DataLengthEmpty
  <2>4. 0 \in 0 .. n
    BY <1>4
  <2> QED
    BY <2>2, <2>3, <2>4
<1>6. ASSUME NEW p \in 0 .. n - 1, p \in T PROVE p + 1 \in T
  <2>1. p + 1 \in 1 .. n /\ (p + 1) - 1 = p /\ p + 1 \in 0 .. n
    BY <1>4
  <2> DEFINE e == s[p + 1]
  <2>2. e \in S /\ Length(e) \in Nat
    BY <2>1, ElementOfSeq DEF Sized
  <2> HIDE DEF e
  <2>3. /\ f[p + 1] = IF p + 1 \in P THEN Append(f[p], e) ELSE f[p]
        /\ g[p + 1] = IF p + 1 \in Q THEN Append(g[p], e) ELSE g[p]
        /\ h[p + 1] = IF p + 1 \in P \cup Q THEN Append(h[p], e) ELSE h[p]
    BY <1>1, <1>2, <1>3, <2>1 DEF e
  <2>4. /\ f[p] \in Seq(S) /\ g[p] \in Seq(S) /\ h[p] \in Seq(S)
        /\ DataLength(h[p]) = DataLength(f[p]) + DataLength(g[p])
    BY <1>6
  <2>5. DataLength(f[p]) \in Nat /\ DataLength(g[p]) \in Nat
    <3>1. ASSUME NEW t \in Seq(S) PROVE DataLength(t) \in Nat
      BY DataLengthSums
    <3> QED
      BY <2>4, <3>1
  <2>6. ASSUME NEW t \in Seq(S)
        PROVE  /\ Append(t, e) \in Seq(S)
               /\ DataLength(Append(t, e)) = DataLength(t) + Length(e)
    BY <2>2, AppendProperties, DataLengthAppend
  <2>7. /\ DataLength(Append(f[p], e)) = DataLength(f[p]) + Length(e)
        /\ DataLength(Append(g[p], e)) = DataLength(g[p]) + Length(e)
        /\ DataLength(Append(h[p], e)) = DataLength(h[p]) + Length(e)
        /\ Append(f[p], e) \in Seq(S)
        /\ Append(g[p], e) \in Seq(S)
        /\ Append(h[p], e) \in Seq(S)
    BY <2>4, <2>6
  <2>8. f[p + 1] \in Seq(S) /\ g[p + 1] \in Seq(S) /\ h[p + 1] \in Seq(S)
    BY <2>3, <2>4, <2>7
  <2>9. DataLength(h[p + 1]) = DataLength(f[p + 1]) + DataLength(g[p + 1])
    <3>1. CASE p + 1 \in P
      <4>1. p + 1 \notin Q
        BY <3>1
      <4>2. f[p + 1] = Append(f[p], e) /\ g[p + 1] = g[p] /\ h[p + 1] = Append(h[p], e)
        BY <2>3, <3>1, <4>1
      <4> QED
        BY <2>2, <2>4, <2>5, <2>7, <4>2
    <3>2. CASE p + 1 \in Q
      <4>1. p + 1 \notin P
        BY <3>2
      <4>2. f[p + 1] = f[p] /\ g[p + 1] = Append(g[p], e) /\ h[p + 1] = Append(h[p], e)
        BY <2>3, <3>2, <4>1
      <4> QED
        BY <2>2, <2>4, <2>5, <2>7, <4>2
    <3>3. CASE p + 1 \notin P \cup Q
      <4>1. f[p + 1] = f[p] /\ g[p + 1] = g[p] /\ h[p + 1] = h[p]
        BY <2>3, <3>3
      <4> QED
        BY <2>4, <4>1
    <3> QED
      BY <3>1, <3>2, <3>3
  <2> QED
    BY <2>1, <2>8, <2>9
<1>7. n \in T
  <2> HIDE DEF T, n
  <2>1. 0 .. n \subseteq T
    BY <1>4, <1>5, <1>6, IntervalInduction
  <2> QED
    BY <1>4, <2>1
<1> QED
  BY <1>1, <1>2, <1>3, <1>7

\* The data of the whole list.
LEMMA DataLengthAll ==
  ASSUME NEW S, Sized(S), NEW s \in Seq(S), NEW P, P = DOMAIN s
  PROVE  DataLength(At(s, P)) = DataLength(s)
<1> DEFINE n == Len(s)
<1>1. PICK f : /\ f[0] = <<>>
               /\ \A p \in 1 .. n : f[p] = IF p \in P THEN Append(f[p - 1], s[p]) ELSE f[p - 1]
               /\ At(s, P) = f[n]
  BY AtTurns
<1>2. PICK g : /\ g[0] = 0
               /\ \A p \in 1 .. n : g[p] = g[p - 1] + Length(s[p])
               /\ DataLength(s) = g[n]
  BY DataLengthSum
<1>3. n \in Nat /\ DOMAIN s = 1 .. n
  BY LenProperties
<1> DEFINE T == {p \in 0 .. n : f[p] \in Seq(S) /\ DataLength(f[p]) = g[p]}
<1>4. 0 \in T
  <2>1. f[0] \in Seq(S) /\ DataLength(f[0]) = g[0]
    BY <1>1, <1>2, DataLengthEmpty
  <2>2. 0 \in 0 .. n
    BY <1>3
  <2> QED
    BY <2>1, <2>2
<1>5. ASSUME NEW p \in 0 .. n - 1, p \in T PROVE p + 1 \in T
  <2>1. p + 1 \in 1 .. n /\ (p + 1) - 1 = p /\ p + 1 \in 0 .. n /\ p + 1 \in P
    BY <1>3
  <2>2. f[p + 1] = Append(f[p], s[p + 1]) /\ g[p + 1] = g[p] + Length(s[p + 1])
    BY <1>1, <1>2, <2>1
  <2>3. f[p] \in Seq(S) /\ DataLength(f[p]) = g[p] /\ s[p + 1] \in S
    BY <1>5, <2>1, ElementOfSeq
  <2>4. Append(f[p], s[p + 1]) \in Seq(S)
    BY <2>3, AppendProperties
  <2>5. DataLength(Append(f[p], s[p + 1])) = DataLength(f[p]) + Length(s[p + 1])
    BY <2>3, DataLengthAppend
  <2> QED
    BY <2>1, <2>2, <2>3, <2>4, <2>5
<1>6. n \in T
  <2> HIDE DEF T, n
  <2>1. 0 .. n \subseteq T
    BY <1>3, <1>4, <1>5, IntervalInduction
  <2> QED
    BY <1>3, <2>1
<1> QED
  BY <1>1, <1>2, <1>6

-----------------------------------------------------------------------------
(* What the dispatch functions do to a channel. *)

AllTypes == ReliableTypes \cup UnreliableTypes \cup {"SEND_UNSEQUENCED"}

\* The commands that wait: a fragment has its place in its packet.
Entry ==
  {e \in [packet : Packets, type : AllTypes, reliable : Nat,
          number : 0 .. UnreliableLimit, count : Nat,
          fragments : SUBSET [fragment : Nat, packet : Packets]] :
     /\ IsFiniteSet(e.fragments)
     /\ \A x \in e.fragments : x.fragment \in 0 .. e.count - 1}
ReliableEntry   == {e \in Entry : e.type \in ReliableTypes}
UnreliableEntry == {e \in Entry : e.type \notin ReliableTypes}

ChannelType ==
  [reliableNumber   : Nat,
   unreliableNumber : 0 .. UnreliableLimit,
   reliable         : Seq(ReliableEntry),
   unreliable       : Seq(UnreliableEntry),
   out              : Seq(Entry),
   dropped          : Nat]

\* All data of a channel: waiting, on its way to the application, or dropped.
DataOf(ch) == DataLength(ch.reliable) + DataLength(ch.unreliable)
                + DataLength(ch.out) + ch.dropped

LEMMA EntriesSized ==
  /\ Sized(Entry) /\ Sized(ReliableEntry) /\ Sized(UnreliableEntry)
  /\ ReliableEntry \subseteq Entry /\ UnreliableEntry \subseteq Entry
<1>1. ReliableEntry \subseteq Entry /\ UnreliableEntry \subseteq Entry
  BY DEF ReliableEntry, UnreliableEntry
<1>2. \A e \in Entry : e.count \in Nat
  BY DEF Entry
<1>3. \A e \in Entry : Length(e) \in Nat
  BY <1>2 DEF Length
<1> QED
  BY <1>1, <1>3 DEF Sized

LEMMA RemainingIsNumber ==
  ASSUME NEW e \in Entry
  PROVE  fragmentsRemaining(e) \in Int
<1>1. e.count \in Nat /\ IsFiniteSet(e.fragments)
  BY DEF Entry
<1>2. Cardinality(e.fragments) \in Nat
  BY <1>1, FS_CardinalityType
<1> QED
  BY <1>1, <1>2 DEF fragmentsRemaining

LEMMA SeqOfMore ==
  ASSUME NEW S, NEW R, S \subseteq R, NEW s \in Seq(S)
  PROVE  s \in Seq(R)
<1>1. Len(s) \in Nat /\ s \in [1 .. Len(s) -> S]
  BY LenProperties
<1>2. s \in [1 .. Len(s) -> R]
  BY <1>1
<1> QED
  BY <1>1, <1>2, IsASeq

LEMMA ChannelLists ==
  ASSUME NEW ch \in ChannelType
  PROVE  /\ ch.reliable \in Seq(ReliableEntry) /\ ch.unreliable \in Seq(UnreliableEntry)
         /\ ch.out \in Seq(Entry)
         /\ DataLength(ch.reliable) \in Nat
         /\ DataLength(ch.unreliable) \in Nat
         /\ DataLength(ch.out) \in Nat
         /\ ch.dropped \in Nat
<1>1. /\ ch.reliable \in Seq(ReliableEntry) /\ ch.unreliable \in Seq(UnreliableEntry)
      /\ ch.out \in Seq(Entry) /\ ch.dropped \in Nat
  BY DEF ChannelType
<1>2. DataLength(ch.reliable) \in Nat
  BY <1>1, EntriesSized, DataLengthSums
<1>3. DataLength(ch.unreliable) \in Nat
  BY <1>1, EntriesSized, DataLengthSums
<1>4. DataLength(ch.out) \in Nat
  BY <1>1, EntriesSized, DataLengthSums
<1> QED
  BY <1>1, <1>2, <1>3, <1>4

\* Where the walk of enet_peer_dispatch_incoming_unreliable_commands ends.
LEMMA WalkEnds ==
  ASSUME NEW S, NEW s \in Seq(S), NEW E \in SUBSET DOMAIN s
  PROVE  LET end == IF E = {} THEN Len(s)
                    ELSE (CHOOSE p \in E : \A r \in E : p =< r) - 1
         IN  /\ end \in 0 .. Len(s)
             /\ \A p \in 1 .. end : p \notin E
             /\ end < Len(s) => end + 1 \in E
<1>1. Len(s) \in Nat /\ DOMAIN s = 1 .. Len(s)
  BY LenProperties
<1>2. CASE E = {}
  BY <1>1, <1>2
<1>3. CASE E # {}
  <2> DEFINE first == CHOOSE p \in E : \A r \in E : p =< r
  <2>1. E \subseteq Nat
    BY <1>1
  <2>2. first \in E /\ \A r \in E : first =< r
    BY <1>3, <2>1, LeastElement
  <2> HIDE DEF first
  <2>3. first \in 1 .. Len(s)
    BY <1>1, <2>2
  <2>4. /\ first - 1 \in 0 .. Len(s) /\ (first - 1) + 1 = first
        /\ \A p \in 1 .. first - 1 : ~ first =< p
    BY <1>1, <2>3
  <2>5. \A p \in 1 .. first - 1 : p \notin E
    BY <2>2, <2>4
  <2> QED
    BY <1>3, <2>2, <2>4, <2>5 DEF first
<1> QED
  BY <1>2, <1>3

\* The unreliable dispatch moves, keeps or drops every command it walks over.
LEMMA DispatchUnreliableKeeps ==
  ASSUME NEW ch \in ChannelType
  PROVE  LET new == DispatchUnreliable(ch) IN
         /\ new \in ChannelType
         /\ DataOf(new) = DataOf(ch)
         /\ new.reliable = ch.reliable
         /\ new.reliableNumber = ch.reliableNumber
<1> DEFINE s == ch.unreliable
           n == ch.reliableNumber
           E == {p \in DOMAIN s : Early(s[p], n)}
           end == IF E = {} THEN Len(s) ELSE (CHOOSE p \in E : \A r \in E : p =< r) - 1
           F == {p \in 1 .. end : Finished(s[p], n)}
           K == {p \in {end - 1, end} \cap DOMAIN s :
                   \A r \in p .. end : Partial(s[r], n)}
           N == {p \in F : s[p].type # "SEND_UNSEQUENCED"}
           rest == end + 1 .. Len(s)
           gone == (1 .. end) \ (F \cup K)
           number == IF N = {} THEN ch.unreliableNumber
                     ELSE s[CHOOSE p \in N : \A r \in N : r =< p].number
           left == At(s, K \cup rest)
           moved == At(s, F)
           lost == DataLength(At(s, gone))
           new == [ch EXCEPT !.unreliable = left, !.unreliableNumber = number,
                             !.out = @ \o moved, !.dropped = @ + lost]
<1>1. DispatchUnreliable(ch) = new
  BY DEF DispatchUnreliable, Kept
<1>2. /\ s \in Seq(UnreliableEntry) /\ ch.out \in Seq(Entry)
      /\ DataLength(ch.reliable) \in Nat /\ DataLength(s) \in Nat
      /\ DataLength(ch.out) \in Nat /\ ch.dropped \in Nat
  BY ChannelLists
<1>3. Len(s) \in Nat /\ DOMAIN s = 1 .. Len(s)
  BY <1>2, LenProperties
<1>4. end \in 0 .. Len(s)
  BY <1>2, WalkEnds
<1> HIDE DEF s, n, end
<1>5. /\ F \subseteq DOMAIN s /\ K \subseteq 1 .. end /\ K \subseteq DOMAIN s
      /\ rest \subseteq DOMAIN s /\ gone \subseteq DOMAIN s
      /\ F \subseteq 1 .. end /\ N \subseteq 1 .. Len(s)
  BY <1>3, <1>4
<1>6. F \cap K = {}
  <2>1. ASSUME NEW p \in F, p \in K PROVE FALSE
    <3>1. Finished(s[p], n)
      OBVIOUS
    <3>2. p \in p .. end
      BY <1>4, <1>5
    <3>3. Partial(s[p], n)
      BY <2>1, <3>2
    <3>4. fragmentsRemaining(s[p]) =< 0 /\ fragmentsRemaining(s[p]) > 0
      BY <3>1, <3>3 DEF Finished, Partial, Current
    <3>5. s[p] \in Entry
      BY <1>2, <1>5, EntriesSized, ElementOfSeq
    <3>6. fragmentsRemaining(s[p]) \in Int
      BY <3>5, RemainingIsNumber
    <3> QED
      BY <3>4, <3>6
  <2> QED
    BY <2>1
<1>7. left \in Seq(UnreliableEntry) /\ moved \in Seq(UnreliableEntry) /\ moved \in Seq(Entry)
  <2> HIDE DEF F, K, rest
  <2>1. K \cup rest \subseteq DOMAIN s
    BY <1>5
  <2>2. left \in Seq(UnreliableEntry)
    BY <1>2, <2>1, AtProperties
  <2>3. moved \in Seq(UnreliableEntry)
    BY <1>2, <1>5, AtProperties
  <2> QED
    BY <2>2, <2>3, EntriesSized, SeqOfMore
<1>8. number \in 0 .. UnreliableLimit
  <2>1. CASE N = {}
    BY <2>1 DEF ChannelType
  <2>2. CASE N # {}
    <3> DEFINE last == CHOOSE p \in N : \A r \in N : r =< p
    <3> HIDE DEF N
    <3>1. last \in N
      BY <1>3, <1>5, <2>2, LastIsGreatest
    <3> HIDE DEF last
    <3>2. s[last] \in UnreliableEntry
      BY <1>2, <1>3, <1>5, <3>1, ElementOfSeq
    <3>3. s[last].number \in 0 .. UnreliableLimit
      BY <3>2 DEF UnreliableEntry, Entry
    <3> QED
      BY <2>2, <3>3 DEF last
  <2> QED
    BY <2>1, <2>2
<1>9. /\ DataLength(s) = DataLength(left) + DataLength(moved) + lost
      /\ DataLength(left) \in Nat /\ DataLength(moved) \in Nat /\ lost \in Nat
  <2>1. /\ K \cap rest = {} /\ F \cap (K \cup rest) = {}
        /\ gone \cap (F \cup (K \cup rest)) = {}
        /\ gone \cup (F \cup (K \cup rest)) = DOMAIN s
    <3>1. \A p \in rest : p \notin 1 .. end
      BY <1>3, <1>4
    <3>2. \A p \in DOMAIN s : p \in 1 .. end \/ p \in rest
      BY <1>3, <1>4
    <3> HIDE DEF F, K, rest
    <3> QED
      BY <1>5, <1>6, <3>1, <3>2
  <2> HIDE DEF F, K, rest, gone
  <2>2. Sized(UnreliableEntry)
    BY EntriesSized
  <2>3. DataLength(At(s, gone \cup (F \cup (K \cup rest)))) = DataLength(s)
    BY <1>2, <2>1, <2>2, DataLengthAll
  <2>4. DataLength(At(s, gone \cup (F \cup (K \cup rest))))
          = DataLength(At(s, gone)) + DataLength(At(s, F \cup (K \cup rest)))
    BY <1>2, <2>1, <2>2, DataLengthUnion
  <2>5. DataLength(At(s, F \cup (K \cup rest))) = DataLength(moved) + DataLength(left)
    BY <1>2, <2>1, <2>2, DataLengthUnion
  <2>6. DataLength(left) \in Nat
    BY <1>7, <2>2, DataLengthSums
  <2>7. DataLength(moved) \in Nat
    BY <1>7, <2>2, DataLengthSums
  <2>8. At(s, gone) \in Seq(UnreliableEntry)
    BY <1>2, <1>5, AtProperties
  <2>9. lost \in Nat
    BY <2>2, <2>8, DataLengthSums
  <2> QED
    BY <2>3, <2>4, <2>5, <2>6, <2>7, <2>9
<1> HIDE DEF left, moved, lost, number, new
<1>10. /\ new.unreliable = left /\ new.unreliableNumber = number
       /\ new.out = ch.out \o moved /\ new.dropped = ch.dropped + lost
       /\ new.reliable = ch.reliable /\ new.reliableNumber = ch.reliableNumber
       /\ new \in ChannelType
  <2>1. ch.out \o moved \in Seq(Entry) /\ ch.dropped + lost \in Nat
    BY <1>2, <1>7, <1>9, ConcatProperties, SMTT(20)
  <2> DEFINE out == ch.out \o moved  dropped == ch.dropped + lost
  <2>2. new = [ch EXCEPT !.unreliable = left, !.unreliableNumber = number,
                         !.out = out, !.dropped = dropped]
    BY DEF new
  <2> HIDE DEF out, dropped
  <2>3. /\ new.unreliable = left /\ new.unreliableNumber = number
        /\ new.out = out /\ new.dropped = dropped
        /\ new.reliable = ch.reliable /\ new.reliableNumber = ch.reliableNumber
        /\ new \in ChannelType
    BY <1>7, <1>8, <2>1, <2>2 DEF ChannelType, out, dropped
  <2> QED
    BY <2>3 DEF out, dropped
<1>11. DataLength(ch.out \o moved) = DataLength(ch.out) + DataLength(moved)
  BY <1>2, <1>7, EntriesSized, DataLengthConcat
<1>12. DataOf(new) = DataOf(ch)
  <2>1. DataOf(new) = DataLength(ch.reliable) + DataLength(left)
                        + (DataLength(ch.out) + DataLength(moved)) + (ch.dropped + lost)
    BY <1>10, <1>11 DEF DataOf
  <2>2. DataOf(ch) = DataLength(ch.reliable) + DataLength(s)
                       + DataLength(ch.out) + ch.dropped
    BY DEF DataOf, s
  <2> QED
    BY <1>2, <1>9, <2>1, <2>2, SMTT(20)
<1> QED
  BY <1>1, <1>10, <1>12

\* The commands at the front of a list that continue the stream: all of them.
LEMMA ReadyIs ==
  ASSUME NEW S, NEW s \in Seq(S), NEW n
  PROVE  /\ Ready(s, n) \in 0 .. Len(s)
         /\ \A p \in 1 .. Ready(s, n) : Continues(s, p, n)
         /\ Ready(s, n) < Len(s) => ~ Continues(s, Ready(s, n) + 1, n)
<1> DEFINE E == {p \in DOMAIN s : ~ Continues(s, p, n)}
           Good(k) == /\ \A p \in 1 .. k : Continues(s, p, n)
                      /\ k < Len(s) => ~ Continues(s, k + 1, n)
           end == IF E = {} THEN Len(s) ELSE (CHOOSE p \in E : \A r \in E : p =< r) - 1
<1>1. Len(s) \in Nat /\ DOMAIN s = 1 .. Len(s)
  BY LenProperties
<1>2. E \in SUBSET DOMAIN s
  OBVIOUS
<1>3. /\ end \in 0 .. Len(s) /\ \A p \in 1 .. end : p \notin E
      /\ end < Len(s) => end + 1 \in E
  <2> HIDE DEF E
  <2> QED
    BY <1>2, WalkEnds
<1> HIDE DEF end
<1>4. Good(end)
  <2>1. \A p \in 1 .. end : p \in DOMAIN s
    BY <1>1, <1>3
  <2> QED
    BY <1>3, <2>1
<1>5. Ready(s, n) = CHOOSE k \in 0 .. Len(s) : Good(k)
  BY DEF Ready
<1> HIDE DEF Good
<1>6. Ready(s, n) \in 0 .. Len(s) /\ Good(Ready(s, n))
  BY <1>3, <1>4, <1>5
<1> QED
  BY <1>6 DEF Good

\* The reliable dispatch moves commands, and what follows it keeps all data.
LEMMA DispatchReliableKeeps ==
  ASSUME NEW ch \in ChannelType
  PROVE  LET new == DispatchReliable(ch)
             k == Ready(ch.reliable, ch.reliableNumber) IN
         /\ new \in ChannelType
         /\ DataOf(new) = DataOf(ch)
         /\ new.reliable = SubSeq(ch.reliable, k + 1, Len(ch.reliable))
<1> DEFINE s == ch.reliable
           k == Ready(s, ch.reliableNumber)
           number == NumberAfter(s, k, ch.reliableNumber)
           front == SubSeq(s, 1, k)
           back == SubSeq(s, k + 1, Len(s))
           out == ch.out \o front
           mid == [ch EXCEPT !.reliableNumber = number, !.unreliableNumber = 0,
                             !.reliable = back, !.out = out]
<1>1. DispatchReliable(ch) = IF k = 0 THEN ch ELSE DispatchUnreliable(mid)
  BY DEF DispatchReliable
<1>2. /\ s \in Seq(ReliableEntry) /\ ch.out \in Seq(Entry)
      /\ DataLength(s) \in Nat /\ DataLength(ch.unreliable) \in Nat
      /\ DataLength(ch.out) \in Nat /\ ch.dropped \in Nat
      /\ ch.reliableNumber \in Nat
  BY ChannelLists DEF ChannelType
<1>3. k \in 0 .. Len(s) /\ Len(s) \in Nat /\ DOMAIN s = 1 .. Len(s)
  BY <1>2, ReadyIs, LenProperties
<1> HIDE DEF k, s
<1>4. /\ front \in Seq(ReliableEntry) /\ back \in Seq(ReliableEntry)
      /\ front \in Seq(Entry)
  BY <1>2, <1>3, HeldSplit, EntriesSized, SeqOfMore
<1>5. /\ DataLength(s) = DataLength(front) + DataLength(back)
      /\ DataLength(front) \in Nat /\ DataLength(back) \in Nat
  BY <1>2, <1>3, EntriesSized, DataLengthSplit
<1> HIDE DEF front, back
<1>6. CASE k = 0
  <2>1. SubSeq(s, 1, Len(s)) = s
    BY <1>2, SubSeqFull
  <2> QED
    BY <1>1, <1>6, <2>1 DEF s, k
<1>7. CASE k # 0
  <2>1. number \in Nat
    <3>1. k \in 1 .. Len(s)
      BY <1>3, <1>7
    <3>2. s[k] \in ReliableEntry
      BY <1>2, <3>1, ElementOfSeq
    <3>3. s[k].reliable \in Nat /\ s[k].count \in Nat
      BY <3>2 DEF ReliableEntry, Entry
    <3> QED
      BY <1>7, <3>3 DEF NumberAfter
  <2>2. out \in Seq(Entry)
    BY <1>2, <1>4, ConcatProperties
  <2>3. 0 \in 0 .. UnreliableLimit
    BY DeliveryAssumption
  <2>4. DataLength(out) = DataLength(ch.out) + DataLength(front)
    BY <1>2, <1>4, EntriesSized, DataLengthConcat
  <2> HIDE DEF number, out
  <2>5. /\ mid \in ChannelType /\ mid.reliable = back /\ mid.out = out
        /\ mid.unreliable = ch.unreliable /\ mid.dropped = ch.dropped
    BY <1>4, <2>1, <2>2, <2>3 DEF ChannelType
  <2> HIDE DEF mid
  <2>6. DataOf(mid) = DataOf(ch)
    <3>1. DataOf(mid) = DataLength(back) + DataLength(ch.unreliable)
                          + (DataLength(ch.out) + DataLength(front)) + ch.dropped
      BY <2>4, <2>5 DEF DataOf
    <3>2. DataOf(ch) = DataLength(s) + DataLength(ch.unreliable)
                         + DataLength(ch.out) + ch.dropped
      BY DEF DataOf, s
    <3> QED
      BY <1>2, <1>5, <3>1, <3>2
  <2>7. /\ DispatchUnreliable(mid) \in ChannelType
        /\ DataOf(DispatchUnreliable(mid)) = DataOf(mid)
        /\ DispatchUnreliable(mid).reliable = mid.reliable
    BY <2>5, DispatchUnreliableKeeps
  <2> QED
    BY <1>1, <1>7, <2>5, <2>6, <2>7 DEF back, s, k
<1> QED
  BY <1>6, <1>7

\* What enet_peer_queue_incoming_command does to a list.
LEMMA InsertedKeeps ==
  ASSUME NEW S, Sized(S), NEW s \in Seq(S), NEW e \in S
  PROVE  LET p == LastNotAfter(s, e) IN
         /\ p \in 0 .. Len(s)
         /\ Inserted(s, e) \in Seq(S)
         /\ Len(Inserted(s, e)) = Len(s) + 1
         /\ \A k \in 1 .. Len(s) + 1 :
              Inserted(s, e)[k] = IF k =< p THEN s[k] ELSE IF k = p + 1 THEN e ELSE s[k - 1]
         /\ DataLength(Inserted(s, e)) = DataLength(s) + Length(e)
         /\ DataLength(s) \in Nat /\ Length(e) \in Nat
<1> DEFINE n == Wire(incomingReliableSequenceNumber)
           P == {r \in DOMAIN s : NotAfter(s[r], e, n)}
           p == LastNotAfter(s, e)
<1>1. Len(s) \in Nat /\ DOMAIN s = 1 .. Len(s)
  BY LenProperties
<1>2. p = IF P = {} THEN 0 ELSE CHOOSE r \in P : \A q \in P : q =< r
  BY DEF LastNotAfter
<1>3. P \subseteq 1 .. Len(s)
  BY <1>1
<1> HIDE DEF P, p
<1>4. p \in 0 .. Len(s)
  <2>1. CASE P = {}
    BY <1>1, <1>2, <2>1
  <2>2. CASE P # {}
    <3>1. p \in P
      BY <1>1, <1>2, <1>3, <2>2, LastIsGreatest
    <3> QED
      BY <1>1, <1>3, <3>1
  <2> QED
    BY <2>1, <2>2
<1>5. p + 1 \in 1 .. Len(s) + 1 /\ p \in Nat
  BY <1>1, <1>4
<1>6. Inserted(s, e) = InsertAt(s, p + 1, e)
  BY DEF Inserted, p
<1>7. /\ Inserted(s, e) \in Seq(S)
      /\ Len(Inserted(s, e)) = Len(s) + 1
      /\ \A k \in 1 .. Len(s) + 1 :
           Inserted(s, e)[k] = IF k < p + 1 THEN s[k] ELSE IF k = p + 1 THEN e ELSE s[k - 1]
  <2>1. PICK q : q = p + 1
    OBVIOUS
  <2>2. q \in 1 .. Len(s) + 1 /\ Inserted(s, e) = InsertAt(s, q, e)
    BY <1>5, <1>6, <2>1
  <2>3. /\ InsertAt(s, q, e) \in Seq(S)
        /\ Len(InsertAt(s, q, e)) = Len(s) + 1
        /\ \A k \in 1 .. Len(s) + 1 :
             InsertAt(s, q, e)[k] = IF k < q THEN s[k] ELSE IF k = q THEN e ELSE s[k - 1]
    BY <2>2, InsertAtProperties, SMTT(20)
  <2> QED
    BY <2>1, <2>2, <2>3
<1>8. /\ DataLength(Inserted(s, e)) = DataLength(s) + Length(e)
      /\ DataLength(s) \in Nat /\ Length(e) \in Nat
  BY <1>5, <1>6, DataLengthInsert
<1>9. \A k \in 1 .. Len(s) + 1 : k < p + 1 <=> k =< p
  BY <1>1, <1>5
<1> QED
  BY <1>4, <1>7, <1>8, <1>9 DEF p

\* A command that gets a fragment stays a command of its kind and length.
LEMMA MarkedKeeps ==
  ASSUME NEW e \in Entry, NEW c \in CommandType,
         c.fragment \in 0 .. e.count - 1
  PROVE  /\ Marked(e, c) \in Entry
         /\ Length(Marked(e, c)) = Length(e)
         /\ Marked(e, c).type = e.type
<1> DEFINE x == [fragment |-> c.fragment, packet |-> c.packet]
           fs == e.fragments \cup {x}
<1>1. c.packet \in Packets /\ c.fragment \in Nat
  BY DEF CommandType
<1>2. x \in [fragment : Nat, packet : Packets] /\ x.fragment \in 0 .. e.count - 1
  BY <1>1
<1>3. /\ e.fragments \subseteq [fragment : Nat, packet : Packets]
      /\ IsFiniteSet(e.fragments)
      /\ \A y \in e.fragments : y.fragment \in 0 .. e.count - 1
  BY DEF Entry
<1> HIDE DEF x
<1>4. /\ fs \subseteq [fragment : Nat, packet : Packets]
      /\ IsFiniteSet(fs)
      /\ \A y \in fs : y.fragment \in 0 .. e.count - 1
  BY <1>2, <1>3, FS_AddElement
<1>5. Marked(e, c) = [e EXCEPT !.fragments = fs]
  BY DEF Marked, x
<1> HIDE DEF fs
<1>6. e \in [packet : Packets, type : AllTypes, reliable : Nat,
             number : 0 .. UnreliableLimit, count : Nat,
             fragments : SUBSET [fragment : Nat, packet : Packets]]
  BY DEF Entry
<1>7. /\ Marked(e, c).fragments = fs /\ Marked(e, c).count = e.count
      /\ Marked(e, c).type = e.type
      /\ Marked(e, c) \in [packet : Packets, type : AllTypes, reliable : Nat,
             number : 0 .. UnreliableLimit, count : Nat,
             fragments : SUBSET [fragment : Nat, packet : Packets]]
  BY <1>4, <1>5, <1>6
<1>8. Marked(e, c) \in Entry
  BY <1>4, <1>7 DEF Entry
<1> QED
  BY <1>7, <1>8 DEF Length

\* A list of which one command gets a fragment.
LEMMA MarkedList ==
  ASSUME NEW S, Sized(S), NEW s \in Seq(S), NEW p \in DOMAIN s, NEW m \in S,
         Length(m) = Length(s[p])
  PROVE  /\ [s EXCEPT ![p] = m] \in Seq(S)
         /\ DataLength([s EXCEPT ![p] = m]) = DataLength(s)
<1> DEFINE t == [s EXCEPT ![p] = m]
<1>1. Len(s) \in Nat /\ DOMAIN s = 1 .. Len(s) /\ s \in [1 .. Len(s) -> S]
  BY LenProperties
<1>2. t \in Seq(S) /\ Len(t) = Len(s)
  BY <1>1, ExceptSeq
<1>3. \A k \in 1 .. Len(s) : Length(s[k]) = Length(t[k])
  BY <1>1
<1> HIDE DEF t
<1>4. DataLength(s) = DataLength(t)
  BY <1>2, <1>3, DataLengthSame
<1> QED
  BY <1>2, <1>4 DEF t

-----------------------------------------------------------------------------
(* The commands that may arrive. *)

\* The numbers and fragments that a handler may rely on.
Fits(c) ==
  /\ c.type \in UnreliableTypes => c.number =< UnreliableLimit
  /\ c.type \in FragmentTypes => c.fragment < c.count
  /\ c.type = "SEND_UNRELIABLE_FRAGMENT" => c.count > 1
  /\ \E l \in Kinds : c.count =< l.fragments

CommandsFit ==
  /\ \A c \in network : Fits(c)
  /\ \A p \in DOMAIN outgoingUnreliable : Fits(outgoingUnreliable[p])

\* Unreliable numbers end where the code makes a packet reliable, and fragments
\* are numbered from 0.
LEMMA CommandsForFit ==
  ASSUME SenderType, NEW k \in Kinds, NEW i \in Packets
  PROVE  LET cs == CommandsFor(i, k) IN \A p \in DOMAIN cs : Fits(cs[p])
<1> DEFINE cs == CommandsFor(i, k)
           n == k.fragments
           t == TypeFor(k)
           r0 == outgoingReliableSequenceNumber
           u0 == outgoingUnreliableSequenceNumber + 1
           g0 == outgoingUnsequencedGroup + 1
<1>1. n \in Nat /\ n >= 1
  BY KindsHaveFragments
<1>2. t \in {"SEND_UNRELIABLE_FRAGMENT", "SEND_FRAGMENT", "SEND_UNSEQUENCED",
             "SEND_RELIABLE", "SEND_UNRELIABLE"}
  BY DEF TypeFor
<1>3. t \in UnreliableTypes => u0 =< UnreliableLimit
  <2>1. t \in UnreliableTypes => outgoingUnreliableSequenceNumber < UnreliableLimit
    BY CommandsForPacket
  <2>2. outgoingUnreliableSequenceNumber \in Int /\ UnreliableLimit \in Int
    BY DeliveryAssumption DEF SenderType
  <2> QED
    BY <2>1, <2>2
<1>4. CASE t = "SEND_UNRELIABLE_FRAGMENT"
  <2>1. cs = [f \in 1 .. n |-> Command(i, t, r0, u0, f - 1, n)]
    BY <1>4 DEF CommandsFor
  <2>2. t \in UnreliableTypes
    BY <1>4 DEF UnreliableTypes
  <2> HIDE DEF cs, n, t, r0, u0
  <2>3. ASSUME NEW p \in 1 .. n
        PROVE  cs[p].number = u0 /\ cs[p].fragment = p - 1 /\ cs[p].count = n
    BY <2>1 DEF Command
  <2>4. ASSUME NEW p \in 1 .. n PROVE Fits(cs[p])
    <3>1. cs[p].count =< k.fragments
      BY <1>1, <2>3 DEF n
    <3>2. n > 1
      BY <1>1, <1>4 DEF n, t, TypeFor
    <3> QED
      BY <1>1, <1>3, <2>2, <2>3, <3>1, <3>2 DEF Fits
  <2> QED
    BY <2>1, <2>4 DEF cs
<1>5. CASE t = "SEND_FRAGMENT"
  <2>1. cs = [f \in 1 .. n |-> Command(i, t, r0 + f, r0 + 1, f - 1, n)]
    BY <1>5 DEF CommandsFor
  <2>2. t \notin UnreliableTypes /\ t # "SEND_UNRELIABLE_FRAGMENT"
    BY <1>5 DEF UnreliableTypes
  <2> HIDE DEF cs, n, t, r0, u0
  <2>3. ASSUME NEW p \in 1 .. n
        PROVE  cs[p].type = t /\ cs[p].fragment = p - 1 /\ cs[p].count = n
    BY <2>1 DEF Command
  <2>4. ASSUME NEW p \in 1 .. n PROVE Fits(cs[p])
    <3>1. cs[p].count =< k.fragments
      BY <1>1, <2>3 DEF n
    <3> QED
      BY <1>1, <2>2, <2>3, <3>1 DEF Fits
  <2> QED
    BY <2>1, <2>4 DEF cs
<1>6. CASE t \in {"SEND_UNSEQUENCED", "SEND_RELIABLE", "SEND_UNRELIABLE"}
  <2>1. /\ t \notin FragmentTypes /\ (t # "SEND_UNRELIABLE" => t \notin UnreliableTypes)
        /\ t # "SEND_UNRELIABLE_FRAGMENT"
    BY <1>6 DEF FragmentTypes, UnreliableTypes
  <2>2. \E c : cs = <<c>> /\ c.type = t /\ (t = "SEND_UNRELIABLE" => c.number = u0)
          /\ c.count = 0
    <3>1. CASE t = "SEND_UNSEQUENCED"
      <4>1. cs = <<Command(i, t, 0, g0, 0, 0)>>
        BY <3>1 DEF CommandsFor
      <4> HIDE DEF cs, t, u0, g0
      <4> QED
        BY <3>1, <4>1 DEF Command
    <3>2. CASE t = "SEND_RELIABLE"
      <4>1. cs = <<Command(i, t, r0 + 1, 0, 0, 0)>>
        BY <3>2 DEF CommandsFor
      <4> HIDE DEF cs, t, u0, r0
      <4> QED
        BY <3>2, <4>1 DEF Command
    <3>3. CASE t = "SEND_UNRELIABLE"
      <4>1. cs = <<Command(i, t, r0, u0, 0, 0)>>
        BY <3>3 DEF CommandsFor
      <4> HIDE DEF cs, t, u0, r0
      <4> QED
        BY <3>3, <4>1 DEF Command
    <3> QED
      BY <1>6, <3>1, <3>2, <3>3
  <2>5. PICK c : cs = <<c>> /\ c.type = t /\ (t = "SEND_UNRELIABLE" => c.number = u0)
          /\ c.count = 0
    BY <2>2
  <2> HIDE DEF cs, t, u0
  <2>6. c.count =< k.fragments
    BY <1>1, <2>5 DEF n
  <2>3. Fits(c)
    BY <1>3, <2>1, <2>5, <2>6 DEF Fits
  <2>4. DOMAIN cs = {1} /\ cs[1] = c
    BY <2>5
  <2> QED
    BY <2>3, <2>4 DEF cs
<1> QED
  BY <1>2, <1>4, <1>5, <1>6

LEMMA FitInit ==
  ASSUME Init
  PROVE  CommandsFit
<1>1. network = {} /\ outgoingUnreliable = <<>>
  BY DEF Init
<1> QED
  BY <1>1 DEF CommandsFit

LEMMA FitStep ==
  ASSUME SenderInv, CommandsFit, [Next]_vars
  PROVE  CommandsFit'
<1> DEFINE q == outgoingUnreliable
<1>1. /\ q \in Seq(CommandType) /\ Len(q) \in Nat /\ DOMAIN q = 1 .. Len(q)
      /\ \A c \in network : Fits(c)
      /\ \A p \in DOMAIN q : Fits(q[p])
  BY SenderFacts DEF CommandsFit
<1>2. ASSUME NEW k \in Kinds, Send(k) PROVE CommandsFit'
  <2> DEFINE i == Len(submitted) + 1
             cs == CommandsFor(i, k)
  <2>1. i \in Packets
    BY <1>2 DEF Send
  <2>2. cs \in Seq(CommandType) /\ \A p \in DOMAIN cs : Fits(cs[p])
    BY <2>1, CommandsForPacket, CommandsForFit DEF SenderInv
  <2>3. \/ network' = network \cup ToSet(cs) /\ outgoingUnreliable' = q
        \/ network' = network /\ outgoingUnreliable' = q \o cs
    <3> HIDE DEF cs
    <3>1. TypeFor(k) \in ReliableTypes => SetupReliable(cs)
      <4>1. TypeFor(k) \in ReliableTypes => TypeFor(k) \notin UnreliableTypes
        BY DEF ReliableTypes, UnreliableTypes
      <4> QED
        BY <1>2, <4>1 DEF Send, cs
    <3>2. TypeFor(k) \in UnreliableTypes => SetupUnreliable(cs)
      <4>1. TypeFor(k) \in UnreliableTypes => TypeFor(k) \notin ReliableTypes
        BY DEF ReliableTypes, UnreliableTypes
      <4> QED
        BY <1>2, <4>1 DEF Send, cs
    <3>3. TypeFor(k) \notin ReliableTypes \cup UnreliableTypes => SetupUnsequenced(cs)
      BY <1>2 DEF Send, cs
    <3> QED
      BY <3>1, <3>2, <3>3 DEF SetupReliable, SetupUnreliable, SetupUnsequenced
  <2> HIDE DEF cs, q
  <2>4. CASE network' = network \cup ToSet(cs) /\ outgoingUnreliable' = q
    <3>1. \A c \in ToSet(cs) : Fits(c)
      BY <2>2 DEF ToSet
    <3> QED
      BY <1>1, <2>4, <3>1 DEF CommandsFit
  <2>5. CASE network' = network /\ outgoingUnreliable' = q \o cs
    <3>1. /\ Len(q \o cs) = Len(q) + Len(cs) /\ q \o cs \in Seq(CommandType)
          /\ \A p \in 1 .. Len(q) + Len(cs) :
               (q \o cs)[p] = IF p =< Len(q) THEN q[p] ELSE cs[p - Len(q)]
      BY <1>1, <2>2, ConcatProperties
    <3>2. DOMAIN (q \o cs) = 1 .. Len(q) + Len(cs) /\ Len(cs) \in Nat /\ DOMAIN cs = 1 .. Len(cs)
      BY <2>2, <3>1, LenProperties
    <3>3. ASSUME NEW p \in DOMAIN (q \o cs) PROVE Fits((q \o cs)[p])
      <4>1. CASE p =< Len(q)
        <5>1. p \in DOMAIN q /\ (q \o cs)[p] = q[p]
          BY <1>1, <3>1, <3>2, <4>1
        <5> QED
          BY <1>1, <5>1
      <4>2. CASE ~ p =< Len(q)
        <5>1. p - Len(q) \in DOMAIN cs /\ (q \o cs)[p] = cs[p - Len(q)]
          BY <1>1, <3>1, <3>2, <4>2
        <5> QED
          BY <2>2, <5>1
      <4> QED
        BY <4>1, <4>2
    <3> QED
      BY <1>1, <2>5, <3>3 DEF CommandsFit
  <2> QED
    BY <2>3, <2>4, <2>5
<1>3. CASE SendUnreliable
  <2>1. /\ q # <<>> /\ network' = network \cup {Head(q)} /\ outgoingUnreliable' = Tail(q)
    BY <1>3 DEF SendUnreliable
  <2>2. /\ Head(q) = q[1] /\ 1 \in DOMAIN q /\ DOMAIN Tail(q) = 1 .. Len(q) - 1
        /\ \A p \in 1 .. Len(q) - 1 : Tail(q)[p] = q[p + 1] /\ p + 1 \in DOMAIN q
    BY <1>1, <2>1, HeadTailProperties, EmptySeq, LenProperties
  <2> QED
    BY <1>1, <2>1, <2>2 DEF CommandsFit
<1>4. CASE Throttle
  <2> DEFINE m == ThrottledWith(q)
  <2>1. /\ q # <<>> /\ network' = network
        /\ outgoingUnreliable' = SubSeq(q, m + 1, Len(q))
    BY <1>4 DEF Throttle
  <2>2. m \in 0 .. Len(q)
    BY <1>1, <2>1, ThrottledRun
  <2> HIDE DEF m, q
  <2>3. Len(SubSeq(q, m + 1, Len(q))) = Len(q) - m /\ SubSeq(q, m + 1, Len(q)) \in Seq(CommandType)
    BY <1>1, <2>2, HeldSplit
  <2>4. \A p \in 1 .. Len(q) - m : SubSeq(q, m + 1, Len(q))[p] = q[m + p]
    BY <1>1, <2>2, HeldSplit
  <2> DEFINE t == SubSeq(q, m + 1, Len(q))
  <2> HIDE DEF t
  <2>5. DOMAIN t = 1 .. Len(q) - m /\ \A p \in 1 .. Len(q) - m : t[p] = q[m + p]
    BY <2>3, <2>4, LenProperties DEF t
  <2>6. ASSUME NEW p \in DOMAIN t PROVE Fits(t[p])
    <3>1. m + p \in DOMAIN q /\ t[p] = q[m + p]
      BY <1>1, <2>2, <2>5
    <3> QED
      BY <1>1, <3>1
  <2> QED
    BY <1>1, <2>1, <2>6 DEF CommandsFit, t
<1>5. CASE UNCHANGED <<network, outgoingUnreliable>>
  BY <1>1, <1>5 DEF CommandsFit
<1>6. ASSUME NEW c \in network, Handle(c) PROVE UNCHANGED <<network, outgoingUnreliable>>
  BY <1>6 DEF Handle, HandleSendReliable, HandleSendUnreliable, HandleSendFragment,
              HandleSendUnreliableFragment, HandleSendUnsequenced, senderVars, queueVars
<1>7. DatagramSent \/ Receive \/ UNCHANGED vars => UNCHANGED <<network, outgoingUnreliable>>
  BY DEF DatagramSent, Receive, vars, senderVars, queueVars
<1> QED
  BY <1>2, <1>3, <1>4, <1>5, <1>6, <1>7 DEF Next

-----------------------------------------------------------------------------
(* The receiving peer. *)

\* What enet_peer_queue_incoming_command makes of a command is typed, and has
\* no fragment yet.
LEMMA IncomingIsEntry ==
  ASSUME NEW c \in CommandType, Fits(c)
  PROVE  /\ Incoming(c) \in Entry
         /\ Incoming(c).type = c.type /\ Incoming(c).count = c.count
         /\ Incoming(c).fragments = {} /\ Incoming(c).packet = c.packet
<1> DEFINE r == IF c.type = "SEND_FRAGMENT" THEN c.number ELSE c.reliable
           n == IF c.type \in UnreliableTypes THEN c.number ELSE 0
<1>1. /\ c.packet \in Packets /\ c.type \in AllTypes /\ c.number \in Nat
      /\ c.reliable \in Nat /\ c.count \in Nat
  BY DEF CommandType, AllTypes
<1>2. r \in Nat
  BY <1>1
<1>3. n \in 0 .. UnreliableLimit
  BY <1>1, DeliveryAssumption DEF Fits
<1>4. Incoming(c) = [packet |-> c.packet, type |-> c.type, reliable |-> r,
                     number |-> n, count |-> c.count, fragments |-> {}]
  BY DEF Incoming
<1> HIDE DEF r, n
<1>5. IsFiniteSet({})
  BY FS_EmptySet
<1> QED
  BY <1>1, <1>2, <1>3, <1>4, <1>5 DEF Entry

\* The types of the receiving peer's state.
ReceiverType ==
  /\ incomingReliableSequenceNumber \in Nat
  /\ incomingUnreliableSequenceNumber \in 0 .. UnreliableLimit
  /\ incomingReliable \in Seq(ReliableEntry)
  /\ incomingUnreliable \in Seq(UnreliableEntry)
  /\ dispatched \in Seq(Entry)
  /\ incomingUnsequencedGroup \in Nat
  /\ unsequencedWindow \subseteq 0 .. UNSEQUENCED_WINDOW_SIZE - 1
  /\ totalWaitingData \in Nat
  /\ droppedData \in Nat
  /\ delivered \in Seq(Packets)

ReceiverInv == ReceiverType /\ CommandsFit /\ WaitingDataCounted

\* The state of the unsequenced window.
GroupType ==
  /\ incomingUnsequencedGroup \in Nat
  /\ unsequencedWindow \subseteq 0 .. UNSEQUENCED_WINDOW_SIZE - 1

LEMMA ChannelTyped ==
  ASSUME ReceiverInv
  PROVE  /\ Channel \in ChannelType
         /\ DataOf(Channel) + DataLength(dispatched) + droppedData = totalWaitingData
         /\ DataLength(dispatched) \in Nat
         /\ DataLength(incomingReliable) \in Nat
         /\ DataLength(incomingUnreliable) \in Nat
         /\ DataOf(Channel) = DataLength(incomingReliable) + DataLength(incomingUnreliable)
<1>1. /\ incomingReliable \in Seq(ReliableEntry)
      /\ incomingUnreliable \in Seq(UnreliableEntry)
      /\ dispatched \in Seq(Entry) /\ droppedData \in Nat
      /\ incomingReliableSequenceNumber \in Nat
      /\ incomingUnreliableSequenceNumber \in 0 .. UnreliableLimit
  BY DEF ReceiverInv, ReceiverType
<1>2. DataLength(incomingReliable) \in Nat
  BY <1>1, EntriesSized, DataLengthSums
<1>3. DataLength(incomingUnreliable) \in Nat
  BY <1>1, EntriesSized, DataLengthSums
<1>4. DataLength(dispatched) \in Nat
  BY <1>1, EntriesSized, DataLengthSums
<1>5. Channel \in ChannelType
  BY <1>1 DEF Channel, ChannelType
<1>6. DataOf(Channel) = DataLength(incomingReliable) + DataLength(incomingUnreliable)
                          + DataLength(<<>>) + 0
  BY DEF Channel, DataOf
<1>7. DataOf(Channel) = DataLength(incomingReliable) + DataLength(incomingUnreliable)
  BY <1>2, <1>3, <1>6, DataLengthEmpty
<1>8. totalWaitingData = DataLength(incomingReliable) + DataLength(incomingUnreliable)
                           + DataLength(dispatched) + droppedData
  BY DEF ReceiverInv, WaitingDataCounted, WaitingData
<1> QED
  BY <1>2, <1>3, <1>4, <1>5, <1>7, <1>8

\* A handler that counts the data it adds to the channel keeps the invariant.
LEMMA Received ==
  ASSUME ReceiverInv, CommandsFit', GroupType',
         NEW ch \in ChannelType, NEW d \in Nat,
         DataOf(ch) = DataOf(Channel) + d,
         Becomes(ch),
         totalWaitingData' = totalWaitingData + d,
         delivered' = delivered
  PROVE  ReceiverInv'
<1>1. /\ incomingReliableSequenceNumber' = ch.reliableNumber
      /\ incomingUnreliableSequenceNumber' = ch.unreliableNumber
      /\ incomingReliable' = ch.reliable /\ incomingUnreliable' = ch.unreliable
      /\ dispatched' = dispatched \o ch.out
      /\ droppedData' = droppedData + ch.dropped
  BY DEF Becomes
<1>2. /\ ch.reliable \in Seq(ReliableEntry) /\ ch.unreliable \in Seq(UnreliableEntry)
      /\ ch.out \in Seq(Entry) /\ ch.dropped \in Nat
      /\ DataLength(ch.reliable) \in Nat /\ DataLength(ch.unreliable) \in Nat
      /\ DataLength(ch.out) \in Nat
  BY ChannelLists
<1>3. /\ dispatched \in Seq(Entry) /\ droppedData \in Nat /\ totalWaitingData \in Nat
      /\ delivered \in Seq(Packets)
  BY DEF ReceiverInv, ReceiverType
<1>4. /\ DataOf(Channel) + DataLength(dispatched) + droppedData = totalWaitingData
      /\ DataLength(dispatched) \in Nat
  BY ChannelTyped
<1>5. dispatched \o ch.out \in Seq(Entry)
  BY <1>2, <1>3, ConcatProperties
<1>6. DataLength(dispatched \o ch.out) = DataLength(dispatched) + DataLength(ch.out)
  BY <1>2, <1>3, EntriesSized, DataLengthConcat
<1>7. ch.reliableNumber \in Nat /\ ch.unreliableNumber \in 0 .. UnreliableLimit
  BY DEF ChannelType
<1>8. ReceiverType'
  BY <1>1, <1>2, <1>3, <1>5, <1>7, SMTT(20) DEF ReceiverType, GroupType
<1>9. WaitingDataCounted'
  <2>1. WaitingDataCounted' =
          (totalWaitingData' = DataLength(incomingReliable') + DataLength(incomingUnreliable')
                                 + DataLength(dispatched') + droppedData')
    BY DEF WaitingDataCounted, WaitingData
  <2>2. DataLength(dispatched') = DataLength(dispatched) + DataLength(ch.out)
    BY <1>1, <1>6
  <2>3. /\ DataLength(incomingReliable') = DataLength(ch.reliable)
        /\ DataLength(incomingUnreliable') = DataLength(ch.unreliable)
    BY <1>1
  <2>4. DataOf(Channel) + d = DataLength(ch.reliable) + DataLength(ch.unreliable)
                                + DataLength(ch.out) + ch.dropped
    BY DEF DataOf
  <2>5. DataOf(Channel) \in Int
    BY ChannelTyped
  <2> DEFINE old == DataOf(Channel)  rel == DataLength(ch.reliable)
             unrel == DataLength(ch.unreliable)  moved == DataLength(ch.out)
             before == DataLength(dispatched)
  <2>8. old + d = rel + unrel + moved + ch.dropped
    BY <2>4
  <2>9. old + before + droppedData = totalWaitingData
    BY <1>4
  <2>10. /\ old \in Int /\ rel \in Nat /\ unrel \in Nat /\ moved \in Nat /\ before \in Nat
         /\ ch.dropped \in Nat /\ droppedData \in Nat /\ totalWaitingData \in Nat
    BY <1>2, <1>3, <1>4, <2>5
  <2> HIDE DEF old, rel, unrel, moved, before
  <2>11. totalWaitingData + d = rel + unrel + (before + moved) + (droppedData + ch.dropped)
    BY <2>8, <2>9, <2>10
  <2>6. totalWaitingData' = DataLength(ch.reliable) + DataLength(ch.unreliable)
                 + (DataLength(dispatched) + DataLength(ch.out)) + (droppedData + ch.dropped)
    BY <2>11 DEF rel, unrel, moved, before
  <2>7. totalWaitingData' = DataLength(incomingReliable') + DataLength(incomingUnreliable')
                                 + DataLength(dispatched') + droppedData'
    BY <1>1, <2>2, <2>3, <2>6
  <2> QED
    BY <2>1, <2>7
<1> QED
  BY <1>8, <1>9 DEF ReceiverInv

\* A channel with another reliable or unreliable list.
LEMMA OtherReliable ==
  ASSUME NEW ch \in ChannelType, NEW s \in Seq(ReliableEntry), NEW d \in Nat,
         DataLength(s) = DataLength(ch.reliable) + d
  PROVE  LET new == [ch EXCEPT !.reliable = s] IN
         /\ new \in ChannelType /\ DataOf(new) = DataOf(ch) + d
         /\ new.reliable = s /\ new.reliableNumber = ch.reliableNumber
<1> DEFINE new == [ch EXCEPT !.reliable = s]
<1>1. /\ new \in ChannelType /\ new.reliable = s /\ new.unreliable = ch.unreliable
      /\ new.out = ch.out /\ new.dropped = ch.dropped
      /\ new.reliableNumber = ch.reliableNumber
  BY DEF ChannelType
<1> HIDE DEF new
<1>2. DataOf(new) = DataOf(ch) + d
  BY <1>1, ChannelLists DEF DataOf
<1> QED
  BY <1>1, <1>2 DEF new

LEMMA OtherUnreliable ==
  ASSUME NEW ch \in ChannelType, NEW s \in Seq(UnreliableEntry), NEW d \in Nat,
         DataLength(s) = DataLength(ch.unreliable) + d
  PROVE  LET new == [ch EXCEPT !.unreliable = s] IN
         /\ new \in ChannelType /\ DataOf(new) = DataOf(ch) + d
         /\ new.unreliable = s
<1> DEFINE new == [ch EXCEPT !.unreliable = s]
<1>1. /\ new \in ChannelType /\ new.unreliable = s /\ new.reliable = ch.reliable
      /\ new.out = ch.out /\ new.dropped = ch.dropped
  BY DEF ChannelType
<1> HIDE DEF new
<1>2. DataOf(new) = DataOf(ch) + d
  BY <1>1, ChannelLists DEF DataOf
<1> QED
  BY <1>1, <1>2 DEF new

\* A fragment that is copied into its packet changes no length.
LEMMA ReliableFragmentKeeps ==
  ASSUME NEW ch \in ChannelType, NEW p \in DOMAIN ch.reliable, NEW c \in CommandType,
         c.fragment \in 0 .. ch.reliable[p].count - 1
  PROVE  LET new == WithReliableFragment(ch, p, c) IN
         new \in ChannelType /\ DataOf(new) = DataOf(ch)
<1> DEFINE e == ch.reliable[p]
           m == Marked(e, c)
           s == [ch.reliable EXCEPT ![p] = m]
           marked == [ch EXCEPT !.reliable[p] = Marked(@, c)]
<1>1. ch.reliable \in Seq(ReliableEntry) /\ DataLength(ch.reliable) \in Nat
  BY ChannelLists
<1>2. e \in ReliableEntry
  BY <1>1, ElementOfSeq, LenProperties
<1>3. e \in Entry /\ e.type \in ReliableTypes
  BY <1>2 DEF ReliableEntry
<1>4. marked = [ch EXCEPT !.reliable = s]
  OBVIOUS
<1> HIDE DEF e
<1>5. m \in Entry /\ Length(m) = Length(e) /\ m.type = e.type
  BY <1>3, MarkedKeeps DEF e
<1> HIDE DEF m
<1>6. m \in ReliableEntry
  BY <1>3, <1>5 DEF ReliableEntry
<1>7. s \in Seq(ReliableEntry) /\ DataLength(s) = DataLength(ch.reliable)
  BY <1>1, <1>5, <1>6, EntriesSized, MarkedList DEF e
<1> HIDE DEF s
<1>8. /\ [ch EXCEPT !.reliable = s] \in ChannelType
      /\ DataOf([ch EXCEPT !.reliable = s]) = DataOf(ch) + 0
  <2>1. DataLength(s) = DataLength(ch.reliable) + 0 /\ 0 \in Nat
    BY <1>1, <1>7
  <2> DEFINE d == 0
  <2> HIDE DEF d
  <2>2. DataLength(s) = DataLength(ch.reliable) + d /\ d \in Nat
    BY <2>1 DEF d
  <2>3. /\ [ch EXCEPT !.reliable = s] \in ChannelType
        /\ DataOf([ch EXCEPT !.reliable = s]) = DataOf(ch) + d
    BY <1>7, <2>2, OtherReliable
  <2> QED
    BY <2>3 DEF d
<1>9. DataOf(ch) \in Nat
  BY ChannelLists DEF DataOf
<1> HIDE DEF marked
<1>10. marked \in ChannelType /\ DataOf(marked) = DataOf(ch)
  BY <1>4, <1>8, <1>9
<1>11. /\ DispatchReliable(marked) \in ChannelType
       /\ DataOf(DispatchReliable(marked)) = DataOf(marked)
  BY <1>10, DispatchReliableKeeps
<1>12. \/ WithReliableFragment(ch, p, c) = DispatchReliable(marked)
       \/ WithReliableFragment(ch, p, c) = marked
  BY DEF WithReliableFragment, marked
<1> QED
  BY <1>10, <1>11, <1>12

LEMMA UnreliableFragmentKeeps ==
  ASSUME NEW ch \in ChannelType, NEW p \in DOMAIN ch.unreliable, NEW c \in CommandType,
         c.fragment \in 0 .. ch.unreliable[p].count - 1
  PROVE  LET new == WithUnreliableFragment(ch, p, c) IN
         new \in ChannelType /\ DataOf(new) = DataOf(ch)
<1> DEFINE e == ch.unreliable[p]
           m == Marked(e, c)
           s == [ch.unreliable EXCEPT ![p] = m]
           marked == [ch EXCEPT !.unreliable[p] = Marked(@, c)]
<1>1. ch.unreliable \in Seq(UnreliableEntry) /\ DataLength(ch.unreliable) \in Nat
  BY ChannelLists
<1>2. e \in UnreliableEntry
  BY <1>1, ElementOfSeq, LenProperties
<1>3. e \in Entry /\ e.type \notin ReliableTypes
  BY <1>2 DEF UnreliableEntry
<1>4. marked = [ch EXCEPT !.unreliable = s]
  OBVIOUS
<1> HIDE DEF e
<1>5. m \in Entry /\ Length(m) = Length(e) /\ m.type = e.type
  BY <1>3, MarkedKeeps DEF e
<1> HIDE DEF m
<1>6. m \in UnreliableEntry
  BY <1>3, <1>5 DEF UnreliableEntry
<1>7. s \in Seq(UnreliableEntry) /\ DataLength(s) = DataLength(ch.unreliable)
  BY <1>1, <1>5, <1>6, EntriesSized, MarkedList DEF e
<1> HIDE DEF s
<1>8. /\ [ch EXCEPT !.unreliable = s] \in ChannelType
      /\ DataOf([ch EXCEPT !.unreliable = s]) = DataOf(ch) + 0
  <2>1. DataLength(s) = DataLength(ch.unreliable) + 0 /\ 0 \in Nat
    BY <1>1, <1>7
  <2> DEFINE d == 0
  <2> HIDE DEF d
  <2>2. DataLength(s) = DataLength(ch.unreliable) + d /\ d \in Nat
    BY <2>1 DEF d
  <2>3. /\ [ch EXCEPT !.unreliable = s] \in ChannelType
        /\ DataOf([ch EXCEPT !.unreliable = s]) = DataOf(ch) + d
    BY <1>7, <2>2, OtherUnreliable
  <2> QED
    BY <2>3 DEF d
<1>9. DataOf(ch) \in Nat
  BY ChannelLists DEF DataOf
<1> HIDE DEF marked
<1>10. marked \in ChannelType /\ DataOf(marked) = DataOf(ch)
  BY <1>4, <1>8, <1>9
<1>11. /\ DispatchUnreliable(marked) \in ChannelType
       /\ DataOf(DispatchUnreliable(marked)) = DataOf(marked)
  BY <1>10, DispatchUnreliableKeeps
<1>12. \/ WithUnreliableFragment(ch, p, c) = DispatchUnreliable(marked)
       \/ WithUnreliableFragment(ch, p, c) = marked
  BY DEF WithUnreliableFragment, marked
<1> QED
  BY <1>10, <1>11, <1>12

\* A new reliable command, and what the dispatch makes of it.
LEMMA ReliableArrives ==
  ASSUME ReceiverInv, NEW e \in ReliableEntry
  PROVE  LET mid == [Channel EXCEPT !.reliable = Inserted(@, e)] IN
         /\ mid \in ChannelType
         /\ DataOf(mid) = DataOf(Channel) + Length(e)
         /\ mid.reliable = Inserted(incomingReliable, e)
<1>1. Channel \in ChannelType /\ Channel.reliable = incomingReliable
  BY ChannelTyped DEF Channel
<1>2. incomingReliable \in Seq(ReliableEntry)
  BY DEF ReceiverInv, ReceiverType
<1> DEFINE s == Inserted(incomingReliable, e)
           ch == Channel
           d == Length(e)
<1>3. /\ s \in Seq(ReliableEntry) /\ DataLength(s) = DataLength(incomingReliable) + d
      /\ d \in Nat
  BY <1>2, EntriesSized, InsertedKeeps
<1>4. [Channel EXCEPT !.reliable = Inserted(@, e)] = [ch EXCEPT !.reliable = s]
  BY <1>1
<1>5. ch \in ChannelType /\ ch.reliable = incomingReliable
  BY <1>1
<1> HIDE DEF s, ch, d
<1>6. /\ [ch EXCEPT !.reliable = s] \in ChannelType
      /\ DataOf([ch EXCEPT !.reliable = s]) = DataOf(ch) + d
      /\ [ch EXCEPT !.reliable = s].reliable = s
  BY <1>3, <1>5, OtherReliable
<1> QED
  BY <1>4, <1>6 DEF ch, d, s

LEMMA UnreliableArrives ==
  ASSUME ReceiverInv, NEW e \in UnreliableEntry,
         NEW s \in {Inserted(incomingUnreliable, e), <<e>> \o incomingUnreliable}
  PROVE  LET mid == [Channel EXCEPT !.unreliable = s] IN
         /\ mid \in ChannelType
         /\ DataOf(mid) = DataOf(Channel) + Length(e)
         /\ mid.unreliable = s
<1>1. Channel \in ChannelType /\ Channel.unreliable = incomingUnreliable
  BY ChannelTyped DEF Channel
<1>2. incomingUnreliable \in Seq(UnreliableEntry)
  BY DEF ReceiverInv, ReceiverType
<1> DEFINE ch == Channel
           d == Length(e)
<1>3. /\ s \in Seq(UnreliableEntry) /\ DataLength(s) = DataLength(incomingUnreliable) + d
      /\ d \in Nat
  <2>1. CASE s = Inserted(incomingUnreliable, e)
    BY <1>2, <2>1, EntriesSized, InsertedKeeps
  <2>2. CASE s = <<e>> \o incomingUnreliable
    <3> DEFINE one == <<e>>
    <3>1. one \in Seq(UnreliableEntry)
      OBVIOUS
    <3>2. DataLength(one) = d /\ d \in Nat
      BY EntriesSized, DataLengthOne DEF Sized
    <3>3. s = one \o incomingUnreliable
      BY <2>2
    <3> HIDE DEF one, d
    <3>4. s \in Seq(UnreliableEntry)
      BY <1>2, <3>1, <3>3, ConcatProperties
    <3>5. DataLength(one \o incomingUnreliable)
            = DataLength(one) + DataLength(incomingUnreliable)
      BY <1>2, <3>1, EntriesSized, DataLengthConcat
    <3>6. DataLength(incomingUnreliable) \in Nat
      BY ChannelTyped
    <3> QED
      BY <3>2, <3>3, <3>4, <3>5, <3>6
  <2> QED
    BY <2>1, <2>2
<1>5. ch \in ChannelType /\ ch.unreliable = incomingUnreliable
  BY <1>1
<1> HIDE DEF ch, d
<1>6. /\ [ch EXCEPT !.unreliable = s] \in ChannelType
      /\ DataOf([ch EXCEPT !.unreliable = s]) = DataOf(ch) + d
      /\ [ch EXCEPT !.unreliable = s].unreliable = s
  BY <1>3, <1>5, OtherUnreliable
<1> QED
  BY <1>6 DEF ch, d

\* What every handler may rely on.
LEMMA HandlerFacts ==
  ASSUME SenderInv, ReceiverInv, NEW c \in network
  PROVE  /\ c \in CommandType /\ Fits(c)
         /\ Incoming(c) \in Entry /\ Incoming(c).count = c.count
         /\ Incoming(c).type = c.type /\ Incoming(c).fragments = {}
         /\ Length(Incoming(c)) \in Nat
         /\ c.type \in ReliableTypes => Incoming(c) \in ReliableEntry
         /\ c.type \notin ReliableTypes => Incoming(c) \in UnreliableEntry
         /\ GroupType /\ CommandsFit
<1>1. c \in CommandType
  BY DEF SenderInv, SenderType
<1>2. Fits(c) /\ CommandsFit
  BY DEF ReceiverInv, CommandsFit
<1>3. /\ Incoming(c) \in Entry /\ Incoming(c).count = c.count
      /\ Incoming(c).type = c.type /\ Incoming(c).fragments = {}
  BY <1>1, <1>2, IncomingIsEntry
<1>4. Length(Incoming(c)) \in Nat
  BY <1>3, EntriesSized DEF Sized
<1>5. GroupType
  BY DEF ReceiverInv, ReceiverType, GroupType
<1> QED
  BY <1>1, <1>2, <1>3, <1>4, <1>5 DEF ReliableEntry, UnreliableEntry

\* The handlers leave what the network may deliver, and mostly the window of
\* the unsequenced packets, alone.
LEMMA GroupKept ==
  ASSUME SenderInv, ReceiverInv, UNCHANGED senderVars
  PROVE  CommandsFit' /\ (UNCHANGED groupVars => GroupType')
<1>1. UNCHANGED <<network, outgoingUnreliable>>
  BY DEF senderVars, queueVars
<1>2. CommandsFit /\ GroupType
  BY DEF ReceiverInv, ReceiverType, GroupType
<1> QED
  BY <1>1, <1>2 DEF CommandsFit, GroupType, groupVars

LEMMA HandleSendReliableStep ==
  ASSUME SenderInv, ReceiverInv, NEW c \in network, HandleSendReliable(c)
  PROVE  ReceiverInv'
<1> DEFINE e == Incoming(c)
           mid == [Channel EXCEPT !.reliable = Inserted(@, e)]
           new == DispatchReliable(mid)
           d == Length(e)
<1>1. /\ c.type = "SEND_RELIABLE" /\ totalWaitingData' = totalWaitingData + d
      /\ Becomes(new) /\ UNCHANGED senderVars /\ UNCHANGED groupVars
      /\ delivered' = delivered
  BY DEF HandleSendReliable, Count
<1>2. e \in ReliableEntry /\ d \in Nat
  BY <1>1, HandlerFacts DEF ReliableTypes
<1> HIDE DEF e
<1>3. mid \in ChannelType /\ DataOf(mid) = DataOf(Channel) + d
  BY <1>2, ReliableArrives
<1> HIDE DEF mid, d
<1>4. new \in ChannelType /\ DataOf(new) = DataOf(mid)
  BY <1>3, DispatchReliableKeeps
<1>5. CommandsFit' /\ GroupType'
  BY <1>1, GroupKept
<1> HIDE DEF new
<1> QED
  BY <1>1, <1>2, <1>3, <1>4, <1>5, Received

LEMMA HandleSendUnreliableStep ==
  ASSUME SenderInv, ReceiverInv, NEW c \in network, HandleSendUnreliable(c)
  PROVE  ReceiverInv'
<1> DEFINE e == Incoming(c)
           s == Inserted(incomingUnreliable, e)
           mid == [Channel EXCEPT !.unreliable = s]
           new == DispatchUnreliable(mid)
           d == Length(e)
<1>0. Channel.unreliable = incomingUnreliable
  BY DEF Channel
<1>6. [Channel EXCEPT !.unreliable = Inserted(@, e)] = mid
  BY <1>0
<1>1. /\ c.type = "SEND_UNRELIABLE" /\ totalWaitingData' = totalWaitingData + d
      /\ Becomes(new) /\ UNCHANGED senderVars /\ UNCHANGED groupVars
      /\ delivered' = delivered
  BY <1>6 DEF HandleSendUnreliable, Count
<1>2. e \in UnreliableEntry /\ d \in Nat
  BY <1>1, HandlerFacts DEF ReliableTypes
<1> HIDE DEF e
<1>7. s \in {Inserted(incomingUnreliable, e), <<e>> \o incomingUnreliable}
  OBVIOUS
<1> HIDE DEF s
<1>3. mid \in ChannelType /\ DataOf(mid) = DataOf(Channel) + d
  BY <1>2, <1>7, UnreliableArrives
<1> HIDE DEF mid, d
<1>4. new \in ChannelType /\ DataOf(new) = DataOf(mid)
  BY <1>3, DispatchUnreliableKeeps
<1>5. CommandsFit' /\ GroupType'
  BY <1>1, GroupKept
<1> HIDE DEF new
<1> QED
  BY <1>1, <1>2, <1>3, <1>4, <1>5, Received

\* A command found in a list is one of it.
LEMMA TwinIsThere ==
  ASSUME NEW S, NEW s \in Seq(S), Sized(S), NEW e \in S, HasTwin(s, e)
  PROVE  TwinOf(s, e) \in DOMAIN s
<1> DEFINE p == LastNotAfter(s, e)
<1>1. p # 0 /\ TwinOf(s, e) = p
  BY DEF HasTwin, TwinOf
<1>2. p \in 0 .. Len(s)
  BY InsertedKeeps
<1> HIDE DEF p
<1>3. p \in 1 .. Len(s)
  BY <1>1, <1>2, LenProperties
<1> QED
  BY <1>1, <1>3, LenProperties

\* A fragment that completes a waiting packet has a place in it.
LEMMA FragmentHasPlace ==
  ASSUME SenderInv, ReceiverInv, NEW c \in network, c.type \in FragmentTypes,
         NEW e, e.count = c.count
  PROVE  c.fragment \in 0 .. e.count - 1
<1>1. c \in CommandType /\ Fits(c)
  BY HandlerFacts
<1>2. c.fragment \in Nat /\ c.count \in Nat /\ c.fragment < c.count
  BY <1>1 DEF CommandType, Fits
<1> QED
  BY <1>2

\* A new fragmented packet is still in its list after the dispatch: it has no
\* fragment yet.
LEMMA NewPacketStays ==
  ASSUME SenderInv, ReceiverInv, NEW c \in network, c.type = "SEND_FRAGMENT"
  PROVE  LET e == Incoming(c)
             ch == DispatchReliable([Channel EXCEPT !.reliable = Inserted(@, e)])
         IN  \E r \in DOMAIN ch.reliable : ch.reliable[r] = e
<1> DEFINE e == Incoming(c)
           mid == [Channel EXCEPT !.reliable = Inserted(@, e)]
           s == Inserted(incomingReliable, e)
           n == mid.reliableNumber
           k == Ready(s, n)
           new == DispatchReliable(mid)
           at == LastNotAfter(incomingReliable, e) + 1
<1>1. e \in ReliableEntry /\ e.count = c.count /\ e.fragments = {}
  BY HandlerFacts DEF ReliableTypes
<1>2. fragmentsRemaining(e) > 0
  <2>1. c.fragment \in 0 .. e.count - 1
    BY <1>1, FragmentHasPlace DEF FragmentTypes
  <2>2. Cardinality(e.fragments) = 0 /\ e.count \in Nat
    BY <1>1, FS_EmptySet DEF ReliableEntry, Entry
  <2> HIDE DEF e
  <2> QED
    BY <2>1, <2>2 DEF fragmentsRemaining
<1> HIDE DEF e
<1>3. incomingReliable \in Seq(ReliableEntry)
  BY DEF ReceiverInv, ReceiverType
<1>4. /\ s \in Seq(ReliableEntry) /\ Len(s) = Len(incomingReliable) + 1
      /\ LastNotAfter(incomingReliable, e) \in 0 .. Len(incomingReliable)
      /\ \A j \in 1 .. Len(incomingReliable) + 1 :
           s[j] = IF j =< LastNotAfter(incomingReliable, e) THEN incomingReliable[j]
                  ELSE IF j = LastNotAfter(incomingReliable, e) + 1 THEN e
                  ELSE incomingReliable[j - 1]
  BY <1>1, <1>3, EntriesSized, InsertedKeeps
<1>5. at \in 1 .. Len(s) /\ s[at] = e
  <2> DEFINE p == LastNotAfter(incomingReliable, e)
  <2>1. /\ Len(incomingReliable) \in Nat /\ p \in 0 .. Len(incomingReliable)
        /\ at = p + 1
    BY <1>3, <1>4, LenProperties
  <2>2. \A j \in 1 .. Len(incomingReliable) + 1 :
           s[j] = IF j =< p THEN incomingReliable[j]
                  ELSE IF j = p + 1 THEN e ELSE incomingReliable[j - 1]
    BY <1>4
  <2> HIDE DEF p, s, at
  <2>3. at \in 1 .. Len(incomingReliable) + 1 /\ ~ at =< p /\ at = p + 1
    BY <2>1
  <2> QED
    BY <1>4, <2>2, <2>3
<1> HIDE DEF at
<1>6. mid \in ChannelType /\ mid.reliable = s
  BY <1>1, ReliableArrives
<1> HIDE DEF mid, s, n
<1>7. /\ k \in 0 .. Len(s) /\ \A p \in 1 .. k : Continues(s, p, n)
      /\ Len(s) \in Nat
  BY <1>4, ReadyIs, LenProperties
<1>8. ~ Continues(s, at, n)
  <2>1. fragmentsRemaining(e) \in Int
    BY <1>1, RemainingIsNumber DEF ReliableEntry
  <2> QED
    BY <1>2, <1>5, <2>1 DEF Continues
<1>9. new.reliable = SubSeq(s, k + 1, Len(s))
  BY <1>6, DispatchReliableKeeps DEF n
<1> HIDE DEF new, k
<1>10. at - k \in 1 .. Len(s) - k /\ k + (at - k) = at
  <2>1. at \notin 1 .. k
    BY <1>7, <1>8
  <2> QED
    BY <1>5, <1>7, <2>1
<1> DEFINE back == SubSeq(s, k + 1, Len(s))
<1>11. /\ back \in Seq(ReliableEntry) /\ Len(back) = Len(s) - k
  BY <1>4, <1>7, HeldSplit
<1>12. \A j \in 1 .. Len(s) - k : back[j] = s[k + j]
  BY <1>4, <1>7, HeldSplit
<1> HIDE DEF back
<1>13. at - k \in DOMAIN back /\ back[at - k] = e
  <2>1. DOMAIN back = 1 .. Len(s) - k
    BY <1>11, LenProperties
  <2>2. PICK j : j = at - k
    OBVIOUS
  <2>3. back[j] = s[k + j]
    BY <1>10, <1>12, <2>2
  <2> QED
    BY <1>5, <1>10, <2>1, <2>2, <2>3
<1> QED
  BY <1>9, <1>13 DEF back, new, mid, e

LEMMA HandleSendFragmentStep ==
  ASSUME SenderInv, ReceiverInv, NEW c \in network, HandleSendFragment(c)
  PROVE  ReceiverInv'
<1> DEFINE e == Incoming(c)
           d == Length(e)
<1>1. /\ c.type = "SEND_FRAGMENT" /\ UNCHANGED senderVars /\ UNCHANGED groupVars
      /\ delivered' = delivered
  BY DEF HandleSendFragment
<1>2. c.type \in FragmentTypes /\ c.type \in ReliableTypes
  BY <1>1 DEF FragmentTypes, ReliableTypes
<1>3. e \in ReliableEntry /\ d \in Nat /\ e.count = c.count /\ c \in CommandType
  BY <1>2, HandlerFacts
<1>4. CommandsFit' /\ GroupType'
  BY <1>1, GroupKept
<1>5. incomingReliable \in Seq(ReliableEntry)
  BY DEF ReceiverInv, ReceiverType
<1>6. CASE /\ HasTwin(incomingReliable, e)
           /\ Completes(incomingReliable[TwinOf(incomingReliable, e)], c)
           /\ Becomes(WithReliableFragment(Channel, TwinOf(incomingReliable, e), c))
           /\ UNCHANGED totalWaitingData
  <2> DEFINE p == TwinOf(incomingReliable, e)
             new == WithReliableFragment(Channel, p, c)
  <2>1. p \in DOMAIN incomingReliable
    BY <1>3, <1>5, <1>6, EntriesSized, TwinIsThere
  <2>2. Channel \in ChannelType /\ Channel.reliable = incomingReliable
    BY ChannelTyped DEF Channel
  <2>3. incomingReliable[p].count = c.count
    BY <1>6 DEF Completes
  <2>6. Becomes(new)
    BY <1>6
  <2> HIDE DEF p, e
  <2>4. c.fragment \in 0 .. Channel.reliable[p].count - 1
    BY <1>2, <2>2, <2>3, FragmentHasPlace
  <2>5. new \in ChannelType /\ DataOf(new) = DataOf(Channel)
    BY <1>3, <2>1, <2>2, <2>4, ReliableFragmentKeeps
  <2>7. DataOf(Channel) \in Nat /\ totalWaitingData \in Nat
    BY ChannelTyped DEF ReceiverInv, ReceiverType
  <2> DEFINE zero == 0
  <2>8. /\ zero \in Nat /\ DataOf(new) = DataOf(Channel) + zero
        /\ totalWaitingData' = totalWaitingData + zero
    BY <1>6, <2>5, <2>7
  <2> HIDE DEF zero, new
  <2> QED
    BY <1>1, <1>4, <2>5, <2>6, <2>8, Received
<1>7. CASE /\ totalWaitingData' = totalWaitingData + d
           /\ LET ch == DispatchReliable(
                          [Channel EXCEPT !.reliable = Inserted(@, e)])
                  p == CHOOSE r \in DOMAIN ch.reliable : ch.reliable[r] = e IN
              Becomes(WithReliableFragment(ch, p, c))
  <2> DEFINE mid == [Channel EXCEPT !.reliable = Inserted(@, e)]
             ch == DispatchReliable(mid)
             p == CHOOSE r \in DOMAIN ch.reliable : ch.reliable[r] = e
             new == WithReliableFragment(ch, p, c)
  <2>1. Becomes(new)
    BY <1>7
  <2>2. \E r \in DOMAIN ch.reliable : ch.reliable[r] = e
    BY <1>1, NewPacketStays
  <2>3. p \in DOMAIN ch.reliable /\ ch.reliable[p] = e
    <3> HIDE DEF ch, e
    <3> QED
      BY <2>2
  <2>4. mid \in ChannelType /\ DataOf(mid) = DataOf(Channel) + d
    <3> HIDE DEF e
    <3> QED
      BY <1>3, ReliableArrives
  <2> HIDE DEF mid, d, e
  <2>5. ch \in ChannelType /\ DataOf(ch) = DataOf(mid)
    BY <2>4, DispatchReliableKeeps
  <2> HIDE DEF ch, p
  <2>6. c.fragment \in 0 .. ch.reliable[p].count - 1
    BY <1>2, <1>3, <2>3, FragmentHasPlace
  <2>7. new \in ChannelType /\ DataOf(new) = DataOf(ch)
    BY <1>3, <2>3, <2>5, <2>6, ReliableFragmentKeeps
  <2>8. DataOf(new) = DataOf(Channel) + d
    BY <2>4, <2>5, <2>7
  <2> HIDE DEF new
  <2> QED
    BY <1>1, <1>3, <1>4, <1>7, <2>1, <2>7, <2>8, Received
<1> QED
  BY <1>6, <1>7 DEF HandleSendFragment, Count

LEMMA HandleSendUnreliableFragmentStep ==
  ASSUME SenderInv, ReceiverInv, NEW c \in network, HandleSendUnreliableFragment(c)
  PROVE  ReceiverInv'
<1> DEFINE e == Incoming(c)
           d == Length(e)
           s == Inserted(incomingUnreliable, e)
           mid == [Channel EXCEPT !.unreliable = s]
           ch == DispatchUnreliable(mid)
<1>0. Channel.unreliable = incomingUnreliable
  BY DEF Channel
<1>8. [Channel EXCEPT !.unreliable = Inserted(@, e)] = mid
  BY <1>0
<1>1. /\ c.type = "SEND_UNRELIABLE_FRAGMENT" /\ UNCHANGED senderVars
      /\ UNCHANGED groupVars /\ delivered' = delivered
  BY DEF HandleSendUnreliableFragment
<1>2. c.type \in FragmentTypes /\ c.type \notin ReliableTypes
  BY <1>1 DEF FragmentTypes, ReliableTypes
<1>3. e \in UnreliableEntry /\ d \in Nat /\ e.count = c.count /\ c \in CommandType
  BY <1>2, HandlerFacts
<1>4. CommandsFit' /\ GroupType'
  BY <1>1, GroupKept
<1>5. incomingUnreliable \in Seq(UnreliableEntry)
  BY DEF ReceiverInv, ReceiverType
<1>6. CASE /\ HasTwin(incomingUnreliable, e)
           /\ Completes(incomingUnreliable[TwinOf(incomingUnreliable, e)], c)
           /\ Becomes(WithUnreliableFragment(Channel, TwinOf(incomingUnreliable, e), c))
           /\ UNCHANGED totalWaitingData
  <2> DEFINE p == TwinOf(incomingUnreliable, e)
             new == WithUnreliableFragment(Channel, p, c)
  <2>1. p \in DOMAIN incomingUnreliable
    <3> HIDE DEF e
    <3> QED
      BY <1>3, <1>5, <1>6, EntriesSized, TwinIsThere
  <2>2. Channel \in ChannelType /\ Channel.unreliable = incomingUnreliable
    BY <1>0, ChannelTyped
  <2>3. incomingUnreliable[p].count = c.count
    BY <1>6 DEF Completes
  <2>6. Becomes(new)
    BY <1>6
  <2> HIDE DEF p, e
  <2>4. c.fragment \in 0 .. Channel.unreliable[p].count - 1
    BY <1>2, <2>2, <2>3, FragmentHasPlace
  <2>5. new \in ChannelType /\ DataOf(new) = DataOf(Channel)
    BY <1>3, <2>1, <2>2, <2>4, UnreliableFragmentKeeps
  <2>7. DataOf(Channel) \in Nat /\ totalWaitingData \in Nat
    BY ChannelTyped DEF ReceiverInv, ReceiverType
  <2> DEFINE zero == 0
  <2>8. /\ zero \in Nat /\ DataOf(new) = DataOf(Channel) + zero
        /\ totalWaitingData' = totalWaitingData + zero
    BY <1>6, <2>5, <2>7
  <2> HIDE DEF zero, new
  <2> QED
    BY <1>1, <1>4, <2>5, <2>6, <2>8, Received
<1>7. ASSUME totalWaitingData' = totalWaitingData + d,
             NEW p \in DOMAIN ch.unreliable, ch.unreliable[p] = e,
             Becomes(WithUnreliableFragment(ch, p, c))
      PROVE  ReceiverInv'
  <2> DEFINE new == WithUnreliableFragment(ch, p, c)
  <2>1. Becomes(new)
    BY <1>7
  <2>3. p \in DOMAIN ch.unreliable /\ ch.unreliable[p] = e
    BY <1>7
  <2>4. mid \in ChannelType /\ DataOf(mid) = DataOf(Channel) + d
    <3> HIDE DEF e
    <3>1. s \in {Inserted(incomingUnreliable, e), <<e>> \o incomingUnreliable}
      OBVIOUS
    <3> HIDE DEF s
    <3> QED
      BY <1>3, <3>1, UnreliableArrives
  <2> HIDE DEF mid, d, e
  <2>5. ch \in ChannelType /\ DataOf(ch) = DataOf(mid)
    BY <2>4, DispatchUnreliableKeeps
  <2> HIDE DEF ch
  <2>6. c.fragment \in 0 .. ch.unreliable[p].count - 1
    BY <1>2, <1>3, <2>3, FragmentHasPlace
  <2>7. new \in ChannelType /\ DataOf(new) = DataOf(ch)
    BY <1>3, <2>3, <2>5, <2>6, UnreliableFragmentKeeps
  <2>8. DataOf(new) = DataOf(Channel) + d
    BY <2>4, <2>5, <2>7
  <2> HIDE DEF new
  <2> QED
    BY <1>1, <1>3, <1>4, <1>7, <2>1, <2>7, <2>8, Received
<1>9. CASE /\ totalWaitingData' = totalWaitingData + d
           /\ \E p \in DOMAIN ch.unreliable :
                /\ ch.unreliable[p] = e
                /\ Becomes(WithUnreliableFragment(ch, p, c))
  <2> HIDE DEF e, d, ch
  <2> QED
    BY <1>7, <1>9
<1>10. CASE totalWaitingData' = totalWaitingData + d /\ Becomes(ch)
  <2>1. mid \in ChannelType /\ DataOf(mid) = DataOf(Channel) + d
    <3> HIDE DEF e
    <3>1. s \in {Inserted(incomingUnreliable, e), <<e>> \o incomingUnreliable}
      OBVIOUS
    <3> HIDE DEF s
    <3> QED
      BY <1>3, <3>1, UnreliableArrives
  <2> HIDE DEF mid, d, e
  <2>2. ch \in ChannelType /\ DataOf(ch) = DataOf(mid)
    BY <2>1, DispatchUnreliableKeeps
  <2> HIDE DEF ch
  <2> QED
    BY <1>1, <1>3, <1>4, <1>10, <2>1, <2>2, Received
<1> QED
  BY <1>6, <1>8, <1>9, <1>10 DEF HandleSendUnreliableFragment, Count

LEMMA Remainders ==
  ASSUME NEW a \in Nat, NEW b \in Nat \ {0}
  PROVE  a % b \in 0 .. b - 1 /\ a % b =< a
OBVIOUS

LEMMA HandleSendUnsequencedStep ==
  ASSUME SenderInv, ReceiverInv, NEW c \in network, HandleSendUnsequenced(c)
  PROVE  ReceiverInv'
<1> DEFINE e == Incoming(c)
           d == Length(e)
           s == <<e>> \o incomingUnreliable
           mid == [Channel EXCEPT !.unreliable = s]
           new == DispatchUnreliable(mid)
           index == GroupWire(c.number) % UNSEQUENCED_WINDOW_SIZE
           same  == GroupWire(c.number) - index = GroupWire(incomingUnsequencedGroup)
           bits  == IF same THEN unsequencedWindow ELSE {}
<1>0. Channel.unreliable = incomingUnreliable
  BY DEF Channel
<1>8. [Channel EXCEPT !.unreliable = <<e>> \o @] = mid
  BY <1>0
<1>1. /\ c.type = "SEND_UNSEQUENCED" /\ UNCHANGED senderVars /\ delivered' = delivered
      /\ incomingUnsequencedGroup' =
           IF same THEN incomingUnsequencedGroup ELSE c.number - index
  BY DEF HandleSendUnsequenced
<1>2. c.type \notin ReliableTypes
  BY <1>1 DEF ReliableTypes
<1>3. e \in UnreliableEntry /\ d \in Nat /\ c \in CommandType
  BY <1>2, HandlerFacts
<1>4. CommandsFit' /\ GroupType /\ network' = network
  BY <1>1, GroupKept, HandlerFacts DEF senderVars
<1>5. index \in 0 .. UNSEQUENCED_WINDOW_SIZE - 1 /\ c.number - index \in Nat
  <2> DEFINE g == GroupWire(c.number)
  <2>1. c.number \in Nat
    BY <1>3 DEF CommandType
  <2>2. GroupSpace \in Nat \ {0} /\ UNSEQUENCED_WINDOW_SIZE \in Nat \ {0}
    BY DeliveryAssumption DEF GroupSpace
  <2>3. g \in Nat /\ g =< c.number
    BY <2>1, <2>2, Remainders DEF GroupWire
  <2> HIDE DEF g
  <2>4. /\ g % UNSEQUENCED_WINDOW_SIZE \in 0 .. UNSEQUENCED_WINDOW_SIZE - 1
        /\ g % UNSEQUENCED_WINDOW_SIZE =< g
    BY <2>2, <2>3, Remainders
  <2>5. index = g % UNSEQUENCED_WINDOW_SIZE
    BY DEF g
  <2> HIDE DEF index
  <2> QED
    BY <2>1, <2>2, <2>3, <2>4, <2>5
<1>6. /\ incomingUnsequencedGroup' \in Nat
      /\ bits \subseteq 0 .. UNSEQUENCED_WINDOW_SIZE - 1
  <2> HIDE DEF index
  <2> QED
    BY <1>1, <1>4, <1>5 DEF GroupType
<1>7. CASE /\ totalWaitingData' = totalWaitingData + d
           /\ unsequencedWindow' = bits \cup {index}
           /\ Becomes(new)
  <2>1. GroupType'
    <3> HIDE DEF bits, index
    <3> QED
      BY <1>5, <1>6, <1>7 DEF GroupType
  <2> HIDE DEF bits, index, e
  <2>2. s \in {Inserted(incomingUnreliable, e), <<e>> \o incomingUnreliable}
    OBVIOUS
  <2> HIDE DEF s
  <2>3. mid \in ChannelType /\ DataOf(mid) = DataOf(Channel) + d
    BY <1>3, <2>2, UnreliableArrives
  <2> HIDE DEF mid, d
  <2>4. new \in ChannelType /\ DataOf(new) = DataOf(mid)
    BY <2>3, DispatchUnreliableKeeps
  <2> HIDE DEF new
  <2> QED
    BY <1>1, <1>3, <1>4, <1>7, <2>1, <2>3, <2>4, Received
<1>9. CASE /\ unsequencedWindow' = bits
           /\ UNCHANGED <<totalWaitingData, channelVars>>
  <2>1. GroupType'
    <3> HIDE DEF bits
    <3> QED
      BY <1>6, <1>9 DEF GroupType
  <2> HIDE DEF bits
  <2>2. /\ ReceiverType' /\ WaitingDataCounted'
    BY <1>1, <1>9, <2>1
    DEF ReceiverInv, ReceiverType, GroupType, channelVars, WaitingDataCounted,
        WaitingData
  <2> QED
    BY <1>4, <2>2 DEF ReceiverInv
<1> QED
  <2>1. \/ /\ totalWaitingData' = totalWaitingData + d
           /\ unsequencedWindow' = bits \cup {index}
           /\ Becomes(DispatchUnreliable([Channel EXCEPT !.unreliable = <<e>> \o @]))
        \/ /\ unsequencedWindow' = bits
           /\ UNCHANGED <<totalWaitingData, channelVars>>
    BY DEF HandleSendUnsequenced, Count
  <2> QED
    BY <1>7, <1>8, <1>9, <2>1

LEMMA ReceiveStep ==
  ASSUME SenderInv, ReceiverInv, Receive
  PROVE  ReceiverInv'
<1> DEFINE q == dispatched
           t == Tail(q)
           h == Head(q)
<1>1. /\ q # <<>> /\ delivered' = Append(delivered, h.packet) /\ dispatched' = t
      /\ totalWaitingData' = totalWaitingData - Length(h)
      /\ UNCHANGED <<senderVars, incomingReliableSequenceNumber,
                     incomingUnreliableSequenceNumber, incomingReliable,
                     incomingUnreliable, droppedData, groupVars>>
  BY DEF Receive
<1>2. q \in Seq(Entry) /\ delivered \in Seq(Packets) /\ droppedData \in Nat
      /\ totalWaitingData \in Nat
  BY DEF ReceiverInv, ReceiverType
<1>3. h \in Entry /\ t \in Seq(Entry)
  BY <1>1, <1>2, HeadTailProperties
<1>4. /\ DataLength(q) = Length(h) + DataLength(t)
      /\ DataLength(t) \in Nat /\ Length(h) \in Nat
  BY <1>1, <1>2, EntriesSized, DataLengthTail
<1>5. h.packet \in Packets
  BY <1>3 DEF Entry
<1>6. Append(delivered, h.packet) \in Seq(Packets)
  BY <1>2, <1>5, AppendProperties
<1>7. /\ DataLength(incomingReliable) \in Nat /\ DataLength(incomingUnreliable) \in Nat
      /\ totalWaitingData = DataLength(incomingReliable) + DataLength(incomingUnreliable)
                              + DataLength(q) + droppedData
  BY ChannelTyped DEF ReceiverInv, WaitingDataCounted, WaitingData
<1> HIDE DEF h, t, q
<1>8. totalWaitingData - Length(h) =
        DataLength(incomingReliable) + DataLength(incomingUnreliable)
          + DataLength(t) + droppedData
  BY <1>2, <1>4, <1>7
<1>9. totalWaitingData - Length(h) \in Nat
  BY <1>2, <1>4, <1>7, <1>8, SMTT(20)
<1>10. ReceiverType'
  BY <1>1, <1>3, <1>6, <1>9 DEF ReceiverInv, ReceiverType, groupVars
<1>11. WaitingDataCounted'
  BY <1>1, <1>8 DEF WaitingDataCounted, WaitingData
<1>12. CommandsFit'
  BY <1>1, GroupKept
<1> QED
  BY <1>10, <1>11, <1>12 DEF ReceiverInv

LEMMA ReceiverInit ==
  ASSUME Init
  PROVE  ReceiverInv
<1> DEFINE w == UNSEQUENCED_WINDOW_SIZE
           first == UnsequencedBefore - (UnsequencedBefore % w)
<1>1. /\ ReliableBefore \in Nat /\ UnsequencedBefore \in Nat /\ w \in Nat \ {0}
      /\ UnreliableLimit \in Nat \ {0}
  BY DeliveryAssumption
<1>2. first \in Nat
  <2>1. UnsequencedBefore % w \in 0 .. w - 1 /\ UnsequencedBefore % w =< UnsequencedBefore
    BY <1>1, Remainders
  <2> QED
    BY <1>1, <2>1
<1>3. unsequencedWindow \subseteq 0 .. w - 1
  <2>1. unsequencedWindow = {g % w : g \in {h \in 1 .. UnsequencedBefore :
                                                  h >= incomingUnsequencedGroup}}
    BY DEF Init
  <2>2. ASSUME NEW g \in 1 .. UnsequencedBefore PROVE g % w \in 0 .. w - 1
    <3>1. g \in Nat
      BY <1>1
    <3> QED
      BY <1>1, <3>1, Remainders
  <2> HIDE DEF w
  <2> QED
    BY <2>1, <2>2
<1>4. incomingUnsequencedGroup = first
  BY DEF Init
<1> HIDE DEF first, w
<1>5. ReceiverType
  BY <1>1, <1>2, <1>3, <1>4 DEF Init, ReceiverType, w
<1>6. /\ incomingReliable = <<>> /\ incomingUnreliable = <<>> /\ dispatched = <<>>
      /\ droppedData = 0 /\ totalWaitingData = 0
  BY DEF Init
<1>7. WaitingDataCounted
  BY <1>6, DataLengthEmpty DEF WaitingDataCounted, WaitingData
<1> QED
  BY <1>5, <1>7, FitInit DEF ReceiverInv

LEMMA ReceiverUnchanged ==
  ASSUME ReceiverInv, CommandsFit', UNCHANGED receiverVars
  PROVE  ReceiverInv'
<1>1. ReceiverType'
  BY DEF ReceiverInv, ReceiverType, receiverVars, channelVars, groupVars
<1>2. WaitingDataCounted'
  BY DEF ReceiverInv, WaitingDataCounted, WaitingData, receiverVars, channelVars
<1> QED
  BY <1>1, <1>2 DEF ReceiverInv

LEMMA ReceiverStep ==
  ASSUME SenderInv, ReceiverInv, [Next]_vars
  PROVE  ReceiverInv'
<1>1. CommandsFit'
  BY FitStep DEF ReceiverInv
<1>2. ASSUME NEW c \in network, Handle(c) PROVE ReceiverInv'
  BY <1>2, HandleSendReliableStep, HandleSendUnreliableStep, HandleSendFragmentStep,
     HandleSendUnreliableFragmentStep, HandleSendUnsequencedStep DEF Handle
<1>3. CASE Receive
  BY <1>3, ReceiveStep
<1>4. (\E k \in Kinds : Send(k)) \/ SendUnreliable \/ Throttle \/ DatagramSent
        \/ UNCHANGED vars => UNCHANGED receiverVars
  BY DEF Send, SendUnreliable, Throttle, DatagramSent, vars
<1> QED
  BY <1>1, <1>2, <1>3, <1>4, ReceiverUnchanged DEF Next

\* The invariant of both peers.
THEOREM ReceiverInvariant == Spec => [](SenderInv /\ ReceiverInv)
<1>1. Init => SenderInv /\ ReceiverInv
  BY SenderInit, ReceiverInit
<1>2. SenderInv /\ ReceiverInv /\ [Next]_vars => (SenderInv /\ ReceiverInv)'
  BY SenderStep, ReceiverStep
<1> QED
  BY <1>1, <1>2, PTL DEF Spec

LEMMA EntryIsEntry ==
  ASSUME NEW e \in Entry
  PROVE  IsEntry(e)
<1>1. /\ DOMAIN e = {"packet", "type", "reliable", "number", "count", "fragments"}
      /\ e.packet \in Packets /\ e.type \in AllTypes /\ e.count \in Nat
      /\ e.fragments \subseteq [fragment : Nat, packet : Packets]
      /\ \A x \in e.fragments : x.fragment \in 0 .. e.count - 1
  BY DEF Entry
<1>2. \A x \in e.fragments : x.packet \in Packets
  BY <1>1
<1> QED
  BY <1>1, <1>2 DEF IsEntry, AllTypes

\* Every command is where commands of its type belong, every fragment has its
\* place in its packet, no counter is below zero and no unreliable number above
\* 0xFFFF: enet_peer_send turns to reliable commands in time (peer.cpp:110), and
\* totalWaitingData (peer.cpp:244, 970) never wraps.
THEOREM TypeCorrect == Spec => []TypeOK
<1>1. SenderInv /\ ReceiverInv => TypeOK
  <2> SUFFICES ASSUME SenderInv, ReceiverInv PROVE TypeOK
    OBVIOUS
  <2>1. ASSUME NEW S, NEW s \in Seq(S), NEW e \in ToSet(s) PROVE e \in S
    <3>1. PICK p \in DOMAIN s : e = s[p]
      BY DEF ToSet
    <3> QED
      BY <2>1, <3>1, ElementOfSeq, LenProperties
  <2>2. \A e \in ToSet(incomingReliable) : IsEntry(e) /\ e.type \in ReliableTypes
    <3>1. ASSUME NEW e \in ToSet(incomingReliable) PROVE e \in ReliableEntry
      BY <2>1 DEF ReceiverInv, ReceiverType
    <3> QED
      BY <3>1, EntryIsEntry DEF ReliableEntry
  <2>3. \A e \in ToSet(incomingUnreliable) : IsEntry(e) /\ e.type \notin ReliableTypes
    <3>1. ASSUME NEW e \in ToSet(incomingUnreliable) PROVE e \in UnreliableEntry
      BY <2>1 DEF ReceiverInv, ReceiverType
    <3> QED
      BY <3>1, EntryIsEntry DEF UnreliableEntry
  <2>4. \A e \in ToSet(dispatched) : IsEntry(e)
    <3>1. ASSUME NEW e \in ToSet(dispatched) PROVE e \in Entry
      BY <2>1 DEF ReceiverInv, ReceiverType
    <3> QED
      BY <3>1, EntryIsEntry
  <2> QED
    BY <2>2, <2>3, <2>4 DEF SenderInv, SenderType, ReceiverInv, ReceiverType, TypeOK
<1> QED
  BY <1>1, ReceiverInvariant, PTL

\* totalWaitingData counts the data of all waiting packets exactly, and for ever
\* that of the packets dropped undelivered: a leak, but never a wrap below zero
\* (peer.cpp:244, 271, 970).
THEOREM AlwaysWaitingDataCounted == Spec => []WaitingDataCounted
<1>1. SenderInv /\ ReceiverInv => WaitingDataCounted
  BY DEF ReceiverInv
<1> QED
  BY <1>1, ReceiverInvariant, PTL

-----------------------------------------------------------------------------
(* The bound on the data that waits. *)

\* totalWaitingData is below the limit before the last packet is queued, and no
\* packet is larger than the largest one the application sends.
CountBounded ==
  totalWaitingData > 0 =>
    \E l \in Kinds : totalWaitingData < MaximumWaitingData + l.fragments

\* Every handler tests the limit before it counts a packet.
LEMMA HandlersCount ==
  ASSUME NEW c \in network, Handle(c)
  PROVE  \/ totalWaitingData' = totalWaitingData
         \/ HasRoom /\ totalWaitingData' = totalWaitingData + Length(Incoming(c))
<1>1. CASE HandleSendReliable(c)
  BY <1>1 DEF HandleSendReliable, Count
<1>2. CASE HandleSendUnreliable(c)
  BY <1>2 DEF HandleSendUnreliable, Count
<1>3. CASE HandleSendFragment(c)
  BY <1>3 DEF HandleSendFragment, Count
<1>4. CASE HandleSendUnreliableFragment(c)
  BY <1>4 DEF HandleSendUnreliableFragment, Count
<1>5. CASE HandleSendUnsequenced(c)
  BY <1>5 DEF HandleSendUnsequenced, Count
<1> QED
  BY <1>1, <1>2, <1>3, <1>4, <1>5 DEF Handle

LEMMA CountBoundedStep ==
  ASSUME SenderInv, ReceiverInv, CountBounded, [Next]_vars
  PROVE  CountBounded'
<1>1. totalWaitingData \in Nat /\ MaximumWaitingData \in Nat
  BY DeliveryAssumption DEF ReceiverInv, ReceiverType
<1>2. ASSUME NEW c \in network, Handle(c) PROVE CountBounded'
  <2>1. PICK l \in Kinds : c.count =< l.fragments
    BY DEF ReceiverInv, CommandsFit, Fits
  <2>2. l.fragments \in Nat /\ l.fragments >= 1
    BY KindsHaveFragments
  <2>3. c \in CommandType
    BY <1>2, SenderFacts
  <2>4. c.count \in Nat
    BY <2>3 DEF CommandType
  <2>5. Length(Incoming(c)) =< l.fragments /\ Length(Incoming(c)) \in Nat
    BY <2>1, <2>2, <2>4 DEF Length, Incoming
  <2>6. CASE totalWaitingData' = totalWaitingData
    BY <2>6 DEF CountBounded
  <2>7. CASE HasRoom /\ totalWaitingData' = totalWaitingData + Length(Incoming(c))
    <3>1. totalWaitingData' < MaximumWaitingData + l.fragments
      BY <1>1, <2>2, <2>5, <2>7 DEF HasRoom
    <3> QED
      BY <3>1 DEF CountBounded
  <2> QED
    BY <1>2, <2>6, <2>7, HandlersCount
<1>3. CASE Receive
  <2>1. /\ dispatched # <<>> /\ dispatched \in Seq(Entry)
        /\ totalWaitingData' = totalWaitingData - Length(Head(dispatched))
    BY <1>3 DEF Receive, ReceiverInv, ReceiverType
  <2>2. Head(dispatched) \in Entry
    BY <2>1, HeadTailProperties
  <2>3. Length(Head(dispatched)) \in Nat
    BY <2>1, EntriesSized, DataLengthTail
  <2>4. totalWaitingData' =< totalWaitingData /\ totalWaitingData' \in Int
    BY <1>1, <2>1, <2>3
  <2>5. ASSUME totalWaitingData' > 0 PROVE CountBounded'
    <3>1. PICK l \in Kinds : totalWaitingData < MaximumWaitingData + l.fragments
      BY <1>1, <2>4, <2>5 DEF CountBounded
    <3>2. l.fragments \in Nat
      BY KindsHaveFragments
    <3>3. totalWaitingData' < MaximumWaitingData + l.fragments
      BY <1>1, <2>4, <3>1, <3>2
    <3> QED
      BY <3>3 DEF CountBounded
  <2> QED
    BY <2>5 DEF CountBounded
<1>4. (\E k \in Kinds : Send(k)) \/ SendUnreliable \/ Throttle \/ DatagramSent
        \/ UNCHANGED vars => UNCHANGED receiverVars
  BY DEF Send, SendUnreliable, Throttle, DatagramSent, vars
<1>5. CASE UNCHANGED receiverVars
  BY <1>5 DEF receiverVars, CountBounded
<1> QED
  BY <1>2, <1>3, <1>4, <1>5 DEF Next

\* The data of the packets that wait is less than maximumWaitingData and the
\* largest packet together (peer.cpp:934, 970), however packets of all kinds are
\* mixed, reassembled and dispatched.
THEOREM AlwaysWaitingDataBounded == Spec => []WaitingDataBounded
<1>1. Init => CountBounded
  BY DEF Init, CountBounded
<1>2. SenderInv /\ ReceiverInv /\ CountBounded /\ [Next]_vars => CountBounded'
  BY CountBoundedStep
<1>3. SenderInv /\ ReceiverInv /\ CountBounded => WaitingDataBounded
  <2> SUFFICES ASSUME SenderInv, ReceiverInv, CountBounded, WaitingData > 0
               PROVE  \E k \in Kinds : WaitingData < MaximumWaitingData + k.fragments
    BY DEF WaitingDataBounded
  <2>1. /\ totalWaitingData = WaitingData + droppedData
        /\ totalWaitingData \in Nat /\ droppedData \in Nat
    BY DEF ReceiverInv, ReceiverType, WaitingDataCounted
  <2>2. WaitingData \in Int
    <3>1. /\ DataLength(incomingReliable) \in Nat /\ DataLength(incomingUnreliable) \in Nat
          /\ DataLength(dispatched) \in Nat
      BY ChannelTyped
    <3> QED
      BY <3>1 DEF WaitingData
  <2>3. WaitingData =< totalWaitingData /\ totalWaitingData > 0
    BY <2>1, <2>2
  <2>4. PICK k \in Kinds : totalWaitingData < MaximumWaitingData + k.fragments
    BY <2>3 DEF CountBounded
  <2>5. k.fragments \in Nat /\ MaximumWaitingData \in Nat
    BY KindsHaveFragments, DeliveryAssumption
  <2> QED
    BY <2>1, <2>2, <2>3, <2>4, <2>5
<1> QED
  BY <1>1, <1>2, <1>3, ReceiverInvariant, PTL DEF Spec
=============================================================================
