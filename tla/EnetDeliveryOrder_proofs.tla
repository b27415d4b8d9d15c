---------------------- MODULE EnetDeliveryOrder_proofs ----------------------
(***************************************************************************)
(* What is proved of the order in which packets of all kinds arrive, for   *)
(* any kinds of packets, any number of them and any sizes of the windows:  *)
(* both lists of the receiver are in the order of submission and hold      *)
(* nothing that could be dispatched, fragmented packets are dispatched     *)
(* whole, and the remote application gets what PacketDelivery promises     *)
(* (DeliveryRefined).                                                      *)
(*                                                                         *)
(* The receiver sees wire numbers only.  OrderInv says why they are enough:*)
(*   - the sender numbers its commands in the order of submission          *)
(*     (Numbered), and is less than a turn of the sequence space ahead;    *)
(*   - what waits is in the windows that the receiver accepts (Ahead), so  *)
(*     that a list in the order of the wire numbers, counted from the last *)
(*     number received, is in the order of submission (Settled);           *)
(*   - what was dispatched holds its own fragments (Whole).                *)
(* A dispatch hands over complete packets between the old and the new      *)
(* numbers, among them every reliable one (Handed).  PromiseInv adds what  *)
(* was handed over so far (Given): each packet once, the sequenced ones in *)
(* order, all past the receiver's numbers or set in its unsequenced window,*)
(* and every reliable one that is past among them.                         *)
(*                                                                         *)
(* SmallPackets bounds the fragments of a packet.  Without it one dispatch *)
(* can pass so many numbers that a partial unreliable packet is taken for  *)
(* one of the next turn, stays, and younger ones are put before it.        *)
(***************************************************************************)
EXTENDS EnetDelivery_proofs

-----------------------------------------------------------------------------
(* Reliable numbers and windows.  n is the last number received.           *)

LEMMA NumberConstants ==
  /\ RELIABLE_WINDOWS \in Nat \ {0} /\ RELIABLE_WINDOW_SIZE \in Nat \ {0}
  /\ FREE_RELIABLE_WINDOWS \in 2 .. RELIABLE_WINDOWS
  /\ SeqSpace \in Nat \ {0}
<1>1. /\ RELIABLE_WINDOWS \in Nat \ {0} /\ RELIABLE_WINDOW_SIZE \in Nat \ {0}
      /\ FREE_RELIABLE_WINDOWS \in 2 .. RELIABLE_WINDOWS
  BY DeliveryAssumption
<1> QED
  BY <1>1 DEF SeqSpace

\* A window of the (unbounded) numbers is an interval of them.
LEMMA WindowInterval ==
  ASSUME NEW i \in Nat
  PROVE  /\ Window(i) \in Nat
         /\ RELIABLE_WINDOW_SIZE * Window(i) \in Nat
         /\ RELIABLE_WINDOW_SIZE * Window(i) =< i
         /\ i < RELIABLE_WINDOW_SIZE * Window(i) + RELIABLE_WINDOW_SIZE
<1> DEFINE K == RELIABLE_WINDOW_SIZE
<1>1. K \in Nat \ {0}
  BY NumberConstants
<1> HIDE DEF K
<1>2. i \div K \in Nat /\ i % K \in 0 .. K - 1 /\ i = K * (i \div K) + (i % K)
  BY <1>1, Quotient
<1>3. K * (i \div K) \in Nat
  BY <1>1, <1>2
<1> QED
  BY <1>1, <1>2, <1>3 DEF Window, K

\* Windows are in the order of their numbers, and a span of less than a number
\* of windows reaches no further than that many windows.
LEMMA WindowSpan ==
  ASSUME NEW i \in Nat, NEW j \in Nat, NEW a \in Nat,
         j =< i + RELIABLE_WINDOW_SIZE * a
  PROVE  Window(j) =< Window(i) + a
<1> DEFINE K == RELIABLE_WINDOW_SIZE
           v == Window(i)
           w == Window(j)
<1>1. /\ K \in Nat \ {0} /\ v \in Nat /\ w \in Nat
      /\ K * v \in Nat /\ K * w \in Nat /\ i < K * v + K /\ K * w =< j
      /\ j =< i + K * a
  BY NumberConstants, WindowInterval
<1> HIDE DEF K, v, w
<1>2. ASSUME w > v + a PROVE FALSE
  <2>1. K * w >= K * (v + a + 1)
    BY <1>1, <1>2
  <2>2. K * (v + a + 1) = K * v + K * a + K /\ K * a \in Nat
    BY <1>1
  <2> QED
    BY <1>1, <2>1, <2>2
<1> QED
  BY <1>1, <1>2 DEF v, w

LEMMA WindowMonotone ==
  ASSUME NEW i \in Nat, NEW j \in Nat, i =< j
  PROVE  Window(i) =< Window(j)
<1> DEFINE zero == 0
<1>1. zero \in Nat /\ i =< j + RELIABLE_WINDOW_SIZE * zero /\ Window(j) \in Nat
  BY NumberConstants, WindowInterval
<1> HIDE DEF zero
<1>2. Window(i) =< Window(j) + zero
  BY <1>1, WindowSpan
<1> QED
  BY <1>1, <1>2 DEF zero

\* Where a number is in the turns of the sequence space.
LEMMA Turn ==
  ASSUME NEW i \in Nat
  PROVE  \E a \in Nat : /\ Wire(i) \in 0 .. SeqSpace - 1
                        /\ i = SeqSpace * a + Wire(i)
                        /\ Window(i) = RELIABLE_WINDOWS * a + Window(Wire(i))
                        /\ Window(Wire(i)) \in 0 .. RELIABLE_WINDOWS - 1
<1> DEFINE W == RELIABLE_WINDOWS
           K == RELIABLE_WINDOW_SIZE
           N == SeqSpace
           a == i \div N
           q == Wire(i)
           b == q \div K
           c == q % K
<1>1. W \in Nat \ {0} /\ K \in Nat \ {0} /\ N \in Nat \ {0} /\ N = W * K
  BY NumberConstants DEF SeqSpace
<1>2. a \in Nat /\ q \in 0 .. N - 1 /\ i = N * a + q
  <2> HIDE DEF N
  <2>1. i \div N \in Nat /\ i % N \in 0 .. N - 1 /\ i = N * (i \div N) + (i % N)
    BY <1>1, Quotient
  <2> QED
    BY <2>1 DEF N, Wire
<1> HIDE DEF N, a, q
<1>3. b \in Nat /\ c \in 0 .. K - 1 /\ q = K * b + c
  <2>1. q \in Nat
    BY <1>1, <1>2
  <2> QED
    BY <1>1, <2>1, Quotient
<1> HIDE DEF b, c, W, K
<1>4. b \in 0 .. W - 1
  <2>1. K * b < W * K /\ W * K = K * W
    BY <1>1, <1>2, <1>3
  <2>2. ASSUME b >= W PROVE FALSE
    <3>1. K * b >= K * W
      BY <1>1, <1>3, <2>2
    <3> QED
      BY <1>1, <1>3, <2>1, <3>1
  <2> QED
    BY <1>1, <1>3, <2>2
<1>5. N * a = K * (W * a)
  BY <1>1, <1>2
<1>6. W * a \in Nat /\ W * a + b \in Nat
  BY <1>1, <1>2, <1>3
<1>7. K * (W * a) + K * b = K * (W * a + b)
  BY <1>1, <1>3, <1>6
<1>8. i = K * (W * a + b) + c
  <2> DEFINE x == K * (W * a)
             y == K * b
             z == K * (W * a + b)
  <2>1. x + y = z /\ i = x + q /\ q = y + c /\ x \in Int /\ y \in Int /\ z \in Int
    BY <1>1, <1>2, <1>3, <1>5, <1>6, <1>7
  <2> HIDE DEF x, y, z
  <2>2. i = z + c
    BY <1>1, <1>3, <2>1
  <2> QED
    BY <2>2 DEF z
<1>9. i \div K = W * a + b /\ i % K = c
  BY <1>1, <1>3, <1>6, <1>8, QuotientUnique
<1> QED
  BY <1>2, <1>4, <1>9 DEF W, K, N, a, q, b, c, Window

\* How the receiver sees a number that is less than a turn ahead: as far ahead
\* as it is.
LEMMA UnwrapAhead ==
  ASSUME NEW n \in Nat, NEW d \in Nat, n =< d, d < n + SeqSpace
  PROVE  /\ Wire(n) \in Nat
         /\ Unwrap(Wire(d), Wire(n)) = Wire(n) + (d - n)
<1> DEFINE N == SeqSpace
           q == Wire(d)
           m == Wire(n)
<1>1. N \in Nat \ {0} /\ n =< d /\ d < n + N
  BY NumberConstants
<1>2. PICK a \in Nat : m \in 0 .. N - 1 /\ n = N * a + m
  BY Turn
<1>3. PICK b \in Nat : q \in 0 .. N - 1 /\ d = N * b + q
  BY Turn
<1>4. Unwrap(q, m) = IF q < m THEN q + N ELSE q
  BY DEF Unwrap
<1> SUFFICES m \in Nat /\ Unwrap(q, m) = m + (d - n)
  OBVIOUS
<1> HIDE DEF N, q, m
<1>5. N * a \in Nat /\ N * b \in Nat
  BY <1>1
<1>6. CASE q < m
  <2>1. N * a < N * b /\ N * b < N * a + 2 * N
    BY <1>1, <1>2, <1>3, <1>5, <1>6
  <2>2. N * a + 2 * N = N * (a + 2)
    BY <1>1
  <2>3. a < b /\ b < a + 2
    BY <1>1, <2>1, <2>2
  <2>4. b = a + 1
    BY <2>3
  <2>5. N * b = N * a + N
    BY <1>1, <2>4
  <2> QED
    BY <1>1, <1>2, <1>3, <1>4, <1>5, <1>6, <2>5
<1>7. CASE ~ q < m
  <2>1. N * a < N * b + N /\ N * b < N * a + N
    BY <1>1, <1>2, <1>3, <1>5, <1>7
  <2>2. N * b + N = N * (b + 1) /\ N * a + N = N * (a + 1)
    BY <1>1
  <2>3. a < b + 1 /\ b < a + 1
    BY <1>1, <2>1, <2>2
  <2>4. b = a
    BY <2>3
  <2> QED
    BY <1>1, <1>2, <1>3, <1>4, <1>5, <1>7, <2>4
<1> QED
  BY <1>2, <1>6, <1>7

\* So different numbers there have different wire numbers.
LEMMA SameWire ==
  ASSUME NEW n \in Nat, NEW d \in Nat, n =< d, d < n + SeqSpace,
         NEW e \in Nat, n =< e, e < n + SeqSpace, Wire(d) = Wire(e)
  PROVE  d = e
<1>1. Wire(n) \in Nat /\ Unwrap(Wire(d), Wire(n)) = Wire(n) + (d - n)
  BY UnwrapAhead
<1>2. Unwrap(Wire(e), Wire(n)) = Wire(n) + (e - n)
  BY UnwrapAhead
<1>3. Wire(n) + (d - n) = Wire(n) + (e - n)
  BY <1>1, <1>2
<1> QED
  BY <1>1, <1>3

\* The window in which the receiver sees the wire number q.
SeenWindow(q, n) == IF q < n THEN Window(q) + RELIABLE_WINDOWS ELSE Window(q)

\* The test of the windows takes a number for what it is, unless it is further
\* back than the windows that are neither accepted nor refused for being old.
LEMMA WindowTest ==
  ASSUME NEW n \in Nat, NEW d \in Nat, d < n + SeqSpace,
         Window(n) =< Window(d) + (RELIABLE_WINDOWS - FREE_RELIABLE_WINDOWS + 1)
  PROVE  /\ (/\ SeenWindow(Wire(d), Wire(n)) >= Window(Wire(n))
             /\ SeenWindow(Wire(d), Wire(n)) < Window(Wire(n)) + FREE_RELIABLE_WINDOWS - 1)
              <=> (n =< d /\ Window(d) < Window(n) + FREE_RELIABLE_WINDOWS - 1)
         /\ Wire(d) = Wire(n) <=> d = n
<1> DEFINE N == SeqSpace
           W == RELIABLE_WINDOWS
           F == FREE_RELIABLE_WINDOWS
           q == Wire(d)
           m == Wire(n)
           vq == Window(q)
           vm == Window(m)
           vd == Window(d)
           vn == Window(n)
           w == SeenWindow(q, m)
<1>1. /\ N \in Nat \ {0} /\ W \in Nat \ {0} /\ F \in 2 .. W /\ d < n + N
      /\ vn =< vd + (W - F + 1) /\ vn \in Nat /\ vd \in Nat
  BY NumberConstants, WindowInterval
<1>2. PICK a \in Nat : m \in 0 .. N - 1 /\ n = N * a + m /\ vn = W * a + vm /\ vm \in 0 .. W - 1
  BY Turn
<1>3. PICK b \in Nat : q \in 0 .. N - 1 /\ d = N * b + q /\ vd = W * b + vq /\ vq \in 0 .. W - 1
  BY Turn
<1>4. w = IF q < m THEN vq + W ELSE vq
  BY DEF SeenWindow
<1>5. n =< d => vn =< vd
  BY WindowMonotone
<1>6. q = m => vq = vm
  OBVIOUS
<1> SUFFICES /\ (w >= vm /\ w < vm + F - 1) <=> (n =< d /\ vd < vn + F - 1)
             /\ q = m <=> d = n
  OBVIOUS
<1> HIDE DEF N, W, F, q, m, vq, vm, vd, vn, w
<1>7. N * a \in Nat /\ N * b \in Nat /\ W * a \in Nat /\ W * b \in Nat
  BY <1>1
<1>8. CASE b = a
  <2>1. N * b = N * a /\ W * b = W * a
    BY <1>8
  <2> QED
    BY <1>1, <1>2, <1>3, <1>4, <1>5, <1>6, <1>7, <2>1
<1>9. CASE b = a + 1
  <2>1. N * b = N * a + N /\ W * b = W * a + W
    BY <1>1, <1>9
  <2> QED
    BY <1>1, <1>2, <1>3, <1>4, <1>5, <1>6, <1>7, <2>1
<1>10. CASE a = b + 1
  <2>1. N * a = N * b + N /\ W * a = W * b + W
    BY <1>1, <1>10
  <2> QED
    BY <1>1, <1>2, <1>3, <1>4, <1>5, <1>6, <1>7, <2>1
<1>11. ASSUME b >= a + 2 PROVE FALSE
  <2>1. N * b >= N * (a + 2)
    BY <1>1, <1>11
  <2>2. N * (a + 2) = N * a + 2 * N
    BY <1>1
  <2> QED
    BY <1>1, <1>2, <1>3, <1>7, <2>1, <2>2
<1>12. ASSUME a >= b + 2 PROVE FALSE
  <2>1. W * a >= W * (b + 2)
    BY <1>1, <1>12
  <2>2. W * (b + 2) = W * b + 2 * W
    BY <1>1
  <2> QED
    BY <1>1, <1>2, <1>3, <1>7, <2>1, <2>2
<1> QED
  BY <1>8, <1>9, <1>10, <1>11, <1>12

\* What the network may still deliver is not that far back.
LEMMA FreshIsNear ==
  ASSUME NEW n \in Nat, NEW d \in Nat, d + Lifetime >= n
  PROVE  Window(n) =< Window(d) + (RELIABLE_WINDOWS - FREE_RELIABLE_WINDOWS + 1)
<1> DEFINE a == RELIABLE_WINDOWS - FREE_RELIABLE_WINDOWS + 1
<1>1. a \in Nat /\ RELIABLE_WINDOW_SIZE \in Nat
  BY NumberConstants
<1>2. Lifetime = a * RELIABLE_WINDOW_SIZE
  BY DEF Lifetime
<1> HIDE DEF a
<1>3. n =< d + RELIABLE_WINDOW_SIZE * a
  BY <1>1, <1>2
<1>4. Window(n) =< Window(d) + a
  BY <1>1, <1>3, WindowSpan
<1> QED
  BY <1>4 DEF a

-----------------------------------------------------------------------------
(* How the sending peer numbers its commands. *)

\* The commands that were transmitted or will be.
Made == network \cup ToSet(outgoingUnreliable)

Sequenced(e) == e.type # "SEND_UNSEQUENCED"

\* The last reliable number that a packet uses or waits for.
LastNumber(e) ==
  e.reliable + (IF e.type = "SEND_FRAGMENT" THEN e.count - 1 ELSE 0)

\* The numbers of e say that it was submitted before f: its last reliable number
\* is smaller, or both are unreliable and follow the same reliable packet.
Precedes(e, f) ==
  /\ LastNumber(e) =< f.reliable
  /\ LastNumber(e) = f.reliable =>
       /\ f.type \in UnreliableTypes
       /\ e.type \in UnreliableTypes => e.number < f.number

\* All commands of a packet make the same entry of the receiver's lists.
OneNumbering ==
  \A c, d \in Made : c.packet = d.packet => Incoming(c) = Incoming(d)

NumbersInOrder ==
  \A c, d \in Made :
    Sequenced(c) /\ Sequenced(d) /\ c.packet < d.packet =>
      Precedes(Incoming(c), Incoming(d))

\* The counters of the sending peer are the last numbers it used.
NumbersUsed ==
  \A c \in Made :
    LET e == Incoming(c) IN
    /\ e.count = IF e.type \in FragmentTypes THEN submitted[c.packet].fragments ELSE 0
    /\ Sequenced(e) => LastNumber(e) =< outgoingReliableSequenceNumber
    /\ e.type \in UnreliableTypes =>
         /\ e.number >= 1
         /\ e.reliable = outgoingReliableSequenceNumber =>
              e.number =< outgoingUnreliableSequenceNumber

Numbered ==
  /\ OneNumbering
  /\ NumbersInOrder
  /\ NumbersUsed
  /\ outgoingReliableSequenceNumber < incomingReliableSequenceNumber + SeqSpace

\* What the commands of a packet look like to the receiver.
LEMMA CommandsForNumbers ==
  ASSUME SenderType, NEW k \in Kinds, NEW i \in Packets
  PROVE  \E e :
           /\ \A p \in DOMAIN CommandsFor(i, k) : Incoming(CommandsFor(i, k)[p]) = e
           /\ e.packet = i /\ e.type = TypeFor(k)
           /\ e.count = IF TypeFor(k) \in FragmentTypes THEN k.fragments ELSE 0
           /\ TypeFor(k) = "SEND_FRAGMENT" \/ k.fragments = 1 \/ TypeFor(k) \notin ReliableTypes
           /\ TypeFor(k) \in ReliableTypes => e.reliable = outgoingReliableSequenceNumber + 1
           /\ TypeFor(k) \in UnreliableTypes =>
                /\ e.reliable = outgoingReliableSequenceNumber
                /\ e.number = outgoingUnreliableSequenceNumber + 1
<1> DEFINE cs == CommandsFor(i, k)
           n == k.fragments
           t == TypeFor(k)
           r0 == outgoingReliableSequenceNumber
           r1 == r0 + 1
           u0 == outgoingUnreliableSequenceNumber + 1
           g0 == outgoingUnsequencedGroup + 1
           Entered(r, u, m) == [packet |-> i, type |-> t, reliable |-> r, number |-> u,
                                count |-> m, fragments |-> {}]
<1>1. n \in Nat /\ n >= 1
  BY KindsHaveFragments
<1>2. t \in {"SEND_UNRELIABLE_FRAGMENT", "SEND_FRAGMENT", "SEND_UNSEQUENCED",
             "SEND_RELIABLE", "SEND_UNRELIABLE"}
  BY DEF TypeFor
<1>3. t \in {"SEND_UNRELIABLE_FRAGMENT", "SEND_FRAGMENT"} <=> n > 1
  BY <1>1 DEF TypeFor
<1>4. CASE t = "SEND_UNRELIABLE_FRAGMENT"
  <2>1. cs = [f \in 1 .. n |-> Command(i, t, r0, u0, f - 1, n)]
    BY <1>4 DEF CommandsFor
  <2>2. t \in UnreliableTypes /\ t \notin ReliableTypes /\ t \in FragmentTypes
    BY <1>4 DEF UnreliableTypes, ReliableTypes, FragmentTypes
  <2> HIDE DEF cs, n, t, r0, u0
  <2>3. ASSUME NEW p \in 1 .. n
        PROVE  Incoming(cs[p]) = Entered(r0, u0, n)
    <3>1. cs[p] = Command(i, t, r0, u0, p - 1, n)
      BY <2>1
    <3> QED
      BY <1>4, <2>2, <3>1 DEF Command, Incoming
  <2>4. DOMAIN cs = 1 .. n
    BY <2>1
  <2>5. WITNESS Entered(r0, u0, n)
  <2> QED
    BY <2>2, <2>3, <2>4 DEF cs, n, t, r0, u0
<1>5. CASE t = "SEND_FRAGMENT"
  <2>1. cs = [f \in 1 .. n |-> Command(i, t, r0 + f, r1, f - 1, n)]
    BY <1>5 DEF CommandsFor
  <2>2. t \notin UnreliableTypes /\ t \in ReliableTypes /\ t \in FragmentTypes
    BY <1>5 DEF UnreliableTypes, ReliableTypes, FragmentTypes
  <2>0. r1 = r0 + 1
    OBVIOUS
  <2> HIDE DEF cs, n, t, r0, u0, r1
  <2>3. ASSUME NEW p \in 1 .. n
        PROVE  Incoming(cs[p]) = Entered(r1, 0, n)
    <3>1. cs[p] = Command(i, t, r0 + p, r1, p - 1, n)
      BY <2>1
    <3> QED
      BY <1>5, <2>2, <3>1 DEF Command, Incoming
  <2>4. DOMAIN cs = 1 .. n
    BY <2>1
  <2>5. WITNESS Entered(r1, 0, n)
  <2> QED
    BY <1>5, <2>0, <2>2, <2>3, <2>4 DEF cs, n, t, r0, u0
<1>6. CASE t \in {"SEND_UNSEQUENCED", "SEND_RELIABLE", "SEND_UNRELIABLE"}
  <2>1. n = 1 /\ t \notin FragmentTypes
    BY <1>1, <1>3, <1>6 DEF FragmentTypes
  <2>2. CASE t = "SEND_UNSEQUENCED"
    <3>1. cs = <<Command(i, t, 0, g0, 0, 0)>>
      BY <2>2 DEF CommandsFor
    <3>2. t \notin UnreliableTypes /\ t \notin ReliableTypes
      BY <2>2 DEF UnreliableTypes, ReliableTypes
    <3> HIDE DEF cs, n, t, g0
    <3>3. Incoming(cs[1]) = Entered(0, 0, 0) /\ DOMAIN cs = {1}
      BY <2>2, <3>1, <3>2 DEF Command, Incoming
    <3>4. WITNESS Entered(0, 0, 0)
    <3> QED
      BY <2>1, <3>2, <3>3 DEF cs, n, t
  <2>3. CASE t = "SEND_RELIABLE"
    <3>1. cs = <<Command(i, t, r1, 0, 0, 0)>>
      BY <2>3 DEF CommandsFor
    <3>2. t \notin UnreliableTypes /\ t \in ReliableTypes
      BY <2>3 DEF UnreliableTypes, ReliableTypes
    <3>0. r1 = r0 + 1
      OBVIOUS
    <3> HIDE DEF cs, n, t, r0, r1
    <3>3. Incoming(cs[1]) = Entered(r1, 0, 0) /\ DOMAIN cs = {1}
      BY <2>3, <3>1, <3>2 DEF Command, Incoming
    <3>4. WITNESS Entered(r1, 0, 0)
    <3> QED
      BY <2>1, <3>0, <3>2, <3>3 DEF cs, n, t, r0
  <2>4. CASE t = "SEND_UNRELIABLE"
    <3>1. cs = <<Command(i, t, r0, u0, 0, 0)>>
      BY <2>4 DEF CommandsFor
    <3>2. t \in UnreliableTypes /\ t \notin ReliableTypes
      BY <2>4 DEF UnreliableTypes, ReliableTypes
    <3> HIDE DEF cs, n, t, r0, u0
    <3>3. Incoming(cs[1]) = Entered(r0, u0, 0) /\ DOMAIN cs = {1}
      BY <2>4, <3>1, <3>2 DEF Command, Incoming
    <3>4. WITNESS Entered(r0, u0, 0)
    <3> QED
      BY <2>1, <3>2, <3>3 DEF cs, n, t, r0, u0
  <2> QED
    BY <1>6, <2>2, <2>3, <2>4
<1> QED
  BY <1>2, <1>4, <1>5, <1>6

\* Only enet_peer_send makes commands.
LEMMA MadeStep ==
  ASSUME SenderInv, [Next]_vars
  PROVE  \/ \E k \in Kinds :
              /\ Send(k)
              /\ Len(submitted) + 1 \in Packets
              /\ Made' = Made \cup ToSet(CommandsFor(Len(submitted) + 1, k))
         \/ /\ Made' \subseteq Made
            /\ UNCHANGED <<submitted, outgoingReliableSequenceNumber,
                           outgoingUnreliableSequenceNumber>>
<1> DEFINE q == outgoingUnreliable
<1>1. /\ q \in Seq(CommandType) /\ Len(q) \in Nat /\ DOMAIN q = 1 .. Len(q)
  BY SenderFacts
<1>2. ASSUME NEW k \in Kinds, Send(k)
      PROVE  /\ Len(submitted) + 1 \in Packets
             /\ Made' = Made \cup ToSet(CommandsFor(Len(submitted) + 1, k))
  <2> DEFINE i == Len(submitted) + 1
             cs == CommandsFor(i, k)
  <2>1. i \in Packets
    BY <1>2 DEF Send
  <2>2. cs \in Seq(CommandType)
    BY <2>1, CommandsForPacket DEF SenderInv
  <2>3. \/ network' = network \cup ToSet(cs) /\ outgoingUnreliable' = q
        \/ network' = network /\ outgoingUnreliable' = q \o cs
    <3> HIDE DEF cs
    <3>1. TypeFor(k) \in ReliableTypes => SetupReliable(cs)
      <4>1. TypeFor(k) \in ReliableTypes => TypeFor(k) \notin UnreliableTypes
        BY DEF ReliableTypes, UnreliableTypes
      <4> QED
        BY <1>2, <4>1 DEF Send, cs
    <3>2. TypeFor(k) \in UnreliableTypes => SetupUnreliable(cs)
      <4>1. TypeFor(k) \in UnreliableTypes => TypeFor(k) \notin ReliableTypes
        BY DEF ReliableTypes, UnreliableTypes
      <4> QED
        BY <1>2, <4>1 DEF Send, cs
    <3>3. TypeFor(k) \notin ReliableTypes \cup UnreliableTypes => SetupUnsequenced(cs)
      BY <1>2 DEF Send, cs
    <3> QED
      BY <3>1, <3>2, <3>3 DEF SetupReliable, SetupUnreliable, SetupUnsequenced
  <2> HIDE DEF cs, q
  <2>4. CASE network' = network \cup ToSet(cs) /\ outgoingUnreliable' = q
    BY <2>1, <2>4 DEF Made, q, cs
  <2>5. CASE network' = network /\ outgoingUnreliable' = q \o cs
    <3>1. /\ Len(q \o cs) = Len(q) + Len(cs) /\ q \o cs \in Seq(CommandType)
          /\ \A p \in 1 .. Len(q) + Len(cs) :
               (q \o cs)[p] = IF p =< Len(q) THEN q[p] ELSE cs[p - Len(q)]
      BY <1>1, <2>2, ConcatProperties
    <3>2. DOMAIN (q \o cs) = 1 .. Len(q) + Len(cs) /\ Len(cs) \in Nat /\ DOMAIN cs = 1 .. Len(cs)
      BY <2>2, <3>1, LenProperties
    <3> DEFINE both == q \o cs
    <3> HIDE DEF both
    <3>3. ASSUME NEW p \in DOMAIN both PROVE both[p] \in ToSet(q) \cup ToSet(cs)
      <4>1. CASE p =< Len(q)
        <5>1. p \in DOMAIN q /\ both[p] = q[p]
          BY <1>1, <3>1, <3>2, <4>1 DEF both
        <5> QED
          BY <5>1 DEF ToSet
      <4>2. CASE ~ p =< Len(q)
        <5>1. p - Len(q) \in DOMAIN cs /\ both[p] = cs[p - Len(q)]
          BY <1>1, <3>1, <3>2, <4>2 DEF both
        <5> QED
          BY <5>1 DEF ToSet
      <4> QED
        BY <4>1, <4>2
    <3>4. ASSUME NEW p \in DOMAIN q PROVE q[p] \in ToSet(both)
      <4>1. p \in DOMAIN both /\ both[p] = q[p]
        BY <1>1, <3>1, <3>2 DEF both
      <4> QED
        BY <4>1 DEF ToSet
    <3>5. ASSUME NEW p \in DOMAIN cs PROVE cs[p] \in ToSet(both)
      <4>1. PICK r : r = Len(q) + p
        OBVIOUS
      <4>2. r \in DOMAIN both /\ both[r] = cs[p]
        BY <1>1, <3>1, <3>2, <4>1 DEF both
      <4> QED
        BY <4>2 DEF ToSet
    <3>6. ToSet(both) = ToSet(q) \cup ToSet(cs)
      BY <3>3, <3>4, <3>5 DEF ToSet
    <3> QED
      BY <2>1, <2>5, <3>6 DEF Made, q, cs, both
  <2> QED
    BY <2>3, <2>4, <2>5
<1>3. CASE SendUnreliable
  <2>1. /\ q # <<>> /\ network' = network \cup {Head(q)} /\ outgoingUnreliable' = Tail(q)
        /\ UNCHANGED <<submitted, numberVars>>
    BY <1>3 DEF SendUnreliable
  <2>2. /\ Head(q) = q[1] /\ 1 \in DOMAIN q /\ DOMAIN Tail(q) = 1 .. Len(q) - 1
        /\ \A p \in 1 .. Len(q) - 1 : Tail(q)[p] = q[p + 1] /\ p + 1 \in DOMAIN q
    BY <1>1, <2>1, HeadTailProperties, EmptySeq, LenProperties
  <2>3. ToSet(Tail(q)) \subseteq ToSet(q) /\ Head(q) \in ToSet(q)
    BY <2>2 DEF ToSet
  <2>4. Made' \subseteq Made
    BY <2>1, <2>3 DEF Made
  <2> QED
    BY <2>1, <2>4 DEF numberVars
<1>4. CASE Throttle
  <2> DEFINE m == ThrottledWith(q)
  <2>1. /\ q # <<>> /\ network' = network
        /\ outgoingUnreliable' = SubSeq(q, m + 1, Len(q))
        /\ UNCHANGED <<submitted, numberVars>>
    BY <1>4 DEF Throttle
  <2>2. m \in 0 .. Len(q)
    BY <1>1, <2>1, ThrottledRun
  <2> HIDE DEF m, q
  <2>3. Len(SubSeq(q, m + 1, Len(q))) = Len(q) - m /\ SubSeq(q, m + 1, Len(q)) \in Seq(CommandType)
    BY <1>1, <2>2, HeldSplit
  <2>4. \A p \in 1 .. Len(q) - m : SubSeq(q, m + 1, Len(q))[p] = q[m + p]
    BY <1>1, <2>2, HeldSplit
  <2> DEFINE t == SubSeq(q, m + 1, Len(q))
  <2> HIDE DEF t
  <2>5. DOMAIN t = 1 .. Len(q) - m /\ \A p \in 1 .. Len(q) - m : t[p] = q[m + p]
    BY <2>3, <2>4, LenProperties DEF t
  <2>6. ASSUME NEW p \in DOMAIN t PROVE t[p] \in ToSet(q)
    <3>1. m + p \in DOMAIN q /\ t[p] = q[m + p]
      BY <1>1, <2>2, <2>5
    <3> QED
      BY <3>1 DEF ToSet
  <2>7. ToSet(t) \subseteq ToSet(q)
    BY <2>6 DEF ToSet
  <2>8. Made' \subseteq Made
    BY <2>1, <2>7 DEF Made, q, t
  <2> QED
    BY <2>1, <2>8 DEF numberVars
<1>5. ASSUME UNCHANGED <<submitted, numberVars, network, outgoingUnreliable>>
      PROVE  /\ Made' \subseteq Made
             /\ UNCHANGED <<submitted, outgoingReliableSequenceNumber,
                            outgoingUnreliableSequenceNumber>>
  BY <1>5 DEF Made, numberVars
<1>6. ASSUME NEW c \in network, Handle(c)
      PROVE  UNCHANGED <<submitted, numberVars, network, outgoingUnreliable>>
  BY <1>6 DEF Handle, HandleSendReliable, HandleSendUnreliable, HandleSendFragment,
              HandleSendUnreliableFragment, HandleSendUnsequenced, senderVars, queueVars
<1>7. DatagramSent \/ Receive \/ UNCHANGED vars =>
        UNCHANGED <<submitted, numberVars, network, outgoingUnreliable>>
  BY DEF DatagramSent, Receive, vars, senderVars, queueVars
<1> QED
  BY <1>2, <1>3, <1>4, <1>5, <1>6, <1>7 DEF Next

LEMMA MadeIsTyped ==
  ASSUME SenderInv, CommandsFit, NEW c \in Made
  PROVE  /\ c \in CommandType /\ Fits(c) /\ c.packet \in DOMAIN submitted
         /\ Incoming(c) \in Entry
         /\ Incoming(c).type = c.type /\ Incoming(c).count = c.count
         /\ Incoming(c).fragments = {} /\ Incoming(c).packet = c.packet
<1> DEFINE q == outgoingUnreliable
<1>1. /\ q \in Seq(CommandType) /\ DOMAIN q = 1 .. Len(q)
      /\ network \subseteq CommandType
  BY SenderFacts
<1>2. CASE c \in network
  <2>1. c \in CommandType /\ Fits(c) /\ c.packet \in DOMAIN submitted
    BY <1>1, <1>2 DEF CommandsFit, SenderInv, OnlySubmitted
  <2> QED
    BY <2>1, IncomingIsEntry
<1>3. CASE c \in ToSet(q)
  <2>1. PICK p \in DOMAIN q : c = q[p]
    BY <1>3 DEF ToSet
  <2>2. c \in CommandType
    BY <1>1, <2>1, ElementOfSeq
  <2>3. Fits(c) /\ c.packet \in DOMAIN submitted
    BY <2>1 DEF CommandsFit, SenderInv, OnlySubmitted
  <2> QED
    BY <2>2, <2>3, IncomingIsEntry
<1> QED
  BY <1>2, <1>3 DEF Made

\* The numbers stay in order, and stay used, when a packet is submitted.
LEMMA NumberedSend ==
  ASSUME SenderInv, CommandsFit, Numbered, incomingReliableSequenceNumber \in Nat,
         NEW k \in Kinds, Send(k), Len(submitted) + 1 \in Packets,
         Made' = Made \cup ToSet(CommandsFor(Len(submitted) + 1, k))
  PROVE  Numbered'
<1> DEFINE i == Len(submitted) + 1
           cs == CommandsFor(i, k)
           t == TypeFor(k)
           out == outgoingReliableSequenceNumber
           last == outgoingUnreliableSequenceNumber
           n == incomingReliableSequenceNumber
<1>1. /\ i \in Packets /\ out \in Nat /\ last \in Nat /\ n \in Nat /\ SeqSpace \in Nat
      /\ Len(submitted) \in Nat /\ DOMAIN submitted = 1 .. Len(submitted)
  BY NumberConstants, LenProperties, DeliveryAssumption DEF SenderInv, SenderType
<1>2. PICK e :
           /\ \A p \in DOMAIN cs : Incoming(cs[p]) = e
           /\ e.packet = i /\ e.type = t
           /\ e.count = IF t \in FragmentTypes THEN k.fragments ELSE 0
           /\ t = "SEND_FRAGMENT" \/ k.fragments = 1 \/ t \notin ReliableTypes
           /\ t \in ReliableTypes => e.reliable = out + 1
           /\ t \in UnreliableTypes => e.reliable = out /\ e.number = last + 1
  BY <1>1, CommandsForNumbers DEF SenderInv
<1>3. /\ t \in ReliableTypes \cup UnreliableTypes \cup {"SEND_UNSEQUENCED"}
      /\ cs \in Seq(CommandType) /\ Len(cs) = k.fragments
      /\ \A p \in DOMAIN cs : cs[p].packet = i /\ cs[p].type = t
  BY <1>1, CommandsForPacket DEF SenderInv
<1>4. k.fragments \in Nat /\ k.fragments >= 1
  BY KindsHaveFragments
<1>5. /\ out + k.fragments < n + SeqSpace /\ n' = n
      /\ submitted' = Append(submitted, k)
  BY DEF Send, LessThanATurnAhead, receiverVars, channelVars
<1>6. submitted'[i] = k /\ \A j \in DOMAIN submitted : submitted'[j] = submitted[j]
  <2>1. submitted \in Seq(Kinds)
    BY DEF SenderInv, SenderType
  <2> QED
    BY <1>1, <1>5, <2>1, AppendProperties
<1>7. /\ t \in ReliableTypes => out' = out + k.fragments /\ last' = 0
      /\ t \in UnreliableTypes => out' = out /\ last' = last + 1
      /\ t = "SEND_UNSEQUENCED" => out' = out /\ last' = last
  <2> HIDE DEF cs, t
  <2>1. CASE t \in ReliableTypes
    <3>0. t \notin UnreliableTypes /\ t # "SEND_UNSEQUENCED"
      BY <2>1 DEF ReliableTypes, UnreliableTypes
    <3>1. SetupReliable(cs)
      BY <2>1, <3>0 DEF Send, cs, t
    <3> QED
      BY <1>3, <3>0, <3>1 DEF SetupReliable
  <2>2. CASE t \in UnreliableTypes
    <3>1. t \notin ReliableTypes /\ t # "SEND_UNSEQUENCED"
      BY <2>2 DEF ReliableTypes, UnreliableTypes
    <3>2. SetupUnreliable(cs)
      BY <2>2, <3>1 DEF Send, cs, t
    <3> QED
      BY <3>1, <3>2 DEF SetupUnreliable
  <2>3. CASE t = "SEND_UNSEQUENCED"
    <3>1. t \notin ReliableTypes /\ t \notin UnreliableTypes
      BY <2>3 DEF ReliableTypes, UnreliableTypes
    <3>2. SetupUnsequenced(cs)
      BY <3>1 DEF Send, cs, t
    <3> QED
      BY <3>1, <3>2 DEF SetupUnsequenced
  <2> QED
    BY <1>3, <2>1, <2>2, <2>3
<1>8. ASSUME NEW c \in ToSet(cs) PROVE c.packet = i /\ c.type = t /\ Incoming(c) = e
  <2> HIDE DEF cs, t, i
  <2>1. PICK p \in DOMAIN cs : c = cs[p]
    BY DEF ToSet
  <2> QED
    BY <1>2, <1>3, <2>1
<1>9. ASSUME NEW c \in Made
      PROVE  /\ c.packet \in DOMAIN submitted /\ c.packet < i /\ c.packet # i
             /\ Incoming(c).packet = c.packet /\ Incoming(c).type = c.type
             /\ Incoming(c).reliable \in Nat /\ Incoming(c).count \in Nat
             /\ Incoming(c).number \in Nat /\ LastNumber(Incoming(c)) \in Int
  <2>1. /\ Incoming(c) \in Entry /\ c.packet \in DOMAIN submitted
        /\ Incoming(c).packet = c.packet /\ Incoming(c).type = c.type
    BY MadeIsTyped
  <2>2. /\ Incoming(c).reliable \in Nat /\ Incoming(c).count \in Nat
        /\ Incoming(c).number \in Nat
    BY <2>1 DEF Entry
  <2> QED
    BY <1>1, <2>1, <2>2 DEF LastNumber
<1>10. Made' = Made \cup ToSet(cs)
  OBVIOUS
<1> HIDE DEF cs, t, i, out, last, n
<1>11. LastNumber(e) \in Int /\ (Sequenced(e) => LastNumber(e) =< out' /\ out =< e.reliable /\ out =< out')
  <2>1. CASE t = "SEND_FRAGMENT"
    <3>1. t \in ReliableTypes /\ t \in FragmentTypes
      BY <2>1 DEF ReliableTypes, FragmentTypes
    <3> QED
      BY <1>1, <1>2, <1>4, <1>7, <2>1, <3>1 DEF LastNumber
  <2>2. CASE t \in ReliableTypes /\ t # "SEND_FRAGMENT"
    <3>1. k.fragments = 1
      BY <1>2, <2>2
    <3> QED
      BY <1>1, <1>2, <1>4, <1>7, <2>2, <3>1 DEF LastNumber
  <2>3. CASE t \in UnreliableTypes
    <3>1. t # "SEND_FRAGMENT"
      BY <2>3 DEF UnreliableTypes
    <3> QED
      BY <1>1, <1>2, <1>7, <2>3, <3>1 DEF LastNumber
  <2>4. CASE t = "SEND_UNSEQUENCED"
    <3>1. e.type = t /\ e.type # "SEND_FRAGMENT" /\ ~ Sequenced(e)
      BY <1>2, <2>4 DEF Sequenced
    <3>2. e.reliable \in Int
      <4>1. PICK p \in DOMAIN cs : TRUE
        BY <1>3, <1>4, LenProperties
      <4>2. cs[p] \in ToSet(cs)
        BY <4>1 DEF ToSet
      <4>3. Incoming(cs[p]) = e /\ cs[p].type = t /\ cs[p] \in CommandType
        BY <1>2, <1>3, <4>1, ElementOfSeq, LenProperties
      <4>4. e.reliable = cs[p].reliable
        BY <2>4, <4>3 DEF Incoming
      <4> QED
        BY <4>3, <4>4 DEF CommandType
    <3> QED
      BY <3>1, <3>2 DEF LastNumber
  <2> QED
    BY <1>3, <2>1, <2>2, <2>3, <2>4
<1>12. OneNumbering'
  BY <1>8, <1>9, <1>10 DEF Numbered, OneNumbering
<1>13. ASSUME NEW c \in Made, Sequenced(c), Sequenced(e) PROVE Precedes(Incoming(c), e)
  <2>1. Incoming(c).type = c.type
    BY <1>9
  <2>2. /\ LastNumber(Incoming(c)) =< out
        /\ c.type \in UnreliableTypes =>
             (Incoming(c).reliable = out => Incoming(c).number =< last)
    BY <1>13, <2>1 DEF Numbered, NumbersUsed, Sequenced, out, last
  <2>3. t \in ReliableTypes \/ t \in UnreliableTypes
    BY <1>2, <1>3, <1>13 DEF Sequenced
  <2>4. CASE t \in ReliableTypes
    BY <1>1, <1>2, <1>9, <2>2, <2>4 DEF Precedes
  <2>5. CASE t \in UnreliableTypes
    <3>1. e.type \in UnreliableTypes /\ e.reliable = out /\ e.number = last + 1
      BY <1>2, <2>5
    <3>2. ASSUME Incoming(c).type \in UnreliableTypes, LastNumber(Incoming(c)) = out
          PROVE  Incoming(c).number < e.number
      <4>1. Incoming(c).type # "SEND_FRAGMENT"
        BY <3>2 DEF UnreliableTypes
      <4>2. LastNumber(Incoming(c)) = Incoming(c).reliable
        BY <1>9, <4>1 DEF LastNumber
      <4> QED
        BY <1>1, <1>9, <2>1, <2>2, <3>1, <3>2, <4>2
    <3> QED
      BY <1>1, <1>9, <2>2, <3>1, <3>2 DEF Precedes
  <2> QED
    BY <2>3, <2>4, <2>5
<1>14. ASSUME NEW c \in Made', NEW d \in Made', Sequenced(c), Sequenced(d), c.packet < d.packet
       PROVE  Precedes(Incoming(c), Incoming(d))
  <2>1. CASE d \in Made
    <3>1. c \in Made
      <4>1. d.packet < i /\ i \in Int /\ d.packet \in Int
        BY <1>1, <1>9, <2>1 DEF i
      <4>2. c \in ToSet(cs) => c.packet = i
        BY <1>8
      <4> QED
        BY <1>10, <1>14, <4>1, <4>2
    <3> QED
      BY <1>14, <2>1, <3>1 DEF Numbered, NumbersInOrder
  <2>2. CASE d \in ToSet(cs)
    <3>1. d.packet = i /\ d.type = t /\ Incoming(d) = e
      BY <1>8, <2>2
    <3>2. c \in Made
      <4>1. c \in ToSet(cs) => c.packet = i /\ i \in Int
        BY <1>1, <1>8 DEF i
      <4> QED
        BY <1>10, <1>14, <3>1, <4>1
    <3>3. Sequenced(e)
      BY <1>2, <1>14, <3>1 DEF Sequenced
    <3> QED
      BY <1>13, <1>14, <3>1, <3>2, <3>3
  <2> QED
    BY <1>10, <2>1, <2>2
<1>15. NumbersInOrder'
  BY <1>14 DEF NumbersInOrder
<1>16. ASSUME NEW c \in Made'
       PROVE  LET x == Incoming(c) IN
              /\ x.count = IF x.type \in FragmentTypes THEN submitted'[c.packet].fragments ELSE 0
              /\ Sequenced(x) => LastNumber(x) =< out'
              /\ x.type \in UnreliableTypes =>
                   /\ x.number >= 1
                   /\ x.reliable = out' => x.number =< last'
  <2>1. CASE c \in Made
    <3> DEFINE x == Incoming(c)
    <3>1. /\ x.count = IF x.type \in FragmentTypes THEN submitted[c.packet].fragments ELSE 0
          /\ Sequenced(x) => LastNumber(x) =< out
          /\ x.type \in UnreliableTypes => x.number >= 1 /\ (x.reliable = out => x.number =< last)
      BY <2>1 DEF Numbered, NumbersUsed, out, last
    <3>2. /\ c.packet \in DOMAIN submitted /\ x.reliable \in Nat /\ x.number \in Nat
          /\ LastNumber(x) \in Int
      BY <1>9, <2>1
    <3>3. x.type \in UnreliableTypes => Sequenced(x) /\ LastNumber(x) = x.reliable
      BY <3>2 DEF Sequenced, LastNumber, UnreliableTypes
    <3> HIDE DEF x
    <3>4. submitted'[c.packet] = submitted[c.packet]
      BY <1>6, <3>2
    <3>5. CASE t \in ReliableTypes
      <4>1. out' = out + k.fragments
        BY <1>7, <3>5
      <4>2. Sequenced(x) => LastNumber(x) < out' /\ LastNumber(x) =< out'
        BY <1>1, <1>4, <3>1, <3>2, <4>1
      <4>3. x.type \in UnreliableTypes => x.reliable # out'
        BY <1>1, <3>2, <3>3, <4>1, <4>2
      <4> QED
        BY <3>1, <3>4, <4>2, <4>3 DEF x
    <3>6. CASE t \notin ReliableTypes
      <4>1. out' = out /\ last' >= last /\ last' \in Int
        BY <1>1, <1>3, <1>7, <3>6
      <4>2. x.type \in UnreliableTypes => (x.reliable = out' => x.number =< last')
        BY <1>1, <3>1, <3>2, <4>1
      <4> QED
        BY <3>1, <3>4, <4>1, <4>2 DEF x
    <3> QED
      BY <3>5, <3>6
  <2>2. CASE c \in ToSet(cs)
    <3>1. Incoming(c) = e /\ c.packet = i
      BY <1>8, <2>2
    <3>2. e.count = IF e.type \in FragmentTypes THEN submitted'[i].fragments ELSE 0
      BY <1>2, <1>6 DEF i
    <3>3. e.type \in UnreliableTypes => e.number >= 1 /\ (e.reliable = out' => e.number =< last')
      BY <1>1, <1>2, <1>7
    <3> QED
      BY <1>11, <3>1, <3>2, <3>3
  <2> QED
    BY <1>10, <2>1, <2>2
<1>17. NumbersUsed'
  BY <1>16 DEF NumbersUsed, out, last
<1>18. out' < n' + SeqSpace
  <2>1. out < n + SeqSpace
    BY DEF Numbered, out, n
  <2>2. out' = out \/ out' = out + k.fragments
    BY <1>3, <1>7
  <2> QED
    BY <1>1, <1>4, <1>5, <2>1, <2>2 DEF out, n
<1>19. (outgoingReliableSequenceNumber < incomingReliableSequenceNumber + SeqSpace)'
  BY <1>18 DEF out, n
<1> QED
  BY <1>12, <1>15, <1>17, <1>19 DEF Numbered

LEMMA NumberedInit ==
  ASSUME Init
  PROVE  Numbered
<1>1. Made = {}
  BY DEF Init, Made, ToSet
<1>2. /\ outgoingReliableSequenceNumber = ReliableBefore
      /\ incomingReliableSequenceNumber = ReliableBefore /\ ReliableBefore \in Nat
  BY DeliveryAssumption DEF Init
<1>3. OneNumbering /\ NumbersInOrder /\ NumbersUsed
  BY <1>1 DEF OneNumbering, NumbersInOrder, NumbersUsed
<1>4. outgoingReliableSequenceNumber < incomingReliableSequenceNumber + SeqSpace
  BY <1>2, NumberConstants
<1> QED
  BY <1>3, <1>4 DEF Numbered

\* The sending peer numbers its commands in the order of submission, as long as
\* the number received last never goes back.
LEMMA NumberedStep ==
  ASSUME SenderInv, CommandsFit, Numbered, [Next]_vars,
         incomingReliableSequenceNumber \in Nat,
         incomingReliableSequenceNumber' \in Nat,
         incomingReliableSequenceNumber =< incomingReliableSequenceNumber'
  PROVE  Numbered'
<1>1. CASE \E k \in Kinds :
             /\ Send(k)
             /\ Len(submitted) + 1 \in Packets
             /\ Made' = Made \cup ToSet(CommandsFor(Len(submitted) + 1, k))
  BY <1>1, NumberedSend
<1>2. CASE /\ Made' \subseteq Made
           /\ UNCHANGED <<submitted, outgoingReliableSequenceNumber,
                          outgoingUnreliableSequenceNumber>>
  <2>1. OneNumbering' /\ NumbersInOrder'
    BY <1>2 DEF Numbered, OneNumbering, NumbersInOrder
  <2>2. NumbersUsed'
    BY <1>2 DEF Numbered, NumbersUsed
  <2>3. outgoingReliableSequenceNumber \in Nat /\ SeqSpace \in Nat
    BY NumberConstants DEF SenderInv, SenderType
  <2>4. PICK turn \in Nat : turn = SeqSpace
    BY <2>3
  <2>5. /\ outgoingReliableSequenceNumber < incomingReliableSequenceNumber + turn
        /\ outgoingReliableSequenceNumber' = outgoingReliableSequenceNumber
    BY <1>2, <2>4 DEF Numbered
  <2>6. outgoingReliableSequenceNumber' < incomingReliableSequenceNumber' + turn
    <3>1. PICK a \in Nat : a = incomingReliableSequenceNumber
      OBVIOUS
    <3>2. PICK b \in Nat : b = incomingReliableSequenceNumber'
      OBVIOUS
    <3>3. PICK d \in Nat : d = outgoingReliableSequenceNumber
      BY <2>3
    <3>4. a =< b /\ d < a + turn
      BY <2>5, <3>1, <3>2, <3>3
    <3>5. d < b + turn
      BY <3>4
    <3> QED
      BY <2>5, <3>2, <3>3, <3>5
  <2>7. (outgoingReliableSequenceNumber < incomingReliableSequenceNumber + SeqSpace)'
    BY <2>4, <2>6
  <2> QED
    BY <2>1, <2>2, <2>7 DEF Numbered
<1> QED
  BY <1>1, <1>2, MadeStep

-----------------------------------------------------------------------------
(* What the receiving peer may hold. *)

\* Entry e was made for command c, whatever fragments it got since.
CameFrom(e, c) ==
  /\ e.packet = c.packet /\ e.type = c.type /\ e.count = c.count
  /\ e.reliable = Incoming(c).reliable /\ e.number = Incoming(c).number

\* The entries that commands from the network make, with their own fragments.
Arrivals ==
  {e \in Entry : /\ \E c \in network : CameFrom(e, c)
                 /\ \A x \in e.fragments : x.packet = e.packet}

\* A packet of more fragments than this could pass so many numbers at once that
\* an old unreliable packet is taken for one of the next turn.
SmallPackets ==
  \A k \in Kinds :
    k.fragments =< (RELIABLE_WINDOWS - 2 * FREE_RELIABLE_WINDOWS + 3)
                     * RELIABLE_WINDOW_SIZE

\* The number of an entry is in the windows from that of n on that are accepted.
Ahead(e, n) ==
  /\ n =< e.reliable
  /\ Window(e.reliable) < Window(n) + FREE_RELIABLE_WINDOWS - 1

InOrder(s) == \A p, r \in DOMAIN s : p < r => s[p].packet < s[r].packet

LEMMA AheadIsNear ==
  ASSUME NEW q \in Nat, NEW n \in Nat, Window(q) < Window(n) + FREE_RELIABLE_WINDOWS - 1
  PROVE  q < n + RELIABLE_WINDOW_SIZE * (FREE_RELIABLE_WINDOWS - 1) /\ q < n + SeqSpace
<1> DEFINE K == RELIABLE_WINDOW_SIZE
           W == RELIABLE_WINDOWS
           F == FREE_RELIABLE_WINDOWS
           v == Window(q)
           w == Window(n)
<1>1. /\ K \in Nat \ {0} /\ W \in Nat /\ F \in 2 .. W /\ v \in Nat /\ w \in Nat
      /\ K * v \in Nat /\ q < K * v + K /\ K * w \in Nat /\ K * w =< n
      /\ v < w + F - 1 /\ SeqSpace = W * K
  BY NumberConstants, WindowInterval DEF SeqSpace
<1> HIDE DEF K, W, F, v, w
<1>2. K * (v + 1) =< K * (w + (F - 1))
  BY <1>1
<1>3. K * (v + 1) = K * v + K /\ K * (w + (F - 1)) = K * w + K * (F - 1)
  BY <1>1
<1>4. K * (F - 1) =< W * K /\ K * (F - 1) \in Nat
  <2>1. K * (F - 1) =< K * W /\ K * W = W * K
    BY <1>1
  <2> QED
    BY <1>1, <2>1
<1>5. q < n + K * (F - 1)
  BY <1>1, <1>2, <1>3, <1>4
<1>6. W * K \in Nat
  BY <1>1
<1>7. q < n + SeqSpace
  BY <1>1, <1>4, <1>5, <1>6
<1> QED
  BY <1>5, <1>7 DEF K, F

LEMMA TypesDiffer ==
  ASSUME NEW t \in AllTypes
  PROVE  /\ t \in ReliableTypes => t \notin UnreliableTypes /\ t # "SEND_UNSEQUENCED"
         /\ t \in UnreliableTypes => t \notin ReliableTypes /\ t # "SEND_UNSEQUENCED"
                                      /\ t # "SEND_FRAGMENT"
         /\ t # "SEND_UNSEQUENCED" => t \in ReliableTypes \/ t \in UnreliableTypes
         /\ t = "SEND_FRAGMENT" => t \in ReliableTypes /\ t \in FragmentTypes
         /\ t \in ReliableTypes /\ t # "SEND_FRAGMENT" => t \notin FragmentTypes
BY DEF AllTypes, ReliableTypes, UnreliableTypes, FragmentTypes

\* The numbers of an entry.
LEMMA ArrivalNumbers ==
  ASSUME SenderInv, CommandsFit, Numbered, NEW e \in Arrivals
  PROVE  /\ e \in Entry /\ e.packet \in DOMAIN submitted /\ e.packet \in Nat
         /\ e.type \in AllTypes /\ e.reliable \in Nat /\ e.number \in Nat /\ e.count \in Nat
         /\ LastNumber(e) \in Nat /\ e.reliable =< LastNumber(e)
         /\ Sequenced(e) => LastNumber(e) =< outgoingReliableSequenceNumber
         /\ LastNumber(e) = e.reliable
              + (IF e.type \in ReliableTypes /\ e.count > 0 THEN e.count - 1 ELSE 0)
         /\ e.type \in FragmentTypes => e.count = submitted[e.packet].fragments /\ e.count >= 1
         /\ e.type \notin FragmentTypes => e.count = 0
         /\ e.type \in UnreliableTypes => LastNumber(e) = e.reliable /\ e.number >= 1
         /\ e.type \in ReliableTypes => e.number = 0
         /\ SmallPackets => LastNumber(e) < e.reliable
              + (RELIABLE_WINDOWS - 2 * FREE_RELIABLE_WINDOWS + 3) * RELIABLE_WINDOW_SIZE
                \/ e.type # "SEND_FRAGMENT"
<1>1. PICK c \in network : CameFrom(e, c)
  BY DEF Arrivals
<1>2. e \in Entry /\ c \in Made
  BY DEF Arrivals, Made
<1>3. /\ c.packet \in DOMAIN submitted /\ c \in CommandType
      /\ Incoming(c).type = c.type /\ Incoming(c).count = c.count
  BY <1>2, MadeIsTyped
<1>4. /\ e.type \in AllTypes /\ e.reliable \in Nat /\ e.number \in Nat /\ e.count \in Nat
      /\ e.packet \in Nat
  BY <1>2 DEF Entry, Packets
<1>5. /\ e.count = IF e.type \in FragmentTypes THEN submitted[e.packet].fragments ELSE 0
      /\ e.type \in UnreliableTypes => e.number >= 1
  BY <1>1, <1>2, <1>3 DEF CameFrom, Numbered, NumbersUsed
<1>6. LastNumber(e) = LastNumber(Incoming(c))
  BY <1>1, <1>3 DEF CameFrom, LastNumber
<1>7. Sequenced(e) => LastNumber(e) =< outgoingReliableSequenceNumber
  BY <1>1, <1>2, <1>3, <1>6 DEF CameFrom, Sequenced, Numbered, NumbersUsed
<1>8. e.packet \in DOMAIN submitted /\ submitted[e.packet] \in Kinds
  <2>1. submitted \in Seq(Kinds)
    BY DEF SenderInv, SenderType
  <2>2. e.packet \in DOMAIN submitted
    BY <1>1, <1>3 DEF CameFrom
  <2> QED
    BY <2>1, <2>2, ElementOfSeq, LenProperties
<1>9. e.type \in FragmentTypes => e.count = submitted[e.packet].fragments /\ e.count >= 1
  BY <1>5, <1>8, KindsHaveFragments
<1>10. e.type \in ReliableTypes => e.number = 0
  <2>1. e.type \in ReliableTypes => c.type \notin UnreliableTypes
    BY <1>1, <1>4, TypesDiffer DEF CameFrom
  <2> QED
    BY <1>1, <2>1 DEF CameFrom, Incoming
<1>11. SmallPackets => (e.type = "SEND_FRAGMENT" => e.count =<
         (RELIABLE_WINDOWS - 2 * FREE_RELIABLE_WINDOWS + 3) * RELIABLE_WINDOW_SIZE)
  BY <1>4, <1>8, <1>9, TypesDiffer DEF SmallPackets
<1> DEFINE span == (RELIABLE_WINDOWS - 2 * FREE_RELIABLE_WINDOWS + 3) * RELIABLE_WINDOW_SIZE
<1>12. span \in Int
  BY NumberConstants
<1> HIDE DEF span
<1>13. CASE e.type = "SEND_FRAGMENT"
  <2>1. e.type \in FragmentTypes /\ e.type \in ReliableTypes /\ e.type \notin UnreliableTypes
    BY <1>4, <1>13, TypesDiffer
  <2>2. LastNumber(e) = e.reliable + (e.count - 1) /\ e.count >= 1
    BY <1>9, <1>13, <2>1 DEF LastNumber
  <2>3. SmallPackets => LastNumber(e) < e.reliable + span
    BY <1>4, <1>11, <1>12, <1>13, <2>2 DEF span
  <2> QED
    BY <1>2, <1>4, <1>5, <1>7, <1>8, <1>9, <1>10, <1>13, <2>1, <2>2, <2>3 DEF span
<1>14. CASE e.type # "SEND_FRAGMENT"
  <2>1. LastNumber(e) = e.reliable
    BY <1>4, <1>14 DEF LastNumber
  <2>2. e.type \in ReliableTypes => e.count = 0
    BY <1>4, <1>5, <1>14, TypesDiffer
  <2> QED
    BY <1>2, <1>4, <1>5, <1>7, <1>8, <1>9, <1>10, <1>14, <2>1, <2>2
<1> QED
  BY <1>13, <1>14

\* The order of the numbers is that of the packets.
LEMMA ArrivalOrder ==
  ASSUME SenderInv, CommandsFit, Numbered, NEW e \in Arrivals, NEW f \in Arrivals,
         Sequenced(e), Sequenced(f)
  PROVE  /\ e.packet < f.packet => Precedes(e, f)
         /\ e.packet = f.packet => /\ e.reliable = f.reliable /\ e.number = f.number
                                   /\ e.type = f.type /\ e.count = f.count
<1>1. PICK c \in network : CameFrom(e, c)
  BY DEF Arrivals
<1>2. PICK d \in network : CameFrom(f, d)
  BY DEF Arrivals
<1>3. c \in Made /\ d \in Made
  BY DEF Made
<1>4. /\ Incoming(c).type = c.type /\ Incoming(c).count = c.count
      /\ Incoming(d).type = d.type /\ Incoming(d).count = d.count
  BY <1>3, MadeIsTyped
<1>5. LastNumber(e) = LastNumber(Incoming(c))
  BY <1>1, <1>4 DEF CameFrom, LastNumber
<1>6. Precedes(Incoming(c), Incoming(d)) => Precedes(e, f)
  BY <1>1, <1>2, <1>4, <1>5 DEF CameFrom, Precedes
<1>7. e.packet < f.packet => Precedes(e, f)
  BY <1>1, <1>2, <1>3, <1>6 DEF CameFrom, Sequenced, Numbered, NumbersInOrder
<1>8. e.packet = f.packet => Incoming(c) = Incoming(d)
  BY <1>1, <1>2, <1>3 DEF CameFrom, Numbered, OneNumbering
<1> QED
  BY <1>1, <1>2, <1>4, <1>7, <1>8 DEF CameFrom

\* In one of the lists, that is the order of the pairs of numbers.
LEMMA PairOrder ==
  ASSUME SenderInv, CommandsFit, Numbered, NEW e \in Arrivals, NEW f \in Arrivals,
         NEW R \in {ReliableTypes, UnreliableTypes}, e.type \in R, f.type \in R
  PROVE  /\ Sequenced(e) /\ Sequenced(f)
         /\ e.packet =< f.packet <=>
              e.reliable < f.reliable \/ (e.reliable = f.reliable /\ e.number =< f.number)
         /\ e.packet = f.packet <=> e.reliable = f.reliable /\ e.number = f.number
<1>1. /\ e.type \in AllTypes /\ e.reliable \in Nat /\ e.number \in Nat /\ e.packet \in Nat
      /\ LastNumber(e) \in Nat /\ e.reliable =< LastNumber(e)
      /\ e.type \in UnreliableTypes => LastNumber(e) = e.reliable
      /\ e.type \in ReliableTypes => e.number = 0
  BY ArrivalNumbers
<1>2. /\ f.type \in AllTypes /\ f.reliable \in Nat /\ f.number \in Nat /\ f.packet \in Nat
      /\ LastNumber(f) \in Nat /\ f.reliable =< LastNumber(f)
      /\ f.type \in UnreliableTypes => LastNumber(f) = f.reliable
      /\ f.type \in ReliableTypes => f.number = 0
  BY ArrivalNumbers
<1>3. Sequenced(e) /\ Sequenced(f)
  BY <1>1, <1>2, TypesDiffer DEF Sequenced
<1>4. \/ /\ e.type \in ReliableTypes /\ f.type \in ReliableTypes
         /\ e.type \notin UnreliableTypes /\ f.type \notin UnreliableTypes
      \/ e.type \in UnreliableTypes /\ f.type \in UnreliableTypes
  BY <1>1, <1>2, TypesDiffer
<1>5. /\ e.packet < f.packet => Precedes(e, f)
      /\ e.packet = f.packet => e.reliable = f.reliable /\ e.number = f.number
  BY <1>3, ArrivalOrder
<1>6. f.packet < e.packet => Precedes(f, e)
  BY <1>3, ArrivalOrder
<1>7. e.packet < f.packet => e.reliable < f.reliable
                               \/ (e.reliable = f.reliable /\ e.number < f.number)
  BY <1>1, <1>2, <1>4, <1>5 DEF Precedes
<1>8. f.packet < e.packet => f.reliable < e.reliable
                               \/ (e.reliable = f.reliable /\ f.number < e.number)
  BY <1>1, <1>2, <1>4, <1>6 DEF Precedes
<1> QED
  BY <1>1, <1>2, <1>3, <1>5, <1>7, <1>8

-----------------------------------------------------------------------------
(* The search from the back of a list. *)

\* The entries that may wait in the list of types R while n was received last.
Waiters(R, n) == {e \in Arrivals : e.type \in R /\ Ahead(e, n)}

\* However the wire numbers wrap around, the test of the search compares packets.
LEMMA NotAfterIs ==
  ASSUME SenderInv, CommandsFit, Numbered, NEW n \in Nat,
         NEW R \in {ReliableTypes, UnreliableTypes},
         NEW e \in Waiters(R, n), NEW f \in Waiters(R, n)
  PROVE  /\ NotAfter(e, f, Wire(n)) <=> e.packet =< f.packet
         /\ SameNumbers(e, f) <=> e.packet = f.packet
<1> DEFINE a == Unwrap(Wire(e.reliable), Wire(n))
           b == Unwrap(Wire(f.reliable), Wire(n))
           m == Wire(n)
           d == e.reliable
           q == f.reliable
<1>1. e \in Arrivals /\ f \in Arrivals /\ e.type \in R /\ f.type \in R /\ Ahead(e, n) /\ Ahead(f, n)
  BY DEF Waiters
<1>2. d \in Nat /\ q \in Nat
  BY <1>1, ArrivalNumbers
<1>3. n =< d /\ n =< q /\ d < n + SeqSpace /\ q < n + SeqSpace
  BY <1>1, <1>2, AheadIsNear DEF Ahead
<1>4. m \in Nat /\ a = m + (d - n) /\ b = m + (q - n)
  BY <1>2, <1>3, UnwrapAhead
<1>5. /\ e.packet =< f.packet <=> d < q \/ (d = q /\ e.number =< f.number)
      /\ e.packet = f.packet <=> d = q /\ e.number = f.number
  BY <1>1, PairOrder
<1>6. Wire(d) = Wire(q) => d = q
  BY <1>2, <1>3, SameWire
<1>7. NotAfter(e, f, m) <=> a < b \/ (a = b /\ e.number =< f.number)
  BY DEF NotAfter
<1>8. SameNumbers(e, f) <=> Wire(d) = Wire(q) /\ e.number = f.number
  BY DEF SameNumbers
<1> HIDE DEF a, b, m, d, q
<1>9. (a < b <=> d < q) /\ (a = b <=> d = q)
  BY <1>2, <1>4
<1>10. NotAfter(e, f, m) <=> e.packet =< f.packet
  BY <1>5, <1>7, <1>9
<1>11. SameNumbers(e, f) <=> e.packet = f.packet
  BY <1>5, <1>6, <1>8
<1> QED
  BY <1>10, <1>11 DEF m

\* The position of the search: what is not after the new command is before it.
LEMMA SearchEnds ==
  ASSUME SenderInv, CommandsFit, Numbered, incomingReliableSequenceNumber \in Nat,
         NEW R \in {ReliableTypes, UnreliableTypes},
         NEW s \in Seq(Waiters(R, incomingReliableSequenceNumber)), InOrder(s),
         NEW e \in Waiters(R, incomingReliableSequenceNumber)
  PROVE  LET p == LastNotAfter(s, e) IN
         /\ p \in 0 .. Len(s)
         /\ \A r \in 1 .. p : s[r].packet =< e.packet
         /\ \A r \in p + 1 .. Len(s) : e.packet < s[r].packet
         /\ \A r \in 1 .. Len(s) : s[r] \in Waiters(R, incomingReliableSequenceNumber)
                                   /\ s[r].packet \in Nat
         /\ e.packet \in Nat
<1> DEFINE n == incomingReliableSequenceNumber
           L == Waiters(R, n)
           P == {r \in DOMAIN s : NotAfter(s[r], e, Wire(n))}
           p == LastNotAfter(s, e)
<1>1. Len(s) \in Nat /\ DOMAIN s = 1 .. Len(s) /\ \A r \in 1 .. Len(s) : s[r] \in L
  BY LenProperties, ElementOfSeq
<1>2. p = IF P = {} THEN 0 ELSE CHOOSE r \in P : \A k \in P : k =< r
  BY DEF LastNotAfter
<1>3. \A f \in L : f.packet \in Nat
  BY ArrivalNumbers DEF Waiters
<1> HIDE DEF p, L
<1>4. \A r \in 1 .. Len(s) : NotAfter(s[r], e, Wire(n)) <=> s[r].packet =< e.packet
  BY <1>1, NotAfterIs DEF L
<1>5. P = {r \in 1 .. Len(s) : s[r].packet =< e.packet}
  BY <1>1, <1>4
<1> HIDE DEF P
<1>6. p \in 0 .. Len(s) /\ (\A r \in P : r =< p) /\ (p # 0 => p \in P)
  <2>1. CASE P = {}
    BY <1>1, <1>2, <2>1
  <2>2. CASE P # {}
    <3>1. P \subseteq 1 .. Len(s)
      BY <1>5
    <3>2. p \in P /\ \A r \in P : r =< p
      BY <1>1, <1>2, <2>2, <3>1, LastIsGreatest
    <3> QED
      BY <1>1, <3>1, <3>2
  <2> QED
    BY <2>1, <2>2
<1>7. e.packet \in Nat
  BY <1>3 DEF L
<1>8. ASSUME NEW r \in 1 .. p PROVE s[r].packet =< e.packet
  <2>1. p \in P /\ p \in 1 .. Len(s) /\ s[p].packet =< e.packet
    BY <1>1, <1>5, <1>6, <1>8
  <2>2. r \in 1 .. Len(s)
    BY <1>1, <1>6
  <2>3. s[r].packet \in Nat /\ s[p].packet \in Nat
    BY <1>1, <1>3, <2>1, <2>2
  <2>4. CASE r = p
    BY <2>1, <2>4
  <2>5. CASE r # p
    <3>1. r < p
      BY <1>6, <2>2, <2>5
    <3>2. s[r].packet < s[p].packet
      BY <1>1, <2>1, <2>2, <3>1 DEF InOrder
    <3> QED
      BY <1>7, <2>1, <2>3, <3>2
  <2> QED
    BY <2>4, <2>5
<1>9. ASSUME NEW r \in p + 1 .. Len(s) PROVE e.packet < s[r].packet
  <2>1. r \in 1 .. Len(s) /\ ~ (r =< p)
    BY <1>1, <1>6
  <2>2. ~ (s[r].packet =< e.packet)
    BY <1>5, <1>6, <2>1
  <2> QED
    BY <1>1, <1>3, <1>7, <2>1, <2>2
<1>10. \A r \in 1 .. Len(s) : s[r] \in L /\ s[r].packet \in Nat
  BY <1>1, <1>3
<1> QED
  BY <1>6, <1>7, <1>8, <1>9, <1>10 DEF p, L

\* A command whose packet is found belongs to that packet.
LEMMA TwinIsThePacket ==
  ASSUME SenderInv, CommandsFit, Numbered, incomingReliableSequenceNumber \in Nat,
         NEW R \in {ReliableTypes, UnreliableTypes},
         NEW s \in Seq(Waiters(R, incomingReliableSequenceNumber)), InOrder(s),
         NEW e \in Waiters(R, incomingReliableSequenceNumber)
  PROVE  /\ HasTwin(s, e) => /\ TwinOf(s, e) \in 1 .. Len(s)
                             /\ s[TwinOf(s, e)].packet = e.packet
         /\ ~ HasTwin(s, e) => \A r \in 1 .. Len(s) : s[r].packet # e.packet
<1> DEFINE n == incomingReliableSequenceNumber
           p == LastNotAfter(s, e)
<1>1. /\ p \in 0 .. Len(s)
      /\ \A r \in 1 .. p : s[r].packet =< e.packet
      /\ \A r \in p + 1 .. Len(s) : e.packet < s[r].packet
      /\ \A r \in 1 .. Len(s) : s[r] \in Waiters(R, n) /\ s[r].packet \in Nat
      /\ e.packet \in Nat
  BY SearchEnds
<1>2. TwinOf(s, e) = p /\ (HasTwin(s, e) <=> p # 0 /\ SameNumbers(s[p], e))
  BY DEF TwinOf, HasTwin
<1>3. Len(s) \in Nat /\ DOMAIN s = 1 .. Len(s)
  BY LenProperties
<1> HIDE DEF p
<1>4. p # 0 => p \in 1 .. Len(s) /\ (SameNumbers(s[p], e) <=> s[p].packet = e.packet)
  <2>1. p # 0 => p \in 1 .. Len(s)
    BY <1>1, <1>3
  <2>2. p # 0 => (SameNumbers(s[p], e) <=> s[p].packet = e.packet)
    BY <1>1, <2>1, NotAfterIs
  <2> QED
    BY <2>1, <2>2
<1>5. ASSUME ~ HasTwin(s, e), NEW r \in 1 .. Len(s) PROVE s[r].packet # e.packet
  <2>1. CASE r > p
    <3>1. r \in p + 1 .. Len(s)
      BY <1>1, <1>3, <2>1
    <3> QED
      BY <1>1, <3>1
  <2>2. CASE r = p
    BY <1>2, <1>3, <1>4, <1>5, <2>2
  <2>3. CASE r < p
    <3>1. p \in 1 .. Len(s) /\ p \in 1 .. p
      BY <1>1, <1>3, <2>3
    <3>2. s[p].packet =< e.packet /\ s[r].packet < s[p].packet
      BY <1>1, <1>3, <2>3, <3>1 DEF InOrder
    <3> QED
      BY <1>1, <3>1, <3>2
  <2> QED
    BY <1>1, <1>3, <2>1, <2>2, <2>3
<1> QED
  BY <1>2, <1>4, <1>5

\* A new command is put where the list stays in order.
LEMMA InsertedInOrder ==
  ASSUME SenderInv, CommandsFit, Numbered, incomingReliableSequenceNumber \in Nat,
         NEW R \in {ReliableTypes, UnreliableTypes},
         NEW s \in Seq(Waiters(R, incomingReliableSequenceNumber)), InOrder(s),
         NEW e \in Waiters(R, incomingReliableSequenceNumber), ~ HasTwin(s, e)
  PROVE  LET t == Inserted(s, e) IN
         /\ t \in Seq(Waiters(R, incomingReliableSequenceNumber))
         /\ InOrder(t)
         /\ \A k \in DOMAIN t : t[k] = e \/ \E r \in DOMAIN s : t[k] = s[r]
<1> DEFINE n == incomingReliableSequenceNumber
           p == LastNotAfter(s, e)
           t == Inserted(s, e)
           L == Waiters(R, n)
<1>1. /\ p \in 0 .. Len(s)
      /\ \A r \in 1 .. p : s[r].packet =< e.packet
      /\ \A r \in p + 1 .. Len(s) : e.packet < s[r].packet
      /\ \A r \in 1 .. Len(s) : s[r] \in L /\ s[r].packet \in Nat
      /\ e.packet \in Nat
  BY SearchEnds
<1>2. \A r \in 1 .. Len(s) : s[r].packet # e.packet
  BY TwinIsThePacket
<1>3. Len(s) \in Nat /\ DOMAIN s = 1 .. Len(s)
  BY LenProperties
<1>4. /\ t \in Seq(L) /\ Len(t) = Len(s) + 1
      /\ \A k \in 1 .. Len(s) + 1 :
           t[k] = IF k =< p THEN s[k] ELSE IF k = p + 1 THEN e ELSE s[k - 1]
  <2>1. L \subseteq Entry
    BY DEF Waiters, Arrivals
  <2>2. Sized(L)
    BY <2>1, EntriesSized DEF Sized
  <2> QED
    BY <2>2, InsertedKeeps
<1>5. DOMAIN t = 1 .. Len(s) + 1
  BY <1>4, LenProperties
<1> HIDE DEF p, t, L, n
<1>6. ASSUME NEW j \in DOMAIN t, NEW k \in DOMAIN t, j < k
      PROVE  t[j].packet < t[k].packet
  <2>1. j \in Nat /\ k \in Nat /\ j >= 1 /\ k =< Len(s) + 1 /\ p \in Nat /\ p =< Len(s)
    BY <1>1, <1>3, <1>5
  <2>2. CASE k =< p
    <3>1. t[j] = s[j] /\ t[k] = s[k] /\ j \in 1 .. Len(s) /\ k \in 1 .. Len(s)
      BY <1>3, <1>4, <1>5, <1>6, <2>1, <2>2
    <3> QED
      BY <1>3, <1>6, <3>1 DEF InOrder
  <2>3. CASE k = p + 1
    <3>1. t[j] = s[j] /\ t[k] = e /\ j \in 1 .. p /\ j \in 1 .. Len(s)
      BY <1>3, <1>4, <1>5, <1>6, <2>1, <2>3
    <3>2. s[j].packet =< e.packet /\ s[j].packet # e.packet /\ s[j].packet \in Nat
      BY <1>1, <1>2, <3>1
    <3> QED
      BY <1>1, <3>1, <3>2
  <2>4. CASE k > p + 1
    <3>1. t[k] = s[k - 1] /\ k - 1 \in 1 .. Len(s) /\ k - 1 \in p + 1 .. Len(s)
      BY <1>3, <1>4, <1>5, <2>1, <2>4
    <3>2. CASE j =< p
      <4>1. t[j] = s[j] /\ j \in 1 .. Len(s) /\ j < k - 1
        BY <1>3, <1>4, <1>5, <2>1, <2>4, <3>2
      <4> QED
        BY <1>3, <3>1, <4>1 DEF InOrder
    <3>3. CASE j = p + 1
      <4>1. t[j] = e
        BY <1>4, <1>5, <2>1, <3>3
      <4> QED
        BY <1>1, <3>1, <4>1
    <3>4. CASE j > p + 1
      <4>1. t[j] = s[j - 1] /\ j - 1 \in 1 .. Len(s) /\ j - 1 < k - 1
        BY <1>3, <1>4, <1>5, <1>6, <2>1, <3>4
      <4> QED
        BY <1>3, <3>1, <4>1 DEF InOrder
    <3> QED
      BY <2>1, <3>2, <3>3, <3>4
  <2> QED
    BY <2>1, <2>2, <2>3, <2>4
<1>7. ASSUME NEW k \in DOMAIN t
      PROVE  t[k] = e \/ \E r \in DOMAIN s : t[k] = s[r]
  <2>1. k \in Nat /\ k >= 1 /\ k =< Len(s) + 1 /\ p \in Nat /\ p =< Len(s)
    BY <1>1, <1>3, <1>5
  <2>2. CASE k =< p
    BY <1>3, <1>4, <1>5, <2>1, <2>2
  <2>3. CASE k = p + 1
    BY <1>4, <1>5, <2>1, <2>3
  <2>4. CASE k > p + 1
    <3>1. t[k] = s[k - 1] /\ k - 1 \in 1 .. Len(s)
      BY <1>3, <1>4, <1>5, <2>1, <2>4
    <3> QED
      BY <1>3, <3>1
  <2> QED
    BY <2>1, <2>2, <2>3, <2>4
<1>8. InOrder(t)
  BY <1>6 DEF InOrder
<1> QED
  BY <1>4, <1>7, <1>8 DEF t, L, n

-----------------------------------------------------------------------------
(* What waits in a channel. *)

\* A command that a handler accepts is for the windows from the last number on.
LEMMA AcceptedIsAhead ==
  ASSUME SenderInv, CommandsFit, Numbered, incomingReliableSequenceNumber \in Nat,
         NEW c \in network, c.type # "SEND_UNSEQUENCED", Fresh(c),
         AcceptedWindow(Wire(Incoming(c).reliable))
  PROVE  /\ Incoming(c) \in Arrivals
         /\ Ahead(Incoming(c), incomingReliableSequenceNumber)
         /\ Wire(Incoming(c).reliable) = Wire(incomingReliableSequenceNumber)
              <=> Incoming(c).reliable = incomingReliableSequenceNumber
<1> DEFINE n == incomingReliableSequenceNumber
           e == Incoming(c)
           d == e.reliable
<1>1. c \in Made
  BY DEF Made
<1>2. e \in Entry /\ e.type = c.type /\ e.count = c.count /\ e.fragments = {} /\ e.packet = c.packet
  BY <1>1, MadeIsTyped
<1>3. e \in Arrivals
  BY <1>2 DEF Arrivals, CameFrom
<1>4. d \in Nat /\ LastNumber(e) \in Nat /\ d =< LastNumber(e)
      /\ (Sequenced(e) => LastNumber(e) =< outgoingReliableSequenceNumber)
  BY <1>3, ArrivalNumbers
<1>5. Sequenced(e)
  BY <1>2 DEF Sequenced
<1>6. outgoingReliableSequenceNumber \in Nat /\ SeqSpace \in Nat
      /\ outgoingReliableSequenceNumber < n + SeqSpace
  BY NumberConstants DEF Numbered, SenderInv, SenderType
<1>7. d + Lifetime >= n
  BY DEF Fresh
<1>8. AcceptedWindow(Wire(d)) <=> /\ SeenWindow(Wire(d), Wire(n)) >= Window(Wire(n))
                                  /\ SeenWindow(Wire(d), Wire(n)) < Window(Wire(n)) + FREE_RELIABLE_WINDOWS - 1
  BY DEF AcceptedWindow, SeenWindow
<1> HIDE DEF n, d
<1>9. n \in Nat /\ d < n + SeqSpace
  BY <1>4, <1>5, <1>6 DEF n
<1>10. Window(n) =< Window(d) + (RELIABLE_WINDOWS - FREE_RELIABLE_WINDOWS + 1)
  BY <1>4, <1>7, <1>9, FreshIsNear
<1>11. /\ (/\ SeenWindow(Wire(d), Wire(n)) >= Window(Wire(n))
           /\ SeenWindow(Wire(d), Wire(n)) < Window(Wire(n)) + FREE_RELIABLE_WINDOWS - 1)
            <=> (n =< d /\ Window(d) < Window(n) + FREE_RELIABLE_WINDOWS - 1)
       /\ Wire(d) = Wire(n) <=> d = n
  BY <1>4, <1>9, <1>10, WindowTest
<1>12. n =< d /\ Window(d) < Window(n) + FREE_RELIABLE_WINDOWS - 1
  BY <1>8, <1>11 DEF d
<1> QED
  BY <1>3, <1>11, <1>12 DEF Ahead, n, d

\* The list of reliable packets: in order, and after the number n.
ReliableWaits(s, n) ==
  /\ s \in Seq(Waiters(ReliableTypes, n))
  /\ InOrder(s)
  /\ \A p \in DOMAIN s : s[p].reliable # n

\* The list of the others when the number is m now and was n at the last
\* dispatch, and u the last unreliable number: in order behind an unsequenced one.
UnreliableWaits(s, n, m, u) ==
  /\ s \in Seq(Arrivals)
  /\ \A p \in DOMAIN s :
       /\ s[p].type \notin ReliableTypes
       /\ s[p].type = "SEND_UNSEQUENCED" => p = 1
       /\ Sequenced(s[p]) => Ahead(s[p], n) /\ (s[p].reliable = m => s[p].number > u)
  /\ \A p, r \in DOMAIN s : p < r /\ Sequenced(s[p]) => s[p].packet < s[r].packet

\* After a dispatch it has no unsequenced one and, of those that wait for no
\* reliable packet, only partial ones.
UnreliableSettled(s, n, u) ==
  /\ UnreliableWaits(s, n, n, u)
  /\ \A p \in DOMAIN s :
       s[p].type \in UnreliableTypes /\ (s[p].reliable = n => fragmentsRemaining(s[p]) > 0)

\* Commands that were dispatched: fragmented ones had all their fragments.
Whole(s) ==
  /\ s \in Seq(Arrivals)
  /\ \A p \in DOMAIN s : s[p].type \in FragmentTypes => fragmentsRemaining(s[p]) =< 0

\* The walk of the unreliable dispatch sees the numbers as they are.
LEMMA WalkSees ==
  ASSUME SenderInv, CommandsFit, Numbered, NEW n \in Nat, NEW m \in Nat, n =< m,
         Window(m) =< Window(n) + (RELIABLE_WINDOWS - FREE_RELIABLE_WINDOWS + 1),
         NEW e \in Arrivals, Sequenced(e) => Ahead(e, n)
  PROVE  /\ e.reliable \in Nat
         /\ Early(e, m) <=> Sequenced(e) /\ m < e.reliable
         /\ Current(e, m) <=> Sequenced(e) /\ e.reliable = m
         /\ Sequenced(e) /\ m =< e.reliable => Ahead(e, m)
<1> DEFINE d == e.reliable
<1>1. d \in Nat
  BY ArrivalNumbers
<1>2. CASE ~ Sequenced(e)
  BY <1>1, <1>2 DEF Sequenced, Early, Current
<1>3. CASE Sequenced(e)
  <2>1. n =< d /\ Window(d) < Window(n) + FREE_RELIABLE_WINDOWS - 1
    BY <1>3 DEF Ahead
  <2>2. d < n + SeqSpace
    BY <1>1, <2>1, AheadIsNear
  <2>3. SeqSpace \in Nat /\ FREE_RELIABLE_WINDOWS \in Nat /\ RELIABLE_WINDOWS \in Nat
    BY NumberConstants
  <2>4. d < m + SeqSpace
    BY <1>1, <2>2, <2>3
  <2>5. Window(n) =< Window(d) /\ Window(n) =< Window(m)
        /\ Window(n) \in Nat /\ Window(d) \in Nat /\ Window(m) \in Nat
    BY <1>1, <2>1, WindowMonotone, WindowInterval
  <2>6. Window(m) =< Window(d) + (RELIABLE_WINDOWS - FREE_RELIABLE_WINDOWS + 1)
    BY <2>3, <2>5
  <2>7. Window(d) < Window(m) + FREE_RELIABLE_WINDOWS - 1
    BY <2>1, <2>3, <2>5
  <2>8. /\ (/\ SeenWindow(Wire(d), Wire(m)) >= Window(Wire(m))
            /\ SeenWindow(Wire(d), Wire(m)) < Window(Wire(m)) + FREE_RELIABLE_WINDOWS - 1)
             <=> (m =< d /\ Window(d) < Window(m) + FREE_RELIABLE_WINDOWS - 1)
        /\ Wire(d) = Wire(m) <=> d = m
    BY <1>1, <2>4, <2>6, WindowTest
  <2>9. Early(e, m) <=> /\ Sequenced(e) /\ Wire(d) # Wire(m)
                        /\ SeenWindow(Wire(d), Wire(m)) >= Window(Wire(m))
                        /\ SeenWindow(Wire(d), Wire(m)) < Window(Wire(m)) + FREE_RELIABLE_WINDOWS - 1
    BY DEF Early, SeenWindow, Sequenced
  <2>10. Current(e, m) <=> Sequenced(e) /\ Wire(d) = Wire(m)
    BY DEF Current, Sequenced
  <2> HIDE DEF d
  <2>11. Early(e, m) <=> Sequenced(e) /\ m < d
    BY <1>1, <1>3, <2>7, <2>8, <2>9
  <2>12. Current(e, m) <=> Sequenced(e) /\ d = m
    BY <2>8, <2>10
  <2> QED
    BY <1>1, <2>7, <2>11, <2>12 DEF d, Ahead
<1> QED
  BY <1>2, <1>3

\* What a dispatch of unreliable packets handed over when the number was m and
\* the last unreliable number went from u to v: an unsequenced packet, then the
\* complete ones that follow m, in order.
UnreliableHanded(o, s, m, u, v) ==
  /\ Whole(o)
  /\ \A p \in DOMAIN o :
       /\ \E r \in DOMAIN s : o[p] = s[r]
       /\ o[p].type = "SEND_UNSEQUENCED" => p = 1
       /\ Sequenced(o[p]) => /\ o[p].type \in UnreliableTypes
                             /\ o[p].reliable = m /\ u < o[p].number /\ o[p].number =< v
                             /\ fragmentsRemaining(o[p]) =< 0
  /\ v = u \/ \E p \in DOMAIN o : Sequenced(o[p])
  /\ \A p, r \in DOMAIN o : p < r /\ Sequenced(o[p]) => o[p].packet < o[r].packet

\* The dispatch of unreliable packets leaves the list settled.
LEMMA UnreliableDispatch ==
  ASSUME SenderInv, CommandsFit, Numbered, NEW ch \in ChannelType, NEW n \in Nat,
         n =< ch.reliableNumber,
         Window(ch.reliableNumber)
           =< Window(n) + (RELIABLE_WINDOWS - FREE_RELIABLE_WINDOWS + 1),
         UnreliableWaits(ch.unreliable, n, ch.reliableNumber, ch.unreliableNumber)
  PROVE  LET new == DispatchUnreliable(ch)
             m   == ch.reliableNumber IN
         /\ UnreliableSettled(new.unreliable, m, new.unreliableNumber)
         /\ ch.unreliableNumber =< new.unreliableNumber
         /\ \E o : /\ new.out = ch.out \o o
                   /\ UnreliableHanded(o, ch.unreliable, m, ch.unreliableNumber,
                                       new.unreliableNumber)
<1> DEFINE s == ch.unreliable
           m == ch.reliableNumber
           u == ch.unreliableNumber
           E == {p \in DOMAIN s : Early(s[p], m)}
           end == IF E = {} THEN Len(s) ELSE (CHOOSE p \in E : \A r \in E : p =< r) - 1
           F == {p \in 1 .. end : Finished(s[p], m)}
           K == {p \in {end - 1, end} \cap DOMAIN s :
                   \A r \in p .. end : Partial(s[r], m)}
           N == {p \in F : s[p].type # "SEND_UNSEQUENCED"}
           last == CHOOSE p \in N : \A r \in N : r =< p
           rest == end + 1 .. Len(s)
           gone == (1 .. end) \ (F \cup K)
           v == IF N = {} THEN u ELSE s[last].number
           left == At(s, K \cup rest)
           moved == At(s, F)
           lost == DataLength(At(s, gone))
           new == [ch EXCEPT !.unreliable = left, !.unreliableNumber = v,
                             !.out = @ \o moved, !.dropped = @ + lost]
<1>1. DispatchUnreliable(ch) = new
  BY DEF DispatchUnreliable, Kept
<1>2. /\ new.unreliable = left /\ new.unreliableNumber = v /\ new.out = ch.out \o moved
  <2> HIDE DEF left, v, moved, lost
  <2> QED
    BY DEF ChannelType
<1>3. /\ s \in Seq(Arrivals) /\ m \in Nat /\ u \in Nat /\ Len(s) \in Nat /\ DOMAIN s = 1 .. Len(s)
  <2>1. s \in Seq(Arrivals) /\ m \in Nat /\ u \in Nat
    BY DEF UnreliableWaits, ChannelType
  <2> HIDE DEF s
  <2> QED
    BY <2>1, LenProperties
<1>4. end \in 0 .. Len(s) /\ (\A p \in 1 .. end : p \notin E) /\ (end < Len(s) => end + 1 \in E)
  <2>1. E \in SUBSET DOMAIN s
    OBVIOUS
  <2> HIDE DEF s, E
  <2> QED
    BY <1>3, <2>1, WalkEnds
<1> HIDE DEF new, end
\* What the walk sees of each command.
<1>5. ASSUME NEW p \in DOMAIN s
      PROVE  /\ s[p] \in Arrivals /\ s[p] \in Entry
             /\ s[p].reliable \in Nat /\ s[p].number \in Nat /\ s[p].packet \in Nat
             /\ s[p].type \notin ReliableTypes
             /\ s[p].type \in UnreliableTypes \/ s[p].type = "SEND_UNSEQUENCED"
             /\ Sequenced(s[p]) <=> s[p].type \in UnreliableTypes
             /\ Sequenced(s[p]) <=> s[p].type # "SEND_UNSEQUENCED"
             /\ s[p].type = "SEND_UNSEQUENCED" => p = 1
             /\ Sequenced(s[p]) /\ s[p].reliable = m => u < s[p].number
             /\ Early(s[p], m) <=> Sequenced(s[p]) /\ m < s[p].reliable
             /\ Current(s[p], m) <=> Sequenced(s[p]) /\ s[p].reliable = m
             /\ Sequenced(s[p]) /\ m =< s[p].reliable => Ahead(s[p], m)
             /\ fragmentsRemaining(s[p]) \in Int
             /\ s[p].type = "SEND_UNSEQUENCED" => s[p].type \notin FragmentTypes
  <2>1. /\ s[p] \in Arrivals /\ s[p].type \notin ReliableTypes
        /\ s[p].type = "SEND_UNSEQUENCED" => p = 1
        /\ Sequenced(s[p]) => Ahead(s[p], n) /\ (s[p].reliable = m => s[p].number > u)
    BY <1>3, ElementOfSeq DEF UnreliableWaits
  <2> HIDE DEF s, m, u
  <2>2. /\ s[p] \in Entry /\ s[p].type \in AllTypes /\ s[p].reliable \in Nat
        /\ s[p].number \in Nat /\ s[p].packet \in Nat
    BY <2>1, ArrivalNumbers
  <2>3. fragmentsRemaining(s[p]) \in Int
    BY <2>2, RemainingIsNumber
  <2>4. /\ s[p].type \in UnreliableTypes \/ s[p].type = "SEND_UNSEQUENCED"
        /\ s[p].type \in UnreliableTypes => s[p].type # "SEND_UNSEQUENCED"
        /\ s[p].type = "SEND_UNSEQUENCED" => s[p].type \notin FragmentTypes
    BY <2>1, <2>2, TypesDiffer DEF FragmentTypes
  <2>5. /\ Early(s[p], m) <=> Sequenced(s[p]) /\ m < s[p].reliable
        /\ Current(s[p], m) <=> Sequenced(s[p]) /\ s[p].reliable = m
        /\ Sequenced(s[p]) /\ m =< s[p].reliable => Ahead(s[p], m)
    <3>1. n =< m /\ Window(m) =< Window(n) + (RELIABLE_WINDOWS - FREE_RELIABLE_WINDOWS + 1)
      BY DEF m
    <3> QED
      BY <1>3, <2>1, <3>1, WalkSees
  <2> QED
    BY <1>3, <2>1, <2>2, <2>3, <2>4, <2>5 DEF Sequenced
<1>6. \A p, r \in DOMAIN s : p < r /\ Sequenced(s[p]) => s[p].packet < s[r].packet
  BY DEF UnreliableWaits
\* The list is sorted by both numbers.
<1>7. ASSUME NEW p \in DOMAIN s, NEW r \in DOMAIN s, p < r, Sequenced(s[p])
      PROVE  /\ Sequenced(s[r]) /\ s[p].reliable =< s[r].reliable
             /\ s[p].reliable = s[r].reliable => s[p].number < s[r].number
  <2>1. r # 1
    BY <1>3, <1>7
  <2>2. Sequenced(s[r])
    BY <1>5, <2>1
  <2>3. s[p].packet < s[r].packet
    BY <1>6, <1>7
  <2> DEFINE e == s[p]  f == s[r]
  <2>4. /\ e \in Arrivals /\ f \in Arrivals /\ e.type \in UnreliableTypes /\ f.type \in UnreliableTypes
        /\ e.packet \in Nat /\ f.packet \in Nat /\ e.packet < f.packet
        /\ e.reliable \in Nat /\ f.reliable \in Nat /\ e.number \in Nat /\ f.number \in Nat
    BY <1>5, <1>7, <2>2, <2>3
  <2> HIDE DEF e, f
  <2>5. /\ e.packet =< f.packet <=>
             e.reliable < f.reliable \/ (e.reliable = f.reliable /\ e.number =< f.number)
        /\ e.packet = f.packet <=> e.reliable = f.reliable /\ e.number = f.number
    BY <2>4, PairOrder
  <2>6. e.reliable =< f.reliable /\ (e.reliable = f.reliable => e.number < f.number)
    BY <2>4, <2>5
  <2> QED
    BY <2>2, <2>6 DEF e, f
<1> HIDE DEF s, m, u
<1>8. \A p \in rest : p \in DOMAIN s /\ Sequenced(s[p]) /\ m < s[p].reliable
  <2>1. SUFFICES ASSUME NEW p \in rest PROVE p \in DOMAIN s /\ Sequenced(s[p]) /\ m < s[p].reliable
    OBVIOUS
  <2>2. p \in DOMAIN s /\ end + 1 =< p /\ end < Len(s) /\ end + 1 \in Nat
    BY <1>3, <1>4
  <2>3. end + 1 \in DOMAIN s /\ Early(s[end + 1], m)
    BY <1>4, <2>2
  <2>4. PICK q \in DOMAIN s : q = end + 1
    BY <2>3
  <2>5. Sequenced(s[q]) /\ m < s[q].reliable /\ q =< p /\ q \in Nat /\ p \in Nat
    BY <1>3, <1>5, <2>2, <2>3, <2>4
  <2>6. CASE p = q
    BY <2>2, <2>5, <2>6
  <2>7. CASE p # q
    <3>1. q < p
      BY <2>5, <2>7
    <3>2. Sequenced(s[p]) /\ s[q].reliable =< s[p].reliable
      BY <1>7, <2>2, <2>5, <3>1
    <3>3. s[q].reliable \in Nat /\ s[p].reliable \in Nat
      BY <1>5, <2>2
    <3> QED
      BY <1>3, <2>2, <2>5, <3>2, <3>3
  <2> QED
    BY <2>6, <2>7
<1>9. \A p \in K : /\ p \in DOMAIN s /\ p \in 1 .. end
                   /\ Sequenced(s[p]) /\ s[p].reliable = m /\ fragmentsRemaining(s[p]) > 0
  <2>1. SUFFICES ASSUME NEW p \in K
                 PROVE  /\ p \in DOMAIN s /\ p \in 1 .. end
                        /\ Sequenced(s[p]) /\ s[p].reliable = m /\ fragmentsRemaining(s[p]) > 0
    OBVIOUS
  <2>2. p \in DOMAIN s /\ p \in 1 .. end
    BY <1>3, <1>4
  <2>3. p \in p .. end
    BY <1>4, <2>2
  <2>4. Partial(s[p], m)
    BY <2>3
  <2> QED
    BY <1>5, <2>2, <2>4 DEF Partial
<1>10. /\ F \subseteq DOMAIN s /\ N \subseteq 1 .. Len(s) /\ K \cup rest \subseteq DOMAIN s
       /\ F \subseteq 1 .. end
  BY <1>3, <1>4, <1>8, <1>9
<1>11. \A p \in N : /\ p \in 1 .. end /\ p \in DOMAIN s /\ Sequenced(s[p]) /\ s[p].reliable = m
                    /\ fragmentsRemaining(s[p]) =< 0 /\ u < s[p].number
  <2>1. SUFFICES ASSUME NEW p \in N
                 PROVE  /\ p \in 1 .. end /\ p \in DOMAIN s /\ Sequenced(s[p]) /\ s[p].reliable = m
                        /\ fragmentsRemaining(s[p]) =< 0 /\ u < s[p].number
    OBVIOUS
  <2>2. p \in 1 .. end /\ p \in DOMAIN s /\ Finished(s[p], m) /\ s[p].type # "SEND_UNSEQUENCED"
    BY <1>10
  <2> QED
    BY <1>5, <2>2 DEF Finished
\* The last unreliable number is that of the last one dispatched.
<1>12. /\ N = {} => v = u
       /\ N # {} => last \in N /\ v = s[last].number /\ \A p \in N : p =< last
  <2>1. N # {} => last \in N /\ \A p \in N : p =< last
    <3> HIDE DEF N
    <3> QED
      BY <1>3, <1>10, LastIsGreatest
  <2> QED
    BY <2>1
<1> HIDE DEF v, last, E
<1>13. v \in Nat /\ u =< v /\ \A p \in N : s[p].number =< v
  <2>1. CASE N = {}
    BY <1>3, <1>12, <2>1
  <2>2. CASE N # {}
    <3>1. last \in N /\ v = s[last].number /\ last \in DOMAIN s /\ last \in 1 .. end
          /\ Sequenced(s[last]) /\ s[last].reliable = m /\ u < s[last].number
      BY <1>11, <1>12, <2>2
    <3>2. v \in Nat
      BY <1>5, <3>1
    <3>3. ASSUME NEW p \in N PROVE s[p].number =< v
      <4>1. p =< last /\ p \in DOMAIN s /\ Sequenced(s[p]) /\ s[p].reliable = m /\ p \in Nat /\ last \in Nat
        BY <1>3, <1>11, <1>12, <2>2, <3>1
      <4>2. CASE p = last
        BY <3>1, <3>2, <4>2
      <4>3. CASE p # last
        <5>1. p < last
          BY <4>1, <4>3
        <5>2. s[p].number < s[last].number
          BY <1>7, <3>1, <4>1, <5>1
        <5> QED
          BY <1>5, <3>1, <3>2, <4>1, <5>2
      <4> QED
        BY <4>2, <4>3
    <3> QED
      BY <1>3, <3>1, <3>2, <3>3
  <2> QED
    BY <2>1, <2>2
\* A partial command that is kept is behind all that were dispatched.
<1>14. \A p \in K : v < s[p].number
  <2>1. SUFFICES ASSUME NEW p \in K PROVE v < s[p].number
    OBVIOUS
  <2>2. p \in DOMAIN s /\ p \in 1 .. end /\ Sequenced(s[p]) /\ s[p].reliable = m
    BY <1>9
  <2>3. CASE N = {}
    BY <1>5, <1>12, <2>2, <2>3
  <2>4. CASE N # {}
    <3>1. last \in N /\ v = s[last].number /\ last \in DOMAIN s /\ last \in 1 .. end
          /\ Sequenced(s[last]) /\ s[last].reliable = m /\ fragmentsRemaining(s[last]) =< 0
      BY <1>11, <1>12, <2>4
    <3>2. last < p
      <4>1. SUFFICES ASSUME ~ (last < p) PROVE FALSE
        OBVIOUS
      <4>2. last \in p .. end
        BY <1>4, <2>2, <3>1, <4>1
      <4>3. Partial(s[last], m)
        BY <4>2
      <4>4. fragmentsRemaining(s[last]) > 0 /\ fragmentsRemaining(s[last]) \in Int
        BY <1>5, <3>1, <4>3 DEF Partial
      <4> QED
        BY <3>1, <4>4
    <3> QED
      BY <1>7, <2>2, <3>1, <3>2
  <2> QED
    BY <2>3, <2>4
<1>15. PICK w : Places(w, left, s, K \cup rest)
  BY <1>3, <1>10, AtProperties
<1>16. PICK w2 : Places(w2, moved, s, F)
  BY <1>3, <1>10, AtProperties
<1>17. left \in Seq(Arrivals) /\ moved \in Seq(Arrivals)
  BY <1>3, <1>10, AtProperties
<1> HIDE DEF left, moved
<1>18. /\ Len(left) \in Nat /\ DOMAIN left = 1 .. Len(left)
       /\ Len(moved) \in Nat /\ DOMAIN moved = 1 .. Len(moved)
  BY <1>17, LenProperties
<1>19. UnreliableSettled(left, m, v)
  <2>1. ASSUME NEW k \in DOMAIN left
        PROVE  /\ left[k] = s[w[k]] /\ w[k] \in DOMAIN s
               /\ left[k].type \in UnreliableTypes /\ left[k].type \notin ReliableTypes
               /\ Sequenced(left[k]) /\ left[k].type # "SEND_UNSEQUENCED"
               /\ Ahead(left[k], m)
               /\ left[k].reliable = m => left[k].number > v /\ fragmentsRemaining(left[k]) > 0
    <3>1. left[k] = s[w[k]] /\ w[k] \in K \cup rest
      BY <1>15, <1>18 DEF Places
    <3>2. PICK p \in DOMAIN s : p = w[k]
      BY <1>10, <3>1
    <3>3. Sequenced(s[p]) /\ m =< s[p].reliable
      BY <1>3, <1>5, <1>8, <1>9, <3>1, <3>2, SMTT(20)
    <3>4. s[p].reliable = m => p \in K
      BY <1>3, <1>5, <1>8, <3>1, <3>2
    <3>5. s[p].reliable = m => s[p].number > v /\ fragmentsRemaining(s[p]) > 0
      BY <1>9, <1>14, <3>4
    <3> QED
      BY <1>5, <3>1, <3>2, <3>3, <3>5
  <2>2. ASSUME NEW j \in DOMAIN left, NEW k \in DOMAIN left, j < k
        PROVE  left[j].packet < left[k].packet
    <3>1. w[j] < w[k]
      BY <1>15, <1>18, <2>2 DEF Places
    <3>2. left[j] = s[w[j]] /\ left[k] = s[w[k]] /\ w[j] \in DOMAIN s /\ w[k] \in DOMAIN s
          /\ Sequenced(s[w[j]])
      BY <2>1
    <3> QED
      BY <1>6, <3>1, <3>2
  <2> QED
    BY <1>17, <2>1, <2>2 DEF UnreliableSettled, UnreliableWaits
<1>20. UnreliableHanded(moved, s, m, u, v)
  <2>1. ASSUME NEW k \in DOMAIN moved
        PROVE  /\ moved[k] = s[w2[k]] /\ w2[k] \in DOMAIN s
               /\ moved[k].type = "SEND_UNSEQUENCED" => k = 1
               /\ Sequenced(moved[k]) => /\ moved[k].type \in UnreliableTypes
                                         /\ moved[k].reliable = m
                                         /\ u < moved[k].number /\ moved[k].number =< v
                                         /\ fragmentsRemaining(moved[k]) =< 0
               /\ moved[k].type \in FragmentTypes => fragmentsRemaining(moved[k]) =< 0
    <3>1. moved[k] = s[w2[k]] /\ w2[k] \in F
      BY <1>16, <1>18 DEF Places
    <3>2. PICK p \in DOMAIN s : p = w2[k]
      BY <1>10, <3>1
    <3>3. CASE s[p].type = "SEND_UNSEQUENCED"
      <4>1. p = 1
        BY <1>5, <3>3
      <4>2. SUFFICES ASSUME k # 1 PROVE FALSE
        BY <1>5, <3>1, <3>2, <3>3
      <4>3. 1 \in 1 .. Len(moved) /\ 1 < k
        BY <1>18, <4>2
      <4>4. w2[1] < w2[k] /\ w2[1] \in F
        BY <1>16, <1>18, <4>3 DEF Places
      <4>5. w2[1] \in DOMAIN s
        BY <1>10, <4>4
      <4>6. PICK q \in DOMAIN s : q = w2[1]
        BY <4>5
      <4> QED
        BY <1>3, <3>2, <4>1, <4>4, <4>6
    <3>4. CASE s[p].type # "SEND_UNSEQUENCED"
      <4>1. p \in N
        BY <3>1, <3>2, <3>4
      <4> QED
        BY <1>5, <1>11, <1>13, <3>1, <3>2, <3>4, <4>1
    <3> QED
      BY <3>3, <3>4
  <2>2. ASSUME NEW j \in DOMAIN moved, NEW k \in DOMAIN moved, j < k, Sequenced(moved[j])
        PROVE  moved[j].packet < moved[k].packet
    <3>1. w2[j] < w2[k]
      BY <1>16, <1>18, <2>2 DEF Places
    <3>2. moved[j] = s[w2[j]] /\ moved[k] = s[w2[k]] /\ w2[j] \in DOMAIN s /\ w2[k] \in DOMAIN s
      BY <2>1
    <3> QED
      BY <1>6, <2>2, <3>1, <3>2
  <2>3. v = u \/ \E k \in DOMAIN moved : Sequenced(moved[k])
    <3>1. SUFFICES ASSUME N # {} PROVE \E k \in DOMAIN moved : Sequenced(moved[k])
      BY <1>12
    <3>2. last \in N
      BY <1>12, <3>1
    <3>3. last \in F /\ Sequenced(s[last])
      BY <1>11, <3>2
    <3>4. PICK k \in 1 .. Len(moved) : w2[k] = last
      BY <1>16, <3>3 DEF Places
    <3> QED
      BY <1>18, <2>1, <3>3, <3>4
  <2> QED
    BY <1>17, <2>1, <2>2, <2>3 DEF UnreliableHanded, Whole
<1>21. u =< v
  BY <1>13
<1> QED
  BY <1>1, <1>2, <1>19, <1>20, <1>21 DEF s, m, u

\* One packet, however many numbers it takes, does not move the last number
\* past what is still told from the previous turn.
LEMMA LastIsNear ==
  ASSUME SenderInv, CommandsFit, Numbered, SmallPackets, NEW n \in Nat,
         NEW e \in Waiters(ReliableTypes, n)
  PROVE  Window(LastNumber(e)) =< Window(n) + (RELIABLE_WINDOWS - FREE_RELIABLE_WINDOWS + 1)
<1> DEFINE K == RELIABLE_WINDOW_SIZE
           W == RELIABLE_WINDOWS
           F == FREE_RELIABLE_WINDOWS
           a == W - 2 * F + 3
           d == e.reliable
           l == LastNumber(e)
           v == Window(d)
           w == Window(n)
           z == Window(l)
<1>1. /\ e \in Arrivals /\ v < w + F - 1 /\ e.type \in ReliableTypes
  BY DEF Waiters, Ahead
<1>2. /\ d \in Nat /\ l \in Nat /\ e.packet \in DOMAIN submitted /\ e.type \in AllTypes
      /\ l < d + (W - 2 * F + 3) * K \/ e.type # "SEND_FRAGMENT"
  BY <1>1, ArrivalNumbers
<1>3. K \in Nat \ {0} /\ W \in Nat /\ F \in 2 .. W /\ v \in Nat /\ w \in Nat /\ z \in Nat
  BY <1>2, NumberConstants, WindowInterval
<1>4. a >= 1
  <2>1. submitted \in Seq(Kinds)
    BY DEF SenderInv, SenderType
  <2>2. submitted[e.packet] \in Kinds
    BY <1>2, <2>1, ElementOfSeq, LenProperties
  <2>3. submitted[e.packet].fragments >= 1 /\ submitted[e.packet].fragments \in Nat
    BY <2>2, KindsHaveFragments
  <2>4. submitted[e.packet].fragments =< (W - 2 * F + 3) * K
    BY <2>2 DEF SmallPackets
  <2> HIDE DEF K, W, F
  <2>5. a \in Int /\ a * K >= 1
    BY <1>3, <2>3, <2>4
  <2> HIDE DEF a
  <2> QED
    BY <1>3, <2>5
<1>5. CASE e.type # "SEND_FRAGMENT"
  <2>1. l = d
    BY <1>2, <1>5 DEF LastNumber
  <2>2. z = v
    BY <2>1
  <2> HIDE DEF K, W, F, d, l, v, w, z
  <2>3. z =< w + (W - F + 1)
    BY <1>1, <1>3, <1>4, <2>2 DEF a
  <2> QED
    BY <2>3 DEF W, F, l, w, z
<1>6. CASE e.type = "SEND_FRAGMENT"
  <2> HIDE DEF K, W, F, d, l, v, w, z
  <2>1. PICK b \in Nat : b = a
    BY <1>3, <1>4
  <2>2. a * K = K * b /\ K * b \in Nat /\ l < d + a * K
    BY <1>2, <1>3, <1>6, <2>1
  <2>3. l =< d + K * b
    BY <1>2, <2>2
  <2>4. l =< d + RELIABLE_WINDOW_SIZE * b
    BY <2>3 DEF K
  <2>5. z =< v + b
    BY <1>2, <2>4, WindowSpan DEF z, v
  <2>6. z =< w + (W - F + 1)
    BY <1>1, <1>3, <2>1, <2>5
  <2> QED
    BY <2>6 DEF W, F, l, w, z
<1> QED
  BY <1>5, <1>6

\* What the dispatch of reliable packets finds at the front of the list: the
\* packets of all numbers from the last one received to the new one.
LEMMA ReadyRun ==
  ASSUME SenderInv, CommandsFit, Numbered, SmallPackets, NEW n \in Nat,
         NEW s, ReliableWaits(s, n)
  PROVE  LET k == Ready(s, n)
             m == NumberAfter(s, k, n)
             front == SubSeq(s, 1, k)
             back  == SubSeq(s, k + 1, Len(s)) IN
         /\ k \in 0 .. Len(s) /\ m \in Nat
         /\ k # 0 => n < m
         /\ k # 0 => Window(m) =< Window(n) + (RELIABLE_WINDOWS - FREE_RELIABLE_WINDOWS + 1)
         /\ ReliableWaits(back, m)
         /\ back # <<>> => ~ Continues(back, 1, m)
         /\ Whole(front)
         /\ \A p \in DOMAIN front :
              /\ front[p].type \in ReliableTypes
              /\ n < LastNumber(front[p]) /\ LastNumber(front[p]) =< m
         /\ InOrder(front)
         /\ \A c \in network :
              /\ c.type \in ReliableTypes
              /\ n < LastNumber(Incoming(c)) /\ LastNumber(Incoming(c)) =< m
              => \E p \in DOMAIN front : front[p].packet = c.packet
<1> DEFINE L == Waiters(ReliableTypes, n)
           k == Ready(s, n)
           m == NumberAfter(s, k, n)
           front == SubSeq(s, 1, k)
           back == SubSeq(s, k + 1, Len(s))
<1>1. s \in Seq(L) /\ InOrder(s) /\ \A p \in DOMAIN s : s[p].reliable # n
  BY DEF ReliableWaits
<1>2. Len(s) \in Nat /\ DOMAIN s = 1 .. Len(s) /\ \A p \in 1 .. Len(s) : s[p] \in L
  <2> HIDE DEF L
  <2> QED
    BY <1>1, LenProperties, ElementOfSeq
<1>3. /\ k \in 0 .. Len(s)
      /\ \A p \in 1 .. k : Continues(s, p, n)
      /\ k < Len(s) => ~ Continues(s, k + 1, n)
  <2> HIDE DEF L
  <2> QED
    BY <1>1, ReadyIs
<1>4. ASSUME NEW p \in 1 .. Len(s)
      PROVE  /\ s[p] \in Arrivals /\ s[p].type \in ReliableTypes /\ Ahead(s[p], n)
             /\ s[p].reliable \in Nat /\ s[p].packet \in Nat
             /\ NumberAfter(s, p, n) = LastNumber(s[p]) /\ LastNumber(s[p]) \in Nat
             /\ n < s[p].reliable /\ s[p].reliable =< LastNumber(s[p])
             /\ s[p].reliable < n + SeqSpace
             /\ s[p].type \in AllTypes /\ s[p].count \in Nat
             /\ s[p].type \notin UnreliableTypes /\ Sequenced(s[p])
  <2>1. s[p] \in Arrivals /\ s[p].type \in ReliableTypes /\ Ahead(s[p], n) /\ s[p].reliable # n
    BY <1>1, <1>2 DEF Waiters
  <2> DEFINE e == s[p]
  <2> HIDE DEF e
  <2>2. /\ e \in Arrivals /\ e.type \in ReliableTypes /\ Ahead(e, n) /\ e.reliable # n
    BY <2>1 DEF e
  <2>3. /\ e.reliable \in Nat /\ e.packet \in Nat /\ LastNumber(e) \in Nat
        /\ e.reliable =< LastNumber(e) /\ e.type \in AllTypes /\ e.count \in Nat
        /\ LastNumber(e) = e.reliable
             + (IF e.type \in ReliableTypes /\ e.count > 0 THEN e.count - 1 ELSE 0)
    BY <2>2, ArrivalNumbers
  <2>4. LastNumber(e) = e.reliable + (IF e.count > 0 THEN e.count - 1 ELSE 0)
    BY <2>2, <2>3
  <2>5. NumberAfter(s, p, n) = e.reliable + (IF e.count > 0 THEN e.count - 1 ELSE 0)
    BY DEF NumberAfter, e
  <2>6. n < e.reliable /\ e.reliable < n + SeqSpace
    BY <2>2, <2>3, AheadIsNear DEF Ahead
  <2>7. e.type \notin UnreliableTypes /\ e.type # "SEND_UNSEQUENCED"
    BY <2>2, <2>3, TypesDiffer
  <2> QED
    BY <2>2, <2>3, <2>4, <2>5, <2>6, <2>7 DEF e, Sequenced
<1>5. /\ front \in Seq(L) /\ back \in Seq(L)
      /\ Len(front) = k /\ Len(back) = Len(s) - k
      /\ \A p \in 1 .. k : front[p] = s[p]
      /\ \A p \in 1 .. Len(s) - k : back[p] = s[k + p]
  <2> HIDE DEF L, k
  <2> QED
    BY <1>1, <1>3, HeldSplit
<1>6. DOMAIN front = 1 .. k /\ DOMAIN back = 1 .. Len(s) - k
  <2> HIDE DEF L, front, back
  <2> QED
    BY <1>5, LenProperties
<1> HIDE DEF k, front, back, m
\* The numbers grow along the list.
<1>7. ASSUME NEW p \in 1 .. Len(s), NEW r \in 1 .. Len(s), p < r
      PROVE  LastNumber(s[p]) < s[r].reliable
  <2>1. s[p].packet < s[r].packet
    BY <1>1, <1>2, <1>7 DEF InOrder
  <2>2. Precedes(s[p], s[r])
    BY <1>4, <2>1, ArrivalOrder
  <2> QED
    BY <1>4, <2>2 DEF Precedes
<1>8. ASSUME k # 0
      PROVE  k \in 1 .. Len(s) /\ m = LastNumber(s[k]) /\ m \in Nat /\ n < m
             /\ Window(m) =< Window(n) + (RELIABLE_WINDOWS - FREE_RELIABLE_WINDOWS + 1)
  <2>1. k \in 1 .. Len(s)
    BY <1>2, <1>3, <1>8
  <2>2. m = LastNumber(s[k]) /\ m \in Nat /\ n < m
    BY <1>4, <2>1 DEF m
  <2>3. s[k] \in L
    BY <1>2, <2>1
  <2>4. Window(LastNumber(s[k])) =< Window(n) + (RELIABLE_WINDOWS - FREE_RELIABLE_WINDOWS + 1)
    BY <2>3, LastIsNear
  <2> QED
    BY <2>1, <2>2, <2>4
<1>9. CASE k = 0
  <2>1. m = n /\ front = <<>> /\ DOMAIN front = {} /\ back = s
    <3>1. SubSeq(s, 1, Len(s)) = s
      <4> HIDE DEF L
      <4> QED
        BY <1>1, SubSeqFull
    <3>2. SubSeq(s, 1, 0) = <<>>
      BY SubSeqEmpty
    <3> QED
      BY <1>6, <1>9, <3>1, <3>2 DEF NumberAfter, front, back, m
  <2>2. s # <<>> => ~ Continues(s, 1, n)
    <3>1. s # <<>> => 0 < Len(s)
      BY <1>1, <1>2, EmptySeq DEF L
    <3> QED
      BY <1>3, <1>9, <3>1
  <2>3. Whole(front) /\ InOrder(front)
    BY <2>1 DEF Whole, InOrder
  <2>4. \A c \in network :
          ~ (n < LastNumber(Incoming(c)) /\ LastNumber(Incoming(c)) =< n)
    <3>1. SUFFICES ASSUME NEW c \in network, n < LastNumber(Incoming(c)), LastNumber(Incoming(c)) =< n
                   PROVE FALSE
      OBVIOUS
    <3>2. c \in Made /\ Incoming(c) \in Entry
      BY MadeIsTyped DEF Made
    <3>3. Incoming(c).reliable \in Nat /\ Incoming(c).count \in Nat
      BY <3>2 DEF Entry
    <3>4. LastNumber(Incoming(c)) \in Int
      BY <3>3 DEF LastNumber
    <3> QED
      BY <3>1, <3>4
  <2> QED
    BY <1>3, <1>9, <2>1, <2>2, <2>3, <2>4 DEF k, m, front, back
<1>10. CASE k # 0
  <2>1. k \in 1 .. Len(s) /\ m = LastNumber(s[k]) /\ m \in Nat /\ n < m
        /\ Window(m) =< Window(n) + (RELIABLE_WINDOWS - FREE_RELIABLE_WINDOWS + 1)
    BY <1>8, <1>10
  <2>2. ReliableWaits(back, m)
    <3>1. ASSUME NEW p \in DOMAIN back
          PROVE  back[p] \in Waiters(ReliableTypes, m) /\ back[p].reliable # m
      <4>1. PICK r \in 1 .. Len(s) : r = k + p /\ k < r
        BY <1>2, <1>3, <1>6, <2>1
      <4>2. back[p] = s[r]
        BY <1>5, <1>6, <4>1
      <4>3. m < s[r].reliable
        BY <1>7, <2>1, <4>1
      <4>4. Window(n) =< Window(m) /\ Window(n) \in Nat /\ Window(m) \in Nat /\ Window(s[r].reliable) \in Nat
        <5>1. m \in Nat /\ n =< m /\ s[r].reliable \in Nat
          BY <1>4, <2>1
        <5>2. Window(n) =< Window(m)
          BY <5>1, WindowMonotone
        <5>3. Window(n) \in Nat /\ Window(m) \in Nat
          BY <5>1, WindowInterval
        <5>4. Window(s[r].reliable) \in Nat
          BY <5>1, WindowInterval
        <5> QED
          BY <5>2, <5>3, <5>4
      <4>5. Window(s[r].reliable) < Window(n) + FREE_RELIABLE_WINDOWS - 1
        BY <1>4 DEF Ahead
      <4>6. FREE_RELIABLE_WINDOWS \in Nat
        BY NumberConstants
      <4>7. Ahead(s[r], m)
        BY <1>4, <2>1, <4>3, <4>4, <4>5, <4>6, SMTT(20) DEF Ahead
      <4> QED
        BY <1>4, <2>1, <4>2, <4>3, <4>7 DEF Waiters
    <3>2. back \in Seq(Waiters(ReliableTypes, m))
      <4>1. \A p \in 1 .. Len(back) : back[p] \in Waiters(ReliableTypes, m)
        BY <1>5, <1>6, <3>1
      <4> HIDE DEF L
      <4> QED
        BY <1>5, <4>1, IsASeq
    <3>3. InOrder(back)
      <4>1. SUFFICES ASSUME NEW p \in DOMAIN back, NEW r \in DOMAIN back, p < r
                     PROVE  back[p].packet < back[r].packet
        BY DEF InOrder
      <4>2. PICK i \in 1 .. Len(s) : i = k + p
        BY <1>2, <1>3, <1>6
      <4>3. PICK j \in 1 .. Len(s) : j = k + r
        BY <1>2, <1>3, <1>6
      <4>4. i < j
        BY <1>2, <1>3, <1>6, <4>1, <4>2, <4>3
      <4>5. s[i].packet < s[j].packet
        BY <1>1, <1>2, <4>4 DEF InOrder
      <4> QED
        BY <1>5, <1>6, <4>2, <4>3, <4>5
    <3> QED
      BY <3>1, <3>2, <3>3 DEF ReliableWaits
  <2>3. back # <<>> => ~ Continues(back, 1, m)
    <3>1. SUFFICES ASSUME back # <<>> PROVE ~ Continues(back, 1, m)
      OBVIOUS
    <3>2. Len(back) \in Nat /\ Len(back) # 0
      <4> HIDE DEF L
      <4> QED
        BY <1>5, <3>1, LenProperties, EmptySeq
    <3>3. k < Len(s) /\ 1 \in 1 .. Len(s) - k
      <4>1. k \in 0 .. Len(s) /\ Len(back) = Len(s) - k
        BY <1>3, <1>5
      <4>2. Len(s) - k # 0
        BY <3>2, <4>1
      <4>3. PICK len \in Nat : len = Len(s)
        BY <1>2
      <4>4. k \in 0 .. len /\ len - k # 0
        BY <4>1, <4>2, <4>3
      <4>5. k < len /\ 1 \in 1 .. len - k
        BY <4>3, <4>4
      <4> QED
        BY <4>3, <4>5
    <3>4. ~ Continues(s, k + 1, n) /\ back[1] = s[k + 1]
      BY <1>3, <1>5, <3>3
    <3>5. (k + 1) - 1 = k /\ 1 - 1 = 0
      BY <1>3
    <3>6. NumberAfter(s, (k + 1) - 1, n) = m
      BY <3>5 DEF m
    <3>7. NumberAfter(back, 1 - 1, m) = m
      BY <3>5 DEF NumberAfter
    <3> QED
      BY <3>4, <3>6, <3>7 DEF Continues
  <2>4. ASSUME NEW p \in DOMAIN front
        PROVE  /\ front[p] = s[p] /\ p \in 1 .. k /\ p \in 1 .. Len(s)
               /\ front[p].type \in ReliableTypes
               /\ n < LastNumber(front[p]) /\ LastNumber(front[p]) =< m
               /\ fragmentsRemaining(front[p]) =< 0
    <3>1. front[p] = s[p] /\ p \in 1 .. k /\ p \in 1 .. Len(s)
      BY <1>2, <1>3, <1>5, <1>6
    <3>2. fragmentsRemaining(s[p]) =< 0
      BY <1>3, <3>1 DEF Continues
    <3>3. n < LastNumber(s[p])
      BY <1>4, <3>1
    <3>4. LastNumber(s[p]) =< m
      <4>1. CASE p = k
        BY <1>4, <2>1, <4>1
      <4>2. CASE p # k
        <5>1. p < k
          BY <1>3, <3>1, <4>2
        <5>2. LastNumber(s[p]) < s[k].reliable
          BY <1>7, <2>1, <3>1, <5>1
        <5> QED
          BY <1>4, <2>1, <3>1, <5>2
      <4> QED
        BY <4>1, <4>2
    <3> QED
      BY <1>4, <3>1, <3>2, <3>3, <3>4
  <2>5. Whole(front)
    <3>1. \A p \in 1 .. Len(front) : front[p] \in Arrivals
      BY <1>4, <1>5, <1>6, <2>4
    <3>2. front \in Seq(Arrivals)
      <4> HIDE DEF L
      <4> QED
        BY <1>5, <3>1, IsASeq
    <3> QED
      BY <2>4, <3>2 DEF Whole
  <2>6. InOrder(front)
    <3>1. SUFFICES ASSUME NEW p \in DOMAIN front, NEW r \in DOMAIN front, p < r
                   PROVE  front[p].packet < front[r].packet
      BY DEF InOrder
    <3> QED
      BY <1>1, <1>2, <2>4, <3>1 DEF InOrder
  <2>7. ASSUME NEW c \in network, c.type \in ReliableTypes,
               n < LastNumber(Incoming(c)), LastNumber(Incoming(c)) =< m
        PROVE  \E p \in DOMAIN front : front[p].packet = c.packet
    <3> DEFINE e == Incoming(c)
               Q == {p \in 1 .. k : LastNumber(e) =< LastNumber(s[p])}
               first == CHOOSE p \in Q : \A r \in Q : p =< r
    <3>1. c \in Made
      BY DEF Made
    <3>2. e \in Entry /\ e.type = c.type /\ e.count = c.count /\ e.fragments = {} /\ e.packet = c.packet
      BY <3>1, MadeIsTyped
    <3>3. e \in Arrivals
      BY <3>2 DEF Arrivals, CameFrom
    <3>4. /\ e.type \in ReliableTypes /\ e.type \in AllTypes /\ e.packet \in Nat
          /\ LastNumber(e) \in Nat /\ e.reliable =< LastNumber(e) /\ e.reliable \in Nat
      BY <2>7, <3>2, <3>3, ArrivalNumbers
    <3>5. e.type \notin UnreliableTypes /\ Sequenced(e)
      BY <3>4, TypesDiffer DEF Sequenced
    <3> HIDE DEF e
    <3>6. n < LastNumber(e) /\ LastNumber(e) =< m
      BY <2>7 DEF e
    <3>7. k \in Q
      BY <1>3, <2>1, <3>6
    <3>8. first \in Q /\ \A r \in Q : first =< r
      <4>1. Q \subseteq Nat
        BY <1>3
      <4> HIDE DEF Q
      <4> QED
        BY <3>7, <4>1, LeastElement
    <3> HIDE DEF first
    <3>9. first \in 1 .. k /\ first \in 1 .. Len(s) /\ LastNumber(e) =< LastNumber(s[first])
      BY <1>2, <1>3, <3>8
    <3>10. PICK i \in 1 .. Len(s) : i = first
      BY <3>9
    <3>11. /\ s[i] \in Arrivals /\ s[i].reliable \in Nat /\ n < s[i].reliable
           /\ s[i].reliable < n + SeqSpace /\ s[i].type \notin UnreliableTypes /\ Sequenced(s[i])
           /\ s[i].packet \in Nat /\ LastNumber(s[i]) \in Nat
      BY <1>4
    \* The packet before it ends before e does.
    <3>12. PICK b \in Nat : b = NumberAfter(s, i - 1, n) /\ n =< b /\ b < LastNumber(e) /\ b < s[i].reliable
      <4>1. CASE i = 1
        <5>1. i - 1 = 0
          BY <4>1
        <5>2. NumberAfter(s, i - 1, n) = n
          BY <5>1 DEF NumberAfter
        <5> QED
          BY <3>6, <3>11, <5>2
      <4>2. CASE i # 1
        <5>1. PICK j \in 1 .. Len(s) : j = i - 1
          BY <1>2, <4>2
        <5>2. NumberAfter(s, j, n) = LastNumber(s[j]) /\ LastNumber(s[j]) \in Nat /\ n < LastNumber(s[j])
          BY <1>4
        <5>3. LastNumber(s[j]) < s[i].reliable
          BY <1>7, <5>1
        <5>4. j \notin Q
          BY <1>2, <1>3, <3>8, <3>10, <5>1
        <5>5. j \in 1 .. k
          BY <1>2, <1>3, <3>9, <3>10, <5>1
        <5>6. LastNumber(s[j]) < LastNumber(e)
          BY <3>4, <5>2, <5>4, <5>5
        <5> QED
          BY <5>1, <5>2, <5>3, <5>6
      <4> QED
        BY <4>1, <4>2
    <3>13. s[i].reliable = b + 1
      <4>1. Wire(s[i].reliable) = Wire(b + 1)
        BY <1>3, <3>9, <3>10, <3>12 DEF Continues
      <4>2. PICK q \in Nat : q = b + 1
        BY <3>12
      <4>3. SeqSpace \in Nat
        BY NumberConstants
      <4>4. n =< q /\ q < n + SeqSpace /\ n =< s[i].reliable
        BY <3>11, <3>12, <4>2, <4>3
      <4> QED
        BY <3>11, <4>1, <4>2, <4>4, SameWire
    <3>14. s[i].reliable =< LastNumber(e) /\ LastNumber(e) =< LastNumber(s[i])
      BY <3>4, <3>9, <3>10, <3>12, <3>13
    <3>15. ~ (e.packet < s[i].packet)
      <4>1. SUFFICES ASSUME e.packet < s[i].packet PROVE FALSE
        OBVIOUS
      <4>2. Precedes(e, s[i])
        BY <3>3, <3>5, <3>11, <4>1, ArrivalOrder
      <4> QED
        BY <3>4, <3>11, <3>14, <4>2 DEF Precedes
    <3>16. ~ (s[i].packet < e.packet)
      <4>1. SUFFICES ASSUME s[i].packet < e.packet PROVE FALSE
        OBVIOUS
      <4>2. Precedes(s[i], e)
        BY <3>3, <3>5, <3>11, <4>1, ArrivalOrder
      <4> QED
        BY <3>4, <3>5, <3>11, <3>14, <4>2 DEF Precedes
    <3>17. s[i].packet = e.packet
      BY <3>4, <3>11, <3>15, <3>16
    <3>18. i \in DOMAIN front /\ front[i] = s[i]
      BY <1>5, <1>6, <3>9, <3>10
    <3> QED
      BY <3>2, <3>17, <3>18 DEF e
  <2> HIDE DEF L
  <2>8. k \in 0 .. Len(s)
    BY <1>3
  <2> QED
    BY <2>1, <2>2, <2>3, <2>4, <2>5, <2>6, <2>7, <2>8 DEF k, m, front, back
<1> QED
  BY <1>9, <1>10

-----------------------------------------------------------------------------
(* What a dispatch hands over. *)

\* Packet e is behind the reliable number n and the unreliable number u.
Past(e, n, u) ==
  /\ LastNumber(e) =< n
  /\ e.type \in UnreliableTypes /\ e.reliable = n => e.number =< u

Later(n, u, m, v) == n < m \/ (n = m /\ u =< v)

\* The commands o that a dispatch hands over when the numbers go from n, u to
\* m, v: complete sequenced packets between these, in order, and among them
\* all the reliable ones.  A number that was never used is not reached.
Handed(o, n, u, m, v) ==
  /\ Whole(o)
  /\ InOrder(o)
  /\ \A p \in DOMAIN o : Sequenced(o[p]) /\ Past(o[p], m, v) /\ ~ Past(o[p], n, u)
  /\ \A c \in network :
       /\ c.type \in ReliableTypes
       /\ n < LastNumber(Incoming(c)) /\ LastNumber(Incoming(c)) =< m
       => \E p \in DOMAIN o : o[p].packet = c.packet
  /\ n # m => m =< outgoingReliableSequenceNumber

\* What is past was submitted before what is not.
LEMMA PastFirst ==
  ASSUME SenderInv, CommandsFit, Numbered, NEW n \in Nat, NEW u \in Nat,
         NEW e \in Arrivals, NEW f \in Arrivals, Sequenced(e), Sequenced(f),
         Past(e, n, u), ~ Past(f, n, u)
  PROVE  e.packet < f.packet
<1>1. /\ e.packet \in Nat /\ e.reliable \in Nat /\ e.number \in Nat /\ LastNumber(e) \in Nat
      /\ e.reliable =< LastNumber(e) /\ (e.type \in UnreliableTypes => LastNumber(e) = e.reliable)
  BY ArrivalNumbers
<1>2. /\ f.packet \in Nat /\ f.reliable \in Nat /\ f.number \in Nat /\ LastNumber(f) \in Nat
      /\ f.reliable =< LastNumber(f) /\ (f.type \in UnreliableTypes => LastNumber(f) = f.reliable)
  BY ArrivalNumbers
<1>3. e.packet # f.packet
  <2>1. SUFFICES ASSUME e.packet = f.packet PROVE FALSE
    OBVIOUS
  <2>2. e.reliable = f.reliable /\ e.number = f.number /\ e.type = f.type /\ e.count = f.count
    BY <2>1, ArrivalOrder
  <2>3. LastNumber(e) = LastNumber(f)
    BY <2>2 DEF LastNumber
  <2> QED
    BY <2>2, <2>3 DEF Past
<1>4. ~ (f.packet < e.packet)
  <2>1. SUFFICES ASSUME f.packet < e.packet PROVE FALSE
    OBVIOUS
  <2>2. Precedes(f, e)
    BY <2>1, ArrivalOrder
  <2>3. LastNumber(f) =< e.reliable /\ LastNumber(e) =< n
    BY <2>2 DEF Precedes, Past
  <2>4. LastNumber(f) =< n
    BY <1>1, <1>2, <2>3
  <2>5. f.type \in UnreliableTypes /\ f.reliable = n /\ ~ (f.number =< u)
    BY <2>4 DEF Past
  <2>6. LastNumber(f) = n /\ e.reliable = n
    BY <1>1, <1>2, <2>3, <2>5
  <2>7. e.type \in UnreliableTypes /\ f.number < e.number
    BY <2>2, <2>5, <2>6 DEF Precedes
  <2>8. e.number =< u
    BY <2>6, <2>7 DEF Past
  <2> QED
    BY <1>1, <1>2, <2>5, <2>7, <2>8
<1> QED
  BY <1>1, <1>2, <1>3, <1>4

LEMMA PastStays ==
  ASSUME SenderInv, CommandsFit, Numbered, NEW n \in Nat, NEW u \in Nat,
         NEW m \in Nat, NEW v \in Nat, Later(n, u, m, v),
         NEW e \in Arrivals, Past(e, n, u)
  PROVE  Past(e, m, v)
<1>1. /\ e.reliable \in Nat /\ e.number \in Nat /\ LastNumber(e) \in Nat
      /\ e.reliable =< LastNumber(e)
  BY ArrivalNumbers
<1> QED
  BY <1>1 DEF Past, Later

\* Two dispatches one after the other.
LEMMA HandedTwice ==
  ASSUME SenderInv, CommandsFit, Numbered, NEW n \in Nat, NEW u \in Nat,
         NEW m \in Nat, NEW v \in Nat, NEW l \in Nat, NEW w \in Nat,
         Later(n, u, m, v), Later(m, v, l, w),
         NEW o1, NEW o2, Handed(o1, n, u, m, v), Handed(o2, m, v, l, w)
  PROVE  /\ Handed(o1 \o o2, n, u, l, w)
         /\ Later(n, u, l, w)
<1> DEFINE o == o1 \o o2
<1>1. o1 \in Seq(Arrivals) /\ o2 \in Seq(Arrivals)
  BY DEF Handed, Whole
<1>2. /\ o \in Seq(Arrivals) /\ Len(o) = Len(o1) + Len(o2)
      /\ \A i \in 1 .. Len(o1) + Len(o2) : o[i] = IF i =< Len(o1) THEN o1[i] ELSE o2[i - Len(o1)]
  BY <1>1, ConcatProperties
<1>3. /\ Len(o1) \in Nat /\ Len(o2) \in Nat
      /\ DOMAIN o1 = 1 .. Len(o1) /\ DOMAIN o2 = 1 .. Len(o2) /\ DOMAIN o = 1 .. Len(o1) + Len(o2)
  BY <1>1, <1>2, LenProperties
<1>4. Later(n, u, l, w)
  BY DEF Later
<1> HIDE DEF o
<1>5. ASSUME NEW i \in DOMAIN o
      PROVE  \/ i \in DOMAIN o1 /\ o[i] = o1[i]
             \/ i - Len(o1) \in DOMAIN o2 /\ o[i] = o2[i - Len(o1)] /\ i > Len(o1)
  <2>1. PICK a \in Nat : a = Len(o1)
    BY <1>3
  <2>2. PICK b \in Nat : b = Len(o2)
    BY <1>3
  <2>3. i \in 1 .. a + b /\ o[i] = IF i =< a THEN o1[i] ELSE o2[i - a]
    BY <1>2, <1>3, <2>1, <2>2
  <2>4. i =< a \/ (i > a /\ i - a \in 1 .. b)
    BY <2>3
  <2>5. i =< a => i \in 1 .. a
    BY <2>3
  <2> QED
    BY <1>3, <2>1, <2>2, <2>3, <2>4, <2>5
<1>6. ASSUME NEW i \in DOMAIN o
      PROVE  /\ Sequenced(o[i]) /\ o[i] \in Arrivals /\ Past(o[i], l, w) /\ ~ Past(o[i], n, u)
             /\ o[i].type \in FragmentTypes => fragmentsRemaining(o[i]) =< 0
  <2>1. ASSUME NEW p \in DOMAIN o1
        PROVE  /\ Sequenced(o1[p]) /\ o1[p] \in Arrivals /\ Past(o1[p], l, w) /\ ~ Past(o1[p], n, u)
               /\ o1[p].type \in FragmentTypes => fragmentsRemaining(o1[p]) =< 0
    <3>1. o1[p] \in Arrivals
      BY <1>1, <1>3, ElementOfSeq
    <3>2. Sequenced(o1[p]) /\ Past(o1[p], m, v) /\ ~ Past(o1[p], n, u)
      BY DEF Handed
    <3>3. o1[p].type \in FragmentTypes => fragmentsRemaining(o1[p]) =< 0
      BY DEF Handed, Whole
    <3>4. Past(o1[p], l, w)
      BY <3>1, <3>2, PastStays
    <3> QED
      BY <3>1, <3>2, <3>3, <3>4
  <2>2. ASSUME NEW p \in DOMAIN o2
        PROVE  /\ Sequenced(o2[p]) /\ o2[p] \in Arrivals /\ Past(o2[p], l, w) /\ ~ Past(o2[p], n, u)
               /\ o2[p].type \in FragmentTypes => fragmentsRemaining(o2[p]) =< 0
    <3>1. o2[p] \in Arrivals
      BY <1>1, <1>3, ElementOfSeq
    <3>2. Sequenced(o2[p]) /\ Past(o2[p], l, w) /\ ~ Past(o2[p], m, v)
      BY DEF Handed
    <3>3. o2[p].type \in FragmentTypes => fragmentsRemaining(o2[p]) =< 0
      BY DEF Handed, Whole
    <3>4. ~ Past(o2[p], n, u)
      BY <3>1, <3>2, PastStays
    <3> QED
      BY <3>1, <3>2, <3>3, <3>4
  <2> QED
    BY <1>5, <2>1, <2>2
<1>7. ASSUME NEW i \in DOMAIN o, NEW j \in DOMAIN o, i < j
      PROVE  o[i].packet < o[j].packet
  <2>1. CASE i \in DOMAIN o1 /\ o[i] = o1[i] /\ j \in DOMAIN o1 /\ o[j] = o1[j]
    BY <1>7, <2>1 DEF Handed, InOrder
  <2>2. CASE i \in DOMAIN o1 /\ o[i] = o1[i] /\ j - Len(o1) \in DOMAIN o2 /\ o[j] = o2[j - Len(o1)]
    <3>1. o[i] \in Arrivals /\ Sequenced(o[i]) /\ Past(o[i], m, v)
      BY <1>6, <2>2 DEF Handed
    <3>2. o[j] \in Arrivals /\ Sequenced(o[j]) /\ ~ Past(o[j], m, v)
      BY <1>6, <2>2 DEF Handed
    <3> QED
      BY <3>1, <3>2, PastFirst
  <2>3. CASE i > Len(o1) /\ j \in DOMAIN o1
    BY <1>3, <1>7, <2>3
  <2>4. CASE /\ i - Len(o1) \in DOMAIN o2 /\ o[i] = o2[i - Len(o1)]
             /\ j - Len(o1) \in DOMAIN o2 /\ o[j] = o2[j - Len(o1)]
    <3>1. i - Len(o1) < j - Len(o1)
      BY <1>3, <1>7
    <3> QED
      BY <2>4, <3>1 DEF Handed, InOrder
  <2> QED
    BY <1>5, <2>1, <2>2, <2>3, <2>4
<1>8. ASSUME NEW c \in network, c.type \in ReliableTypes,
             n < LastNumber(Incoming(c)), LastNumber(Incoming(c)) =< l
      PROVE  \E p \in DOMAIN o : o[p].packet = c.packet
  <2>1. LastNumber(Incoming(c)) \in Int
    <3>1. Incoming(c) \in Entry
      BY MadeIsTyped DEF Made
    <3>2. Incoming(c).reliable \in Nat /\ Incoming(c).count \in Nat
      BY <3>1 DEF Entry
    <3> QED
      BY <3>2 DEF LastNumber
  <2>2. CASE LastNumber(Incoming(c)) =< m
    <3>1. PICK p \in DOMAIN o1 : o1[p].packet = c.packet
      BY <1>8, <2>2 DEF Handed
    <3>2. p \in DOMAIN o /\ o[p] = o1[p]
      BY <1>2, <1>3
    <3> QED
      BY <3>1, <3>2
  <2>3. CASE m < LastNumber(Incoming(c))
    <3>1. PICK p \in DOMAIN o2 : o2[p].packet = c.packet
      BY <1>8, <2>3 DEF Handed
    <3>2. PICK a \in Nat : a = Len(o1)
      BY <1>3
    <3>3. PICK b \in Nat : b = Len(o2)
      BY <1>3
    <3>4. p \in 1 .. b
      BY <1>3, <3>3
    <3>5. PICK i \in 1 .. a + b : i = a + p /\ ~ (i =< a) /\ i - a = p
      BY <3>4
    <3>6. i \in DOMAIN o /\ o[i] = o2[p]
      BY <1>2, <1>3, <3>2, <3>3, <3>5
    <3> QED
      BY <3>1, <3>6
  <2> QED
    BY <2>1, <2>2, <2>3
<1>9. Whole(o) /\ InOrder(o)
  BY <1>2, <1>6, <1>7 DEF Whole, InOrder
<1>10. n # l => l =< outgoingReliableSequenceNumber
  BY DEF Handed
<1>11. Handed(o, n, u, l, w)
  BY <1>6, <1>8, <1>9, <1>10 DEF Handed
<1> QED
  BY <1>4, <1>11 DEF o

NextMissing(ch) ==
  ch.reliable # <<>> => ~ Continues(ch.reliable, 1, ch.reliableNumber)

\* Both lists are in order and hold nothing that could be dispatched.
Settled(ch) ==
  /\ ReliableWaits(ch.reliable, ch.reliableNumber)
  /\ NextMissing(ch)
  /\ UnreliableSettled(ch.unreliable, ch.reliableNumber, ch.unreliableNumber)

\* The channel new is what dispatches made of ch.
HandsOver(ch, new) ==
  /\ Later(ch.reliableNumber, ch.unreliableNumber, new.reliableNumber, new.unreliableNumber)
  /\ \E o : /\ new.out = ch.out \o o
            /\ Handed(o, ch.reliableNumber, ch.unreliableNumber,
                      new.reliableNumber, new.unreliableNumber)

LEMMA UnreliableIsHanded ==
  ASSUME SenderInv, CommandsFit, Numbered, NEW m \in Nat, NEW u \in Nat, NEW v \in Nat,
         NEW o, NEW s, UnreliableHanded(o, s, m, u, v), \A p \in DOMAIN s : Sequenced(s[p])
  PROVE  Handed(o, m, u, m, v)
<1>1. Whole(o) /\ o \in Seq(Arrivals) /\ DOMAIN o = 1 .. Len(o)
  <2>1. Whole(o) /\ o \in Seq(Arrivals)
    BY DEF UnreliableHanded, Whole
  <2> QED
    BY <2>1, LenProperties
<1>2. ASSUME NEW p \in DOMAIN o
      PROVE  Sequenced(o[p]) /\ Past(o[p], m, v) /\ ~ Past(o[p], m, u)
  <2>1. Sequenced(o[p])
    BY DEF UnreliableHanded
  <2>2. /\ o[p].type \in UnreliableTypes /\ o[p].reliable = m
        /\ u < o[p].number /\ o[p].number =< v
    BY <2>1 DEF UnreliableHanded
  <2>3. o[p] \in Arrivals
    BY <1>1, ElementOfSeq
  <2>4. LastNumber(o[p]) = m /\ o[p].number \in Nat
    BY <2>2, <2>3, ArrivalNumbers
  <2> QED
    BY <2>1, <2>2, <2>4 DEF Past
<1>3. InOrder(o)
  BY <1>2 DEF InOrder, UnreliableHanded
<1>4. ASSUME NEW c \in network, m < LastNumber(Incoming(c)), LastNumber(Incoming(c)) =< m
      PROVE  FALSE
  <2>1. Incoming(c) \in Entry
    BY MadeIsTyped DEF Made
  <2>2. Incoming(c).reliable \in Nat /\ Incoming(c).count \in Nat
    BY <2>1 DEF Entry
  <2>3. LastNumber(Incoming(c)) \in Int
    BY <2>2 DEF LastNumber
  <2> QED
    BY <1>4, <2>3
<1> QED
  BY <1>1, <1>2, <1>3, <1>4 DEF Handed

LEMMA UnreliableDispatchSettles ==
  ASSUME SenderInv, CommandsFit, Numbered, NEW ch \in ChannelType,
         ReliableWaits(ch.reliable, ch.reliableNumber), NextMissing(ch),
         UnreliableWaits(ch.unreliable, ch.reliableNumber, ch.reliableNumber,
                         ch.unreliableNumber),
         \A p \in DOMAIN ch.unreliable : Sequenced(ch.unreliable[p])
  PROVE  /\ Settled(DispatchUnreliable(ch))
         /\ HandsOver(ch, DispatchUnreliable(ch))
<1> DEFINE new == DispatchUnreliable(ch)
           n == ch.reliableNumber
           u == ch.unreliableNumber
<1>1. new \in ChannelType /\ new.reliable = ch.reliable /\ new.reliableNumber = n
  BY DispatchUnreliableKeeps
<1>2. n \in Nat /\ u \in Nat /\ new.unreliableNumber \in Nat
  BY <1>1 DEF ChannelType
<1>3. Window(n) =< Window(n) + (RELIABLE_WINDOWS - FREE_RELIABLE_WINDOWS + 1) /\ n =< n
  <2> HIDE DEF n
  <2>1. PICK w \in Nat : w = Window(n)
    BY <1>2, WindowInterval
  <2>2. w =< w + (RELIABLE_WINDOWS - FREE_RELIABLE_WINDOWS + 1)
    BY NumberConstants
  <2> QED
    BY <1>2, <2>1, <2>2
<1>4. /\ UnreliableSettled(new.unreliable, n, new.unreliableNumber)
      /\ u =< new.unreliableNumber
      /\ \E o : /\ new.out = ch.out \o o
                /\ UnreliableHanded(o, ch.unreliable, n, u, new.unreliableNumber)
  BY <1>2, <1>3, UnreliableDispatch
<1>5. PICK o : /\ new.out = ch.out \o o
               /\ UnreliableHanded(o, ch.unreliable, n, u, new.unreliableNumber)
  BY <1>4
<1>6. Handed(o, n, u, n, new.unreliableNumber)
  BY <1>2, <1>5, UnreliableIsHanded
<1> HIDE DEF new
<1>7. Settled(new)
  BY <1>1, <1>4 DEF Settled, NextMissing
<1>8. HandsOver(ch, new)
  BY <1>1, <1>4, <1>5, <1>6 DEF HandsOver, Later
<1> QED
  BY <1>7, <1>8 DEF new

\* A number that the reliable dispatch reaches was used by the sender.
LEMMA NumberAfterIsUsed ==
  ASSUME SenderInv, CommandsFit, Numbered, NEW n, NEW s, ReliableWaits(s, n),
         NEW k \in 1 .. Len(s)
  PROVE  NumberAfter(s, k, n) =< outgoingReliableSequenceNumber
<1> DEFINE L == Waiters(ReliableTypes, n)
           e == s[k]
<1>1. s \in Seq(L)
  BY DEF ReliableWaits
<1>2. e \in L /\ k # 0
  <2> HIDE DEF L
  <2>1. Len(s) \in Nat
    BY <1>1, LenProperties
  <2> QED
    BY <1>1, <2>1, ElementOfSeq
<1>3. NumberAfter(s, k, n) = e.reliable + (IF e.count > 0 THEN e.count - 1 ELSE 0)
  BY <1>2 DEF NumberAfter
<1> HIDE DEF e
<1>4. e \in Arrivals /\ e.type \in ReliableTypes
  BY <1>2 DEF Waiters
<1>5. Sequenced(e)
  BY <1>4 DEF Sequenced, ReliableTypes
<1>6. LastNumber(e) = NumberAfter(s, k, n)
  BY <1>3, <1>4, ArrivalNumbers
<1> QED
  BY <1>4, <1>5, <1>6, ArrivalNumbers

LEMMA ReliableDispatchSettles ==
  ASSUME SenderInv, CommandsFit, Numbered, SmallPackets, NEW ch \in ChannelType,
         ReliableWaits(ch.reliable, ch.reliableNumber),
         UnreliableSettled(ch.unreliable, ch.reliableNumber, ch.unreliableNumber)
  PROVE  /\ Settled(DispatchReliable(ch))
         /\ HandsOver(ch, DispatchReliable(ch))
<1> DEFINE s == ch.reliable
           n == ch.reliableNumber
           u == ch.unreliableNumber
           k == Ready(s, n)
           m == NumberAfter(s, k, n)
           front == SubSeq(s, 1, k)
           back == SubSeq(s, k + 1, Len(s))
           out == ch.out \o front
           mid == [ch EXCEPT !.reliableNumber = m, !.unreliableNumber = 0,
                             !.reliable = back, !.out = out]
<1>1. DispatchReliable(ch) = IF k = 0 THEN ch ELSE DispatchUnreliable(mid)
  BY DEF DispatchReliable
<1>2. n \in Nat /\ u \in Nat
  BY DEF ChannelType
<1>3. /\ k \in 0 .. Len(s) /\ m \in Nat
      /\ k # 0 => n < m
      /\ k # 0 => Window(m) =< Window(n) + (RELIABLE_WINDOWS - FREE_RELIABLE_WINDOWS + 1)
      /\ ReliableWaits(back, m)
      /\ back # <<>> => ~ Continues(back, 1, m)
      /\ Whole(front)
      /\ \A p \in DOMAIN front :
           /\ front[p].type \in ReliableTypes
           /\ n < LastNumber(front[p]) /\ LastNumber(front[p]) =< m
      /\ InOrder(front)
      /\ \A c \in network :
           /\ c.type \in ReliableTypes
           /\ n < LastNumber(Incoming(c)) /\ LastNumber(Incoming(c)) =< m
           => \E p \in DOMAIN front : front[p].packet = c.packet
  <2>1. ReliableWaits(s, n)
    OBVIOUS
  <2> HIDE DEF s, n
  <2>2. /\ k \in 0 .. Len(s) /\ m \in Nat
        /\ k # 0 => n < m
        /\ k # 0 => Window(m) =< Window(n) + (RELIABLE_WINDOWS - FREE_RELIABLE_WINDOWS + 1)
    BY <1>2, <2>1, ReadyRun
  <2>3. ReliableWaits(back, m) /\ (back # <<>> => ~ Continues(back, 1, m))
    BY <1>2, <2>1, ReadyRun
  <2>4. /\ Whole(front)
        /\ \A p \in DOMAIN front :
             /\ front[p].type \in ReliableTypes
             /\ n < LastNumber(front[p]) /\ LastNumber(front[p]) =< m
        /\ InOrder(front)
    BY <1>2, <2>1, ReadyRun
  <2>5. \A c \in network :
          /\ c.type \in ReliableTypes
          /\ n < LastNumber(Incoming(c)) /\ LastNumber(Incoming(c)) =< m
          => \E p \in DOMAIN front : front[p].packet = c.packet
    BY <1>2, <2>1, ReadyRun
  <2> HIDE DEF k, m, front, back
  <2> QED
    BY <2>2, <2>3, <2>4, <2>5
<1>4. s \in Seq(ReliableEntry) /\ ch.out \in Seq(Entry)
  BY ChannelLists
<1>5. /\ front \in Seq(ReliableEntry) /\ front \in Seq(Entry) /\ back \in Seq(ReliableEntry)
  <2> HIDE DEF s, k
  <2> QED
    BY <1>3, <1>4, HeldSplit, EntriesSized, SeqOfMore
<1>6. front \in Seq(Arrivals)
  BY <1>3 DEF Whole
<1>9. k # 0 => m =< outgoingReliableSequenceNumber
  <2>1. ReliableWaits(s, n)
    OBVIOUS
  <2> HIDE DEF s, n
  <2>2. Len(s) \in Nat
    BY <1>4, LenProperties
  <2> HIDE DEF k
  <2> QED
    BY <1>3, <2>1, <2>2, NumberAfterIsUsed
<1>7. CASE k = 0
  <2>1. back = s /\ m = n /\ front = <<>>
    <3>1. SubSeq(s, 1, Len(s)) = s
      BY <1>4, SubSeqFull
    <3>2. SubSeq(s, 1, 0) = <<>>
      BY SubSeqEmpty
    <3> QED
      BY <1>7, <3>1, <3>2 DEF NumberAfter
  <2>2. Settled(ch)
    BY <1>3, <2>1 DEF Settled, NextMissing
  <2>3. ch.out \o <<>> = ch.out
    BY <1>4, ConcatEmptySeq
  <2>4. Handed(<<>>, n, u, n, u)
    <3>1. Handed(front, n, u, m, u)
      <4> HIDE DEF front, m, n, u
      <4>1. DOMAIN front = {}
        BY <2>1
      <4> QED
        BY <1>3, <2>1, <4>1 DEF Handed
    <3> QED
      BY <2>1, <3>1
  <2>5. HandsOver(ch, ch)
    <3> DEFINE none == <<>>
    <3>1. ch.out = ch.out \o none /\ Handed(none, n, u, n, u)
      BY <2>3, <2>4
    <3> HIDE DEF none
    <3>2. Later(n, u, n, u)
      BY <1>2 DEF Later
    <3> QED
      BY <3>1, <3>2 DEF HandsOver
  <2> QED
    BY <1>1, <1>7, <2>2, <2>5
<1>8. CASE k # 0
  <2>1. Handed(front, n, u, m, 0)
    <3>1. DOMAIN front = 1 .. Len(front)
      BY <1>6, LenProperties
    <3> HIDE DEF front, m, n, u
    <3>2. ASSUME NEW p \in DOMAIN front
          PROVE  Sequenced(front[p]) /\ Past(front[p], m, 0) /\ ~ Past(front[p], n, u)
      <4>1. front[p] \in Arrivals
        BY <1>6, <3>1, ElementOfSeq
      <4>2. front[p].type \in AllTypes /\ LastNumber(front[p]) \in Nat
        BY <4>1, ArrivalNumbers
      <4>3. front[p].type \in ReliableTypes /\ n < LastNumber(front[p]) /\ LastNumber(front[p]) =< m
        BY <1>3
      <4>4. front[p].type \notin UnreliableTypes /\ Sequenced(front[p])
        BY <4>2, <4>3, TypesDiffer DEF Sequenced
      <4> QED
        BY <1>2, <4>2, <4>3, <4>4 DEF Past
    <3> QED
      BY <1>3, <1>8, <1>9, <3>2 DEF Handed
  <2>2. out \in Seq(Entry)
    BY <1>4, <1>5, ConcatProperties
  <2>3. 0 \in 0 .. UnreliableLimit
    BY DeliveryAssumption
  <2>4. UnreliableWaits(ch.unreliable, n, m, 0) /\ \A p \in DOMAIN ch.unreliable : Sequenced(ch.unreliable[p])
    <3> DEFINE t == ch.unreliable
    <3>1. UnreliableWaits(t, n, n, u) /\ \A p \in DOMAIN t : t[p].type \in UnreliableTypes
      BY DEF UnreliableSettled
    <3> HIDE DEF t, n, m, u
    <3>2. t \in Seq(Arrivals) /\ DOMAIN t = 1 .. Len(t)
      <4>1. t \in Seq(Arrivals)
        BY <3>1 DEF UnreliableWaits
      <4> QED
        BY <4>1, LenProperties
    <3>3. ASSUME NEW p \in DOMAIN t PROVE t[p].number > 0 /\ Sequenced(t[p])
      <4>1. t[p] \in Arrivals /\ t[p].type \in UnreliableTypes
        BY <3>1, <3>2, ElementOfSeq
      <4>2. t[p].number >= 1 /\ t[p].number \in Nat /\ t[p].type \in AllTypes
        BY <4>1, ArrivalNumbers
      <4>3. t[p].type # "SEND_UNSEQUENCED"
        BY <4>1, <4>2, TypesDiffer
      <4> QED
        BY <4>2, <4>3 DEF Sequenced
    <3>4. UnreliableWaits(t, n, m, 0)
      BY <3>1, <3>3 DEF UnreliableWaits
    <3> QED
      BY <3>3, <3>4 DEF t
  <2> HIDE DEF s, n, u, k, m, front, back, out
  <2>5. /\ mid \in ChannelType /\ mid.reliable = back /\ mid.out = out
        /\ mid.unreliable = ch.unreliable /\ mid.reliableNumber = m /\ mid.unreliableNumber = 0
    BY <1>3, <1>5, <2>2, <2>3 DEF ChannelType
  <2> HIDE DEF mid
  <2> DEFINE new == DispatchUnreliable(mid)
  <2>6. new \in ChannelType /\ new.reliable = back /\ new.reliableNumber = m
    BY <2>5, DispatchUnreliableKeeps
  <2>7. n < m /\ n =< m /\ Window(m) =< Window(n) + (RELIABLE_WINDOWS - FREE_RELIABLE_WINDOWS + 1)
    BY <1>2, <1>3, <1>8
  <2>8. /\ UnreliableSettled(new.unreliable, m, new.unreliableNumber)
        /\ 0 =< new.unreliableNumber
        /\ \E o : /\ new.out = out \o o
                  /\ UnreliableHanded(o, ch.unreliable, m, 0, new.unreliableNumber)
    <3>1. /\ UnreliableWaits(mid.unreliable, n, mid.reliableNumber, mid.unreliableNumber)
          /\ n =< mid.reliableNumber
          /\ Window(mid.reliableNumber) =< Window(n) + (RELIABLE_WINDOWS - FREE_RELIABLE_WINDOWS + 1)
      BY <2>4, <2>5, <2>7
    <3> HIDE DEF new
    <3>2. /\ UnreliableSettled(new.unreliable, mid.reliableNumber, new.unreliableNumber)
          /\ mid.unreliableNumber =< new.unreliableNumber
          /\ \E o : /\ new.out = mid.out \o o
                    /\ UnreliableHanded(o, mid.unreliable, mid.reliableNumber,
                                        mid.unreliableNumber, new.unreliableNumber)
      BY <1>2, <2>5, <3>1, UnreliableDispatch DEF new
    <3> QED
      BY <2>5, <3>2
  <2>9. PICK o : /\ new.out = out \o o
                 /\ UnreliableHanded(o, ch.unreliable, m, 0, new.unreliableNumber)
    BY <2>8
  <2> HIDE DEF new
  <2>10. new.unreliableNumber \in Nat
    BY <2>6 DEF ChannelType
  <2>11. Handed(o, m, 0, m, new.unreliableNumber)
    BY <1>3, <2>4, <2>9, <2>10, UnreliableIsHanded
  <2>12. Later(n, u, m, 0) /\ Later(m, 0, m, new.unreliableNumber)
    BY <2>7, <2>8 DEF Later
  <2>13. Handed(front \o o, n, u, m, new.unreliableNumber) /\ Later(n, u, m, new.unreliableNumber)
    <3> DEFINE zero == 0
    <3>1. zero \in Nat
      OBVIOUS
    <3>2. Handed(front, n, u, m, zero) /\ Handed(o, m, zero, m, new.unreliableNumber)
          /\ Later(n, u, m, zero) /\ Later(m, zero, m, new.unreliableNumber)
      BY <2>1, <2>11, <2>12
    <3> HIDE DEF zero
    <3> QED
      BY <1>2, <1>3, <2>10, <3>1, <3>2, HandedTwice
  <2>14. new.out = ch.out \o (front \o o)
    <3>1. o \in Seq(Entry)
      <4>1. o \in Seq(Arrivals)
        BY <2>9 DEF UnreliableHanded, Whole
      <4>2. Arrivals \subseteq Entry
        BY DEF Arrivals
      <4> QED
        BY <4>1, <4>2, SeqOfMore
    <3> QED
      <4>1. ch.out \in Seq(Entry) /\ front \in Seq(Entry)
        BY <1>4, <1>5
      <4>2. (ch.out \o front) \o o = ch.out \o (front \o o)
        <5> DEFINE a == ch.out
        <5>1. a \in Seq(Entry)
          BY <4>1
        <5> HIDE DEF a
        <5>2. \A x, y, z \in Seq(Entry) : (x \o y) \o z = x \o (y \o z)
          BY ConcatAssociative
        <5>3. front \in Seq(Entry)
          BY <4>1
        <5>4. (a \o front) \o o = a \o (front \o o)
          BY <3>1, <5>1, <5>2, <5>3
        <5> QED
          BY <5>4 DEF a
      <4> QED
        BY <2>9, <4>2 DEF out
  <2>15. Settled(new)
    BY <1>3, <2>6, <2>8 DEF Settled, NextMissing
  <2>16. HandsOver(ch, new)
    BY <2>6, <2>13, <2>14 DEF HandsOver, n, u
  <2> QED
    BY <1>1, <1>8, <2>15, <2>16 DEF new
<1> QED
  BY <1>7, <1>8

-----------------------------------------------------------------------------
(* A fragment that is copied into its packet. *)

Same(m, e) ==
  /\ m.packet = e.packet /\ m.type = e.type /\ m.count = e.count
  /\ m.reliable = e.reliable /\ m.number = e.number

LEMMA MarkedArrives ==
  ASSUME NEW e \in Arrivals, NEW c \in CommandType,
         c.fragment \in 0 .. e.count - 1, c.packet = e.packet
  PROVE  Marked(e, c) \in Arrivals /\ Same(Marked(e, c), e)
<1> DEFINE x == [fragment |-> c.fragment, packet |-> c.packet]
           fs == e.fragments \cup {x}
           m == Marked(e, c)
<1>1. e \in Entry /\ \A y \in e.fragments : y.packet = e.packet
  BY DEF Arrivals
<1>2. PICK d \in network : CameFrom(e, d)
  BY DEF Arrivals
<1>3. m \in Entry
  BY <1>1, MarkedKeeps
<1>4. x.packet = e.packet
  OBVIOUS
<1>5. m = [e EXCEPT !.fragments = fs]
  BY DEF Marked
<1> HIDE DEF x, m
<1>6. \A y \in fs : y.packet = e.packet
  BY <1>1, <1>4
<1> HIDE DEF fs
<1>7. e \in [packet : Packets, type : AllTypes, reliable : Nat,
             number : 0 .. UnreliableLimit, count : Nat,
             fragments : SUBSET [fragment : Nat, packet : Packets]]
  BY <1>1 DEF Entry
<1>8. m.fragments = fs /\ Same(m, e)
  BY <1>5, <1>7 DEF Same
<1>9. CameFrom(m, d)
  BY <1>2, <1>8 DEF CameFrom, Same
<1> QED
  BY <1>3, <1>6, <1>8, <1>9 DEF Arrivals, Same, m

LEMMA MarkedReliable ==
  ASSUME NEW n, NEW s, ReliableWaits(s, n), NEW p \in DOMAIN s,
         NEW m \in Arrivals, Same(m, s[p])
  PROVE  /\ ReliableWaits([s EXCEPT ![p] = m], n)
         /\ fragmentsRemaining(m) > 0 /\ ~ Continues(s, 1, n) =>
              ~ Continues([s EXCEPT ![p] = m], 1, n)
<1> DEFINE t == [s EXCEPT ![p] = m]
           L == Waiters(ReliableTypes, n)
<1>1. s \in Seq(L) /\ InOrder(s) /\ \A r \in DOMAIN s : s[r].reliable # n
  BY DEF ReliableWaits
<1>2. DOMAIN s = 1 .. Len(s) /\ s[p] \in L
  <2> HIDE DEF L
  <2> QED
    BY <1>1, LenProperties, ElementOfSeq
<1>3. m \in L
  BY <1>2 DEF Waiters, Same, Ahead
<1>4. t \in Seq(L)
  <2> HIDE DEF L
  <2> QED
    BY <1>1, <1>2, <1>3, ExceptSeq
<1>5. DOMAIN t = DOMAIN s /\ \A r \in DOMAIN s : t[r] = IF r = p THEN m ELSE s[r]
  OBVIOUS
<1> HIDE DEF t
<1>6. InOrder(t) /\ \A r \in DOMAIN t : t[r].reliable # n
  BY <1>1, <1>5 DEF InOrder, Same
<1>7. fragmentsRemaining(m) > 0 /\ ~ Continues(s, 1, n) => ~ Continues(t, 1, n)
  <2>1. SUFFICES ASSUME fragmentsRemaining(m) > 0, ~ Continues(s, 1, n) PROVE ~ Continues(t, 1, n)
    OBVIOUS
  <2>2. CASE p = 1
    <3>1. t[1] = m
      BY <1>5, <2>2
    <3>2. fragmentsRemaining(m) \in Int
      BY RemainingIsNumber DEF Arrivals
    <3> QED
      BY <2>1, <3>1, <3>2 DEF Continues
  <2>3. CASE p # 1 /\ 1 \in DOMAIN s
    <3>1. t[1] = s[1]
      BY <1>5, <2>3
    <3>2. NumberAfter(t, 1 - 1, n) = NumberAfter(s, 1 - 1, n)
      BY DEF NumberAfter
    <3> QED
      BY <2>1, <3>1, <3>2 DEF Continues
  <2>4. CASE p # 1 /\ 1 \notin DOMAIN s
    <3>1. Len(s) \in Nat
      BY <1>1, LenProperties
    <3> QED
      BY <1>2, <2>4, <3>1
  <2> QED
    BY <2>2, <2>3, <2>4
<1> QED
  BY <1>4, <1>6, <1>7 DEF ReliableWaits, t

LEMMA MarkedUnreliable ==
  ASSUME NEW n, NEW u, NEW s, UnreliableSettled(s, n, u), NEW p \in DOMAIN s,
         NEW m \in Arrivals, Same(m, s[p])
  PROVE  /\ UnreliableWaits([s EXCEPT ![p] = m], n, n, u)
         /\ \A r \in DOMAIN [s EXCEPT ![p] = m] : [s EXCEPT ![p] = m][r].type \in UnreliableTypes
         /\ fragmentsRemaining(m) > 0 => UnreliableSettled([s EXCEPT ![p] = m], n, u)
<1> DEFINE t == [s EXCEPT ![p] = m]
<1>1. s \in Seq(Arrivals)
  BY DEF UnreliableSettled, UnreliableWaits
<1>2. DOMAIN s = 1 .. Len(s)
  BY <1>1, LenProperties
<1>3. t \in Seq(Arrivals)
  BY <1>1, <1>2, ExceptSeq
<1>4. DOMAIN t = DOMAIN s /\ \A r \in DOMAIN s : t[r] = IF r = p THEN m ELSE s[r]
  OBVIOUS
<1> HIDE DEF t
<1>5. \A r \in DOMAIN s : /\ t[r].packet = s[r].packet /\ t[r].type = s[r].type
                          /\ t[r].reliable = s[r].reliable /\ t[r].number = s[r].number
  BY <1>4 DEF Same
<1>6. UnreliableWaits(s, n, n, u)
  BY DEF UnreliableSettled
<1>7. UnreliableWaits(t, n, n, u)
  BY <1>3, <1>4, <1>5, <1>6 DEF UnreliableWaits, Sequenced, Ahead
<1>8. \A r \in DOMAIN t : t[r].type \in UnreliableTypes
  BY <1>4, <1>5 DEF UnreliableSettled
<1>9. fragmentsRemaining(m) > 0 => UnreliableSettled(t, n, u)
  BY <1>4, <1>5, <1>7, <1>8 DEF UnreliableSettled
<1> QED
  BY <1>7, <1>8, <1>9 DEF t

LEMMA HandsOverTwice ==
  ASSUME SenderInv, CommandsFit, Numbered, NEW a \in ChannelType, NEW b \in ChannelType,
         NEW d \in ChannelType, HandsOver(a, b), HandsOver(b, d)
  PROVE  HandsOver(a, d)
<1>1. PICK o1 : /\ b.out = a.out \o o1
                /\ Handed(o1, a.reliableNumber, a.unreliableNumber,
                          b.reliableNumber, b.unreliableNumber)
  BY DEF HandsOver
<1>2. PICK o2 : /\ d.out = b.out \o o2
                /\ Handed(o2, b.reliableNumber, b.unreliableNumber,
                          d.reliableNumber, d.unreliableNumber)
  BY DEF HandsOver
<1>3. /\ a.reliableNumber \in Nat /\ a.unreliableNumber \in Nat
      /\ b.reliableNumber \in Nat /\ b.unreliableNumber \in Nat
      /\ d.reliableNumber \in Nat /\ d.unreliableNumber \in Nat
  BY DEF ChannelType
<1>4. /\ Handed(o1 \o o2, a.reliableNumber, a.unreliableNumber,
                d.reliableNumber, d.unreliableNumber)
      /\ Later(a.reliableNumber, a.unreliableNumber, d.reliableNumber, d.unreliableNumber)
  <2>1. /\ Later(a.reliableNumber, a.unreliableNumber, b.reliableNumber, b.unreliableNumber)
        /\ Later(b.reliableNumber, b.unreliableNumber, d.reliableNumber, d.unreliableNumber)
    BY DEF HandsOver
  <2> QED
    BY <1>1, <1>2, <1>3, <2>1, HandedTwice
<1>5. d.out = a.out \o (o1 \o o2)
  <2> DEFINE c == a.out
  <2>1. c \in Seq(Entry)
    BY ChannelLists
  <2>2. o1 \in Seq(Entry) /\ o2 \in Seq(Entry)
    <3>1. o1 \in Seq(Arrivals) /\ o2 \in Seq(Arrivals)
      BY <1>1, <1>2 DEF Handed, Whole
    <3>2. Arrivals \subseteq Entry
      BY DEF Arrivals
    <3> QED
      BY <3>1, <3>2, SeqOfMore
  <2>3. d.out = (c \o o1) \o o2
    BY <1>1, <1>2
  <2> HIDE DEF c
  <2>4. \A x, y, z \in Seq(Entry) : (x \o y) \o z = x \o (y \o z)
    BY ConcatAssociative
  <2>5. (c \o o1) \o o2 = c \o (o1 \o o2)
    BY <2>1, <2>2, <2>4
  <2> QED
    BY <2>3, <2>5 DEF c
<1> QED
  BY <1>4, <1>5 DEF HandsOver

LEMMA HandsOverNothing ==
  ASSUME SenderInv, CommandsFit, Numbered, NEW ch \in ChannelType, NEW new \in ChannelType,
         new.out = ch.out, new.reliableNumber = ch.reliableNumber,
         new.unreliableNumber = ch.unreliableNumber
  PROVE  HandsOver(ch, new)
<1> DEFINE n == ch.reliableNumber
           u == ch.unreliableNumber
           none == <<>>
<1>1. n \in Nat /\ u \in Nat /\ ch.out \in Seq(Entry)
  BY ChannelLists DEF ChannelType
<1>2. ch.out \o none = ch.out
  BY <1>1, ConcatEmptySeq
<1>3. UnreliableHanded(none, none, n, u, u)
  BY DEF UnreliableHanded, Whole
<1>4. \A p \in DOMAIN none : Sequenced(none[p])
  OBVIOUS
<1> HIDE DEF none
<1>5. Handed(none, n, u, n, u)
  BY <1>1, <1>3, <1>4, UnreliableIsHanded
<1>6. Later(n, u, n, u)
  BY <1>1 DEF Later
<1> QED
  BY <1>2, <1>5, <1>6 DEF HandsOver

LEMMA ReliableFragmentSettles ==
  ASSUME SenderInv, CommandsFit, Numbered, SmallPackets, NEW ch \in ChannelType,
         Settled(ch), NEW p \in DOMAIN ch.reliable, NEW c \in CommandType,
         c.fragment \in 0 .. ch.reliable[p].count - 1, c.packet = ch.reliable[p].packet
  PROVE  /\ Settled(WithReliableFragment(ch, p, c))
         /\ HandsOver(ch, WithReliableFragment(ch, p, c))
<1> DEFINE e == ch.reliable[p]
           m == Marked(e, c)
           n == ch.reliableNumber
           s == [ch.reliable EXCEPT ![p] = m]
           marked == [ch EXCEPT !.reliable[p] = Marked(@, c)]
           new == WithReliableFragment(ch, p, c)
<1>1. /\ ReliableWaits(ch.reliable, n)
      /\ UnreliableSettled(ch.unreliable, n, ch.unreliableNumber)
      /\ ch.reliable # <<>> => ~ Continues(ch.reliable, 1, n)
  BY DEF Settled, NextMissing
<1>2. ch.reliable \in Seq(Waiters(ReliableTypes, n)) /\ ch.reliable \in Seq(ReliableEntry)
  BY <1>1, ChannelLists DEF ReliableWaits
<1>3. e \in Waiters(ReliableTypes, n) /\ ch.reliable # <<>> /\ DOMAIN ch.reliable = 1 .. Len(ch.reliable)
  BY <1>2, ElementOfSeq, LenProperties
<1>4. e \in Arrivals /\ e.type \in ReliableTypes
  BY <1>3 DEF Waiters
<1>5. marked = [ch EXCEPT !.reliable = s]
  OBVIOUS
<1> HIDE DEF e
<1>6. m \in Arrivals /\ Same(m, e)
  BY <1>4, MarkedArrives DEF e
<1> HIDE DEF m
<1>7. m \in ReliableEntry
  BY <1>4, <1>6 DEF ReliableEntry, Arrivals, Same
<1>8. s \in Seq(ReliableEntry) /\ s[p] = m
  BY <1>2, <1>3, <1>7, ExceptSeq
<1>9. /\ ReliableWaits(s, n)
      /\ fragmentsRemaining(m) > 0 => (s # <<>> => ~ Continues(s, 1, n))
  <2>1. /\ ReliableWaits(s, n)
        /\ fragmentsRemaining(m) > 0 /\ ~ Continues(ch.reliable, 1, n) => ~ Continues(s, 1, n)
    BY <1>1, <1>6, MarkedReliable DEF e
  <2> QED
    BY <1>1, <1>3, <2>1
<1> HIDE DEF s, n
<1>10. /\ marked \in ChannelType /\ marked.reliable = s /\ marked.unreliable = ch.unreliable
       /\ marked.reliableNumber = n /\ marked.unreliableNumber = ch.unreliableNumber
       /\ marked.out = ch.out
  BY <1>5, <1>8 DEF ChannelType, n
<1> HIDE DEF marked
<1>11. HandsOver(ch, marked)
  BY <1>10, HandsOverNothing DEF n
<1>12. ReliableWaits(marked.reliable, marked.reliableNumber)
       /\ UnreliableSettled(marked.unreliable, marked.reliableNumber, marked.unreliableNumber)
  BY <1>1, <1>9, <1>10
<1>13. new = IF fragmentsRemaining(m) =< 0 THEN DispatchReliable(marked) ELSE marked
  <2>1. new = IF fragmentsRemaining(marked.reliable[p]) =< 0 THEN DispatchReliable(marked) ELSE marked
    BY DEF WithReliableFragment, marked
  <2> QED
    BY <1>8, <1>10, <2>1
<1>14. CASE fragmentsRemaining(m) =< 0
  <2>1. Settled(DispatchReliable(marked)) /\ HandsOver(marked, DispatchReliable(marked))
    BY <1>10, <1>12, ReliableDispatchSettles
  <2>2. DispatchReliable(marked) \in ChannelType
    BY <1>10, DispatchReliableKeeps
  <2>3. HandsOver(ch, DispatchReliable(marked))
    BY <1>10, <1>11, <2>1, <2>2, HandsOverTwice
  <2> QED
    BY <1>13, <1>14, <2>1, <2>3
<1>15. CASE ~ (fragmentsRemaining(m) =< 0)
  <2>1. fragmentsRemaining(m) > 0
    <3>1. fragmentsRemaining(m) \in Int
      BY <1>6, RemainingIsNumber DEF Arrivals
    <3> QED
      BY <1>15, <3>1
  <2>2. Settled(marked)
    BY <1>9, <1>10, <1>12, <2>1 DEF Settled, NextMissing
  <2> QED
    BY <1>11, <1>13, <1>15, <2>2
<1> QED
  BY <1>14, <1>15

LEMMA UnreliableFragmentSettles ==
  ASSUME SenderInv, CommandsFit, Numbered, NEW ch \in ChannelType,
         Settled(ch), NEW p \in DOMAIN ch.unreliable, NEW c \in CommandType,
         c.fragment \in 0 .. ch.unreliable[p].count - 1, c.packet = ch.unreliable[p].packet
  PROVE  /\ Settled(WithUnreliableFragment(ch, p, c))
         /\ HandsOver(ch, WithUnreliableFragment(ch, p, c))
<1> DEFINE e == ch.unreliable[p]
           m == Marked(e, c)
           n == ch.reliableNumber
           u == ch.unreliableNumber
           s == [ch.unreliable EXCEPT ![p] = m]
           marked == [ch EXCEPT !.unreliable[p] = Marked(@, c)]
           new == WithUnreliableFragment(ch, p, c)
<1>1. /\ ReliableWaits(ch.reliable, n)
      /\ UnreliableSettled(ch.unreliable, n, u)
      /\ ch.reliable # <<>> => ~ Continues(ch.reliable, 1, n)
  BY DEF Settled, NextMissing
<1>2. ch.unreliable \in Seq(Arrivals) /\ ch.unreliable \in Seq(UnreliableEntry)
  BY <1>1, ChannelLists DEF UnreliableSettled, UnreliableWaits
<1>3. e \in Arrivals /\ e \in UnreliableEntry /\ DOMAIN ch.unreliable = 1 .. Len(ch.unreliable)
  BY <1>2, ElementOfSeq, LenProperties
<1>5. marked = [ch EXCEPT !.unreliable = s]
  OBVIOUS
<1> HIDE DEF e
<1>6. m \in Arrivals /\ Same(m, e)
  BY <1>3, MarkedArrives DEF e
<1> HIDE DEF m
<1>7. m \in UnreliableEntry
  BY <1>3, <1>6 DEF UnreliableEntry, Arrivals, Same
<1>8. s \in Seq(UnreliableEntry) /\ s[p] = m
  BY <1>2, <1>3, <1>7, ExceptSeq
<1>9. /\ UnreliableWaits(s, n, n, u)
      /\ \A r \in DOMAIN s : s[r].type \in UnreliableTypes
      /\ fragmentsRemaining(m) > 0 => UnreliableSettled(s, n, u)
  BY <1>1, <1>6, MarkedUnreliable DEF e
<1>16. \A r \in DOMAIN s : Sequenced(s[r])
  BY <1>9 DEF Sequenced, UnreliableTypes
<1> HIDE DEF s, n, u
<1>10. /\ marked \in ChannelType /\ marked.reliable = ch.reliable /\ marked.unreliable = s
       /\ marked.reliableNumber = n /\ marked.unreliableNumber = u
       /\ marked.out = ch.out
  BY <1>5, <1>8 DEF ChannelType, n, u
<1> HIDE DEF marked
<1>11. HandsOver(ch, marked)
  BY <1>10, HandsOverNothing DEF n, u
<1>12. /\ ReliableWaits(marked.reliable, marked.reliableNumber) /\ NextMissing(marked)
       /\ UnreliableWaits(marked.unreliable, marked.reliableNumber, marked.reliableNumber,
                          marked.unreliableNumber)
       /\ \A r \in DOMAIN marked.unreliable : Sequenced(marked.unreliable[r])
  BY <1>1, <1>9, <1>10, <1>16 DEF NextMissing
<1>13. new = IF fragmentsRemaining(m) =< 0 THEN DispatchUnreliable(marked) ELSE marked
  <2>1. new = IF fragmentsRemaining(marked.unreliable[p]) =< 0 THEN DispatchUnreliable(marked) ELSE marked
    BY DEF WithUnreliableFragment, marked
  <2> QED
    BY <1>8, <1>10, <2>1
<1>14. CASE fragmentsRemaining(m) =< 0
  <2>1. Settled(DispatchUnreliable(marked)) /\ HandsOver(marked, DispatchUnreliable(marked))
    BY <1>10, <1>12, UnreliableDispatchSettles
  <2>2. DispatchUnreliable(marked) \in ChannelType
    BY <1>10, DispatchUnreliableKeeps
  <2>3. HandsOver(ch, DispatchUnreliable(marked))
    BY <1>10, <1>11, <2>1, <2>2, HandsOverTwice
  <2> QED
    BY <1>13, <1>14, <2>1, <2>3
<1>15. CASE ~ (fragmentsRemaining(m) =< 0)
  <2>1. fragmentsRemaining(m) > 0
    <3>1. fragmentsRemaining(m) \in Int
      BY <1>6, RemainingIsNumber DEF Arrivals
    <3> QED
      BY <1>15, <3>1
  <2>2. Settled(marked)
    BY <1>9, <1>10, <1>12, <2>1 DEF Settled
  <2> QED
    BY <1>11, <1>13, <1>15, <2>2
<1> QED
  BY <1>14, <1>15

-----------------------------------------------------------------------------
(* What the handlers make of the channel. *)

\* The lists are in order, hold nothing that could be dispatched, and what was
\* dispatched is complete.
OrderInv ==
  /\ Settled(Channel)
  /\ Whole(dispatched)
  /\ Numbered

LEMMA ChannelFields ==
  ASSUME ReceiverInv
  PROVE  /\ Channel \in ChannelType
         /\ Channel.reliable = incomingReliable
         /\ Channel.unreliable = incomingUnreliable
         /\ Channel.reliableNumber = incomingReliableSequenceNumber
         /\ Channel.unreliableNumber = incomingUnreliableSequenceNumber
         /\ Channel.out = <<>>
         /\ incomingReliableSequenceNumber \in Nat
         /\ incomingUnreliableSequenceNumber \in Nat
<1>1. Channel \in ChannelType
  BY ChannelTyped
<1>2. incomingReliableSequenceNumber \in Nat /\ incomingUnreliableSequenceNumber \in Nat
  BY DEF ReceiverInv, ReceiverType
<1> QED
  BY <1>1, <1>2 DEF Channel

\* The lists of the channel that is being searched.
LEMMA SettledLists ==
  ASSUME ReceiverInv, OrderInv
  PROVE  /\ incomingReliable \in Seq(Waiters(ReliableTypes, incomingReliableSequenceNumber))
         /\ InOrder(incomingReliable)
         /\ \A p \in DOMAIN incomingReliable :
              incomingReliable[p].reliable # incomingReliableSequenceNumber
         /\ incomingUnreliable \in Seq(Waiters(UnreliableTypes, incomingReliableSequenceNumber))
         /\ InOrder(incomingUnreliable)
         /\ \A p \in DOMAIN incomingUnreliable :
              incomingUnreliable[p].reliable = incomingReliableSequenceNumber =>
                /\ incomingUnreliable[p].number > incomingUnreliableSequenceNumber
                /\ fragmentsRemaining(incomingUnreliable[p]) > 0
<1> DEFINE n == incomingReliableSequenceNumber
           u == incomingUnreliableSequenceNumber
           s == incomingUnreliable
<1>1. ReliableWaits(incomingReliable, n) /\ UnreliableSettled(s, n, u)
  BY ChannelFields DEF OrderInv, Settled
<1> HIDE DEF n, u, s
<1>2. s \in Seq(Arrivals) /\ DOMAIN s = 1 .. Len(s)
  <2>1. s \in Seq(Arrivals)
    BY <1>1 DEF UnreliableSettled, UnreliableWaits
  <2> QED
    BY <2>1, LenProperties
<1>3. ASSUME NEW p \in DOMAIN s
      PROVE  /\ s[p] \in Arrivals /\ s[p].type \in UnreliableTypes /\ Sequenced(s[p])
             /\ Ahead(s[p], n)
             /\ s[p].reliable = n => s[p].number > u /\ fragmentsRemaining(s[p]) > 0
  <2>1. s[p] \in Arrivals /\ s[p].type \in UnreliableTypes
    BY <1>1, <1>2, ElementOfSeq DEF UnreliableSettled
  <2>2. Sequenced(s[p])
    BY <2>1 DEF Sequenced, UnreliableTypes
  <2> QED
    BY <1>1, <2>1, <2>2 DEF UnreliableSettled, UnreliableWaits
<1>4. s \in Seq(Waiters(UnreliableTypes, n))
  <2>1. \A p \in 1 .. Len(s) : s[p] \in Waiters(UnreliableTypes, n)
    BY <1>2, <1>3 DEF Waiters
  <2> QED
    BY <1>2, <2>1, IsASeq
<1>5. InOrder(s)
  BY <1>1, <1>3 DEF InOrder, UnreliableSettled, UnreliableWaits
<1> QED
  BY <1>1, <1>3, <1>4, <1>5 DEF ReliableWaits, n, u, s

\* A new command of a reliable packet, and what its dispatch makes of it.
LEMMA NewReliableSettles ==
  ASSUME SenderInv, ReceiverInv, OrderInv, SmallPackets, NEW c \in network, Fresh(c),
         c.type \in ReliableTypes, Wanted(Incoming(c)),
         ~ HasTwin(incomingReliable, Incoming(c))
  PROVE  LET new == DispatchReliable([Channel EXCEPT !.reliable = Inserted(@, Incoming(c))]) IN
         new \in ChannelType /\ Settled(new) /\ HandsOver(Channel, new)
<1> DEFINE e == Incoming(c)
           n == incomingReliableSequenceNumber
           L == Waiters(ReliableTypes, n)
           t == Inserted(incomingReliable, e)
           mid == [Channel EXCEPT !.reliable = Inserted(@, e)]
<1>1. CommandsFit /\ Numbered
  BY DEF ReceiverInv, OrderInv
<1>2. /\ Channel \in ChannelType /\ n \in Nat /\ Channel.reliable = incomingReliable
      /\ Channel.reliableNumber = n
  BY ChannelFields
<1>3. c \in CommandType /\ e.type = c.type /\ e \in ReliableEntry
  BY HandlerFacts
<1>4. c.type # "SEND_UNSEQUENCED" /\ AcceptedWindow(Wire(e.reliable)) /\ Wire(e.reliable) # Wire(n)
  BY <1>3 DEF Wanted, ReliableTypes
<1>5. e \in Arrivals /\ Ahead(e, n) /\ e.reliable # n
  BY <1>1, <1>2, <1>4, AcceptedIsAhead
<1>6. e \in L
  BY <1>3, <1>5 DEF Waiters
<1>7. /\ incomingReliable \in Seq(L) /\ InOrder(incomingReliable)
      /\ \A p \in DOMAIN incomingReliable : incomingReliable[p].reliable # n
  BY SettledLists
<1> HIDE DEF e, L
<1>8. /\ t \in Seq(L) /\ InOrder(t)
      /\ \A k \in DOMAIN t : t[k] = e \/ \E r \in DOMAIN incomingReliable : t[k] = incomingReliable[r]
  BY <1>1, <1>2, <1>6, <1>7, InsertedInOrder DEF L, e
<1>9. ReliableWaits(t, n)
  BY <1>5, <1>7, <1>8 DEF ReliableWaits, L
<1>10. mid \in ChannelType /\ mid.reliable = t
  BY <1>3, ReliableArrives
<1> HIDE DEF t
<1>11. /\ mid.unreliable = Channel.unreliable /\ mid.reliableNumber = n
       /\ mid.unreliableNumber = Channel.unreliableNumber /\ mid.out = Channel.out
  BY <1>2 DEF ChannelType
<1> HIDE DEF mid, n
<1>12. UnreliableSettled(mid.unreliable, mid.reliableNumber, mid.unreliableNumber)
  BY <1>2, <1>11 DEF OrderInv, Settled
<1>13. ReliableWaits(mid.reliable, mid.reliableNumber)
  BY <1>9, <1>10, <1>11
<1>14. Settled(DispatchReliable(mid)) /\ HandsOver(mid, DispatchReliable(mid))
  BY <1>1, <1>10, <1>12, <1>13, ReliableDispatchSettles
<1>15. DispatchReliable(mid) \in ChannelType
  BY <1>10, DispatchReliableKeeps
<1>16. HandsOver(Channel, DispatchReliable(mid))
  <2>1. Channel \in ChannelType /\ mid.out = Channel.out
        /\ mid.reliableNumber = Channel.reliableNumber
        /\ mid.unreliableNumber = Channel.unreliableNumber
    BY <1>2, <1>11
  <2> QED
    BY <1>14, <2>1 DEF HandsOver
<1> QED
  BY <1>14, <1>15, <1>16 DEF mid, e

\* A new command of an unreliable packet in the list, before the dispatch.
LEMMA NewUnreliableWaits ==
  ASSUME SenderInv, ReceiverInv, OrderInv, NEW c \in network, Fresh(c),
         c.type \in UnreliableTypes, Wanted(Incoming(c)),
         ~ HasTwin(incomingUnreliable, Incoming(c))
  PROVE  LET e == Incoming(c)
             n == incomingReliableSequenceNumber
             t == Inserted(incomingUnreliable, e)
             mid == [Channel EXCEPT !.unreliable = Inserted(@, e)] IN
         /\ mid \in ChannelType /\ mid.unreliable = t
         /\ mid.reliable = incomingReliable /\ mid.reliableNumber = n
         /\ mid.unreliableNumber = incomingUnreliableSequenceNumber
         /\ mid.out = Channel.out
         /\ UnreliableWaits(t, n, n, incomingUnreliableSequenceNumber)
         /\ \A k \in DOMAIN t : /\ Sequenced(t[k]) /\ t[k].type \in UnreliableTypes
                                /\ Ahead(t[k], n)
         /\ InOrder(t)
         /\ \A k \in DOMAIN t :
              t[k] = e \/ \E r \in DOMAIN incomingUnreliable : t[k] = incomingUnreliable[r]
         /\ \E q \in DOMAIN t : t[q] = e
<1> DEFINE e == Incoming(c)
           n == incomingReliableSequenceNumber
           u == incomingUnreliableSequenceNumber
           L == Waiters(UnreliableTypes, n)
           t == Inserted(incomingUnreliable, e)
           mid == [Channel EXCEPT !.unreliable = t]
<1>1. CommandsFit /\ Numbered
  BY DEF ReceiverInv, OrderInv
<1>2. /\ Channel \in ChannelType /\ n \in Nat /\ Channel.unreliable = incomingUnreliable
      /\ Channel.reliableNumber = n /\ Channel.unreliableNumber = u
      /\ Channel.reliable = incomingReliable /\ u \in Nat
  BY ChannelFields
<1>3. c \in CommandType /\ e.type = c.type /\ c.type \notin ReliableTypes /\ e \in UnreliableEntry
  <2>1. c.type \notin ReliableTypes
    BY DEF UnreliableTypes, ReliableTypes
  <2> QED
    BY <2>1, HandlerFacts
<1>4. /\ c.type # "SEND_UNSEQUENCED" /\ AcceptedWindow(Wire(e.reliable))
      /\ ~ (Wire(e.reliable) = Wire(n) /\ e.number =< u)
  BY <1>3 DEF Wanted, UnreliableTypes
<1>5. e \in Arrivals /\ Ahead(e, n) /\ (Wire(e.reliable) = Wire(n) <=> e.reliable = n)
  BY <1>1, <1>2, <1>4, AcceptedIsAhead
<1>6. e \in L /\ e.number \in Nat
  BY <1>1, <1>3, <1>5, ArrivalNumbers DEF Waiters
<1>7. /\ incomingUnreliable \in Seq(L) /\ InOrder(incomingUnreliable)
      /\ \A p \in DOMAIN incomingUnreliable :
           incomingUnreliable[p].reliable = n => incomingUnreliable[p].number > u
  BY SettledLists
<1> HIDE DEF e, L
<1>8. /\ t \in Seq(L) /\ InOrder(t)
      /\ \A k \in DOMAIN t : t[k] = e \/ \E r \in DOMAIN incomingUnreliable : t[k] = incomingUnreliable[r]
  BY <1>1, <1>2, <1>6, <1>7, InsertedInOrder DEF L, e
<1>9. ASSUME NEW k \in DOMAIN t
      PROVE  /\ t[k] \in Arrivals /\ t[k].type \in UnreliableTypes /\ Sequenced(t[k])
             /\ t[k].type \notin ReliableTypes /\ t[k].type # "SEND_UNSEQUENCED"
             /\ Ahead(t[k], n) /\ (t[k].reliable = n => t[k].number > u)
  <2>1. DOMAIN t = 1 .. Len(t)
    <3> HIDE DEF t
    <3> QED
      BY <1>8, LenProperties
  <2>2. t[k] \in L
    <3> HIDE DEF t
    <3> QED
      BY <1>8, <2>1, ElementOfSeq
  <2>3. t[k] \in Arrivals /\ t[k].type \in UnreliableTypes /\ Ahead(t[k], n)
    BY <2>2 DEF L, Waiters
  <2>4. t[k].type \notin ReliableTypes /\ t[k].type # "SEND_UNSEQUENCED"
    BY <2>3 DEF UnreliableTypes, ReliableTypes
  <2>5. e.reliable = n => e.number > u
    BY <1>2, <1>4, <1>5, <1>6
  <2>6. t[k].reliable = n => t[k].number > u
    BY <1>7, <1>8, <2>5
  <2> QED
    BY <2>3, <2>4, <2>6 DEF Sequenced
<1>10. UnreliableWaits(t, n, n, u) /\ \A k \in DOMAIN t : Sequenced(t[k])
  <2>1. t \in Seq(Arrivals)
    <3>1. L \subseteq Arrivals
      BY DEF L, Waiters
    <3> HIDE DEF t
    <3> QED
      BY <1>8, <3>1, SeqOfMore
  <2> HIDE DEF t
  <2> QED
    BY <1>8, <1>9, <2>1 DEF UnreliableWaits, InOrder
<1>11. [Channel EXCEPT !.unreliable = Inserted(@, e)] = mid
  BY <1>2
<1>12. mid \in ChannelType /\ mid.unreliable = t
  <2>1. t \in {Inserted(incomingUnreliable, e), <<e>> \o incomingUnreliable}
    OBVIOUS
  <2> HIDE DEF t
  <2> QED
    BY <1>3, <2>1, UnreliableArrives DEF e
<1>14. \E q \in DOMAIN t : t[q] = e
  <2> DEFINE p == LastNotAfter(incomingUnreliable, e)
  <2>1. e \in UnreliableEntry /\ incomingUnreliable \in Seq(UnreliableEntry)
    BY <1>3 DEF ReceiverInv, ReceiverType
  <2>2. /\ t \in Seq(UnreliableEntry) /\ Len(t) = Len(incomingUnreliable) + 1
        /\ p \in 0 .. Len(incomingUnreliable)
        /\ \A j \in 1 .. Len(incomingUnreliable) + 1 :
             t[j] = IF j =< p THEN incomingUnreliable[j]
                    ELSE IF j = p + 1 THEN e ELSE incomingUnreliable[j - 1]
    BY <2>1, EntriesSized, InsertedKeeps
  <2> HIDE DEF t, p
  <2>3. Len(incomingUnreliable) \in Nat /\ DOMAIN t = 1 .. Len(t)
    BY <2>1, <2>2, LenProperties
  <2>4. PICK j : j = p + 1
    OBVIOUS
  <2>5. j \in 1 .. Len(incomingUnreliable) + 1 /\ ~ (j =< p)
    BY <2>2, <2>3, <2>4
  <2>6. j \in DOMAIN t
    BY <2>2, <2>3, <2>5
  <2>7. t[j] = e
    BY <2>2, <2>4, <2>5
  <2> QED
    BY <2>6, <2>7
<1> HIDE DEF t
<1>13. /\ mid.reliable = incomingReliable /\ mid.reliableNumber = n
       /\ mid.unreliableNumber = u /\ mid.out = Channel.out
  BY <1>2 DEF ChannelType
<1> HIDE DEF mid, n, u
<1> QED
  BY <1>8, <1>9, <1>10, <1>11, <1>12, <1>13, <1>14 DEF t, mid, n, u, e

\* The same for a new command of an unreliable packet.
LEMMA NewUnreliableSettles ==
  ASSUME SenderInv, ReceiverInv, OrderInv, NEW c \in network, Fresh(c),
         c.type \in UnreliableTypes, Wanted(Incoming(c)),
         ~ HasTwin(incomingUnreliable, Incoming(c))
  PROVE  LET new == DispatchUnreliable([Channel EXCEPT !.unreliable = Inserted(@, Incoming(c))]) IN
         new \in ChannelType /\ Settled(new) /\ HandsOver(Channel, new)
<1> DEFINE e == Incoming(c)
           mid == [Channel EXCEPT !.unreliable = Inserted(@, e)]
           new == DispatchUnreliable(mid)
<1>1. CommandsFit /\ Numbered
  BY DEF ReceiverInv, OrderInv
<1>2. /\ Channel \in ChannelType
      /\ Channel.reliableNumber = incomingReliableSequenceNumber
      /\ Channel.unreliableNumber = incomingUnreliableSequenceNumber
      /\ Channel.reliable = incomingReliable
  BY ChannelFields
<1>3. /\ mid \in ChannelType
      /\ mid.reliable = incomingReliable
      /\ mid.reliableNumber = incomingReliableSequenceNumber
      /\ mid.unreliableNumber = incomingUnreliableSequenceNumber
      /\ mid.out = Channel.out
      /\ UnreliableWaits(mid.unreliable, mid.reliableNumber, mid.reliableNumber,
                         mid.unreliableNumber)
      /\ \A p \in DOMAIN mid.unreliable : Sequenced(mid.unreliable[p])
  BY NewUnreliableWaits
<1> HIDE DEF mid
<1>4. ReliableWaits(mid.reliable, mid.reliableNumber) /\ NextMissing(mid)
  BY <1>2, <1>3 DEF OrderInv, Settled, NextMissing
<1>5. Settled(new) /\ HandsOver(mid, new)
  BY <1>1, <1>3, <1>4, UnreliableDispatchSettles
<1>6. new \in ChannelType
  BY <1>3, DispatchUnreliableKeeps
<1> HIDE DEF new
<1>7. HandsOver(Channel, new)
  BY <1>2, <1>3, <1>5 DEF HandsOver
<1> QED
  BY <1>5, <1>6, <1>7 DEF new, mid, e

\* The dispatch of a list with a new partial packet removes that packet only if
\* two younger partial ones are left.
LEMMA RemovedBehindTwo ==
  ASSUME SenderInv, ReceiverInv, OrderInv, NEW c \in network, Fresh(c),
         c.type = "SEND_UNRELIABLE_FRAGMENT", Wanted(Incoming(c)),
         ~ HasTwin(incomingUnreliable, Incoming(c))
  PROVE  LET ch == DispatchUnreliable([Channel EXCEPT !.unreliable = Inserted(@, Incoming(c))]) IN
         \/ \E p \in DOMAIN ch.unreliable : ch.unreliable[p] = Incoming(c)
         \/ \E f, g \in ToSet(ch.unreliable) :
              /\ c.packet < f.packet /\ f.packet < g.packet
              /\ fragmentsRemaining(f) > 0 /\ fragmentsRemaining(g) > 0
<1> DEFINE e == Incoming(c)
           mid == [Channel EXCEPT !.unreliable = Inserted(@, e)]
           s == mid.unreliable
           m == mid.reliableNumber
           E == {p \in DOMAIN s : Early(s[p], m)}
           end == IF E = {} THEN Len(s) ELSE (CHOOSE p \in E : \A r \in E : p =< r) - 1
           K == Kept(s, end, m)
           rest == end + 1 .. Len(s)
           left == At(s, K \cup rest)
           ch == DispatchUnreliable(mid)
<1>1. c.type \in UnreliableTypes /\ c.type \in FragmentTypes
  BY DEF UnreliableTypes, FragmentTypes
<1>2. CommandsFit /\ Numbered /\ m = incomingReliableSequenceNumber /\ m \in Nat
  <2>1. incomingReliableSequenceNumber \in Nat
    BY DEF ReceiverInv, ReceiverType
  <2> QED
    BY <1>1, <2>1, NewUnreliableWaits DEF ReceiverInv, OrderInv
<1>3. /\ s \in Seq(Arrivals)
      /\ \A k \in DOMAIN s : /\ Sequenced(s[k]) /\ s[k].type \in UnreliableTypes
                             /\ Ahead(s[k], m)
      /\ InOrder(s)
      /\ \A k \in DOMAIN s :
           s[k] = e \/ \E r \in DOMAIN incomingUnreliable : s[k] = incomingUnreliable[r]
      /\ \E q \in DOMAIN s : s[q] = e
      /\ mid \in ChannelType
  BY <1>1, <1>2, NewUnreliableWaits DEF UnreliableWaits
<1>4. Len(s) \in Nat /\ DOMAIN s = 1 .. Len(s)
  <2> HIDE DEF s
  <2> QED
    BY <1>3, LenProperties
<1>5. end \in 0 .. Len(s) /\ \A p \in 1 .. end : p \notin E
  <2>1. E \in SUBSET DOMAIN s
    OBVIOUS
  <2> HIDE DEF s, E
  <2> QED
    BY <1>3, <2>1, WalkEnds
<1>6. ch.unreliable = left
  <2> HIDE DEF mid
  <2> QED
    BY <1>3 DEF DispatchUnreliable, ChannelType
<1>7. e.packet = c.packet /\ fragmentsRemaining(e) > 0
  <2>1. /\ e \in UnreliableEntry /\ e.count = c.count /\ e.fragments = {}
        /\ e.packet = c.packet
    <3>1. c.type \notin ReliableTypes
      BY DEF ReliableTypes
    <3> QED
      BY <3>1, HandlerFacts DEF Incoming
  <2>2. c.fragment \in 0 .. e.count - 1
    BY <1>1, <2>1, FragmentHasPlace
  <2>3. Cardinality(e.fragments) = 0 /\ e.count \in Nat
    BY <2>1, FS_EmptySet DEF UnreliableEntry, Entry
  <2> HIDE DEF e
  <2> QED
    BY <2>1, <2>2, <2>3 DEF fragmentsRemaining
<1> HIDE DEF e, mid, s, m, end, ch
\* Everything before the first early command is partial.
<1>8. ASSUME NEW p \in 1 .. end PROVE p \in DOMAIN s /\ Partial(s[p], m)
  <2>1. p \in DOMAIN s /\ ~ Early(s[p], m)
    BY <1>4, <1>5
  <2>2. s[p] \in Arrivals /\ Sequenced(s[p]) /\ Ahead(s[p], m)
    BY <1>3, <1>4, <2>1, ElementOfSeq
  <2>3. m =< m /\ Window(m) =< Window(m) + (RELIABLE_WINDOWS - FREE_RELIABLE_WINDOWS + 1)
    <3>1. PICK w \in Nat : w = Window(m)
      BY <1>2, WindowInterval
    <3>2. w =< w + (RELIABLE_WINDOWS - FREE_RELIABLE_WINDOWS + 1)
      BY NumberConstants
    <3> QED
      BY <1>2, <3>1, <3>2
  <2>4. /\ s[p].reliable \in Nat
        /\ Early(s[p], m) <=> Sequenced(s[p]) /\ m < s[p].reliable
        /\ Current(s[p], m) <=> Sequenced(s[p]) /\ s[p].reliable = m
    BY <1>2, <2>2, <2>3, WalkSees
  <2>5. m =< s[p].reliable
    BY <2>2 DEF Ahead
  <2>6. Current(s[p], m) /\ s[p].reliable = m
    BY <1>2, <2>1, <2>2, <2>4, <2>5
  <2>7. fragmentsRemaining(s[p]) > 0
    BY <1>2, <1>3, <1>7, <2>1, <2>6, SettledLists
  <2> QED
    BY <2>1, <2>6, <2>7 DEF Partial
<1>9. K = {end - 1, end} \cap DOMAIN s
  <2>1. ASSUME NEW p \in {end - 1, end} \cap DOMAIN s, NEW r \in p .. end
        PROVE  Partial(s[r], m)
    <3>1. r \in 1 .. end
      BY <1>4, <1>5, <2>1
    <3> QED
      BY <1>8, <3>1
  <2> QED
    BY <2>1 DEF Kept
<1>10. K \cup rest \subseteq DOMAIN s
  BY <1>4, <1>5, <1>9
<1> HIDE DEF K, rest
<1>11. /\ left \in Seq(Arrivals) /\ Len(left) \in Nat /\ DOMAIN left = 1 .. Len(left)
       /\ \E w : Places(w, left, s, K \cup rest)
  <2>1. left \in Seq(Arrivals) /\ \E w : Places(w, left, s, K \cup rest)
    BY <1>3, <1>10, AtProperties
  <2> HIDE DEF left
  <2> QED
    BY <2>1, LenProperties
<1>12. ASSUME NEW p \in K \cup rest PROVE \E k \in DOMAIN left : left[k] = s[p]
  <2>1. PICK w : Places(w, left, s, K \cup rest)
    BY <1>11
  <2> HIDE DEF left
  <2> QED
    BY <1>11, <2>1 DEF Places
<1>13. PICK q \in DOMAIN s : s[q] = e
  BY <1>3
<1> HIDE DEF left
<1>14. CASE q \in K \cup rest
  BY <1>6, <1>12, <1>13, <1>14 DEF ch, mid, e
<1>15. CASE q \notin K \cup rest
  <2>1. q \in Nat /\ q < end - 1 /\ end - 1 \in DOMAIN s /\ end \in DOMAIN s
    BY <1>4, <1>5, <1>9, <1>15 DEF rest
  <2>2. /\ end - 1 \in K /\ end \in K /\ end - 1 \in 1 .. end /\ end \in 1 .. end
        /\ end - 1 < end
    BY <1>4, <1>5, <1>9, <2>1
  <2>3. s[q].packet < s[end - 1].packet /\ s[end - 1].packet < s[end].packet
    BY <1>3, <2>1, <2>2 DEF InOrder
  <2>4. fragmentsRemaining(s[end - 1]) > 0 /\ fragmentsRemaining(s[end]) > 0
    BY <1>8, <2>2 DEF Partial
  <2>5. s[end - 1] \in ToSet(left) /\ s[end] \in ToSet(left)
    BY <1>12, <2>2 DEF ToSet
  <2> QED
    BY <1>6, <1>7, <1>13, <2>3, <2>4, <2>5 DEF ch, mid, e
<1> QED
  BY <1>14, <1>15

\* The channel ch, made from the one before, is that of the next state.
Outcome(ch) ==
  /\ ch \in ChannelType
  /\ Settled(ch)
  /\ HandsOver(Channel, ch)
  /\ Becomes(ch)

LEMMA HandleSendReliableSettles ==
  ASSUME SenderInv, ReceiverInv, OrderInv, SmallPackets, NEW c \in network, Fresh(c),
         HandleSendReliable(c)
  PROVE  \E ch : Outcome(ch)
<1> DEFINE new == DispatchReliable([Channel EXCEPT !.reliable = Inserted(@, Incoming(c))])
<1>1. /\ c.type \in ReliableTypes /\ Wanted(Incoming(c))
      /\ ~ HasTwin(incomingReliable, Incoming(c)) /\ Becomes(new)
  BY DEF HandleSendReliable, ReliableTypes
<1>2. new \in ChannelType /\ Settled(new) /\ HandsOver(Channel, new)
  BY <1>1, NewReliableSettles
<1> HIDE DEF new
<1> QED
  BY <1>1, <1>2 DEF Outcome

LEMMA HandleSendUnreliableSettles ==
  ASSUME SenderInv, ReceiverInv, OrderInv, NEW c \in network, Fresh(c),
         HandleSendUnreliable(c)
  PROVE  \E ch : Outcome(ch)
<1> DEFINE new == DispatchUnreliable([Channel EXCEPT !.unreliable = Inserted(@, Incoming(c))])
<1>1. /\ c.type \in UnreliableTypes /\ Wanted(Incoming(c))
      /\ ~ HasTwin(incomingUnreliable, Incoming(c)) /\ Becomes(new)
  BY DEF HandleSendUnreliable, UnreliableTypes
<1>2. new \in ChannelType /\ Settled(new) /\ HandsOver(Channel, new)
  BY <1>1, NewUnreliableSettles
<1> HIDE DEF new
<1> QED
  BY <1>1, <1>2 DEF Outcome

LEMMA HandleSendFragmentSettles ==
  ASSUME SenderInv, ReceiverInv, OrderInv, SmallPackets, NEW c \in network, Fresh(c),
         HandleSendFragment(c)
  PROVE  \E ch : Outcome(ch)
<1> DEFINE e == Incoming(c)
           n == incomingReliableSequenceNumber
<1>1. c.type = "SEND_FRAGMENT" /\ AcceptedWindow(Wire(e.reliable))
  BY DEF HandleSendFragment
<1>2. c.type \in FragmentTypes /\ c.type \in ReliableTypes /\ c.type # "SEND_UNSEQUENCED"
  BY <1>1 DEF FragmentTypes, ReliableTypes
<1>3. /\ e.count = c.count /\ c \in CommandType /\ e.type = c.type /\ e.packet = c.packet
      /\ c.fragment \in 0 .. e.count - 1
  BY <1>2, HandlerFacts, FragmentHasPlace DEF Incoming
<1>4. CommandsFit /\ Numbered /\ Settled(Channel)
  BY DEF ReceiverInv, OrderInv
<1>5. Channel \in ChannelType /\ Channel.reliable = incomingReliable /\ n \in Nat
  BY ChannelFields
<1>6. CASE /\ HasTwin(incomingReliable, e)
           /\ Completes(incomingReliable[TwinOf(incomingReliable, e)], c)
           /\ Becomes(WithReliableFragment(Channel, TwinOf(incomingReliable, e), c))
  <2> DEFINE p == TwinOf(incomingReliable, e)
             new == WithReliableFragment(Channel, p, c)
  <2>1. e \in Waiters(ReliableTypes, n)
    BY <1>1, <1>2, <1>3, <1>4, <1>5, AcceptedIsAhead DEF Waiters
  <2>2. /\ incomingReliable \in Seq(Waiters(ReliableTypes, n)) /\ InOrder(incomingReliable)
    BY SettledLists
  <2>3. ReliableTypes \in {ReliableTypes, UnreliableTypes}
    OBVIOUS
  <2>4. incomingReliable[p].count = c.count
    BY <1>6 DEF Completes
  <2>5. Becomes(new)
    BY <1>6
  <2> HIDE DEF e
  <2>6. p \in 1 .. Len(incomingReliable) /\ incomingReliable[p].packet = e.packet
    BY <1>4, <1>5, <1>6, <2>1, <2>2, <2>3, TwinIsThePacket
  <2> HIDE DEF p
  <2>7. p \in DOMAIN incomingReliable
    BY <2>2, <2>6, LenProperties
  <2>8. new \in ChannelType
    BY <1>3, <1>5, <2>4, <2>7, ReliableFragmentKeeps
  <2>9. Settled(new) /\ HandsOver(Channel, new)
    BY <1>3, <1>4, <1>5, <2>4, <2>6, <2>7, ReliableFragmentSettles
  <2> HIDE DEF new
  <2> QED
    BY <2>5, <2>8, <2>9 DEF Outcome
<1>7. CASE /\ ~ HasTwin(incomingReliable, e)
           /\ Wanted(e)
           /\ LET ch == DispatchReliable(
                          [Channel EXCEPT !.reliable = Inserted(@, e)])
                  p == CHOOSE r \in DOMAIN ch.reliable : ch.reliable[r] = e IN
              Becomes(WithReliableFragment(ch, p, c))
  <2> DEFINE ch == DispatchReliable([Channel EXCEPT !.reliable = Inserted(@, e)])
             p == CHOOSE r \in DOMAIN ch.reliable : ch.reliable[r] = e
             new == WithReliableFragment(ch, p, c)
  <2>1. Becomes(new)
    BY <1>7
  <2>2. \E r \in DOMAIN ch.reliable : ch.reliable[r] = e
    BY <1>1, NewPacketStays
  <2>3. p \in DOMAIN ch.reliable /\ ch.reliable[p] = e
    <3> HIDE DEF ch, e
    <3> QED
      BY <2>2
  <2>4. ch \in ChannelType /\ Settled(ch) /\ HandsOver(Channel, ch)
    BY <1>2, <1>7, NewReliableSettles
  <2> HIDE DEF ch, p, e
  <2>5. new \in ChannelType
    BY <1>3, <2>3, <2>4, ReliableFragmentKeeps
  <2>6. Settled(new) /\ HandsOver(ch, new)
    BY <1>3, <1>4, <2>3, <2>4, ReliableFragmentSettles
  <2> HIDE DEF new
  <2>7. HandsOver(Channel, new)
    BY <1>4, <1>5, <2>4, <2>5, <2>6, HandsOverTwice
  <2> QED
    BY <2>1, <2>5, <2>6, <2>7 DEF Outcome
<1> QED
  BY <1>6, <1>7 DEF HandleSendFragment

LEMMA HandleSendUnreliableFragmentSettles ==
  ASSUME SenderInv, ReceiverInv, OrderInv, NEW c \in network, Fresh(c),
         HandleSendUnreliableFragment(c)
  PROVE  \E ch : Outcome(ch)
<1> DEFINE e == Incoming(c)
           n == incomingReliableSequenceNumber
           ch == DispatchUnreliable([Channel EXCEPT !.unreliable = Inserted(@, e)])
<1>1. c.type = "SEND_UNRELIABLE_FRAGMENT" /\ Wanted(e)
  BY DEF HandleSendUnreliableFragment
<1>2. c.type \in FragmentTypes /\ c.type \in UnreliableTypes /\ c.type # "SEND_UNSEQUENCED"
  BY <1>1 DEF FragmentTypes, UnreliableTypes
<1>3. /\ e.count = c.count /\ c \in CommandType /\ e.type = c.type /\ e.packet = c.packet
      /\ c.fragment \in 0 .. e.count - 1 /\ AcceptedWindow(Wire(e.reliable))
  BY <1>1, <1>2, HandlerFacts, FragmentHasPlace DEF Incoming, Wanted
<1>4. CommandsFit /\ Numbered /\ Settled(Channel)
  BY DEF ReceiverInv, OrderInv
<1>5. Channel \in ChannelType /\ Channel.unreliable = incomingUnreliable /\ n \in Nat
  BY ChannelFields
<1>6. CASE /\ HasTwin(incomingUnreliable, e)
           /\ Completes(incomingUnreliable[TwinOf(incomingUnreliable, e)], c)
           /\ Becomes(WithUnreliableFragment(Channel, TwinOf(incomingUnreliable, e), c))
  <2> DEFINE p == TwinOf(incomingUnreliable, e)
             new == WithUnreliableFragment(Channel, p, c)
  <2>1. e \in Waiters(UnreliableTypes, n)
    BY <1>1, <1>2, <1>3, <1>4, <1>5, AcceptedIsAhead DEF Waiters
  <2>2. /\ incomingUnreliable \in Seq(Waiters(UnreliableTypes, n)) /\ InOrder(incomingUnreliable)
    BY SettledLists
  <2>3. UnreliableTypes \in {ReliableTypes, UnreliableTypes}
    OBVIOUS
  <2>4. incomingUnreliable[p].count = c.count
    BY <1>6 DEF Completes
  <2>5. Becomes(new)
    BY <1>6
  <2> HIDE DEF e
  <2>6. p \in 1 .. Len(incomingUnreliable) /\ incomingUnreliable[p].packet = e.packet
    BY <1>4, <1>5, <1>6, <2>1, <2>2, <2>3, TwinIsThePacket
  <2> HIDE DEF p
  <2>7. p \in DOMAIN incomingUnreliable
    BY <2>2, <2>6, LenProperties
  <2>8. new \in ChannelType
    BY <1>3, <1>5, <2>4, <2>7, UnreliableFragmentKeeps
  <2>9. Settled(new) /\ HandsOver(Channel, new)
    BY <1>3, <1>4, <1>5, <2>4, <2>6, <2>7, UnreliableFragmentSettles
  <2> HIDE DEF new
  <2> QED
    BY <2>5, <2>8, <2>9 DEF Outcome
<1>7. ASSUME ~ HasTwin(incomingUnreliable, e),
             NEW p \in DOMAIN ch.unreliable, ch.unreliable[p] = e,
             Becomes(WithUnreliableFragment(ch, p, c))
      PROVE  \E d : Outcome(d)
  <2> DEFINE new == WithUnreliableFragment(ch, p, c)
  <2>1. Becomes(new)
    BY <1>7
  <2>3. p \in DOMAIN ch.unreliable /\ ch.unreliable[p] = e
    BY <1>7
  <2>4. ch \in ChannelType /\ Settled(ch) /\ HandsOver(Channel, ch)
    BY <1>1, <1>2, <1>7, NewUnreliableSettles
  <2> HIDE DEF ch, e
  <2>5. new \in ChannelType
    BY <1>3, <2>3, <2>4, UnreliableFragmentKeeps
  <2>6. Settled(new) /\ HandsOver(ch, new)
    BY <1>3, <1>4, <2>3, <2>4, UnreliableFragmentSettles
  <2> HIDE DEF new
  <2>7. HandsOver(Channel, new)
    BY <1>4, <1>5, <2>4, <2>5, <2>6, HandsOverTwice
  <2> QED
    BY <2>1, <2>5, <2>6, <2>7 DEF Outcome
<1>8. CASE /\ ~ HasTwin(incomingUnreliable, e)
           /\ \E p \in DOMAIN ch.unreliable :
                /\ ch.unreliable[p] = e
                /\ Becomes(WithUnreliableFragment(ch, p, c))
  <2> HIDE DEF e, ch
  <2> QED
    BY <1>7, <1>8
<1>9. CASE ~ HasTwin(incomingUnreliable, e) /\ Becomes(ch)
  <2>1. ch \in ChannelType /\ Settled(ch) /\ HandsOver(Channel, ch)
    BY <1>1, <1>2, <1>9, NewUnreliableSettles
  <2> HIDE DEF ch
  <2> QED
    BY <1>9, <2>1 DEF Outcome
<1> QED
  BY <1>6, <1>8, <1>9 DEF HandleSendUnreliableFragment

\* A settled list behind a new unsequenced packet.
LEMMA UnsequencedWaits ==
  ASSUME NEW n, NEW u, NEW s, UnreliableSettled(s, n, u), NEW e \in Arrivals,
         e.type = "SEND_UNSEQUENCED"
  PROVE  LET t == <<e>> \o s IN
         /\ UnreliableWaits(t, n, n, u)
         /\ \A p \in DOMAIN t :
              \/ p = 1 /\ t[p] = e
              \/ /\ t[p].type \in UnreliableTypes
                 /\ t[p].reliable = n => fragmentsRemaining(t[p]) > 0
<1> DEFINE one == <<e>>
           t == one \o s
<1>1. UnreliableWaits(s, n, n, u) /\ s \in Seq(Arrivals)
  BY DEF UnreliableSettled, UnreliableWaits
<1>2. one \in Seq(Arrivals) /\ Len(one) = 1 /\ one[1] = e
  OBVIOUS
<1>3. DOMAIN s = 1 .. Len(s) /\ Len(s) \in Nat
  BY <1>1, LenProperties
<1> HIDE DEF one
<1>4. /\ t \in Seq(Arrivals) /\ Len(t) = 1 + Len(s)
      /\ \A i \in 1 .. 1 + Len(s) : t[i] = IF i =< 1 THEN one[i] ELSE s[i - 1]
  BY <1>1, <1>2, ConcatProperties
<1> HIDE DEF t
<1>5. DOMAIN t = 1 .. 1 + Len(s) /\ t[1] = e
  BY <1>2, <1>3, <1>4, LenProperties
<1>6. ASSUME NEW p \in DOMAIN t, p # 1
      PROVE  p - 1 \in DOMAIN s /\ t[p] = s[p - 1]
  BY <1>3, <1>4, <1>5, <1>6
<1>7. e.type \notin ReliableTypes /\ e.type \notin UnreliableTypes /\ ~ Sequenced(e)
  BY DEF ReliableTypes, UnreliableTypes, Sequenced
<1>8. ASSUME NEW p \in DOMAIN s
      PROVE  s[p].type \in UnreliableTypes /\ s[p].type \notin ReliableTypes
             /\ s[p].type # "SEND_UNSEQUENCED" /\ Sequenced(s[p])
  <2>1. s[p].type \in UnreliableTypes
    BY DEF UnreliableSettled
  <2> QED
    BY <2>1 DEF ReliableTypes, UnreliableTypes, Sequenced
<1>9. ASSUME NEW p \in DOMAIN t
      PROVE  /\ t[p].type \notin ReliableTypes
             /\ t[p].type = "SEND_UNSEQUENCED" => p = 1
             /\ Sequenced(t[p]) => Ahead(t[p], n) /\ (t[p].reliable = n => t[p].number > u)
             /\ \/ p = 1 /\ t[p] = e
                \/ /\ t[p].type \in UnreliableTypes
                   /\ t[p].reliable = n => fragmentsRemaining(t[p]) > 0
  <2>1. CASE p = 1
    BY <1>5, <1>7, <2>1
  <2>2. CASE p # 1
    <3>1. PICK r \in DOMAIN s : t[p] = s[r]
      BY <1>6, <2>2
    <3> QED
      BY <1>1, <1>8, <2>2, <3>1 DEF UnreliableSettled, UnreliableWaits
  <2> QED
    BY <2>1, <2>2
<1>10. ASSUME NEW p \in DOMAIN t, NEW r \in DOMAIN t, p < r, Sequenced(t[p])
       PROVE  t[p].packet < t[r].packet
  <2>1. p # 1
    BY <1>5, <1>7, <1>10
  <2>2. r # 1
    BY <1>3, <1>5, <1>10
  <2>3. /\ p - 1 \in DOMAIN s /\ t[p] = s[p - 1]
        /\ r - 1 \in DOMAIN s /\ t[r] = s[r - 1]
    BY <1>6, <2>1, <2>2
  <2>4. p - 1 < r - 1
    BY <1>3, <1>5, <1>10
  <2> QED
    BY <1>1, <1>10, <2>3, <2>4 DEF UnreliableWaits
<1> QED
  BY <1>4, <1>9, <1>10 DEF UnreliableWaits, t, one

\* The channel ch, made from the one before, is that of the next state, and at
\* most the unsequenced packet e was handed over.
OutcomeUnsequenced(ch, e) ==
  /\ ch \in ChannelType
  /\ Settled(ch)
  /\ ch.reliableNumber = incomingReliableSequenceNumber
  /\ ch.unreliableNumber = incomingUnreliableSequenceNumber
  /\ Whole(ch.out)
  /\ Len(ch.out) =< 1
  /\ \A p \in DOMAIN ch.out : ch.out[p] = e
  /\ Becomes(ch)

LEMMA NewUnsequencedSettles ==
  ASSUME SenderInv, ReceiverInv, OrderInv, NEW c \in network,
         c.type = "SEND_UNSEQUENCED",
         Becomes(DispatchUnreliable([Channel EXCEPT !.unreliable = <<Incoming(c)>> \o @]))
  PROVE  \E ch : OutcomeUnsequenced(ch, Incoming(c))
<1> DEFINE e == Incoming(c)
           n == incomingReliableSequenceNumber
           u == incomingUnreliableSequenceNumber
           t == <<e>> \o incomingUnreliable
           mid == [Channel EXCEPT !.unreliable = t]
           new == DispatchUnreliable(mid)
<1>1. CommandsFit /\ Numbered
  BY DEF ReceiverInv, OrderInv
<1>2. /\ Channel \in ChannelType /\ n \in Nat /\ Channel.unreliable = incomingUnreliable
      /\ Channel.reliableNumber = n /\ Channel.unreliableNumber = u
      /\ Channel.reliable = incomingReliable /\ u \in Nat /\ Channel.out = <<>>
  BY ChannelFields
<1>3. /\ c \in CommandType /\ e.type = "SEND_UNSEQUENCED" /\ e \in UnreliableEntry
      /\ e \in Arrivals
  <2>1. c.type \notin ReliableTypes
    BY DEF ReliableTypes
  <2>2. c \in Made
    BY DEF Made
  <2>3. e \in Entry /\ e.type = c.type /\ e.count = c.count /\ e.fragments = {} /\ e.packet = c.packet
    BY <1>1, <2>2, MadeIsTyped
  <2>4. e \in Arrivals
    BY <2>3 DEF Arrivals, CameFrom
  <2> QED
    BY <2>1, <2>3, <2>4, HandlerFacts
<1>4. UnreliableSettled(incomingUnreliable, n, u) /\ ReliableWaits(incomingReliable, n)
      /\ NextMissing(Channel)
  BY <1>2 DEF OrderInv, Settled
<1>5. Becomes(new)
  <2>1. [Channel EXCEPT !.unreliable = <<Incoming(c)>> \o @] = mid
    BY <1>2
  <2> QED
    BY <2>1
<1> HIDE DEF e
<1>6. /\ UnreliableWaits(t, n, n, u)
      /\ \A p \in DOMAIN t :
           \/ p = 1 /\ t[p] = e
           \/ /\ t[p].type \in UnreliableTypes
              /\ t[p].reliable = n => fragmentsRemaining(t[p]) > 0
  BY <1>3, <1>4, UnsequencedWaits
<1>7. mid \in ChannelType /\ mid.unreliable = t
  <2>1. t \in {Inserted(incomingUnreliable, e), <<e>> \o incomingUnreliable}
    OBVIOUS
  <2> HIDE DEF t
  <2> QED
    BY <1>3, <2>1, UnreliableArrives
<1> HIDE DEF t
<1>8. /\ mid.reliable = incomingReliable /\ mid.reliableNumber = n
      /\ mid.unreliableNumber = u /\ mid.out = <<>>
  BY <1>2 DEF ChannelType
<1> HIDE DEF mid
<1>9. /\ new \in ChannelType /\ new.reliable = mid.reliable
      /\ new.reliableNumber = mid.reliableNumber
  BY <1>7, DispatchUnreliableKeeps
<1>10. Window(n) =< Window(n) + (RELIABLE_WINDOWS - FREE_RELIABLE_WINDOWS + 1) /\ n =< n
  <2> HIDE DEF n
  <2>1. PICK w \in Nat : w = Window(n)
    BY <1>2, WindowInterval
  <2>2. w =< w + (RELIABLE_WINDOWS - FREE_RELIABLE_WINDOWS + 1)
    BY NumberConstants
  <2> QED
    BY <1>2, <2>1, <2>2
<1>11. /\ UnreliableSettled(new.unreliable, n, new.unreliableNumber)
       /\ \E o : /\ new.out = mid.out \o o
                 /\ UnreliableHanded(o, t, n, u, new.unreliableNumber)
  <2> HIDE DEF n, u, new
  <2>1. UnreliableWaits(mid.unreliable, n, mid.reliableNumber, mid.unreliableNumber)
    BY <1>6, <1>7, <1>8
  <2> USE DEF new
  <2> QED
    BY <1>1, <1>2, <1>7, <1>8, <1>10, <2>1, UnreliableDispatch
<1> HIDE DEF new, n, u
<1>12. PICK o : /\ new.out = mid.out \o o
                /\ UnreliableHanded(o, t, n, u, new.unreliableNumber)
  BY <1>11
<1>13. Whole(o) /\ o \in Seq(Arrivals) /\ DOMAIN o = 1 .. Len(o) /\ Len(o) \in Nat
  <2>1. Whole(o) /\ o \in Seq(Arrivals)
    BY <1>12 DEF UnreliableHanded, Whole
  <2> QED
    BY <2>1, LenProperties
<1>14. ASSUME NEW p \in DOMAIN o
       PROVE  o[p] = e /\ p = 1 /\ ~ Sequenced(o[p])
  <2>1. PICK r \in DOMAIN t : o[p] = t[r]
    BY <1>12 DEF UnreliableHanded
  <2>2. ~ Sequenced(o[p])
    <3>1. SUFFICES ASSUME Sequenced(o[p]) PROVE FALSE
      OBVIOUS
    <3>2. o[p].reliable = n /\ fragmentsRemaining(o[p]) =< 0 /\ o[p] # e
      BY <1>3, <1>12, <3>1 DEF UnreliableHanded, Sequenced
    <3>3. fragmentsRemaining(o[p]) > 0 /\ fragmentsRemaining(o[p]) \in Int
      <4>1. o[p] \in Entry
        BY <1>13, ElementOfSeq DEF Arrivals
      <4> QED
        BY <1>6, <2>1, <3>2, <4>1, RemainingIsNumber
    <3> QED
      BY <3>2, <3>3
  <2>3. o[p].type = "SEND_UNSEQUENCED"
    BY <2>2 DEF Sequenced
  <2>4. o[p].type \notin UnreliableTypes
    BY <2>3 DEF UnreliableTypes
  <2> QED
    BY <1>6, <1>12, <2>1, <2>2, <2>3, <2>4 DEF UnreliableHanded
<1>15. new.unreliableNumber = u
  BY <1>12, <1>14 DEF UnreliableHanded
<1>16. Len(o) =< 1
  BY <1>13, <1>14
<1>17. new.out = o
  BY <1>8, <1>12, <1>13, ConcatEmptySeq
<1>18. Settled(new)
  BY <1>2, <1>4, <1>8, <1>9, <1>11 DEF Settled, NextMissing
<1> QED
  BY <1>5, <1>8, <1>9, <1>13, <1>14, <1>15, <1>16, <1>17, <1>18
  DEF OutcomeUnsequenced, e, n, u

\* What a step of the receiving peer makes of the channel.
LEMMA HandleSettles ==
  ASSUME SenderInv, ReceiverInv, OrderInv, SmallPackets, NEW c \in network, Handle(c)
  PROVE  /\ UNCHANGED senderVars /\ delivered' = delivered
         /\ \/ /\ c.type # "SEND_UNSEQUENCED" /\ UNCHANGED groupVars
               /\ \E ch : Outcome(ch)
            \/ /\ HandleSendUnsequenced(c) /\ HasRoom
               /\ \E ch : OutcomeUnsequenced(ch, Incoming(c))
            \/ HandleSendUnsequenced(c) /\ UNCHANGED channelVars
<1>1. UNCHANGED senderVars /\ delivered' = delivered
  BY DEF Handle, HandleSendReliable, HandleSendUnreliable, HandleSendFragment,
         HandleSendUnreliableFragment, HandleSendUnsequenced
<1>2. CASE HandleSendUnsequenced(c)
  <2>1. \/ /\ HasRoom
           /\ Becomes(DispatchUnreliable([Channel EXCEPT !.unreliable = <<Incoming(c)>> \o @]))
        \/ UNCHANGED channelVars
    BY <1>2 DEF HandleSendUnsequenced
  <2>2. c.type = "SEND_UNSEQUENCED"
    BY <1>2 DEF HandleSendUnsequenced
  <2> QED
    BY <1>1, <1>2, <2>1, <2>2, NewUnsequencedSettles
<1>3. CASE HandleSendReliable(c) \/ HandleSendUnreliable(c) \/ HandleSendFragment(c)
             \/ HandleSendUnreliableFragment(c)
  <2>1. c.type # "SEND_UNSEQUENCED" /\ Fresh(c) /\ UNCHANGED groupVars
    BY <1>3 DEF Handle, HandleSendReliable, HandleSendUnreliable, HandleSendFragment,
                HandleSendUnreliableFragment
  <2>2. \E ch : Outcome(ch)
    BY <1>3, <2>1, HandleSendReliableSettles, HandleSendUnreliableSettles,
       HandleSendFragmentSettles, HandleSendUnreliableFragmentSettles
  <2> QED
    BY <1>1, <2>1, <2>2
<1> QED
  BY <1>2, <1>3 DEF Handle

\* What may wait may still wait when the network has more commands.
LEMMA ArrivalsGrow ==
  ASSUME network \subseteq network'
  PROVE  Arrivals \subseteq Arrivals'
BY DEF Arrivals

LEMMA WholeStays ==
  ASSUME network \subseteq network', NEW s, Whole(s)
  PROVE  Whole(s)'
<1>1. s \in Seq(Arrivals)
  BY DEF Whole
<1>2. PICK A : A = Arrivals'
  OBVIOUS
<1>3. Arrivals \subseteq A
  BY <1>2, ArrivalsGrow
<1>4. s \in Seq(A)
  BY <1>1, <1>3, SeqOfMore
<1>5. s \in Seq(Arrivals)'
  BY <1>2, <1>4
<1> QED
  BY <1>5 DEF Whole

LEMMA SettledStays ==
  ASSUME network \subseteq network', NEW ch, Settled(ch),
         incomingReliableSequenceNumber' = ch.reliableNumber,
         incomingUnreliableSequenceNumber' = ch.unreliableNumber,
         incomingReliable' = ch.reliable,
         incomingUnreliable' = ch.unreliable
  PROVE  Settled(Channel)'
<1> DEFINE s == ch.reliable
           t == ch.unreliable
           n == ch.reliableNumber
           u == ch.unreliableNumber
<1>1. /\ ReliableWaits(s, n) /\ NextMissing(ch)
      /\ UnreliableSettled(t, n, u) /\ UnreliableWaits(t, n, n, u)
  BY DEF Settled, UnreliableSettled
<1>2. PICK A : A = Arrivals'
  OBVIOUS
<1>3. Arrivals \subseteq A
  BY <1>2, ArrivalsGrow
<1>4. t \in Seq(A)
  <2>1. t \in Seq(Arrivals)
    BY <1>1 DEF UnreliableWaits
  <2> HIDE DEF t
  <2> QED
    BY <1>3, <2>1, SeqOfMore
<1>5. s \in Seq({e \in A : e.type \in ReliableTypes /\ Ahead(e, n)})
  <2> DEFINE L == Waiters(ReliableTypes, n)
             M == {e \in A : e.type \in ReliableTypes /\ Ahead(e, n)}
  <2>1. s \in Seq(L)
    BY <1>1 DEF ReliableWaits
  <2>2. L \subseteq M
    BY <1>3 DEF Waiters
  <2> HIDE DEF s, L, M
  <2>3. s \in Seq(M)
    BY <2>1, <2>2, SeqOfMore
  <2> QED
    BY <2>3 DEF M
<1>6. (ReliableWaits(incomingReliable, incomingReliableSequenceNumber))'
  <2>1. incomingReliable' \in Seq({e \in A : e.type \in ReliableTypes /\ Ahead(e, incomingReliableSequenceNumber')})
    BY <1>5
  <2>2. InOrder(s) /\ \A p \in DOMAIN s : s[p].reliable # n
    BY <1>1 DEF ReliableWaits
  <2> QED
    BY <1>2, <2>1, <2>2 DEF ReliableWaits, Waiters, InOrder
<1>7. (UnreliableSettled(incomingUnreliable, incomingReliableSequenceNumber,
                         incomingUnreliableSequenceNumber))'
  BY <1>1, <1>2, <1>4 DEF UnreliableSettled, UnreliableWaits
<1>8. (NextMissing(Channel))'
  BY <1>1 DEF NextMissing, Channel
<1> QED
  BY <1>6, <1>7, <1>8 DEF Settled, Channel

\* Steps that change neither the lists nor the numbers of the channel.
LEMMA ChannelStays ==
  ASSUME OrderInv, network \subseteq network',
         UNCHANGED <<incomingReliableSequenceNumber, incomingUnreliableSequenceNumber,
                     incomingReliable, incomingUnreliable>>
  PROVE  Settled(Channel)'
<1>1. PICK ch : ch = Channel
  OBVIOUS
<1>2. Settled(ch)
  BY <1>1 DEF OrderInv
<1>3. /\ ch.reliable = incomingReliable /\ ch.unreliable = incomingUnreliable
      /\ ch.reliableNumber = incomingReliableSequenceNumber
      /\ ch.unreliableNumber = incomingUnreliableSequenceNumber
  BY <1>1 DEF Channel
<1> QED
  BY <1>2, <1>3, SettledStays

LEMMA WholeConcat ==
  ASSUME NEW s, NEW t, Whole(s), Whole(t)
  PROVE  Whole(s \o t)
<1>1. /\ s \in Seq(Arrivals) /\ t \in Seq(Arrivals)
      /\ Len(s) \in Nat /\ DOMAIN s = 1 .. Len(s) /\ Len(t) \in Nat /\ DOMAIN t = 1 .. Len(t)
  <2>1. s \in Seq(Arrivals) /\ t \in Seq(Arrivals)
    BY DEF Whole
  <2> QED
    BY <2>1, LenProperties
<1> DEFINE j == s \o t
<1>2. /\ j \in Seq(Arrivals) /\ Len(j) = Len(s) + Len(t)
      /\ \A i \in 1 .. Len(s) + Len(t) : j[i] = IF i =< Len(s) THEN s[i] ELSE t[i - Len(s)]
  BY <1>1, ConcatProperties
<1> HIDE DEF j
<1>3. DOMAIN j = 1 .. Len(s) + Len(t)
  BY <1>2, LenProperties
<1>4. ASSUME NEW i \in DOMAIN j
      PROVE  (\E r \in DOMAIN s : j[i] = s[r]) \/ (\E r \in DOMAIN t : j[i] = t[r])
  <2>1. CASE i =< Len(s)
    BY <1>1, <1>2, <1>3, <2>1
  <2>2. CASE ~ (i =< Len(s))
    <3>1. i - Len(s) \in 1 .. Len(t)
      BY <1>1, <1>3, <2>2
    <3>2. j[i] = t[i - Len(s)]
      BY <1>2, <1>3, <2>2
    <3> QED
      BY <1>1, <3>1, <3>2
  <2> QED
    BY <2>1, <2>2
<1> QED
  BY <1>2, <1>4 DEF Whole, j

LEMMA OrderInit ==
  ASSUME Init
  PROVE  OrderInv
<1>1. /\ incomingReliable = <<>> /\ incomingUnreliable = <<>> /\ dispatched = <<>>
  BY DEF Init
<1>2. Numbered
  BY NumberedInit
<1>3. \A S : <<>> \in Seq(S)
  BY EmptySeq
<1>4. DOMAIN <<>> = {}
  OBVIOUS
<1>5. Whole(dispatched)
  BY <1>1, <1>3, <1>4 DEF Whole
<1>6. ReliableWaits(incomingReliable, incomingReliableSequenceNumber)
  BY <1>1, <1>3, <1>4 DEF ReliableWaits, InOrder
<1>7. UnreliableSettled(incomingUnreliable, incomingReliableSequenceNumber,
                        incomingUnreliableSequenceNumber)
  BY <1>1, <1>3, <1>4 DEF UnreliableSettled, UnreliableWaits
<1>8. NextMissing(Channel)
  BY <1>1 DEF NextMissing, Channel
<1> QED
  BY <1>2, <1>5, <1>6, <1>7, <1>8 DEF OrderInv, Settled, Channel

\* One step of either peer.
LEMMA OrderStep ==
  ASSUME SenderInv, ReceiverInv, OrderInv, SmallPackets, [Next]_vars
  PROVE  OrderInv'
<1> DEFINE n == incomingReliableSequenceNumber
<1>1. CommandsFit /\ Numbered /\ Whole(dispatched) /\ n \in Nat
  BY DEF ReceiverInv, ReceiverType, OrderInv
<1>2. n' \in Nat
  BY ReceiverStep DEF ReceiverInv, ReceiverType
<1>3. CASE \E c \in network : Handle(c)
  <2>1. PICK c \in network : Handle(c)
    BY <1>3
  <2>2. UNCHANGED senderVars
    BY <2>1, HandleSettles
  <2>3. network' = network
    BY <2>2 DEF senderVars
  <2>4. CASE UNCHANGED channelVars
    <3>1. UNCHANGED <<incomingReliableSequenceNumber, incomingUnreliableSequenceNumber,
                      incomingReliable, incomingUnreliable, dispatched>>
      BY <2>4 DEF channelVars
    <3>2. Settled(Channel)'
      BY <2>3, <3>1, ChannelStays
    <3>3. PICK d : d = dispatched
      OBVIOUS
    <3>4. Whole(d)'
      BY <1>1, <2>3, <3>3, WholeStays
    <3>5. Whole(dispatched)'
      BY <3>1, <3>3, <3>4
    <3>6. Numbered'
      BY <1>1, <1>2, <3>1, NumberedStep
    <3> QED
      BY <3>2, <3>5, <3>6 DEF OrderInv
  <2>5. ASSUME NEW ch, ch \in ChannelType, Settled(ch), Becomes(ch), Whole(ch.out),
               n =< ch.reliableNumber
        PROVE  OrderInv'
    <3>1. /\ n' = ch.reliableNumber /\ incomingUnreliableSequenceNumber' = ch.unreliableNumber
          /\ incomingReliable' = ch.reliable /\ incomingUnreliable' = ch.unreliable
          /\ dispatched' = dispatched \o ch.out
      BY <2>5 DEF Becomes
    <3>2. Settled(Channel)'
      BY <2>3, <2>5, <3>1, SettledStays
    <3>3. PICK d : d = dispatched \o ch.out
      OBVIOUS
    <3>4. Whole(d)
      BY <1>1, <2>5, <3>3, WholeConcat
    <3>5. Whole(d)'
      BY <2>3, <3>4, WholeStays
    <3>6. Whole(dispatched)'
      BY <3>1, <3>3, <3>5
    <3>7. Numbered'
      BY <1>1, <1>2, <2>5, <3>1, NumberedStep
    <3> QED
      BY <3>2, <3>6, <3>7 DEF OrderInv
  <2>6. CASE \E ch : Outcome(ch)
    <3>1. PICK ch : Outcome(ch)
      BY <2>6
    <3>2. ch \in ChannelType /\ Settled(ch) /\ HandsOver(Channel, ch) /\ Becomes(ch)
      BY <3>1 DEF Outcome
    <3>3. Channel.reliableNumber = n /\ Channel.out = <<>> /\ Channel.unreliableNumber \in Nat
      BY ChannelFields
    <3>4. /\ ch.reliableNumber \in Nat /\ ch.out \in Seq(Entry)
      BY <3>2 DEF ChannelType
    <3>5. n =< ch.reliableNumber
      BY <1>1, <3>2, <3>3, <3>4 DEF HandsOver, Later
    <3>6. PICK o : ch.out = <<>> \o o /\ Whole(o)
      BY <3>2, <3>3 DEF HandsOver, Handed
    <3>7. <<>> \o o = o
      BY <3>6, ConcatEmptySeq DEF Whole
    <3> QED
      BY <2>5, <3>2, <3>5, <3>6, <3>7
  <2>7. CASE \E ch : OutcomeUnsequenced(ch, Incoming(c))
    <3>1. PICK ch : OutcomeUnsequenced(ch, Incoming(c))
      BY <2>7
    <3>2. /\ ch \in ChannelType /\ Settled(ch) /\ Becomes(ch) /\ Whole(ch.out)
          /\ ch.reliableNumber = n
      BY <3>1 DEF OutcomeUnsequenced
    <3> QED
      BY <1>1, <2>5, <3>2
  <2> QED
    BY <2>1, <2>4, <2>6, <2>7, HandleSettles
<1>4. CASE Receive
  <2>1. /\ dispatched # <<>> /\ dispatched' = Tail(dispatched) /\ UNCHANGED senderVars
        /\ UNCHANGED <<incomingReliableSequenceNumber, incomingUnreliableSequenceNumber,
                       incomingReliable, incomingUnreliable>>
    BY <1>4 DEF Receive
  <2>2. network' = network
    BY <2>1 DEF senderVars
  <2>3. Settled(Channel)'
    BY <2>1, <2>2, ChannelStays
  <2>4. PICK d : d = Tail(dispatched)
    OBVIOUS
  <2>5. Whole(d)
    <3>1. dispatched \in Seq(Arrivals)
      BY <1>1 DEF Whole
    <3>2. /\ d \in Seq(Arrivals) /\ Len(d) = Len(dispatched) - 1
          /\ \A i \in 1 .. Len(d) : d[i] = dispatched[i + 1]
      BY <2>1, <2>4, <3>1, HeadTailProperties
    <3>3. /\ Len(d) \in Nat /\ DOMAIN d = 1 .. Len(d)
          /\ Len(dispatched) \in Nat /\ DOMAIN dispatched = 1 .. Len(dispatched)
      BY <3>1, <3>2, LenProperties
    <3>4. ASSUME NEW i \in DOMAIN d PROVE i + 1 \in DOMAIN dispatched /\ d[i] = dispatched[i + 1]
      BY <3>2, <3>3
    <3> QED
      BY <1>1, <3>2, <3>4 DEF Whole
  <2>6. Whole(d)'
    BY <2>2, <2>5, WholeStays
  <2>7. Whole(dispatched)'
    BY <2>1, <2>4, <2>6
  <2>8. Numbered'
    BY <1>1, <1>2, <2>1, NumberedStep
  <2> QED
    BY <2>3, <2>7, <2>8 DEF OrderInv
<1>5. CASE (\E k \in Kinds : Send(k)) \/ SendUnreliable \/ Throttle \/ DatagramSent \/ UNCHANGED vars
  <2>1. UNCHANGED receiverVars /\ network \subseteq network'
    BY <1>5 DEF Send, SendUnreliable, Throttle, DatagramSent, vars, senderVars,
                SetupReliable, SetupUnreliable, SetupUnsequenced
  <2>2. UNCHANGED <<incomingReliableSequenceNumber, incomingUnreliableSequenceNumber,
                    incomingReliable, incomingUnreliable, dispatched>>
    BY <2>1 DEF receiverVars, channelVars
  <2>3. Settled(Channel)'
    BY <2>1, <2>2, ChannelStays
  <2>4. PICK d : d = dispatched
    OBVIOUS
  <2>5. Whole(d)'
    BY <1>1, <2>1, <2>4, WholeStays
  <2>6. Whole(dispatched)'
    BY <2>2, <2>4, <2>5
  <2>7. Numbered'
    BY <1>1, <1>2, <2>2, NumberedStep
  <2> QED
    BY <2>3, <2>6, <2>7 DEF OrderInv
<1> QED
  BY <1>3, <1>4, <1>5 DEF Next

\* The invariant of both peers and the order of the lists between them.
THEOREM OrderInvariant ==
  ASSUME SmallPackets
  PROVE  Spec => [](SenderInv /\ ReceiverInv /\ OrderInv)
<1>1. Init => SenderInv /\ ReceiverInv /\ OrderInv
  BY SenderInit, ReceiverInit, OrderInit
<1>2. SenderInv /\ ReceiverInv /\ OrderInv /\ [Next]_vars => (SenderInv /\ ReceiverInv /\ OrderInv)'
  BY SenderStep, ReceiverStep, OrderStep
<1> QED
  BY <1>1, <1>2, PTL DEF Spec

\* A packet of which every fragment has its own packet's data, and as many
\* fragments as it was sent in, has all of them.
LEMMA AllFragments ==
  ASSUME NEW e \in Entry, \A x \in e.fragments : x.packet = e.packet,
         fragmentsRemaining(e) =< 0
  PROVE  {x.fragment : x \in e.fragments} = 0 .. e.count - 1
<1> DEFINE S == e.fragments
           T == 0 .. e.count - 1
           f == [x \in S |-> x.fragment]
<1>1. /\ e.count \in Nat /\ IsFiniteSet(S) /\ S \subseteq [fragment : Nat, packet : Packets]
      /\ \A x \in S : x.fragment \in T
  BY DEF Entry
<1>2. \A x, y \in S : x.fragment = y.fragment => x = y
  BY <1>1
<1>3. Cardinality(S) \in Nat /\ e.count - Cardinality(S) =< 0
  BY <1>1, FS_CardinalityType DEF fragmentsRemaining
<1>4. IsFiniteSet(T) /\ Cardinality(T) = e.count
  <2>1. PICK b \in Int : b = e.count - 1
    BY <1>1
  <2>2. IsFiniteSet(0 .. b) /\ Cardinality(0 .. b) = IF 0 > b THEN 0 ELSE b - 0 + 1
    BY FS_Interval
  <2> QED
    BY <1>1, <2>1, <2>2
<1> HIDE DEF S, T
<1>5. f \in Injection(S, T)
  BY <1>1, <1>2 DEF Injection, IsInjective
<1>6. Cardinality(S) =< Cardinality(T) /\ (Cardinality(S) = Cardinality(T) <=> f \in Surjection(S, T))
  BY <1>4, <1>5, FS_Injection
<1>7. f \in Surjection(S, T)
  BY <1>1, <1>3, <1>4, <1>6
<1>8. {x.fragment : x \in S} = T
  BY <1>1, <1>7 DEF Surjection
<1> QED
  BY <1>8 DEF S, T

LEMMA InvariantOrders ==
  ASSUME SenderInv, ReceiverInv, OrderInv
  PROVE  WaitingInOrder
BY SettledLists DEF WaitingInOrder, InOrder

LEMMA InvariantLeavesNothing ==
  ASSUME SenderInv, ReceiverInv, OrderInv
  PROVE  NothingDeliverableWaits
<1> DEFINE n == incomingReliableSequenceNumber
           s == incomingUnreliable
<1>1. CommandsFit /\ Numbered /\ n \in Nat
  BY DEF ReceiverInv, ReceiverType, OrderInv
<1>2. incomingReliable # <<>> => ~ Continues(incomingReliable, 1, n)
  BY DEF OrderInv, Settled, NextMissing, Channel
<1>3. ASSUME NEW e \in ToSet(s)
      PROVE  Early(e, n) \/ (Partial(e, n) /\ e.number > incomingUnreliableSequenceNumber)
  <2>1. PICK p \in DOMAIN s : e = s[p]
    BY DEF ToSet
  <2>2. /\ s \in Seq(Waiters(UnreliableTypes, n))
        /\ e.reliable = n => /\ e.number > incomingUnreliableSequenceNumber
                             /\ fragmentsRemaining(e) > 0
    BY <2>1, SettledLists
  <2>3. e \in Waiters(UnreliableTypes, n)
    BY <2>1, <2>2, ElementOfSeq, LenProperties
  <2>4. e \in Arrivals /\ e.type \in UnreliableTypes /\ Ahead(e, n)
    BY <2>3 DEF Waiters
  <2>5. Sequenced(e)
    BY <2>4 DEF Sequenced, UnreliableTypes
  <2>6. Window(n) =< Window(n) + (RELIABLE_WINDOWS - FREE_RELIABLE_WINDOWS + 1) /\ n =< n
    <3> HIDE DEF n
    <3>1. PICK w \in Nat : w = Window(n)
      BY <1>1, WindowInterval
    <3>2. w =< w + (RELIABLE_WINDOWS - FREE_RELIABLE_WINDOWS + 1)
      BY NumberConstants
    <3> QED
      BY <1>1, <3>1, <3>2
  <2> HIDE DEF n, s
  <2>7. /\ e.reliable \in Nat
        /\ Early(e, n) <=> Sequenced(e) /\ n < e.reliable
        /\ Current(e, n) <=> Sequenced(e) /\ e.reliable = n
    BY <1>1, <2>4, <2>6, WalkSees
  <2>8. n =< e.reliable
    BY <2>4 DEF Ahead
  <2>9. CASE e.reliable = n
    BY <2>2, <2>5, <2>7, <2>9 DEF Partial
  <2>10. CASE e.reliable # n
    BY <1>1, <2>5, <2>7, <2>8, <2>10
  <2> QED
    BY <2>9, <2>10
<1> QED
  BY <1>2, <1>3 DEF NothingDeliverableWaits

LEMMA InvariantAssembles ==
  ASSUME SenderInv, ReceiverInv, OrderInv
  PROVE  AssembledWhole
<1>1. ASSUME NEW e \in ToSet(dispatched)
      PROVE  /\ \A x \in e.fragments : x.packet = e.packet
             /\ e.type \in FragmentTypes =>
                  {x.fragment : x \in e.fragments} = 0 .. submitted[e.packet].fragments - 1
  <2>1. PICK p \in DOMAIN dispatched : e = dispatched[p]
    BY DEF ToSet
  <2>2. /\ dispatched \in Seq(Arrivals)
        /\ e.type \in FragmentTypes => fragmentsRemaining(e) =< 0
    BY <2>1 DEF OrderInv, Whole
  <2>3. e \in Arrivals
    BY <2>1, <2>2, ElementOfSeq, LenProperties
  <2>4. \A x \in e.fragments : x.packet = e.packet
    BY <2>3 DEF Arrivals
  <2>5. e \in Entry /\ (e.type \in FragmentTypes => e.count = submitted[e.packet].fragments)
    BY <2>3, ArrivalNumbers DEF ReceiverInv, OrderInv
  <2>6. CASE e.type \in FragmentTypes
    <3>1. {x.fragment : x \in e.fragments} = 0 .. e.count - 1
      BY <2>2, <2>4, <2>5, <2>6, AllFragments
    <3> QED
      BY <2>4, <2>5, <2>6, <3>1
  <2> QED
    BY <2>4, <2>6
<1> QED
  BY <1>1 DEF AssembledWhole

\* Both lists stay in the order of submission without duplicates, however the
\* wire numbers wrap around: the searches from the back (peer.cpp:859, 894,
\* protocol.cpp:566, 674) find what they look for.
THEOREM AlwaysWaitingInOrder ==
  ASSUME SmallPackets
  PROVE  Spec => []WaitingInOrder
<1>1. SenderInv /\ ReceiverInv /\ OrderInv => WaitingInOrder
  BY InvariantOrders
<1> QED
  BY <1>1, OrderInvariant, PTL

\* What can be dispatched is dispatched at once: nothing complete is left in the
\* lists until some later packet happens to arrive (peer.cpp:712, 770).
THEOREM AlwaysNothingDeliverableWaits ==
  ASSUME SmallPackets
  PROVE  Spec => []NothingDeliverableWaits
<1>1. SenderInv /\ ReceiverInv /\ OrderInv => NothingDeliverableWaits
  BY InvariantLeavesNothing
<1> QED
  BY <1>1, OrderInvariant, PTL

\* A packet sent in fragments is dispatched with all of them and with no other
\* packet's data (protocol.cpp:529, 637), in whatever order the fragments of
\* several packets arrive and however often.  The write through a freed command
\* (peer.cpp:738, then protocol.cpp:721-735) is a step of the specification, in
\* which the packet is dropped: the theorem assumes that the write damages
\* nothing but the freed memory.
THEOREM AlwaysAssembledWhole ==
  ASSUME SmallPackets
  PROVE  Spec => []AssembledWhole
<1>1. SenderInv /\ ReceiverInv /\ OrderInv => AssembledWhole
  BY InvariantAssembles
<1> QED
  BY <1>1, OrderInvariant, PTL

\* A fragment is written through the freed command of its packet (peer.cpp:738,
\* protocol.cpp:721) only when the packet arrives behind two younger partial ones:
\* with any number of packets, in every other order of arrival, the packet that
\* was queued for a fragment is still there to take it.
THEOREM StrayWritesOnlyBehindTwo ==
  ASSUME SmallPackets
  PROVE  Spec => StrayWriteOnlyBehindTwo
<1> DEFINE Stray ==
      \A c \in network :
        /\ totalWaitingData' > totalWaitingData
        /\ \A e \in ToSet(incomingUnreliable') : e.packet # c.packet
        /\ c.type = "SEND_UNRELIABLE_FRAGMENT" /\ Handle(c)
        => \E e, f \in ToSet(incomingUnreliable') :
             /\ c.packet < e.packet /\ e.packet < f.packet
             /\ fragmentsRemaining(e) > 0 /\ fragmentsRemaining(f) > 0
<1>1. ASSUME SenderInv, ReceiverInv, OrderInv PROVE Stray
  <2> SUFFICES ASSUME NEW c \in network, totalWaitingData' > totalWaitingData,
                      \A e \in ToSet(incomingUnreliable') : e.packet # c.packet,
                      c.type = "SEND_UNRELIABLE_FRAGMENT", Handle(c)
               PROVE  \E e, f \in ToSet(incomingUnreliable') :
                        /\ c.packet < e.packet /\ e.packet < f.packet
                        /\ fragmentsRemaining(e) > 0 /\ fragmentsRemaining(f) > 0
    OBVIOUS
  <2> DEFINE e == Incoming(c)
             ch == DispatchUnreliable([Channel EXCEPT !.unreliable = Inserted(@, e)])
  <2>1. Fresh(c) /\ HandleSendUnreliableFragment(c)
    BY DEF Handle, HandleSendReliable, HandleSendUnreliable, HandleSendFragment,
           HandleSendUnsequenced
  <2>2. totalWaitingData \in Nat
    BY <1>1 DEF ReceiverInv, ReceiverType
  <2>3. /\ Wanted(e) /\ ~ HasTwin(incomingUnreliable, e)
        /\ \/ \E p \in DOMAIN ch.unreliable :
                /\ ch.unreliable[p] = e
                /\ Becomes(WithUnreliableFragment(ch, p, c))
           \/ /\ e \notin ToSet(ch.unreliable)
              /\ Becomes(ch)
    BY <2>1, <2>2 DEF HandleSendUnreliableFragment
  <2>4. \/ \E p \in DOMAIN ch.unreliable : ch.unreliable[p] = e
        \/ \E f, g \in ToSet(ch.unreliable) :
             /\ c.packet < f.packet /\ f.packet < g.packet
             /\ fragmentsRemaining(f) > 0 /\ fragmentsRemaining(g) > 0
    BY <1>1, <2>1, <2>3, RemovedBehindTwo
  <2>5. /\ e.packet = c.packet /\ e.fragments = {} /\ e.count \in Nat /\ e.count > 1
        /\ e \in UnreliableEntry
    <3>1. c.type \notin ReliableTypes
      BY DEF ReliableTypes
    <3>2. e \in UnreliableEntry /\ e.fragments = {} /\ e.count = c.count /\ Fits(c)
      BY <1>1, <3>1, HandlerFacts
    <3>3. e.packet = c.packet
      BY DEF Incoming
    <3>4. e.count \in Nat
      BY <3>2 DEF UnreliableEntry, Entry
    <3> QED
      BY <3>2, <3>3, <3>4 DEF Fits
  <2>6. ch \in ChannelType
    <3>1. c.type \in UnreliableTypes
      BY DEF UnreliableTypes
    <3> QED
      BY <1>1, <2>1, <2>3, <3>1, NewUnreliableSettles
  <2> HIDE DEF e, ch
  <2>7. CASE e \notin ToSet(ch.unreliable) /\ Becomes(ch)
    <3>1. incomingUnreliable' = ch.unreliable
      BY <2>7 DEF Becomes
    <3>2. ~ \E p \in DOMAIN ch.unreliable : ch.unreliable[p] = e
      BY <2>7 DEF ToSet
    <3> QED
      BY <2>4, <3>1, <3>2
  <2>8. ASSUME NEW p \in DOMAIN ch.unreliable, ch.unreliable[p] = e,
               Becomes(WithUnreliableFragment(ch, p, c))
        PROVE  FALSE
    <3> DEFINE x == Marked(e, c)
               marked == [ch EXCEPT !.unreliable[p] = Marked(@, c)]
    <3>1. marked.unreliable = [ch.unreliable EXCEPT ![p] = Marked(@, c)]
      BY <2>6 DEF ChannelType
    <3>2. marked.unreliable[p] = x /\ p \in DOMAIN marked.unreliable
      BY <2>8, <3>1
    <3>3. /\ x.packet = c.packet /\ fragmentsRemaining(x) > 0
          /\ fragmentsRemaining(x) \in Int
      <4>1. /\ x.fragments = {[fragment |-> c.fragment, packet |-> c.packet]}
            /\ x.count = e.count /\ x.packet = e.packet
        BY <2>5 DEF Marked, UnreliableEntry, Entry
      <4>2. Cardinality(x.fragments) = 1
        BY <4>1, FS_Singleton
      <4> HIDE DEF x
      <4> QED
        BY <2>5, <4>1, <4>2 DEF fragmentsRemaining
    <3> HIDE DEF x
    <3>4. ~ (fragmentsRemaining(marked.unreliable[p]) =< 0)
      BY <3>2, <3>3
    <3>5. WithUnreliableFragment(ch, p, c) = marked
      BY <3>4 DEF WithUnreliableFragment
    <3> HIDE DEF marked
    <3>6. incomingUnreliable' = marked.unreliable
      BY <2>8, <3>5 DEF Becomes
    <3>7. x \in ToSet(incomingUnreliable')
      BY <3>2, <3>6 DEF ToSet
    <3> QED
      BY <3>3, <3>7
  <2> QED
    BY <2>3, <2>7, <2>8
<1>2. SenderInv /\ ReceiverInv /\ OrderInv /\ [Next]_vars => [Stray]_vars
  BY <1>1
<1>3. [][Stray]_vars <=> StrayWriteOnlyBehindTwo
  BY DEF StrayWriteOnlyBehindTwo
<1> QED
  BY <1>2, <1>3, OrderInvariant, PTL DEF Spec

-----------------------------------------------------------------------------
(* What the remote application was promised. *)

\* The packets of a list of commands, and all that were handed over so far: to
\* the application, or to dispatchedCommands for it.
PacketsOf(s) == [p \in DOMAIN s |-> s[p].packet]
HandedOver   == delivered \o PacketsOf(dispatched)

SequencedKinds == {k \in Kinds : k.reliable \/ ~ k.unsequenced}

\* While g is the first group of the window and bits are set in it, the group
\* was received before, or counts as if it had been.
Seen(group, g, bits) ==
  \/ group < g
  \/ /\ group < g + UNSEQUENCED_WINDOW_SIZE
     /\ group % UNSEQUENCED_WINDOW_SIZE \in bits

\* The receiver will not take command c (again): its number is past.
Behind(c, n, u, g, bits) ==
  IF Sequenced(c) THEN Past(Incoming(c), n, u) ELSE Seen(c.number, g, bits)

\* Only a packet that need not be sequenced is sent unsequenced, in a command of
\* its own, and a reliable packet was given to the network as one.
SentAsAsked ==
  /\ \A c \in Made : ~ Sequenced(c) =>
       /\ submitted[c.packet] \notin SequencedKinds
       /\ \A d \in Made : d.packet = c.packet => d = c
  /\ \A i \in DOMAIN submitted : submitted[i].reliable =>
       \E c \in network : c.packet = i /\ c.type \in ReliableTypes

\* The packets h are those the receiver has handed over with these numbers and
\* this window: each once, the sequenced ones in the order of submission, all
\* past, and among them every reliable one that is past.
Given(h, n, u, g, bits) ==
  /\ h \in Seq(DOMAIN submitted)
  /\ \A p \in DOMAIN h : \E c \in network :
       c.packet = h[p] /\ Behind(c, n, u, g, bits)
  /\ \A p, r \in DOMAIN h : p < r =>
       /\ h[p] # h[r]
       /\ submitted[h[p]] \in SequencedKinds /\ submitted[h[r]] \in SequencedKinds
            => h[p] < h[r]
  /\ \A c \in network :
       c.type \in ReliableTypes /\ LastNumber(Incoming(c)) =< n =>
         \E p \in DOMAIN h : h[p] = c.packet

PromiseInv ==
  /\ SentAsAsked
  /\ incomingReliableSequenceNumber =< outgoingReliableSequenceNumber
  /\ incomingUnsequencedGroup % UNSEQUENCED_WINDOW_SIZE = 0
  /\ Given(HandedOver, incomingReliableSequenceNumber, incomingUnreliableSequenceNumber,
           incomingUnsequencedGroup, unsequencedWindow)

LEMMA SentAsAskedStep ==
  ASSUME SenderInv, CommandsFit, SentAsAsked, [Next]_vars
  PROVE  SentAsAsked'
<1> DEFINE q == outgoingUnreliable
<1>1. network \subseteq network'
  BY DEF Next, Send, SendUnreliable, Throttle, DatagramSent, Handle, Receive, vars, senderVars,
         SetupReliable, SetupUnreliable, SetupUnsequenced, HandleSendReliable,
         HandleSendUnreliable, HandleSendFragment, HandleSendUnreliableFragment,
         HandleSendUnsequenced
<1>2. CASE Made' \subseteq Made /\ UNCHANGED submitted
  BY <1>1, <1>2 DEF SentAsAsked
<1>3. ASSUME NEW k \in Kinds, Send(k), Len(submitted) + 1 \in Packets,
             Made' = Made \cup ToSet(CommandsFor(Len(submitted) + 1, k))
      PROVE  SentAsAsked'
  <2> DEFINE i == Len(submitted) + 1
             cs == CommandsFor(i, k)
  <2>1. /\ submitted \in Seq(Kinds) /\ DOMAIN submitted = 1 .. Len(submitted)
        /\ Len(submitted) \in Nat
    <3>1. submitted \in Seq(Kinds)
      BY DEF SenderInv, SenderType
    <3> QED
      BY <3>1, LenProperties
  <2>2. /\ submitted' = Append(submitted, k) /\ DOMAIN submitted' = 1 .. i
        /\ submitted'[i] = k /\ \A j \in DOMAIN submitted : submitted'[j] = submitted[j]
    <3>1. submitted' = Append(submitted, k)
      BY <1>3 DEF Send
    <3> QED
      BY <2>1, <3>1, AppendProperties, LenProperties
  <2>3. /\ cs \in Seq(CommandType) /\ Len(cs) = k.fragments
        /\ \A p \in DOMAIN cs : cs[p].packet = i /\ cs[p].type = TypeFor(k)
        /\ k.fragments \in Nat /\ k.fragments >= 1
    BY <1>3, CommandsForPacket, KindsHaveFragments DEF SenderInv
  <2>4. DOMAIN cs = 1 .. Len(cs)
    <3> HIDE DEF cs
    <3> QED
      BY <2>3, LenProperties
  <2>5. TypeFor(k) = "SEND_UNSEQUENCED" =>
          k.fragments = 1 /\ k.unsequenced /\ ~ k.reliable
    BY DEF TypeFor
  <2>6. k.reliable => TypeFor(k) \in ReliableTypes
    BY <2>3 DEF TypeFor, ReliableTypes
  <2>7. TypeFor(k) \in ReliableTypes => network' = network \cup ToSet(cs)
    <3> HIDE DEF cs
    <3>1. TypeFor(k) \in ReliableTypes => SetupReliable(cs)
      <4>1. TypeFor(k) \in ReliableTypes => TypeFor(k) \notin UnreliableTypes
        BY DEF ReliableTypes, UnreliableTypes
      <4> QED
        BY <1>3, <4>1 DEF Send, cs
    <3> QED
      BY <3>1 DEF SetupReliable
  <2>8. \A c \in Made : c.packet \in DOMAIN submitted /\ c.packet # i
    <3>1. ASSUME NEW c \in Made PROVE c.packet \in DOMAIN submitted /\ c.packet # i
      <4>1. c.packet \in DOMAIN submitted
        BY MadeIsTyped
      <4> QED
        BY <2>1, <4>1
    <3> QED
      BY <3>1
  <2> HIDE DEF cs, i
  <2>9. \A c \in ToSet(cs) : \E p \in DOMAIN cs : c = cs[p]
    BY DEF ToSet
  <2>10. Made' = Made \cup ToSet(cs)
    BY <1>3 DEF cs, i
  <2>11. \A j \in DOMAIN submitted' : j \in DOMAIN submitted \/ j = i
    BY <2>1, <2>2 DEF i
  <2>12. ASSUME NEW c \in Made', ~ Sequenced(c)
         PROVE  /\ submitted'[c.packet] \notin SequencedKinds
                /\ \A d \in Made' : d.packet = c.packet => d = c
    <3>1. CASE c \in Made
      <4>1. submitted'[c.packet] = submitted[c.packet]
        BY <2>2, <2>8, <3>1
      <4>2. ASSUME NEW d \in Made', d.packet = c.packet PROVE d = c
        <5>1. d \notin ToSet(cs)
          BY <2>3, <2>8, <2>9, <3>1, <4>2
        <5> QED
          BY <2>10, <2>12, <3>1, <4>2, <5>1 DEF SentAsAsked
      <4> QED
        BY <2>12, <3>1, <4>1, <4>2 DEF SentAsAsked
    <3>2. CASE c \in ToSet(cs)
      <4>1. PICK p \in DOMAIN cs : c = cs[p]
        BY <2>9, <3>2
      <4>2. c.packet = i /\ TypeFor(k) = "SEND_UNSEQUENCED"
        BY <2>3, <2>12, <4>1 DEF Sequenced
      <4>3. DOMAIN cs = {1}
        BY <2>3, <2>4, <2>5, <4>2
      <4>4. submitted'[i] \notin SequencedKinds
        BY <2>2, <2>5, <4>2 DEF SequencedKinds
      <4>5. ASSUME NEW d \in Made', d.packet = c.packet PROVE d = c
        <5>1. d \in ToSet(cs)
          BY <2>8, <2>10, <4>2, <4>5
        <5>2. PICK r \in DOMAIN cs : d = cs[r]
          BY <2>9, <5>1
        <5> QED
          BY <4>1, <4>3, <5>2
      <4> QED
        BY <4>2, <4>4, <4>5
    <3> QED
      BY <2>10, <3>1, <3>2
  <2>13. ASSUME NEW j \in DOMAIN submitted', submitted'[j].reliable
         PROVE  \E c \in network' : c.packet = j /\ c.type \in ReliableTypes
    <3>1. CASE j \in DOMAIN submitted
      <4>1. submitted[j].reliable
        BY <2>2, <2>13, <3>1
      <4>2. PICK c \in network : c.packet = j /\ c.type \in ReliableTypes
        BY <3>1, <4>1 DEF SentAsAsked
      <4> QED
        BY <1>1, <4>2
    <3>2. CASE j = i
      <4>1. k.reliable
        BY <2>2, <2>13, <3>2
      <4>2. TypeFor(k) \in ReliableTypes /\ 1 \in DOMAIN cs
        BY <2>3, <2>4, <2>6, <4>1
      <4>3. cs[1] \in network'
        BY <2>7, <4>2 DEF ToSet
      <4> QED
        BY <2>3, <3>2, <4>2, <4>3
    <3> QED
      BY <2>11, <3>1, <3>2
  <2>14. \A c : (Sequenced(c))' <=> Sequenced(c)
    BY DEF Sequenced
  <2> QED
    BY <2>12, <2>13, <2>14 DEF SentAsAsked, Sequenced
<1> QED
  BY <1>2, <1>3, MadeStep

\* What enet_protocol_handle_send_unsequenced makes of group g while b is the
\* first one of the window: what it accepts is not before the window, its bit is
\* the place of the group in its own window, and that window begins at b or
\* behind.
LEMMA GroupTest ==
  ASSUME NEW b \in Nat, NEW g \in Nat, b % UNSEQUENCED_WINDOW_SIZE = 0,
         g + GroupLifetime >= b, g < b + GroupSpace,
         LET n == GroupWire(b)
             q == GroupWire(g)
         IN  (IF q < n THEN q + GroupSpace ELSE q)
               < n + FREE_UNSEQUENCED_WINDOWS * UNSEQUENCED_WINDOW_SIZE
  PROVE  LET i == GroupWire(g) % UNSEQUENCED_WINDOW_SIZE IN
         /\ i = g % UNSEQUENCED_WINDOW_SIZE
         /\ i \in 0 .. UNSEQUENCED_WINDOW_SIZE - 1
         /\ g >= b /\ g - i \in Nat
         /\ (g - i) % UNSEQUENCED_WINDOW_SIZE = 0
         /\ IF GroupWire(g) - i = GroupWire(b) THEN g - i = b
            ELSE g - i >= b + UNSEQUENCED_WINDOW_SIZE
<1> DEFINE W == UNSEQUENCED_WINDOWS
           F == FREE_UNSEQUENCED_WINDOWS
           K == UNSEQUENCED_WINDOW_SIZE
           N == GroupSpace
           FK == F * K
           L == GroupLifetime
           q == GroupWire(g)
           n == GroupWire(b)
           i == q % K
           x == q \div K
           z == n \div K
           a == g \div N
           d == b \div N
<1>1. W \in Nat \ {0} /\ F \in 1 .. W /\ K \in Nat \ {0} /\ N = W * K
  BY DeliveryAssumption DEF GroupSpace
<1>2. N \in Nat \ {0} /\ FK \in Nat /\ L = N - FK
  <2>1. L = (W - F) * K
    BY DEF GroupLifetime
  <2> HIDE DEF W, F, K, N, L
  <2>2. (W - F) * K = W * K - F * K
    BY <1>1
  <2> QED
    BY <1>1, <2>1, <2>2
<1>3. (IF q < n THEN q + N ELSE q) < n + FK /\ g + L >= b /\ g < b + N /\ b % K = 0
  OBVIOUS
<1> HIDE DEF N, W, F, FK, L
<1>4. a \in Nat /\ q \in 0 .. N - 1 /\ g = N * a + q
  BY <1>2, Quotient DEF GroupWire, N
<1>5. d \in Nat /\ n \in 0 .. N - 1 /\ b = N * d + n
  BY <1>2, Quotient DEF GroupWire, N
<1> SUFFICES /\ i = g % K /\ i \in 0 .. K - 1
             /\ g >= b /\ g - i \in Nat /\ (g - i) % K = 0
             /\ IF q - i = n THEN g - i = b ELSE g - i >= b + K
  OBVIOUS
<1> HIDE DEF K, a, d, q, n
<1>19. q \in Nat /\ n \in Nat
  BY <1>2, <1>4, <1>5
<1>6. x \in Nat /\ i \in 0 .. K - 1 /\ q = K * x + i
  BY <1>1, <1>19, Quotient
<1>7. z \in Nat /\ n % K \in 0 .. K - 1 /\ n = K * z + (n % K)
  BY <1>1, <1>19, Quotient
<1> HIDE DEF x, z, i
<1>8. N * a = K * (W * a) /\ N * d = K * (W * d) /\ W * a \in Nat /\ W * d \in Nat
  BY <1>1, <1>4, <1>5
<1>9. PICK P \in Nat : g = K * P + i
  <2>1. K * (W * a) + K * x = K * (W * a + x) /\ W * a + x \in Nat
    BY <1>1, <1>6, <1>8
  <2> DEFINE u == K * (W * a)
             v == K * x
             w == K * (W * a + x)
  <2>2. u + v = w /\ g = u + q /\ q = v + i /\ u \in Int /\ v \in Int /\ w \in Int
    BY <1>1, <1>4, <1>6, <1>8, <2>1
  <2> HIDE DEF u, v, w
  <2>3. g = w + i
    BY <1>6, <2>2
  <2> QED
    BY <2>1, <2>3 DEF w
<1>10. PICK Q \in Nat : b = K * Q + (n % K)
  <2> DEFINE s == n % K
  <2>1. K * (W * d) + K * z = K * (W * d + z) /\ W * d + z \in Nat
    BY <1>1, <1>7, <1>8
  <2> DEFINE u == K * (W * d)
             v == K * z
             w == K * (W * d + z)
  <2>2. u + v = w /\ b = u + n /\ n = v + s /\ u \in Int /\ v \in Int /\ w \in Int /\ s \in Int
    BY <1>1, <1>5, <1>7, <1>8, <2>1
  <2> HIDE DEF u, v, w, s
  <2>3. b = w + s
    BY <2>2
  <2> QED
    BY <2>1, <2>3 DEF w, s
<1>11. g % K = i
  BY <1>1, <1>6, <1>9, QuotientUnique
<1>12. b % K = n % K
  BY <1>1, <1>7, <1>10, QuotientUnique
<1>13. b = K * Q /\ n = K * z
  <2> DEFINE s == n % K
  <2>1. s = 0 /\ b = K * Q + s /\ n = K * z + s /\ K * Q \in Int /\ K * z \in Int
    BY <1>1, <1>3, <1>7, <1>10, <1>12
  <2> HIDE DEF s
  <2> QED
    BY <2>1
<1>14. g - i = K * P /\ K * P \in Nat
  BY <1>1, <1>6, <1>9
<1>15. (g - i) % K = 0
  <2> DEFINE zero == 0
  <2>1. zero \in 0 .. K - 1 /\ g - i = K * P + zero
    BY <1>1, <1>14
  <2> HIDE DEF zero
  <2>2. (K * P + zero) % K = zero
    BY <1>1, <2>1, QuotientUnique
  <2> QED
    BY <2>1, <2>2 DEF zero
<1>16. N * a \in Nat /\ N * d \in Nat
  BY <1>1, <1>2, <1>4, <1>5
<1>17. g >= b /\ (q - i = n <=> g - i = b)
  <2>0. q - i \in Nat
    <3>1. K * x \in Nat
      BY <1>1, <1>6
    <3> QED
      BY <1>6, <3>1
  <2>1. CASE a = d
    <3>1. N * a = N * d
      BY <2>1
    <3> QED
      BY <1>2, <1>3, <1>4, <1>5, <1>16, <1>6, <1>1, <3>1
  <2>2. CASE a = d + 1
    <3>1. N * a = N * d + N
      BY <1>2, <1>5, <2>2
    <3> QED
      BY <1>2, <1>3, <1>4, <1>5, <1>16, <1>6, <1>1, <2>0, <3>1
  <2>3. CASE d = a + 1
    <3>1. N * d = N * a + N
      BY <1>2, <1>4, <2>3
    <3> QED
      BY <1>2, <1>3, <1>4, <1>5, <1>16, <1>6, <1>1, <3>1
  <2>4. ASSUME a >= d + 2 PROVE FALSE
    <3>1. N * a >= N * (d + 2)
      BY <1>2, <1>4, <1>5, <2>4
    <3>2. N * (d + 2) = N * d + 2 * N
      BY <1>2, <1>5
    <3> QED
      BY <1>2, <1>3, <1>4, <1>5, <1>16, <3>1, <3>2
  <2>5. ASSUME d >= a + 2 PROVE FALSE
    <3>1. N * d >= N * (a + 2)
      BY <1>2, <1>4, <1>5, <2>5
    <3>2. N * (a + 2) = N * a + 2 * N
      BY <1>2, <1>4
    <3> QED
      BY <1>2, <1>3, <1>4, <1>5, <1>16, <3>1, <3>2
  <2> QED
    BY <1>4, <1>5, <2>1, <2>2, <2>3, <2>4, <2>5
<1>18. g - i # b => g - i >= b + K
  <2>1. ASSUME P < Q PROVE FALSE
    <3>1. K * Q >= K * (P + 1)
      BY <1>1, <2>1
    <3>2. K * (P + 1) = K * P + K
      BY <1>1
    <3> QED
      BY <1>1, <1>6, <1>13, <1>14, <1>17, <3>1, <3>2
  <2>2. ASSUME P > Q PROVE K * P >= K * Q + K
    <3>1. K * P >= K * (Q + 1)
      BY <1>1, <2>2
    <3>2. K * (Q + 1) = K * Q + K
      BY <1>1
    <3> QED
      BY <1>1, <3>1, <3>2
  <2>3. P = Q => g - i = b
    BY <1>13, <1>14
  <2>4. P < Q \/ P = Q \/ P > Q
    OBVIOUS
  <2> QED
    BY <1>13, <1>14, <2>1, <2>2, <2>3, <2>4
<1> QED
  BY <1>6, <1>11, <1>14, <1>15, <1>17, <1>18

\* A group that was received is not accepted again, and stays received when the
\* window moves.
LEMMA GroupHandled ==
  ASSUME ReceiverInv, incomingUnsequencedGroup % UNSEQUENCED_WINDOW_SIZE = 0,
         NEW c \in network, c.number \in Nat, c.type = "SEND_UNSEQUENCED", Fresh(c), HandleSendUnsequenced(c)
  PROVE  /\ incomingUnsequencedGroup' % UNSEQUENCED_WINDOW_SIZE = 0
         /\ \A h \in Nat :
              Seen(h, incomingUnsequencedGroup, unsequencedWindow)
                => Seen(h, incomingUnsequencedGroup', unsequencedWindow')
         /\ ~ Seen(c.number, incomingUnsequencedGroup, unsequencedWindow)
         /\ HasRoom => Seen(c.number, incomingUnsequencedGroup', unsequencedWindow')
<1> DEFINE K == UNSEQUENCED_WINDOW_SIZE
           b == incomingUnsequencedGroup
           B == incomingUnsequencedGroup'
           S == unsequencedWindow
           T == unsequencedWindow'
           g == c.number
           i == GroupWire(g) % K
           same == GroupWire(g) - i = GroupWire(b)
<1>1. b \in Nat /\ K \in Nat \ {0} /\ b % K = 0 /\ g \in Nat
  BY DeliveryAssumption DEF ReceiverInv, ReceiverType
<1>2. /\ i = g % K /\ i \in 0 .. K - 1 /\ g >= b /\ g - i \in Nat /\ (g - i) % K = 0
      /\ IF same THEN g - i = b ELSE g - i >= b + K
  <2>1. g + GroupLifetime >= b /\ g < b + GroupSpace
    BY DEF Fresh
  <2>2. GroupAccepted(g)
    BY DEF HandleSendUnsequenced
  <2>3. LET n == GroupWire(b)
            q == GroupWire(g)
        IN  (IF q < n THEN q + GroupSpace ELSE q)
               < n + FREE_UNSEQUENCED_WINDOWS * UNSEQUENCED_WINDOW_SIZE
    BY <2>2 DEF GroupAccepted
  <2> HIDE DEF b, g
  <2> QED
    BY <1>1, <2>1, <2>3, GroupTest
<1>3. /\ i \notin (IF same THEN S ELSE {})
      /\ B = IF same THEN b ELSE g - i
      /\ \/ HasRoom /\ T = (IF same THEN S ELSE {}) \cup {i}
         \/ ~ HasRoom /\ T = (IF same THEN S ELSE {})
  BY DEF HandleSendUnsequenced
<1> HIDE DEF b, B, S, T, g, i, same, K
<1>4. \A h, x, X : Seen(h, x, X) <=> (h < x \/ (h < x + K /\ h % K \in X))
  BY DEF Seen, K
<1>5. B % K = 0
  BY <1>1, <1>2, <1>3
<1>6. ASSUME NEW h \in Nat, Seen(h, b, S) PROVE Seen(h, B, T)
  <2>1. CASE same
    BY <1>3, <1>4, <1>6, <2>1
  <2>2. CASE ~ same
    <3>1. h < b + K
      BY <1>1, <1>4, <1>6
    <3>2. h < B
      BY <1>1, <1>2, <1>3, <2>2, <3>1
    <3> QED
      BY <1>4, <3>2
  <2> QED
    BY <2>1, <2>2
<1>7. ~ Seen(g, b, S)
  <2>1. CASE same
    BY <1>1, <1>2, <1>3, <1>4, <2>1
  <2>2. CASE ~ same
    <3>1. ~ (g < b + K) /\ ~ (g < b)
      BY <1>1, <1>2, <2>2
    <3> QED
      BY <1>4, <3>1
  <2> QED
    BY <2>1, <2>2
<1>8. HasRoom => Seen(g, B, T)
  <2>1. HasRoom => g % K \in T
    BY <1>2, <1>3
  <2>2. g < B + K
    BY <1>1, <1>2, <1>3
  <2> QED
    BY <1>4, <2>1, <2>2
<1> QED
  BY <1>5, <1>6, <1>7, <1>8 DEF b, B, S, T, g, K

LEMMA PacketsOfList ==
  ASSUME NEW S, NEW s \in Seq(S)
  PROVE  /\ PacketsOf(s) \in Seq({e.packet : e \in S})
         /\ Len(PacketsOf(s)) = Len(s) /\ DOMAIN PacketsOf(s) = 1 .. Len(s)
         /\ \A p \in 1 .. Len(s) : PacketsOf(s)[p] = s[p].packet
<1> DEFINE t == PacketsOf(s)
           R == {e.packet : e \in S}
<1>1. Len(s) \in Nat /\ DOMAIN s = 1 .. Len(s) /\ \A p \in 1 .. Len(s) : s[p] \in S
  BY LenProperties, ElementOfSeq
<1>2. t = [p \in 1 .. Len(s) |-> s[p].packet]
  BY <1>1 DEF PacketsOf
<1>3. t \in [1 .. Len(s) -> R]
  BY <1>1, <1>2
<1> HIDE DEF t, R
<1>4. t \in Seq(R)
  BY <1>1, <1>3, IsASeq
<1>5. Len(t) = Len(s) /\ DOMAIN t = 1 .. Len(s)
  BY <1>1, <1>2, <1>4, LenProperties
<1> QED
  BY <1>2, <1>4, <1>5 DEF t, R

\* The packets of two lists one after the other.
LEMMA PacketsOfConcat ==
  ASSUME NEW S, NEW s \in Seq(S), NEW t \in Seq(S)
  PROVE  PacketsOf(s \o t) = PacketsOf(s) \o PacketsOf(t)
<1> DEFINE R == {e.packet : e \in S}
           a == PacketsOf(s)
           b == PacketsOf(t)
           j == s \o t
           c == PacketsOf(j)
           d == a \o b
<1>1. /\ a \in Seq(R) /\ Len(a) = Len(s) /\ \A p \in 1 .. Len(s) : a[p] = s[p].packet
  BY PacketsOfList
<1>2. /\ b \in Seq(R) /\ Len(b) = Len(t) /\ \A p \in 1 .. Len(t) : b[p] = t[p].packet
  BY PacketsOfList
<1>3. /\ j \in Seq(S) /\ Len(j) = Len(s) + Len(t)
      /\ \A p \in 1 .. Len(s) + Len(t) : j[p] = IF p =< Len(s) THEN s[p] ELSE t[p - Len(s)]
  BY ConcatProperties
<1> HIDE DEF j
<1>4. /\ c \in Seq(R) /\ Len(c) = Len(j) /\ \A p \in 1 .. Len(j) : c[p] = j[p].packet
  BY <1>3, PacketsOfList
<1> HIDE DEF a, b, R
<1>5. /\ d \in Seq(R) /\ Len(d) = Len(a) + Len(b)
      /\ \A p \in 1 .. Len(a) + Len(b) : d[p] = IF p =< Len(a) THEN a[p] ELSE b[p - Len(a)]
  <2>1. a \in Seq(R) /\ b \in Seq(R)
    BY <1>1, <1>2
  <2> QED
    BY <2>1, ConcatProperties
<1> HIDE DEF c, d
<1>6. Len(s) \in Nat /\ Len(t) \in Nat
  BY LenProperties
<1>7. Len(c) = Len(d)
  BY <1>1, <1>2, <1>3, <1>4, <1>5
<1>8. ASSUME NEW p \in 1 .. Len(c) PROVE c[p] = d[p]
  <2>1. p \in 1 .. Len(s) + Len(t)
    BY <1>3, <1>4
  <2>2. CASE p =< Len(s)
    <3>1. p \in 1 .. Len(s)
      BY <1>6, <2>1, <2>2
    <3> QED
      BY <1>1, <1>2, <1>3, <1>4, <1>5, <2>1, <2>2, <3>1
  <2>3. CASE ~ (p =< Len(s))
    <3>1. p - Len(s) \in 1 .. Len(t)
      BY <1>6, <2>1, <2>3
    <3>2. c[p] = t[p - Len(s)].packet
      BY <1>3, <1>4, <2>1, <2>3
    <3>3. d[p] = b[p - Len(s)]
      BY <1>1, <1>2, <1>5, <2>1, <2>3
    <3> QED
      BY <1>2, <3>1, <3>2, <3>3
  <2> QED
    BY <2>2, <2>3
<1>9. c = d
  BY <1>4, <1>5, <1>7, <1>8, SeqEqual
<1> QED
  BY <1>9 DEF c, d, j, a, b

\* A place in two lists one after the other is a place in one of them.
LEMMA PlaceInConcat ==
  ASSUME NEW S, NEW s \in Seq(S), NEW t \in Seq(S)
  PROVE  /\ s \o t \in Seq(S)
         /\ DOMAIN (s \o t) = 1 .. Len(s) + Len(t)
         /\ \A p \in DOMAIN (s \o t) :
              \/ p \in DOMAIN s /\ (s \o t)[p] = s[p]
              \/ /\ p > Len(s) /\ p - Len(s) \in DOMAIN t
                 /\ (s \o t)[p] = t[p - Len(s)]
         /\ \A p \in DOMAIN s : p \in DOMAIN (s \o t) /\ (s \o t)[p] = s[p]
         /\ \A p \in DOMAIN t : Len(s) + p \in DOMAIN (s \o t) /\ (s \o t)[Len(s) + p] = t[p]
<1> DEFINE j == s \o t
           a == Len(s)
           b == Len(t)
<1>1. /\ a \in Nat /\ b \in Nat /\ DOMAIN s = 1 .. a /\ DOMAIN t = 1 .. b
  BY LenProperties
<1>2. /\ j \in Seq(S) /\ Len(j) = a + b
      /\ \A p \in 1 .. a + b : j[p] = IF p =< a THEN s[p] ELSE t[p - a]
  BY ConcatProperties
<1> HIDE DEF j
<1>3. DOMAIN j = 1 .. a + b
  BY <1>2, LenProperties
<1> HIDE DEF a, b
<1>4. ASSUME NEW p \in 1 .. a + b
      PROVE  \/ p \in 1 .. a /\ j[p] = s[p]
             \/ p > a /\ p - a \in 1 .. b /\ j[p] = t[p - a]
  <2>1. CASE p =< a
    <3>1. p \in 1 .. a
      BY <1>1, <2>1
    <3> QED
      BY <1>2, <2>1, <3>1
  <2>2. CASE ~ (p =< a)
    <3>1. p > a /\ p - a \in 1 .. b
      BY <1>1, <2>2
    <3> QED
      BY <1>2, <2>2, <3>1
  <2> QED
    BY <2>1, <2>2
<1>5. ASSUME NEW p \in 1 .. a PROVE p \in 1 .. a + b /\ j[p] = s[p]
  <2>1. p \in 1 .. a + b /\ p =< a
    BY <1>1
  <2> QED
    BY <1>2, <2>1
<1>6. ASSUME NEW p \in 1 .. b PROVE a + p \in 1 .. a + b /\ j[a + p] = t[p]
  <2>1. PICK r \in 1 .. a + b : r = a + p /\ ~ (r =< a) /\ r - a = p
    BY <1>1
  <2>2. j[r] = t[r - a]
    BY <1>2, <2>1
  <2> QED
    BY <2>1, <2>2
<1> QED
  BY <1>1, <1>2, <1>3, <1>4, <1>5, <1>6 DEF a, b, j

\* What the receiver makes of a command of the network.
LEMMA IncomingArrives ==
  ASSUME SenderInv, CommandsFit, Numbered, NEW c \in network
  PROVE  /\ c \in Made /\ c.packet \in DOMAIN submitted /\ c.number \in Nat
         /\ Incoming(c) \in Arrivals
         /\ Incoming(c).packet = c.packet /\ Incoming(c).type = c.type
         /\ Sequenced(Incoming(c)) <=> Sequenced(c)
<1>1. c \in Made
  BY DEF Made
<1>2. /\ c \in CommandType /\ Fits(c) /\ c.packet \in DOMAIN submitted
      /\ Incoming(c) \in Entry
      /\ Incoming(c).type = c.type /\ Incoming(c).count = c.count
      /\ Incoming(c).fragments = {} /\ Incoming(c).packet = c.packet
  BY <1>1, MadeIsTyped
<1>3. c.number \in Nat
  BY <1>2 DEF CommandType
<1> QED
  BY <1>1, <1>2, <1>3 DEF Arrivals, CameFrom, Sequenced

\* An entry is past when the command it was made for is.
LEMMA CameFromPast ==
  ASSUME SenderInv, CommandsFit, Numbered, NEW c \in network, NEW e \in Arrivals,
         CameFrom(e, c), NEW n, NEW u
  PROVE  Past(e, n, u) <=> Past(Incoming(c), n, u)
<1>1. /\ Incoming(c).type = c.type /\ Incoming(c).count = c.count
  BY MadeIsTyped DEF Made
<1>2. LastNumber(e) = LastNumber(Incoming(c))
  BY <1>1 DEF CameFrom, LastNumber
<1> QED
  BY <1>1, <1>2 DEF CameFrom, Past

\* A command that is behind and one that is not are of different packets, in the
\* order of submission when both are sequenced.
LEMMA BehindFirst ==
  ASSUME SenderInv, CommandsFit, Numbered, SentAsAsked, NEW n \in Nat, NEW u \in Nat,
         NEW g, NEW bits, NEW c \in network, NEW d \in network,
         Behind(c, n, u, g, bits), ~ Behind(d, n, u, g, bits)
  PROVE  /\ c.packet # d.packet
         /\ submitted[c.packet] \in SequencedKinds /\ submitted[d.packet] \in SequencedKinds
              => c.packet < d.packet
<1>1. /\ c \in Made /\ Incoming(c) \in Arrivals /\ Incoming(c).packet = c.packet
      /\ Sequenced(Incoming(c)) <=> Sequenced(c)
  BY IncomingArrives
<1>2. /\ d \in Made /\ Incoming(d) \in Arrivals /\ Incoming(d).packet = d.packet
      /\ Sequenced(Incoming(d)) <=> Sequenced(d)
  BY IncomingArrives
<1>3. CASE Sequenced(c) /\ Sequenced(d)
  <2>1. Past(Incoming(c), n, u) /\ ~ Past(Incoming(d), n, u)
    BY <1>3 DEF Behind
  <2>2. c.packet < d.packet
    BY <1>1, <1>2, <1>3, <2>1, PastFirst
  <2>3. c.packet \in Nat /\ d.packet \in Nat
    BY <1>1, <1>2, ArrivalNumbers
  <2> QED
    BY <2>2, <2>3
<1>4. CASE ~ Sequenced(c) \/ ~ Sequenced(d)
  <2>1. ~ (submitted[c.packet] \in SequencedKinds /\ submitted[d.packet] \in SequencedKinds)
    BY <1>1, <1>2, <1>4 DEF SentAsAsked
  <2>2. c.packet # d.packet
    BY <1>1, <1>2, <1>4 DEF SentAsAsked
  <2> QED
    BY <2>1, <2>2
<1> QED
  BY <1>3, <1>4

\* The commands o are handed over behind the packets h.
LEMMA GivenMore ==
  ASSUME SenderInv, CommandsFit, Numbered, SentAsAsked,
         NEW n \in Nat, NEW u \in Nat, NEW m \in Nat, NEW v, NEW g, NEW bits,
         NEW f, NEW more, NEW h, Given(h, n, u, g, bits),
         \A c \in network : Behind(c, n, u, g, bits) => Behind(c, m, v, f, more),
         NEW o, Whole(o), InOrder(o),
         \A p \in DOMAIN o : \E c \in network :
           /\ c.packet = o[p].packet
           /\ ~ Behind(c, n, u, g, bits) /\ Behind(c, m, v, f, more),
         \A c \in network :
           /\ c.type \in ReliableTypes
           /\ n < LastNumber(Incoming(c)) /\ LastNumber(Incoming(c)) =< m
           => \E p \in DOMAIN o : o[p].packet = c.packet
  PROVE  Given(h \o PacketsOf(o), m, v, f, more)
<1> DEFINE D == DOMAIN submitted
           q == PacketsOf(o)
           j == h \o q
<1>1. o \in Seq(Arrivals) /\ Len(o) \in Nat /\ DOMAIN o = 1 .. Len(o)
  <2>1. o \in Seq(Arrivals)
    BY DEF Whole
  <2> QED
    BY <2>1, LenProperties
<1>2. Len(q) = Len(o) /\ DOMAIN q = DOMAIN o /\ \A p \in DOMAIN o : q[p] = o[p].packet
  BY <1>1, PacketsOfList
<1>3. h \in Seq(D) /\ DOMAIN h = 1 .. Len(h) /\ Len(h) \in Nat
  <2>1. h \in Seq(D)
    BY DEF Given
  <2> QED
    BY <2>1, LenProperties
<1>4. q \in Seq(D)
  <2>1. ASSUME NEW p \in 1 .. Len(o) PROVE q[p] \in D
    BY <1>1, <1>2, IncomingArrives
  <2>2. q \in [1 .. Len(o) -> D]
    <3>1. q = [p \in DOMAIN o |-> o[p].packet]
      BY DEF PacketsOf
    <3> QED
      BY <1>1, <2>1, <3>1
  <2> HIDE DEF q, D
  <2> QED
    BY <1>1, <2>2, IsASeq
<1> HIDE DEF q, D
<1>5. /\ j \in Seq(D)
      /\ \A p \in DOMAIN j :
           \/ p \in DOMAIN h /\ j[p] = h[p]
           \/ p > Len(h) /\ p - Len(h) \in DOMAIN q /\ j[p] = q[p - Len(h)]
      /\ \A p \in DOMAIN h : p \in DOMAIN j /\ j[p] = h[p]
      /\ \A p \in DOMAIN q : Len(h) + p \in DOMAIN j /\ j[Len(h) + p] = q[p]
      /\ DOMAIN j = 1 .. Len(h) + Len(q)
  BY <1>3, <1>4, PlaceInConcat, SMTT(20)
<1> HIDE DEF j
<1>6. ASSUME NEW p \in DOMAIN h
      PROVE  \E c \in network : c.packet = h[p] /\ Behind(c, n, u, g, bits)
  BY DEF Given
<1>7. ASSUME NEW p \in DOMAIN q
      PROVE  \E c \in network : /\ c.packet = q[p]
                                /\ ~ Behind(c, n, u, g, bits) /\ Behind(c, m, v, f, more)
  BY <1>2
<1>8. ASSUME NEW p \in DOMAIN j
      PROVE  \E c \in network : c.packet = j[p] /\ Behind(c, m, v, f, more)
  <2>1. CASE p \in DOMAIN h /\ j[p] = h[p]
    BY <1>6, <2>1
  <2>2. CASE p - Len(h) \in DOMAIN q /\ j[p] = q[p - Len(h)]
    BY <1>7, <2>2
  <2> QED
    BY <1>5, <2>1, <2>2
<1>9. ASSUME NEW p \in DOMAIN j, NEW r \in DOMAIN j, p < r
      PROVE  /\ j[p] # j[r]
             /\ submitted[j[p]] \in SequencedKinds /\ submitted[j[r]] \in SequencedKinds
                  => j[p] < j[r]
  <2>0. p \in Int /\ r \in Int
    BY <1>5
  <2>1. CASE p \in DOMAIN h /\ j[p] = h[p]
    <3>1. CASE r \in DOMAIN h /\ j[r] = h[r]
      <4>1. /\ h[p] # h[r]
            /\ submitted[h[p]] \in SequencedKinds /\ submitted[h[r]] \in SequencedKinds
                 => h[p] < h[r]
        BY <1>9, <2>1, <3>1 DEF Given
      <4> QED
        BY <2>1, <3>1, <4>1
    <3>2. CASE r - Len(h) \in DOMAIN q /\ j[r] = q[r - Len(h)]
      <4>1. PICK c \in network : c.packet = j[p] /\ Behind(c, n, u, g, bits)
        BY <1>6, <2>1
      <4>2. PICK d \in network : d.packet = j[r] /\ ~ Behind(d, n, u, g, bits)
        BY <1>7, <3>2
      <4>3. /\ c.packet # d.packet
            /\ submitted[c.packet] \in SequencedKinds /\ submitted[d.packet] \in SequencedKinds
                 => c.packet < d.packet
        BY <4>1, <4>2, BehindFirst
      <4> QED
        BY <4>1, <4>2, <4>3
    <3> QED
      BY <1>5, <3>1, <3>2
  <2>2. CASE p > Len(h) /\ p - Len(h) \in DOMAIN q /\ j[p] = q[p - Len(h)]
    <3>1. r > Len(h) /\ ~ (r \in DOMAIN h)
      BY <1>3, <1>9, <2>0, <2>2
    <3>2. r - Len(h) \in DOMAIN q /\ j[r] = q[r - Len(h)]
      BY <1>5, <3>1
    <3>3. PICK a \in DOMAIN q : a = p - Len(h)
      BY <2>2
    <3>4. PICK b \in DOMAIN q : b = r - Len(h)
      BY <3>2
    <3>5. a < b
      BY <1>3, <1>9, <2>0, <3>3, <3>4
    <3>6. o[a].packet < o[b].packet
      BY <1>2, <3>5 DEF InOrder
    <3>7. j[p] < j[r] /\ j[p] \in D /\ j[r] \in D
      BY <1>2, <1>4, <2>2, <3>2, <3>3, <3>4, <3>6, ElementOfSeq, LenProperties
    <3>8. D \subseteq Nat
      <4>1. submitted \in Seq(Kinds)
        BY DEF SenderInv, SenderType
      <4> QED
        BY <4>1, LenProperties DEF D
    <3>9. PICK x \in Nat : x = j[p]
      BY <3>7, <3>8
    <3>10. PICK y \in Nat : y = j[r]
      BY <3>7, <3>8
    <3>11. x < y /\ x # y
      BY <3>7, <3>9, <3>10
    <3> QED
      BY <3>9, <3>10, <3>11
  <2>3. \/ p \in DOMAIN h /\ j[p] = h[p]
        \/ p > Len(h) /\ p - Len(h) \in DOMAIN q /\ j[p] = q[p - Len(h)]
    BY <1>5
  <2> QED
    BY <2>1, <2>2, <2>3, Zenon
<1>10. ASSUME NEW c \in network, c.type \in ReliableTypes, LastNumber(Incoming(c)) =< m
       PROVE  \E p \in DOMAIN j : j[p] = c.packet
  <2>1. LastNumber(Incoming(c)) \in Nat
    BY IncomingArrives, ArrivalNumbers
  <2>2. CASE LastNumber(Incoming(c)) =< n
    <3>1. PICK p \in DOMAIN h : h[p] = c.packet
      BY <1>10, <2>2 DEF Given
    <3> QED
      BY <1>5, <3>1
  <2>3. CASE n < LastNumber(Incoming(c))
    <3>1. PICK p \in DOMAIN o : o[p].packet = c.packet
      BY <1>10, <2>3
    <3> QED
      BY <1>2, <1>5, <3>1
  <2> QED
    BY <2>1, <2>2, <2>3
<1> QED
  BY <1>5, <1>8, <1>9, <1>10 DEF Given, D, j, q

\* The application takes the first packet of dispatchedCommands: what was handed
\* over stays the same.
LEMMA ReceiveKeeps ==
  ASSUME ReceiverInv, Receive
  PROVE  /\ HandedOver' = HandedOver
         /\ delivered' = Append(delivered, HandedOver[Len(delivered) + 1])
         /\ Len(delivered) + 1 \in DOMAIN HandedOver
         /\ \A p \in DOMAIN delivered : p \in DOMAIN HandedOver /\ HandedOver[p] = delivered[p]
<1> DEFINE d == dispatched
           first == Head(d).packet
           rest == Tail(d)
           a == delivered
           one == <<first>>
           b == PacketsOf(rest)
<1>1. d \in Seq(Entry) /\ a \in Seq(Packets) /\ d # <<>>
  BY DEF ReceiverInv, ReceiverType, Receive
<1>2. delivered' = Append(a, first) /\ dispatched' = rest
  BY DEF Receive
<1>3. Len(d) \in Nat /\ Len(a) \in Nat /\ DOMAIN a = 1 .. Len(a)
  BY <1>1, LenProperties
<1>4. /\ Head(d) \in Entry /\ rest \in Seq(Entry) /\ Len(rest) = Len(d) - 1
      /\ \A i \in 1 .. Len(rest) : rest[i] = d[i + 1]
  <2> HIDE DEF d
  <2> QED
    BY <1>1, HeadTailProperties
<1>5. Len(rest) \in Nat /\ DOMAIN d = 1 .. Len(d) /\ Len(d) >= 1 /\ Head(d) = d[1]
  <2>1. Len(rest) \in Nat /\ DOMAIN d = 1 .. Len(d)
    BY <1>1, <1>4, LenProperties
  <2>2. Len(d) >= 1
    BY <1>3, <1>4, <2>1
  <2>3. Head(d) = d[1]
    BY <1>1, <2>2
  <2> QED
    BY <2>1, <2>2, <2>3
<1>6. first \in Packets
  BY <1>4 DEF Entry
<1> DEFINE P == {e.packet : e \in Entry}
<1>7. P \subseteq Packets
  BY DEF Entry
<1> HIDE DEF d, rest, a, first
<1>8. /\ b \in Seq(P) /\ Len(b) = Len(rest)
      /\ \A p \in 1 .. Len(rest) : b[p] = rest[p].packet
  BY <1>4, PacketsOfList
<1>9. /\ PacketsOf(d) \in Seq(P) /\ Len(PacketsOf(d)) = Len(d)
      /\ \A p \in 1 .. Len(d) : PacketsOf(d)[p] = d[p].packet
  BY <1>1, PacketsOfList
<1> HIDE DEF P
<1>10. b \in Seq(Packets) /\ PacketsOf(d) \in Seq(Packets)
  BY <1>7, <1>8, <1>9, SeqOfMore
<1> DEFINE whole == PacketsOf(d)
<1>11. one \in Seq(Packets) /\ Len(one) = 1 /\ one[1] = first
  BY <1>6
<1> HIDE DEF one, b
<1>12. /\ one \o b \in Seq(Packets) /\ Len(one \o b) = 1 + Len(b)
       /\ \A p \in 1 .. 1 + Len(b) : (one \o b)[p] = IF p =< 1 THEN one[p] ELSE b[p - 1]
  <2>1. one \in Seq(Packets) /\ b \in Seq(Packets)
    BY <1>10, <1>11
  <2>2. /\ one \o b \in Seq(Packets) /\ Len(one \o b) = Len(one) + Len(b)
        /\ \A p \in 1 .. Len(one) + Len(b) :
             (one \o b)[p] = IF p =< Len(one) THEN one[p] ELSE b[p - Len(one)]
    BY <2>1, ConcatProperties
  <2> QED
    BY <1>11, <2>2
<1>13. whole = one \o b
  <2> DEFINE t == one \o b
  <2> HIDE DEF whole, t
  <2>1. whole \in Seq(Packets) /\ t \in Seq(Packets) /\ Len(whole) = Len(t)
    BY <1>3, <1>4, <1>5, <1>8, <1>9, <1>10, <1>12 DEF whole, t
  <2>2. ASSUME NEW p \in 1 .. Len(whole) PROVE whole[p] = t[p]
    <3>1. p \in 1 .. Len(d) /\ whole[p] = d[p].packet
      BY <1>9, <2>2 DEF whole
    <3>2. t[p] = IF p =< 1 THEN one[p] ELSE b[p - 1]
      BY <1>12, <2>1, <2>2 DEF t
    <3>3. CASE p = 1
      BY <1>5, <1>11, <3>1, <3>2, <3>3 DEF first
    <3>4. CASE p # 1
      <4>1. PICK r \in 1 .. Len(rest) : p = r + 1 /\ p - 1 = r /\ ~ (p =< 1)
        BY <1>3, <1>4, <1>5, <3>1, <3>4
      <4>2. t[p] = b[r]
        BY <3>2, <4>1
      <4>3. rest[r] = d[r + 1]
        BY <1>4
      <4> QED
        BY <1>8, <3>1, <4>1, <4>2, <4>3
    <3> QED
      BY <3>3, <3>4
  <2>3. whole = t
    BY <2>1, <2>2, SeqEqual
  <2> QED
    BY <2>3 DEF t
<1>14. Append(a, first) = a \o one
  BY <1>1, <1>6, AppendIsConcat DEF a, one
<1>15. (a \o one) \o b = a \o (one \o b)
  BY <1>1, <1>10, <1>11, ConcatAssociative DEF a
<1>16. HandedOver' = Append(a, first) \o b
  <2>1. PICK r : r = rest
    OBVIOUS
  <2>2. dispatched' = r
    BY <1>2, <2>1
  <2>3. HandedOver' = delivered' \o PacketsOf(r)
    BY <2>2 DEF HandedOver, PacketsOf
  <2> QED
    BY <1>2, <2>1, <2>3 DEF b
<1>17. HandedOver = a \o whole
  BY DEF HandedOver, a, whole, d
<1>18. /\ DOMAIN (a \o whole) = 1 .. Len(a) + Len(whole)
       /\ \A p \in DOMAIN a : p \in DOMAIN (a \o whole) /\ (a \o whole)[p] = a[p]
       /\ \A p \in DOMAIN whole : Len(a) + p \in DOMAIN (a \o whole)
                                  /\ (a \o whole)[Len(a) + p] = whole[p]
  BY <1>1, <1>10, PlaceInConcat DEF a
<1>19. 1 \in DOMAIN whole /\ whole[1] = first
  <2>1. 1 \in 1 .. Len(d) /\ DOMAIN whole = 1 .. Len(d)
    BY <1>3, <1>5, <1>9, <1>10, LenProperties
  <2> QED
    BY <1>5, <1>9, <2>1 DEF first
<1>20. Len(a) + 1 \in DOMAIN (a \o whole) /\ (a \o whole)[Len(a) + 1] = first
  BY <1>18, <1>19
<1>21. HandedOver' = HandedOver
  BY <1>13, <1>14, <1>15, <1>16, <1>17
<1> HIDE DEF whole
<1> QED
  BY <1>2, <1>17, <1>18, <1>20, <1>21 DEF a

\* The promise is kept when the numbers, the window and what was handed over are
\* those of Given, and the sender did nothing.
LEMMA PromiseWith ==
  ASSUME SentAsAsked', incomingReliableSequenceNumber' =< outgoingReliableSequenceNumber',
         incomingUnsequencedGroup' % UNSEQUENCED_WINDOW_SIZE = 0, UNCHANGED <<submitted, network>>,
         NEW h, NEW n, NEW u, NEW g, NEW bits, Given(h, n, u, g, bits),
         HandedOver' = h, incomingReliableSequenceNumber' = n,
         incomingUnreliableSequenceNumber' = u, incomingUnsequencedGroup' = g,
         unsequencedWindow' = bits
  PROVE  PromiseInv'
<1>1. Given(h, n, u, g, bits)'
  BY DEF Given, Behind, Seen, Past, LastNumber, Incoming, Sequenced
<1> QED
  BY <1>1 DEF PromiseInv, Given, Behind, Seen, Past, LastNumber, Incoming, Sequenced

LEMMA HandedOverMore ==
  ASSUME ReceiverInv, NEW o \in Seq(Entry), dispatched' = dispatched \o o, delivered' = delivered
  PROVE  HandedOver' = HandedOver \o PacketsOf(o)
<1> DEFINE P == {e.packet : e \in Entry}
           d == dispatched
           a == delivered
           b == PacketsOf(d)
           c == PacketsOf(o)
<1>1. d \in Seq(Entry) /\ a \in Seq(Packets)
  BY DEF ReceiverInv, ReceiverType
<1>2. P \subseteq Packets
  BY DEF Entry
<1>3. b \in Seq(P) /\ c \in Seq(P)
  BY <1>1, PacketsOfList
<1> HIDE DEF P
<1>4. b \in Seq(Packets) /\ c \in Seq(Packets)
  BY <1>2, <1>3, SeqOfMore
<1>5. PacketsOf(d \o o) = b \o c
  BY <1>1, PacketsOfConcat
<1>6. PICK r : r = dispatched \o o
  OBVIOUS
<1>7. HandedOver' = delivered \o PacketsOf(r)
  <2>1. dispatched' = r /\ delivered' = delivered
    BY <1>6
  <2> QED
    BY <2>1 DEF HandedOver, PacketsOf
<1> HIDE DEF b, c, d, a
<1>8. (a \o b) \o c = a \o (b \o c)
  BY <1>1, <1>4, ConcatAssociative, SMTT(20)
<1> QED
  BY <1>5, <1>6, <1>7, <1>8 DEF HandedOver, a, b, c, d

LEMMA PromiseInit ==
  ASSUME Init
  PROVE  PromiseInv
<1>1. /\ network = {} /\ outgoingUnreliable = <<>> /\ submitted = <<>>
      /\ delivered = <<>> /\ dispatched = <<>>
  BY DEF Init
<1>2. DOMAIN <<>> = {} /\ \A S : <<>> \in Seq(S)
  BY EmptySeq
<1>3. Made = {}
  BY <1>1, <1>2 DEF Made, ToSet
<1>4. SentAsAsked
  BY <1>1, <1>2, <1>3 DEF SentAsAsked
<1>5. incomingReliableSequenceNumber =< outgoingReliableSequenceNumber
  BY DeliveryAssumption DEF Init
<1>6. incomingUnsequencedGroup % UNSEQUENCED_WINDOW_SIZE = 0
  <2> DEFINE K == UNSEQUENCED_WINDOW_SIZE
             b == UnsequencedBefore
             a == b \div K
             zero == 0
  <2>1. K \in Nat \ {0} /\ b \in Nat /\ incomingUnsequencedGroup = b - (b % K)
    BY DeliveryAssumption DEF Init
  <2>2. a \in Nat /\ b % K \in 0 .. K - 1 /\ b = K * a + (b % K)
    BY <2>1, Quotient
  <2> HIDE DEF a, b
  <2>3. incomingUnsequencedGroup = K * a + zero /\ zero \in 0 .. K - 1
    BY <2>1, <2>2
  <2> HIDE DEF zero, K
  <2>4. (K * a + zero) % K = zero
    BY <2>1, <2>2, <2>3, QuotientUnique
  <2> QED
    BY <2>3, <2>4 DEF zero, K
<1>7. HandedOver = <<>>
  <2> DEFINE none == <<>>
  <2>1. PacketsOf(none) = none
    BY <1>2 DEF PacketsOf
  <2>2. none \in Seq({})
    BY <1>2
  <2> HIDE DEF none
  <2>3. none \o none = none
    <3>1. none \o <<>> = none
      BY <2>2, ConcatEmptySeq
    <3> QED
      BY <3>1 DEF none
  <2> QED
    BY <1>1, <2>1, <2>3 DEF HandedOver, none
<1> QED
  BY <1>1, <1>2, <1>4, <1>5, <1>6, <1>7 DEF PromiseInv, Given

\* What the network gets: commands of new packets, and the reliable ones among
\* them have numbers that were not used.
LEMMA NetworkGrows ==
  ASSUME SenderInv, [Next]_vars
  PROVE  /\ network \subseteq network'
         /\ DOMAIN submitted \subseteq DOMAIN submitted'
         /\ \A j \in DOMAIN submitted : submitted'[j] = submitted[j]
         /\ outgoingReliableSequenceNumber =< outgoingReliableSequenceNumber'
         /\ \A c \in network' : c \notin network /\ c.type \in ReliableTypes =>
              LastNumber(Incoming(c)) \in Nat /\ LastNumber(Incoming(c)) > outgoingReliableSequenceNumber
<1> DEFINE q == outgoingUnreliable
           out == outgoingReliableSequenceNumber
<1>1. /\ q \in Seq(CommandType) /\ DOMAIN q = 1 .. Len(q) /\ out \in Nat /\ Len(q) \in Nat
      /\ submitted \in Seq(Kinds)
  BY SenderFacts DEF SenderInv, SenderType
<1>2. CASE UNCHANGED <<submitted, numberVars, network>>
  BY <1>1, <1>2 DEF numberVars
<1>3. CASE SendUnreliable
  <2>1. /\ network' = network \cup {Head(q)} /\ q # <<>> /\ UNCHANGED <<submitted, numberVars>>
    BY <1>3 DEF SendUnreliable
  <2>2. Head(q) = q[1] /\ 1 \in DOMAIN q
    BY <1>1, <2>1, EmptySeq
  <2>3. Head(q).type \notin ReliableTypes
    BY <2>2 DEF SenderInv, QueueInOrder
  <2> QED
    BY <1>1, <2>1, <2>3 DEF numberVars
<1>4. ASSUME NEW k \in Kinds, Send(k)
      PROVE  /\ network \subseteq network'
             /\ DOMAIN submitted \subseteq DOMAIN submitted'
             /\ \A j \in DOMAIN submitted : submitted'[j] = submitted[j]
             /\ out =< out'
             /\ \A c \in network' : c \notin network /\ c.type \in ReliableTypes =>
                  LastNumber(Incoming(c)) \in Nat /\ LastNumber(Incoming(c)) > out
  <2> DEFINE i == Len(submitted) + 1
             cs == CommandsFor(i, k)
             t == TypeFor(k)
  <2>1. i \in Packets /\ submitted' = Append(submitted, k)
    BY <1>4 DEF Send
  <2>2. /\ cs \in Seq(CommandType) /\ Len(cs) = k.fragments
        /\ \A p \in DOMAIN cs : cs[p].packet = i /\ cs[p].type = t
        /\ k.fragments \in Nat /\ k.fragments >= 1
    BY <2>1, CommandsForPacket, KindsHaveFragments DEF SenderInv
  <2>3. PICK e : /\ \A p \in DOMAIN cs : Incoming(cs[p]) = e
                 /\ e.packet = i /\ e.type = t
                 /\ e.count = IF t \in FragmentTypes THEN k.fragments ELSE 0
                 /\ t \in ReliableTypes => e.reliable = out + 1
    BY <2>1, CommandsForNumbers DEF SenderInv
  <2>4. \/ t \in ReliableTypes /\ SetupReliable(cs)
        \/ t \notin ReliableTypes /\ network' = network /\ out' = out
    <3> HIDE DEF cs, t
    <3>1. t \in ReliableTypes => SetupReliable(cs)
      <4>1. t \in ReliableTypes => t \notin UnreliableTypes
        BY DEF ReliableTypes, UnreliableTypes
      <4> QED
        BY <1>4, <4>1 DEF Send, cs, t
    <3>2. t \notin ReliableTypes => SetupUnreliable(cs) \/ SetupUnsequenced(cs)
      BY <1>4 DEF Send, cs, t
    <3> QED
      BY <3>1, <3>2 DEF SetupUnreliable, SetupUnsequenced
  <2> HIDE DEF cs, t
  <2>5. Len(cs) \in Nat
    BY <2>2
  <2>6. t \in ReliableTypes => LastNumber(e) \in Nat /\ LastNumber(e) > out
    <3>1. CASE t = "SEND_FRAGMENT"
      <4>1. e.count = k.fragments
        BY <2>3, <3>1 DEF FragmentTypes
      <4> QED
        BY <1>1, <2>2, <2>3, <3>1, <4>1 DEF LastNumber
    <3>2. CASE t # "SEND_FRAGMENT"
      BY <1>1, <2>3, <3>2 DEF LastNumber
    <3> QED
      BY <3>1, <3>2
  <2>7. /\ network \subseteq network' /\ out =< out'
        /\ \A c \in network' : c \notin network /\ c.type \in ReliableTypes =>
             LastNumber(Incoming(c)) \in Nat /\ LastNumber(Incoming(c)) > out
    <3>1. CASE t \notin ReliableTypes /\ network' = network /\ out' = out
      BY <1>1, <3>1
    <3>2. CASE t \in ReliableTypes /\ SetupReliable(cs)
      <4>1. network' = network \cup ToSet(cs) /\ out' = out + Len(cs)
        BY <3>2 DEF SetupReliable
      <4>2. \A c \in ToSet(cs) : Incoming(c) = e
        BY <2>3 DEF ToSet
      <4>3. LastNumber(e) \in Nat /\ LastNumber(e) > out
        BY <2>6, <3>2
      <4>4. out =< out'
        BY <1>1, <2>5, <4>1
      <4> QED
        BY <4>1, <4>2, <4>3, <4>4
    <3> QED
      BY <2>4, <3>1, <3>2
  <2>8. /\ DOMAIN submitted \subseteq DOMAIN submitted'
        /\ \A j \in DOMAIN submitted : submitted'[j] = submitted[j]
    <3>1. /\ Append(submitted, k) \in Seq(Kinds) /\ Len(Append(submitted, k)) = Len(submitted) + 1
          /\ \A j \in 1 .. Len(submitted) : Append(submitted, k)[j] = submitted[j]
      BY <1>1, AppendProperties
    <3>2. /\ DOMAIN submitted = 1 .. Len(submitted) /\ Len(submitted) \in Nat
          /\ DOMAIN Append(submitted, k) = 1 .. Len(submitted) + 1
      BY <1>1, <3>1, LenProperties
    <3> QED
      BY <2>1, <3>1, <3>2
  <2> QED
    BY <2>7, <2>8
<1>5. ASSUME NEW c \in network, Handle(c)
      PROVE  UNCHANGED <<submitted, numberVars, network>>
  BY <1>5 DEF Handle, HandleSendReliable, HandleSendUnreliable, HandleSendFragment,
              HandleSendUnreliableFragment, HandleSendUnsequenced, senderVars
<1>6. Throttle \/ DatagramSent \/ Receive \/ UNCHANGED vars =>
        UNCHANGED <<submitted, numberVars, network>>
  BY DEF Throttle, DatagramSent, Receive, vars, senderVars
<1> QED
  BY <1>2, <1>3, <1>4, <1>5, <1>6 DEF Next

\* What was handed over is so still when the network gets more.
LEMMA GivenStays ==
  ASSUME SenderInv, [Next]_vars, NEW h, NEW n \in Nat, NEW u, NEW g, NEW bits,
         Given(h, n, u, g, bits), n =< outgoingReliableSequenceNumber
  PROVE  Given(h, n, u, g, bits)'
<1>1. /\ network \subseteq network'
      /\ DOMAIN submitted \subseteq DOMAIN submitted'
      /\ \A j \in DOMAIN submitted : submitted'[j] = submitted[j]
      /\ outgoingReliableSequenceNumber \in Nat
  BY NetworkGrows DEF SenderInv, SenderType
<1>2. ASSUME NEW c \in network', c.type \in ReliableTypes, LastNumber(Incoming(c)) =< n
      PROVE  c \in network
  <2>1. SUFFICES ASSUME c \notin network PROVE FALSE
    OBVIOUS
  <2>2. /\ LastNumber(Incoming(c)) > outgoingReliableSequenceNumber
        /\ LastNumber(Incoming(c)) \in Nat
    BY <1>2, <2>1, NetworkGrows
  <2> QED
    BY <1>1, <1>2, <2>2
<1>3. PICK D : D = DOMAIN submitted'
  OBVIOUS
<1>4. /\ h \in Seq(DOMAIN submitted) /\ DOMAIN h = 1 .. Len(h)
      /\ \A p \in DOMAIN h : h[p] \in DOMAIN submitted
  <2>1. h \in Seq(DOMAIN submitted)
    BY DEF Given
  <2> QED
    BY <2>1, LenProperties, ElementOfSeq
<1>5. h \in Seq(D)
  BY <1>1, <1>3, <1>4, SeqOfMore
<1>6. ASSUME NEW p \in DOMAIN h
      PROVE  \E c \in network' : c.packet = h[p] /\ Behind(c, n, u, g, bits)
  BY <1>1 DEF Given
<1>7. ASSUME NEW p \in DOMAIN h, NEW r \in DOMAIN h, p < r
      PROVE  /\ h[p] # h[r]
             /\ submitted'[h[p]] \in SequencedKinds /\ submitted'[h[r]] \in SequencedKinds
                  => h[p] < h[r]
  <2>1. submitted'[h[p]] = submitted[h[p]] /\ submitted'[h[r]] = submitted[h[r]]
    BY <1>1, <1>4
  <2> QED
    BY <1>7, <2>1 DEF Given
<1>8. ASSUME NEW c \in network', c.type \in ReliableTypes, LastNumber(Incoming(c)) =< n
      PROVE  \E p \in DOMAIN h : h[p] = c.packet
  BY <1>2, <1>8 DEF Given
<1> QED
  BY <1>3, <1>5, <1>6, <1>7, <1>8
  DEF Given, Behind, Seen, Past, LastNumber, Incoming, Sequenced, SequencedKinds

\* The receiver takes a command that is not unsequenced.
LEMMA PromiseHandle ==
  ASSUME SenderInv, ReceiverInv, OrderInv, PromiseInv, SentAsAsked',
         UNCHANGED senderVars, UNCHANGED groupVars, delivered' = delivered,
         NEW ch, Outcome(ch)
  PROVE  PromiseInv'
<1> DEFINE n == incomingReliableSequenceNumber
           u == incomingUnreliableSequenceNumber
           g == incomingUnsequencedGroup
           bits == unsequencedWindow
           m == ch.reliableNumber
           v == ch.unreliableNumber
           h == HandedOver
<1>1. /\ CommandsFit /\ Numbered /\ SentAsAsked /\ n \in Nat /\ u \in Nat
      /\ n =< outgoingReliableSequenceNumber /\ g % UNSEQUENCED_WINDOW_SIZE = 0
      /\ outgoingReliableSequenceNumber \in Nat
  BY ChannelFields DEF ReceiverInv, OrderInv, PromiseInv, SenderInv, SenderType
<1>2. Given(h, n, u, g, bits)
  BY DEF PromiseInv
<1>3. /\ ch \in ChannelType /\ HandsOver(Channel, ch) /\ Becomes(ch)
      /\ Channel.reliableNumber = n /\ Channel.unreliableNumber = u /\ Channel.out = <<>>
  BY ChannelFields DEF Outcome, Channel
<1>4. m \in Nat /\ v \in Nat
  BY <1>3, DeliveryAssumption DEF ChannelType
<1>5. Later(n, u, m, v)
  BY <1>3 DEF HandsOver
<1>6. PICK o : ch.out = <<>> \o o /\ Handed(o, n, u, m, v)
  BY <1>3 DEF HandsOver
<1>7. /\ Whole(o) /\ InOrder(o) /\ o \in Seq(Arrivals)
      /\ \A p \in DOMAIN o : Sequenced(o[p]) /\ Past(o[p], m, v) /\ ~ Past(o[p], n, u)
      /\ \A c \in network :
           /\ c.type \in ReliableTypes
           /\ n < LastNumber(Incoming(c)) /\ LastNumber(Incoming(c)) =< m
           => \E p \in DOMAIN o : o[p].packet = c.packet
      /\ n # m => m =< outgoingReliableSequenceNumber
  BY <1>6 DEF Handed, Whole
<1>8. ch.out = o /\ o \in Seq(Entry)
  <2>1. <<>> \o o = o
    BY <1>7, ConcatEmptySeq
  <2>2. Arrivals \subseteq Entry
    BY DEF Arrivals
  <2> QED
    BY <1>6, <1>7, <2>1, <2>2, SeqOfMore
<1>9. /\ n' = m /\ u' = v /\ dispatched' = dispatched \o o /\ g' = g /\ bits' = bits
      /\ UNCHANGED <<submitted, network, outgoingReliableSequenceNumber>>
  BY <1>3, <1>8 DEF Becomes, groupVars, senderVars, numberVars
<1>10. HandedOver' = h \o PacketsOf(o)
  BY <1>8, <1>9, HandedOverMore
<1>11. m =< outgoingReliableSequenceNumber
  BY <1>1, <1>7
<1> HIDE DEF n, u, g, bits, m, v, h
<1>12. ASSUME NEW c \in network, Behind(c, n, u, g, bits)
       PROVE  Behind(c, m, v, g, bits)
  <2>1. Incoming(c) \in Arrivals
    BY <1>1, IncomingArrives
  <2>2. CASE Sequenced(c)
    <3>1. Past(Incoming(c), n, u)
      BY <1>12, <2>2 DEF Behind
    <3>2. Past(Incoming(c), m, v)
      BY <1>1, <1>4, <1>5, <2>1, <3>1, PastStays
    <3> QED
      BY <2>2, <3>2 DEF Behind
  <2>3. CASE ~ Sequenced(c)
    BY <1>12, <2>3 DEF Behind
  <2> QED
    BY <2>2, <2>3
<1>13. ASSUME NEW p \in DOMAIN o
       PROVE  \E c \in network : /\ c.packet = o[p].packet
                                 /\ ~ Behind(c, n, u, g, bits) /\ Behind(c, m, v, g, bits)
  <2>1. PICK e \in Arrivals : e = o[p]
    BY <1>7, ElementOfSeq, LenProperties
  <2>2. PICK c \in network : CameFrom(e, c)
    BY DEF Arrivals
  <2>3. Sequenced(e) /\ Past(e, m, v) /\ ~ Past(e, n, u)
    BY <1>7, <2>1
  <2>4. Past(Incoming(c), m, v) /\ ~ Past(Incoming(c), n, u)
    BY <1>1, <2>2, <2>3, CameFromPast
  <2>5. Sequenced(c) /\ c.packet = e.packet
    BY <2>2, <2>3 DEF CameFrom, Sequenced
  <2> QED
    BY <2>1, <2>4, <2>5 DEF Behind
<1>14. Given(h \o PacketsOf(o), m, v, g, bits)
  BY <1>1, <1>2, <1>4, <1>7, <1>12, <1>13, GivenMore
<1> USE DEF n, u, g, bits
<1> QED
  BY <1>1, <1>9, <1>10, <1>11, <1>14, PromiseWith

\* The receiver takes an unsequenced command, or only moves the window for it.
LEMMA PromiseUnsequenced ==
  ASSUME SenderInv, ReceiverInv, OrderInv, PromiseInv, SentAsAsked',
         UNCHANGED senderVars, delivered' = delivered,
         NEW c \in network, Fresh(c), HandleSendUnsequenced(c),
         \/ HasRoom /\ \E ch : OutcomeUnsequenced(ch, Incoming(c))
         \/ UNCHANGED channelVars
  PROVE  PromiseInv'
<1> DEFINE n == incomingReliableSequenceNumber
           u == incomingUnreliableSequenceNumber
           g == incomingUnsequencedGroup
           bits == unsequencedWindow
           h == HandedOver
<1>1. /\ CommandsFit /\ Numbered /\ SentAsAsked /\ n \in Nat /\ u \in Nat
      /\ n =< outgoingReliableSequenceNumber /\ g % UNSEQUENCED_WINDOW_SIZE = 0
  BY ChannelFields DEF ReceiverInv, OrderInv, PromiseInv
<1>2. Given(h, n, u, g, bits)
  BY DEF PromiseInv
<1>3. /\ UNCHANGED <<submitted, network, outgoingReliableSequenceNumber>>
      /\ c.type = "SEND_UNSEQUENCED" /\ ~ Sequenced(c) /\ c.type \notin ReliableTypes
  BY DEF senderVars, numberVars, HandleSendUnsequenced, Sequenced, ReliableTypes
<1>4. /\ c \in Made /\ c.number \in Nat /\ Incoming(c).packet = c.packet
  BY <1>1, IncomingArrives
<1>5. /\ g' % UNSEQUENCED_WINDOW_SIZE = 0
      /\ \A i \in Nat : Seen(i, g, bits) => Seen(i, g', bits')
      /\ ~ Seen(c.number, g, bits)
      /\ HasRoom => Seen(c.number, g', bits')
  BY <1>1, <1>3, <1>4, GroupHandled
<1>6. PICK f, more : f = g' /\ more = bits'
  OBVIOUS
<1>7. /\ \A i \in Nat : Seen(i, g, bits) => Seen(i, f, more)
      /\ HasRoom => Seen(c.number, f, more)
  BY <1>5, <1>6 DEF Seen
<1>8. ASSUME NEW d \in network, Behind(d, n, u, g, bits)
      PROVE  Behind(d, n, u, f, more)
  <2>1. d.number \in Nat
    BY <1>1, IncomingArrives
  <2> QED
    BY <1>7, <1>8, <2>1 DEF Behind
<1>9. ~ Behind(c, n, u, g, bits) /\ (HasRoom => Behind(c, n, u, f, more))
  BY <1>3, <1>5, <1>7 DEF Behind
<1>10. ASSUME NEW o, Whole(o), Len(o) =< 1, o # <<>> => HasRoom,
              \A p \in DOMAIN o : o[p] = Incoming(c),
              n' = n, u' = u, dispatched' = dispatched \o o
       PROVE  PromiseInv'
  <2>1. o \in Seq(Arrivals) /\ Len(o) \in Nat /\ DOMAIN o = 1 .. Len(o)
    <3>1. o \in Seq(Arrivals)
      BY <1>10 DEF Whole
    <3> QED
      BY <3>1, LenProperties
  <2>2. o \in Seq(Entry)
    <3>1. Arrivals \subseteq Entry
      BY DEF Arrivals
    <3> QED
      BY <2>1, <3>1, SeqOfMore
  <2>3. HandedOver' = h \o PacketsOf(o)
    BY <1>10, <2>2, HandedOverMore
  <2>4. InOrder(o)
    <3>1. \A p, r \in DOMAIN o : ~ (p < r)
      BY <1>10, <2>1
    <3> QED
      BY <3>1 DEF InOrder
  <2>5. ASSUME NEW p \in DOMAIN o
        PROVE  \E d \in network : /\ d.packet = o[p].packet
                                  /\ ~ Behind(d, n, u, g, bits) /\ Behind(d, n, u, f, more)
    <3>1. o # <<>>
      BY <2>1, EmptySeq
    <3> QED
      BY <1>4, <1>9, <1>10, <3>1
  <2>6. ASSUME NEW d \in network, n < LastNumber(Incoming(d)), LastNumber(Incoming(d)) =< n
        PROVE  FALSE
    <3>1. LastNumber(Incoming(d)) \in Nat
      BY <1>1, IncomingArrives, ArrivalNumbers
    <3> QED
      BY <1>1, <2>6, <3>1
  <2> HIDE DEF n, u, g, bits, h
  <2>7. Given(h \o PacketsOf(o), n, u, f, more)
    BY <1>1, <1>2, <1>8, <1>10, <2>4, <2>5, <2>6, GivenMore
  <2> USE DEF n, u, g, bits
  <2> QED
    BY <1>1, <1>3, <1>5, <1>6, <1>10, <2>3, <2>7, PromiseWith
<1>11. CASE HasRoom /\ \E ch : OutcomeUnsequenced(ch, Incoming(c))
  <2>1. PICK ch : OutcomeUnsequenced(ch, Incoming(c))
    BY <1>11
  <2>2. /\ Whole(ch.out) /\ Len(ch.out) =< 1 /\ \A p \in DOMAIN ch.out : ch.out[p] = Incoming(c)
        /\ n' = n /\ u' = u /\ dispatched' = dispatched \o ch.out
    BY <2>1 DEF OutcomeUnsequenced, Becomes
  <2> QED
    BY <1>10, <1>11, <2>2
<1>12. CASE UNCHANGED channelVars
  <2> DEFINE none == <<>>
  <2>1. n' = n /\ u' = u /\ dispatched' = dispatched
    BY <1>12 DEF channelVars
  <2>2. DOMAIN none = {} /\ none \in Seq(Arrivals) /\ Len(none) = 0 /\ none = <<>>
    BY EmptySeq
  <2> HIDE DEF none
  <2>3. dispatched \o none = dispatched
    <3>1. dispatched \in Seq(Entry)
      BY DEF ReceiverInv, ReceiverType
    <3>2. dispatched \o <<>> = dispatched
      BY <3>1, ConcatEmptySeq
    <3> QED
      BY <2>2, <3>2
  <2>4. Whole(none) /\ Len(none) =< 1
    BY <2>2 DEF Whole
  <2> QED
    BY <1>10, <2>1, <2>2, <2>3, <2>4
<1> QED
  BY <1>11, <1>12

LEMMA PromiseStep ==
  ASSUME SenderInv, ReceiverInv, OrderInv, PromiseInv, SmallPackets, [Next]_vars
  PROVE  PromiseInv'
<1> DEFINE n == incomingReliableSequenceNumber
           out == outgoingReliableSequenceNumber
<1>1. SentAsAsked'
  BY SentAsAskedStep DEF ReceiverInv, PromiseInv
<1>2. /\ n \in Nat /\ out \in Nat /\ n =< out
      /\ Given(HandedOver, n, incomingUnreliableSequenceNumber,
               incomingUnsequencedGroup, unsequencedWindow)
  BY DEF ReceiverInv, ReceiverType, SenderInv, SenderType, PromiseInv
<1>3. ASSUME NEW c \in network, Handle(c) PROVE PromiseInv'
  <2>1. /\ UNCHANGED senderVars /\ delivered' = delivered
        /\ \/ /\ c.type # "SEND_UNSEQUENCED" /\ UNCHANGED groupVars
              /\ \E ch : Outcome(ch)
           \/ /\ HandleSendUnsequenced(c) /\ HasRoom
              /\ \E ch : OutcomeUnsequenced(ch, Incoming(c))
           \/ HandleSendUnsequenced(c) /\ UNCHANGED channelVars
    BY <1>3, HandleSettles
  <2>2. Fresh(c)
    BY <1>3 DEF Handle
  <2>3. CASE UNCHANGED groupVars /\ \E ch : Outcome(ch)
    BY <1>1, <2>1, <2>3, PromiseHandle
  <2>4. CASE /\ HandleSendUnsequenced(c)
             /\ \/ HasRoom /\ \E ch : OutcomeUnsequenced(ch, Incoming(c))
                \/ UNCHANGED channelVars
    BY <1>1, <2>1, <2>2, <2>4, PromiseUnsequenced
  <2> QED
    BY <2>1, <2>3, <2>4
<1>4. ASSUME HandedOver' = HandedOver,
             UNCHANGED <<incomingReliableSequenceNumber, incomingUnreliableSequenceNumber,
                         incomingUnsequencedGroup, unsequencedWindow>>
      PROVE  PromiseInv'
  <2>1. PICK h, r, u, g, bits :
          /\ h = HandedOver /\ r = n /\ u = incomingUnreliableSequenceNumber
          /\ g = incomingUnsequencedGroup /\ bits = unsequencedWindow
    OBVIOUS
  <2>2. Given(h, r, u, g, bits) /\ r \in Nat /\ r =< out
    BY <1>2, <2>1
  <2>3. Given(h, r, u, g, bits)'
    BY <2>2, GivenStays
  <2>4. out' \in Nat /\ out =< out'
    BY NetworkGrows, SenderStep DEF SenderInv, SenderType
  <2>5. n' =< out'
    BY <1>2, <1>4, <2>4
  <2>6. /\ h = HandedOver' /\ r = n' /\ u = incomingUnreliableSequenceNumber'
        /\ g = incomingUnsequencedGroup' /\ bits = unsequencedWindow'
    BY <1>4, <2>1
  <2>7. Given(HandedOver, n, incomingUnreliableSequenceNumber,
              incomingUnsequencedGroup, unsequencedWindow)'
    BY <2>3, <2>6 DEF Given, Behind, Seen, Past, LastNumber, Incoming, Sequenced
  <2>8. incomingUnsequencedGroup' % UNSEQUENCED_WINDOW_SIZE = 0
    BY <1>4 DEF PromiseInv
  <2> QED
    BY <1>1, <2>5, <2>7, <2>8 DEF PromiseInv
<1>5. CASE Receive
  BY <1>4, <1>5, ReceiveKeeps DEF Receive, groupVars
<1>6. CASE (\E k \in Kinds : Send(k)) \/ SendUnreliable \/ Throttle \/ DatagramSent \/ UNCHANGED vars
  <2>1. UNCHANGED receiverVars
    BY <1>6 DEF Send, SendUnreliable, Throttle, DatagramSent, vars
  <2>2. UNCHANGED <<delivered, dispatched, incomingReliableSequenceNumber,
                    incomingUnreliableSequenceNumber, incomingUnsequencedGroup, unsequencedWindow>>
    BY <2>1 DEF receiverVars, channelVars, groupVars
  <2>3. HandedOver' = HandedOver
    BY <2>2 DEF HandedOver, PacketsOf
  <2> QED
    BY <1>4, <2>2, <2>3
<1> QED
  BY <1>3, <1>5, <1>6 DEF Next

\* The invariant behind the promise to the application.
THEOREM PromiseInvariant ==
  ASSUME SmallPackets
  PROVE  Spec => [](SenderInv /\ ReceiverInv /\ OrderInv /\ PromiseInv)
<1>1. Init => SenderInv /\ ReceiverInv /\ OrderInv /\ PromiseInv
  BY SenderInit, ReceiverInit, OrderInit, PromiseInit
<1>2. SenderInv /\ ReceiverInv /\ OrderInv /\ PromiseInv /\ [Next]_vars =>
        (SenderInv /\ ReceiverInv /\ OrderInv /\ PromiseInv)'
  BY SenderStep, ReceiverStep, OrderStep, PromiseStep
<1> QED
  BY <1>1, <1>2, PTL DEF Spec

\* What enet_peer_receive returns was not returned before, and it is its turn: a
\* reliable packet submitted before it has a number that is past, so it was
\* handed over, and not behind it.
LEMMA ReceiveInTurn ==
  ASSUME SenderInv, ReceiverInv, OrderInv, PromiseInv, Receive
  PROVE  \E i \in DOMAIN submitted : Delivery!Deliver(i)
<1> DEFINE h == HandedOver
           l == Len(delivered)
           n == incomingReliableSequenceNumber
           u == incomingUnreliableSequenceNumber
           g == incomingUnsequencedGroup
           bits == unsequencedWindow
           at == l + 1
           i == h[at]
<1>1. /\ CommandsFit /\ Numbered /\ SentAsAsked /\ Given(h, n, u, g, bits)
      /\ n \in Nat /\ u \in Nat
  BY ChannelFields DEF ReceiverInv, OrderInv, PromiseInv
<1>2. /\ delivered' = Append(delivered, i) /\ at \in DOMAIN h
      /\ \A p \in DOMAIN delivered : p \in DOMAIN h /\ h[p] = delivered[p]
  BY ReceiveKeeps
<1>3. l \in Nat /\ DOMAIN delivered = 1 .. l
  <2>1. delivered \in Seq(Packets)
    BY DEF ReceiverInv, ReceiverType
  <2> QED
    BY <2>1, LenProperties
<1>4. /\ \A p \in DOMAIN h : h[p] \in DOMAIN submitted
      /\ DOMAIN h = 1 .. Len(h) /\ Len(h) \in Nat
  <2>1. h \in Seq(DOMAIN submitted)
    BY <1>1 DEF Given
  <2> QED
    BY <2>1, ElementOfSeq, LenProperties
<1>5. /\ \A p, r \in DOMAIN h : p < r =>
           /\ h[p] # h[r]
           /\ submitted[h[p]] \in SequencedKinds /\ submitted[h[r]] \in SequencedKinds
                => h[p] < h[r]
      /\ \A p \in DOMAIN h : \E c \in network :
           c.packet = h[p] /\ Behind(c, n, u, g, bits)
      /\ \A c \in network :
           c.type \in ReliableTypes /\ LastNumber(Incoming(c)) =< n =>
             \E p \in DOMAIN h : h[p] = c.packet
  BY <1>1 DEF Given
<1>6. /\ submitted \in Seq(Kinds) /\ DOMAIN submitted \subseteq Nat
      /\ \A j \in DOMAIN submitted : submitted[j] \in Kinds
  <2>1. submitted \in Seq(Kinds)
    BY DEF SenderInv, SenderType
  <2> QED
    BY <2>1, LenProperties, ElementOfSeq
<1>7. UNCHANGED submitted
  BY DEF Receive, senderVars
<1> HIDE DEF h, l, n, u, g, bits, at
<1>8. at = l + 1 /\ i \in DOMAIN submitted
  BY <1>2, <1>4 DEF at
<1>9. ASSUME NEW p \in DOMAIN delivered
      PROVE  /\ delivered[p] # i
             /\ submitted[delivered[p]] \in SequencedKinds /\ submitted[i] \in SequencedKinds
                  => delivered[p] < i
  <2>1. p \in DOMAIN h /\ h[p] = delivered[p] /\ p < at
    BY <1>2, <1>3, <1>8
  <2> QED
    BY <1>2, <1>5, <2>1
<1>10. ASSUME NEW j \in 1 .. i - 1, submitted[j].reliable, submitted[i] \in SequencedKinds
       PROVE  \E p \in DOMAIN delivered : delivered[p] = j
  <2>1. j \in DOMAIN submitted /\ j < i /\ i \in Nat /\ j \in Nat
    <3>1. DOMAIN submitted = 1 .. Len(submitted) /\ Len(submitted) \in Nat
      BY <1>6, LenProperties
    <3> QED
      BY <1>8, <3>1
  <2>2. submitted[j] \in SequencedKinds
    BY <1>6, <1>10, <2>1 DEF SequencedKinds
  <2>3. PICK c \in network : c.packet = j /\ c.type \in ReliableTypes
    BY <1>1, <1>10, <2>1 DEF SentAsAsked
  <2>4. PICK d \in network : d.packet = i /\ Behind(d, n, u, g, bits)
    BY <1>2, <1>5
  <2>5. Sequenced(c) /\ Sequenced(d) /\ c \in Made /\ d \in Made
    BY <1>1, <1>10, <2>2, <2>3, <2>4, IncomingArrives DEF SentAsAsked
  <2>6. Precedes(Incoming(c), Incoming(d)) /\ Past(Incoming(d), n, u)
    BY <1>1, <2>1, <2>3, <2>4, <2>5 DEF Numbered, NumbersInOrder, Behind
  <2>7. /\ LastNumber(Incoming(c)) \in Nat
        /\ LastNumber(Incoming(d)) \in Nat /\ Incoming(d).reliable \in Nat
        /\ Incoming(d).reliable =< LastNumber(Incoming(d))
    BY <1>1, IncomingArrives, ArrivalNumbers
  <2>8. LastNumber(Incoming(c)) =< n
    <3>1. /\ LastNumber(Incoming(c)) =< Incoming(d).reliable
          /\ LastNumber(Incoming(d)) =< n
      BY <2>6 DEF Precedes, Past
    <3> QED
      BY <1>1, <2>7, <3>1
  <2>9. PICK p \in DOMAIN h : h[p] = j
    BY <1>5, <2>3, <2>8
  <2>10. ASSUME at < p PROVE FALSE
    <3>1. i < j
      BY <1>2, <1>5, <1>10, <2>2, <2>9, <2>10
    <3> QED
      BY <2>1, <3>1
  <2>11. p # at
    BY <2>1, <2>9
  <2>12. p \in DOMAIN delivered
    BY <1>3, <1>4, <1>8, <2>10, <2>11
  <2> QED
    BY <1>2, <2>9, <2>12
<1> HIDE DEF i
<1>11. ~ Delivery!WasDelivered(i)
  BY <1>9 DEF Delivery!WasDelivered
<1>12. Delivery!InTurn(i)
  <2>1. SUFFICES ASSUME submitted[i] \in SequencedKinds
        PROVE  /\ \A p \in DOMAIN delivered :
                    submitted[delivered[p]] \in SequencedKinds => delivered[p] < i
               /\ \A j \in 1 .. i - 1 : submitted[j] \in {k \in Kinds : k.reliable} =>
                    \E p \in DOMAIN delivered : delivered[p] = j
    BY DEF Delivery!InTurn, Delivery!WasDelivered, SequencedKinds
  <2> QED
    BY <1>9, <1>10, <2>1
<1> QED
  BY <1>2, <1>7, <1>8, <1>11, <1>12 DEF Delivery!Deliver, i

\* The channel implements the promise: whatever the network loses, duplicates or
\* reorders and whatever the throttle and the receiver drop, each step of the two
\* peers is a submission, the delivery of a packet whose turn it is, or nothing
\* that the application can see.
THEOREM DeliveryRefined ==
  ASSUME SmallPackets
  PROVE  Spec => RefinesDelivery
<1>1. Init => Delivery!Init
  BY DEF Init, Delivery!Init
<1>2. ASSUME SenderInv, ReceiverInv, OrderInv, PromiseInv, [Next]_vars
      PROVE  [Delivery!Next]_Delivery!vars
  <2>1. ASSUME NEW k \in Kinds, Send(k) PROVE Delivery!Next
    <3>1. /\ submitted \in Seq(Kinds) /\ Len(submitted) + 1 \in Packets
          /\ submitted' = Append(submitted, k) /\ delivered' = delivered
      BY <1>2, <2>1 DEF Send, receiverVars, SenderInv, SenderType
    <3>2. Len(submitted) \in Nat
      BY <3>1, LenProperties
    <3>3. Len(submitted) < MaxPackets
      BY <3>1, <3>2, DeliveryAssumption DEF Packets
    <3> QED
      BY <3>1, <3>3 DEF Delivery!Next, Delivery!Submit
  <2>2. CASE Receive
    BY <1>2, <2>2, ReceiveInTurn DEF Delivery!Next
  <2>3. CASE UNCHANGED <<submitted, delivered>>
    BY <2>3 DEF Delivery!vars
  <2>4. ASSUME NEW c \in network, Handle(c) PROVE UNCHANGED <<submitted, delivered>>
    BY <2>4 DEF Handle, HandleSendReliable, HandleSendUnreliable, HandleSendFragment,
                HandleSendUnreliableFragment, HandleSendUnsequenced, senderVars
  <2>5. SendUnreliable \/ Throttle \/ DatagramSent \/ UNCHANGED vars =>
          UNCHANGED <<submitted, delivered>>
    BY DEF SendUnreliable, Throttle, DatagramSent, vars, senderVars, receiverVars
  <2> QED
    BY <1>2, <2>1, <2>2, <2>3, <2>4, <2>5 DEF Next
<1> QED
  BY <1>1, <1>2, PromiseInvariant, PTL DEF Spec, RefinesDelivery, Delivery!Spec
=============================================================================
