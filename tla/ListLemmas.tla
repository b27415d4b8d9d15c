----------------------------- MODULE ListLemmas -----------------------------
(***************************************************************************)
(* What the proofs need of lists: enet_list and std::queue are sequences   *)
(* in the models, enet_list_insert and enet_list_remove are InsertAt and   *)
(* RemoveAt, and the loops that search a list find the least or the        *)
(* greatest of the positions they look for.  Sequence numbers are counted  *)
(* modulo the sequence space: the last lemmas are about division.          *)
(***************************************************************************)
EXTENDS Integers, Sequences, FiniteSets, SequencesExt, SequenceTheorems,
        FiniteSetTheorems, WellFoundedInduction, TLAPS

\* A set of numbers has a least element: what the loops that search a list from
\* its front find.
LEMMA LeastElement ==
  ASSUME NEW T, T \subseteq Nat, T # {}
  PROVE  LET first == CHOOSE p \in T : \A r \in T : p =< r
         IN  first \in T /\ \A r \in T : first =< r
<1>1. PICK x \in T : \A y \in T : ~ (<<y, x>> \in OpToRel(<, Nat))
  BY WFMin, NatLessThanWellFounded, Zenon
<1>2. \A y \in T : ~ (y < x)
  BY <1>1, Zenon DEF OpToRel
<1>3. \A y \in T : x =< y
  BY <1>2
<1> QED
  BY <1>3

\* The greatest element of a bounded set of numbers: what the loops that search a
\* list from its back find.
LEMMA LastIsGreatest ==
  ASSUME NEW len \in Nat, NEW S, S \subseteq 1 .. len, S # {}
  PROVE  LET last == CHOOSE p \in S : \A r \in S : r =< p
         IN  last \in S /\ \A r \in S : r =< last
<1> DEFINE T == {len - p : p \in S}
<1>1. T \subseteq Nat /\ T # {}
  <2>1. \A r \in S : len - r \in Nat
    OBVIOUS
  <2> QED
    BY <2>1, Zenon
<1>2. PICK first \in T : \A r \in T : first =< r
  BY <1>1, LeastElement
<1>3. PICK g \in S : first = len - g
  BY <1>2
<1>4. ASSUME NEW r \in S PROVE r =< g
  <2>1. len - g =< len - r
    BY <1>2, <1>3
  <2> QED
    BY <2>1
<1> QED
  BY <1>4

\* What enet_list_remove leaves: the elements behind the removed one move up.
LEMMA RemoveAtProperties ==
  ASSUME NEW S, NEW s \in Seq(S), NEW p \in DOMAIN s
  PROVE  /\ RemoveAt(s, p) \in Seq(S)
         /\ Len(RemoveAt(s, p)) = Len(s) - 1
         /\ DOMAIN RemoveAt(s, p) = 1 .. Len(s) - 1
         /\ \A k \in 1 .. Len(s) - 1 :
              RemoveAt(s, p)[k] = s[IF k < p THEN k ELSE k + 1]
<1> DEFINE front == SubSeq(s, 1, p - 1)  back == SubSeq(s, p + 1, Len(s))
<1>1. p \in 1 .. Len(s) /\ Len(s) \in Nat /\ \A k \in 1 .. Len(s) : s[k] \in S
  BY LenProperties, ElementOfSeq
<1>2. front \in Seq(S) /\ Len(front) = p - 1 /\ \A k \in 1 .. p - 1 : front[k] = s[k]
  BY <1>1, SubSeqProperties
<1>3. /\ back \in Seq(S) /\ Len(back) = Len(s) - p
      /\ \A k \in 1 .. Len(s) - p : back[k] = s[p + k]
  BY <1>1, SubSeqProperties
<1> HIDE DEF front, back
<1>4. /\ front \o back \in Seq(S) /\ Len(front \o back) = Len(front) + Len(back)
      /\ \A k \in 1 .. Len(front) + Len(back) :
           (front \o back)[k] = IF k =< Len(front) THEN front[k]
                               ELSE back[k - Len(front)]
  BY <1>2, <1>3, ConcatProperties
<1>5. Len(front) + Len(back) = Len(s) - 1
  BY <1>1, <1>2, <1>3
<1>6. ASSUME NEW k \in 1 .. Len(s) - 1
      PROVE  (front \o back)[k] = s[IF k < p THEN k ELSE k + 1]
  <2>1. CASE k < p
    <3>1. k \in 1 .. p - 1 /\ k =< Len(front)
      BY <1>1, <1>2, <2>1
    <3> QED
      BY <1>2, <1>4, <1>5, <2>1, <3>1
  <2>2. CASE ~ k < p
    <3>1. /\ k - (p - 1) \in 1 .. Len(s) - p /\ p + (k - (p - 1)) = k + 1
          /\ ~ k =< Len(front) /\ k - Len(front) = k - (p - 1)
      BY <1>1, <1>2, <2>2
    <3>2. (front \o back)[k] = back[k - (p - 1)]
      BY <1>4, <1>5, <3>1
    <3> QED
      BY <1>3, <2>2, <3>1, <3>2
  <2> QED
    BY <2>1, <2>2
<1>7. RemoveAt(s, p) = front \o back
  BY DEF RemoveAt, front, back
<1>8. DOMAIN (front \o back) = 1 .. Len(s) - 1
  BY <1>4, <1>5, LenProperties
<1> QED
  BY <1>4, <1>5, <1>6, <1>7, <1>8

\* The positions of a list, without one of them, are those of what is left.
LEMMA RemoveAtKeeps ==
  ASSUME NEW S, NEW s \in Seq(S), NEW p \in DOMAIN s, NEW r \in DOMAIN s, r # p
  PROVE  \E k \in DOMAIN RemoveAt(s, p) : RemoveAt(s, p)[k] = s[r]
<1>1. Len(s) \in Nat /\ DOMAIN s = 1 .. Len(s)
  BY LenProperties
<1> DEFINE k == IF r < p THEN r ELSE r - 1  removed == RemoveAt(s, p)
<1>2. k \in 1 .. Len(s) - 1 /\ (IF k < p THEN k ELSE k + 1) = r
  BY <1>1
<1>3. /\ removed \in Seq(S) /\ Len(removed) = Len(s) - 1
      /\ \A j \in 1 .. Len(s) - 1 : removed[j] = s[IF j < p THEN j ELSE j + 1]
  BY RemoveAtProperties
<1> HIDE DEF k, removed
<1>4. DOMAIN removed = 1 .. Len(s) - 1
  BY <1>3, LenProperties
<1>5. removed[k] = s[r]
  BY <1>2, <1>3
<1> QED
  BY <1>2, <1>4, <1>5 DEF removed

\* What enet_list_insert leaves: the commands from the place on move down.
LEMMA InsertAtProperties ==
  ASSUME NEW S, NEW s \in Seq(S), NEW p \in 1 .. Len(s) + 1, NEW e \in S
  PROVE  /\ InsertAt(s, p, e) \in Seq(S)
         /\ Len(InsertAt(s, p, e)) = Len(s) + 1
         /\ \A k \in 1 .. Len(s) + 1 :
              InsertAt(s, p, e)[k] = IF k < p THEN s[k] ELSE IF k = p THEN e ELSE s[k - 1]
<1> DEFINE front == SubSeq(s, 1, p - 1)
           back == SubSeq(s, p, Len(s))
           mid == <<e>>
           fm == front \o mid
<1>1. Len(s) \in Nat /\ \A k \in 1 .. Len(s) : s[k] \in S
  BY LenProperties, ElementOfSeq
<1>2. front \in Seq(S) /\ Len(front) = p - 1 /\ \A k \in 1 .. p - 1 : front[k] = s[k]
  BY <1>1, SubSeqProperties
<1>3. /\ back \in Seq(S) /\ Len(back) = Len(s) + 1 - p
      /\ \A k \in 1 .. Len(s) + 1 - p : back[k] = s[p + k - 1]
  <2>1. \A k \in p .. Len(s) : s[k] \in S
    BY <1>1
  <2>2. /\ back \in Seq(S) /\ Len(back) = IF p =< Len(s) THEN Len(s) - p + 1 ELSE 0
        /\ \A k \in 1 .. Len(s) - p + 1 : back[k] = s[p + k - 1]
    BY <1>1, <2>1, SubSeqProperties
  <2> QED
    BY <1>1, <2>2
<1>4. mid \in Seq(S) /\ Len(mid) = 1 /\ mid[1] = e
  OBVIOUS
<1> HIDE DEF front, back, mid
<1>5. /\ fm \in Seq(S) /\ Len(fm) = p
      /\ \A k \in 1 .. p : fm[k] = IF k < p THEN s[k] ELSE e
  <2>1. /\ fm \in Seq(S) /\ Len(fm) = Len(front) + Len(mid)
        /\ \A k \in 1 .. Len(front) + Len(mid) :
             fm[k] = IF k =< Len(front) THEN front[k] ELSE mid[k - Len(front)]
    BY <1>2, <1>4, ConcatProperties
  <2> QED
    BY <1>1, <1>2, <1>4, <2>1
<1> HIDE DEF fm
<1>6. /\ fm \o back \in Seq(S) /\ Len(fm \o back) = Len(fm) + Len(back)
      /\ \A k \in 1 .. Len(fm) + Len(back) :
           (fm \o back)[k] = IF k =< Len(fm) THEN fm[k] ELSE back[k - Len(fm)]
  BY <1>3, <1>5, ConcatProperties
<1>7. Len(fm) + Len(back) = Len(s) + 1
  BY <1>1, <1>3, <1>5
<1>8. ASSUME NEW k \in 1 .. Len(s) + 1
      PROVE  (fm \o back)[k] = IF k < p THEN s[k] ELSE IF k = p THEN e ELSE s[k - 1]
  <2>1. CASE k =< p
    <3>1. (fm \o back)[k] = fm[k] /\ k \in 1 .. p
      BY <1>1, <1>5, <1>6, <1>7, <2>1
    <3> QED
      BY <1>5, <2>1, <3>1
  <2>2. CASE k > p
    <3>1. k - p \in 1 .. Len(s) + 1 - p /\ p + (k - p) - 1 = k - 1
      BY <1>1, <2>2
    <3>2. (fm \o back)[k] = back[k - p]
      BY <1>5, <1>6, <1>7, <2>2
    <3>3. back[k - p] = s[k - 1]
      BY <1>3, <3>1
    <3> QED
      BY <2>2, <3>2, <3>3
  <2>3. k =< p \/ k > p
    BY <1>1
  <2> QED
    BY <2>1, <2>2, <2>3, Zenon
<1>9. InsertAt(s, p, e) = fm \o back
  BY DEF InsertAt, fm, front, mid, back
<1> QED
  BY <1>6, <1>7, <1>8, <1>9

\* Where RemoveFirst finds an element.
LEMMA SelectInSeqProperties ==
  ASSUME NEW S, NEW s \in Seq(S), NEW e, \E k \in 1 .. Len(s) : s[k] = e
  PROVE  LET p == SelectInSeq(s, LAMBDA v : v = e) IN p \in 1 .. Len(s) /\ s[p] = e
<1> DEFINE I == {k \in 1 .. Len(s) : s[k] = e}
<1>1. I \subseteq Nat /\ I # {}
  BY LenProperties
<1>2. PICK first \in I : \A r \in I : first =< r
  BY <1>1, LeastElement
<1>3. Min(I) \in I
  BY <1>2 DEF Min
<1>4. SelectInSeq(s, LAMBDA v : v = e) = Min(I)
  BY <1>1 DEF SelectInSeq
<1> QED
  BY <1>3, <1>4

\* What holds before a loop and after each of its turns holds after all of them:
\* induction over the set of the turns after which it does.
LEMMA IntervalInduction ==
  ASSUME NEW n \in Nat, NEW S, 0 \in S, \A k \in 0 .. n - 1 : k \in S => k + 1 \in S
  PROVE  0 .. n \subseteq S
<1> DEFINE T == {k \in 0 .. n : k \notin S}
<1>1. ASSUME T # {} PROVE FALSE
  <2>1. T \subseteq Nat
    OBVIOUS
  <2> HIDE DEF T
  <2>2. PICK first \in T : \A r \in T : first =< r
    BY <1>1, <2>1, LeastElement
  <2>3. first \in 0 .. n /\ first \notin S /\ first # 0
    BY <2>2 DEF T
  <2>4. first - 1 \in 0 .. n - 1 /\ (first - 1) + 1 = first
    BY <2>3
  <2>5. first - 1 \notin S
    BY <2>3, <2>4
  <2>6. first - 1 \in T
    BY <2>4, <2>5 DEF T
  <2> QED
    BY <2>2, <2>3, <2>6
<1> QED
  BY <1>1

\* Division, as the proofs use it: the quotient is the only number that leaves
\* a remainder below the divisor.
LEMMA Quotient ==
  ASSUME NEW k \in Nat \ {0}, NEW i \in Nat
  PROVE  /\ i \div k \in Nat /\ i % k \in 0 .. k - 1
         /\ i = k * (i \div k) + (i % k)
  OBVIOUS

LEMMA QuotientUnique ==
  ASSUME NEW k \in Nat \ {0}, NEW a \in Nat, NEW r \in 0 .. k - 1
  PROVE  (k * a + r) \div k = a /\ (k * a + r) % k = r
<1> DEFINE i == k * a + r
           b == i \div k
           s == i % k
<1>1. i \in Nat
  OBVIOUS
<1>2. b \in Nat /\ s \in 0 .. k - 1 /\ i = k * b + s
  BY <1>1, Quotient
<1> HIDE DEF b, s
<1>3. k * b + s = k * a + r
  BY <1>2
<1>4. b = a
  <2>1. CASE b < a
    <3>1. k * a >= k * (b + 1)
      BY <1>2, <2>1
    <3>2. k * (b + 1) = k * b + k
      BY <1>2
    <3> QED
      BY <1>2, <1>3, <3>1, <3>2
  <2>2. CASE a < b
    <3>1. k * b >= k * (a + 1)
      BY <1>2, <2>2
    <3>2. k * (a + 1) = k * a + k
      BY <1>2
    <3> QED
      BY <1>2, <1>3, <3>1, <3>2
  <2> QED
    BY <1>2, <2>1, <2>2
<1> QED
  BY <1>2, <1>3, <1>4 DEF b, s
=============================================================================
