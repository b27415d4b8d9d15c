------------------------ MODULE EnetBandwidth_proofs ------------------------
(***************************************************************************)
(* What the throttle computes, for every set of peers, all limits and any  *)
(* amounts of data that fit an enet_uint32 (FitsAssumption).               *)
(*                                                                         *)
(* First the counters that the throttle divides by: they are the numbers   *)
(* of peers (Counted).  Then sums over sets of peers, and the invariants   *)
(* of the two loops of enet_host_bandwidth_throttle: RoundOK for the       *)
(* outgoing, SettledOK for the incoming side.  Each round keeps them, each *)
(* but a last one adjusts a peer, so that after as many rounds as there    *)
(* are peers nobody is left to adjust; the properties of a call follow     *)
(* from this and the invariant.                                            *)
(***************************************************************************)
EXTENDS EnetBandwidth, ListLemmas

Limited == {p \in Up : incomingBandwidth[p] # 0}

Phases == {"down", "connecting", "pending", "up", "closing"}

\* LimitedCounted with what the counting needs to know of the two variables.
Counted ==
  /\ phase \in [Peers -> Phases]
  /\ incomingBandwidth \in [Peers -> Nat]
  /\ connectedPeers = Cardinality(Up)
  /\ bandwidthLimitedPeers = Cardinality(Limited)

-----------------------------------------------------------------------------
\* What a counter owes to one element that enters or leaves a set.
LEMMA CountOne ==
  ASSUME NEW S, IsFiniteSet(S), NEW x
  PROVE  /\ Cardinality(S) \in Nat
         /\ x \notin S => Cardinality(S \cup {x}) = Cardinality(S) + 1
         /\ x \in S => Cardinality(S \ {x}) = Cardinality(S) - 1
<1>1. Cardinality(S) \in Nat
  BY FS_CardinalityType
<1>2. x \notin S => Cardinality(S \cup {x}) = Cardinality(S) + 1
  BY FS_AddElement
<1>3. x \in S => Cardinality(S \ {x}) = Cardinality(S) - 1
  BY FS_RemoveElement
<1> QED
  BY <1>1, <1>2, <1>3

LEMMA FiniteCounted == IsFiniteSet(Up) /\ IsFiniteSet(Limited)
<1>1. IsFiniteSet(Peers)
  BY BandwidthAssumption
<1>2. Up \subseteq Peers /\ Limited \subseteq Peers
  BY DEF Up, Limited
<1> QED
  BY <1>1, <1>2, FS_Subset

LEMMA LimitsAreNumbers ==
  ASSUME NEW l \in Limits
  PROVE  l.incoming \in Nat /\ l.outgoing \in Nat
BY BandwidthAssumption DEF LimitType

\* A step that leaves alone who is up and what the peers can take.
LEMMA UncountedStep ==
  ASSUME Counted,
         UNCHANGED <<phase, incomingBandwidth, connectedPeers, bandwidthLimitedPeers>>
  PROVE  Counted'
<1>1. Up' = Up /\ Limited' = Limited
  BY DEF Up, Limited
<1> QED
  BY <1>1 DEF Counted

LEMMA InitCounted == Init => Counted
<1> SUFFICES ASSUME Init PROVE Counted
  OBVIOUS
<1>1. Up = {} /\ Limited = {}
  BY DEF Init, Up, Limited
<1>2. Cardinality({}) = 0
  BY FS_EmptySet
<1> QED
  BY <1>1, <1>2 DEF Init, Counted, Phases

-----------------------------------------------------------------------------
(* The steps that count. *)

\* The limits of a peer that is not up do not count.
LEMMA AcceptCounted ==
  ASSUME Counted, NEW p \in Peers, NEW l \in Limits, Accept(p, l)
  PROVE  Counted'
<1>1. Up' = Up
  BY DEF Counted, Accept, Up
<1>2. p \notin Up
  BY DEF Accept, Up
<1>3. Limited' = Limited
  BY <1>1, <1>2 DEF Counted, Accept, Limited, Up
<1>4. /\ phase' \in [Peers -> Phases]
      /\ incomingBandwidth' \in [Peers -> Nat]
  BY LimitsAreNumbers DEF Counted, Accept, Phases
<1>5. UNCHANGED <<connectedPeers, bandwidthLimitedPeers>>
  BY DEF Accept, counterVars
<1> QED
  BY <1>1, <1>3, <1>4, <1>5 DEF Counted

LEMMA NotifyConnectCounted ==
  ASSUME Counted, NEW p \in Peers, NotifyConnect(p)
  PROVE  Counted'
<1>1. Up' = Up
  BY DEF Counted, NotifyConnect, Up
<1>2. UNCHANGED <<incomingBandwidth, connectedPeers, bandwidthLimitedPeers>>
  BY DEF NotifyConnect, linkVars, counterVars
<1>3. Limited' = Limited
  BY <1>1, <1>2 DEF Limited
<1>4. phase' \in [Peers -> Phases]
  BY DEF Counted, NotifyConnect, Phases
<1> QED
  BY <1>1, <1>2, <1>3, <1>4 DEF Counted

LEMMA ConnectedCounted ==
  ASSUME Counted, NEW p \in Peers, Connected(p)
  PROVE  Counted'
<1>1. Up' = Up \cup {p} /\ p \notin Up
  BY DEF Counted, Connected, Up
<1>2. incomingBandwidth' = incomingBandwidth
  BY DEF Connected, linkVars
<1>3. p \notin Limited
  BY <1>1 DEF Limited
<1>4. Limited' = IF incomingBandwidth[p] # 0 THEN Limited \cup {p} ELSE Limited
  BY <1>1, <1>2 DEF Limited
<1>5. connectedPeers' = Cardinality(Up')
  BY <1>1, FiniteCounted, CountOne DEF Counted, Connected, OnConnect
<1>6. bandwidthLimitedPeers' = Cardinality(Limited')
  BY <1>3, <1>4, FiniteCounted, CountOne DEF Counted, Connected, OnConnect
<1>7. phase' \in [Peers -> Phases]
  BY DEF Counted, Connected, Phases
<1> QED
  BY <1>2, <1>5, <1>6, <1>7 DEF Counted

\* A peer that leaves the state in which it counts, by whatever way.
LEMMA DepartureCounted ==
  ASSUME Counted, NEW p \in Peers, OnDisconnect(p),
         phase' \in [Peers -> Phases],
         phase'[p] # "up",
         \A q \in Peers \ {p} : phase'[q] = phase[q],
         incomingBandwidth' \in [Peers -> Nat],
         \A q \in Peers \ {p} : incomingBandwidth'[q] = incomingBandwidth[q]
  PROVE  Counted'
<1>1. Up' = Up \ {p}
  BY DEF Counted, Up
<1>2. Limited' = Limited \ {p}
  BY <1>1 DEF Limited, Up
<1>3. CASE phase[p] = "up"
  <2>1. p \in Up
    BY <1>3 DEF Up
  <2>2. connectedPeers' = Cardinality(Up')
    BY <1>1, <1>3, <2>1, FiniteCounted, CountOne DEF Counted, OnDisconnect
  <2>3. CASE incomingBandwidth[p] # 0
    <3>1. p \in Limited
      BY <2>1, <2>3 DEF Limited
    <3>2. bandwidthLimitedPeers' = Cardinality(Limited')
      BY <1>2, <1>3, <2>3, <3>1, FiniteCounted, CountOne
      DEF Counted, OnDisconnect
    <3> QED
      BY <2>2, <3>2 DEF Counted
  <2>4. CASE incomingBandwidth[p] = 0
    <3>1. Limited \ {p} = Limited
      BY <2>4 DEF Limited
    <3>2. bandwidthLimitedPeers' = Cardinality(Limited')
      BY <1>2, <1>3, <2>4, <3>1 DEF Counted, OnDisconnect
    <3> QED
      BY <2>2, <3>2 DEF Counted
  <2> QED
    BY <2>3, <2>4
<1>4. CASE phase[p] # "up"
  <2>1. Up \ {p} = Up /\ Limited \ {p} = Limited
    BY <1>4 DEF Up, Limited
  <2>2. UNCHANGED <<connectedPeers, bandwidthLimitedPeers>>
    BY <1>4 DEF OnDisconnect, counterVars
  <2> QED
    BY <1>1, <1>2, <2>1, <2>2 DEF Counted
<1> QED
  BY <1>3, <1>4

LEMMA DisconnectCounted ==
  ASSUME Counted, NEW p \in Peers, NEW recalculate \in BOOLEAN,
         Disconnect(p, recalculate)
  PROVE  Counted'
<1>1. /\ phase' \in [Peers -> Phases]
      /\ phase'[p] # "up"
      /\ \A q \in Peers \ {p} : phase'[q] = phase[q]
  BY DEF Counted, Disconnect, Phases
<1>2. incomingBandwidth' = incomingBandwidth /\ OnDisconnect(p)
  BY DEF Disconnect, linkVars
<1>3. /\ incomingBandwidth' \in [Peers -> Nat]
      /\ \A q \in Peers \ {p} : incomingBandwidth'[q] = incomingBandwidth[q]
  BY <1>2 DEF Counted
<1> QED
  BY <1>1, <1>2, <1>3, DepartureCounted

LEMMA ResetCounted ==
  ASSUME Counted, NEW p \in Peers, NEW recalculate \in BOOLEAN,
         Reset(p, recalculate)
  PROVE  Counted'
<1>1. /\ phase' \in [Peers -> Phases]
      /\ phase'[p] # "up"
      /\ \A q \in Peers \ {p} : phase'[q] = phase[q]
  BY DEF Counted, Reset, Phases
<1>2. /\ incomingBandwidth' \in [Peers -> Nat]
      /\ \A q \in Peers \ {p} : incomingBandwidth'[q] = incomingBandwidth[q]
  BY DEF Counted, Reset
<1>3. OnDisconnect(p)
  BY DEF Reset
<1> QED
  BY <1>1, <1>2, <1>3, DepartureCounted

\* The counter follows a limit that appears, disappears, or stays.
LEMMA HandleBandwidthLimitCounted ==
  ASSUME Counted, NEW p \in Peers, NEW l \in Limits, HandleBandwidthLimit(p, l)
  PROVE  Counted'
<1>1. Up' = Up /\ p \in Up
  BY DEF HandleBandwidthLimit, Up
<1>2. /\ incomingBandwidth' \in [Peers -> Nat]
      /\ incomingBandwidth'[p] = l.incoming
      /\ \A q \in Peers \ {p} : incomingBandwidth'[q] = incomingBandwidth[q]
  BY LimitsAreNumbers DEF Counted, HandleBandwidthLimit
<1>3. Limited' = IF l.incoming # 0 THEN Limited \cup {p} ELSE Limited \ {p}
  BY <1>1, <1>2 DEF Limited, Up
<1>4. p \in Limited <=> incomingBandwidth[p] # 0
  BY <1>1 DEF Limited
<1>5. /\ p \in Limited => Limited \cup {p} = Limited
      /\ p \notin Limited => Limited \ {p} = Limited
  OBVIOUS
<1>6. bandwidthLimitedPeers' = Cardinality(Limited')
  <2>1. bandwidthLimitedPeers' =
          bandwidthLimitedPeers - (IF incomingBandwidth[p] # 0 THEN 1 ELSE 0)
                                + (IF l.incoming # 0 THEN 1 ELSE 0)
    BY DEF HandleBandwidthLimit
  <2>2. /\ Cardinality(Limited) \in Nat
        /\ p \notin Limited =>
             Cardinality(Limited \cup {p}) = Cardinality(Limited) + 1
        /\ p \in Limited =>
             Cardinality(Limited \ {p}) = Cardinality(Limited) - 1
    BY FiniteCounted, CountOne
  <2>3. bandwidthLimitedPeers = Cardinality(Limited)
    BY DEF Counted
  <2>4. CASE l.incoming # 0 /\ p \in Limited
    <3>1. Limited' = Limited
      BY <1>3, <1>5, <2>4
    <3>2. bandwidthLimitedPeers' = bandwidthLimitedPeers
      BY <1>4, <2>1, <2>2, <2>3, <2>4
    <3> QED
      BY <2>3, <3>1, <3>2
  <2>5. CASE l.incoming # 0 /\ p \notin Limited
    BY <1>3, <1>4, <2>1, <2>2, <2>3, <2>5
  <2>6. CASE l.incoming = 0 /\ p \in Limited
    BY <1>3, <1>4, <2>1, <2>2, <2>3, <2>6
  <2>7. CASE l.incoming = 0 /\ p \notin Limited
    BY <1>3, <1>4, <1>5, <2>1, <2>2, <2>3, <2>7
  <2> QED
    BY <2>4, <2>5, <2>6, <2>7
<1>7. phase' \in [Peers -> Phases] /\ connectedPeers' = Cardinality(Up')
  BY <1>1 DEF Counted, HandleBandwidthLimit
<1> QED
  BY <1>2, <1>6, <1>7 DEF Counted

-----------------------------------------------------------------------------
LEMMA StepCounted == Counted /\ [Next]_vars => Counted'
<1> SUFFICES ASSUME Counted, [Next]_vars PROVE Counted'
  OBVIOUS
<1>1. ASSUME NEW p \in Peers, NEW l \in Limits, Accept(p, l) PROVE Counted'
  BY <1>1, AcceptCounted
<1>2. ASSUME NEW p \in Peers, Connected(p) PROVE Counted'
  BY <1>2, ConnectedCounted
<1>11. ASSUME NEW p \in Peers, NotifyConnect(p) PROVE Counted'
  BY <1>11, NotifyConnectCounted
<1>3. ASSUME NEW p \in Peers, NEW recalculate \in BOOLEAN,
             Disconnect(p, recalculate)
      PROVE  Counted'
  BY <1>3, DisconnectCounted
<1>4. ASSUME NEW p \in Peers, NEW recalculate \in BOOLEAN, Reset(p, recalculate)
      PROVE  Counted'
  BY <1>4, ResetCounted
<1>5. ASSUME NEW p \in Peers, NEW l \in Limits, HandleBandwidthLimit(p, l)
      PROVE  Counted'
  BY <1>5, HandleBandwidthLimitCounted
<1>6. ASSUME NEW p \in Peers, NEW d \in Bursts, Burst(p, d) PROVE Counted'
  BY <1>6, UncountedStep DEF Burst, linkVars, counterVars
<1>7. ASSUME NEW p \in Peers, NEW step \in Steps, HandleAcknowledge(p, step)
      PROVE  Counted'
  BY <1>7, UncountedStep DEF HandleAcknowledge, linkVars, counterVars
<1>8. ASSUME NEW l \in HostLimits, BandwidthLimit(l) PROVE Counted'
  BY <1>8, UncountedStep DEF BandwidthLimit, linkVars, counterVars
<1>9. ASSUME NEW e \in Elapsed, BandwidthThrottle(e) PROVE Counted'
  BY <1>9, UncountedStep DEF BandwidthThrottle, linkVars, counterVars
<1>10. CASE UNCHANGED vars
  BY <1>10, UncountedStep DEF vars, linkVars, counterVars
<1> QED
  BY <1>1, <1>2, <1>3, <1>4, <1>5, <1>6, <1>7, <1>8, <1>9, <1>10, <1>11
  DEF Next

\* Whatever limits arrive when, and however connections end, the host's
\* counters of connected and of bandwidth limited peers are those of its peers:
\* neither goes below zero, and a host whose counter says that no peer is
\* limited has no limited peer.
THEOREM LimitedCountedTheorem == Spec => []LimitedCounted
<1>1. Counted => LimitedCounted
  BY DEF Counted, LimitedCounted, Limited
<1> QED
  BY <1>1, InitCounted, StepCounted, PTL DEF Spec

-----------------------------------------------------------------------------
(* Sums over sets of peers. *)

\* Induction over the subsets of a finite set, by way of their sizes.
LEMMA SubsetInduction ==
  ASSUME NEW S, IsFiniteSet(S), NEW F,
         \A T \in SUBSET S : (\A x \in T : T \ {x} \in F) => T \in F
  PROVE  SUBSET S \subseteq F
<1> DEFINE n == Cardinality(S)
           G == {k \in Nat : \A T \in SUBSET S : Cardinality(T) =< k => T \in F}
<1>1. n \in Nat /\ \A T \in SUBSET S : IsFiniteSet(T) /\ Cardinality(T) \in 0 .. n
  BY FS_CardinalityType, FS_Subset
<1>2. 0 \in G
  BY <1>1, FS_EmptySet
<1>3. ASSUME NEW k \in 0 .. n - 1, k \in G PROVE k + 1 \in G
  <2>1. SUFFICES ASSUME NEW T \in SUBSET S, Cardinality(T) =< k + 1 PROVE T \in F
    BY <1>1
  <2>2. ASSUME NEW x \in T PROVE T \ {x} \in F
    <3>1. T \ {x} \in SUBSET S /\ Cardinality(T \ {x}) =< k
      BY <1>1, <2>1, FS_RemoveElement
    <3> QED
      BY <1>3, <3>1
  <2> QED
    BY <2>2
<1> HIDE DEF G
<1>4. 0 .. n \subseteq G
  BY <1>1, <1>2, <1>3, IntervalInduction
<1> QED
  BY <1>1, <1>4 DEF G

\* The equation of the function that MapThenSumSet computes over all subsets.
First(T) == CHOOSE p \in T : TRUE
Sums(f, S, sums) ==
  sums = [T \in SUBSET S |->
            IF T = {} THEN 0 ELSE f[First(T)] + sums[T \ {First(T)}]]

LEMMA TotalIsSum ==
  ASSUME NEW f, NEW S
  PROVE  Total(f, S) = (CHOOSE sums : Sums(f, S, sums))[S]
BY DEF Total, MapThenSumSet, MapThenFoldSet, Sums, First

SumOf(f, sums, T) == IF T = {} THEN 0 ELSE f[First(T)] + sums[T \ {First(T)}]

LEMMA SumsExist ==
  ASSUME NEW f, NEW S, IsFiniteSet(S)
  PROVE  Sums(f, S, CHOOSE sums : Sums(f, S, sums))
<1> DEFINE n == Cardinality(S)
           Upto(sums, k) ==
             \A T \in SUBSET S : Cardinality(T) =< k => sums[T] = SumOf(f, sums, T)
           G == {k \in Nat : \E sums : Upto(sums, k)}
           Next1(sums) == [T \in SUBSET S |-> SumOf(f, sums, T)]
<1>1. n \in Nat /\ \A T \in SUBSET S : IsFiniteSet(T) /\ Cardinality(T) \in 0 .. n
  BY FS_CardinalityType, FS_Subset
<1>2. \A T \in SUBSET S : T # {} => /\ First(T) \in T
                                    /\ T \ {First(T)} \in SUBSET S
                                    /\ Cardinality(T \ {First(T)}) = Cardinality(T) - 1
  <2>1. ASSUME NEW T \in SUBSET S, T # {} PROVE First(T) \in T
    BY <2>1 DEF First
  <2>2. ASSUME NEW T \in SUBSET S, NEW x \in T
        PROVE  Cardinality(T \ {x}) = Cardinality(T) - 1
    BY <1>1, FS_RemoveElement
  <2> QED
    BY <2>1, <2>2
<1>3. 0 \in G
  <2>1. Upto([T \in SUBSET S |-> 0], 0)
    <3>1. \A T \in SUBSET S : Cardinality(T) =< 0 => T = {}
      BY <1>1, FS_EmptySet
    <3> QED
      BY <3>1 DEF SumOf
  <2> QED
    BY <2>1
<1>4. ASSUME NEW k \in Nat, NEW sums, Upto(sums, k) PROVE Upto(Next1(sums), k + 1)
  <2>1. SUFFICES ASSUME NEW T \in SUBSET S, Cardinality(T) =< k + 1
                 PROVE  Next1(sums)[T] = SumOf(f, Next1(sums), T)
    OBVIOUS
  <2>2. Next1(sums)[T] = SumOf(f, sums, T)
    OBVIOUS
  <2>3. CASE T = {}
    BY <2>2, <2>3 DEF SumOf
  <2>4. CASE T # {}
    <3> DEFINE R == T \ {First(T)}
    <3>1. R \in SUBSET S /\ Cardinality(R) =< k
      BY <1>1, <1>2, <2>1, <2>4
    <3>2. Next1(sums)[R] = SumOf(f, sums, R) /\ sums[R] = SumOf(f, sums, R)
      BY <1>4, <3>1
    <3>3. SumOf(f, sums, T) = SumOf(f, Next1(sums), T)
      BY <2>4, <3>2 DEF SumOf
    <3> QED
      BY <2>2, <3>3
  <2> QED
    BY <2>3, <2>4
<1>5. n \in G
  <2>1. ASSUME NEW k \in 0 .. n - 1, k \in G PROVE k + 1 \in G
    <3>1. k \in Nat
      BY <1>1
    <3>2. PICK sums : Upto(sums, k)
      BY <2>1
    <3>3. Upto(Next1(sums), k + 1)
      BY <1>4, <3>1, <3>2
    <3>4. k + 1 \in Nat
      BY <3>1
    <3> QED
      BY <3>3, <3>4, Zenon
  <2> HIDE DEF G
  <2> QED
    BY <1>1, <1>3, <2>1, IntervalInduction
<1>6. PICK sums : Upto(sums, n)
  BY <1>5
<1>7. \A T \in SUBSET S : Next1(sums)[T] = sums[T]
  BY <1>1, <1>6
<1>8. \A T \in SUBSET S : SumOf(f, sums, T) = SumOf(f, Next1(sums), T)
  BY <1>2, <1>7 DEF SumOf
<1>9. Sums(f, S, Next1(sums))
  BY <1>8, Zenon DEF Sums, SumOf
<1> QED
  BY <1>9, Zenon

SumsOf(f, S) == CHOOSE sums : Sums(f, S, sums)

LEMMA SumsValue ==
  ASSUME NEW f, NEW S, IsFiniteSet(S), NEW T \in SUBSET S
  PROVE  SumsOf(f, S)[T] = SumOf(f, SumsOf(f, S), T)
<1>1. Sums(f, S, SumsOf(f, S))
  BY SumsExist DEF SumsOf
<1> HIDE DEF SumsOf
<1> QED
  BY <1>1 DEF Sums, SumOf

\* The sums over the subsets of a set are those over the subsets of a subset.
LEMMA SumsAgree ==
  ASSUME NEW f, NEW S, IsFiniteSet(S), NEW T \in SUBSET S
  PROVE  SumsOf(f, S)[T] = Total(f, T)
<1> DEFINE F == {U \in SUBSET T : SumsOf(f, S)[U] = SumsOf(f, T)[U]}
<1>1. IsFiniteSet(T)
  BY FS_Subset
<1>2. ASSUME NEW U \in SUBSET T, \A x \in U : U \ {x} \in F PROVE U \in F
  <2>1. /\ SumsOf(f, S)[U] = SumOf(f, SumsOf(f, S), U)
        /\ SumsOf(f, T)[U] = SumOf(f, SumsOf(f, T), U)
    BY <1>1, SumsValue
  <2>2. CASE U = {}
    BY <2>1, <2>2 DEF SumOf
  <2>3. CASE U # {}
    <3>1. First(U) \in U
      BY <2>3 DEF First
    <3>2. U \ {First(U)} \in F
      BY <1>2, <3>1
    <3> QED
      BY <2>1, <2>3, <3>2 DEF SumOf
  <2> QED
    BY <2>2, <2>3
<1> HIDE DEF F
<1>3. SUBSET T \subseteq F
  BY <1>1, <1>2, SubsetInduction
<1>4. SumsOf(f, S)[T] = SumsOf(f, T)[T]
  BY <1>3 DEF F
<1> QED
  BY <1>4, TotalIsSum DEF SumsOf

LEMMA TotalEmpty == \A f : Total(f, {}) = 0
<1> TAKE f
<1>1. IsFiniteSet({})
  BY FS_EmptySet
<1>2. SumsOf(f, {})[{}] = 0
  BY <1>1, SumsValue DEF SumOf
<1> QED
  BY <1>1, <1>2, SumsAgree

\* A sum is that of any one element and of the others.
LEMMA TotalStep ==
  ASSUME NEW f, NEW S, IsFiniteSet(S), \A p \in S : f[p] \in Int
  PROVE  /\ Total(f, S) \in Int
         /\ \A y \in S : /\ Total(f, S \ {y}) \in Int
                         /\ Total(f, S) = f[y] + Total(f, S \ {y})
<1> DEFINE F == {T \in SUBSET S :
                   /\ Total(f, T) \in Int
                   /\ \A y \in T : /\ Total(f, T \ {y}) \in Int
                                   /\ Total(f, T) = f[y] + Total(f, T \ {y})}
<1>1. ASSUME NEW T \in SUBSET S, \A x \in T : T \ {x} \in F PROVE T \in F
  <2>1. CASE T = {}
    BY <2>1, TotalEmpty
  <2>2. CASE T # {}
    <3> DEFINE x == First(T)
    <3>1. x \in T
      BY <2>2 DEF First
    <3>2. Total(f, T) = f[x] + Total(f, T \ {x})
      <4>1. /\ SumsOf(f, S)[T] = Total(f, T)
            /\ SumsOf(f, S)[T \ {x}] = Total(f, T \ {x})
        BY SumsAgree
      <4>2. SumsOf(f, S)[T] = SumOf(f, SumsOf(f, S), T)
        BY SumsValue
      <4>3. SumsOf(f, S)[T] = f[x] + SumsOf(f, S)[T \ {x}]
        BY <2>2, <4>2, Zenon DEF SumOf
      <4> QED
        BY <4>1, <4>3
    <3> HIDE DEF x
    <3>3. \A y \in T : Total(f, T \ {y}) \in Int
      BY <1>1
    <3>4. ASSUME NEW y \in T, y # x PROVE Total(f, T) = f[y] + Total(f, T \ {y})
      <4>1. /\ Total(f, T \ {x}) = f[y] + Total(f, (T \ {x}) \ {y})
            /\ Total(f, (T \ {x}) \ {y}) \in Int
        BY <1>1, <3>1, <3>4
      <4>2. Total(f, T \ {y}) = f[x] + Total(f, (T \ {y}) \ {x})
        BY <1>1, <3>1, <3>4
      <4>3. Total(f, (T \ {y}) \ {x}) = Total(f, (T \ {x}) \ {y})
        <5>1. (T \ {y}) \ {x} = (T \ {x}) \ {y}
          OBVIOUS
        <5> QED
          BY <5>1
      <4>4. f[x] \in Int /\ f[y] \in Int
        BY <3>1
      <4> HIDE DEF F
      <4> QED
        BY <3>2, <4>1, <4>2, <4>3, <4>4
    <3>5. f[x] \in Int /\ Total(f, T) \in Int
      BY <3>1, <3>2, <3>3
    <3> QED
      BY <3>2, <3>3, <3>4, <3>5
  <2> QED
    BY <2>1, <2>2
<1> HIDE DEF F
<1>2. SUBSET S \subseteq F
  BY <1>1, SubsetInduction
<1> QED
  BY <1>2 DEF F

\* The sum of numbers of the same set is monotone.
LEMMA TotalMonotone ==
  ASSUME NEW f, NEW g, NEW S, IsFiniteSet(S),
         \A p \in S : f[p] \in Int /\ g[p] \in Int /\ f[p] =< g[p]
  PROVE  Total(f, S) =< Total(g, S)
<1> DEFINE F == {T \in SUBSET S : Total(f, T) =< Total(g, T)}
<1>1. ASSUME NEW T \in SUBSET S, \A x \in T : T \ {x} \in F PROVE T \in F
  <2>1. CASE T = {}
    BY <2>1, TotalEmpty
  <2>2. CASE T # {}
    <3>1. PICK x \in T : TRUE
      BY <2>2
    <3>2. /\ IsFiniteSet(T) /\ T \ {x} \in F
          /\ \A p \in T : f[p] \in Int /\ g[p] \in Int
      BY <1>1, FS_Subset
    <3>3. /\ Total(f, T \ {x}) \in Int /\ Total(f, T) = f[x] + Total(f, T \ {x})
          /\ Total(g, T \ {x}) \in Int /\ Total(g, T) = g[x] + Total(g, T \ {x})
      BY <3>2, TotalStep
    <3>4. f[x] \in Int /\ g[x] \in Int /\ f[x] =< g[x]
      OBVIOUS
    <3>5. Total(f, T \ {x}) =< Total(g, T \ {x})
      BY <3>2
    <3>6. Total(f, T) =< Total(g, T)
      BY <3>3, <3>4, <3>5
    <3> QED
      BY <3>6
  <2> QED
    BY <2>1, <2>2
<1> HIDE DEF F
<1>2. SUBSET S \subseteq F
  BY <1>1, SubsetInduction
<1> QED
  BY <1>2 DEF F

\* Functions that agree on a set have the same sum over it.
LEMMA TotalSame ==
  ASSUME NEW f, NEW g, NEW S, IsFiniteSet(S),
         \A p \in S : f[p] \in Int /\ g[p] = f[p]
  PROVE  Total(f, S) = Total(g, S)
<1>1. Total(f, S) =< Total(g, S) /\ Total(g, S) =< Total(f, S)
  BY TotalMonotone
<1>2. Total(f, S) \in Int /\ Total(g, S) \in Int
  BY TotalStep
<1> QED
  BY <1>1, <1>2

\* A sum over two parts of a set.
LEMMA TotalUnion ==
  ASSUME NEW f, NEW S, IsFiniteSet(S), \A p \in S : f[p] \in Int, NEW U \in SUBSET S
  PROVE  /\ Total(f, S) = Total(f, U) + Total(f, S \ U)
         /\ Total(f, U) \in Int
         /\ Total(f, S \ U) \in Int
<1> DEFINE F == {T \in SUBSET U : Total(f, S) = Total(f, T) + Total(f, S \ T)}
<1>1. \A T \in SUBSET S : IsFiniteSet(T) /\ Total(f, T) \in Int
  BY FS_Subset, TotalStep
<1>2. ASSUME NEW T \in SUBSET U, \A x \in T : T \ {x} \in F PROVE T \in F
  <2>1. CASE T = {}
    <3>1. S \ T = S
      BY <2>1
    <3> QED
      BY <1>1, <2>1, <3>1, TotalEmpty
  <2>2. CASE T # {}
    <3>1. PICK x \in T : TRUE
      BY <2>2
    <3>2. Total(f, S) = Total(f, T \ {x}) + Total(f, S \ (T \ {x}))
      BY <1>2
    <3>3. Total(f, T) = f[x] + Total(f, T \ {x})
      BY <1>1, TotalStep
    <3>4. (S \ (T \ {x})) \ {x} = S \ T
      OBVIOUS
    <3>5. Total(f, S \ (T \ {x})) = f[x] + Total(f, (S \ (T \ {x})) \ {x})
      <4> DEFINE R == S \ (T \ {x})
      <4>1. R \in SUBSET S /\ x \in R
        OBVIOUS
      <4> HIDE DEF R
      <4>2. Total(f, R) = f[x] + Total(f, R \ {x})
        BY <1>1, <4>1, TotalStep
      <4> QED
        BY <4>2 DEF R
    <3>6. /\ f[x] \in Int
          /\ Total(f, S \ T) \in Int
          /\ Total(f, T \ {x}) \in Int
      BY <1>1
    <3>8. Total(f, S \ (T \ {x})) = f[x] + Total(f, S \ T)
      BY <3>4, <3>5
    <3>7. Total(f, S) = Total(f, T) + Total(f, S \ T)
      <4> HIDE DEF F
      <4> QED
        BY <3>2, <3>3, <3>6, <3>8
    <3> QED
      BY <3>7
  <2> QED
    BY <2>1, <2>2
<1> HIDE DEF F
<1>3. IsFiniteSet(U)
  BY <1>1
<1>4. SUBSET U \subseteq F
  BY <1>2, <1>3, SubsetInduction
<1> QED
  BY <1>1, <1>4 DEF F

LEMMA TotalSplit ==
  ASSUME NEW f, NEW S, IsFiniteSet(S), \A p \in S : f[p] \in Int
  PROVE  \A U \in SUBSET S : Total(f, S) = Total(f, U) + Total(f, S \ U)
BY TotalUnion

\* TotalStep for the subsets of a set.
LEMMA TotalParts ==
  ASSUME NEW f, NEW S, IsFiniteSet(S), \A p \in S : f[p] \in Int
  PROVE  \A T \in SUBSET S : \A y \in T :
           Total(f, T \ {y}) \in Int /\ Total(f, T) = f[y] + Total(f, T \ {y})
<1> TAKE T \in SUBSET S
<1>1. IsFiniteSet(T) /\ \A p \in T : f[p] \in Int
  BY FS_Subset
<1> QED
  BY <1>1, TotalStep

\* A sum of multiples.
LEMMA TotalScaled ==
  ASSUME NEW f, NEW g, NEW S, IsFiniteSet(S), NEW c \in Int,
         \A p \in S : f[p] \in Int /\ g[p] \in Int /\ g[p] = c * f[p]
  PROVE  Total(g, S) = c * Total(f, S)
<1> DEFINE F == {T \in SUBSET S : Total(g, T) = c * Total(f, T)}
<1>4. (\A p \in S : f[p] \in Int) /\ (\A p \in S : g[p] \in Int)
  OBVIOUS
<1>3. \A T \in SUBSET S : \A y \in T :
        Total(f, T \ {y}) \in Int /\ Total(f, T) = f[y] + Total(f, T \ {y})
  BY <1>4, TotalParts, ZenonT(30)
<1>5. \A T \in SUBSET S : \A y \in T :
        Total(g, T \ {y}) \in Int /\ Total(g, T) = g[y] + Total(g, T \ {y})
  BY <1>4, TotalParts, ZenonT(30)
<1>1. ASSUME NEW T \in SUBSET S, \A x \in T : T \ {x} \in F PROVE T \in F
  <2>1. CASE T = {}
    BY <2>1, TotalEmpty
  <2>2. CASE T # {}
    <3>1. PICK x \in T : TRUE
      BY <2>2
    <3>3. Total(f, T \ {x}) \in Int /\ Total(f, T) = f[x] + Total(f, T \ {x})
      BY <3>1, <1>3
    <3>8. Total(g, T \ {x}) \in Int /\ Total(g, T) = g[x] + Total(g, T \ {x})
      BY <3>1, <1>5
    <3>4. f[x] \in Int /\ g[x] = c * f[x]
      OBVIOUS
    <3>5. Total(g, T \ {x}) = c * Total(f, T \ {x})
      BY <1>1
    <3>6. \A a, b \in Int : c * (a + b) = c * a + c * b
      OBVIOUS
    <3>7. Total(g, T) = c * Total(f, T)
      BY <3>3, <3>4, <3>5, <3>6, <3>8
    <3> QED
      BY <3>7
  <2> QED
    BY <2>1, <2>2
<1> HIDE DEF F
<1>2. SUBSET S \subseteq F
  BY <1>1, SubsetInduction
<1> QED
  BY <1>2 DEF F

\* A sum of numbers that are not negative is none, and not below any of them.
LEMMA TotalOfNaturals ==
  ASSUME NEW f, NEW S, IsFiniteSet(S), \A p \in S : f[p] \in Nat
  PROVE  Total(f, S) \in Nat /\ \A p \in S : f[p] =< Total(f, S)
<1> DEFINE zero == [p \in S |-> 0]
           F == {T \in SUBSET S : Total(zero, T) = 0}
<1>1. ASSUME NEW T \in SUBSET S, \A x \in T : T \ {x} \in F PROVE T \in F
  <2>1. CASE T = {}
    BY <2>1, TotalEmpty
  <2>2. CASE T # {}
    <3>1. PICK x \in T : TRUE
      BY <2>2
    <3>2. IsFiniteSet(T) /\ T \ {x} \in F
      BY <1>1, FS_Subset
    <3>3. Total(zero, T) = zero[x] + Total(zero, T \ {x})
      BY <3>2, TotalStep
    <3> QED
      BY <3>2, <3>3
  <2> QED
    BY <2>1, <2>2
<1> HIDE DEF F
<1>2. SUBSET S \subseteq F
  BY <1>1, SubsetInduction
<1>3. \A T \in SUBSET S : IsFiniteSet(T) /\ Total(zero, T) = 0
  BY <1>2, FS_Subset DEF F
<1>4. ASSUME NEW T \in SUBSET S PROVE Total(f, T) \in Nat
  <2>1. Total(zero, T) =< Total(f, T)
    <3>1. \A p \in T : zero[p] \in Int /\ f[p] \in Int /\ zero[p] =< f[p]
      OBVIOUS
    <3> HIDE DEF zero
    <3> QED
      BY <1>3, <3>1, TotalMonotone
  <2>2. Total(f, T) \in Int
    BY <1>3, TotalStep
  <2> QED
    BY <1>3, <2>1, <2>2
<1>5. ASSUME NEW p \in S PROVE f[p] =< Total(f, S)
  <2>1. Total(f, S) = f[p] + Total(f, S \ {p})
    BY TotalStep
  <2>2. Total(f, S \ {p}) \in Nat
    BY <1>4
  <2> QED
    BY <2>1, <2>2
<1> QED
  BY <1>4, <1>5

-----------------------------------------------------------------------------
(* Arithmetic, and the amounts of the model. *)

LEMMA DivBounds ==
  ASSUME NEW a \in Nat, NEW b \in Nat \ {0}
  PROVE  /\ a \div b \in Nat
         /\ (a \div b) * b =< a
         /\ a < ((a \div b) + 1) * b
OBVIOUS

LEMMA DivAtMost ==
  ASSUME NEW a \in Nat, NEW b \in Nat \ {0}, NEW q \in Int
  PROVE  /\ a < (q + 1) * b => a \div b =< q
         /\ a >= q * b => a \div b >= q
OBVIOUS

LEMMA ModBounds ==
  ASSUME NEW a \in Int, NEW b \in Nat \ {0}
  PROVE  /\ a % b \in 0 .. b - 1
         /\ a \in 0 .. b - 1 => a % b = a
         /\ a \in Nat => a % b =< a
OBVIOUS

LEMMA Times ==
  ASSUME NEW a \in Nat, NEW b \in Nat, NEW c \in Nat
  PROVE  a * c \in Nat /\ (a =< b => a * c =< b * c)
OBVIOUS

LEMMA Cancel ==
  ASSUME NEW a \in Int, NEW b \in Int, NEW c \in Nat \ {0}
  PROVE  (a * c =< b * c <=> a =< b) /\ (a * c < b * c <=> a < b)
OBVIOUS

\* The products of the throttle fit; a share times the scale does because the
\* scale is no larger than the interval that the share was divided by.
LEMMA ShareFits ==
  ASSUME NEW b \in Nat, NEW e \in Elapsed, b * e < WORD
  PROVE  /\ Share(b, e) \in Nat
         /\ Share(b, e) * SCALE < WORD
<1>1. /\ e \in Nat \ {0} /\ SCALE \in Nat \ {0} /\ SCALE =< INTERVAL
      /\ INTERVAL \in Nat \ {0} /\ WORD \in Nat \ {0}
  BY BandwidthAssumption
<1> DEFINE m == b * e
<1>2. m \in Nat /\ m < WORD
  BY <1>1
<1>3. Share(b, e) = (m % WORD) \div INTERVAL
  BY DEF Share
<1> HIDE DEF m
<1>4. m % WORD = m
  BY <1>1, <1>2
<1> DEFINE q == m \div INTERVAL
<1>5. q \in Nat /\ q * INTERVAL =< m
  BY <1>1, <1>2, DivBounds
<1>6. Share(b, e) = q
  BY <1>3, <1>4
<1> HIDE DEF q
<1>7. q * SCALE \in Nat /\ q * SCALE =< q * INTERVAL
  <2>1. SCALE * q =< INTERVAL * q /\ SCALE * q \in Nat
    BY <1>1, <1>5, Times
  <2> QED
    BY <1>1, <1>5, <2>1
<1>8. q * INTERVAL \in Nat
  BY <1>1, <1>5
<1>9. q * SCALE < WORD
  BY <1>1, <1>2, <1>5, <1>7, <1>8
<1> QED
  BY <1>5, <1>6, <1>9

LEMMA PeerAmounts ==
  ASSUME TypeOK, NEW e \in Elapsed, NEW p \in Peers
  PROVE  /\ incomingBandwidth[p] \in Nat
         /\ outgoingBandwidth[p] \in 0 .. WORD - 1
         /\ outgoingDataTotal[p] \in Nat
         /\ PeerShare(p, e) \in Nat
         /\ PeerShare(p, e) * SCALE < WORD
         /\ outgoingDataTotal[p] * SCALE < WORD
         /\ outgoingDataTotal[p] * Cardinality(Peers) < WORD
<1>1. /\ e \in Nat \ {0} /\ SCALE \in Nat \ {0} /\ WORD \in Nat \ {0}
      /\ Bursts \subseteq Nat
      /\ Limits \subseteq LimitType /\ IsFiniteSet(Peers)
  BY BandwidthAssumption
<1>2. /\ incomingBandwidth[p] \in {l.incoming : l \in Limits} \cup {0}
      /\ outgoingBandwidth[p] \in {l.outgoing : l \in Limits} \cup {0}
      /\ outgoingDataTotal[p] \in Bursts \cup {0}
  BY DEF TypeOK
<1>3. \A c \in Nat : 0 * c < WORD
  BY <1>1
<1>4. incomingBandwidth[p] \in Nat /\ incomingBandwidth[p] * e < WORD
  <2>1. CASE incomingBandwidth[p] = 0
    BY <1>1, <1>3, <2>1
  <2>2. ASSUME NEW l \in Limits, incomingBandwidth[p] = l.incoming
        PROVE  incomingBandwidth[p] \in Nat /\ incomingBandwidth[p] * e < WORD
    BY <1>1, <2>2, FitsAssumption DEF Fits, LimitType
  <2> QED
    BY <1>2, <2>1, <2>2
<1>5. outgoingBandwidth[p] \in Nat /\ outgoingBandwidth[p] < WORD
  <2>1. CASE outgoingBandwidth[p] = 0
    BY <1>1, <2>1
  <2>2. ASSUME NEW l \in Limits, outgoingBandwidth[p] = l.outgoing
        PROVE  outgoingBandwidth[p] \in Nat /\ outgoingBandwidth[p] < WORD
    BY <1>1, <2>2, FitsAssumption DEF Fits, LimitType
  <2> QED
    BY <1>2, <2>1, <2>2
<1>6. Cardinality(Peers) \in Nat
  BY <1>1, FS_CardinalityType
<1>7. /\ outgoingDataTotal[p] \in Nat
      /\ outgoingDataTotal[p] * SCALE < WORD
      /\ outgoingDataTotal[p] * Cardinality(Peers) < WORD
  <2>1. CASE outgoingDataTotal[p] = 0
    BY <1>1, <1>3, <1>6, <2>1
  <2>2. CASE outgoingDataTotal[p] \in Bursts
    BY <1>1, <2>2, FitsAssumption DEF Fits
  <2> QED
    BY <1>2, <2>1, <2>2
<1>8. PeerShare(p, e) \in Nat /\ PeerShare(p, e) * SCALE < WORD
  BY <1>4, ShareFits DEF PeerShare
<1> QED
  BY <1>1, <1>4, <1>5, <1>7, <1>8

LEMMA HostAmounts ==
  ASSUME TypeOK, NEW e \in Elapsed
  PROVE  /\ hostLimits.incoming \in 0 .. WORD - 1
         /\ hostLimits.outgoing \in Nat
         /\ Share(hostLimits.outgoing, e) \in Nat
         /\ Share(hostLimits.outgoing, e) * SCALE < WORD
<1>1. /\ WORD \in Nat \ {0}
      /\ hostLimits \in LimitType /\ hostLimits \in HostLimits
  BY BandwidthAssumption DEF TypeOK
<1>2. hostLimits.incoming < WORD /\ hostLimits.outgoing * e < WORD
  BY <1>1, FitsAssumption DEF Fits
<1>3. hostLimits.incoming \in Nat /\ hostLimits.outgoing \in Nat
  BY <1>1 DEF LimitType
<1>4. Share(hostLimits.outgoing, e) \in Nat /\ Share(hostLimits.outgoing, e) * SCALE < WORD
  BY <1>2, <1>3, ShareFits
<1> QED
  BY <1>1, <1>2, <1>3, <1>4

\* A sum of equal numbers.
LEMMA TotalConstant ==
  ASSUME NEW f, NEW S, IsFiniteSet(S), NEW c \in Nat, \A p \in S : f[p] = c
  PROVE  Total(f, S) = c * Cardinality(S)
<1> DEFINE F == {T \in SUBSET S : Total(f, T) = c * Cardinality(T)}
<1>1. \A T \in SUBSET S : \A y \in T :
        Total(f, T \ {y}) \in Int /\ Total(f, T) = f[y] + Total(f, T \ {y})
  <2>1. \A p \in S : f[p] \in Int
    OBVIOUS
  <2> QED
    BY <2>1, TotalParts, ZenonT(30)
<1>2. \A T \in SUBSET S : \A y \in T : /\ Cardinality(T \ {y}) \in Nat
                                       /\ Cardinality(T) = Cardinality(T \ {y}) + 1
  <2>1. ASSUME NEW T \in SUBSET S, NEW y \in T
        PROVE  /\ Cardinality(T \ {y}) \in Nat
               /\ Cardinality(T) = Cardinality(T \ {y}) + 1
    <3>1. IsFiniteSet(T) /\ IsFiniteSet(T \ {y})
      BY FS_Subset
    <3>2. Cardinality(T) \in Nat /\ Cardinality(T \ {y}) \in Nat
      BY <3>1, FS_CardinalityType
    <3>3. Cardinality(T \ {y}) = Cardinality(T) - 1
      BY <3>1, FS_RemoveElement
    <3> QED
      BY <3>2, <3>3
  <2> QED
    BY <2>1
<1>3. ASSUME NEW T \in SUBSET S, \A x \in T : T \ {x} \in F PROVE T \in F
  <2>1. CASE T = {}
    <3>1. Cardinality(T) = 0 /\ Total(f, T) = 0
      BY <2>1, TotalEmpty, FS_EmptySet
    <3> QED
      BY <3>1
  <2>2. CASE T # {}
    <3>1. PICK x \in T : TRUE
      BY <2>2
    <3> DEFINE n == Cardinality(T \ {x})
               t == Total(f, T \ {x})
    <3>2. t = c * n
      BY <1>3, <3>1
    <3>3. n \in Nat /\ t \in Int /\ f[x] = c
      BY <1>1, <1>2, <3>1
    <3>4. Total(f, T) = f[x] + t /\ Cardinality(T) = n + 1
      BY <1>1, <1>2, <3>1
    <3> HIDE DEF n, t
    <3>5. c * (n + 1) = c * n + c /\ c * n \in Nat
      BY <3>3
    <3>6. Total(f, T) = c * Cardinality(T)
      BY <3>2, <3>3, <3>4, <3>5
    <3> QED
      BY <3>6
  <2> QED
    BY <2>1, <2>2
<1> HIDE DEF F
<1>4. SUBSET S \subseteq F
  BY <1>3, SubsetInduction
<1> QED
  BY <1>4 DEF F

\* A sum of numbers none of which is above a bound.
LEMMA TotalBounded ==
  ASSUME NEW f, NEW S, IsFiniteSet(S), NEW c \in Nat,
         \A p \in S : f[p] \in Nat /\ f[p] =< c
  PROVE  Total(f, S) =< c * Cardinality(S)
<1> DEFINE g == [p \in S |-> c]
<1>1. \A p \in S : f[p] \in Int /\ g[p] \in Int /\ f[p] =< g[p] /\ g[p] = c
  OBVIOUS
<1> HIDE DEF g
<1>2. Total(g, S) = c * Cardinality(S)
  BY <1>1, TotalConstant
<1>3. Total(f, S) =< Total(g, S)
  BY <1>1, TotalMonotone
<1> QED
  BY <1>2, <1>3

\* One of finitely many numbers is the greatest.
LEMMA GreatestOf ==
  ASSUME NEW f, NEW S, IsFiniteSet(S), \A p \in S : f[p] \in Nat, S # {}
  PROVE  \E m \in S : \A p \in S : f[p] =< f[m]
<1> DEFINE F == {T \in SUBSET S : T # {} => \E m \in T : \A p \in T : f[p] =< f[m]}
<1>1. ASSUME NEW T \in SUBSET S, \A x \in T : T \ {x} \in F PROVE T \in F
  <2>1. CASE T = {}
    BY <2>1
  <2>2. CASE T # {}
    <3>1. PICK x \in T : TRUE
      BY <2>2
    <3>2. CASE T \ {x} = {}
      <4>1. \A p \in T : p = x
        BY <3>2
      <4> QED
        BY <3>1, <4>1
    <3>3. CASE T \ {x} # {}
      <4>1. PICK m \in T \ {x} : \A p \in T \ {x} : f[p] =< f[m]
        BY <1>1, <3>1, <3>3
      <4>2. CASE f[x] =< f[m]
        <5>1. \A p \in T : f[p] =< f[m]
          BY <4>1, <4>2
        <5> QED
          BY <4>1, <5>1
      <4>3. CASE f[m] =< f[x]
        <5>1. \A p \in T : f[p] =< f[x]
          BY <4>1, <4>3
        <5> QED
          BY <3>1, <5>1
      <4> QED
        BY <4>2, <4>3, <3>1, <4>1
    <3> QED
      BY <3>2, <3>3
  <2> QED
    BY <2>1, <2>2
<1> HIDE DEF F
<1>2. SUBSET S \subseteq F
  BY <1>1, SubsetInduction
<1> QED
  BY <1>2 DEF F

\* The data of all peers of an interval fits too.
LEMMA DataFits ==
  ASSUME TypeOK, NEW e \in Elapsed
  PROVE  /\ IsFiniteSet(Up)
         /\ Total(outgoingDataTotal, Up) \in Nat
         /\ Total(outgoingDataTotal, Up) < WORD
<1> DEFINE data == outgoingDataTotal
           total == Total(data, Up)
<1>1. /\ WORD \in Nat \ {0} /\ IsFiniteSet(Peers)
      /\ Up \subseteq Peers
  BY BandwidthAssumption DEF Up
<1>2. IsFiniteSet(Up) /\ Cardinality(Peers) \in Nat /\ Cardinality(Up) \in Nat
      /\ Cardinality(Up) =< Cardinality(Peers)
  BY <1>1, FS_Subset, FS_CardinalityType
<1>3. \A p \in Up : data[p] \in Nat /\ data[p] * Cardinality(Peers) < WORD
  BY <1>1, PeerAmounts
<1>4. total \in Nat
  BY <1>2, <1>3, TotalOfNaturals
<1>5. total < WORD
  <2>1. CASE Up = {}
    BY <1>1, <2>1, TotalEmpty
  <2>2. CASE Up # {}
    <3>1. PICK m \in Up : \A p \in Up : data[p] =< data[m]
      BY <1>2, <1>3, <2>2, GreatestOf
    <3> DEFINE c == data[m]
               n == Cardinality(Peers)
               u == Cardinality(Up)
    <3>2. c \in Nat /\ c * n < WORD /\ n \in Nat /\ u \in Nat /\ u =< n
      BY <1>2, <1>3
    <3>3. total =< c * u
      BY <1>2, <1>3, <3>1, TotalBounded
    <3> HIDE DEF c, n, u, total
    <3>4. u * c =< n * c /\ u * c = c * u /\ n * c = c * n /\ c * n \in Nat
      BY <3>2, Times
    <3> QED
      BY <1>1, <1>4, <3>2, <3>3, <3>4
  <2> QED
    BY <2>1, <2>2
<1> QED
  BY <1>2, <1>4, <1>5

-----------------------------------------------------------------------------
(* The rounds of the outgoing side. *)

Shares(e) == [p \in Peers |-> PeerShare(p, e)]

\* What the loop keeps: a peer is adjusted only when it was sent more than it can
\* take, and what is left of bandwidth and data is what the adjusted peers do not
\* take.
RoundOK(r, e) ==
  /\ r.adjusted \subseteq Up
  /\ r.bandwidth \in 0 .. WORD - 1
  /\ r.dataTotal \in 0 .. WORD - 1
  /\ \A p \in r.adjusted : /\ incomingBandwidth[p] # 0
                           /\ PeerShare(p, e) < outgoingDataTotal[p]
  /\ hostLimits.outgoing = 0 => r.dataTotal = r.bandwidth
  /\ hostLimits.outgoing # 0 =>
       /\ r.bandwidth = Share(hostLimits.outgoing, e) - Total(Shares(e), r.adjusted)
       /\ r.dataTotal = Total(outgoingDataTotal, Up) - Total(Shares(e), r.adjusted)

LEMMA UpAmounts ==
  ASSUME TypeOK, NEW e \in Elapsed
  PROVE  /\ IsFiniteSet(Up)
         /\ \A S \in SUBSET Up : IsFiniteSet(S)
         /\ \A p \in Up : /\ Shares(e)[p] = PeerShare(p, e)
                          /\ Shares(e)[p] \in Nat
                          /\ outgoingDataTotal[p] \in Nat
         /\ \A S \in SUBSET Up : /\ Total(Shares(e), S) \in Nat
                                 /\ Total(outgoingDataTotal, S) \in Nat
<1>1. IsFiniteSet(Up)
  BY DataFits
<1>2. \A S \in SUBSET Up : IsFiniteSet(S)
  BY <1>1, FS_Subset
<1>3. \A p \in Up : /\ Shares(e)[p] = PeerShare(p, e)
                    /\ Shares(e)[p] \in Nat
                    /\ outgoingDataTotal[p] \in Nat
  <2>1. Up \subseteq Peers
    BY DEF Up
  <2>2. \A p \in Peers : Shares(e)[p] = PeerShare(p, e)
    BY DEF Shares
  <2> QED
    BY <2>1, <2>2, PeerAmounts
<1>4. ASSUME NEW S \in SUBSET Up
      PROVE  Total(Shares(e), S) \in Nat /\ Total(outgoingDataTotal, S) \in Nat
  BY <1>2, <1>3, TotalOfNaturals
<1> QED
  BY <1>1, <1>2, <1>3, <1>4

\* The common throttle is at most the whole, and sends no more than what is left
\* of the host's bandwidth.
LEMMA CommonThrottleBounds ==
  ASSUME TypeOK, NEW e \in Elapsed, NEW r, RoundOK(r, e)
  PROVE  /\ CommonThrottle(r) \in 0 .. SCALE
         /\ hostLimits.outgoing # 0 =>
              CommonThrottle(r) * r.dataTotal =< r.bandwidth * SCALE
<1> DEFINE b == r.bandwidth
           d == r.dataTotal
           c == CommonThrottle(r)
           host == Share(hostLimits.outgoing, e)
<1>1. SCALE \in Nat \ {0} /\ WORD \in Nat \ {0} /\ b \in 0 .. WORD - 1 /\ d \in 0 .. WORD - 1
  BY BandwidthAssumption DEF RoundOK
<1>2. CASE d =< b
  <2>1. c = SCALE
    BY <1>2 DEF CommonThrottle
  <2> HIDE DEF b, d, c
  <2>2. d * SCALE =< b * SCALE /\ c * d = d * SCALE
    BY <1>1, <1>2, <2>1, Times
  <2> QED
    BY <1>1, <2>1, <2>2 DEF b, d, c
<1>3. CASE d > b
  <2> DEFINE m == (b * SCALE) % WORD
  <2>1. c = m \div d
    BY <1>1, <1>3 DEF CommonThrottle
  <2>2. b * SCALE \in Nat
    BY <1>1
  <2>3. m \in Nat /\ m =< b * SCALE
    <3> DEFINE x == b * SCALE
    <3> HIDE DEF x
    <3>1. x \in Nat => x % WORD \in Nat /\ x % WORD =< x
      BY <1>1
    <3> QED
      BY <2>2, <3>1 DEF x
  <2> HIDE DEF m, b, d, c
  <2>4. d \in Nat \ {0}
    BY <1>1, <1>3
  <2>5. c \in Nat /\ c * d =< m
    BY <2>1, <2>3, <2>4, DivBounds
  <2>6. c * d =< b * SCALE
    BY <2>2, <2>3, <2>4, <2>5
  <2>7. c =< SCALE
    <3>1. b * SCALE =< d * SCALE
      BY <1>1, <1>3, Times
    <3>2. c * d =< SCALE * d
      BY <1>1, <2>4, <2>5, <2>6, <3>1
    <3> QED
      BY <1>1, <2>4, <2>5, <3>2, Cancel
  <2> QED
    BY <1>1, <2>5, <2>6, <2>7 DEF b, d, c
<1> QED
  BY <1>1, <1>2, <1>3

\* A peer that is overwhelmed is sent, and was sent, more than it can take.
LEMMA OverwhelmedAmounts ==
  ASSUME TypeOK, NEW e \in Elapsed, NEW r, RoundOK(r, e), NEW p \in Up
  PROVE  LET c == CommonThrottle(r)
             sent == c * outgoingDataTotal[p]
         IN /\ sent \in Nat
            /\ sent % WORD = sent
            /\ p \in Overwhelmed(r, e) => /\ PeerShare(p, e) * SCALE < sent
                                          /\ PeerShare(p, e) < outgoingDataTotal[p]
<1> DEFINE c == CommonThrottle(r)
           x == outgoingDataTotal[p]
           share == PeerShare(p, e)
           sent == c * x
<1>1. /\ SCALE \in Nat \ {0} /\ WORD \in Nat \ {0} /\ c \in 0 .. SCALE
      /\ x \in Nat /\ x * SCALE < WORD /\ share \in Nat
  <2>1. p \in Peers
    BY DEF Up
  <2> QED
    BY <2>1, BandwidthAssumption, CommonThrottleBounds, PeerAmounts
<1>2. p \in Overwhelmed(r, e) => (sent % WORD) \div SCALE > share
  BY DEF Overwhelmed
<1> HIDE DEF c, x, share
<1>3. sent \in Nat /\ sent =< SCALE * x /\ SCALE * x = x * SCALE
  BY <1>1, Times
<1>4. sent % WORD = sent
  <2> HIDE DEF sent
  <2>1. sent < WORD
    BY <1>1, <1>3
  <2> QED
    BY <1>1, <1>3, <2>1, ModBounds
<1>5. ASSUME p \in Overwhelmed(r, e)
      PROVE  share * SCALE < sent /\ share < x
  <2> HIDE DEF sent
  <2> DEFINE q == sent \div SCALE
  <2>1. q > share
    BY <1>2, <1>4, <1>5
  <2>2. q \in Nat /\ q * SCALE =< sent
    BY <1>1, <1>3, DivBounds
  <2> HIDE DEF q
  <2>3. share * SCALE < q * SCALE
    BY <1>1, <2>1, <2>2, Cancel
  <2>4. share * SCALE < sent
    <3>1. share * SCALE \in Nat /\ q * SCALE \in Nat
      BY <1>1, <2>2
    <3> QED
      BY <1>3, <2>2, <2>3, <3>1
  <2>5. share * SCALE < x * SCALE
    <3>1. share * SCALE \in Nat /\ x * SCALE \in Nat
      BY <1>1
    <3> QED
      BY <1>3, <2>4, <3>1
  <2>6. share < x
    BY <1>1, <2>5, Cancel
  <2> QED
    BY <2>4, <2>6
<1> QED
  BY <1>3, <1>4, <1>5 DEF c, x, share

\* What the peers that are overwhelmed can take is within what is left.
LEMMA TakenFits ==
  ASSUME TypeOK, NEW e \in Elapsed, NEW r, RoundOK(r, e), hostLimits.outgoing # 0
  PROVE  LET taken == Total(Shares(e), Overwhelmed(r, e))
         IN taken \in Nat /\ taken =< r.bandwidth /\ taken =< r.dataTotal
<1> DEFINE over == Overwhelmed(r, e)
           data == outgoingDataTotal
           share == Shares(e)
           rest == Up \ r.adjusted
           c == CommonThrottle(r)
           taken == Total(share, over)
<1>1. /\ SCALE \in Nat \ {0}
      /\ c \in 0 .. SCALE
      /\ c * r.dataTotal =< r.bandwidth * SCALE
      /\ r.dataTotal \in Nat /\ r.bandwidth \in Nat
  BY BandwidthAssumption, CommonThrottleBounds DEF RoundOK
<1>2. over \in SUBSET rest /\ rest \in SUBSET Up /\ r.adjusted \in SUBSET Up
  BY DEF Overwhelmed, RoundOK
<1>3. /\ \A S \in SUBSET Up : IsFiniteSet(S)
      /\ \A S \in SUBSET Up : Total(share, S) \in Nat /\ Total(data, S) \in Nat
      /\ \A p \in Up : share[p] = PeerShare(p, e) /\ share[p] \in Nat /\ data[p] \in Nat
  BY UpAmounts
<1>4. \A p \in over : share[p] * SCALE < c * data[p] /\ share[p] < data[p]
  <2> HIDE DEF share
  <2> QED
    BY <1>2, <1>3, OverwhelmedAmounts
\* The data of the peers that are not adjusted is part of what is left.
<1>5. Total(data, rest) =< r.dataTotal
  <2>1. Total(data, Up) = Total(data, r.adjusted) + Total(data, rest)
    <3>1. IsFiniteSet(Up) /\ \A p \in Up : data[p] \in Int
      BY <1>3
    <3>2. \A U \in SUBSET Up : Total(data, Up) = Total(data, U) + Total(data, Up \ U)
      BY <3>1, TotalSplit
    <3> QED
      BY <1>2, <3>2
  <2>2. Total(share, r.adjusted) =< Total(data, r.adjusted)
    <3>1. \A p \in r.adjusted : share[p] \in Int /\ data[p] \in Int /\ share[p] =< data[p]
      BY <1>2, <1>3 DEF RoundOK
    <3> HIDE DEF share
    <3> QED
      BY <1>2, <1>3, <3>1, TotalMonotone
  <2>3. r.dataTotal = Total(data, Up) - Total(share, r.adjusted)
    BY DEF RoundOK
  <2> HIDE DEF share, rest
  <2> QED
    BY <1>2, <1>3, <2>1, <2>2, <2>3
<1>6. Total(data, over) =< Total(data, rest)
  <2>1. IsFiniteSet(rest) /\ \A p \in rest : data[p] \in Int
    BY <1>2, <1>3
  <2>2. Total(data, rest) = Total(data, over) + Total(data, rest \ over)
    BY <1>2, <2>1, TotalUnion
  <2>3. rest \ over \in SUBSET Up
    BY <1>2
  <2>4. Total(data, rest \ over) \in Nat /\ Total(data, over) \in Nat
    BY <1>2, <1>3, <2>3
  <2> QED
    BY <2>2, <2>4
<1>7. taken \in Nat /\ taken =< Total(data, over)
  <2>1. \A p \in over : share[p] \in Int /\ data[p] \in Int /\ share[p] =< data[p]
    BY <1>2, <1>3, <1>4
  <2>2. IsFiniteSet(over) /\ over \in SUBSET Up
    BY <1>2, <1>3
  <2> HIDE DEF share, over
  <2> QED
    BY <1>3, <2>1, <2>2, TotalMonotone
<1>8. taken * SCALE =< c * Total(data, over)
  <2> DEFINE f == [p \in over |-> SCALE * share[p]]
             g == [p \in over |-> c * data[p]]
  <2>1. \A p \in over : /\ share[p] \in Int /\ data[p] \in Int
                        /\ f[p] \in Int /\ f[p] = SCALE * share[p]
                        /\ g[p] \in Int /\ g[p] = c * data[p]
                        /\ f[p] =< g[p]
    <3> SUFFICES ASSUME NEW p \in over
                 PROVE  /\ share[p] \in Int /\ data[p] \in Int
                        /\ f[p] \in Int /\ f[p] = SCALE * share[p]
                        /\ g[p] \in Int /\ g[p] = c * data[p]
                        /\ f[p] =< g[p]
      OBVIOUS
    <3>1. share[p] \in Nat /\ data[p] \in Nat /\ share[p] * SCALE < c * data[p]
      BY <1>2, <1>3, <1>4
    <3>2. f[p] = SCALE * share[p] /\ g[p] = c * data[p]
      OBVIOUS
    <3> HIDE DEF f, g, c, share
    <3>3. /\ SCALE * share[p] \in Int /\ c * data[p] \in Int
          /\ SCALE * share[p] = share[p] * SCALE
      BY <1>1, <3>1
    <3> QED
      BY <3>1, <3>2, <3>3
  <2>2. IsFiniteSet(over) /\ over \in SUBSET Up
    BY <1>2, <1>3
  <2> HIDE DEF f, g, over, share, c
  <2>3. Total(f, over) =< Total(g, over)
    BY <2>1, <2>2, TotalMonotone
  <2>4. Total(f, over) = SCALE * Total(share, over)
    BY <1>1, <2>1, <2>2, TotalScaled
  <2>5. Total(g, over) = c * Total(data, over)
    BY <1>1, <2>1, <2>2, TotalScaled
  <2>6. SCALE * Total(share, over) = Total(share, over) * SCALE
    BY <1>1, <1>7
  <2> QED
    BY <2>3, <2>4, <2>5, <2>6
<1> DEFINE x == Total(data, over)
           d == r.dataTotal
           b == r.bandwidth
<1>9. x \in Nat /\ x =< d
  <2> HIDE DEF over, rest, share
  <2> QED
    BY <1>1, <1>2, <1>3, <1>5, <1>6
<1>10. taken \in Nat /\ taken =< x /\ taken * SCALE =< c * x
  BY <1>7, <1>8
<1> HIDE DEF x, taken, c
<1>11. d \in Nat /\ b \in Nat /\ c \in Nat /\ c * d =< b * SCALE
  BY <1>1
<1> HIDE DEF d, b
<1>12. x * c =< d * c /\ x * c = c * x /\ d * c = c * d
  BY <1>9, <1>11, Times
<1>13. taken * SCALE =< b * SCALE
  <2>1. taken * SCALE \in Nat /\ c * x \in Nat /\ c * d \in Nat /\ b * SCALE \in Nat
    BY <1>1, <1>9, <1>10, <1>11
  <2> QED
    BY <1>10, <1>11, <1>12, <2>1
<1>14. taken =< b
  BY <1>1, <1>10, <1>11, <1>13, Cancel
<1>15. taken =< d
  BY <1>9, <1>10, <1>11
<1> QED
  BY <1>10, <1>14, <1>15 DEF taken, b, d

LEMMA FirstRoundOK ==
  ASSUME TypeOK, NEW e \in Elapsed
  PROVE  RoundOK(FirstRound(e), e)
<1>1. WORD \in Nat \ {0} /\ SCALE \in Nat \ {0}
  BY BandwidthAssumption
<1>2. Total(Shares(e), {}) = 0
  BY TotalEmpty
<1>3. CASE hostLimits.outgoing = 0
  BY <1>1, <1>3 DEF FirstRound, RoundOK
<1>4. CASE hostLimits.outgoing # 0
  <2> DEFINE host == Share(hostLimits.outgoing, e)
             total == Total(outgoingDataTotal, Up)
  <2>1. host \in Nat /\ host * SCALE < WORD /\ total \in Nat /\ total < WORD
    BY HostAmounts, DataFits
  <2>2. FirstRound(e) = [adjusted |-> {}, bandwidth |-> host, dataTotal |-> total % WORD]
    BY <1>4 DEF FirstRound
  <2> HIDE DEF host, total
  <2>3. host < WORD
    <3>1. host * 1 =< host * SCALE
      BY <1>1, <2>1
    <3> QED
      BY <1>1, <2>1, <3>1
  <2>4. total % WORD = total
    BY <1>1, <2>1, ModBounds
  <2> QED
    BY <1>1, <1>2, <1>4, <2>1, <2>2, <2>3, <2>4 DEF RoundOK, host, total
<1> QED
  BY <1>3, <1>4

LEMMA NextRoundOK ==
  ASSUME TypeOK, NEW e \in Elapsed, NEW r, RoundOK(r, e)
  PROVE  RoundOK(NextRound(r, e), e)
<1> DEFINE over == Overwhelmed(r, e)
           share == Shares(e)
           taken == Total(share, over)
           n == NextRound(r, e)
<1>1. WORD \in Nat \ {0}
  BY BandwidthAssumption
<1>2. over \in SUBSET (Up \ r.adjusted) /\ r.adjusted \in SUBSET Up
  BY DEF Overwhelmed, RoundOK
<1>3. /\ n.adjusted = r.adjusted \cup over
      /\ n.bandwidth = (r.bandwidth - taken) % WORD
      /\ n.dataTotal = (r.dataTotal - taken) % WORD
  BY DEF NextRound, Shares
<1>4. /\ \A S \in SUBSET Up : IsFiniteSet(S) /\ Total(share, S) \in Nat
      /\ \A p \in Up : share[p] = PeerShare(p, e) /\ share[p] \in Int
  BY UpAmounts
<1>5. taken \in Nat
  <2>1. over \in SUBSET Up
    BY <1>2
  <2> QED
    BY <1>4, <2>1
<1>6. r.bandwidth \in 0 .. WORD - 1 /\ r.dataTotal \in 0 .. WORD - 1
  BY DEF RoundOK
<1>7. /\ n.bandwidth \in 0 .. WORD - 1
      /\ n.dataTotal \in 0 .. WORD - 1
  <2> HIDE DEF taken, n
  <2>1. r.bandwidth - taken \in Int /\ r.dataTotal - taken \in Int
    BY <1>5, <1>6
  <2>2. \A x \in Int : x % WORD \in 0 .. WORD - 1
    BY <1>1
  <2> QED
    BY <1>3, <2>1, <2>2, Zenon
<1>8. \A p \in n.adjusted : incomingBandwidth[p] # 0 /\ PeerShare(p, e) < outgoingDataTotal[p]
  <2>1. \A p \in r.adjusted : incomingBandwidth[p] # 0 /\ PeerShare(p, e) < outgoingDataTotal[p]
    BY DEF RoundOK
  <2>2. \A p \in over : incomingBandwidth[p] # 0 /\ PeerShare(p, e) < outgoingDataTotal[p]
    <3>1. \A p \in over : incomingBandwidth[p] # 0
      BY DEF Overwhelmed
    <3>2. \A p \in over : PeerShare(p, e) < outgoingDataTotal[p]
      BY <1>2, OverwhelmedAmounts
    <3> QED
      BY <3>1, <3>2
  <2> QED
    BY <1>3, <2>1, <2>2
<1>9. hostLimits.outgoing = 0 => n.dataTotal = n.bandwidth
  BY <1>3 DEF RoundOK
<1>10. ASSUME hostLimits.outgoing # 0
       PROVE  /\ n.bandwidth = Share(hostLimits.outgoing, e) - Total(share, n.adjusted)
              /\ n.dataTotal = Total(outgoingDataTotal, Up) - Total(share, n.adjusted)
  <2>1. taken =< r.bandwidth /\ taken =< r.dataTotal
    BY <1>10, TakenFits
  <2>2. n.bandwidth = r.bandwidth - taken /\ n.dataTotal = r.dataTotal - taken
    <3> HIDE DEF taken, n
    <3>1. r.bandwidth - taken \in 0 .. WORD - 1 /\ r.dataTotal - taken \in 0 .. WORD - 1
      BY <1>1, <1>5, <1>6, <2>1
    <3>2. \A x \in 0 .. WORD - 1 : x % WORD = x
      BY <1>1
    <3> QED
      BY <1>3, <3>1, <3>2, Zenon
  <2>3. Total(share, n.adjusted) = Total(share, r.adjusted) + taken
    <3>1. n.adjusted \in SUBSET Up /\ r.adjusted \in SUBSET n.adjusted
          /\ n.adjusted \ r.adjusted = over
      BY <1>2, <1>3
    <3>2. IsFiniteSet(n.adjusted) /\ \A p \in n.adjusted : share[p] \in Int
      BY <1>4, <3>1
    <3> HIDE DEF share, over, n
    <3>3. \A U \in SUBSET n.adjusted :
            Total(share, n.adjusted) = Total(share, U) + Total(share, n.adjusted \ U)
      BY <3>2, TotalSplit
    <3> QED
      BY <3>1, <3>3
  <2>4. /\ r.bandwidth = Share(hostLimits.outgoing, e) - Total(share, r.adjusted)
        /\ r.dataTotal = Total(outgoingDataTotal, Up) - Total(share, r.adjusted)
    BY <1>10 DEF RoundOK
  <2>5. /\ Share(hostLimits.outgoing, e) \in Nat
        /\ Total(outgoingDataTotal, Up) \in Nat
        /\ Total(share, r.adjusted) \in Nat
    <3>1. Total(share, r.adjusted) \in Nat
      BY <1>2, <1>4
    <3> HIDE DEF share
    <3> QED
      BY <3>1, HostAmounts, DataFits
  <2> HIDE DEF share, taken, n
  <2> QED
    BY <1>5, <2>2, <2>3, <2>4, <2>5
<1>11. n.adjusted \subseteq Up
  BY <1>2, <1>3
<1> HIDE DEF n
<1> QED
  BY <1>7, <1>8, <1>9, <1>10, <1>11 DEF RoundOK, n

\* The rounds of LastRound: each begins with what the round before left.
LEMMA OutgoingRounds ==
  ASSUME NEW e, NEW n \in Nat, n = Cardinality(Peers)
  PROVE  \E f : /\ f[0] = FirstRound(e)
                /\ \A k \in 1 .. n : f[k] = NextRound(f[k - 1], e)
                /\ LastRound(e) = IF bandwidthLimitedPeers > 0 THEN f[n] ELSE f[0]
<1> DEFINE Turns(m, g) == [k \in 0 .. m |-> IF k = 0 THEN FirstRound(e)
                                            ELSE NextRound(g[k - 1], e)]
           S == {m \in Nat : \E g : g = Turns(m, g)}
<1>1. 0 \in S
  <2>1. [k \in 0 .. 0 |-> FirstRound(e)] = Turns(0, [k \in 0 .. 0 |-> FirstRound(e)])
    OBVIOUS
  <2> QED
    BY <2>1
<1>2. ASSUME NEW m \in 0 .. n - 1, m \in S PROVE m + 1 \in S
  <2>1. PICK g : g = Turns(m, g)
    BY <1>2
  <2> DEFINE last == NextRound(g[m], e)
             f == [k \in 0 .. m + 1 |-> IF k =< m THEN g[k] ELSE last]
  <2>2. \A k \in 0 .. m : f[k] = g[k]
    OBVIOUS
  <2>3. f[m + 1] = last
    OBVIOUS
  <2>4. \A k \in 0 .. m : g[k] = IF k = 0 THEN FirstRound(e) ELSE NextRound(g[k - 1], e)
    BY <2>1
  <2>5. ASSUME NEW k \in 0 .. m + 1
        PROVE  f[k] = IF k = 0 THEN FirstRound(e) ELSE NextRound(f[k - 1], e)
    <3>1. CASE k = m + 1
      <4>1. f[k - 1] = g[m] /\ k - 1 = m /\ k # 0
        BY <2>2, <3>1
      <4> QED
        BY <2>3, <3>1, <4>1
    <3>2. CASE k # m + 1
      <4>1. k \in 0 .. m
        BY <3>2
      <4>2. k # 0 => k - 1 \in 0 .. m
        BY <4>1
      <4> QED
        BY <2>2, <2>4, <4>1, <4>2
    <3> QED
      BY <3>1, <3>2
  <2>6. f = [k \in 0 .. m + 1 |-> f[k]]
    OBVIOUS
  <2> HIDE DEF f
  <2>7. f = Turns(m + 1, f)
    BY <2>5, <2>6
  <2> QED
    BY <2>7
<1>3. n \in S
  <2> HIDE DEF S
  <2>1. 0 .. n \subseteq S
    BY <1>1, <1>2, IntervalInduction
  <2> QED
    BY <2>1
<1> DEFINE f == CHOOSE g : g = Turns(n, g)
<1>4. f = Turns(n, f)
  BY <1>3, Zenon
<1>5. LastRound(e) = IF bandwidthLimitedPeers > 0 THEN f[n] ELSE f[0]
  BY DEF LastRound
<1> HIDE DEF f
<1>6. f[0] = FirstRound(e)
  BY <1>4
<1>7. \A k \in 1 .. n : f[k] = NextRound(f[k - 1], e)
  BY <1>4
<1> QED
  BY <1>5, <1>6, <1>7

\* A round that adjusts nobody is the last one that matters.
LEMMA SettledRound ==
  ASSUME TypeOK, NEW e \in Elapsed, NEW r, RoundOK(r, e), Overwhelmed(r, e) = {}
  PROVE  Overwhelmed(NextRound(r, e), e) = {}
<1> DEFINE n == NextRound(r, e)
<1>1. WORD \in Nat \ {0} /\ r.bandwidth \in 0 .. WORD - 1 /\ r.dataTotal \in 0 .. WORD - 1
  BY BandwidthAssumption DEF RoundOK
<1>2. Total([p \in Peers |-> PeerShare(p, e)], Overwhelmed(r, e)) = 0
  BY TotalEmpty
<1>3. /\ n.adjusted = r.adjusted \cup Overwhelmed(r, e)
      /\ n.bandwidth = (r.bandwidth - 0) % WORD
      /\ n.dataTotal = (r.dataTotal - 0) % WORD
  BY <1>2 DEF NextRound
<1>4. /\ n.adjusted = r.adjusted
      /\ n.bandwidth = r.bandwidth
      /\ n.dataTotal = r.dataTotal
  <2>1. \A x \in 0 .. WORD - 1 : (x - 0) % WORD = x
    BY <1>1
  <2> QED
    BY <1>1, <1>3, <2>1
<1> HIDE DEF n
<1>5. CommonThrottle(n) = CommonThrottle(r)
  BY <1>4 DEF CommonThrottle
<1>6. Overwhelmed(n, e) = Overwhelmed(r, e)
  BY <1>4, <1>5 DEF Overwhelmed
<1> QED
  BY <1>6 DEF n

\* After as many rounds as there are peers, or none when none is limited, no peer
\* that is not adjusted is sent more than it can take.
LEMMA LastRoundProperties ==
  ASSUME TypeOK, LimitedCounted, NEW e \in Elapsed
  PROVE  RoundOK(LastRound(e), e) /\ Overwhelmed(LastRound(e), e) = {}
<1> DEFINE n == Cardinality(Peers)
<1>1. IsFiniteSet(Peers) /\ n \in Nat /\ Up \subseteq Peers
  BY BandwidthAssumption, FS_CardinalityType DEF Up
<1>2. PICK f : /\ f[0] = FirstRound(e)
               /\ \A k \in 1 .. n : f[k] = NextRound(f[k - 1], e)
               /\ LastRound(e) = IF bandwidthLimitedPeers > 0 THEN f[n] ELSE f[0]
  BY <1>1, OutgoingRounds
<1>3. RoundOK(f[0], e)
  BY <1>2, FirstRoundOK
<1>4. CASE ~ bandwidthLimitedPeers > 0
  <2> DEFINE limited == {p \in Up : incomingBandwidth[p] # 0}
  <2>1. IsFiniteSet(limited)
    BY <1>1, FS_Subset
  <2>2. bandwidthLimitedPeers = Cardinality(limited)
    BY DEF LimitedCounted
  <2>3. limited = {}
    BY <1>4, <2>1, <2>2, FS_CardinalityType, FS_EmptySet
  <2>4. Overwhelmed(f[0], e) = {}
    BY <2>3 DEF Overwhelmed
  <2> QED
    BY <1>2, <1>3, <1>4, <2>4
<1>5. CASE bandwidthLimitedPeers > 0
  <2> DEFINE G == {k \in 0 .. n : /\ RoundOK(f[k], e)
                                  /\ \/ Overwhelmed(f[k], e) = {}
                                     \/ Cardinality(f[k].adjusted) >= k}
  <2>1. \A k \in 0 .. n : RoundOK(f[k], e) => /\ IsFiniteSet(f[k].adjusted)
                                              /\ Cardinality(f[k].adjusted) \in Nat
    <3>1. \A k \in 0 .. n : RoundOK(f[k], e) => f[k].adjusted \subseteq Peers
      BY <1>1 DEF RoundOK
    <3> QED
      BY <1>1, <3>1, FS_Subset, FS_CardinalityType
  <2>2. 0 \in G
    BY <1>1, <1>3, <2>1
  <2>3. ASSUME NEW k \in 0 .. n - 1, k \in G PROVE k + 1 \in G
    <3> DEFINE r == f[k]
               over == Overwhelmed(r, e)
    <3>1. k + 1 \in 1 .. n /\ (k + 1) - 1 = k /\ k + 1 \in 0 .. n /\ k \in 0 .. n
      BY <1>1
    <3>2. f[k + 1] = NextRound(r, e)
      BY <1>2, <3>1
    <3>3. RoundOK(r, e) /\ (over = {} \/ Cardinality(r.adjusted) >= k)
      BY <2>3
    <3>4. RoundOK(f[k + 1], e)
      BY <3>2, <3>3, NextRoundOK
    <3>5. CASE over = {}
      BY <3>1, <3>2, <3>3, <3>4, <3>5, SettledRound
    <3>6. CASE over # {}
      <4>1. f[k + 1].adjusted = r.adjusted \cup over
        BY <3>2 DEF NextRound
      <4>2. PICK p \in over : TRUE
        BY <3>6
      <4>3. p \notin r.adjusted /\ r.adjusted \cup {p} \subseteq f[k + 1].adjusted
        BY <4>1, <4>2 DEF Overwhelmed
      <4> DEFINE a == r.adjusted
                 b == f[k + 1].adjusted
      <4>4. IsFiniteSet(a) /\ Cardinality(a) \in Nat /\ IsFiniteSet(b) /\ Cardinality(b) \in Nat
        BY <2>1, <3>1, <3>3, <3>4
      <4>5. Cardinality(a) >= k
        BY <3>3, <3>6
      <4> HIDE DEF a, b
      <4>6. Cardinality(a \cup {p}) = Cardinality(a) + 1
        BY <4>3, <4>4, FS_AddElement DEF a
      <4>7. Cardinality(a \cup {p}) =< Cardinality(b)
        BY <4>3, <4>4, FS_Subset DEF a, b
      <4>8. Cardinality(b) >= k + 1
        BY <3>1, <4>4, <4>5, <4>6, <4>7
      <4> QED
        BY <3>1, <3>4, <4>8 DEF b
    <3> QED
      BY <3>5, <3>6
  <2>4. n \in G
    <3> HIDE DEF G
    <3>1. 0 .. n \subseteq G
      BY <1>1, <2>2, <2>3, IntervalInduction
    <3> QED
      BY <1>1, <3>1
  <2>5. RoundOK(f[n], e)
    BY <2>4
  <2>6. Overwhelmed(f[n], e) = {}
    <3>1. CASE Cardinality(f[n].adjusted) >= n
      <4>1. f[n].adjusted \subseteq Up
        BY <2>5 DEF RoundOK
      <4>2. f[n].adjusted \subseteq Peers
        BY <1>1, <4>1
      <4>3. f[n].adjusted = Peers
        BY <1>1, <2>1, <2>5, <3>1, <4>2, FS_Subset
      <4>4. Up \ f[n].adjusted = {}
        BY <1>1, <4>3
      <4> QED
        BY <4>4 DEF Overwhelmed
    <3> QED
      BY <2>4, <3>1
  <2> QED
    BY <1>2, <1>5, <2>5, <2>6
<1> QED
  BY <1>4, <1>5

LEMMA UpCounted ==
  ASSUME TypeOK, LimitedCounted, NEW S, S \subseteq Up
  PROVE  /\ IsFiniteSet(S) /\ IsFiniteSet(Up)
         /\ Cardinality(S) \in Nat /\ connectedPeers \in Nat
         /\ Cardinality(S) =< connectedPeers
         /\ connectedPeers = Cardinality(S) <=> S = Up
         /\ connectedPeers - Cardinality(S) = Cardinality(Up \ S)
<1>1. IsFiniteSet(Up) /\ IsFiniteSet(S) /\ IsFiniteSet(Up \ S)
  <2>1. IsFiniteSet(Peers) /\ Up \subseteq Peers
    BY BandwidthAssumption DEF Up
  <2>2. IsFiniteSet(Up)
    BY <2>1, FS_Subset
  <2> QED
    BY <2>2, FS_Subset
<1>2. connectedPeers = Cardinality(Up)
  BY DEF LimitedCounted
<1>3. Cardinality(S) \in Nat /\ Cardinality(Up) \in Nat /\ Cardinality(Up \ S) \in Nat
  BY <1>1, FS_CardinalityType
<1>4. Cardinality(S) =< Cardinality(Up) /\ (Cardinality(Up) = Cardinality(S) => Up = S)
  BY <1>1, FS_Subset
<1>5. Cardinality(Up) = Cardinality(S) + Cardinality(Up \ S)
  <2>1. S \cup (Up \ S) = Up /\ S \cap (Up \ S) = {} /\ Cardinality({}) = 0
    BY FS_EmptySet
  <2>2. Cardinality(S \cup (Up \ S)) =
          Cardinality(S) + Cardinality(Up \ S) - Cardinality(S \cap (Up \ S))
    BY <1>1, FS_Union
  <2> QED
    BY <1>3, <2>1, <2>2
<1> QED
  BY <1>1, <1>2, <1>3, <1>4, <1>5

\* The own limit of a peer that takes less than it was sent.
LEMMA OwnLimitProperties ==
  ASSUME TypeOK, NEW e \in Elapsed, NEW p \in Peers,
         PeerShare(p, e) < outgoingDataTotal[p]
  PROVE  /\ OwnLimit(p, e) \in 1 .. SCALE
         /\ \/ OwnLimit(p, e) = 1
            \/ Passes(p, OwnLimit(p, e)) =< PeerShare(p, e)
<1> DEFINE x == outgoingDataTotal[p]
           share == PeerShare(p, e)
           m == share * SCALE
           l == m \div x
<1>1. /\ SCALE \in Nat \ {0} /\ WORD \in Nat \ {0} /\ x \in Nat \ {0}
      /\ share \in Nat /\ m < WORD /\ share < x
  BY BandwidthAssumption, PeerAmounts
<1>2. OwnLimit(p, e) = IF (m % WORD) \div x = 0 THEN 1 ELSE (m % WORD) \div x
  BY DEF OwnLimit
<1>3. Passes(p, OwnLimit(p, e)) = (OwnLimit(p, e) * x) \div SCALE
  BY DEF Passes
<1> HIDE DEF x, share
<1>4. m \in Nat
  BY <1>1
<1>5. m % WORD = m
  <2> HIDE DEF m
  <2> QED
    BY <1>1, <1>4
<1>6. OwnLimit(p, e) = IF l = 0 THEN 1 ELSE l
  BY <1>2, <1>5
<1>7. l \in Nat /\ l * x =< m
  <2> HIDE DEF m
  <2> QED
    BY <1>1, <1>4, DivBounds
<1>8. l =< SCALE
  <2> HIDE DEF l
  <2>1. m =< x * SCALE /\ x * SCALE = SCALE * x
    BY <1>1, Times
  <2> HIDE DEF m
  <2>2. l * x =< SCALE * x
    BY <1>1, <1>4, <1>7, <2>1
  <2> QED
    BY <1>1, <1>7, <2>2, Cancel
<1>9. (l * x) \div SCALE =< share
  <2> HIDE DEF l
  <2> DEFINE y == l * x
  <2>1. y \in Nat /\ y =< m /\ m < (share + 1) * SCALE
    <3>1. y \in Nat
      BY <1>1, <1>7
    <3>2. (share + 1) * SCALE = m + SCALE
      BY <1>1
    <3> HIDE DEF y, m
    <3>3. m < (share + 1) * SCALE
      BY <1>1, <1>4, <3>2
    <3> QED
      BY <1>7, <3>1, <3>3 DEF y
  <2> HIDE DEF y, m
  <2>2. y < (share + 1) * SCALE
    BY <1>1, <1>4, <2>1
  <2>3. y \div SCALE =< share
    BY <1>1, <2>1, <2>2, DivAtMost
  <2> QED
    BY <2>3 DEF y
<1> HIDE DEF l
<1>10. CASE l = 0
  BY <1>1, <1>6, <1>10
<1>11. CASE l # 0
  BY <1>1, <1>3, <1>6, <1>7, <1>8, <1>9, <1>11 DEF share
<1> QED
  BY <1>10, <1>11

\* What the new limits let through.
LEMMA NewLimitProperties ==
  ASSUME TypeOK, LimitedCounted, NEW e \in Elapsed, NEW p \in Peers
  PROVE  LET r == LastRound(e) IN
         /\ NewLimit(p, e) \in 0 .. SCALE
         /\ p \in Up /\ incomingBandwidth[p] # 0 =>
              \/ Passes(p, NewLimit(p, e)) =< PeerShare(p, e)
              \/ NewLimit(p, e) = 1
         /\ p \in Up \ r.adjusted => NewLimit(p, e) = CommonThrottle(r)
<1> DEFINE r == LastRound(e)
<1>1. RoundOK(r, e) /\ Overwhelmed(r, e) = {}
  BY LastRoundProperties
<1>2. NewLimit(p, e) = IF p \in r.adjusted THEN OwnLimit(p, e)
                       ELSE IF p \in Up /\ connectedPeers > Cardinality(r.adjusted)
                            THEN CommonThrottle(r)
                            ELSE packetThrottleLimit[p]
  BY DEF NewLimit
<1>3. SCALE \in Nat \ {0} /\ WORD \in Nat \ {0}
  BY BandwidthAssumption
<1> HIDE DEF r
<1>4. r.adjusted \subseteq Up
  BY <1>1 DEF RoundOK
<1>5. CASE p \in r.adjusted
  <2>1. PeerShare(p, e) < outgoingDataTotal[p]
    BY <1>1, <1>5 DEF RoundOK
  <2> QED
    BY <1>2, <1>3, <1>5, <2>1, OwnLimitProperties DEF r
<1>6. CASE p \in Up \ r.adjusted
  <2>1. connectedPeers > Cardinality(r.adjusted)
    <3> DEFINE S == r.adjusted
    <3>1. S \subseteq Up /\ S # Up
      BY <1>4, <1>6
    <3> HIDE DEF S
    <3>2. /\ Cardinality(S) \in Nat /\ connectedPeers \in Nat
          /\ Cardinality(S) =< connectedPeers
          /\ connectedPeers # Cardinality(S)
      BY <3>1, UpCounted
    <3> QED
      BY <3>2 DEF S
  <2>2. NewLimit(p, e) = CommonThrottle(r)
    BY <1>2, <1>6, <2>1
  <2>3. CommonThrottle(r) \in 0 .. SCALE
    BY <1>1, CommonThrottleBounds
  <2>4. ASSUME incomingBandwidth[p] # 0
        PROVE  Passes(p, NewLimit(p, e)) =< PeerShare(p, e)
    <3> DEFINE sent == CommonThrottle(r) * outgoingDataTotal[p]
    <3>1. sent \in Nat /\ sent % WORD = sent
      BY <1>1, <1>6, OverwhelmedAmounts
    <3>2. ~ (sent % WORD) \div SCALE > PeerShare(p, e)
      BY <1>1, <1>6, <2>4 DEF Overwhelmed
    <3>3. Passes(p, NewLimit(p, e)) = sent \div SCALE
      BY <2>2 DEF Passes
    <3>4. PeerShare(p, e) \in Nat
      BY PeerAmounts
    <3> HIDE DEF sent
    <3>5. sent \div SCALE \in Nat
      BY <1>3, <3>1, DivBounds
    <3> QED
      BY <3>1, <3>2, <3>3, <3>4, <3>5
  <2> QED
    BY <2>2, <2>3, <2>4 DEF r
<1>7. CASE p \notin Up
  BY <1>2, <1>4, <1>7 DEF TypeOK, r
<1> QED
  BY <1>5, <1>6, <1>7

\* The throttle sets the limits of all peers.
LEMMA ThrottleStep ==
  ASSUME NEW e \in Elapsed, BandwidthThrottle(e), NEW p \in Peers
  PROVE  packetThrottleLimit'[p] = NewLimit(p, e)
BY DEF BandwidthThrottle

LEMMA ThrottlePeersNotOverwhelmed ==
  ASSUME TypeOK, LimitedCounted, NEW e \in Elapsed, BandwidthThrottle(e), NEW p \in Up,
         incomingBandwidth[p] # 0
  PROVE  \/ Passes(p, packetThrottleLimit'[p]) =< PeerShare(p, e)
         \/ packetThrottleLimit'[p] = 1
<1>1. p \in Peers
  BY DEF Up
<1>2. packetThrottleLimit'[p] = NewLimit(p, e)
  BY <1>1, ThrottleStep
<1> QED
  BY <1>1, <1>2, NewLimitProperties

\* What all peers are sent together.
LEMMA ThrottleHostNotOverwhelmed ==
  ASSUME TypeOK, LimitedCounted, NEW e \in Elapsed, BandwidthThrottle(e),
         hostLimits.outgoing # 0
  PROVE  Total(SentAfter(e), Up) =< Share(hostLimits.outgoing, e)
<1> DEFINE r == LastRound(e)
           c == CommonThrottle(r)
           data == outgoingDataTotal
           share == Shares(e)
           rest == Up \ r.adjusted
           sent == SentAfter(e)
<1>1. RoundOK(r, e)
  BY LastRoundProperties
<1>2. /\ SCALE \in Nat \ {0} /\ c \in 0 .. SCALE
      /\ r.bandwidth \in Nat /\ r.dataTotal \in Nat
      /\ c * r.dataTotal =< r.bandwidth * SCALE
  BY <1>1, BandwidthAssumption, CommonThrottleBounds DEF RoundOK
<1> HIDE DEF r
<1>3. /\ \A S \in SUBSET Up : /\ IsFiniteSet(S)
                              /\ Total(share, S) \in Nat /\ Total(data, S) \in Nat
      /\ \A p \in Up : share[p] = PeerShare(p, e) /\ share[p] \in Nat /\ data[p] \in Nat
  BY UpAmounts
<1>4. r.adjusted \in SUBSET Up /\ rest \in SUBSET Up /\ Up \subseteq Peers
  BY <1>1 DEF RoundOK, Up
<1>5. \A p \in Peers : sent[p] =
         IF NewLimit(p, e) = 1 /\ incomingBandwidth[p] # 0
         THEN Minimum(Passes(p, 1), PeerShare(p, e))
         ELSE Passes(p, NewLimit(p, e))
  BY ThrottleStep DEF SentAfter
<1> HIDE DEF sent, share, c
<1>6. \A p \in Peers : \A l \in Nat : Passes(p, l) \in Nat
  <2>1. \A p \in Peers : data[p] \in Nat
    BY PeerAmounts, <1>2 DEF TypeOK, BandwidthAssumption
  <2> TAKE p \in Peers
  <2> TAKE l \in Nat
  <2> DEFINE y == l * data[p]
  <2>2. y \in Nat
    BY <2>1
  <2> HIDE DEF y
  <2>3. y \div SCALE \in Nat
    BY <1>2, <2>2, DivBounds
  <2> QED
    BY <2>3 DEF Passes, y
<1>7. \A p \in Up : sent[p] \in Nat
  <2>1. \A p \in Up : NewLimit(p, e) \in Nat
    BY <1>2, <1>4, NewLimitProperties
  <2> QED
    BY <1>3, <1>4, <1>5, <1>6, <2>1 DEF Minimum
<1>8. \A p \in r.adjusted : sent[p] =< share[p]
  <2> SUFFICES ASSUME NEW p \in r.adjusted PROVE sent[p] =< share[p]
    OBVIOUS
  <2>1. p \in Peers /\ p \in Up /\ incomingBandwidth[p] # 0
    BY <1>1, <1>4 DEF RoundOK
  <2>2. Passes(p, NewLimit(p, e)) =< PeerShare(p, e) \/ NewLimit(p, e) = 1
    BY <2>1, NewLimitProperties
  <2>3. share[p] = PeerShare(p, e) /\ share[p] \in Nat /\ Passes(p, 1) \in Nat
    BY <1>3, <1>6, <2>1
  <2> QED
    BY <1>5, <2>1, <2>2, <2>3 DEF Minimum
<1> DEFINE most == [p \in rest |-> (c * data[p]) \div SCALE]
<1>9. \A p \in rest : /\ most[p] \in Nat
                      /\ most[p] * SCALE =< c * data[p]
                      /\ sent[p] =< most[p]
  <2> SUFFICES ASSUME NEW p \in rest
               PROVE  /\ most[p] \in Nat
                      /\ most[p] * SCALE =< c * data[p]
                      /\ sent[p] =< most[p]
    OBVIOUS
  <2>1. p \in Peers /\ p \in Up
    BY <1>4
  <2>2. NewLimit(p, e) = c
    BY <2>1, NewLimitProperties DEF r, c
  <2>3. most[p] = Passes(p, c)
    BY DEF Passes
  <2>4. Passes(p, c) \in Nat /\ Passes(p, c) * SCALE =< c * data[p]
    <3> DEFINE y == c * data[p]
    <3>1. y \in Nat
      BY <1>2, <1>3, <2>1
    <3>2. Passes(p, c) = y \div SCALE
      BY DEF Passes
    <3> HIDE DEF y
    <3>3. (y \div SCALE) \in Nat /\ (y \div SCALE) * SCALE =< y
      BY <1>2, <3>1, DivBounds
    <3> QED
      BY <3>2, <3>3 DEF y
  <2>5. sent[p] =< Passes(p, c)
    <3>1. sent[p] = IF c = 1 /\ incomingBandwidth[p] # 0
                    THEN Minimum(Passes(p, c), PeerShare(p, e))
                    ELSE Passes(p, c)
      BY <1>5, <2>1, <2>2
    <3>2. PeerShare(p, e) \in Nat
      BY <2>1, <1>3
    <3> QED
      BY <2>4, <3>1, <3>2 DEF Minimum
  <2> HIDE DEF most
  <2> QED
    BY <2>3, <2>4, <2>5
<1>10. Total(sent, r.adjusted) =< Total(share, r.adjusted)
  <2>1. \A p \in r.adjusted : sent[p] \in Int /\ share[p] \in Int /\ sent[p] =< share[p]
    BY <1>3, <1>4, <1>7, <1>8
  <2> QED
    BY <1>3, <1>4, <2>1, TotalMonotone
<1>11. Total(sent, rest) =< Total(most, rest) /\ Total(most, rest) \in Nat
  <2> HIDE DEF most
  <2>1. \A p \in rest : sent[p] \in Int /\ most[p] \in Int /\ sent[p] =< most[p]
    BY <1>4, <1>7, <1>9
  <2>2. IsFiniteSet(rest)
    BY <1>3, <1>4
  <2>3. \A p \in rest : most[p] \in Nat
    BY <1>9
  <2> HIDE DEF most, rest
  <2> QED
    BY <2>1, <2>2, <2>3, TotalMonotone, TotalOfNaturals
<1>12. Total(most, rest) * SCALE =< c * Total(data, rest)
  <2> DEFINE f == [p \in rest |-> SCALE * most[p]]
             g == [p \in rest |-> c * data[p]]
  <2>1. \A p \in rest : /\ most[p] \in Int /\ data[p] \in Int
                        /\ f[p] \in Int /\ f[p] = SCALE * most[p]
                        /\ g[p] \in Int /\ g[p] = c * data[p]
                        /\ f[p] =< g[p]
    <3> SUFFICES ASSUME NEW p \in rest
                 PROVE  /\ most[p] \in Int /\ data[p] \in Int
                        /\ f[p] \in Int /\ f[p] = SCALE * most[p]
                        /\ g[p] \in Int /\ g[p] = c * data[p]
                        /\ f[p] =< g[p]
      OBVIOUS
    <3>1. most[p] \in Nat /\ data[p] \in Nat /\ most[p] * SCALE =< c * data[p]
      BY <1>3, <1>4, <1>9
    <3>2. f[p] = SCALE * most[p] /\ g[p] = c * data[p]
      OBVIOUS
    <3> HIDE DEF f, g, most
    <3>3. /\ SCALE * most[p] \in Int /\ c * data[p] \in Int
          /\ SCALE * most[p] = most[p] * SCALE
      BY <1>2, <3>1
    <3> QED
      BY <3>1, <3>2, <3>3
  <2>2. IsFiniteSet(rest)
    BY <1>3, <1>4
  <2> HIDE DEF f, g, rest, most
  <2>3. Total(f, rest) =< Total(g, rest)
    BY <2>1, <2>2, TotalMonotone
  <2>4. Total(f, rest) = SCALE * Total(most, rest)
    BY <1>2, <2>1, <2>2, TotalScaled
  <2>5. Total(g, rest) = c * Total(data, rest)
    BY <1>2, <2>1, <2>2, TotalScaled
  <2>6. SCALE * Total(most, rest) = Total(most, rest) * SCALE
    BY <1>2, <1>11
  <2> QED
    BY <2>3, <2>4, <2>5, <2>6
\* The data of the peers that are not adjusted is part of what is left.
<1>13. Total(data, rest) =< r.dataTotal /\ Total(data, rest) \in Nat
  <2>1. Total(data, Up) = Total(data, r.adjusted) + Total(data, rest)
    <3>1. IsFiniteSet(Up) /\ \A p \in Up : data[p] \in Int
      BY <1>3
    <3>2. \A U \in SUBSET Up : Total(data, Up) = Total(data, U) + Total(data, Up \ U)
      BY <3>1, TotalSplit
    <3> QED
      BY <1>4, <3>2
  <2>2. Total(share, r.adjusted) =< Total(data, r.adjusted)
    <3>1. \A p \in r.adjusted : share[p] \in Int /\ data[p] \in Int /\ share[p] =< data[p]
      BY <1>1, <1>3, <1>4 DEF RoundOK
    <3> QED
      BY <1>3, <1>4, <3>1, TotalMonotone
  <2>3. r.dataTotal = Total(data, Up) - Total(share, r.adjusted)
    BY <1>1 DEF RoundOK, share
  <2>4. Total(data, Up) \in Nat /\ Total(data, rest) \in Nat
        /\ Total(data, r.adjusted) \in Nat /\ Total(share, r.adjusted) \in Nat
    BY <1>3, <1>4
  <2> HIDE DEF rest
  <2> QED
    BY <2>1, <2>2, <2>3, <2>4
<1> DEFINE t == Total(most, rest)
           x == Total(data, rest)
           d == r.dataTotal
           b == r.bandwidth
<1>14. /\ t \in Nat /\ x \in Nat /\ d \in Nat /\ b \in Nat /\ c \in Nat
       /\ t * SCALE =< c * x /\ x =< d /\ c * d =< b * SCALE
  BY <1>2, <1>11, <1>12, <1>13
<1> HIDE DEF t, x, d, b
<1>15. t =< b
  <2>1. x * c =< d * c /\ x * c = c * x /\ d * c = c * d
    BY <1>14, Times
  <2>2. t * SCALE \in Nat /\ c * x \in Nat /\ c * d \in Nat /\ b * SCALE \in Nat
    BY <1>2, <1>14
  <2>3. t * SCALE =< b * SCALE
    BY <1>14, <2>1, <2>2
  <2> QED
    BY <1>2, <1>14, <2>3, Cancel
<1>16. Total(sent, Up) = Total(sent, r.adjusted) + Total(sent, rest)
  <2>1. IsFiniteSet(Up) /\ \A p \in Up : sent[p] \in Int
    BY <1>3, <1>7
  <2>2. \A U \in SUBSET Up : Total(sent, Up) = Total(sent, U) + Total(sent, Up \ U)
    BY <2>1, TotalSplit
  <2> QED
    BY <1>4, <2>2
<1>17. Total(sent, r.adjusted) \in Nat /\ Total(sent, rest) \in Nat
  <2>1. \A S \in SUBSET Up : Total(sent, S) \in Nat
    BY <1>3, <1>7, TotalOfNaturals
  <2> QED
    BY <1>4, <2>1
<1>18. b = Share(hostLimits.outgoing, e) - Total(share, r.adjusted)
  BY <1>1 DEF RoundOK, share, b
<1>19. Share(hostLimits.outgoing, e) \in Nat /\ Total(share, r.adjusted) \in Nat
  BY <1>3, <1>4, HostAmounts
<1>20. Total(sent, rest) =< t
  BY <1>11 DEF t
<1>21. Total(sent, Up) =< Share(hostLimits.outgoing, e)
  <2> HIDE DEF rest
  <2> QED
    BY <1>10, <1>14, <1>15, <1>16, <1>17, <1>18, <1>19, <1>20
<1> QED
  BY <1>21 DEF sent

-----------------------------------------------------------------------------
(* The rounds of the incoming side. *)

\* What the loop keeps: the settled peers send less than an equal share of what
\* they leave to the others.
SettledOK(r) ==
  /\ r.settled \subseteq Up
  /\ r.bandwidth \in 0 .. WORD - 1
  /\ r.bandwidth = hostLimits.incoming - Total(outgoingBandwidth, r.settled)
  /\ r.settled # Up =>
       \A p \in r.settled : outgoingBandwidth[p] = 0 \/ outgoingBandwidth[p] < IncomingLimit(r)

LEMMA IncomingAmounts ==
  ASSUME TypeOK, NEW e \in Elapsed
  PROVE  /\ WORD \in Nat \ {0}
         /\ hostLimits.incoming \in 0 .. WORD - 1
         /\ \A p \in Up : outgoingBandwidth[p] \in 0 .. WORD - 1
         /\ \A S \in SUBSET Up : IsFiniteSet(S) /\ Total(outgoingBandwidth, S) \in Nat
<1>1. \A p \in Up : outgoingBandwidth[p] \in 0 .. WORD - 1
  BY PeerAmounts DEF Up
<1>2. \A S \in SUBSET Up : IsFiniteSet(S)
  BY UpAmounts
<1>3. WORD \in Nat \ {0}
  BY BandwidthAssumption
<1>4. ASSUME NEW S \in SUBSET Up PROVE Total(outgoingBandwidth, S) \in Nat
  <2>1. IsFiniteSet(S) /\ \A p \in S : outgoingBandwidth[p] \in Nat
    BY <1>1, <1>2, <1>3
  <2> QED
    BY <2>1, TotalOfNaturals
<1> QED
  BY <1>1, <1>2, <1>3, <1>4, HostAmounts

\* The share of the peers that are not settled yet.
LEMMA IncomingLimitBounds ==
  ASSUME TypeOK, LimitedCounted, NEW e \in Elapsed, NEW r, SettledOK(r), r.settled # Up
  PROVE  LET left == Cardinality(Up \ r.settled)
             l == IncomingLimit(r)
         IN /\ left \in Nat \ {0} /\ connectedPeers # Cardinality(r.settled)
            /\ l = r.bandwidth \div left
            /\ l \in 0 .. WORD - 1
            /\ l * left =< r.bandwidth
            /\ r.bandwidth < (l + 1) * left
<1> DEFINE left == Cardinality(Up \ r.settled)
           l == IncomingLimit(r)
           S == r.settled
<1>1. WORD \in Nat \ {0} /\ r.bandwidth \in 0 .. WORD - 1 /\ S \subseteq Up /\ S # Up
  BY BandwidthAssumption DEF SettledOK
<1>2. /\ connectedPeers - Cardinality(S) = left
      /\ connectedPeers # Cardinality(S)
      /\ connectedPeers \in Nat /\ Cardinality(S) \in Nat /\ Cardinality(S) =< connectedPeers
  <2> HIDE DEF S
  <2> QED
    BY <1>1, UpCounted DEF S
<1>3. left \in Nat \ {0}
  BY <1>2
<1>4. l = r.bandwidth \div left
  BY <1>2 DEF IncomingLimit
<1> DEFINE b == r.bandwidth
<1>5. b \in Nat /\ b < WORD
  BY <1>1
<1> HIDE DEF left, l, b, S
<1>6. l = b \div left
  BY <1>4 DEF b
<1>7. l \in Nat /\ l * left =< b /\ b < (l + 1) * left
  BY <1>3, <1>5, <1>6, DivBounds
<1>8. l =< b
  <2>1. l * 1 =< l * left /\ l * left \in Nat
    BY <1>3, <1>7
  <2> QED
    BY <1>5, <1>7, <2>1
<1> QED
  BY <1>1, <1>2, <1>3, <1>5, <1>6, <1>7, <1>8 DEF left, l, b, S

\* The peers that settle take no more than is left, and leave to the others at
\* least the share that these had.
LEMMA SettlingAmounts ==
  ASSUME TypeOK, LimitedCounted, NEW e \in Elapsed, NEW r, SettledOK(r)
  PROVE  LET taken == Total(outgoingBandwidth, Settling(r))
         IN /\ Settling(r) \subseteq Up \ r.settled
            /\ taken \in Nat /\ taken =< r.bandwidth
            /\ r.settled # Up =>
                 taken =< IncomingLimit(r) * Cardinality(Settling(r))
<1> DEFINE over == Settling(r)
           taken == Total(outgoingBandwidth, over)
           l == IncomingLimit(r)
<1>1. over \subseteq Up \ r.settled
  BY DEF Settling
<1>2. r.settled \subseteq Up /\ r.bandwidth \in Nat
  BY BandwidthAssumption DEF SettledOK
<1>3. over \in SUBSET Up
  BY <1>1, <1>2
<1>4. taken \in Nat /\ IsFiniteSet(over)
  BY <1>3, IncomingAmounts
<1>5. CASE r.settled = Up
  <2>1. over = {}
    BY <1>1, <1>5
  <2>2. taken = 0
    BY <2>1, TotalEmpty
  <2> QED
    BY <1>1, <1>2, <1>5, <2>2
<1>6. CASE r.settled # Up
  <2> DEFINE left == Cardinality(Up \ r.settled)
             n == Cardinality(over)
             b == r.bandwidth
  <2>1. /\ left \in Nat \ {0} /\ l \in Nat /\ l * left =< b
    BY <1>6, IncomingLimitBounds
  <2>2. \A p \in over : outgoingBandwidth[p] \in Nat /\ outgoingBandwidth[p] =< l
    <3>1. \A p \in over : outgoingBandwidth[p] \in Nat
      BY <1>3, IncomingAmounts
    <3>2. \A p \in over : outgoingBandwidth[p] = 0 \/ outgoingBandwidth[p] < l
      BY DEF Settling
    <3> HIDE DEF over, l
    <3> QED
      BY <2>1, <3>1, <3>2
  <2>3. n \in Nat /\ n =< left
    <3>1. IsFiniteSet(Up \ r.settled)
      BY IncomingAmounts
    <3> HIDE DEF over
    <3> QED
      BY <1>1, <1>4, <3>1, FS_Subset, FS_CardinalityType
  <2> HIDE DEF over, l, left, b
  <2>4. taken =< l * n
    BY <1>4, <2>1, <2>2, TotalBounded
  <2> HIDE DEF n, taken
  <2>5. n * l =< left * l /\ n * l = l * n /\ left * l = l * left
    BY <2>1, <2>3, Times
  <2>6. l * n \in Nat /\ l * left \in Nat /\ b \in Nat
    BY <1>2, <2>1, <2>3 DEF b
  <2>7. taken =< b
    BY <1>4, <2>1, <2>4, <2>5, <2>6
  <2> QED
    BY <1>1, <1>4, <2>4, <2>7 DEF over, l, b, n, taken
<1> QED
  BY <1>5, <1>6

LEMMA FirstIncomingOK ==
  ASSUME TypeOK, NEW e \in Elapsed
  PROVE  SettledOK([settled |-> {}, bandwidth |-> hostLimits.incoming])
<1>1. Total(outgoingBandwidth, {}) = 0
  BY TotalEmpty
<1> QED
  BY <1>1, IncomingAmounts DEF SettledOK

LEMMA NextIncomingOK ==
  ASSUME TypeOK, LimitedCounted, NEW e \in Elapsed, NEW r, SettledOK(r)
  PROVE  SettledOK(NextIncoming(r))
<1> DEFINE over == Settling(r)
           out == outgoingBandwidth
           taken == Total(out, over)
           n == NextIncoming(r)
           b == r.bandwidth
           b2 == n.bandwidth
<1>1. /\ over \subseteq Up \ r.settled
      /\ taken \in Nat /\ taken =< b
      /\ r.settled # Up => taken =< IncomingLimit(r) * Cardinality(over)
  BY SettlingAmounts
<1>2. /\ WORD \in Nat \ {0} /\ b \in 0 .. WORD - 1 /\ r.settled \subseteq Up
      /\ b = hostLimits.incoming - Total(out, r.settled)
  BY BandwidthAssumption DEF SettledOK
<1>3. n.settled = r.settled \cup over /\ b2 = (b - taken) % WORD
  BY DEF NextIncoming
<1>4. n.settled \subseteq Up
  BY <1>1, <1>2, <1>3
<1>5. b2 = b - taken /\ b2 \in 0 .. WORD - 1
  <2> HIDE DEF taken, n, b, b2
  <2>1. b - taken \in 0 .. WORD - 1
    BY <1>1, <1>2
  <2>2. \A x \in 0 .. WORD - 1 : x % WORD = x
    BY <1>2
  <2>3. (b - taken) % WORD = b - taken
    BY <2>1, <2>2, Zenon
  <2> QED
    BY <1>3, <2>1, <2>3
<1>6. Total(out, n.settled) = Total(out, r.settled) + taken
  <2>1. /\ n.settled \in SUBSET Up /\ r.settled \in SUBSET n.settled
        /\ n.settled \ r.settled = over
    BY <1>1, <1>2, <1>3
  <2>2. IsFiniteSet(n.settled) /\ \A p \in n.settled : out[p] \in Int
    BY <2>1, IncomingAmounts
  <2> HIDE DEF over, n
  <2>3. \A U \in SUBSET n.settled :
          Total(out, n.settled) = Total(out, U) + Total(out, n.settled \ U)
    BY <2>2, TotalSplit
  <2> QED
    BY <2>1, <2>3
<1>7. b2 = hostLimits.incoming - Total(out, n.settled)
  <2>1. Total(out, r.settled) \in Nat /\ hostLimits.incoming \in Nat
    BY <1>2, IncomingAmounts
  <2> HIDE DEF taken, n, b, b2
  <2> QED
    BY <1>1, <1>2, <1>5, <1>6, <2>1
<1>8. ASSUME n.settled # Up
      PROVE  \A p \in n.settled : out[p] = 0 \/ out[p] < IncomingLimit(n)
  <2> DEFINE l == IncomingLimit(r)
             left == Cardinality(Up \ r.settled)
             left2 == Cardinality(Up \ n.settled)
             s == Cardinality(over)
  <2>1. r.settled # Up
    BY <1>1, <1>3, <1>8
  <2>2. left \in Nat \ {0} /\ l \in Nat /\ l * left =< b
    BY <2>1, IncomingLimitBounds
  <2>3. left2 \in Nat \ {0} /\ s \in Nat /\ left = left2 + s
    <3>1. Up \ r.settled = over \cup (Up \ n.settled) /\ over \cap (Up \ n.settled) = {}
      BY <1>1, <1>3
    <3>2. IsFiniteSet(over) /\ IsFiniteSet(Up \ n.settled)
      <4>1. over \in SUBSET Up /\ (Up \ n.settled) \in SUBSET Up
        BY <1>1
      <4> QED
        BY <4>1, IncomingAmounts
    <3>3. Up \ n.settled # {}
      BY <1>4, <1>8
    <3> DEFINE T == Up \ n.settled
    <3>4. /\ Cardinality(over \cup T) = Cardinality(over) + Cardinality(T)
                                          - Cardinality(over \cap T)
          /\ Cardinality(over) \in Nat /\ Cardinality(T) \in Nat \ {0}
          /\ Cardinality({}) = 0
      <4> HIDE DEF T, over
      <4> QED
        BY <3>2, <3>3, FS_Union, FS_CardinalityType, FS_EmptySet DEF T
    <3>5. left = Cardinality(over \cup T) /\ Cardinality(over \cap T) = 0
      BY <3>1, <3>4
    <3>6. left2 = Cardinality(T)
      OBVIOUS
    <3> HIDE DEF over, n, T, left, left2
    <3> QED
      BY <3>4, <3>5, <3>6
  <2>4. taken =< l * s
    BY <1>1, <2>1
  <2>5. connectedPeers - Cardinality(n.settled) = left2
    <3> DEFINE S == n.settled
    <3>1. S \subseteq Up
      BY <1>4
    <3> HIDE DEF S, n
    <3> QED
      BY <3>1, UpCounted DEF S
  <2>6. IncomingLimit(n) = b2 \div left2
    BY <2>5 DEF IncomingLimit
  <2> DEFINE l2 == IncomingLimit(n)
  <2>9. \A p \in r.settled : out[p] = 0 \/ out[p] < l
    BY <2>1 DEF SettledOK
  <2>10. \A p \in over : out[p] = 0 \/ out[p] < l
    BY DEF Settling
  <2>11. \A p \in n.settled : out[p] \in Nat
    BY <1>4, IncomingAmounts
  <2> HIDE DEF l, left, left2, s, taken, b, b2, l2
  <2>7. b2 >= l * left2
    <3>1. l * left = l * left2 + l * s /\ l * left2 \in Nat /\ l * s \in Nat
      BY <2>2, <2>3
    <3> QED
      BY <1>1, <1>2, <1>5, <2>2, <2>4, <3>1
  <2>8. l2 >= l /\ l2 \in Nat
    <3>1. b2 \in Nat
      BY <1>2, <1>5
    <3>2. l2 = b2 \div left2
      BY <2>6 DEF l2
    <3> QED
      BY <2>2, <2>3, <2>7, <3>1, <3>2, DivAtMost, DivBounds
  <2>12. ASSUME NEW p \in n.settled PROVE out[p] = 0 \/ out[p] < l2
    <3>1. out[p] = 0 \/ out[p] < l
      BY <1>3, <2>9, <2>10
    <3>2. out[p] \in Nat
      BY <2>11
    <3> HIDE DEF n, over
    <3> QED
      BY <2>2, <2>8, <3>1, <3>2
  <2> QED
    BY <2>12 DEF l2
<1> HIDE DEF n
<1> QED
  BY <1>4, <1>5, <1>7, <1>8 DEF SettledOK, b2, n

\* The rounds of LastIncoming.
LEMMA IncomingRounds ==
  ASSUME NEW n \in Nat, n = Cardinality(Peers)
  PROVE  \E f : /\ f[0] = [settled |-> {}, bandwidth |-> hostLimits.incoming]
                /\ \A k \in 1 .. n : f[k] = NextIncoming(f[k - 1])
                /\ LastIncoming = f[n]
<1> DEFINE first == [settled |-> {}, bandwidth |-> hostLimits.incoming]
           Turns(m, g) == [k \in 0 .. m |-> IF k = 0 THEN first
                                            ELSE NextIncoming(g[k - 1])]
           S == {m \in Nat : \E g : g = Turns(m, g)}
<1>1. 0 \in S
  <2>1. [k \in 0 .. 0 |-> first] = Turns(0, [k \in 0 .. 0 |-> first])
    OBVIOUS
  <2> QED
    BY <2>1
<1>2. ASSUME NEW m \in 0 .. n - 1, m \in S PROVE m + 1 \in S
  <2>1. PICK g : g = Turns(m, g)
    BY <1>2
  <2> DEFINE last == NextIncoming(g[m])
             f == [k \in 0 .. m + 1 |-> IF k =< m THEN g[k] ELSE last]
  <2>2. \A k \in 0 .. m : f[k] = g[k]
    OBVIOUS
  <2>3. f[m + 1] = last
    OBVIOUS
  <2>4. \A k \in 0 .. m : g[k] = IF k = 0 THEN first ELSE NextIncoming(g[k - 1])
    BY <2>1
  <2>5. ASSUME NEW k \in 0 .. m + 1
        PROVE  f[k] = IF k = 0 THEN first ELSE NextIncoming(f[k - 1])
    <3>1. CASE k = m + 1
      <4>1. f[k - 1] = g[m] /\ k - 1 = m /\ k # 0
        BY <2>2, <3>1
      <4> QED
        BY <2>3, <3>1, <4>1
    <3>2. CASE k # m + 1
      <4>1. k \in 0 .. m
        BY <3>2
      <4>2. k # 0 => k - 1 \in 0 .. m
        BY <4>1
      <4> QED
        BY <2>2, <2>4, <4>1, <4>2
    <3> QED
      BY <3>1, <3>2
  <2>6. f = [k \in 0 .. m + 1 |-> f[k]]
    OBVIOUS
  <2> HIDE DEF f
  <2>7. f = Turns(m + 1, f)
    BY <2>5, <2>6
  <2> QED
    BY <2>7
<1>3. n \in S
  <2> HIDE DEF S
  <2>1. 0 .. n \subseteq S
    BY <1>1, <1>2, IntervalInduction
  <2> QED
    BY <2>1
<1> DEFINE f == CHOOSE g : g = Turns(n, g)
<1>4. f = Turns(n, f)
  BY <1>3, Zenon
<1>5. LastIncoming = f[n]
  BY DEF LastIncoming
<1> HIDE DEF f
<1>6. f[0] = first
  BY <1>4
<1>7. \A k \in 1 .. n : f[k] = NextIncoming(f[k - 1])
  <2> SUFFICES ASSUME NEW k \in 1 .. n PROVE f[k] = NextIncoming(f[k - 1])
    OBVIOUS
  <2>1. k \in 0 .. n /\ k # 0
    OBVIOUS
  <2> QED
    BY <1>4, <2>1
<1> QED
  BY <1>5, <1>6, <1>7

LEMMA SettledIncoming ==
  ASSUME TypeOK, NEW e \in Elapsed, NEW r, SettledOK(r), Settling(r) = {}
  PROVE  Settling(NextIncoming(r)) = {}
<1> DEFINE n == NextIncoming(r)
<1>1. WORD \in Nat \ {0} /\ r.bandwidth \in 0 .. WORD - 1
  BY BandwidthAssumption DEF SettledOK
<1>2. Total(outgoingBandwidth, Settling(r)) = 0
  BY TotalEmpty
<1>3. /\ n.settled = r.settled \cup Settling(r)
      /\ n.bandwidth = (r.bandwidth - 0) % WORD
  BY <1>2 DEF NextIncoming
<1>4. n.settled = r.settled /\ n.bandwidth = r.bandwidth
  <2>1. \A x \in 0 .. WORD - 1 : (x - 0) % WORD = x
    BY <1>1
  <2> QED
    BY <1>1, <1>3, <2>1
<1> HIDE DEF n
<1>5. IncomingLimit(n) = IncomingLimit(r)
  BY <1>4 DEF IncomingLimit
<1>6. Settling(n) = Settling(r)
  BY <1>4, <1>5 DEF Settling
<1> QED
  BY <1>6 DEF n

LEMMA LastIncomingProperties ==
  ASSUME TypeOK, LimitedCounted, NEW e \in Elapsed
  PROVE  SettledOK(LastIncoming) /\ Settling(LastIncoming) = {}
<1> DEFINE n == Cardinality(Peers)
<1>1. IsFiniteSet(Peers) /\ n \in Nat /\ Up \subseteq Peers
  BY BandwidthAssumption, FS_CardinalityType DEF Up
<1>2. PICK f : /\ f[0] = [settled |-> {}, bandwidth |-> hostLimits.incoming]
               /\ \A k \in 1 .. n : f[k] = NextIncoming(f[k - 1])
               /\ LastIncoming = f[n]
  BY <1>1, IncomingRounds
<1>3. SettledOK(f[0])
  BY <1>2, FirstIncomingOK
<1> DEFINE G == {k \in 0 .. n : /\ SettledOK(f[k])
                                /\ \/ Settling(f[k]) = {}
                                   \/ Cardinality(f[k].settled) >= k}
<1>4. \A k \in 0 .. n : SettledOK(f[k]) => /\ f[k].settled \subseteq Peers
                                           /\ IsFiniteSet(f[k].settled)
                                           /\ Cardinality(f[k].settled) \in Nat
  <2>1. \A k \in 0 .. n : SettledOK(f[k]) => f[k].settled \subseteq Peers
    BY <1>1 DEF SettledOK
  <2> QED
    BY <1>1, <2>1, FS_Subset, FS_CardinalityType
<1>5. 0 \in G
  BY <1>1, <1>3, <1>4
<1>6. ASSUME NEW k \in 0 .. n - 1, k \in G PROVE k + 1 \in G
  <2> DEFINE r == f[k]
             over == Settling(r)
  <2>1. k + 1 \in 1 .. n /\ (k + 1) - 1 = k /\ k + 1 \in 0 .. n /\ k \in 0 .. n
    BY <1>1
  <2>2. f[k + 1] = NextIncoming(r)
    BY <1>2, <2>1
  <2>3. SettledOK(r) /\ (over = {} \/ Cardinality(r.settled) >= k)
    BY <1>6
  <2>4. SettledOK(f[k + 1])
    BY <2>2, <2>3, NextIncomingOK
  <2>5. CASE over = {}
    BY <2>1, <2>2, <2>3, <2>4, <2>5, SettledIncoming
  <2>6. CASE over # {}
    <3>1. f[k + 1].settled = r.settled \cup over
      BY <2>2 DEF NextIncoming
    <3>2. PICK p \in over : TRUE
      BY <2>6
    <3>3. p \notin r.settled /\ r.settled \cup {p} \subseteq f[k + 1].settled
      BY <3>1, <3>2 DEF Settling
    <3> DEFINE a == r.settled
               b == f[k + 1].settled
    <3>4. IsFiniteSet(a) /\ Cardinality(a) \in Nat /\ IsFiniteSet(b) /\ Cardinality(b) \in Nat
      BY <1>4, <2>1, <2>3, <2>4
    <3>5. Cardinality(a) >= k
      BY <2>3, <2>6
    <3> HIDE DEF a, b
    <3>6. Cardinality(a \cup {p}) = Cardinality(a) + 1
      BY <3>3, <3>4, FS_AddElement DEF a
    <3>7. Cardinality(a \cup {p}) =< Cardinality(b)
      BY <3>3, <3>4, FS_Subset DEF a, b
    <3>8. Cardinality(b) >= k + 1
      BY <2>1, <3>4, <3>5, <3>6, <3>7
    <3> QED
      BY <2>1, <2>4, <3>8 DEF b
  <2> QED
    BY <2>5, <2>6
<1>7. n \in G
  <2> HIDE DEF G
  <2>1. 0 .. n \subseteq G
    BY <1>1, <1>5, <1>6, IntervalInduction
  <2> QED
    BY <1>1, <2>1
<1>8. SettledOK(f[n])
  BY <1>7
<1>9. Settling(f[n]) = {}
  <2>1. CASE Cardinality(f[n].settled) >= n
    <3>1. f[n].settled = Peers
      BY <1>1, <1>4, <1>8, <2>1, FS_Subset
    <3>2. Up \ f[n].settled = {}
      BY <1>1, <3>1
    <3> QED
      BY <3>2 DEF Settling
  <2> QED
    BY <1>7, <2>1
<1> QED
  BY <1>2, <1>8, <1>9

\* What the last round says of each peer.
LEMMA AnnouncementProperties ==
  ASSUME TypeOK, LimitedCounted, NEW e \in Elapsed, NEW p \in Up, hostLimits.incoming # 0
  PROVE  LET r == LastIncoming IN
         /\ p \in r.settled => Announcement(p) = outgoingBandwidth[p]
         /\ p \notin r.settled => /\ Announcement(p) = IncomingLimit(r)
                                  /\ outgoingBandwidth[p] # 0
                                  /\ outgoingBandwidth[p] >= IncomingLimit(r)
         /\ Announcement(p) \in 0 .. WORD - 1
<1> DEFINE r == LastIncoming
           l == IncomingLimit(r)
<1>1. SettledOK(r) /\ Settling(r) = {}
  BY LastIncomingProperties
<1>2. Announcement(p) = IF p \in r.settled THEN outgoingBandwidth[p] ELSE l
  BY DEF Announcement
<1>3. outgoingBandwidth[p] \in 0 .. WORD - 1 /\ WORD \in Nat \ {0}
  BY IncomingAmounts
<1> HIDE DEF r
<1>4. ASSUME p \notin r.settled
      PROVE  l \in 0 .. WORD - 1 /\ outgoingBandwidth[p] # 0 /\ outgoingBandwidth[p] >= l
  <2>1. r.settled # Up
    BY <1>4
  <2>2. connectedPeers # Cardinality(r.settled) /\ l \in 0 .. WORD - 1
    BY <1>1, <2>1, IncomingLimitBounds
  <2>3. ~ (outgoingBandwidth[p] = 0 \/ outgoingBandwidth[p] < l)
    BY <1>1, <1>4, <2>2 DEF Settling
  <2> HIDE DEF l
  <2> QED
    BY <1>3, <2>2, <2>3
<1> HIDE DEF l
<1> QED
  BY <1>2, <1>3, <1>4 DEF r, l

LEMMA ThrottleAnnouncedFairly ==
  ASSUME TypeOK, LimitedCounted, NEW e \in Elapsed, BandwidthThrottle(e),
         recalculateBandwidthLimits
  PROVE  FairAnnouncement
<1> DEFINE limited == {p \in Up : outgoingBandwidth[p] # 0}
           r == LastIncoming
           l == IncomingLimit(r)
           out == outgoingBandwidth
           host == hostLimits.incoming
           b == r.bandwidth
           rest == Up \ r.settled
           left == Cardinality(rest)
           low == limited \ rest
           ann == announced'
<1>1. \A p \in Up : ann[p] = Announcement(p)
  BY DEF BandwidthThrottle, Up
<1>2. CASE host = 0
  <2>1. \A p \in Up : Announcement(p) = 0
    BY <1>2 DEF Announcement
  <2> QED
    BY <1>1, <1>2, <2>1 DEF FairAnnouncement
<1>3. CASE host # 0
  <2>1. SettledOK(r)
    BY LastIncomingProperties
  <2>2. /\ b \in Nat /\ host \in Nat
        /\ b = host - Total(out, r.settled)
        /\ r.settled \in SUBSET Up
    BY <2>1, IncomingAmounts DEF SettledOK
  <2>3. /\ \A p \in Up : out[p] \in Nat
        /\ \A S \in SUBSET Up : IsFiniteSet(S) /\ Total(out, S) \in Nat
    BY IncomingAmounts
  <2>4. \A p \in Up : /\ p \in r.settled => ann[p] = out[p]
                      /\ p \notin r.settled => ann[p] = l /\ out[p] # 0 /\ out[p] >= l
                      /\ ann[p] \in Nat
    <3>1. WORD \in Nat
      BY BandwidthAssumption
    <3> QED
      BY <1>1, <1>3, <3>1, AnnouncementProperties
  <2>5. limited \in SUBSET Up /\ low \in SUBSET Up /\ rest \in SUBSET limited
    BY <2>4
  <2>6. low \in SUBSET r.settled
    OBVIOUS
  <2> HIDE DEF r, l, ann
  <2>7. \A p \in Up \ limited : ann[p] = 0
    BY <2>4
  <2>8. Total(out, r.settled) = Total(out, low) /\ Total(out, low) =< host
    <3>1. IsFiniteSet(r.settled) /\ \A p \in r.settled : out[p] \in Int
      BY <2>2, <2>3
    <3>2. \A U \in SUBSET r.settled :
            Total(out, r.settled) = Total(out, U) + Total(out, r.settled \ U)
      BY <3>1, TotalSplit
    <3>3. Total(out, r.settled) = Total(out, low) + Total(out, r.settled \ low)
      BY <2>6, <3>2
    <3>4. \A p \in r.settled \ low : out[p] = 0
      BY <2>2
    <3>5. IsFiniteSet(r.settled \ low)
      BY <2>2, <2>3
    <3> DEFINE T == r.settled \ low
    <3> HIDE DEF low, T
    <3>6. Total(out, T) = 0 * Cardinality(T) /\ Cardinality(T) \in Nat
      BY <3>4, <3>5, TotalConstant, FS_CardinalityType DEF T
    <3>7. Total(out, T) = 0
      BY <3>6
    <3>8. Total(out, low) \in Nat /\ Total(out, r.settled) \in Nat
      BY <2>2, <2>3, <2>5
    <3> QED
      BY <2>2, <3>3, <3>7, <3>8 DEF T
  <2>9. CASE r.settled = Up
    <3>1. limited = low /\ rest = {}
      BY <2>9
    <3>2. \A p \in limited : ann[p] = out[p] /\ out[p] \in Nat
      BY <2>3, <2>4, <2>9
    <3>3. IsFiniteSet(limited) /\ Total(out, limited) =< host
      BY <2>3, <2>5, <2>8, <3>1
    <3> HIDE DEF limited, low, rest
    <3>4. Total(ann, limited) = Total(out, limited)
      BY <3>2, <3>3, TotalSame
    <3>5. \A p \in limited : out[p] =< host
      <4>1. \A p \in limited : out[p] =< Total(out, limited)
        BY <3>2, <3>3, TotalOfNaturals
      <4>2. Total(out, limited) \in Nat
        BY <2>3, <2>5
      <4> QED
        BY <2>2, <3>2, <3>3, <4>1, <4>2
    <3>6. \A p \in limited : ann[p] = Minimum(out[p], host)
      BY <2>2, <3>2, <3>5 DEF Minimum
    <3>7. host \in 0 .. host
      BY <2>2
    <3> QED
      BY <1>3, <2>7, <3>3, <3>4, <3>5, <3>6, <3>7 DEF FairAnnouncement, limited, ann
  <2>10. CASE r.settled # Up
    <3>1. /\ left \in Nat \ {0} /\ l \in Nat
          /\ l * left =< b /\ b < (l + 1) * left
      BY <2>1, <2>10, IncomingLimitBounds DEF l
    <3>2. \A p \in r.settled : out[p] = 0 \/ out[p] < l
      BY <2>1, <2>10 DEF SettledOK, l
    <3>3. \A p \in low : out[p] < l /\ ann[p] = out[p] /\ out[p] \in Nat
      BY <2>2, <2>3, <2>4, <3>2
    <3>4. \A p \in rest : out[p] >= l /\ ann[p] = l /\ out[p] \in Nat
      BY <2>3, <2>4
    <3>5. limited \ rest = low /\ low \cup rest = limited
      BY <2>5
    <3>6. IsFiniteSet(limited) /\ IsFiniteSet(low) /\ IsFiniteSet(rest)
      BY <2>3, <2>5
    <3> DEFINE g == [p \in limited |-> IF out[p] < l THEN out[p] ELSE l + 1]
    <3>7. (\A p \in low : g[p] = out[p]) /\ (\A p \in rest : g[p] = l + 1)
      BY <2>5, <3>1, <3>3, <3>4
    <3> HIDE DEF limited, low, rest, left, g
    <3>8. Total(ann, limited) = Total(ann, rest) + Total(ann, low)
      <4>1. \A p \in limited : ann[p] \in Int
        BY <2>4, <2>5
      <4>2. \A U \in SUBSET limited :
              Total(ann, limited) = Total(ann, U) + Total(ann, limited \ U)
        BY <3>6, <4>1, TotalSplit
      <4> QED
        BY <2>5, <3>5, <4>2
    <3>9. Total(ann, rest) = l * left
      BY <3>1, <3>4, <3>6, TotalConstant DEF left
    <3>10. Total(ann, low) = Total(out, low)
      <4>1. \A p \in low : out[p] \in Int /\ ann[p] = out[p]
        BY <3>3
      <4> QED
        BY <3>6, <4>1, TotalSame
    <3>11. Total(g, limited) = Total(g, rest) + Total(g, low)
      <4>1. \A p \in limited : g[p] \in Int
        BY <3>1, <3>3, <3>4, <3>5, <3>7
      <4>2. \A U \in SUBSET limited :
              Total(g, limited) = Total(g, U) + Total(g, limited \ U)
        BY <3>6, <4>1, TotalSplit
      <4> QED
        BY <2>5, <3>5, <4>2
    <3>12. Total(g, rest) = (l + 1) * left
      <4>1. l + 1 \in Nat
        BY <3>1
      <4> QED
        BY <3>6, <3>7, <4>1, TotalConstant DEF left
    <3>13. Total(g, low) = Total(out, low)
      <4>1. \A p \in low : out[p] \in Int /\ g[p] = out[p]
        BY <3>3, <3>7
      <4> QED
        BY <3>6, <4>1, TotalSame
    <3> DEFINE t == Total(out, low)
               x == l * left
               y == (l + 1) * left
    <3>14. t \in Nat /\ x \in Nat /\ y \in Nat /\ b = host - t /\ x =< b /\ b < y
      BY <2>2, <2>3, <2>5, <2>8, <3>1
    <3> HIDE DEF b, host, t
    <3>15. l =< b
      <4>1. l * 1 =< l * left
        BY <3>1
      <4> HIDE DEF y
      <4> QED
        BY <3>1, <3>14, <4>1
    <3> HIDE DEF x, y
    <3>16. Total(ann, limited) =< host
      <4>1. Total(ann, limited) = x + t
        BY <3>8, <3>9, <3>10 DEF x, t
      <4> QED
        BY <2>2, <3>14, <4>1
    <3>17. host < Total(g, limited)
      <4>1. Total(g, limited) = y + t
        BY <3>11, <3>12, <3>13 DEF y, t
      <4> QED
        BY <2>2, <3>14, <4>1
    <3>18. l \in 0 .. host
      BY <2>2, <3>1, <3>14, <3>15
    <3>19. \A p \in limited : ann[p] = Minimum(out[p], l)
      BY <3>1, <3>3, <3>4, <3>5 DEF Minimum
    <3> QED
      BY <1>3, <2>7, <3>16, <3>17, <3>18, <3>19
      DEF FairAnnouncement, limited, ann, host, g
  <2> QED
    BY <2>9, <2>10
<1> QED
  BY <1>2, <1>3

-----------------------------------------------------------------------------
(* Types. *)

PeerTypes ==
  /\ phase \in [Peers -> Phases]
  /\ incomingBandwidth \in [Peers -> {l.incoming : l \in Limits} \cup {0}]
  /\ outgoingBandwidth \in [Peers -> {l.outgoing : l \in Limits} \cup {0}]
  /\ outgoingDataTotal \in [Peers -> Bursts \cup {0}]
  /\ announced \in [Peers -> 0 .. WORD - 1]

ThrottleTypes ==
  /\ packetThrottleLimit \in [Peers -> 0 .. SCALE]
  /\ packetThrottle \in [Peers -> 0 .. SCALE]
  /\ \A p \in Peers : packetThrottle[p] =< packetThrottleLimit[p]

HostTypes ==
  /\ hostLimits \in HostLimits
  /\ recalculateBandwidthLimits \in BOOLEAN
  /\ calls \in 0 .. MaxCalls
  /\ changes \in 0 .. MaxChanges

CounterTypes ==
  /\ connectedPeers \in 0 .. Cardinality(Peers)
  /\ bandwidthLimitedPeers \in 0 .. Cardinality(Peers)

LEMMA TypeParts == TypeOK <=> PeerTypes /\ ThrottleTypes /\ HostTypes /\ CounterTypes
BY DEF TypeOK, PeerTypes, ThrottleTypes, HostTypes, CounterTypes, Phases

LEMMA TypePartsNext ==
  PeerTypes' /\ ThrottleTypes' /\ HostTypes' /\ CounterTypes' => TypeOK'
BY DEF TypeOK, PeerTypes, ThrottleTypes, HostTypes, CounterTypes, Phases

\* The counters are in range because they count.
LEMMA CounterTypesNext == LimitedCounted' => CounterTypes'
<1> SUFFICES ASSUME LimitedCounted' PROVE CounterTypes'
  OBVIOUS
<1> DEFINE limited == {p \in Up' : incomingBandwidth'[p] # 0}
<1>1. IsFiniteSet(Peers) /\ Up' \subseteq Peers /\ limited \subseteq Peers
  BY BandwidthAssumption DEF Up
<1>2. connectedPeers' = Cardinality(Up') /\ bandwidthLimitedPeers' = Cardinality(limited)
  BY DEF LimitedCounted
<1> HIDE DEF limited
<1>3. /\ Cardinality(Up') =< Cardinality(Peers)
      /\ Cardinality(limited) =< Cardinality(Peers)
      /\ IsFiniteSet(Up') /\ IsFiniteSet(limited)
  BY <1>1, FS_Subset
<1>4. Cardinality(Up') \in Nat /\ Cardinality(limited) \in Nat /\ Cardinality(Peers) \in Nat
  BY <1>1, <1>3, FS_CardinalityType
<1> QED
  BY <1>2, <1>3, <1>4 DEF CounterTypes

LEMMA ScaleTypes == /\ SCALE \in Nat \ {0} /\ WORD \in Nat \ {0}
                    /\ SCALE \in 0 .. SCALE /\ 0 \in 0 .. WORD - 1
                    /\ Bursts \subseteq Nat /\ Steps \subseteq Nat
                    /\ MaxCalls \in Nat /\ MaxChanges \in Nat
BY BandwidthAssumption

\* What the steps other than the throttle leave in range.
LEMMA AcceptTypes ==
  ASSUME TypeOK, NEW p \in Peers, NEW l \in Limits, Accept(p, l)
  PROVE  PeerTypes' /\ ThrottleTypes' /\ HostTypes'
<1>1. PeerTypes'
  BY TypeParts DEF Accept, PeerTypes, Phases
<1>2. ThrottleTypes' /\ HostTypes'
  BY TypeParts DEF Accept, ThrottleTypes, HostTypes, throttleVars
<1> QED
  BY <1>1, <1>2

LEMMA PhaseTypes ==
  ASSUME TypeOK, NEW p \in Peers,
         NotifyConnect(p) \/ Connected(p)
           \/ \E recalculate \in BOOLEAN : Disconnect(p, recalculate)
  PROVE  PeerTypes' /\ ThrottleTypes' /\ HostTypes'
<1>1. /\ \E f \in Phases : phase' = [phase EXCEPT ![p] = f]
      /\ recalculateBandwidthLimits \in BOOLEAN => recalculateBandwidthLimits' \in BOOLEAN
      /\ UNCHANGED <<linkVars, outgoingDataTotal, throttleVars, announced,
                     hostLimits, calls, changes>>
  BY DEF NotifyConnect, Connected, Disconnect, Phases
<1>2. PeerTypes'
  BY <1>1, TypeParts DEF PeerTypes, linkVars
<1>3. ThrottleTypes' /\ HostTypes'
  BY <1>1, TypeParts DEF ThrottleTypes, HostTypes, throttleVars
<1> QED
  BY <1>2, <1>3

LEMMA ResetTypes ==
  ASSUME TypeOK, NEW p \in Peers, NEW recalculate \in BOOLEAN, Reset(p, recalculate)
  PROVE  PeerTypes' /\ ThrottleTypes' /\ HostTypes'
<1>1. PeerTypes'
  BY TypeParts, ScaleTypes DEF Reset, PeerTypes, Phases
<1>2. ThrottleTypes'
  <2>1. /\ packetThrottle' \in [Peers -> 0 .. SCALE]
        /\ packetThrottleLimit' \in [Peers -> 0 .. SCALE]
        /\ \A q \in Peers : IF q = p
                            THEN packetThrottle'[q] = SCALE /\ packetThrottleLimit'[q] = SCALE
                            ELSE /\ packetThrottle'[q] = packetThrottle[q]
                                 /\ packetThrottleLimit'[q] = packetThrottleLimit[q]
    BY TypeParts, ScaleTypes DEF Reset, ThrottleTypes
  <2> QED
    BY <2>1, TypeParts, ScaleTypes DEF ThrottleTypes
<1>3. HostTypes'
  BY TypeParts DEF Reset, HostTypes
<1> QED
  BY <1>1, <1>2, <1>3

LEMMA BurstTypes ==
  ASSUME TypeOK, NEW p \in Peers, NEW d \in Bursts, Burst(p, d)
  PROVE  PeerTypes' /\ ThrottleTypes' /\ HostTypes'
<1>1. outgoingDataTotal' = [outgoingDataTotal EXCEPT ![p] = d]
  <2>1. outgoingDataTotal[p] + d = d
    BY ScaleTypes DEF Burst
  <2> QED
    BY <2>1 DEF Burst
<1>2. PeerTypes'
  BY <1>1, TypeParts DEF Burst, PeerTypes, linkVars
<1>3. ThrottleTypes' /\ HostTypes'
  BY TypeParts DEF Burst, ThrottleTypes, HostTypes, throttleVars
<1> QED
  BY <1>2, <1>3

LEMMA HandleAcknowledgeTypes ==
  ASSUME TypeOK, NEW p \in Peers, NEW step \in Steps, HandleAcknowledge(p, step)
  PROVE  PeerTypes' /\ ThrottleTypes' /\ HostTypes'
<1>1. PeerTypes'
  BY TypeParts DEF HandleAcknowledge, PeerTypes, linkVars
<1>2. PICK throttle \in Throttles(p, step) :
        packetThrottle' = [packetThrottle EXCEPT ![p] = throttle]
  BY DEF HandleAcknowledge
<1>3. throttle \in 0 .. SCALE /\ throttle =< packetThrottleLimit[p]
  <2> DEFINE t == packetThrottle[p]
             limit == packetThrottleLimit[p]
             m == (t + step) % WORD
  <2>1. /\ t \in 0 .. SCALE /\ limit \in 0 .. SCALE /\ t =< limit
        /\ SCALE \in Nat /\ WORD \in Nat \ {0} /\ step \in Nat
    BY TypeParts, ScaleTypes DEF ThrottleTypes
  <2>2. throttle \in {limit, Minimum(m, limit), IF t > step THEN t - step ELSE 0}
    BY <1>2 DEF Throttles
  <2>3. m \in Nat
    <3>1. t + step \in Int
      BY <2>1
    <3> HIDE DEF t
    <3> QED
      BY <2>1, <3>1, ModBounds
  <2> HIDE DEF t, limit, m
  <2> QED
    BY <2>1, <2>2, <2>3 DEF Minimum, limit
<1>4. ThrottleTypes'
  BY <1>2, <1>3, TypeParts DEF HandleAcknowledge, ThrottleTypes
<1>5. HostTypes'
  BY TypeParts, ScaleTypes DEF HandleAcknowledge, HostTypes
<1> QED
  BY <1>1, <1>4, <1>5

LEMMA LimitTypes ==
  ASSUME TypeOK,
         (\E l \in HostLimits : BandwidthLimit(l))
           \/ (\E p \in Peers, l \in Limits : HandleBandwidthLimit(p, l))
  PROVE  PeerTypes' /\ ThrottleTypes' /\ HostTypes'
<1>1. ASSUME NEW l \in HostLimits, BandwidthLimit(l)
      PROVE  PeerTypes' /\ ThrottleTypes' /\ HostTypes'
  <2>1. PeerTypes' /\ ThrottleTypes'
    BY <1>1, TypeParts DEF BandwidthLimit, PeerTypes, ThrottleTypes, linkVars, throttleVars
  <2>2. HostTypes'
    BY <1>1, TypeParts, ScaleTypes DEF BandwidthLimit, HostTypes
  <2> QED
    BY <2>1, <2>2
<1>2. ASSUME NEW p \in Peers, NEW l \in Limits, HandleBandwidthLimit(p, l)
      PROVE  PeerTypes' /\ ThrottleTypes' /\ HostTypes'
  <2>1. PeerTypes'
    BY <1>2, TypeParts DEF HandleBandwidthLimit, PeerTypes
  <2>2. ThrottleTypes'
    BY <1>2, TypeParts DEF HandleBandwidthLimit, ThrottleTypes, throttleVars
  <2>3. HostTypes'
    BY <1>2, TypeParts, ScaleTypes DEF HandleBandwidthLimit, HostTypes
  <2> QED
    BY <2>1, <2>2, <2>3
<1> QED
  BY <1>1, <1>2

\* The new limits are in range, and so is what is announced: no share is divided
\* by zero.
LEMMA BandwidthThrottleTypes ==
  ASSUME TypeOK, LimitedCounted, NEW e \in Elapsed, BandwidthThrottle(e)
  PROVE  PeerTypes' /\ ThrottleTypes' /\ HostTypes'
<1>1. PeerTypes'
  <2>1. announced' \in [Peers -> 0 .. WORD - 1]
    <3>1. \A p \in Up : Announcement(p) \in 0 .. WORD - 1
      <4>1. CASE hostLimits.incoming = 0
        BY <4>1, ScaleTypes DEF Announcement
      <4>2. CASE hostLimits.incoming # 0
        BY <4>2, AnnouncementProperties
      <4> QED
        BY <4>1, <4>2
    <3> QED
      BY <3>1, TypeParts DEF BandwidthThrottle, PeerTypes
  <2>2. outgoingDataTotal' \in [Peers -> Bursts \cup {0}]
    BY TypeParts DEF BandwidthThrottle, PeerTypes
  <2> QED
    BY <2>1, <2>2, TypeParts DEF BandwidthThrottle, PeerTypes, linkVars
<1>2. ThrottleTypes'
  <2>1. \A p \in Peers : NewLimit(p, e) \in 0 .. SCALE
    BY NewLimitProperties
  <2>2. \A p \in Peers : packetThrottle[p] \in 0 .. SCALE
    BY TypeParts DEF ThrottleTypes
  <2>3. \A p \in Peers : /\ Minimum(packetThrottle[p], NewLimit(p, e)) \in 0 .. SCALE
                         /\ Minimum(packetThrottle[p], NewLimit(p, e)) =< NewLimit(p, e)
    BY <2>1, <2>2 DEF Minimum
  <2>4. /\ packetThrottleLimit' = [p \in Peers |-> NewLimit(p, e)]
        /\ packetThrottle' = [p \in Peers |-> Minimum(packetThrottle[p], NewLimit(p, e))]
    BY DEF BandwidthThrottle
  <2> QED
    BY <2>1, <2>3, <2>4 DEF ThrottleTypes
<1>3. HostTypes'
  <2>1. /\ calls < MaxCalls /\ calls' = calls + 1
        /\ recalculateBandwidthLimits' = FALSE
        /\ hostLimits' = hostLimits /\ changes' = changes
    BY DEF BandwidthThrottle
  <2>2. recalculateBandwidthLimits' \in BOOLEAN
    BY <2>1, Zenon
  <2>3. HostTypes
    BY TypeParts
  <2> QED
    BY <2>1, <2>2, <2>3, ScaleTypes DEF HostTypes
<1> QED
  BY <1>1, <1>2, <1>3

LEMMA InitTypes == Init => TypeOK
<1> SUFFICES ASSUME Init PROVE TypeOK
  OBVIOUS
<1>1. Cardinality(Peers) \in Nat
  BY BandwidthAssumption, FS_CardinalityType
<1>2. PeerTypes /\ ThrottleTypes
  BY ScaleTypes DEF Init, PeerTypes, ThrottleTypes, Phases
<1>3. HostTypes /\ CounterTypes
  <2>1. /\ hostLimits \in HostLimits /\ recalculateBandwidthLimits = FALSE
        /\ calls = 0 /\ changes = 0
        /\ connectedPeers = 0 /\ bandwidthLimitedPeers = 0
    BY DEF Init
  <2>4. recalculateBandwidthLimits \in BOOLEAN
    BY <2>1, Zenon
  <2>2. HostTypes
    BY <2>1, <2>4, ScaleTypes DEF HostTypes
  <2>3. CounterTypes
    BY <1>1, <2>1 DEF CounterTypes
  <2> QED
    BY <2>2, <2>3
<1> QED
  BY <1>2, <1>3, TypeParts

LEMMA StepTypes ==
  ASSUME TypeOK, LimitedCounted, LimitedCounted', [Next]_vars
  PROVE  TypeOK'
<1>1. PeerTypes' /\ ThrottleTypes' /\ HostTypes'
  <2>1. ASSUME NEW p \in Peers, NEW l \in Limits, Accept(p, l)
        PROVE  PeerTypes' /\ ThrottleTypes' /\ HostTypes'
    BY <2>1, AcceptTypes
  <2>2. ASSUME NEW p \in Peers, NotifyConnect(p) \/ Connected(p)
        PROVE  PeerTypes' /\ ThrottleTypes' /\ HostTypes'
    BY <2>2, PhaseTypes
  <2>3. ASSUME NEW p \in Peers, NEW recalculate \in BOOLEAN, Disconnect(p, recalculate)
        PROVE  PeerTypes' /\ ThrottleTypes' /\ HostTypes'
    BY <2>3, PhaseTypes
  <2>4. ASSUME NEW p \in Peers, NEW recalculate \in BOOLEAN, Reset(p, recalculate)
        PROVE  PeerTypes' /\ ThrottleTypes' /\ HostTypes'
    BY <2>4, ResetTypes
  <2>5. ASSUME NEW p \in Peers, NEW d \in Bursts, Burst(p, d)
        PROVE  PeerTypes' /\ ThrottleTypes' /\ HostTypes'
    BY <2>5, BurstTypes
  <2>6. ASSUME NEW p \in Peers, NEW step \in Steps, HandleAcknowledge(p, step)
        PROVE  PeerTypes' /\ ThrottleTypes' /\ HostTypes'
    BY <2>6, HandleAcknowledgeTypes
  <2>7. ASSUME NEW l \in HostLimits, BandwidthLimit(l)
        PROVE  PeerTypes' /\ ThrottleTypes' /\ HostTypes'
    BY <2>7, LimitTypes
  <2>8. ASSUME NEW p \in Peers, NEW l \in Limits, HandleBandwidthLimit(p, l)
        PROVE  PeerTypes' /\ ThrottleTypes' /\ HostTypes'
    BY <2>8, LimitTypes
  <2>9. ASSUME NEW e \in Elapsed, BandwidthThrottle(e)
        PROVE  PeerTypes' /\ ThrottleTypes' /\ HostTypes'
    BY <2>9, BandwidthThrottleTypes
  <2>10. CASE UNCHANGED vars
    BY <2>10, TypeParts
    DEF vars, linkVars, throttleVars, counterVars, PeerTypes, ThrottleTypes, HostTypes
  <2> QED
    BY <2>1, <2>2, <2>3, <2>4, <2>5, <2>6, <2>7, <2>8, <2>9, <2>10 DEF Next
<1> QED
  BY <1>1, CounterTypesNext, TypePartsNext

-----------------------------------------------------------------------------
(* The theorems. *)

Inv == TypeOK /\ Counted

LEMMA InvInit == Init => Inv
BY InitTypes, InitCounted DEF Inv

LEMMA InvCounted == Inv => LimitedCounted
BY DEF Inv, Counted, LimitedCounted, Limited

LEMMA InvNext == Inv /\ [Next]_vars => Inv'
<1> SUFFICES ASSUME Inv, [Next]_vars PROVE Inv'
  OBVIOUS
<1>1. Counted'
  BY StepCounted DEF Inv
<1>2. LimitedCounted'
  BY <1>1 DEF Counted, LimitedCounted, Limited
<1>3. TypeOK'
  BY <1>2, InvCounted, StepTypes DEF Inv
<1> QED
  BY <1>1, <1>3 DEF Inv

\* No throttle ever is above its limit and no limit above the whole, whatever the
\* limits, the peers and the data: the divisions of enet_host_bandwidth_throttle
\* have a divisor, and its subtractions and products stay in an enet_uint32.
THEOREM TypeCorrect == Spec => []TypeOK
<1>1. Inv => TypeOK
  BY DEF Inv
<1> QED
  BY <1>1, InvInit, InvNext, PTL DEF Spec

\* However many peers are connected, whatever their limits and their data, the
\* limits that a call of the throttle computes let no limited peer be sent more
\* than it can take, unless it has the smallest limit.
THEOREM PeersNeverOverwhelmed == Spec => PeersNotOverwhelmed
<1>1. Inv /\ [Next]_vars =>
        [\A e \in Elapsed : BandwidthThrottle(e) =>
           \A p \in Up :
             incomingBandwidth[p] # 0 =>
               \/ Passes(p, packetThrottleLimit'[p]) =< PeerShare(p, e)
               \/ packetThrottleLimit'[p] = 1]_vars
  <2> SUFFICES ASSUME Inv, NEW e \in Elapsed, BandwidthThrottle(e), NEW p \in Up,
                      incomingBandwidth[p] # 0
               PROVE  \/ Passes(p, packetThrottleLimit'[p]) =< PeerShare(p, e)
                      \/ packetThrottleLimit'[p] = 1
    OBVIOUS
  <2>1. TypeOK /\ LimitedCounted
    BY InvCounted DEF Inv
  <2> QED
    BY <2>1, ThrottlePeersNotOverwhelmed
<1> QED
  BY <1>1, InvInit, InvNext, PTL DEF Spec, PeersNotOverwhelmed

\* Nor are all peers together sent more than the host's outgoing bandwidth: what
\* the adjusted peers take is never more than what is left.
THEOREM HostNeverOverwhelmed == Spec => HostNotOverwhelmed
<1>1. Inv /\ [Next]_vars =>
        [\A e \in Elapsed : BandwidthThrottle(e) /\ hostLimits.outgoing # 0 =>
           Total(SentAfter(e), Up) =< Share(hostLimits.outgoing, e)]_vars
  <2> SUFFICES ASSUME Inv, NEW e \in Elapsed, BandwidthThrottle(e),
                      hostLimits.outgoing # 0
               PROVE  Total(SentAfter(e), Up) =< Share(hostLimits.outgoing, e)
    OBVIOUS
  <2>1. TypeOK /\ LimitedCounted
    BY InvCounted DEF Inv
  <2> QED
    BY <2>1, ThrottleHostNotOverwhelmed
<1> QED
  BY <1>1, InvInit, InvNext, PTL DEF Spec, HostNotOverwhelmed

\* Only the throttle takes back the request for new limits.
LEMMA OnlyThrottleAnnounces ==
  ASSUME Inv, [Next]_vars, recalculateBandwidthLimits, ~ recalculateBandwidthLimits'
  PROVE  \E e \in Elapsed : BandwidthThrottle(e)
<1>1. CASE UNCHANGED vars
  BY <1>1 DEF vars
<1>2. ASSUME NEW p \in Peers, NEW l \in Limits, Accept(p, l) PROVE FALSE
  BY <1>2 DEF Accept
<1>3. ASSUME NEW p \in Peers, NotifyConnect(p) \/ Connected(p) PROVE FALSE
  BY <1>3 DEF NotifyConnect, Connected
<1>4. ASSUME NEW p \in Peers, NEW recalculate \in BOOLEAN,
             Disconnect(p, recalculate) \/ Reset(p, recalculate)
      PROVE  FALSE
  BY <1>4 DEF Disconnect, Reset
<1>5. ASSUME NEW p \in Peers, NEW d \in Bursts, Burst(p, d) PROVE FALSE
  BY <1>5 DEF Burst
<1>6. ASSUME NEW p \in Peers, NEW step \in Steps, HandleAcknowledge(p, step) PROVE FALSE
  BY <1>6 DEF HandleAcknowledge
<1>7. ASSUME NEW l \in HostLimits, BandwidthLimit(l) PROVE FALSE
  BY <1>7 DEF BandwidthLimit
<1>8. ASSUME NEW p \in Peers, NEW l \in Limits, HandleBandwidthLimit(p, l) PROVE FALSE
  BY <1>8 DEF HandleBandwidthLimit
<1> QED
  BY <1>1, <1>2, <1>3, <1>4, <1>5, <1>6, <1>7, <1>8 DEF Next

\* What is announced to the peers when limits are recalculated is the greatest
\* common level within the host's incoming bandwidth, for any number of peers and
\* any limits: the loop over the peers ends with a fair share.
THEOREM AlwaysAnnouncedFairly == Spec => AnnouncedFairly
<1>1. Inv /\ [Next]_vars =>
        [recalculateBandwidthLimits /\ ~ recalculateBandwidthLimits' =>
           FairAnnouncement]_vars
  <2> SUFFICES ASSUME Inv, [Next]_vars, recalculateBandwidthLimits,
                      ~ recalculateBandwidthLimits'
               PROVE  FairAnnouncement
    OBVIOUS
  <2>1. PICK e \in Elapsed : BandwidthThrottle(e)
    BY OnlyThrottleAnnounces
  <2>2. TypeOK /\ LimitedCounted
    BY InvCounted DEF Inv
  <2> QED
    BY <2>1, <2>2, ThrottleAnnouncedFairly
<1> QED
  BY <1>1, InvInit, InvNext, PTL DEF Spec, AnnouncedFairly
=============================================================================
