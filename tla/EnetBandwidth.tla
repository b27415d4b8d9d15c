---------------------------- MODULE EnetBandwidth ----------------------------
(***************************************************************************)
(* How an ENetHost shares its bandwidth among its peers: the limits that   *)
(* peers announce with CONNECT and BANDWIDTH_LIMIT, the counters of peers  *)
(* kept for them, the packet throttle, and enet_host_bandwidth_throttle,   *)
(* which once per interval sets every peer's packetThrottleLimit from what *)
(* was sent and, when asked to, announces new limits to the peers.         *)
(*                                                                         *)
(* A peer's connection is abstracted to the five phases that the limits    *)
(* tell apart (EnetHost has its states): disconnected, the handshake, the  *)
(* wait for its CONNECT event, the two states in which it counts           *)
(* (CONNECTED, DISCONNECT_LATER), and the others on the way down.  Round   *)
(* trip times are abstracted to the verdict of enet_peer_throttle about    *)
(* them, commands' sizes to bursts of traffic.                             *)
(* Integers have the width of enet_uint32.                                 *)
(***************************************************************************)
EXTENDS Integers, FiniteSets, FiniteSetsExt

CONSTANTS
  Peers,                   \* host->peers
  WORD,                    \* 2^32
  SCALE,                   \* ENET_PEER_PACKET_THROTTLE_SCALE (32)
  INTERVAL,                \* ENET_HOST_BANDWIDTH_THROTTLE_INTERVAL (1000), one second
  Elapsed,                 \* the times between two calls of the throttle
  Limits,                  \* a peer's limits, [incoming, outgoing]; 0: none
  HostLimits,              \* a host's limits, likewise
  Bursts,                  \* the amounts of data sent to a peer in an interval
  Steps,                   \* packetThrottleAcceleration and -Deceleration
  MaxCalls,                \* bound: calls of the throttle that do something
  MaxChanges               \* bound: changes of limits while connected, and
                           \* acknowledgements that bring a round trip time

LimitType == [incoming : Nat, outgoing : Nat]

ASSUME BandwidthAssumption ==
  /\ IsFiniteSet(Peers)
  /\ WORD \in Nat \ {0}
  /\ SCALE \in Nat \ {0}
  /\ INTERVAL \in Nat /\ SCALE =< INTERVAL
  /\ \A e \in Elapsed : e \in Nat /\ e >= INTERVAL
  /\ Limits \subseteq LimitType
  /\ HostLimits \subseteq LimitType
  /\ Bursts \subseteq Nat
  /\ Steps \subseteq Nat
  /\ MaxCalls \in Nat
  /\ MaxChanges \in Nat

\* What fits an enet_uint32: the limits themselves, the products of the throttle
\* before they are divided (host.cpp:486, 506, 507), and the data of all peers of
\* an interval.  The code looks at none of them.  With its constants a host may
\* send and a peer may take up to 4.29 MB/s in a call after a second, less in a
\* later one, and a peer be sent 134 MB in the interval.
Fits ==
  /\ \A l \in Limits, e \in Elapsed : l.incoming * e < WORD /\ l.outgoing < WORD
  /\ \A l \in HostLimits, e \in Elapsed : l.outgoing * e < WORD /\ l.incoming < WORD
  /\ \A d \in Bursts : d * SCALE < WORD /\ d * Cardinality(Peers) < WORD

ASSUME FitsAssumption == Fits

VARIABLES
  (* each peer *)
  phase,                   \* "down", "connecting", "pending", "up" or "closing"
  incomingBandwidth,       \* peer->incomingBandwidth: what the peer can take
  outgoingBandwidth,       \* peer->outgoingBandwidth: what the peer can send
  outgoingDataTotal,       \* data sent to the peer since the last call
  packetThrottle,
  packetThrottleLimit,
  announced,               \* history: the incomingBandwidth it was last told
  (* the host *)
  hostLimits,              \* host->incomingBandwidth and host->outgoingBandwidth
  connectedPeers,
  bandwidthLimitedPeers,
  recalculateBandwidthLimits,
  (* bounds *)
  calls,                   \* see MaxCalls
  changes                  \* see MaxChanges

throttleVars == <<packetThrottle, packetThrottleLimit>>
linkVars     == <<incomingBandwidth, outgoingBandwidth>>
counterVars  == <<connectedPeers, bandwidthLimitedPeers>>
vars == <<phase, linkVars, outgoingDataTotal, throttleVars, announced,
          hostLimits, counterVars, recalculateBandwidthLimits, calls, changes>>

Up == {p \in Peers : phase[p] = "up"}

Minimum(a, b) == IF a < b THEN a ELSE b

\* The sum of f over a set of peers.
Total(f, S) == MapThenSumSet(LAMBDA p : f[p], S)

-----------------------------------------------------------------------------
(* Connections. *)

\* enet_protocol_handle_connect takes the limits from the CONNECT command, or
\* enet_protocol_handle_verify_connect from the answer to it.
Accept(p, l) ==
  /\ phase[p] = "down"
  /\ phase' = [phase EXCEPT ![p] = "connecting"]
  /\ incomingBandwidth' = [incomingBandwidth EXCEPT ![p] = l.incoming]
  /\ outgoingBandwidth' = [outgoingBandwidth EXCEPT ![p] = l.outgoing]
  /\ UNCHANGED <<outgoingDataTotal, throttleVars, announced, hostLimits,
                 counterVars, recalculateBandwidthLimits, calls, changes>>

\* enet_peer_on_connect and enet_peer_on_disconnect.
OnConnect(p) ==
  /\ bandwidthLimitedPeers' = IF incomingBandwidth[p] # 0
                              THEN bandwidthLimitedPeers + 1
                              ELSE bandwidthLimitedPeers
  /\ connectedPeers' = connectedPeers + 1
OnDisconnect_Always(p) ==
  /\ bandwidthLimitedPeers' = IF incomingBandwidth[p] # 0
                              THEN bandwidthLimitedPeers - 1
                              ELSE bandwidthLimitedPeers
  /\ connectedPeers' = connectedPeers - 1
OnDisconnect(p) ==
  IF phase[p] = "up"
  THEN /\ bandwidthLimitedPeers' = IF incomingBandwidth[p] # 0
                                   THEN bandwidthLimitedPeers - 1
                                   ELSE bandwidthLimitedPeers
       /\ connectedPeers' = connectedPeers - 1
  ELSE UNCHANGED counterVars

\* enet_protocol_notify_connect: the handshake is over.
NotifyConnect(p) ==
  /\ phase[p] = "connecting"
  /\ phase' = [phase EXCEPT ![p] = "pending"]
  /\ recalculateBandwidthLimits' = TRUE
  /\ UNCHANGED <<linkVars, outgoingDataTotal, throttleVars, announced,
                 hostLimits, counterVars, calls, changes>>

\* The peer counts when its CONNECT event is polled, at once or later: a call of
\* the throttle in between does not see it.
Connected(p) ==
  /\ phase[p] = "pending"
  /\ phase' = [phase EXCEPT ![p] = "up"]
  /\ OnConnect(p)
  /\ UNCHANGED <<linkVars, outgoingDataTotal, throttleVars, announced,
                 hostLimits, recalculateBandwidthLimits, calls, changes>>

\* enet_peer_disconnect, a DISCONNECT command or a timeout (which alone asks for
\* new limits): the peer leaves the two states in which it counts and keeps its
\* limits.
Disconnect(p, recalculate) ==
  /\ phase[p] = "up"
  /\ phase' = [phase EXCEPT ![p] = "closing"]
  /\ OnDisconnect(p)
  /\ recalculateBandwidthLimits' = (recalculateBandwidthLimits \/ recalculate)
  /\ UNCHANGED <<linkVars, outgoingDataTotal, throttleVars, announced,
                 hostLimits, calls, changes>>

\* enet_peer_reset; recalculate is set when it is the end of a connection that
\* the host notices, and not when the application resets the peer.
Reset(p, recalculate) ==
  /\ phase[p] # "down"
  /\ phase' = [phase EXCEPT ![p] = "down"]
  /\ OnDisconnect(p)
  /\ incomingBandwidth' = [incomingBandwidth EXCEPT ![p] = 0]
  /\ outgoingBandwidth' = [outgoingBandwidth EXCEPT ![p] = 0]
  /\ outgoingDataTotal' = [outgoingDataTotal EXCEPT ![p] = 0]
  /\ packetThrottle' = [packetThrottle EXCEPT ![p] = SCALE]
  /\ packetThrottleLimit' = [packetThrottleLimit EXCEPT ![p] = SCALE]
  /\ announced' = [announced EXCEPT ![p] = 0]
  /\ recalculateBandwidthLimits' = (recalculateBandwidthLimits \/ recalculate)
  /\ UNCHANGED <<hostLimits, calls, changes>>

\* Data for peer p is queued (enet_peer_setup_outgoing_command), at most one
\* burst per interval.  The few bytes of the handshake and of the
\* commands that announce limits are left out.
Burst(p, d) ==
  /\ phase[p] = "up"
  /\ outgoingDataTotal[p] = 0
  /\ outgoingDataTotal' = [outgoingDataTotal EXCEPT ![p] = @ + d]
  /\ UNCHANGED <<phase, linkVars, throttleVars, announced, hostLimits,
                 counterVars, recalculateBandwidthLimits, calls, changes>>

\* enet_peer_throttle: the round trip times are steady, better, or worse.
Throttles_Unlimited(p, step) ==
  {packetThrottleLimit[p], (packetThrottle[p] + step) % WORD,
   IF packetThrottle[p] > step THEN packetThrottle[p] - step ELSE 0}
Throttles(p, step) ==
  {packetThrottleLimit[p],
   Minimum((packetThrottle[p] + step) % WORD, packetThrottleLimit[p]),
   IF packetThrottle[p] > step THEN packetThrottle[p] - step ELSE 0}

\* An acknowledgement brings a round trip time.
HandleAcknowledge(p, step) ==
  /\ changes < MaxChanges
  /\ changes' = changes + 1
  /\ phase[p] = "up"
  /\ \E throttle \in Throttles(p, step) :
       packetThrottle' = [packetThrottle EXCEPT ![p] = throttle]
  /\ UNCHANGED <<phase, linkVars, outgoingDataTotal, packetThrottleLimit,
                 announced, hostLimits, counterVars,
                 recalculateBandwidthLimits, calls>>

-----------------------------------------------------------------------------
(* Limits. *)

\* enet_host_bandwidth_limit.
BandwidthLimit(l) ==
  /\ changes < MaxChanges
  /\ changes' = changes + 1
  /\ hostLimits' = l
  /\ recalculateBandwidthLimits' = TRUE
  /\ UNCHANGED <<phase, linkVars, outgoingDataTotal, throttleVars, announced,
                 counterVars, calls>>

\* enet_protocol_handle_bandwidth_limit: a BANDWIDTH_LIMIT command of peer p.
HandleBandwidthLimit(p, l) ==
  /\ changes < MaxChanges
  /\ changes' = changes + 1
  /\ phase[p] = "up"
  /\ incomingBandwidth' = [incomingBandwidth EXCEPT ![p] = l.incoming]
  /\ outgoingBandwidth' = [outgoingBandwidth EXCEPT ![p] = l.outgoing]
  /\ bandwidthLimitedPeers' =
       bandwidthLimitedPeers - (IF incomingBandwidth[p] # 0 THEN 1 ELSE 0)
                             + (IF l.incoming # 0 THEN 1 ELSE 0)
  /\ UNCHANGED <<phase, outgoingDataTotal, throttleVars, announced, hostLimits,
                 connectedPeers, recalculateBandwidthLimits, calls>>

-----------------------------------------------------------------------------
(* enet_host_bandwidth_throttle, the outgoing side. *)

\* What bandwidth b lets through in e milliseconds.
Share(b, e) == ((b * e) % WORD) \div INTERVAL

PeerShare(p, e) == Share(incomingBandwidth[p], e)

\* The state of the loop: the peers adjusted to their own limits, and what is
\* left of the host's bandwidth and of the data to be sent with it.
FirstRound(e) ==
  IF hostLimits.outgoing = 0
  THEN [adjusted |-> {}, bandwidth |-> WORD - 1, dataTotal |-> WORD - 1]
  ELSE [adjusted  |-> {},
        bandwidth |-> Share(hostLimits.outgoing, e),
        dataTotal |-> Total(outgoingDataTotal, Up) % WORD]

CommonThrottle(r) ==
  IF r.dataTotal =< r.bandwidth
  THEN SCALE
  ELSE ((r.bandwidth * SCALE) % WORD) \div r.dataTotal

\* The limited peers that cannot take what the common throttle sends them.
Overwhelmed(r, e) ==
  {p \in Up \ r.adjusted :
     /\ incomingBandwidth[p] # 0
     /\ ((CommonThrottle(r) * outgoingDataTotal[p]) % WORD) \div SCALE
          > PeerShare(p, e)}

NextRound_KeepsBandwidth(r, e) ==
  LET over  == Overwhelmed(r, e)
      taken == Total([p \in Peers |-> PeerShare(p, e)], over) IN
  [adjusted  |-> r.adjusted \cup over,
   bandwidth |-> r.bandwidth,
   dataTotal |-> (r.dataTotal - taken) % WORD]
NextRound(r, e) ==
  LET over  == Overwhelmed(r, e)
      taken == Total([p \in Peers |-> PeerShare(p, e)], over) IN
  [adjusted  |-> r.adjusted \cup over,
   bandwidth |-> (r.bandwidth - taken) % WORD,
   dataTotal |-> (r.dataTotal - taken) % WORD]

\* Rounds that adjust nobody, or have nobody left to adjust, change nothing.
LastRound_OffByOne(e) ==
  IF bandwidthLimitedPeers > 1
  THEN NextRound(FirstRound(e), e) ELSE FirstRound(e)
LastRound(e) ==
  LET round[k \in 0 .. Cardinality(Peers)] ==
        IF k = 0 THEN FirstRound(e) ELSE NextRound(round[k - 1], e)
  IN IF bandwidthLimitedPeers > 0 THEN round[Cardinality(Peers)] ELSE round[0]

\* A peer's own limit is never 0: some of its packets always get through.
OwnLimit(p, e) ==
  LET l == ((PeerShare(p, e) * SCALE) % WORD) \div outgoingDataTotal[p] IN
  IF l = 0 THEN 1 ELSE l

NewLimit(p, e) ==
  LET r == LastRound(e) IN
  IF p \in r.adjusted THEN OwnLimit(p, e)
  ELSE IF p \in Up /\ connectedPeers > Cardinality(r.adjusted)
       THEN CommonThrottle(r)
       ELSE packetThrottleLimit[p]

-----------------------------------------------------------------------------
(* enet_host_bandwidth_throttle, the incoming side. *)

IncomingLimit(r) == r.bandwidth \div (connectedPeers - Cardinality(r.settled))

\* The peers whose own outgoing limit is below the common one, or is none.
Settling(r) ==
  IF connectedPeers = Cardinality(r.settled) THEN {}
  ELSE {p \in Up \ r.settled : \/ outgoingBandwidth[p] = 0
                               \/ outgoingBandwidth[p] < IncomingLimit(r)}

NextIncoming(r) ==
  [settled   |-> r.settled \cup Settling(r),
   bandwidth |-> (r.bandwidth - Total(outgoingBandwidth, Settling(r))) % WORD]

LastIncoming_OneRound ==
  NextIncoming([settled |-> {}, bandwidth |-> hostLimits.incoming])
LastIncoming ==
  LET round[k \in 0 .. Cardinality(Peers)] ==
        IF k = 0 THEN [settled |-> {}, bandwidth |-> hostLimits.incoming]
        ELSE NextIncoming(round[k - 1])
  IN round[Cardinality(Peers)]

\* The incomingBandwidth of the BANDWIDTH_LIMIT command for peer p.
Announcement(p) ==
  IF hostLimits.incoming = 0 THEN 0
  ELSE IF p \in LastIncoming.settled THEN outgoingBandwidth[p]
       ELSE IncomingLimit(LastIncoming)

\* The whole function, when there is somebody to do it for.
BandwidthThrottle(e) ==
  /\ calls < MaxCalls
  /\ calls' = calls + 1
  /\ connectedPeers > 0
  /\ packetThrottleLimit' = [p \in Peers |-> NewLimit(p, e)]
  /\ packetThrottle' =
       [p \in Peers |-> Minimum(packetThrottle[p], NewLimit(p, e))]
  /\ outgoingDataTotal' =
       [p \in Peers |-> IF p \in Up THEN 0 ELSE outgoingDataTotal[p]]
  /\ announced' =
       IF recalculateBandwidthLimits
       THEN [p \in Peers |-> IF p \in Up THEN Announcement(p) ELSE announced[p]]
       ELSE announced
  /\ recalculateBandwidthLimits' = FALSE
  /\ UNCHANGED <<phase, linkVars, hostLimits, counterVars, changes>>

-----------------------------------------------------------------------------
Init ==
  /\ phase = [p \in Peers |-> "down"]
  /\ incomingBandwidth = [p \in Peers |-> 0]
  /\ outgoingBandwidth = [p \in Peers |-> 0]
  /\ outgoingDataTotal = [p \in Peers |-> 0]
  /\ packetThrottle = [p \in Peers |-> SCALE]
  /\ packetThrottleLimit = [p \in Peers |-> SCALE]
  /\ announced = [p \in Peers |-> 0]
  /\ hostLimits \in HostLimits
  /\ connectedPeers = 0
  /\ bandwidthLimitedPeers = 0
  /\ recalculateBandwidthLimits = FALSE
  /\ calls = 0
  /\ changes = 0

Next ==
  \/ \E p \in Peers, l \in Limits : Accept(p, l)
  \/ \E p \in Peers : NotifyConnect(p) \/ Connected(p)
  \/ \E p \in Peers, recalculate \in BOOLEAN :
       Disconnect(p, recalculate) \/ Reset(p, recalculate)
  \/ \E p \in Peers, d \in Bursts : Burst(p, d)
  \/ \E p \in Peers, step \in Steps : HandleAcknowledge(p, step)
  \/ \E l \in HostLimits : BandwidthLimit(l)
  \/ \E p \in Peers, l \in Limits : HandleBandwidthLimit(p, l)
  \/ \E e \in Elapsed : BandwidthThrottle(e)

Spec == Init /\ [][Next]_vars

-----------------------------------------------------------------------------
(* Properties. *)

\* No throttle is above its limit and no limit above the scale, and limits and
\* counters are numbers of the ranges they come from.
TypeOK ==
  /\ phase \in [Peers -> {"down", "connecting", "pending", "up", "closing"}]
  /\ incomingBandwidth \in [Peers -> {l.incoming : l \in Limits} \cup {0}]
  /\ outgoingBandwidth \in [Peers -> {l.outgoing : l \in Limits} \cup {0}]
  /\ outgoingDataTotal \in [Peers -> Bursts \cup {0}]
  /\ packetThrottleLimit \in [Peers -> 0 .. SCALE]
  /\ packetThrottle \in [Peers -> 0 .. SCALE]
  /\ \A p \in Peers : packetThrottle[p] =< packetThrottleLimit[p]
  /\ announced \in [Peers -> 0 .. WORD - 1]
  /\ hostLimits \in HostLimits
  /\ connectedPeers \in 0 .. Cardinality(Peers)
  /\ bandwidthLimitedPeers \in 0 .. Cardinality(Peers)
  /\ recalculateBandwidthLimits \in BOOLEAN
  /\ calls \in 0 .. MaxCalls
  /\ changes \in 0 .. MaxChanges

\* The host's counters are those of its peers whatever limits arrive when and
\* in whatever way connections end.  They are kept in three places (peer.cpp:343,
\* 356, protocol.cpp:756), and the throttle divides by what they say.
LimitedCounted ==
  /\ connectedPeers = Cardinality(Up)
  /\ bandwidthLimitedPeers = Cardinality({p \in Up : incomingBandwidth[p] # 0})

\* What peer p is sent of as much data again when its limit is m.
Passes(p, m) == (m * outgoingDataTotal[p]) \div SCALE

\* The new limits let no peer be sent more than it can take, unless it is given
\* the smallest limit there is (host.cpp:521).
PeersNotOverwhelmed ==
  [][\A e \in Elapsed : BandwidthThrottle(e) =>
       \A p \in Up :
         incomingBandwidth[p] # 0 =>
           \/ Passes(p, packetThrottleLimit'[p]) =< PeerShare(p, e)
           \/ packetThrottleLimit'[p] = 1]_vars

\* What the peers are sent then, without what the smallest limit gives a limited
\* peer above its own bandwidth.
SentAfter(e) ==
  [p \in Peers |-> IF packetThrottleLimit'[p] = 1 /\ incomingBandwidth[p] # 0
                   THEN Minimum(Passes(p, 1), PeerShare(p, e))
                   ELSE Passes(p, packetThrottleLimit'[p])]

\* Together the peers are sent no more than the host's outgoing bandwidth,
\* except for what the smallest limit gives a peer above its own bandwidth: what
\* the rounds take from bandwidth and dataTotal never takes them below zero.
HostNotOverwhelmed ==
  [][\A e \in Elapsed : BandwidthThrottle(e) /\ hostLimits.outgoing # 0 =>
       Total(SentAfter(e), Up) =< Share(hostLimits.outgoing, e)]_vars

\* All peers that have an outgoing limit may send up to one common level, which
\* could not be one higher within the host's incoming bandwidth; those below it
\* keep their own limit.  Peers without a limit are told that the host has none
\* either.
FairAnnouncement ==
  LET limited == {p \in Up : outgoingBandwidth[p] # 0} IN
  IF hostLimits.incoming = 0
  THEN \A p \in Up : announced'[p] = 0
  ELSE /\ \A p \in Up \ limited : announced'[p] = 0
       /\ Total(announced', limited) =< hostLimits.incoming
       /\ \E level \in 0 .. hostLimits.incoming :
            /\ \A p \in limited :
                 announced'[p] = Minimum(outgoingBandwidth[p], level)
            /\ \/ \A p \in limited : outgoingBandwidth[p] =< level
               \/ hostLimits.incoming <
                    Total([p \in limited |-> IF outgoingBandwidth[p] < level
                                             THEN outgoingBandwidth[p]
                                             ELSE level + 1], limited)

\* What is announced to the peers is a fair share.
AnnouncedFairly ==
  [][recalculateBandwidthLimits /\ ~ recalculateBandwidthLimits' =>
       FairAnnouncement]_vars
=============================================================================
