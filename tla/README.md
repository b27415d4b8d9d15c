# enetsample in TLA+

TLA+ modules, TLC configurations and TLAPS proofs for this repository: ENet (a
reliable UDP protocol, `src/*.cpp`, `include/enet`), a C++ wrapper that runs an
ENet host in a thread (`include/enetpp`) and `EnetSocket` (`src/enet_socket.hpp`),
the class that the sample programs use.  Paths below are relative to the root of
the repository.

## The system

| Part | State | Operations | Where |
|---|---|---|---|
| Reliable channel | per peer `outgoingReliableCommands`, `sentReliableCommands`, `acknowledgements`, `dispatchedCommands`; per channel sequence numbers, `reliableWindows`, `usedReliableWindows`, `incomingReliableCommands` | send, transmit, time out, acknowledge, receive, dispatch | `src/peer.cpp`, `src/protocol.cpp` |
| Connection lifecycle | `ENetPeer.state`, ids, sessions; `ENetHost.dispatchQueue`, peer counters | connect, disconnect (now, later), reset, service, flush, check events | `src/peer.cpp`, `src/protocol.cpp`, `src/host.cpp` |
| Fragmentation | `ENetIncomingCommand.fragments`, `fragmentsRemaining` | split in `enet_peer_send`, two handlers | `peer.cpp:115-189`, `protocol.cpp:514-739` |
| Unreliable, unsequenced delivery | unreliable numbers, `unsequencedWindow` | two handlers, ordered insertion, dispatch | `peer.cpp:702-783, 884-928`, `protocol.cpp:446-512` |
| Throttle, RTT, bandwidth | `packetThrottle`, `roundTripTime`, bandwidth totals | throttle, bandwidth throttle, limit commands | `peer.cpp:42-90`, `host.cpp:461-624`, `protocol.cpp:750-879` |
| Packets | `referenceCount` | create, destroy, and everybody who holds one | `src/packet.cpp`, `src/peer.cpp` |
| Intrusive list, time macros, range coder, CRC32 | | pure | `src/list.cpp`, `time.h`, `src/compress.cpp`, `packet.cpp` |
| Socket layer | none | send, receive, with a header and random padding | `src/unix.cpp` |
| `enetpp::server` | three queues, the list of clients, `_thread_peer_map`, `_connecting_peers`, flags | worker loop, `consume_events`, calls | `include/enetpp/server.h` |
| `enetpp::client` | two queues, one peer | worker loop, calls | `include/enetpp/client.h` |
| `EnetSocket` | `s_exit`, send tasks, ICE addresses | `run_server`, `write`, `start_ice`, `close`, `clearPeers` | `src/enet_socket.hpp` |

How they meet: an application calls `EnetSocket`, which calls the server from
three kinds of places (its caller's thread, the consumer's thread, callbacks); the
server hands connections, disconnections and packets to its worker through queues
and flags and gets events back through a queue; the worker alone calls ENet; ENet
hosts talk to each other by datagrams that may be lost, duplicated, delayed and
reordered.

What is hard, and what each part has to get right:

* **Reliable channel.**  The application must see the packets once and in order.
  Sequence numbers have 16 bits; three tests in three places (the sender's window
  gate, the receiver's window, the acknowledgements that are held back) must fit
  together so that nothing is acknowledged that was not accepted; the sender's
  counters must survive timeouts racing late acknowledgements.
* **All kinds of packets.**  Unreliable packets are numbered within the reliable one
  before them, unsequenced ones in groups, fragments within their packet; all share the
  lists of a channel.  Each must be handed out whole and at most once, the sequenced ones
  in order and behind the reliable packets before them, whatever the throttle drops.
* **Bandwidth.**  Counters kept in three places, unsigned differences and quotients: no
  peer may be sent more than it can take, nor the host send more than it can.
* **Lifecycle.**  Peer slots and session IDs are reused while old datagrams are still
  in the network; the two ends must not be paired wrongly; whatever path a peer
  takes, counters and dispatch queue must stay right and the application must hear
  of it.
* **Server.**  Clients are created by one thread, kept by a second, and asked for by a
  third; slots are reused; the asserts of `server.h` must hold; `close` must end.

`PROJECT.json` lists the hazards line by line, with the properties about each.

## The modules

| Module | What it is |
|---|---|
| `ReliableStream` | abstract: what one may rely on with `ENET_PACKET_FLAG_RELIABLE` |
| `EnetChannel` | one channel, one direction, with the network; implements `ReliableStream` |
| `MCEnetChannel` | instances that begin late in the sequence space |
| `EnetChannel_proofs` | its type invariant, the sender's accounting, and that it implements `ReliableStream`, proved for every window size |
| `PacketDelivery` | abstract: what one may rely on for packets of all kinds on one channel |
| `EnetDelivery` | one channel, one direction: numbering, fragments, the throttle's drops, reassembly, dispatch; implements `PacketDelivery` |
| `MCEnetDelivery` | the kinds of packets of its instance |
| `EnetDelivery_proofs` | its type invariant, the references to packets, the throttle's drops and the waiting data, proved |
| `EnetDeliveryOrder_proofs` | the order of what waits, reassembly, and that it implements `PacketDelivery`, proved for every window size |
| `EnetBandwidth` | one host: its peers' limits, the counters, `enet_host_bandwidth_throttle` |
| `MCEnetBandwidth` | the limits of its instance |
| `EnetBandwidth_proofs` | the counters and what the throttle computes, proved |
| `PeerStates` | which state changes of a peer ENet makes by itself, on polling, on disconnecting |
| `PeerLifecycle` | abstract: one peer as its application sees it |
| `PeerLifecycle_proofs` | its invariants, proved |
| `EnetHost` | any number of hosts, their peers and the network; every peer implements `PeerLifecycle` |
| `MCEnetHost` | instances |
| `EnetHost_proofs` | its type invariant, counters and dispatch queue, and that every peer implements `PeerLifecycle`, proved |
| `EnetppServer` | the threads of a server, on top of `PeerStates` |
| `MCEnetppServer` | instances |
| `EnetppServer_proofs` | the agreement of `_thread_peer_map` and the peers, and the handing over of clients and events, proved |
| `ListLemmas` | what all proofs need of lists: insertion, removal, searches from either end; quotients |

`EnetChannel` and `EnetHost` are two views of the same peers: the channel has the data
of one connection in full and no lifecycle, the host has the lifecycle in full and one
packet per direction.  `EnetDelivery` is a third view: every kind of packet, with the
retransmission of the reliable ones abstracted to a network that keeps them (losing a
command is never receiving it), and `EnetBandwidth` a fourth, of the limits alone.
`EnetppServer` does not repeat ENet: it uses the relations of
`PeerStates`, and `EnetHost!RefinesLifecycle`, which is proved, shows that ENet keeps to
them (`PeerLifecycle` is built from the same relations), as long as no application disconnects
a peer that it is still connecting.  The server never calls `enet_peer_disconnect`: it
uses `enet_peer_disconnect_now`, after which nobody waits for an event.

### EnetChannel

A packet is the number of its `enet_peer_send`; `Wire` is its 16-bit sequence number
(modulo `RELIABLE_WINDOWS * RELIABLE_WINDOW_SIZE`), and every test is one of wire
numbers.  The variables have the names of the fields; `attempted` is
`sendAttempts >= 1` of the outstanding commands, `delivered` a history of
`enet_peer_receive`, `sending` says that the host is inside
`enet_protocol_send_outgoing_commands`.

| Action | Code |
|---|---|
| `Send` | `enet_peer_send`, `enet_peer_setup_outgoing_command` |
| `CheckTimeouts`, `SendReliable`, `EndPass`, `SocketError` | one pass of `enet_protocol_send_outgoing_commands`: timeouts first, then one command at a time until the gate, the window or a failing socket stops it |
| `HandleAcknowledge` | `enet_protocol_handle_acknowledge`, `enet_protocol_remove_sent_reliable_command` |
| `HandleSendReliable` | `enet_protocol_handle_send_reliable`, `enet_peer_queue_incoming_command`, `enet_peer_dispatch_incoming_reliable_commands`, `enet_peer_queue_acknowledgement` |
| `SendAcknowledgements` | `enet_protocol_send_acknowledgements` |
| `Receive` | `enet_peer_receive` |
| `LoseData`, `LoseAck` | the network; a handler may leave a copy in it (duplication), and sets reorder |

Abstractions: a datagram carries one command; packets have the same size, so that
`WindowSize` and `MaximumWaitingData` count packets; time is abstract (any set of
timeouts may have expired when a pass begins, as long as the peer does not time out
altogether, which is `EnetHost`'s business).

One assumption is needed and made explicit, `NoStaleDatagram`: a datagram does not
survive `Lifetime` newer packets.  The 16-bit numbers need it, as a copy that is a
turn of the sequence space old cannot be told from a new packet.  The
configurations use `LongestLifetime`, the largest value for which the properties hold,
`(W - F + 1) * K + 1` packets of the `W * K` numbers; the theorems about the stream
assume no more than `Lifetime =< LongestLifetime`.

### EnetHost

A host is a record with the fields of `ENetHost`, a peer a record with those of
`ENetPeer`; each C function is an operator from host to host, and an action applies
one function of the API.  `Becomes` puts the datagrams into `net`, which never forgets
one: any datagram may arrive at any time, again and again, or never.  `view` is what
the application knows from its calls and events.  Both hosts use
`enet_host_service(host, NULL, ...)` and `enet_host_check_events`, as `enetpp` does
(`server.h:383`, `client.h:224`), so every event goes through the dispatch queue.
`enet_protocol_change_state`, `dispatch_state`, `notify_connect`, `notify_disconnect`,
`enet_peer_reset`, `enet_peer_reset_queues`, `enet_peer_on_connect`,
`enet_peer_on_disconnect` and the handlers are operators of those names.  Out of
memory is a possible outcome of accepting a connection (`MaxAccepts`).

`enet_peer_disconnect` is called for a connection that the application was told of; an
application of which `Calls` has "abandon" also calls it for one that it is still waiting
for (`MayDisconnect`).  For the others (`NobodyAbandons`) every peer implements
`PeerLifecycle`, in which a disconnection that was asked for ends with an event or with a
call of the application's own.  With "abandon" it does not, see `host_silent`.

### EnetDelivery

A packet is its place in `submitted`; its kind says which flags it has and how many
fragments its data fills.  `network` holds every command that may arrive, any number of
times, in any order: a reliable command from the moment it is queued, as `EnetChannel` is
about when it is sent, another one from the moment it is transmitted.

| Action | Code |
|---|---|
| `Send` | `enet_peer_send`: the type of the commands (`TypeFor`), the fragments (`CommandsFor`), the numbers (`SetupReliable`, `SetupUnreliable`, `SetupUnsequenced`), the references |
| `SendUnreliable`, `Throttle` | one turn of `enet_protocol_send_unreliable_outgoing_commands`: the command goes into the datagram, or the throttle drops it and those behind it with the same numbers |
| `DatagramSent` | `enet_protocol_remove_sent_unreliable_commands` |
| `HandleSendReliable`, `HandleSendUnreliable`, `HandleSendFragment`, `HandleSendUnreliableFragment`, `HandleSendUnsequenced` | the handlers of these names with `enet_peer_queue_incoming_command` and the dispatch functions |
| `Receive` | `enet_peer_receive` |

`DispatchUnreliable` says in sets what the loop of
`enet_peer_dispatch_incoming_unreliable_commands` does with three iterators: the finished
commands before the first early one are dispatched, the others are removed, except for at
most two partial ones at the end of the walk (`Kept`).  `At` takes the commands at a set of positions
out of a list, in order; `DataLength` adds up their data.  Whether the throttle drops a packet is left
open (any value of `packetThrottle`).  A handler that ignores a command is no step.

Assumptions: `Fresh`, the network delivers nothing so late that its number is taken for
one of the next turn (`Lifetime`, `GroupLifetime`: the windows that are not accepted), nor
an unsequenced one of a whole turn ahead, all before which was lost; and `LessThanATurnAhead`,
the application never queues a packet whose reliable numbers are a whole turn ahead of the
receiver's.  That one is a guard of `Send` which `enet_peer_send` does not have, and nothing
in ENet gives it: the window gate (`protocol.cpp:1488`) holds back reliable commands, but
unreliable ones that are numbered behind a long queue of them are sent at once.  An
application that queues 65536 reliable packets (or fragments) ahead of its peer is outside
the module.  The fragment commands of one packet agree
on count and lengths, as `enet_peer_send` makes them.

### EnetBandwidth

A peer is in one of five phases.  `NotifyConnect` and `Connected` are two steps, because
`enet_host_service(host, NULL, ...)` ends the handshake and the polling of the CONNECT
event counts the peer.  `BandwidthThrottle` is the whole function: `LastRound` is the
`while` loop over the limited peers as a recursive function of the round, `NewLimit` what
it leaves in `packetThrottleLimit`, `LastIncoming` the second loop, `Announcement` the
commands it queues (`announced` is a history of them).  A round that adjusts nobody
changes nothing, so that as many rounds as peers are all rounds.  `HandleAcknowledge`
lets `enet_peer_throttle` find any round trip time.

`FitsAssumption`: the products fit 32 bits.  The code does not check; it multiplies the
bandwidth by the elapsed milliseconds before it divides by 1000 (`host.cpp:486, 506`), and
what results, or a peer's data, by 32 (`host.cpp:519, 523`).  The assumption bounds each
product as the code computes it.  With its constants that allows a bandwidth of 4.29 MB per
second when a second has passed since the last call, of 429 KB per second when ten have,
and 134 MB of data for a peer between two calls.

### EnetppServer

The three threads have program counters `wpc` (worker), `cpc` (consumer) and `apc`
(application, only for `clear_peers`).  A step is a section under a mutex or one turn
of a loop around an unprotected flag.  Calls come from the application or from the
consumer's callbacks (`Calling`).  What is pushed to a queue without its mutex
(`server.h:219-228`) may be lost if the worker is in that queue's loop (`Raced`);
`s_exit`, `_should_exit_thread` and `_is_clear_peers` are plain `bool`s and may be seen
late.  A client is the uid that the user's initialize function gives it; that the
uids are unique is an assumption about the user (`EnetSocket::bind` takes a reference
to a local variable for its counter, which is undefined behaviour and makes that
assumption false in principle).  `freed` counts the deletes of each client.

## The runs

Every run below is one of `PROJECT.json`; with two workers the longest, `channel` and
`delivery`, take under three minutes.

| Run | Configuration | States | Asks |
|---|---|---|---|
| `channel` | `MCEnetChannel.cfg` | 3.3 M | `TypeOK`, `AcknowledgedMeansAccepted`, `RetransmitsFirst`, `FlowAccounting`, `WaitingOrdered`, `AcceptedInOrder`, `RefinesStream`, around the end of the sequence space |
| `channel_held` | `MCEnetChannelHeld.cfg` | | violates `EventuallyDelivered` |
| `host_reconnect` | `MCEnetHost.cfg` | 10 k | `TypeOK`, `FreeMeansClean`, `NoForeignData`, `EndsAgree`, `RefinesLifecycle`, `ConnectAnswered`, `DisconnectAnswered` |
| `host_cross` | `MCEnetHostCross.cfg` | 173 k | `PeersCounted`, `DispatchQueueConsistent`, `EndsAgree` |
| `host_stale` | `MCEnetHostStale.cfg` | | violates `ConnectAnswered` |
| `host_silent` | `MCEnetHostSilent.cfg` | | violates `DisconnectHeard` |
| `server` | `MCEnetppServer.cfg` | 1.1 M | `TypeOK`, `OwnedOnce`, `NoneDangling`, `MapAgrees`, `EventsInOrder`, `Stops` |
| `delivery` | `MCEnetDelivery.cfg` | 1.0 M | `TypeOK`, `NothingDeliverableWaits`, `WaitingInOrder`, `AssembledWhole`, `WaitingDataBounded`, `StrayWriteOnlyBehindTwo`, `PacketsHeld`, `WholeOrNothing`, `RefinesDelivery` |
| `delivery_leak` | `MCEnetDeliveryLeak.cfg` | | violates `RoomBelowTheLimit` |
| `bandwidth` | `MCEnetBandwidth.cfg` | 3.4 M | `TypeOK`, `LimitedCounted`, `PeersNotOverwhelmed`, `HostNotOverwhelmed`, `AnnouncedFairly` |
| `server_stale` | `MCEnetppServerStale.cfg` | | violates `NoClientBeforeConnect` |
| `server_clear` | `MCEnetppServerClear.cfg` | | violates `ClientListed` |

No run looks for deadlock: a channel that has delivered everything, a host whose
connections are used up and a server that is closed have nothing left to do.  The
liveness properties say what may not get stuck.

**Bounds.**  The code has 16 windows of 4096 numbers, 8 of them free.  The instances
keep the proportion: 6 windows of 2 numbers, 3 free, the smallest numbers for which
all the tests differ (the accepted windows, the two windows without acknowledgement,
the gate).
`channel` starts in every state in which nine packets were carried and at most
one of them is still unacknowledged and at most one copy still around, so that its
three packets cross the end of the 12 numbers; `ReliableStream` begins with a stream that
carried any number of packets.  Three are enough for gaps, duplicates, a blocked window, and
retransmissions that mix with new packets, and two datagrams in each direction to reorder,
duplicate and lose.  `host_reconnect` has one slot per host and two
connections in a row, so that all datagrams of the first can arrive in the second;
`host_cross` has two slots and both hosts connect, so that the attempts cross, and one
application disconnects peers that it is still connecting.  Two
connections stay below the four after which session IDs repeat.  `server` has two
slots and one of each call and of each event from outside, so that the reuse of a slot
by a connection from outside, the disconnection of a client whose CONNECT is queued,
and `close` at every point happen.

`delivery` starts with the last reliable number before the wrap not yet used and the
unsequenced groups at the end of theirs (4 windows of 2 numbers, 3 free; 4 windows of 2
groups, 2 free), and submits four packets of any of five kinds, one for each way through
`enet_peer_send`; the last unreliable number is 3, so that it is used up.  Four packets
are enough for two fragmented ones of the same kind with a packet between or around
them, for unreliable packets behind a reliable one that is missing, and to reach
`MaximumWaitingData` (5 fragments).  Three of them may go in unreliable fragments
(`MaxInFragments`), the fewest with which a packet is removed inside its own handler (see
below).  `delivery_leak` has a smaller instance, with two such packets and a limit of 4.  `bandwidth` has three peers, the fewest for which a round changes the shares of
more than one other peer, with no limit, a small and a large one; words of 10 bits, a scale
of 32 as in the code, 32 ticks for a second and 48 between two calls, so that quotients
round; one change of limits (or
one acknowledgement) and one call of the throttle, before and after everything else.  The
amounts are such that keeping the bandwidth of an adjusted peer already overwhelms the
host.  Peers are interchangeable (`PeerSymmetry`); all properties of that run are
invariants or action properties.

**Fairness.**  `EnetChannel!FairnessFor`: both hosts are serviced again and again (weak
fairness of the steps of a pass, of acknowledging and of receiving), sockets work, and
a command that is sent again and again gets through (strong fairness of the handlers,
per packet): without that no protocol delivers anything.  Under it `channel_held` violates
`EventuallyDelivered`.  That the fairness is not what is missing there can be seen with
`EnetChannelLive.cfg`, which is kept beside the runs and checks the property on two packets
with no window left behind (it holds, 3.8 k states).  `EnetHost!Fairness`: both
applications service and poll, and a command that stays unacknowledged expires,
because the clock goes on; nothing is asked of the network.  `EnetppServer!FairSpec`:
the worker's and the consumer's loops go on.  The application owes nothing.

## What the models say about the code

Observations that contradict no text of the repository, and so are no findings:

* When packets behind a missing one fill `maximumWaitingData`, the missing one is refused
  too (`peer.cpp:934`), without an acknowledgement, and the channel waits until the peer
  times out.  No property here is about that stall.
* Nothing in the numbers of unsequenced packets tells a turn of the groups from the next
  (`protocol.cpp:456`): if a whole turn of them is lost (65536 packets in a row), the next
  packet is taken for one of the present window, and a copy of it is handed out again when
  the window comes there.  `Fresh` excludes it; without that clause TLC finds it with three
  windows of one group.
* A packet of very many fragments moves the receiver's number so far at once that a partial
  unreliable packet left in the list can be one that the tests take for a packet of the
  *next* turn: it stays, and unreliable packets that come later are put before it.  The
  theorems exclude it by `SmallPackets` (12288 fragments, some 16 MB with the default MTU;
  `maximumPacketSize` is 32 MB unless a host changes it).  TLC finds it with four windows of
  two numbers, three of them free, and a reliable packet of six fragments.
* The test of the wrong command at `peer.cpp:898` has no effect, because unsequenced
  packets never stay in the list (`NothingDeliverableWaits`).
* A new unreliable packet in fragments that is older than two partial ones is removed by
  the dispatch inside `enet_peer_queue_incoming_command` (`peer.cpp:738, 782`), while
  `enet_protocol_handle_send_unreliable_fragment` goes on with it: the fragment is written
  through the freed command (`protocol.cpp:721-735`).  Three packets in fragments that arrive
  in reversed order are enough.  That is undefined behaviour; the model takes the step with
  those of its outcomes that damage nothing but the freed memory, in which the packet is
  lost.  `StrayWriteOnlyBehindTwo` says that it happens in no other order of arrival.
* When the unreliable numbers behind one reliable packet are used up, the next packets are
  sent reliably (`peer.cpp:129, 199`), and the numbers start again.
* In the throttle's loop `dataTotal` is reduced by a peer's bandwidth, not by its data
  (`host.cpp:540`): the common throttle can only fall from round to round, so that one
  round suffices and some of the host's bandwidth is left unused.
* Peers without an outgoing limit are told that the host has no incoming one
  (`AnnouncedFairly`), so the host's incoming bandwidth is shared only by the others; and
  a share that rounds to 0 means no limit.
* `recalculateBandwidthLimits` is set when a handshake ends, and a call of the throttle
  before the CONNECT event is polled resets it without that peer.  The same flag is not
  set by `enet_peer_reset` called by the application, nor by a BANDWIDTH_LIMIT command:
  the other peers keep their old shares.

## Where the code and its texts disagree

Six runs end in counterexamples; `PROJECT.json` has the details under "findings".

* `channel_held`: a packet whose acknowledgements are all lost until the receiver is
  eight windows further on is never acknowledged (`peer.cpp:599`), and its window stops
  the channel (`protocol.cpp:1488`) until the peer times out.  `enet.h:126` promises that
  resending goes on until the packet is delivered.
* `host_stale`: an acknowledgement of an earlier connection in the slot removes the
  CONNECT command of a new attempt (`protocol.cpp:883`), which then waits for ever.
* `host_silent`: `enet_peer_disconnect` and `enet_peer_disconnect_later` of a peer that is
  still being connected reset it at once (`peer.cpp:557-561`), and no event follows, while
  `peer.cpp:524` and `567` promise a DISCONNECT event once the disconnection is complete.
  `enetpp::client` makes that call when it is told to stop while it connects
  (`client.h:204`), and waits for the event until its 1000 ms are over.  This holds for every
  state between the call of `enet_host_connect` and the CONNECT event, so `RefinesLifecycle`
  and `DisconnectAnswered` are stated for applications that do not do it
  (`NobodyAbandons`).
* `delivery_leak`: `maximumWaitingData` is "the maximum aggregate amount of buffer space a
  peer may use waiting for packets to be delivered" (`enet.h:416`), but the data of
  unreliable packets that are removed undelivered is never subtracted from
  `totalWaitingData` (`peer.cpp:271`).  Packets are refused (`peer.cpp:934`) while less than
  that waits, and a long connection with losses ends by refusing everything.  What waits is
  within the limit nevertheless (`WaitingDataBounded`).
* `server_stale`: a failed attempt stays in `_connecting_peers`; `closeConnectingPeer`
  later drops a live peer without an event, and the assertion of `server.h:431` fails.
* `server_clear`: `clear_peers` deletes clients that the other threads still use; the
  assertion of `server.h:175` fails.  Only this run's specification, `ClearSpec`, has
  `clear_peers`.

## What is proved

Each theorem holds for every value of the constants that the named assumptions allow, not
only for the instances that TLC runs.  The assumptions say that sizes, limits and bounds
are numbers, and that at least three windows (two in `EnetDelivery`) but no more than there
are may be free.  These say more:

* `Lifetime =< LongestLifetime` in the theorems about the stream: the network keeps no
  datagram for longer than the sequence space can bear.  The run `channel` has equality.
* `SmallPackets` in the theorems of `EnetDeliveryOrder_proofs`: a packet has at most
  `(RELIABLE_WINDOWS - 2 * FREE_RELIABLE_WINDOWS + 3) * RELIABLE_WINDOW_SIZE` fragments,
  12288 in the code.  The run `delivery` has equality, and beyond it `WaitingInOrder` is
  false (see above).  It is a hypothesis about the packets an application sends: the code
  refuses only packets of more than `maximumPacketSize`.
* `FitsAssumption` of `EnetBandwidth`: the products fit 32 bits (see above).  Beyond it they
  wrap, and nothing is claimed.
* `NobodyAbandons` in `HostRefinesLifecycle`: no application disconnects a peer that it is
  still connecting.  Without it the theorem is false (`host_silent`).
* The theorems about `EnetDelivery` are about applications that stay `LessThanATurnAhead`,
  and about builds in which the write through a freed command damages nothing but the freed
  memory; both are in its steps.
* `MapAlwaysAgrees`: the application never closes connecting peers, or makes at most one
  attempt (`Budget["close"] = 0 \/ Budget["connect"] =< 1`).  Without that hypothesis it is
  false: TLC refutes `MapAgrees` on the instance of `server_stale` too, by the same stale
  entry of `_connecting_peers`.
* The theorems about the server are about `Spec`, which has every call but `clear_peers`;
  with that call they are false (`server_clear`).

All invariants, action properties and refinements of the passing runs are proved, but for
those listed under "only model-checked" below.

**The reliable channel** (`EnetChannel_proofs`).  `TypeCorrect`, `FlowAlwaysAccounted` and
`RetransmitsAlwaysFirst` follow from one inductive invariant, the conjunction of

* `SenderType`, `NetworkType`, `ReceiverType`: the parts of `TypeOK`;
* `Once`: an outstanding command is in one of the sender's lists, once;
* `Known`: what is in `sentReliable` was attempted, what is in `outgoing` was submitted;
* `FlowAccounting` and `RetransmitsFirst` themselves.

`FlowAccounting` alone is not inductive: a command that stood in both lists would be
removed from one and from `attempted`, and its window would count one command too few.
With `Once` and `Known` each handler of the sender keeps the whole (one lemma per action),
because the removed command is always an attempted one (in `outgoing` that is what the
early return at `protocol.cpp:215` ensures) and so its window's count is positive.
The network and the receiver need only their types.

**The stream** (also `EnetChannel_proofs`).  `ChannelRefinesStream`: the channel implements
`ReliableStream`; with it `AlwaysAcknowledgedMeansAccepted`, `AlwaysAcceptedInOrder` and
`AlwaysWaitingOrdered`.  The whole difficulty is that both ends work with numbers modulo the
sequence space.  The invariant `StreamInv` names the last packet `t` that was sent for the
first time and says how far from it everything is: every unacknowledged command (by the
sender's window gate), the receiver (because the packet it waits for is unacknowledged,
`Held`), every datagram (by the assumption on the network).  Together these span less than a
turn of the sequence space, so that two numbers are equal on the wire only if they are
equal; and what lies in the windows in between is what the receiver takes, discards with an
acknowledgement because it has it, or discards silently.  Hence an acknowledgement is only
ever sent for what was accepted, and removes the command it is about.  Each part needs the
others: without `Held` the gate says nothing about the receiver, and without the receiver's
position nothing keeps `Held`.

**Packets of all kinds: what is counted** (`EnetDelivery_proofs`).  For the sender, `AlwaysPacketsHeld` and
`AlwaysWholeOrNothing` follow from `SenderInv`: the queue is in the order of submission, and
the commands of a packet are next to each other with the same numbers (`QueueInOrder`), so
that what the throttle removes with the first fragment is the rest of that packet and, of
unsequenced packets, whole packets behind it; only the packet at the front can be partly
transmitted, from its first fragment on (`FirstUnderWay`), and the throttle looks at first
fragments only.  Either all commands of a packet are queued or transmitted, or none is
(`Accounted`).

For the receiver, `TypeCorrect`, `AlwaysWaitingDataCounted` (`totalWaitingData` is what waits
and what was dropped) and from it `AlwaysWaitingDataBounded` follow from `ReceiverInv`: a
handler queues a packet only while the counter, and so what waits, is below the limit, and
no step but that adds data.
Both dispatch functions move, keep or drop commands without losing or doubling one: the data
in the lists, on its way to the application and dropped add up to the same
(`DispatchUnreliableKeeps`, `DispatchReliableKeeps`).  The sums are recursive functions, and
what the proof needs of them is proved by induction over positions (`DataLengthConcat`,
`DataLengthUnion`).  A fragment has its place in the command it is added to because the
handler compares the counts and `enet_peer_send` numbers fragments from 0 (`CommandsFit`), and
a packet whose first fragment has just been queued is still in its list after the dispatch
(`NewPacketStays`), which `enet_protocol_handle_send_fragment` relies on.

**Packets of all kinds: what is delivered** (`EnetDeliveryOrder_proofs`).
`AlwaysWaitingInOrder`, `AlwaysNothingDeliverableWaits` and `AlwaysAssembledWhole` follow
from `OrderInv`, which has three parts:

* `Numbered`: what the sender made is numbered in the order of submission, unreliable
  packets within the reliable number before them, every packet's commands alike, and the
  sender is less than a turn of the sequence space ahead of the receiver;
* `Settled`: what waits in either list is in the windows that the receiver accepts
  (`Ahead`), in the order of submission, and cannot be dispatched; of what waits in the
  unreliable list nothing is complete at the receiver's present number;
* `Whole`: what was dispatched has all its fragments, and they are its own.

`StrayWritesOnlyBehindTwo` needs the order of the list only: the dispatch after a new partial
packet removes it only if the last two of the list are partial and others.

The first says that numbers order packets, the second that wire numbers order numbers:
within the windows from the receiver's number on, less than a turn, each search from the
back of a list (`peer.cpp:859`, `protocol.cpp:566`) compares as if there were no wrap.  The
difficulty is the dispatch functions, which move the receiver's numbers and so what `Ahead`
is relative to.  What one loop of them leaves is shown to be ahead of the new numbers,
which is where `SmallPackets` comes from: the reliable dispatch passes over all fragments of a
packet at once, and what it leaves in the unreliable list must not be a turn behind then.

`DeliveryRefined`, that the channel implements `PacketDelivery`, adds `PromiseInv`: a
packet that must be sequenced never goes unsequenced (`SentAsAsked`), and what was handed
over so far, delivered or dispatched, is given its due (`Given`): each packet once, the
sequenced ones in order, all of them behind the receiver's numbers or set in its
unsequenced window, and every reliable packet behind the numbers among them.  A dispatch
hands over what lies between the old and the new numbers, among it every reliable packet
there (`Handed`), and what is behind is never taken again.  The unsequenced window needs that
it starts at a multiple of its size, so that a bit means one group, and the two assumptions
of `Fresh`.  From that it follows that the next packet that `enet_peer_receive` takes was
not delivered before and that it is its turn (`ReceiveInTurn`).

**The hosts** (`EnetHost_proofs`).  `TypeCorrect`, `AlwaysPeersCounted`,
`AlwaysDispatchQueueConsistent`, `AlwaysFreeMeansClean`, and `HostRefinesLifecycle`: where
`NobodyAbandons` holds, every peer of every host implements `PeerLifecycle`.  The operators of the module are the C
functions, so there is a lemma for each: what it makes of its peer and of the host's counters
(`Became`), then for each handler that its peer stays correct, keeps its place in the dispatch
queue while it has an event to tell, and changes state as `PeerLifecycle` allows (`Handled`).
A send pass over all peers is an induction over its turns (`Passed`).  The inductive
invariant `Inv` adds to the properties what a peer in each state may hold (`PeerOK`) and that
no peer with an event to tell is missing from the queue (`Told`): without the latter a
state could change with nobody told, and without the former a peer that is reset could leave
something for the next connection in its slot.

**The lifecycle** (`PeerLifecycle_proofs`).  `TypeCorrect` and `KnowledgeIsTrue` for the
abstract lifecycle: the application knows of a connection until an event or a call of its own
ends it.  By `HostRefinesLifecycle` this holds of every peer of every host where
`NobodyAbandons` does.

**The bandwidth** (`EnetBandwidth_proofs`).  `LimitedCountedTheorem` and `TypeCorrect` from
`TypeOK /\ Counted` (the counters are cardinalities of sets of peers; each action adds or
removes at most one element).  `PeersNeverOverwhelmed`, `HostNeverOverwhelmed` and
`AlwaysAnnouncedFairly` are about what one call of `enet_host_bandwidth_throttle` computes:
`RoundOK` and `SettledOK` are the invariants of its two loops (what is left of bandwidth and
data is the total less what the adjusted peers take), a round that adjusts nobody is a fixed
point, and every other one adjusts a peer, so that as many rounds as there are peers are all.
The
sums over sets of peers (`Total`) are taken apart and put together peer by peer.

**The server** (`EnetppServer_proofs`).  `AlwaysOwnedOnce`, `AlwaysNoneDangling`,
`AlwaysEventsInOrder`, `AlwaysClientListed` and `TypeCorrect` from `ServerInv`, which adds to
them: what each thread's program counter says about the queues (`Phases`), that no peer has
the data of a client whose DISCONNECT is queued (`Parted`), one half of `MapAgrees`
(`DataMapped`), and that there is a uid for every connection still to come (`Room`).
`AlwaysClientListed` is the assert of `server.h:175`.  `MapAlwaysAgrees`, conditional as said
above, has an invariant of its own (`WorkerInv`) that also says that no close can be under way
or that `_connecting_peers` names no peer of a client (`ClosesSafely`).

Where the code searches a list from one end, the models choose a least or greatest position;
that there is one is proved in `ListLemmas` from the well-foundedness of `<` on the naturals.

Only model-checked:

* `NoForeignData` and `EndsAgree` of `EnetHost`: session IDs have two bits, so they hold only
  while fewer than four connections were made in a slot, which no invariant of one state
  expresses without the history of all of them;
* liveness (`EventuallyDelivered`, `ConnectAnswered`, `DisconnectAnswered`, `Stops`), which
  is out of the prover's reach, as is ENABLED.

## What is not modelled, and the plan

Not modelled, for good: the range coder and CRC32 (pure functions on bytes that nothing
in the repository installs), the system calls and the padding of `src/unix.cpp`,
logging, the random strings and the example programs.

Of what is modelled in part: `windowSize`, packet loss statistics, the values of round trip
times, several channels of one peer, malformed commands, running out of memory when
sending, the ownership of packets outside ENet's queues, ICE and the send tasks of
`EnetSocket`.  Time macros are not needed, as the models keep time abstract.

In order, for what follows:

1. `PacketRefs`: who owns a packet across `host->buffers` (`protocol.cpp:1410`), the
   application and the server's queues (`server.h:362`).
2. The composition of `EnetDelivery` with the window gate of `EnetChannel`, with two
   channels (`windowWrap`, `protocol.cpp:1476`), and with DISCONNECT_LATER.
3. `EnetppClient`, which no program of the repository uses, and the rest of `EnetSocket`.
4. `EnetList`: that the pointer operations implement sequences.

## Running it

    tlc -workers 2 -config MCEnetHost.cfg MCEnetHost.tla
    tlapm EnetChannel_proofs.tla
