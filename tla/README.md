# easytier-edge: specification and proofs

easytier-edge is a relay for one private EasyTier network that runs in a
Cloudflare Durable Object. Clients keep a WebSocket to it; the relay
authenticates them, tells each of them about the others (OSPF style route
synchronisation), and forwards frames between them. The TypeScript half
(`src/src/`) owns connections, timers and storage; the Rust half (`src/wasm/src/`,
compiled to WebAssembly) owns route state, RPC transactions and secure sessions.

This directory holds TLA+ modules for the parts of the relay that have state,
TLC configurations that check them on small instances, and TLAPS proofs of the
most important properties for every instance. `PROJECT.json` lists components,
runs, mutants, the lines each definition models, hazards, findings and theorems.

## 1. Inventory

| Component | State | Operations | Talks to | What is hard |
|---|---|---|---|---|
| Connection lifecycle (`server.ts`, `connection.ts`) | connections and their phase, pending-handshake counters, handshake and maintenance timers, set of networks to resynchronise | accept, two handshakes, register, close, maintenance round, eviction | rooms, pump, WASM core, storage | closes nest inside broadcasts inside closes; a reconnect replaces a connection of the same peer id; timers race handlers |
| Room registry (`rooms.ts`) | peer id to connection | set, delete, get, peers | lifecycle | delete by identity, not by peer id |
| Route update pump (`core/rpc.ts`) | per peer: connection, in flight, dirty, force full, time sent | send, flush, answer, retry, maintain | WASM core, sockets | changes during an update; failing sends; retries for peers already gone |
| Route state (`route_state.rs`) | peers, infos, rows, sessions with saved versions, topology version, two cached snapshots | add, remove, sync request, build update, acknowledge, sweep | clients, pump | acknowledgements of outdated updates; caches; sessions restarted on one side |
| RPC core (`rpc.rs`) | outstanding transactions, buffered fragments and their counters | merge, answer, deadline, clean | route state, PeerCenter | duplicates, reordering, saturating counters, reused transaction ids |
| Secure sessions (`secure.rs`) | session store: root key, epoch, sequences, receive slots, pinned key, attachments | Create/Join/Sync, finish, seal, open, drop | lifecycle, clients | several connections share a session; expiry; lost handshake messages |
| Replay window (`secure.rs`) | newest number, 256-bit bitmap | accept, clear | sessions | shifting in place |
| Server identity (`server.ts`) | key pair and route id in storage, the initialisation under way | initialise, restore, persist | Worker entry, storage, clients | eviction and failing calls between any two steps; first requests that share one initialisation |
| Configuration and Worker entry (`core/config.ts`, `index.ts`) | none | read, route a request | identity | blank, absent and zero texts |
| Frames (`core/packet.ts`, `packet.rs`, `messages.ts`, `handleReadyPacket`) | send window of a connection | parse, filter, forward, answer, refuse | clients, rooms, RPC core | any frame in any phase; a failing target; signed shifts; nested frames |
| PeerCenter (`peer_center.rs`) | reported links with their times, digest | report, poll, remove, expire | RPC core, clients | confirmed digests that are stale; what outlives its reporter |
| Legacy cipher (`legacy.rs`), generated code, build scripts | none | pure functions | all | - |

What makes each part correct, in short: the lifecycle keeps its registries,
counters, timers and the WASM core's view of the room in agreement and frees
every connection once; the pump loses no change; a session's record of what a
client has is never ahead of what the client has; fragments never mix and their
limits are exact; a nonce is never reused while epochs do not wrap, and an expired
session is never in use;
clients see one key and one route id through all restarts; a frame reaches its
addressee and nobody else, and an RPC speaks for the peer it comes from; a digest
the relay confirms names the map it has now.

Everything runs in one event loop. A handler runs to its end before the next
event, so the interleavings are those of events, timers, nested calls within a
handler, and messages under way between the relay and its clients.

## 2. Modules

| Module | Models |
|---|---|
| `EdgeServer` | connection lifecycle, room, pump with failing sends, timers, eviction |
| `RouteSync` | content of route synchronisation: route state, transactions, pump, clients |
| `RpcReassembly` | fragment table of the RPC core |
| `SecureSession` | session store and the connections attached to it |
| `ReplayWindow` | the bitmap of `ReplayWindow256` |
| `AntiReplay` | abstract: what a replay window promises |
| `ServerConfig` | what `readServerConfig` makes of the environment |
| `ServerStartup` | from a request at the Worker to a registered peer, over the lives of the object: identity, route id, storage |
| `RelayFrames` | what happens to one frame: parsing, handshakes, forwarding, RPCs, send window |
| `PeerCenter` | reported links, their digest, polls and expiry |
| `EdgeServerProofs` | theorems about `EdgeServer` |
| `SecureSessionProofs` | theorems about `SecureSession` |
| `ServerStartupProofs` | theorems about `ServerStartup` and `ServerConfig` |
| `PeerCenterProofs` | theorems about `PeerCenter` |
| `RelayFramesProofs` | theorems about `RelayFrames` |
| `RouteSyncProofs` | theorems about `RouteSync` |
| `RpcReassemblyProofs` | theorems about `RpcReassembly` |
| `ReplayWindowProofs` | theorems about `ReplayWindow`, and that it implements `AntiReplay` |
| `MC...` | the modules TLC runs, with symmetry sets where only invariants are checked |

**EdgeServer.** `phase`, `peerOf`, `ipOf`, `hsTimer`, `freed` are fields of a
connection; `connections`, `rooms`, `pendingHandshakes`, `pendingByIp`, `mTimer`
those of the server; `syncConn`, `inFlight`, `aged`, `dirty`, `forceFull` are
`routeSyncStates`; `routed` is the WASM core's set of direct peers. A handler that
closes connections is not one step: `calls` is the stack of
`broadcastRouteUpdate` calls in progress, each with the peers its iterator has
still to visit and the connection `removeConnection` disposes of when it returns,
and `job` is what the top-level handler does afterwards. New events wait until
both are empty (`Quiescent`). Any send may fail. `behind` is a history variable:
peers for which no update has been built since the topology last changed.
`Restart` is the eviction of the object, `RouteIdStored` the end of a storage
write. `MaintenanceTimer` chooses which peers the sweep finds silent, which
updates are late and which retries fail, within what the code allows: an update
in flight for two maintenance rounds (10 s) is late (3 s).

**RouteSync.** The handlers of `route_state.rs` with whole effects, the pump of
`core/rpc.ts` and the transaction of each peer. Time is choice: a saved version
expires, a deadline passes, a session is silent whenever it suits the adversary.
Clients are external: they report session, info and row, change or restart, apply
an update in one step and answer in another. Sends succeed here; failing sends
are EdgeServer's. `budget` is what the environment may still do: restarts, new
sessions, new info and row versions, decisions of the clock, and the topology version
up to which things may still change. `Init` takes it from `Budgets`, so that one run
explores several kinds of trouble, each deeply enough.

**RpcReassembly.** `merge_packet` is one action per outcome (whole packet,
malformed, changed piece count, too many, too big, stored). An error is thrown
into `server.ts`, which closes the connection and so calls `remove_peer`: `Fail`
includes that.

**SecureSession.** A `SecurePeer` copies the stored session before each call and
writes it back in the same call, so only the store's copy is modelled. A received
frame is its epoch, whether it decrypts, and the answer of its replay window. Epochs
are the numbers below `EpochCount` (2^32) and wrap as `wrapping_add` does, in a rotation
and in a Sync; a frame may have any of them. `wrapped` is history: the root keys whose
epochs have gone from the last to 0.
`clientRoot` and `waiting` are the external client: what session it holds, and
the connection on which it waits for message 2.

**ReplayWindow.** The bitmap as an array of `Bytes` numbers below `2^Bits`, shifted
as the code shifts it, with its conversions to `usize`. `passed` is a history
variable and the refinement mapping to `AntiReplay` is the identity on it. The numbers
of an epoch are `MinSeq..MaxSeq`: they begin anywhere, since the sequence goes on when
an epoch rotates, and span less than `2^UsizeWidth`, since an epoch ends after 10^6
packets and `usize` has 32 bits. Without that bound the conversion would confuse
numbers 2^32 apart.

**ServerConfig.** One operator per helper of `config.ts`. Texts are taken from a
vocabulary of blank, padded, hexadecimal and out-of-range ones (an underscore stands
for a blank, `Empty` for the empty text); names and secrets are their lengths and keys
the number of the key they decode to; a pair matches if the numbers are equal.
`TableAllows` is the table of the repository's README, written down independently, the
matching public key included; `ConfigAsDocumented` says how `readServerConfig` compares
with it: that one word of the table it does not check (section 4).

**ServerStartup.** `initIdentity` is one step per storage call: `init[r]` says which
call the initialisation started by request `r` waits for, `identityReady` whose it
is, and `req` where each request is. A promise that is settled is acted upon before
the next event (`NextEvent`), as microtasks are. Every storage call may return, fail
without effect, or fail although it was applied, and `Evict` may come between any two
steps and loses or keeps each write under way. Storage starts empty or with records
the code cannot use. `toldKeys`, `toldIds` and `announced` are history: what clients
were told. Of the platform the output gate is relied on (nothing the object sends
is seen while a write is under way: the code tells peers a route id whose write is
not confirmed yet), the input gate is not (events may arrive during storage calls).

**RelayFrames.** `Message` is the message listener: a frame is either rejected (`Reject`,
which closes the connection) or handled by one action per case of `handleMessage` and
`handleReadyPacket`. Clients send the messages of both handshakes before they are
authenticated, pings and RPCs for the relay and frames for each other afterwards, and
malformed frames at any time. With the filter, frames for others have every packet type
and, as ForeignNetworkPackets, every payload of `ForeignPayloads`; without it, where the
type does not matter, they are data that may have been relayed before (`laps` is the
history that bounds how often). A frame is its header, its size, whether its body
verifies and, for a ForeignNetworkPacket, the cells of its payload: how long its header
claims to be, the rest of the fixed part, then name and inner packet, cut off anywhere.
The sizes of the header, of its fixed part and of the tail are scaled down. Ids are
written and read byte by byte, with `Byte` values of a byte and JavaScript's signed
32-bit result, scaled to `Byte^4`.

Closing a ready connection, registering one and a completed sync of the routes broadcast
in the same handler. `updating` holds the connections that the running handler has still
to send an update to (any of the ready ones: which of them have none in flight,
`EdgeServer` knows); `SendRouteUpdate` serves one of them, a send that fails closes that
connection and broadcasts again, and no event is taken before `updating` is empty.
`relayed`, `laps`, `recent` and `heard` are history.

**PeerCenter.** One network. Ages replace times; maintenance comes at least every
`Interval` ticks while there is a connection. Answers take time, clients keep map and
digest through restarts of the relay. The digest is assumed to differ for different
maps and to be different from 0 (the code uses a 64-bit hash, and 0 for none). Departures,
restarts and reports of something new are bounded by `MaxChanges`; a client may repeat
its last report for ever, so that maps that are not empty stay.

Assumptions about what is not in the repository: `socket.close` does not throw;
`add_peer` does not fail for the keys the handshakes deliver; a client keeps its
session until message 2 replaces it and presents the session's generation.

## 3. Runs

| Run | Instance | Properties | Shows |
|---|---|---|---|
| `edge_server` | 2 connections, 2 peers, 2 addresses, both modes | `QuotaExact` `RegistrySound` `RouteMirrorsRoom` `PumpOwned` `FreedOnce` `TimersArmed` `NoLostUpdate` `HandshakeEnds` `UpdateBuilt` | replacement, cascading closes, eviction, timeouts, and that handshakes end and updates are sent |
| `startup` | 2 requests, 2 evictions, 1 failing call, 12 environments | `ConfigDocumented` `KeyStable` `RouteIdStable` `PersistedIsStored` `ReturnersResynced` `Serves` | identity and route id through restarts and failures; the configuration as documented but for the matching key, and as documented altogether where a connection is open |
| `frames` | 2 connections, 2 peers, hop limit 1, window of 1 frame | `HopBound` `DeliveredToAddressee` `ControlOnly` `RateBound` `RpcAuthentic` | handshakes, pings and RPCs, frames of all 21 packet types and 30 wrapped payloads through the filter, frames sent back and forth, broadcasts in the middle of a handler, reconnects, full windows, dead sockets |
| `peer_center` | 2 peers, 2 infos, TTL 1, maintenance every tick, 3 changes and any number of repeated reports | `DigestNamesMap` `RowsOfPresent` `RowFresh` `Converges` | delayed answers, expiry, departures, restarts, convergence to what goes on being reported |
| `route_sync` | 2 peers, 6 budgets: a restart; a new info version; the clock; rows with sessions or the clock | `SavedTopologyDelivered` `SavedInfoOfRunningDelivered` `OutstandingInFlight` `CacheCoherent` | session changes, restarts, expiry, timeouts and sweeps against updates under way |
| `route_sync_live` | 2 peers, the legacy format, 4 budgets: a new info version, a new session, a stored row, a decision of the clock; no restarts | `Converges` | eventual delivery of infos, from one client to the other too, and of the topology |
| `route_sync_stale_ack` | 2 peers, restarts | `SavedInfoDelivered` | **violated**, finding 1 |
| `route_sync_ghost` | 2 peers, one sweep | `NoGhostSent` | **violated**, finding 2 |
| `rpc_reassembly` | 2 peers, 2 connections each, a request and an answer, up to 3 pieces | `CountersExact` `EntrySound` `PacketOfOneConnection` `Reclaimed` | fragments across reconnects, all three limits are hit, abandoned fragments go |
| `secure_session` | 2 connections, 2 peers, 2 keys, room for 1 session, epochs 0..2 that wrap | `AttachmentsExact` `NonceFresh` `OneStaticKey` | shared session, rotation, Sync, frames of any epoch, eviction, full store, expiry, changed keys |
| `secure_session_join` | 3 connections, 2 root keys | `JoinShares` | **violated**, finding 3 |
| `replay_window` | 3 bytes of 2 bits, `usize` of 4 bits, numbers 10..20 | `CanAcceptExact` `Implements` | bitmap implements `AntiReplay` |

*Bounds.* In EdgeServer two connections let a reconnect replace a connection and
fail in the broadcast of its own registration, and let one close another in a
cascade; one address reaches its limit. Deeper cascades and the two other limits
need more connections than liveness checking can take: for the safety properties
the proofs cover any number. In ServerStartup two evictions give three lives, so
that what the second restored is checked again in the third; two requests share an
initialisation or follow a failed one. In RelayFrames the ids 1 and 8 have the
lowest and the highest bit set; a window of one frame and two ticks is filled by
every frame, and a frame can be relayed once more than the limit; the payloads have
headers that are too short, fit, fill the payload or exceed it, with names of no or one
cell (the proofs have every payload). In PeerCenter a link expires after one tick unless
its peer repeats it, while the peer may repeat another. In RouteSync every join, leave,
stored row and first info of a client advances the topology version, from 1; new joins,
rows and first infos stop at the `topo` of the budget. With 4 both clients join and one
learns the other's info through the relay, with 5 and more both do; 6 and 7 let one leave
and come back, restarted or not, while the answer to an update about it is under way.
Budgets with 2 and 3 give rows, sessions and the clock more room while a room forms.
Joint budgets are out of TLC's reach; the safety properties are proved without any. In
the live run one client's info and its next version travel to the other; a new session
and a decision of the clock come in a room of one client or of two without infos.
In RpcReassembly a peer may have one transaction pending, the table 4 pieces and 2 bytes: two entries of 2 pieces fit, an entry of
3 fills it. In SecureSession two connections are enough to share a session, to
compete for the store, and for one to be dropped while the other seals; root keys and
sequence numbers are bounded by `MaxRoot` and `MaxSeq`, and three epochs let a rotation
and a Sync meet before the epoch wraps. Two bits per byte and three bytes contain every
kind of shift: within a byte, across bytes, by whole bytes, and past the window.
RouteSync runs disable the deadlock check since their bounds end behaviours.

*Fairness.* EdgeServer: a handler that has started goes on (weak), and a timer
that is set again and again eventually fires (strong: other events may disable it
for the length of a handler only). Nothing is assumed of clients, sockets or
storage. RouteSync: maintenance rounds recur, and a connected client applies and
answers updates again and again; without an answering client nothing can
converge. ServerStartup: storage calls return and handlers run (weak), and for
`Serves` a client tries again and again and is not refused for lack of capacity
every time (strong). PeerCenter: clients poll, answers arrive, the clock and the
maintenance timer go on (weak). RpcReassembly: time passes and the maintenance timer fires while there
are connections.

The runs check the properties that relate several pieces of state; the types of the
variables are proved, as is `WithinCapacity` of EdgeServer.

Every property of a passing run has a mutant in `PROJECT.json`, a plausible error
in one definition, under which TLC finds it violated.

## 4. Findings

1. **A late answer marks a restarted peer as known** (`route_state.rs:406`).
   `remove_peer` clears what sessions have saved about a peer, but the answer to an
   update built before that writes it back. The new instance of the peer, with an
   equal or lower version, is left out of incremental updates until the saved
   version expires (60 s).
2. **A swept peer stays in the cached snapshot** (`core/rpc.ts:98`,
   `route_state.rs:524`). The retry loop of `cleanExpired` builds an update for a peer
   the sweep has removed just before; the snapshot built for it contains it and is
   cached under the current topology version, which the later close does not
   advance. The others are told of a node that is gone.
3. **Join without a shared key** (`secure.rs:940`). Generations do not tell two
   sessions of a peer apart, as each starts at 1. After the relay has lost a session
   and message 2 of the new one is lost, the client's retry is answered with Join
   although it holds the old root key.

Two remarks that are not findings of a run. `resolveRecipient` asks `get_next_hop` for
a gateway to a peer without a connection (`server.ts:534`), but `get_next_hop` returns
direct peers only, which have one: the branch never delivers. The repository's README
says that legacy mode never encrypts the transport; RPCs between relay and legacy
clients are encrypted (`server.ts:290`).

Two cases in which a property is stated with a condition, because the code does not
provide more:
- *Matching keys.* The table of the repository's README (`src/README.md:84`) asks for the
  "Matching" public key. `readServerConfig` takes any two keys that decode, and `/healthz`
  then answers as healthy; the pair is compared in the constructor of `SecurePeer`
  (`secure.rs:277`), for each connection, which is refused. `ConfigDocumented` states both
  halves: acceptance according to the table without that word, and no open connection
  unless the whole table holds.
- *Wrapping epochs.* `wrapping_add` takes the u32 epoch from the last one to 0, in
  `maybe_rotate_epoch` (`secure.rs:721`) and in a Sync (`secure.rs:964`), which also starts
  the sequence again, both under the same root key. Since `precheck_replay`
  (`secure.rs:757`) takes a frame of any epoch while no receive slot is valid, and a Sync
  begins after the newest epoch received, this needs no 2^32 rotations: one frame of the
  last epoch and a Sync are enough, and the nonces of epoch 0 are used again. `NonceFresh`
  is therefore stated of root keys whose epochs have not wrapped.

## 5. Proofs

All theorems hold for every value of the constants allowed by the named
assumptions: connections, peers and transactions are finite sets, null values lie
outside them, limits are natural numbers, requests and answers are different
transactions, a byte has more than one value, ids are below `Byte^4`, and the numbers
of an epoch span less than `2^UsizeWidth`. Each safety
property of a passing run, and the refinement of `AntiReplay`, is a theorem.

**EdgeServer.** `RegistrySound`, `FreedOnce` and the others are not inductive by
themselves: in the middle of a cascade the room, the WASM core and the pump
disagree. The invariant describes that disagreement.
- `BaseInv` (`EdgeServerProofs`, theorem `BaseCorrect`): `TypeOK`, `RoomInv` (what the
  room may hold while a registration is under way), `RouteInv` (how `routed` and the
  room differ during a handler), `FreedOnce` (with its uniqueness of frames on
  the stack; lemmas on pushing and popping a frame carry it), `TimerInv`.
  `TypeCorrect`, `RegistriesCorrect`, `RoutesCorrect`, `DisposalCorrect`, `TimersCorrect`
  follow.
- `PumpInv` and `OwedInv` (theorem `PumpCorrect`): a pump state
  belongs to the connection in the room, and a peer that is behind has an update
  in flight and is dirty, or is still to be visited by some call on the stack or by
  the job. The central lemmas say that a broadcast to the whole room pays every
  debt. `OwnershipCorrect` and `NoUpdateLost` follow.
- `QuotaInv` and `LimitInv` (theorem `AdmissionCorrect`): the
  counters are cardinalities of sets of connections; acceptance and release add
  or remove one element. `QuotaCorrect` and `CapacityCorrect` follow; that the clamp
  at 0 never acts is part of it.

**SecureSession.** `IInv` (`SecureSessionProofs`, theorem `StoreCorrect`) adds to
`TypeOK`: root keys were drawn before and no two sessions share one; every nonce
sealed under a session's root key lies below its epoch, or in its epoch below its
sequence number, as long as the epochs of that key have not wrapped (`StoreInv`; until
then a rotation or a Sync moves the epoch up, so the sequence may continue or start
again; `EpochCount` is any positive number); attachments are the cardinality of the set
of attached connections (`AttInv`), so a session in use is always kept and never
missing; an authenticated connection has the pinned key (`KeyInv`).
`SessionTypeCorrect`, `AttachmentsCorrect`, `NoncesCorrect` and `StaticKeyCorrect`
follow.

**ServerStartup.** `KeyStable` and `RouteIdStable` speak of what clients know; the
invariants say why nothing else can be told to them.
- `LifeInv` (theorem `LifeCorrect`): an initialisation that runs or is done is the one
  `identityReady` names, and connections exist only when it is done.
- `KeyInv` (`KeysCorrect`): `Identity` is the configured pair or, without one, the stored
  pair. Keys in use, keys of connections and keys clients know are the identity, and
  a pair is written only while no valid pair is stored - so nobody knows a key yet.
  `KeyCorrect` follows.
- `IdInv` (`IdsCorrect`): before the initialisation is done there is no route id in use;
  afterwards it is stored or being written, clients know no other unless a write
  failed, and who was told one in an earlier life finds `resync` set.
  `RouteIdCorrect`, `PersistedCorrect` and `ResyncCorrect` follow.

- `ConfigExact`: for every combination of texts of the vocabulary, and names, secrets
  and keys without a bound, `readServerConfig` and the documented table agree, the
  matching of the keys aside; TLC changes one variable at a time. The argument is by text: what each text is as a
  number or a word, what each parser makes of it, and what the table says.
- `PairInv`: requests go on only with an accepted configuration, and connections are open
  only with keys that match. With `KeyInv`, which says that the keys in use are the
  configured ones where there are any, the whole table holds wherever a connection is
  open. `ConfigCorrect`, the property of the run, follows from both.

Nothing is assumed of the number of requests, evictions and failing calls.

**PeerCenter.** `RowInv` (`RowsCorrect`): a link belongs to a peer that has reported and is
connected, its report is not older than the link's, and its age is below the TTL plus
the time since the last maintenance - which is why expiry never leaves a link without
its reporter. `DigestInv` (`DigestsCorrect`): a digest, wherever it is, is the digest of
the map it came with; with the injectivity of `calc_digest` a confirmed digest names
the present map. `TypeCorrect`, `PresenceCorrect`, `FreshCorrect` and `DigestCorrect`
follow, for any TTL, interval and number of peers.

**RelayFrames.** `ReadU32Exact`: composing bytes with signed shifts and taking the
result without sign gives back what was written, for any number of values of a byte.
- `Inv` (`Invariance`): the room and the ready connections point at each other
  (`RoomInv`); the phase of a connection, its mode and its cipher fit the configuration
  (`HandshakeInv`), which is why an RPC is authentic; a broadcast under way has only ready
  connections left to serve (`UpdatingInv`: whoever is closed in between is taken off);
  the frame relayed in a step went to its addressee and passed the filter, and no frame
  was relayed more often than its hop counter allows (`RelayedInv`). `HopsAreBounded`,
  `FramesReachAddressee`, `OnlyControlRelayed` and `RpcIsAuthentic` follow.
- `FilterExact`: for every packet type, and every payload of a ForeignNetworkPacket of any
  length, with any claimed header length, the filter and the reference (`ControlPlane`,
  `WrapsControl`: a fixed part, a name, a packet of the control plane) agree, in both
  directions. It is a fact about the operators and needs no invariant.
- `RateInv` (for `RateIsBounded`): a send window that began `age` ticks ago splits the
  history. What was sent since is at most the counter of the window, and what was sent
  before is at most one window's worth, because a window starts only when the one
  before it is over; a window that is over has sent nothing in the present tick. The
  frames are counted as elements of a set, so that the step of the clock and the start
  of a window are inclusions.

**RouteSync.** `Inv` (`Invariance`) has one part per subject: `PumpInv` (updates are for
peers of the room), `RowInv` (the relay's own row is its direct peers; who has a row is
known), `CacheInv` (no snapshot is of a version to come, and `CacheCoherent`, which
is inductive with the parts before it: whatever changes a row advances the version),
`SessionInv` (nobody names a session to come), `TopologyInv` and `InfoInv`. The last two
order three copies of a version: what the session has saved, what an answer under way
would save, and what the client has, as long as relay and client are in the same
session. For infos that holds of peers in their first instance only; a restart
breaks it, which is finding 1. `TransactionsAreInFlight`, `CacheIsCoherent`,
`TopologyIsDelivered` and `InfoOfRunningIsDelivered` follow.

**RpcReassembly.** `Inv` (`Invariance`) is `TableInv` (the count, bytes and first piece of
an entry describe the pieces it holds, all of the connection the peer has now and cut
into the same number; the two counters are the sums over all entries; the limits hold)
with `Incomplete` (nothing complete stays) and `PacketOfOneConnection`. Sums of
functions over sets are folds, whose library lemmas need induction: `SumUnits` shows
instead that such a sum is the cardinality of a set of pairs, by a least
counterexample among the subsets of a finite set, and the lemmas about adding,
removing and replacing an entry follow from those about cardinalities. That the
saturating subtractions never saturate is part of the result. `CountersAreExact`,
`EntriesAreSound` and `PacketsAreOfOneConnection` follow.

**ReplayWindow.** `WindowInv` (`WindowCorrect`): bit `d` is set exactly if the number `d`
below the newest was passed, and the newest is the greatest that was. Its core are
three lemmas about bytes as numbers: `SetBit` sets one bit and no other, `ShiftRight`
moves every bit by the shift, across bytes, and drops what leaves the window, and
`UsizeExact` says that the differences in question survive the conversion.
`CanAcceptIsExact` and `WindowImplements` (every `accept` is an `Offer` of `AntiReplay`,
`clear` a `Clear`) follow, for every number of bytes and bits.

Only model-checked: the liveness properties (`HandshakeEnds`, `UpdateBuilt`, `Serves`,
`Reclaimed` and both `Converges`), since fairness is outside the prover's reach. The
three properties of the runs that end in a violation are false.

## 6. Not modelled

The Noise and AEAD primitives and the legacy cipher are outcomes of a call; protobuf
encodings, generated bindings and declarations, the build script
(`scripts/build-wasm.mjs`: it compiles, patches and copies files, in one sequential
run) and the wording of errors and logs carry no state of the relay. More than one
network is not modelled: networks share only the connection limits and the
maintenance timer. Neighbours a client reports before the relay knows them
(`route_state.rs:779`) are in RouteSync as the code drops them, but whether the row
heals depends on the client's next report, so no property states it. EdgeServer and
RelayFrames describe the same connections from two sides and are not composed: the
product is out of TLC's reach, and what one abstracts (any send may fail; a broadcast sends
to any of the ready connections) includes what the other does.

## 7. Plan

Done: lifecycle, pump, route synchronisation, fragments, sessions, replay window,
start-up and configuration, frames, PeerCenter, and proofs of every safety property.
Left: an abstract membership directory, implemented by `EdgeServer` (what peers are
told) and by `RouteSync`, with its refinement proved; a composition of `SecureSession`
with `ReplayWindow`; the saved versions of `RouteSync` with failing sends.
