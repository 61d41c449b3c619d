----------------------------- MODULE EdgeServer -----------------------------
(***************************************************************************)
(* The connection lifecycle of the EasyTier relay: src/server.ts with      *)
(* runtime/connection.ts, runtime/rooms.ts and the per-peer pump of route  *)
(* updates in core/rpc.ts.                                                 *)
(*                                                                         *)
(* JavaScript runs every event handler to completion, but the handlers of  *)
(* this server call each other recursively: a failed send inside a         *)
(* broadcast closes the receiver, which removes it, which broadcasts       *)
(* again.  The recursion is modelled by an explicit call stack.  `calls'   *)
(* holds the broadcasts in progress (innermost first), `job' what the      *)
(* top-level handler still has to do once they have returned.  A new event *)
(* is accepted only when both are empty.                                   *)
(*                                                                         *)
(* Abstractions.  There is one configured network, as in readServerConfig. *)
(* Frame contents are reduced to the outcome of the code that reads them.  *)
(* A send fails or succeeds by choice of the environment (the socket may   *)
(* not be open, the send window may be exhausted).  Clocks are replaced by *)
(* what their ratios imply: an update found in flight by two successive    *)
(* maintenance rounds (10s apart) is past its 3s timeout in the second.    *)
(***************************************************************************)
EXTENDS Naturals, FiniteSets, Sequences

CONSTANTS
    Conn,                  \* accepted WebSockets (each is used once)
    Peer,                  \* authenticated peer ids
    IP,                    \* values of CF-Connecting-IP
    NoConn, NoPeer, NoIP,  \* no connection, the peerId 0 of a new one, no address yet
    MaxConnections,        \* MAX_CONNECTIONS
    MaxPendingHandshakes,  \* MAX_PENDING_HANDSHAKES
    MaxPendingPerIp        \* config.maxPendingPerIp

ASSUME ConnAssumption == IsFiniteSet(Conn) /\ NoConn \notin Conn
ASSUME PeerAssumption == NoPeer \notin Peer /\ NoIP \notin IP
ASSUME LimitAssumption ==
    /\ MaxConnections \in Nat \ {0}
    /\ MaxPendingHandshakes \in Nat \ {0}
    /\ MaxPendingPerIp \in Nat \ {0}

VARIABLES
    phase,              \* connection.phase, "none" before the upgrade
    peerOf,             \* connection.peerId
    ipOf,               \* connection.clientIp
    hsTimer,            \* connections whose handshakeTimer is set
    freed,              \* connections disposed of (secure.free())
    connections,        \* this.connections
    rooms,              \* the only room of RoomRegistry: peer id -> connection
    pendingHandshakes,  \* this.pendingHandshakes
    pendingByIp,        \* this.pendingHandshakesByIp, 0 for an absent key
    mTimer,             \* this.maintenanceTimer
    routed,             \* direct peers in the WASM route state (RouteGroupData.peers)
    syncConn,           \* routeSyncStates: peer id -> state.peer, NoConn if absent
    inFlight,           \* peers with state.inFlight
    aged,               \* in flight since the previous maintenance round
    dirty,              \* peers with state.dirty
    forceFull,          \* peers with state.forceFull
    behind,             \* history: no update built for them since the last topology change
    resync,             \* resyncPendingNetworks holds the network
    routeId,            \* DO storage record of the route id (and its copy persistedRouteIds)
    connectionMode,     \* config.connectionMode, the same for every incarnation of the object
    job,                \* rest of the top-level handler
    calls               \* nested broadcastRouteUpdate calls, innermost first

connVars  == <<phase, peerOf, ipOf, hsTimer, freed>>
quotaVars == <<pendingHandshakes, pendingByIp>>
pumpVars  == <<syncConn, inFlight, aged, dirty, forceFull>>
routeVars == <<routed, behind>>
durVars   == <<resync, routeId, connectionMode>>
vars == <<connVars, connections, rooms, quotaVars, mTimer, pumpVars, routeVars,
          durVars, job, calls>>

Pending == {"msg1", "msg3"}
Live    == Pending \cup {"ready"}

\* One call of broadcastRouteUpdate: peers the iterator has still to visit,
\* its forceFull argument, and the connection removeConnection disposes of
\* when the call returns.
Frame == [todo : SUBSET Peer, force : BOOLEAN, conn : Conn \cup {NoConn}]

\* What the top-level handler does after the nested calls return: finish a
\* registration, close the peers a maintenance round gave up on, or visit the
\* connections that are due for an update.
Job == [op : {"idle", "register", "close", "visit"}, conn : Conn \cup {NoConn},
        fail : SUBSET Peer, changed : BOOLEAN, todo : SUBSET Conn]

Idle == [op |-> "idle", conn |-> NoConn, fail |-> {}, changed |-> FALSE, todo |-> {}]

Quiescent == job = Idle /\ calls = <<>>

RoomPeers(rms) == {p \in Peer : rms[p] # NoConn}

Ready(c) == c \in Conn /\ phase[c] = "ready"

-----------------------------------------------------------------------------
(* Helpers: the methods called by the handlers.                            *)

\* Mutant: the address keeps its count
ReleaseHandshakeSlot_TotalOnly(c) ==
    /\ pendingHandshakes' = IF pendingHandshakes > 0 THEN pendingHandshakes - 1 ELSE 0
    /\ UNCHANGED pendingByIp

\* releaseHandshakeSlot
ReleaseHandshakeSlot(c) ==
    /\ pendingHandshakes' = IF pendingHandshakes > 0 THEN pendingHandshakes - 1 ELSE 0
    /\ pendingByIp' = [pendingByIp EXCEPT ![ipOf[c]] = IF @ > 0 THEN @ - 1 ELSE 0]

\* Mutant: whatever connection the room maps the peer id to
RoomDelete_ByPeerId(rms, c) ==
    [p \in Peer |-> IF p = peerOf[c] THEN NoConn ELSE rms[p]]

\* RoomRegistry.delete: only the connection the room maps the peer id to
RoomDelete(rms, c) ==
    [p \in Peer |-> IF p = peerOf[c] /\ rms[p] = c THEN NoConn ELSE rms[p]]

\* Mutants: core.remove_peer, or routeSyncStates.delete, is forgotten
RemovePeer_KeepsRoute(p) ==
    /\ syncConn' = [syncConn EXCEPT ![p] = NoConn]
    /\ inFlight' = inFlight \ {p}
    /\ aged' = aged \ {p}
    /\ dirty' = dirty \ {p}
    /\ forceFull' = forceFull \ {p}
    /\ UNCHANGED routeVars

RemovePeer_KeepsPump(p) ==
    /\ routed' = routed \ {p}
    /\ behind' = Peer
    /\ UNCHANGED pumpVars

\* rpc.removePeer: by peer id, whichever connection it is called for
RemovePeer(p) ==
    /\ routed' = routed \ {p}
    /\ behind' = Peer
    /\ syncConn' = [syncConn EXCEPT ![p] = NoConn]
    /\ inFlight' = inFlight \ {p}
    /\ aged' = aged \ {p}
    /\ dirty' = dirty \ {p}
    /\ forceFull' = forceFull \ {p}

\* close and removeConnection for a connection that is not closed.  `rms' is
\* the room table at the call and `rest' the calls in progress.
RemoveConnection(c, rms, rest) ==
    /\ phase[c] \in Live
    /\ phase' = [phase EXCEPT ![c] = "closed"]
    /\ connections' = connections \ {c}
    /\ mTimer' = IF connections \ {c} = {} THEN "off" ELSE mTimer
    /\ rooms' = RoomDelete(rms, c)
    /\ IF phase[c] = "ready"
       THEN /\ RemovePeer(peerOf[c])
            /\ calls' = <<[todo |-> RoomPeers(RoomDelete(rms, c)),
                           force |-> FALSE, conn |-> c]>> \o rest
            /\ UNCHANGED <<quotaVars, hsTimer, freed>>
       ELSE /\ ReleaseHandshakeSlot(c)
            /\ hsTimer' = hsTimer \ {c}
            /\ freed' = freed \cup {c}
            /\ calls' = rest
            /\ UNCHANGED <<pumpVars, routeVars>>

\* Mutant: nothing is remembered for a peer with an update in flight
SendRouteUpdate_Forgets(c, force, changed) ==
    LET p   == peerOf[c]
        old == IF changed THEN Peer ELSE behind
    IN  /\ syncConn' = [syncConn EXCEPT ![p] = c]
        /\ inFlight' = inFlight \cup {p}
        /\ behind' = IF p \in inFlight THEN old ELSE old \ {p}
        /\ UNCHANGED <<aged, dirty, forceFull>>

\* sendRouteUpdate and flushRouteUpdate when the send, if there is one,
\* succeeds.  `changed' says that the handler has just changed the topology.
SendRouteUpdate(c, force, changed) ==
    LET p   == peerOf[c]
        old == IF changed THEN Peer ELSE behind
    IN  /\ syncConn' = [syncConn EXCEPT ![p] = c]
        /\ IF p \in inFlight
           THEN /\ dirty' = dirty \cup {p}
                /\ forceFull' = IF force THEN forceFull \cup {p} ELSE forceFull
                /\ behind' = old
                /\ UNCHANGED <<inFlight, aged>>
           ELSE /\ dirty' = dirty \ {p}
                /\ forceFull' = forceFull \ {p}
                /\ behind' = old \ {p}
                /\ inFlight' = inFlight \cup {p}
                /\ aged' = aged \ {p}

-----------------------------------------------------------------------------
(* Events: fetch, timers, socket events and frames.                        *)

\* The limits fetch checks
HasCapacity(ip) ==
    /\ Cardinality(connections) < MaxConnections
    /\ pendingHandshakes < MaxPendingHandshakes
    /\ pendingByIp[ip] < MaxPendingPerIp

\* fetch after ensureIdentity has resolved: capacity check, createConnection
Accept(c, ip) ==
    /\ Quiescent
    /\ phase[c] = "none"
    /\ HasCapacity(ip)
    /\ phase' = [phase EXCEPT ![c] = "msg1"]
    /\ ipOf' = [ipOf EXCEPT ![c] = ip]
    /\ hsTimer' = hsTimer \cup {c}
    /\ connections' = connections \cup {c}
    /\ pendingHandshakes' = pendingHandshakes + 1
    /\ pendingByIp' = [pendingByIp EXCEPT ![ip] = @ + 1]
    /\ mTimer' = "armed"
    /\ UNCHANGED <<peerOf, freed, rooms, pumpVars, routeVars, durVars, job, calls>>

\* handleMessage throws, the peer names an unknown network, or the socket
\* reports close or error: close / failConnection / removeConnection
Drop(c) ==
    /\ Quiescent
    /\ RemoveConnection(c, rooms, calls)
    /\ UNCHANGED <<peerOf, ipOf, durVars, job>>

\* Mutant: the timer guards the first message only
HandshakeTimeout_Msg1Only(c) ==
    /\ Quiescent
    /\ c \in hsTimer /\ phase[c] = "msg1"
    /\ RemoveConnection(c, rooms, calls)
    /\ UNCHANGED <<peerOf, ipOf, durVars, job>>

\* onHandshakeTimeout
HandshakeTimeout(c) ==
    /\ Quiescent
    /\ c \in hsTimer
    /\ RemoveConnection(c, rooms, calls)
    /\ UNCHANGED <<peerOf, ipOf, durVars, job>>

\* handleHandshakeMessage1: the peer id is taken from the unauthenticated
\* message, then msg2 is sent; a failing send drops the connection
HandshakeMessage1(c, p) ==
    /\ Quiescent
    /\ connectionMode = "secure"
    /\ phase[c] = "msg1"
    /\ peerOf' = [peerOf EXCEPT ![c] = p]
    /\ \/ /\ phase' = [phase EXCEPT ![c] = "msg3"]
          /\ UNCHANGED <<hsTimer, freed, connections, rooms, quotaVars, mTimer,
                         pumpVars, routeVars, calls>>
       \/ RemoveConnection(c, rooms, calls)
    /\ UNCHANGED <<ipOf, durVars, job>>

\* registerConnection up to the return of close(replaced)
RegisterConnection(c, p) ==
    LET replaced == rooms[p]
        entered  == [rooms EXCEPT ![p] = c]
    IN  /\ job' = [Idle EXCEPT !.op = "register", !.conn = c]
        /\ IF replaced # NoConn
           THEN RemoveConnection(replaced, entered, calls)
           ELSE /\ rooms' = entered
                /\ UNCHANGED <<phase, hsTimer, freed, connections, quotaVars,
                               mTimer, pumpVars, routeVars, calls>>

\* handleHandshakeMessage3 for an authentic msg3 of the announced identity
HandshakeMessage3(c) ==
    /\ Quiescent
    /\ phase[c] = "msg3"
    /\ RegisterConnection(c, peerOf[c])
    /\ UNCHANGED <<peerOf, ipOf, durVars>>

\* handleLegacyHandshake with a matching digest and a successful response
LegacyHandshake(c, p) ==
    /\ Quiescent
    /\ connectionMode = "legacy"
    /\ phase[c] = "msg1"
    /\ peerOf' = [peerOf EXCEPT ![c] = p]
    /\ RegisterConnection(c, p)
    /\ UNCHANGED <<ipOf, durVars>>

\* The rest of a registration: rpc.addPeer, persistPeerRouteId,
\* completeHandshake, releaseHandshakeSlot, announcePeer
FinishRegistration ==
    LET c == job.conn
        p == peerOf[c]
    IN  /\ job.op = "register"
        /\ calls = <<>>
        /\ routed' = routed \cup {p}
        /\ behind' = Peer
        /\ syncConn' = [syncConn EXCEPT ![p] = NoConn]
        /\ inFlight' = inFlight \ {p}
        /\ aged' = aged \ {p}
        /\ dirty' = dirty \ {p}
        /\ forceFull' = forceFull \ {p}
        /\ routeId' = IF routeId = "unsaved" THEN "writing" ELSE routeId
        /\ phase' = [phase EXCEPT ![c] = "ready"]
        /\ hsTimer' = hsTimer \ {c}
        /\ ReleaseHandshakeSlot(c)
        /\ calls' = <<[todo |-> RoomPeers(rooms), force |-> resync, conn |-> NoConn]>>
        /\ resync' = FALSE
        /\ job' = Idle
        /\ UNCHANGED <<peerOf, ipOf, freed, connections, rooms, mTimer, connectionMode>>

\* handleReadyPacket, forwarding: the send to the recipient fails
ForwardRejected(c, p) ==
    /\ Quiescent
    /\ Ready(c)
    /\ Ready(rooms[p])
    /\ RemoveConnection(rooms[p], rooms, calls)
    /\ UNCHANGED <<peerOf, ipOf, durVars, job>>

\* handleReadyPacket, a route request whose answer and update are sent: the
\* topology changed (result "route": tell the others) or only the session did
\* (result "route-session")
RouteRequest(c, changed) ==
    /\ Quiescent
    /\ Ready(c)
    /\ SendRouteUpdate(c, FALSE, changed)
    /\ calls' = IF changed
                THEN <<[todo |-> RoomPeers(rooms) \ {peerOf[c]},
                        force |-> FALSE, conn |-> NoConn]>>
                ELSE calls
    /\ UNCHANGED <<connVars, connections, rooms, quotaVars, mTimer, routed, durVars, job>>

\* handleReadyPacket, the response that completes the update in flight; what
\* became dirty meanwhile is flushed
RouteResponse(c) ==
    LET p == peerOf[c]
    IN  /\ Quiescent
        /\ Ready(c)
        /\ p \in inFlight
        /\ IF p \in dirty \cup forceFull
           THEN /\ dirty' = dirty \ {p}
                /\ forceFull' = forceFull \ {p}
                /\ behind' = behind \ {p}
                /\ UNCHANGED inFlight
           ELSE /\ inFlight' = inFlight \ {p}
                /\ UNCHANGED <<dirty, forceFull, behind>>
        /\ aged' = aged \ {p}
        /\ UNCHANGED <<connVars, connections, rooms, quotaVars, mTimer, routed,
                       syncConn, durVars, job, calls>>

-----------------------------------------------------------------------------
(* broadcastRouteUpdate, one peer at a time.                               *)

Top == Head(calls)

Visited(p) == <<[Top EXCEPT !.todo = @ \ {p}]>> \o Tail(calls)

\* The iterator reaches a peer that left the room or is not ready yet
BroadcastSkip(p) ==
    /\ calls # <<>>
    /\ p \in Top.todo
    /\ ~Ready(rooms[p])
    /\ calls' = Visited(p)
    /\ UNCHANGED <<connVars, connections, rooms, quotaVars, mTimer, pumpVars,
                   routeVars, durVars, job>>

BroadcastSend(p) ==
    /\ calls # <<>>
    /\ p \in Top.todo
    /\ Ready(rooms[p])
    /\ SendRouteUpdate(rooms[p], Top.force, FALSE)
    /\ calls' = Visited(p)
    /\ UNCHANGED <<connVars, connections, rooms, quotaVars, mTimer, routed, durVars, job>>

\* The send fails: close(peer, 1011), nested
BroadcastReject(p) ==
    /\ calls # <<>>
    /\ p \in Top.todo
    /\ Ready(rooms[p])
    /\ p \notin inFlight
    /\ RemoveConnection(rooms[p], rooms, Visited(p))
    /\ UNCHANGED <<peerOf, ipOf, durVars, job>>

\* Mutant: disposeConnection is skipped
BroadcastReturn_NoDispose ==
    /\ calls # <<>>
    /\ Top.todo = {}
    /\ calls' = Tail(calls)
    /\ UNCHANGED <<connVars, connections, rooms, quotaVars, mTimer, pumpVars,
                   routeVars, durVars, job>>

\* The call returns; removeConnection goes on with disposeConnection
BroadcastReturn ==
    /\ calls # <<>>
    /\ Top.todo = {}
    /\ calls' = Tail(calls)
    /\ freed' = freed \cup ({Top.conn} \ {NoConn})
    /\ hsTimer' = hsTimer \ {Top.conn}
    /\ UNCHANGED <<phase, peerOf, ipOf, connections, rooms, quotaVars, mTimer,
                   pumpVars, routeVars, durVars, job>>

-----------------------------------------------------------------------------
(* The maintenance timer.                                                  *)

\* Mutant: an update that is not answered stays in flight
CleanExpired_NoRetry(dead, late, failed, changed) ==
    /\ Quiescent
    /\ mTimer = "armed"
    /\ dead \subseteq routed /\ late = {} /\ failed = {}
    /\ mTimer' = "off"
    /\ routed' = routed \ dead
    /\ behind' = IF changed \/ dead # {} THEN Peer ELSE behind
    /\ job' = [Idle EXCEPT !.op = "close", !.fail = dead, !.changed = (changed \/ dead # {})]
    /\ UNCHANGED <<connVars, connections, rooms, quotaVars, pumpVars, durVars, calls>>

\* cleanExpired: `dead' are the direct peers silent for 90s, `late' the
\* updates in flight for more than 3s, `failed' those whose retry cannot be
\* sent, `changed' the recycling of some other route entry
CleanExpired(dead, late, failed, changed) ==
    LET retried == late \ failed
        stale   == IF changed \/ dead # {} THEN Peer ELSE behind
    IN  /\ Quiescent
        /\ mTimer = "armed"
        /\ dead \subseteq routed
        /\ late \subseteq inFlight /\ aged \subseteq late
        /\ failed \subseteq late
        /\ mTimer' = "off"
        /\ routed' = routed \ dead
        /\ inFlight' = inFlight \ failed
        /\ aged' = inFlight \ failed
        /\ dirty' = (dirty \ retried) \cup failed
        /\ forceFull' = (forceFull \ retried) \cup failed
        /\ behind' = stale \ retried
        /\ job' = [Idle EXCEPT !.op = "close", !.fail = dead \cup failed,
                               !.changed = (changed \/ dead # {})]
        /\ UNCHANGED <<connVars, connections, rooms, quotaVars, syncConn, durVars, calls>>

\* close the connection of a peer the round gave up on, if there still is one
MaintenanceClose(p) ==
    /\ job.op = "close"
    /\ calls = <<>>
    /\ p \in job.fail
    /\ job' = [job EXCEPT !.fail = @ \ {p}]
    /\ IF rooms[p] # NoConn
       THEN RemoveConnection(rooms[p], rooms, calls)
       ELSE UNCHANGED <<phase, hsTimer, freed, connections, rooms, quotaVars,
                        mTimer, pumpVars, routeVars, calls>>
    /\ UNCHANGED <<peerOf, ipOf, durVars>>

\* broadcast the recycled routes, then start on the connections
MaintenanceBroadcast ==
    /\ job.op = "close"
    /\ calls = <<>>
    /\ job.fail = {}
    /\ calls' = IF job.changed
                THEN <<[todo |-> RoomPeers(rooms), force |-> FALSE, conn |-> NoConn]>>
                ELSE calls
    /\ job' = [Idle EXCEPT !.op = "visit", !.todo = connections]
    /\ UNCHANGED <<connVars, connections, rooms, quotaVars, mTimer, pumpVars,
                   routeVars, durVars>>

\* maintainPeer returns early: not ready, closed meanwhile, no sync state,
\* in flight, or completed less than 10s ago
MaintenanceSkip(c) ==
    /\ job.op = "visit"
    /\ calls = <<>>
    /\ c \in job.todo
    /\ job' = [job EXCEPT !.todo = @ \ {c}]
    /\ UNCHANGED <<connVars, connections, rooms, quotaVars, mTimer, pumpVars,
                   routeVars, durVars, calls>>

\* maintainPeer sends the periodic update, or fails to and closes the connection
MaintenanceSend(c) ==
    /\ job.op = "visit"
    /\ calls = <<>>
    /\ c \in job.todo
    /\ Ready(c)
    /\ syncConn[peerOf[c]] # NoConn
    /\ peerOf[c] \notin inFlight
    /\ job' = [job EXCEPT !.todo = @ \ {c}]
    /\ \/ /\ SendRouteUpdate(c, FALSE, FALSE)
          /\ UNCHANGED <<phase, hsTimer, freed, connections, rooms, quotaVars,
                         mTimer, routed, calls>>
       \/ RemoveConnection(c, rooms, calls)
    /\ UNCHANGED <<peerOf, ipOf, durVars>>

\* Mutant: the timer is set again without looking at the connections
MaintenanceEnd_Always ==
    /\ job.op = "visit"
    /\ calls = <<>>
    /\ job.todo = {}
    /\ job' = Idle
    /\ mTimer' = "armed"
    /\ UNCHANGED <<connVars, connections, rooms, quotaVars, pumpVars, routeVars,
                   durVars, calls>>

\* scheduleMaintenance at the end of the round
MaintenanceEnd ==
    /\ job.op = "visit"
    /\ calls = <<>>
    /\ job.todo = {}
    /\ job' = Idle
    /\ mTimer' = IF connections = {} THEN "off" ELSE "armed"
    /\ UNCHANGED <<connVars, connections, rooms, quotaVars, pumpVars, routeVars,
                   durVars, calls>>

-----------------------------------------------------------------------------
(* Durable Object storage and eviction.                                    *)

\* The put of persistPeerRouteId is confirmed, or fails and is forgotten so
\* that a later registration writes again
RouteIdStored ==
    /\ routeId = "writing"
    /\ routeId' \in {"saved", "unsaved"}
    /\ UNCHANGED <<connVars, connections, rooms, quotaVars, mTimer, pumpVars,
                   routeVars, resync, connectionMode, job, calls>>

\* The platform evicts the object and constructs a new one: sockets and memory
\* are gone, restoreRouteIds finds the record if the put got through
Restart ==
    /\ phase' = [c \in Conn |-> IF phase[c] = "none" THEN "none" ELSE "closed"]
    /\ hsTimer' = {}
    /\ freed' = {c \in Conn : phase[c] # "none"}
    /\ connections' = {}
    /\ rooms' = [p \in Peer |-> NoConn]
    /\ pendingHandshakes' = 0
    /\ pendingByIp' = [ip \in IP |-> 0]
    /\ mTimer' = "off"
    /\ routed' = {}
    /\ behind' = {}
    /\ syncConn' = [p \in Peer |-> NoConn]
    /\ inFlight' = {} /\ aged' = {} /\ dirty' = {} /\ forceFull' = {}
    /\ routeId' \in IF routeId = "writing" THEN {"saved", "unsaved"} ELSE {routeId}
    /\ resync' = (routeId' = "saved")
    /\ job' = Idle
    /\ calls' = <<>>
    /\ UNCHANGED <<peerOf, ipOf, connectionMode>>

-----------------------------------------------------------------------------
Init ==
    /\ phase = [c \in Conn |-> "none"]
    /\ peerOf = [c \in Conn |-> NoPeer]
    /\ ipOf = [c \in Conn |-> NoIP]
    /\ hsTimer = {} /\ freed = {} /\ connections = {}
    /\ rooms = [p \in Peer |-> NoConn]
    /\ pendingHandshakes = 0
    /\ pendingByIp = [ip \in IP |-> 0]
    /\ mTimer = "off"
    /\ routed = {} /\ behind = {}
    /\ syncConn = [p \in Peer |-> NoConn]
    /\ inFlight = {} /\ aged = {} /\ dirty = {} /\ forceFull = {}
    /\ resync = FALSE
    /\ routeId = "unsaved"
    /\ connectionMode \in {"secure", "legacy"}
    /\ job = Idle
    /\ calls = <<>>

\* Events from outside
Event ==
    \/ \E c \in Conn, ip \in IP : Accept(c, ip)
    \/ \E c \in Conn : Drop(c)
    \/ \E c \in Conn, p \in Peer : HandshakeMessage1(c, p)
    \/ \E c \in Conn : HandshakeMessage3(c)
    \/ \E c \in Conn, p \in Peer : LegacyHandshake(c, p)
    \/ \E c \in Conn, p \in Peer : ForwardRejected(c, p)
    \/ \E c \in Conn, changed \in BOOLEAN : RouteRequest(c, changed)
    \/ \E c \in Conn : RouteResponse(c)
    \/ RouteIdStored
    \/ Restart

Timeout == \E c \in Conn : HandshakeTimeout(c)

MaintenanceTimer ==
    \E dead \in SUBSET routed, late \in SUBSET inFlight, changed \in BOOLEAN :
        \E failed \in SUBSET late : CleanExpired(dead, late, failed, changed)

\* The steps of a handler that has started
Continue ==
    \/ FinishRegistration
    \/ \E p \in Peer : BroadcastSkip(p) \/ BroadcastSend(p) \/ BroadcastReject(p)
    \/ BroadcastReturn
    \/ \E p \in Peer : MaintenanceClose(p)
    \/ MaintenanceBroadcast
    \/ \E c \in Conn : MaintenanceSkip(c) \/ MaintenanceSend(c)
    \/ MaintenanceEnd

Next == Event \/ Timeout \/ MaintenanceTimer \/ Continue

Spec == Init /\ [][Next]_vars

\* A handler runs to its end.  A timer callback is queued when it is due and
\* the event loop reaches it although other events keep arriving, hence strong
\* fairness for the timers.  Nothing is assumed of clients, sockets or storage.
Fairness ==
    /\ WF_vars(Continue)
    /\ SF_vars(MaintenanceTimer)
    /\ \A c \in Conn : SF_vars(HandshakeTimeout(c))

FairSpec == Spec /\ Fairness

-----------------------------------------------------------------------------
(* Properties.                                                             *)

\* Every variable has its type.
TypeOK ==
    /\ phase \in [Conn -> {"none", "msg1", "msg3", "ready", "closed"}]
    /\ peerOf \in [Conn -> Peer \cup {NoPeer}]
    /\ ipOf \in [Conn -> IP \cup {NoIP}]
    /\ hsTimer \subseteq Conn /\ freed \subseteq Conn /\ connections \subseteq Conn
    /\ rooms \in [Peer -> Conn \cup {NoConn}]
    /\ pendingHandshakes \in Nat
    /\ pendingByIp \in [IP -> Nat]
    /\ mTimer \in {"armed", "off"}
    /\ routed \subseteq Peer /\ behind \subseteq Peer
    /\ syncConn \in [Peer -> Conn \cup {NoConn}]
    /\ inFlight \subseteq Peer /\ aged \subseteq Peer
    /\ dirty \subseteq Peer /\ forceFull \subseteq Peer
    /\ resync \in BOOLEAN
    /\ routeId \in {"unsaved", "writing", "saved"}
    /\ connectionMode \in {"secure", "legacy"}
    /\ job \in Job
    /\ calls \in Seq(Frame)

\* What the registries, the route state and the pump of updates satisfy between
\* any two steps of a handler.  RegistrySound, RouteMirrorsRoom, PumpOwned and
\* NoLostUpdate are what is left of these when no handler is running.

\* The room names the connections that announced the peer ids, each ready or
\* being registered; only one connection is being registered.
RoomInv ==
    /\ connections = {c \in Conn : phase[c] \in Live}
    /\ \A c \in Conn : phase[c] \in {"msg3", "ready"} => peerOf[c] \in Peer
    /\ \A c \in Conn : phase[c] = "ready" => rooms[peerOf[c]] = c
    /\ \A p \in Peer : rooms[p] # NoConn =>
          /\ peerOf[rooms[p]] = p
          /\ \/ phase[rooms[p]] = "ready"
             \/ job.op = "register" /\ job.conn = rooms[p]
    /\ job.op = "register" =>
          /\ job.conn \in Conn
          /\ phase[job.conn] \in Pending
          /\ peerOf[job.conn] \in Peer
          /\ rooms[peerOf[job.conn]] = job.conn

\* The route state lacks, of the peers in the room, the one being registered
\* and those a maintenance round has still to close.
RouteInv ==
    /\ job.op \in {"idle", "visit"} => routed = RoomPeers(rooms)
    /\ job.op = "register" => routed = RoomPeers(rooms) \ {peerOf[job.conn]}
    /\ job.op = "close" => routed \subseteq RoomPeers(rooms)
                            /\ RoomPeers(rooms) \subseteq routed \cup job.fail

\* Of a state of the pump: its connection is the ready one of the room.
PumpInv ==
    /\ \A p \in Peer : syncConn[p] # NoConn =>
          syncConn[p] = rooms[p] /\ phase[rooms[p]] = "ready"
    /\ \A p \in inFlight \cup dirty \cup forceFull : syncConn[p] # NoConn
    /\ aged \subseteq inFlight

\* A ready peer for which no update was built since the last change will get
\* one from the pump, from a broadcast in progress or from the one that ends
\* the closing of a maintenance round, or is about to be closed.
OwedInv ==
    \A c \in Conn : phase[c] = "ready" /\ peerOf[c] \in behind =>
        \/ peerOf[c] \in inFlight /\ peerOf[c] \in dirty
        \/ \E i \in 1..Len(calls) : peerOf[c] \in calls[i].todo
        \/ job.op = "close" /\ (job.changed \/ peerOf[c] \in job.fail)

\* The handshake timers, and the maintenance timer while a handler runs.
TimerInv ==
    /\ hsTimer = {c \in Conn : phase[c] \in Pending}
    /\ job.op \in {"idle", "register"} => (mTimer = "armed" <=> connections # {})
    /\ job.op \in {"close", "visit"} => mTimer = "off"

\* The handshake quota is exact: however a connection leaves its handshake
\* (success, protocol error, timeout, close event, eviction), its slot is
\* released once, in total and for its address.  releaseHandshakeSlot clamps at
\* zero, so a double release would go unnoticed in the code.
QuotaExact ==
    /\ pendingHandshakes = Cardinality({c \in Conn : phase[c] \in Pending})
    /\ \A ip \in IP :
          pendingByIp[ip] = Cardinality({c \in Conn : phase[c] \in Pending /\ ipOf[c] = ip})

\* The limits checked by fetch hold of the connections that exist, whatever
\* happened between two upgrades.
WithinCapacity ==
    /\ Cardinality({c \in Conn : phase[c] \in Live}) <= MaxConnections
    /\ Cardinality({c \in Conn : phase[c] \in Pending}) <= MaxPendingHandshakes
    /\ \A ip \in IP :
          Cardinality({c \in Conn : phase[c] \in Pending /\ ipOf[c] = ip}) <= MaxPendingPerIp

\* The registries agree with the connections: this.connections holds the live
\* ones, the room maps every ready connection's peer id to that connection (so
\* a peer id has one ready connection, and a reconnect that replaces another
\* is never unregistered by the removal of the one it replaced), and what the
\* room holds is ready or the connection being registered.
RegistrySound ==
    /\ connections = {c \in Conn : phase[c] \in Live}
    /\ \A c \in Conn : phase[c] = "ready" => peerOf[c] \in Peer /\ rooms[peerOf[c]] = c
    /\ \A p \in Peer : rooms[p] # NoConn =>
          /\ peerOf[rooms[p]] = p
          /\ \/ phase[rooms[p]] = "ready"
             \/ job.op = "register" /\ job.conn = rooms[p] /\ phase[rooms[p]] \in Pending

\* Between two events the WASM route state knows exactly the peers of the
\* room, although removePeer goes by peer id and runs for a replaced connection
\* after the new one has entered the room.
RouteMirrorsRoom == Quiescent => routed = RoomPeers(rooms)

\* A route synchronisation state belongs to the ready connection of its peer
\* id: the retry loop of cleanExpired never sends on a connection that was
\* closed or whose SecurePeer was freed.
PumpOwned ==
    /\ \A p \in Peer : syncConn[p] # NoConn =>
          /\ syncConn[p] = rooms[p]
          /\ phase[rooms[p]] = "ready"
          /\ rooms[p] \notin freed
    /\ \A p \in inFlight \cup dirty \cup forceFull : syncConn[p] # NoConn

\* The connections whose disposal waits for a broadcast to return
Disposing == {c \in Conn : \E i \in 1..Len(calls) : calls[i].conn = c}

\* disposeConnection runs exactly once for a closed connection: it was freed,
\* or one call in progress is going to free it.
FreedOnce ==
    /\ freed \cap Disposing = {}
    /\ freed \cup Disposing = {c \in Conn : phase[c] = "closed"}
    /\ \A i, j \in 1..Len(calls) : calls[i].conn = calls[j].conn /\ i # j => calls[i].conn = NoConn

\* A handshake is always on a timer, and between two events the maintenance
\* timer is set exactly while there are connections: cancelled with the last
\* one, also when that happens in the middle of a maintenance round.
TimersArmed ==
    /\ hsTimer = {c \in Conn : phase[c] \in Pending}
    /\ Quiescent => (mTimer = "armed" <=> connections # {})

\* No topology change is lost: between two events, a ready peer for which no
\* update was built since the last change has one in flight and its dirty flag
\* set, so that the response or the timeout will build it.
NoLostUpdate ==
    Quiescent =>
        \A c \in Conn : phase[c] = "ready" /\ peerOf[c] \in behind =>
            peerOf[c] \in inFlight \cap dirty

\* A connection does not stay in its handshake.
HandshakeEnds ==
    \A c \in Conn : phase[c] \in Pending ~> phase[c] \in {"ready", "closed"}

\* A ready peer that is behind the topology gets an update built or is closed,
\* whether or not it ever answers.
UpdateBuilt ==
    \A c \in Conn :
        (phase[c] = "ready" /\ peerOf[c] \in behind)
            ~> (phase[c] = "closed" \/ peerOf[c] \notin behind)
=============================================================================
