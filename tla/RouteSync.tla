----------------------------- MODULE RouteSync -----------------------------
(***************************************************************************)
(* Route synchronisation of one network: RouteState (route_state.rs), the  *)
(* outstanding route transactions of WasmRpcCore (rpc.rs) and the pump in  *)
(* core/rpc.ts that keeps one update per peer in flight, driven by the     *)
(* connection lifecycle of server.ts.                                      *)
(*                                                                         *)
(* EdgeServer is about which connections there are and whether an update   *)
(* is sent at all; here every send succeeds and the question is what the   *)
(* updates contain.  The clients are external: they change their own info  *)
(* and links, restart, apply the updates they receive and answer them.     *)
(*                                                                         *)
(* Time is left out.  What a clock decides (a saved version is older than  *)
(* 60s, an update older than 3s, a session silent for 90s) happens by      *)
(* choice, so every timing is covered.                                     *)
(***************************************************************************)
EXTENDS Naturals, FiniteSets

CONSTANTS
    Peer,         \* client peer ids
    Server,       \* SERVER_PEER_ID
    ListCapable,  \* peers whose info has support_conn_list_sync
    Budgets       \* what the environment may do in a behaviour, one of them in each

\* Bounds: how many times a client is restarted, starts a new session, changes
\* its info or its links, how many times the clock decides something, and the
\* topology_version up to which clients join and report
Budget == [inst : Nat, sess : Nat, ver : Nat, row : Nat, ticks : Nat, topo : Nat]

ASSUME RouteAssumption ==
    /\ Server \notin Peer /\ IsFiniteSet(Peer)
    /\ ListCapable \subseteq Peer
    /\ Budgets \subseteq Budget

Node == Peer \cup {Server}

VARIABLES
    client,       \* external: a client's instance, versions, links and session
    view,         \* external: the info of each node a client last received
    viewTopo,     \* external: the topology version of the rows a client last received
    room,         \* peers with a ready connection (server.ts rooms)
    peers,        \* RouteGroupData.peers
    infos,        \* peer_infos: [inst, ver], NoInfo if absent
    rows,         \* conn_rows: [ver, links], NoRow if absent
    topo,         \* topology_version
    cache,        \* cached_conn_peer_list ("list") and cached_conn_bitmap ("bitmap")
    dst,          \* sessions[p].dst_session_id, 0 if none
    saved,        \* sessions[p].peer_info_ver_map, 0 if absent
    fresh,        \* the pairs <<p, q>> whose saved version is younger than 60s
    topoSeen,     \* sessions[p].last_topology_version, 0 also when older than 60s
    outstanding,  \* the transaction of p in outstanding_routes, None if absent: infos and
                  \* topology it carries, `sess' once the client has applied it
    inFlight, dirty, forceFull,  \* routeSyncStates
    todo,         \* peers the handler in progress has still to send an update to
    closing,      \* silent peers a maintenance round has still to close
    round,        \* a maintenance round is in progress
    budget        \* what is left of the budget of this behaviour

clientVars  == <<client, view, viewTopo>>
groupVars   == <<peers, infos, rows, topo>>
sessionVars == <<dst, saved, fresh, topoSeen>>
pumpVars    == <<inFlight, dirty, forceFull>>
vars == <<clientVars, room, groupVars, cache, sessionVars, outstanding, pumpVars,
          todo, closing, round, budget>>

NewClient(inst, sess) ==
    [inst |-> inst, ver |-> 1, rowVer |-> 0, links |-> {}, sess |-> sess]

NoInfo == [inst |-> 0, ver |-> 0]
NoRow  == [ver |-> 0, links |-> {}]
None   == [vers |-> [q \in Node |-> NoInfo], topo |-> 0, ghosts |-> {},
           sess |-> 0, open |-> FALSE]
NoCache == [ver |-> 0, members |-> {}, rows |-> [q \in Node |-> NoRow]]

\* No handler is running: the next event may be taken
Quiescent == todo = {} /\ closing = {} /\ round = "off"

\* The environment does one more of what field f of the budget counts
Spend(f) ==
    /\ budget[f] > 0
    /\ budget' = [budget EXCEPT ![f] = @ - 1]

\* The clock decides something
Tick == Spend("ticks")

HasInfo(inf, q) == inf[q] # NoInfo

\* The nodes the relay knows: direct peers, info entries, rows, itself
\* (relevant_peers of build_sync_route_info_request without its target)
Known == {q \in Peer : q \in peers \/ HasInfo(infos, q) \/ rows[q] # NoRow} \cup {Server}

Format(p) == IF p \in ListCapable /\ HasInfo(infos, p) THEN "list" ELSE "bitmap"

-----------------------------------------------------------------------------
(* route_state.rs                                                          *)

\* update_my_conn_row: the version of the relay's own row advances only when
\* the set of direct peers differs
UpdateMyConnRow(rws, ps) ==
    IF rws[Server].links = ps THEN rws
    ELSE [rws EXCEPT ![Server] = [ver |-> @.ver + 1, links |-> ps]]

\* Mutant: a change is not noted
NoteTopologyChange_Forgotten(n) == UNCHANGED <<topo, cache>>

\* note_topology_change, n times
NoteTopologyChange(n) ==
    /\ topo' = topo + n
    /\ cache' = IF n = 0 THEN cache ELSE [f \in {"list", "bitmap"} |-> NoCache]

\* remove_peer for every peer of `dead', and the removal of the infos and rows
\* of `purged' by the second pass of sweep_expired_route_info
Sweep(dead, purged) ==
    LET gone   == dead \cup purged
        kept   == [q \in Node |-> IF q \in gone THEN NoRow ELSE rows[q]]
        bumps  == Cardinality({p \in dead : p \in peers \/ HasInfo(infos, p)})
                  + (IF purged = {} THEN 0 ELSE 1)
    IN  /\ peers' = peers \ dead
        /\ infos' = [q \in Node |-> IF q \in gone THEN NoInfo ELSE infos[q]]
        /\ rows' = [kept EXCEPT ![Server] = [ver   |-> @.ver + Cardinality(dead \cap peers),
                                              links |-> @.links \ dead]]
        /\ dst' = [p \in Peer |-> IF p \in dead THEN 0 ELSE dst[p]]
        /\ saved' = [p \in Peer |-> [q \in Node |->
                        IF p \in dead \/ q \in gone THEN 0 ELSE saved[p][q]]]
        /\ fresh' = {pq \in fresh : pq[1] \notin dead /\ pq[2] \notin gone}
        /\ topoSeen' = IF gone = {} THEN topoSeen ELSE [p \in Peer |-> 0]
        /\ NoteTopologyChange(bumps)

RemovePeer(p) == Sweep({p}, {})

\* Mutant: off by one in the comparison of versions
Selected_OffByOne(p, full) ==
    {q \in Node \ {p} :
        /\ HasInfo(infos, q)
        /\ full \/ infos[q].ver > saved[p][q] + 1}

\* Mutant: only the first session of a peer is noticed
SessionChanged_FirstOnly(p, sid) == dst[p] = 0

\* The peer names another session than before
SessionChanged(p, sid) == dst[p] # sid

\* The infos an update for p carries: those newer than what p's session has
\* saved, all of them if the update is full
Selected(p, full) ==
    {q \in Node \ {p} :
        /\ HasInfo(infos, q)
        /\ full \/ <<p, q>> \notin fresh \/ infos[q].ver > saved[p][q]}

\* build_conn_info computes a snapshot of the rows of the known nodes and of
\* the target, and caches it under the topology version
Snapshot(p) == [ver |-> topo, members |-> Known \cup {p}, rows |-> rows]

ConnInfo(p) == IF cache[Format(p)].ver = topo THEN cache[Format(p)] ELSE Snapshot(p)

\* build_route_update: build_sync_route_info_request and the transaction
BuildRouteUpdate(p, force) ==
    LET full == force \/ dst[p] = 0
        conn == ConnInfo(p)
        sent == [q \in Node |-> IF q \in Selected(p, full) THEN infos[q] ELSE NoInfo]
    IN  IF topoSeen[p] = topo
        THEN /\ outstanding' = [outstanding EXCEPT ![p] =
                    [None EXCEPT !.open = TRUE, !.vers = sent]]
             /\ UNCHANGED cache
        ELSE /\ outstanding' = [outstanding EXCEPT ![p] =
                    [None EXCEPT !.open = TRUE, !.vers = sent, !.topo = topo,
                                 !.ghosts = conn.members \ Known]]
             /\ cache' = [cache EXCEPT ![Format(p)] = conn]

-----------------------------------------------------------------------------
(* core/rpc.ts                                                             *)

\* flushRouteUpdate: inFlight is already known to be false
Flush(p, force) ==
    /\ BuildRouteUpdate(p, force)
    /\ inFlight' = inFlight \cup {p}
    /\ dirty' = dirty \ {p}
    /\ forceFull' = forceFull \ {p}

\* Mutant: the transactions of a removed peer stay
DropPump_KeepsTransaction(p) ==
    /\ inFlight' = inFlight \ {p}
    /\ dirty' = dirty \ {p}
    /\ forceFull' = forceFull \ {p}
    /\ UNCHANGED outstanding

\* rpc.removePeer / addPeer: routeSyncStates.delete, and the WASM core drops
\* the peer's transactions
DropPump(p) ==
    /\ inFlight' = inFlight \ {p}
    /\ dirty' = dirty \ {p}
    /\ forceFull' = forceFull \ {p}
    /\ outstanding' = [outstanding EXCEPT ![p] = None]

-----------------------------------------------------------------------------
(* Events                                                                  *)

\* FinishRegistration of EdgeServer: add_peer, then announcePeer
Join(p) ==
    /\ Quiescent
    /\ p \notin room
    /\ topo < budget.topo
    /\ room' = room \cup {p}
    /\ peers' = peers \cup {p}
    /\ IF p \in peers
       THEN UNCHANGED <<rows, topo, cache>>
       ELSE rows' = UpdateMyConnRow(rows, peers \cup {p}) /\ NoteTopologyChange(1)
    /\ DropPump(p)
    /\ todo' = room \cup {p}
    /\ UNCHANGED <<clientVars, infos, sessionVars, closing, round, budget>>

\* external: a client that loses its connection or its session forgets the
\* routes it was sent
ForgetView(p) ==
    /\ view' = [view EXCEPT ![p] = [q \in Node |-> NoInfo]]
    /\ viewTopo' = [viewTopo EXCEPT ![p] = 0]

\* removeConnection of a ready peer: rpc.removePeer, then a broadcast
Leave(p) ==
    /\ Quiescent
    /\ p \in room
    /\ room' = room \ {p}
    /\ RemovePeer(p)
    /\ DropPump(p)
    /\ todo' = room \ {p}
    /\ ForgetView(p)
    /\ UNCHANGED <<client, closing, round, budget>>

\* store_conn_rows: the row of the reporter itself, if it is newer, without the
\* neighbours the relay does not know
StoreConnRows(p, inf) ==
    LET known(q) == q = Server \/ q \in peers \/ HasInfo(inf, q)
    IN  IF client[p].rowVer > rows[p].ver
        THEN [rows EXCEPT ![p] = [ver   |-> client[p].rowVer,
                                  links |-> {q \in client[p].links : known(q)}]]
        ELSE rows

\* handle_sync_route_info_request from a client that reports its session and,
\* if it chooses, its info and its row.  The sender and, if routes changed, the
\* room are sent an update.
SyncRequest(p, withInfo, withRow) ==
    LET me       == client[p]
        session  == SessionChanged(p, me.sess)
        instance == withInfo /\ HasInfo(infos, p) /\ infos[p].inst # me.inst
        newInfo  == withInfo /\ (instance \/ me.ver > infos[p].ver)
        learned  == [infos EXCEPT ![p] = [inst |-> me.inst, ver |-> me.ver]]
        inf      == IF newInfo THEN learned ELSE infos
        stored   == IF withRow THEN StoreConnRows(p, inf) ELSE rows
        newRow   == stored # rows
        changed  == newRow \/ (newInfo /\ ~HasInfo(infos, p))
    IN  /\ Quiescent
        /\ p \in room
        /\ changed => topo < budget.topo
        /\ withRow => me.rowVer > 0
        /\ dst' = [dst EXCEPT ![p] = me.sess]
        /\ topoSeen' = IF session THEN [topoSeen EXCEPT ![p] = 0] ELSE topoSeen
        /\ saved' = [r \in Peer |-> [q \in Node |->
                        IF (session /\ r = p) \/ (instance /\ q = p) THEN 0 ELSE saved[r][q]]]
        /\ fresh' = {rq \in fresh : ~(session /\ rq[1] = p) /\ ~(instance /\ rq[2] = p)}
        /\ infos' = inf
        /\ rows' = stored
        /\ NoteTopologyChange(IF changed THEN 1 ELSE 0)
        /\ todo' = IF newInfo \/ newRow THEN room
                   ELSE IF session THEN {p} ELSE {}
        /\ UNCHANGED <<clientVars, room, peers, outstanding, pumpVars, closing, round, budget>>

\* sendRouteUpdate to one of the receivers of the handler in progress
SendRouteUpdate(p) ==
    /\ p \in todo
    /\ todo' = todo \ {p}
    /\ IF p \in inFlight
       THEN /\ dirty' = dirty \cup {p}
            /\ UNCHANGED <<inFlight, forceFull, outstanding, cache>>
       ELSE Flush(p, p \in forceFull)
    /\ UNCHANGED <<clientVars, room, groupVars, sessionVars, closing, round, budget>>

\* handle_response: on_route_session_ack and commit_route_update, then the
\* pump sends what became dirty meanwhile
Response(p) ==
    LET out     == outstanding[p]
        session == SessionChanged(p, out.sess)
        old(q)  == IF session THEN 0 ELSE saved[p][q]
        acked   == {q \in Node : out.vers[q] # NoInfo}
    IN  /\ Quiescent
        /\ p \in room
        /\ out.sess # 0
        /\ dst' = [dst EXCEPT ![p] = out.sess]
        /\ saved' = [saved EXCEPT ![p] = [q \in Node |->
                        IF q \in acked /\ out.vers[q].ver > old(q)
                        THEN out.vers[q].ver ELSE old(q)]]
        /\ fresh' = {rq \in fresh : ~(session /\ rq[1] = p)} \cup {<<p, q>> : q \in acked}
        /\ topoSeen' = [topoSeen EXCEPT ![p] =
                          LET seen == IF session THEN 0 ELSE @
                          IN  IF out.topo > seen THEN out.topo ELSE seen]
        /\ outstanding' = [outstanding EXCEPT ![p] = None]
        /\ inFlight' = inFlight \ {p}
        /\ todo' = IF p \in dirty \cup forceFull THEN {p} ELSE {}
        /\ UNCHANGED <<clientVars, room, groupVars, cache, dirty, forceFull, closing, round, budget>>

\* handle_response with an error from the client: the transaction is void
ErrorResponse(p) ==
    /\ Quiescent
    /\ p \in room
    /\ outstanding[p].sess # 0
    /\ outstanding' = [outstanding EXCEPT ![p] = None]
    /\ inFlight' = inFlight \ {p}
    /\ todo' = IF p \in dirty \cup forceFull THEN {p} ELSE {}
    /\ UNCHANGED <<clientVars, room, groupVars, cache, sessionVars, dirty, forceFull,
                   closing, round, budget>>

\* A response after its deadline, or clean_rpc_state in a build for another
\* peer: the transaction is gone while the pump still waits for it
DeadlinePassed(p) ==
    /\ Quiescent /\ Tick
    /\ outstanding[p] # None
    /\ outstanding' = [outstanding EXCEPT ![p] = None]
    /\ UNCHANGED <<clientVars, room, groupVars, cache, sessionVars, pumpVars, todo,
                   closing, round>>

\* Mutant: an update that was lost is never built again
CleanExpired_NoRetry(dead, purged, late) ==
    /\ Quiescent
    /\ IF dead \cup purged = {} THEN UNCHANGED budget ELSE Tick
    /\ dead \subseteq peers /\ late \subseteq inFlight
    /\ Sweep(dead, purged)
    /\ closing' = dead
    /\ round' = IF dead \cup purged = {} THEN "on" ELSE "changed"
    /\ UNCHANGED <<clientVars, room, pumpVars, outstanding, todo>>

\* cleanExpired: sweep_expired_route_info removes the silent direct peers
\* `dead' and the infos not renewed for 3660s, `purged'; then every update in
\* flight for too long (`late') is built again as a full one, for a dead peer
\* too: its connection is closed only afterwards
CleanExpired(dead, purged, late) ==
    /\ Quiescent
    /\ IF dead \cup purged = {} THEN UNCHANGED budget ELSE Tick
    /\ dead \subseteq peers /\ late \subseteq inFlight
    /\ purged \subseteq {q \in Peer \ dead : HasInfo(infos, q)}
    /\ purged # {} => topo < budget.topo
    /\ \A p \in inFlight \ late : outstanding[p] # None
    /\ Sweep(dead, purged)
    /\ closing' = dead
    /\ round' = IF dead \cup purged = {} THEN "on" ELSE "changed"
    /\ inFlight' = inFlight \ late
    /\ dirty' = dirty \cup late
    /\ forceFull' = forceFull \cup late
    /\ outstanding' = [p \in Peer |-> IF p \in late THEN None ELSE outstanding[p]]
    /\ todo' = late
    /\ UNCHANGED <<clientVars, room>>

\* The host closes the connection of a silent peer: a second remove_peer, then
\* a broadcast to the room
CloseSilent(p) ==
    /\ todo = {}
    /\ p \in closing
    /\ closing' = closing \ {p}
    /\ room' = room \ {p}
    /\ RemovePeer(p)
    /\ DropPump(p)
    /\ todo' = room \ {p}
    /\ ForgetView(p)
    /\ UNCHANGED <<client, round, budget>>

\* The end of the round: broadcast if routes changed, maintainPeer for the
\* peers that are `due'
MaintainPeers(due) ==
    /\ todo = {} /\ closing = {} /\ round # "off"
    /\ due \subseteq room \ inFlight
    /\ round' = "off"
    /\ todo' = IF round = "changed" THEN room ELSE due
    /\ UNCHANGED <<clientVars, room, groupVars, cache, sessionVars, outstanding, pumpVars,
                   closing, budget>>

\* A saved version, or the saved topology version, becomes 60s old
SavedExpires(p, q) ==
    /\ Quiescent /\ Tick
    /\ <<p, q>> \in fresh
    /\ fresh' = fresh \ {<<p, q>>}
    /\ UNCHANGED <<clientVars, room, groupVars, cache, dst, saved, topoSeen, outstanding,
                   pumpVars, todo, closing, round>>

TopologyExpires(p) ==
    /\ Quiescent /\ Tick
    /\ topoSeen[p] # 0
    /\ topoSeen' = [topoSeen EXCEPT ![p] = 0]
    /\ UNCHANGED <<clientVars, room, groupVars, cache, dst, saved, fresh, outstanding,
                   pumpVars, todo, closing, round>>

-----------------------------------------------------------------------------
(* The clients (external).                                                 *)

serverVars == <<room, groupVars, cache, sessionVars, pumpVars, todo, closing, round>>

\* A client applies the update in flight: infos it was sent replace what it had.
\* Its answer will name the session it is in now.
Deliver(p) ==
    /\ Quiescent
    /\ p \in room
    /\ outstanding[p] # None /\ outstanding[p].sess = 0
    /\ outstanding' = [outstanding EXCEPT ![p].sess = client[p].sess]
    /\ viewTopo' = IF outstanding[p].topo = 0 THEN viewTopo
                   ELSE [viewTopo EXCEPT ![p] = outstanding[p].topo]
    /\ view' = [view EXCEPT ![p] = [q \in Node |->
                    IF outstanding[p].vers[q] # NoInfo THEN outstanding[p].vers[q] ELSE @[q]]]
    /\ UNCHANGED <<client, serverVars, budget>>

\* A connected client changes its info, or its links other than
\* the one to the relay
ChangeInfo(p) ==
    /\ Quiescent
    /\ p \in room
    /\ Spend("ver")
    /\ client' = [client EXCEPT ![p].ver = @ + 1]
    /\ UNCHANGED <<view, viewTopo, serverVars, outstanding>>

ChangeLinks(p, others) ==
    /\ Quiescent
    /\ p \in room
    /\ Spend("row")
    /\ {Server} \cup others # client[p].links
    /\ client' = [client EXCEPT ![p].rowVer = @ + 1, ![p].links = {Server} \cup others]
    /\ UNCHANGED <<view, viewTopo, serverVars, outstanding>>

\* A disconnected client is restarted: new instance, versions start over
RestartClient(p) ==
    /\ Quiescent
    /\ p \notin room
    /\ Spend("inst")
    /\ client' = [client EXCEPT ![p] = NewClient(@.inst + 1, @.sess + 1)]
    /\ UNCHANGED <<view, viewTopo, serverVars, outstanding>>

\* A connected client loses its copy of the routes and starts a new session
NewSession(p) ==
    /\ Quiescent
    /\ p \in room
    /\ Spend("sess")
    /\ client' = [client EXCEPT ![p].sess = @ + 1]
    /\ ForgetView(p)
    /\ UNCHANGED <<serverVars, outstanding>>

-----------------------------------------------------------------------------
Init ==
    /\ budget \in Budgets
    /\ client = [p \in Peer |-> NewClient(1, 1)]
    /\ view = [p \in Peer |-> [q \in Node |-> NoInfo]]
    /\ viewTopo = [p \in Peer |-> 0]
    /\ room = {} /\ peers = {}
    /\ infos = [q \in Node |-> IF q = Server THEN [inst |-> 1, ver |-> 1] ELSE NoInfo]
    /\ rows = [q \in Node |-> NoRow]
    /\ topo = 1
    /\ cache = [f \in {"list", "bitmap"} |-> NoCache]
    /\ dst = [p \in Peer |-> 0]
    /\ saved = [p \in Peer |-> [q \in Node |-> 0]]
    /\ fresh = {}
    /\ topoSeen = [p \in Peer |-> 0]
    /\ outstanding = [p \in Peer |-> None]
    /\ inFlight = {} /\ dirty = {} /\ forceFull = {}
    /\ todo = {} /\ closing = {} /\ round = "off"

ClientNext ==
    \E p \in Peer :
        \/ Join(p) \/ Leave(p) \/ RestartClient(p) \/ NewSession(p) \/ ChangeInfo(p)
        \/ \E others \in SUBSET (Peer \ {p}) : ChangeLinks(p, others)
        \/ \E withInfo, withRow \in BOOLEAN : SyncRequest(p, withInfo, withRow)
        \/ Deliver(p) \/ Response(p) \/ ErrorResponse(p)

Clock ==
    \/ \E p \in Peer, q \in Node : SavedExpires(p, q)
    \/ \E p \in Peer : TopologyExpires(p) \/ DeadlinePassed(p)
    \/ \E dead \in SUBSET peers, purged \in SUBSET Peer, late \in SUBSET inFlight :
          CleanExpired(dead, purged, late)

Continue ==
    \/ \E p \in Peer : SendRouteUpdate(p) \/ CloseSilent(p)
    \/ \E due \in SUBSET room : MaintainPeers(due)

Next == ClientNext \/ Clock \/ Continue

Spec == Init /\ [][Next]_vars

\* Handlers end and maintenance rounds recur: a round finds every update that
\* lost its transaction late, and every idle peer is due again and again.  A
\* connected client applies what it receives, and again and again answers in
\* time without an error.
Fairness ==
    /\ WF_vars(Continue)
    /\ SF_vars(\E late \in SUBSET inFlight : CleanExpired({}, {}, late))
    /\ \A p \in Peer :
          /\ SF_vars(\E due \in SUBSET room : p \in due /\ MaintainPeers(due))
          /\ SF_vars(Deliver(p))
          /\ SF_vars(Response(p))

FairSpec == Spec /\ Fairness

-----------------------------------------------------------------------------
(* Properties.                                                             *)

\* The WASM core and the pump agree on what is in flight: a transaction that
\* can still be answered belongs to the update the pump waits for, so a late
\* answer to an update that was retried cannot complete the retry.
OutstandingInFlight ==
    \A p \in Peer : outstanding[p] # None => p \in inFlight /\ p \in room

\* A peer whose session says it has the current version of an info, in the
\* session the peer is in, has received that info: leaving it out of an
\* incremental update is harmless.
SavedInfoDelivered ==
    \A p \in room, q \in Node :
        /\ dst[p] = client[p].sess
        /\ q # p /\ HasInfo(infos, q)
        /\ q \notin Selected(p, FALSE)
        => view[p][q] = infos[q]

\* The same of the infos of the nodes that were never restarted.
SavedInfoOfRunningDelivered ==
    \A p \in room, q \in Node :
        /\ dst[p] = client[p].sess
        /\ q # p /\ HasInfo(infos, q) /\ infos[q].inst = 1
        /\ q \in Peer => client[q].inst = 1
        /\ q \notin Selected(p, FALSE)
        => view[p][q] = infos[q]

\* A peer whose session says it has the current topology, in the session the
\* peer is in, has received the rows of that topology.
SavedTopologyDelivered ==
    \A p \in room :
        dst[p] = client[p].sess /\ topoSeen[p] = topo => viewTopo[p] = topo

\* A snapshot cached for the current topology version is current: it has every
\* known node, with the row the relay holds now.
CacheCoherent ==
    \A f \in {"list", "bitmap"} :
        cache[f].ver = topo =>
            /\ Known \subseteq cache[f].members
            /\ \A q \in Known : cache[f].rows[q] = rows[q]

\* An update built for a connected peer names no node that the relay does not
\* know.
NoGhostSent ==
    \A p \in peers : outstanding[p].ghosts = {}

\* When the clients stop changing, every connected client ends up with the
\* current info of every other node and the current topology, although updates
\* and answers were lost, late or refused, infos changed while an older version
\* was in flight, and a client started a new session.
Converges ==
    <>[](\A p \in room :
            /\ viewTopo[p] = topo
            /\ \A q \in Node \ {p} : HasInfo(infos, q) => view[p][q] = infos[q])
=============================================================================
