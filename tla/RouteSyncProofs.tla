--------------------------- MODULE RouteSyncProofs ---------------------------
(***************************************************************************)
(* Proofs about route synchronisation: the pump and the transactions       *)
(* agree, a cached snapshot of the current topology is current, and what a *)
(* session has recorded as delivered was delivered.                        *)
(***************************************************************************)
EXTENDS RouteSync, TLAPS, FiniteSetTheorems

Formats   == {"list", "bitmap"}
Infos     == [inst : Nat, ver : Nat]
Rows      == [ver : Nat, links : SUBSET Node]
Clients   == [inst : Nat, ver : Nat, rowVer : Nat, links : SUBSET Node, sess : Nat]
Updates   == [vers : [Node -> Infos], topo : Nat, ghosts : SUBSET Node, sess : Nat, open : BOOLEAN]
Snapshots == [ver : Nat, members : SUBSET Node, rows : [Node -> Rows]]

\* The types of the variables of the clients, of RouteGroupData, of the
\* sessions, and of the pump and its handlers.
ClientType ==
    /\ client \in [Peer -> Clients]
    /\ view \in [Peer -> [Node -> Infos]]
    /\ viewTopo \in [Peer -> Nat]

GroupType ==
    /\ peers \in SUBSET Peer
    /\ infos \in [Node -> Infos]
    /\ rows \in [Node -> Rows]
    /\ topo \in Nat
    /\ cache \in [Formats -> Snapshots]

SessionType ==
    /\ dst \in [Peer -> Nat]
    /\ saved \in [Peer -> [Node -> Nat]]
    /\ topoSeen \in [Peer -> Nat]

PumpType ==
    /\ room \in SUBSET Peer
    /\ outstanding \in [Peer -> Updates]
    /\ inFlight \in SUBSET Peer /\ dirty \in SUBSET Peer /\ forceFull \in SUBSET Peer
    /\ todo \in SUBSET Peer /\ closing \in SUBSET Peer

TypeOK == ClientType /\ GroupType /\ SessionType /\ PumpType

\* Updates are for peers of the room.
PumpInv ==
    /\ inFlight \subseteq room /\ todo \subseteq room
    /\ \A p \in Peer : outstanding[p] # None => p \in inFlight

\* The relay's own row has its direct peers, and nobody has a row who is
\* neither a direct peer nor has an info.
RowInv ==
    /\ room \ closing \subseteq peers
    /\ rows[Server].links = peers
    /\ \A q \in Peer : rows[q] # NoRow => q \in peers \/ HasInfo(infos, q)

\* No snapshot is of a topology to come.
CacheInv ==
    /\ topo > 0
    /\ \A f \in Formats : cache[f].ver <= topo
    /\ CacheCoherent

\* Instances, versions and sessions are numbered from 1, and nobody names a
\* session to come.
SessionInv ==
    \A p \in Peer : /\ client[p].inst > 0 /\ client[p].ver > 0 /\ client[p].sess > 0
                    /\ dst[p] <= client[p].sess /\ outstanding[p].sess <= client[p].sess

\* What p's session has recorded of the topology, what an answer on its way
\* confirms and what an update carries is no newer than what the client was
\* sent, in the session the client is in.
TopologyOf(p) ==
    /\ topoSeen[p] <= topo /\ viewTopo[p] <= topo /\ outstanding[p].topo <= topo
    /\ outstanding[p].topo # 0 => topoSeen[p] <= outstanding[p].topo
    /\ dst[p] = client[p].sess => topoSeen[p] <= viewTopo[p]
    /\ outstanding[p].sess = client[p].sess => outstanding[p].topo <= viewTopo[p]

TopologyInv == \A p \in Peer : TopologyOf(p)

\* q is in its first instance, as the relay always is.
Running(q) == q \in Peer => client[q].inst = 1

\* i is an info that q has published in its first instance, or none.
FirstInfo(q, i) ==
    i = NoInfo \/ (i.inst = 1 /\ i.ver > 0 /\ (q \in Peer => i.ver <= client[q].ver))

\* The same of the info of q, which versions order while q runs.
InfoOf(p, q) ==
    /\ FirstInfo(q, view[p][q]) /\ FirstInfo(q, outstanding[p].vers[q])
    /\ HasInfo(infos, q) =>
          /\ saved[p][q] <= infos[q].ver /\ view[p][q].ver <= infos[q].ver
          /\ outstanding[p].vers[q].ver <= infos[q].ver
    /\ q \in Peer => saved[p][q] <= client[q].ver
    /\ outstanding[p].vers[q] # NoInfo => saved[p][q] <= outstanding[p].vers[q].ver
    /\ dst[p] = client[p].sess => saved[p][q] <= view[p][q].ver
    /\ outstanding[p].sess = client[p].sess => outstanding[p].vers[q].ver <= view[p][q].ver

InfoInv ==
    /\ HasInfo(infos, Server)
    /\ \A q \in Node : Running(q) =>
          FirstInfo(q, infos[q]) /\ \A p \in Peer : InfoOf(p, q)

Inv == TypeOK /\ PumpInv /\ RowInv /\ CacheInv /\ SessionInv /\ TopologyInv /\ InfoInv

-----------------------------------------------------------------------------
(* Records.                                                                *)

LEMMA Absent ==
    /\ NoInfo \in Infos /\ NoRow \in Rows /\ None \in Updates /\ NoCache \in Snapshots
    /\ None.topo = 0 /\ None.sess = 0 /\ NoCache.ver = 0 /\ NoInfo.ver = 0
    /\ \A q \in Node : None.vers[q] = NoInfo
<1>1. NoInfo \in Infos /\ NoRow \in Rows
  BY DEF NoInfo, NoRow, Infos, Rows
<1>2. [q \in Node |-> NoInfo] \in [Node -> Infos] /\ [q \in Node |-> NoRow] \in [Node -> Rows]
  BY <1>1
<1>3. None \in Updates /\ NoCache \in Snapshots
  BY <1>2 DEF None, NoCache, Updates, Snapshots
<1> QED
  BY <1>1, <1>3 DEF None, NoCache, NoInfo

LEMMA Fields ==
    /\ \A i \in Infos : i.inst \in Nat /\ i.ver \in Nat
    /\ \A i, j \in Infos : i.inst = j.inst /\ i.ver = j.ver => i = j
    /\ \A r \in Rows : r.ver \in Nat /\ r.links \in SUBSET Node
    /\ \A c \in Clients : c.inst \in Nat /\ c.ver \in Nat /\ c.rowVer \in Nat /\ c.sess \in Nat
                          /\ c.links \in SUBSET Node
    /\ \A u \in Updates : u.vers \in [Node -> Infos] /\ u.topo \in Nat /\ u.sess \in Nat
    /\ \A s \in Snapshots : s.ver \in Nat /\ s.members \in SUBSET Node /\ s.rows \in [Node -> Rows]
  BY DEF Infos, Rows, Clients, Updates, Snapshots

\* The numbers the invariants compare.
LEMMA Numbers ==
    ASSUME TypeOK
    PROVE  /\ topo \in Nat
           /\ \A p \in Peer :
                 /\ client[p].inst \in Nat /\ client[p].ver \in Nat /\ client[p].sess \in Nat
                 /\ dst[p] \in Nat /\ topoSeen[p] \in Nat /\ viewTopo[p] \in Nat
                 /\ outstanding[p].topo \in Nat /\ outstanding[p].sess \in Nat
           /\ \A q \in Node : infos[q] \in Infos /\ infos[q].ver \in Nat
           /\ \A p \in Peer, q \in Node :
                 /\ saved[p][q] \in Nat
                 /\ view[p][q] \in Infos /\ view[p][q].ver \in Nat
                 /\ outstanding[p].vers[q] \in Infos /\ outstanding[p].vers[q].ver \in Nat
<1> USE DEF TypeOK, ClientType, GroupType, SessionType, PumpType
<1>1. \A p \in Peer : client[p] \in Clients /\ outstanding[p] \in Updates
  OBVIOUS
<1>2. \A p \in Peer : outstanding[p].vers \in [Node -> Infos]
  BY <1>1, Fields
<1>3. \A p \in Peer, q \in Node : outstanding[p].vers[q] \in Infos /\ view[p][q] \in Infos
  BY <1>2
<1>4. \A q \in Node : infos[q] \in Infos
  OBVIOUS
<1>5. topo \in Nat /\ \A p \in Peer : dst[p] \in Nat /\ topoSeen[p] \in Nat /\ viewTopo[p] \in Nat
  OBVIOUS
<1>6. \A p \in Peer, q \in Node : saved[p][q] \in Nat
  OBVIOUS
<1> HIDE DEF TypeOK, ClientType, GroupType, SessionType, PumpType
<1> QED
  BY <1>1, <1>3, <1>4, <1>5, <1>6, Fields

-----------------------------------------------------------------------------
(* Steps that only forget.                                                 *)

\* Transactions, sessions, infos and views are dropped, nothing else.
Forgets ==
    /\ client' = client /\ topo' \in Nat /\ topo <= topo'
    /\ \A q \in Node : infos'[q] = infos[q] \/ (infos'[q] = NoInfo /\ q # Server)
    /\ \A p \in Peer :
          /\ outstanding'[p] = outstanding[p] \/ outstanding'[p] = None
          /\ dst'[p] = dst[p] \/ dst'[p] = 0
          /\ topoSeen'[p] = topoSeen[p] \/ topoSeen'[p] = 0
          /\ \A q \in Node : saved'[p][q] = saved[p][q] \/ saved'[p][q] = 0
          /\ \/ viewTopo'[p] = viewTopo[p] /\ view'[p] = view[p]
             \/ /\ viewTopo'[p] = 0 /\ \A q \in Node : view'[p][q] = NoInfo
                /\ dst'[p] = 0 /\ outstanding'[p] = None

LEMMA ForgetsTopology ==
    ASSUME TypeOK, SessionInv, TopologyInv, Forgets
    PROVE  SessionInv' /\ TopologyInv'
<1>1. SessionInv'
  BY Absent, Numbers DEF SessionInv, Forgets
<1>2. ASSUME NEW p \in Peer
      PROVE  TopologyOf(p)'
  <2> DEFINE out == outstanding[p]
  <2>1. TopologyOf(p) /\ client[p].sess > 0 /\ client'[p] = client[p]
    BY DEF TopologyInv, SessionInv, Forgets
  <2>2. /\ topoSeen'[p] <= topoSeen[p] /\ topoSeen'[p] \in Nat
        /\ viewTopo'[p] <= viewTopo[p] /\ viewTopo'[p] \in Nat
        /\ outstanding'[p].topo <= out.topo /\ outstanding'[p].topo \in Nat
        /\ topo' \in Nat /\ topo <= topo'
    BY Numbers, Absent DEF Forgets
  <2>3. /\ topoSeen'[p] <= topo' /\ viewTopo'[p] <= topo' /\ outstanding'[p].topo <= topo'
    BY <2>1, <2>2, Numbers DEF TopologyOf
  <2>4. outstanding'[p].topo # 0 => topoSeen'[p] <= outstanding'[p].topo
    BY <2>1, <2>2, Numbers, Absent DEF TopologyOf, Forgets
  <2>5. dst'[p] = client'[p].sess => topoSeen'[p] <= viewTopo'[p]
    BY <2>1, <2>2, Numbers, Absent DEF TopologyOf, Forgets
  <2>6. outstanding'[p].sess = client'[p].sess => outstanding'[p].topo <= viewTopo'[p]
    BY <2>1, <2>2, Numbers, Absent DEF TopologyOf, Forgets
  <2> QED
    BY <2>3, <2>4, <2>5, <2>6 DEF TopologyOf
<1> QED
  BY <1>1, <1>2 DEF TopologyInv

LEMMA ForgetsInfo ==
    ASSUME TypeOK, SessionInv, InfoInv, Forgets
    PROVE  InfoInv'
<1>1. HasInfo(infos, Server)'
  BY DEF InfoInv, Forgets, HasInfo, Node
<1>2. ASSUME NEW q \in Node, Running(q)'
      PROVE  FirstInfo(q, infos[q])' /\ \A p \in Peer : InfoOf(p, q)'
  <2>1. Running(q) /\ FirstInfo(q, infos[q]) /\ \A p \in Peer : InfoOf(p, q)
    BY <1>2 DEF Running, InfoInv, Forgets
  <2>2. FirstInfo(q, infos[q])'
    BY <2>1 DEF FirstInfo, Forgets
  <2>3. ASSUME NEW p \in Peer
        PROVE  InfoOf(p, q)'
    <3>1. InfoOf(p, q) /\ client'[p] = client[p] /\ client[p].sess > 0
      BY <2>1 DEF Forgets, SessionInv
    <3>2. /\ view'[p][q] = view[p][q] \/ (view'[p][q] = NoInfo /\ dst'[p] = 0 /\ outstanding'[p] = None)
          /\ outstanding'[p] = outstanding[p] \/ outstanding'[p] = None
          /\ saved'[p][q] = saved[p][q] \/ saved'[p][q] = 0
          /\ dst'[p] = dst[p] \/ dst'[p] = 0
          /\ infos'[q] = infos[q] \/ infos'[q] = NoInfo
      BY DEF Forgets
    <3>3. /\ saved'[p][q] <= saved[p][q] /\ saved'[p][q] \in Nat
          /\ view'[p][q].ver <= view[p][q].ver /\ view'[p][q].ver \in Nat
          /\ outstanding'[p].vers[q].ver <= outstanding[p].vers[q].ver
          /\ outstanding'[p].vers[q].ver \in Nat
      BY <3>2, Numbers, Absent
    <3>4. FirstInfo(q, view[p][q])' /\ FirstInfo(q, outstanding[p].vers[q])'
      BY <3>1, <3>2, Absent DEF InfoOf, FirstInfo, Forgets
    <3>5. HasInfo(infos, q)' => /\ saved'[p][q] <= infos'[q].ver /\ view'[p][q].ver <= infos'[q].ver
                                /\ outstanding'[p].vers[q].ver <= infos'[q].ver
      BY <3>1, <3>2, <3>3, Numbers DEF InfoOf, HasInfo
    <3>6. q \in Peer => saved'[p][q] <= client'[q].ver
      BY <3>1, <3>3, Numbers DEF InfoOf, Forgets
    <3>7. outstanding'[p].vers[q] # NoInfo => saved'[p][q] <= outstanding'[p].vers[q].ver
      BY <3>1, <3>2, <3>3, Numbers, Absent DEF InfoOf
    <3>8. dst'[p] = client'[p].sess => saved'[p][q] <= view'[p][q].ver
      BY <3>1, <3>2, <3>3, Numbers DEF InfoOf
    <3>9. outstanding'[p].sess = client'[p].sess => outstanding'[p].vers[q].ver <= view'[p][q].ver
      BY <3>1, <3>2, <3>3, Numbers, Absent DEF InfoOf
    <3> QED
      BY <3>4, <3>5, <3>6, <3>7, <3>8, <3>9 DEF InfoOf
  <2> QED
    BY <2>2, <2>3
<1> QED
  BY <1>1, <1>2 DEF InfoInv

-----------------------------------------------------------------------------
(* The route state.                                                        *)

\* A change of the topology empties the cache; without one, the cache is right
\* as long as the nodes known and their rows are.
LEMMA NoteTopologyChangeCache ==
    ASSUME TypeOK, CacheInv, NEW STATE n, n \in Nat, NoteTopologyChange(n),
           n = 0 => Known' = Known /\ \A q \in Known : rows'[q] = rows[q]
    PROVE  /\ CacheInv'
           /\ topo' \in Nat /\ topo <= topo'
           /\ cache' \in [Formats -> Snapshots]
<1>1. topo \in Nat /\ topo > 0 /\ topo' = topo + n
  BY DEF TypeOK, GroupType, CacheInv, NoteTopologyChange
<1>2. CASE n = 0
  <2>1. topo' = topo /\ cache' = cache
    BY <1>1, <1>2 DEF NoteTopologyChange
  <2> QED
    BY <1>1, <1>2, <2>1 DEF CacheInv, CacheCoherent, TypeOK, GroupType
<1>3. CASE n # 0
  <2>1. cache' = [f \in Formats |-> NoCache]
    BY <1>3 DEF NoteTopologyChange, Formats
  <2>2. \A f \in Formats : cache'[f].ver = 0
    BY <2>1, Absent
  <2> QED
    BY <1>1, <1>3, <2>1, <2>2, Absent DEF CacheInv, CacheCoherent, Formats
<1> QED
  BY <1>2, <1>3

\* sweep_expired_route_info and remove_peer only forget, and note a change
\* whenever what a snapshot holds changed: a peer without an info that was not
\* connected had no row.
LEMMA SweepFacts ==
    ASSUME TypeOK, RowInv, CacheInv, NEW STATE dead, dead \subseteq Peer,
           NEW STATE purged, purged \subseteq Peer, Sweep(dead, purged)
    PROVE  /\ GroupType' /\ SessionType' /\ CacheInv'
           /\ peers' = peers \ dead /\ rows'[Server].links = peers'
           /\ \A q \in Peer : rows'[q] # NoRow => q \in peers' \/ HasInfo(infos', q)
           /\ topo <= topo'
           /\ \A q \in Node : infos'[q] = infos[q] \/ (infos'[q] = NoInfo /\ q # Server)
           /\ \A p \in Peer :
                 /\ dst'[p] = dst[p] \/ dst'[p] = 0
                 /\ p \in dead => dst'[p] = 0
                 /\ topoSeen'[p] = topoSeen[p] \/ topoSeen'[p] = 0
                 /\ \A q \in Node : saved'[p][q] = saved[p][q] \/ saved'[p][q] = 0
<1> DEFINE gone   == dead \cup purged
           heard  == {p \in dead : p \in peers \/ HasInfo(infos, p)}
           bumps  == Cardinality(heard) + (IF purged = {} THEN 0 ELSE 1)
           kept   == [q \in Node |-> IF q \in gone THEN NoRow ELSE rows[q]]
           own    == [ver   |-> kept[Server].ver + Cardinality(dead \cap peers),
                      links |-> kept[Server].links \ dead]
<1>1. /\ Server \notin gone /\ Server \in Node /\ Peer \subseteq Node /\ Server \notin Peer
  BY RouteAssumption DEF Node
<1>2. /\ IsFiniteSet(dead) /\ IsFiniteSet(heard) /\ IsFiniteSet(dead \cap peers)
  <2>1. dead \subseteq Peer /\ heard \subseteq Peer /\ dead \cap peers \subseteq Peer /\ IsFiniteSet(Peer)
    BY RouteAssumption
  <2> QED
    BY <2>1, FS_Subset
<1>3. Cardinality(heard) \in Nat /\ Cardinality(dead \cap peers) \in Nat
  BY <1>2, FS_CardinalityType
<1>4. bumps \in Nat /\ (bumps = 0 => heard = {} /\ purged = {} /\ Cardinality(heard) = 0)
  <2> HIDE DEF heard
  <2>1. Cardinality(heard) = 0 => heard = {}
    BY <1>2, FS_EmptySet
  <2> QED
    BY <1>3, <2>1
<1>5. /\ peers' = peers \ dead
      /\ infos' = [q \in Node |-> IF q \in gone THEN NoInfo ELSE infos[q]]
      /\ rows' = [kept EXCEPT ![Server] = own]
      /\ dst' = [p \in Peer |-> IF p \in dead THEN 0 ELSE dst[p]]
      /\ saved' = [p \in Peer |-> [q \in Node |->
                        IF p \in dead \/ q \in gone THEN 0 ELSE saved[p][q]]]
      /\ topoSeen' = IF gone = {} THEN topoSeen ELSE [p \in Peer |-> 0]
      /\ NoteTopologyChange(bumps)
  BY DEF Sweep
<1>6. /\ infos \in [Node -> Infos] /\ rows \in [Node -> Rows] /\ peers \subseteq Peer
      /\ dst \in [Peer -> Nat] /\ saved \in [Peer -> [Node -> Nat]] /\ topoSeen \in [Peer -> Nat]
  BY DEF TypeOK, GroupType, SessionType
<1>7. own \in Rows /\ kept \in [Node -> Rows] /\ kept[Server] = rows[Server]
  <2>1. kept \in [Node -> Rows] /\ kept[Server] = rows[Server] /\ rows[Server] \in Rows
    BY <1>1, <1>6, Absent
  <2>2. rows[Server].ver + Cardinality(dead \cap peers) \in Nat
        /\ rows[Server].links \ dead \in SUBSET Node
    BY <2>1, <1>3, Fields
  <2> QED
    BY <2>1, <2>2 DEF Rows
<1>8. /\ rows' \in [Node -> Rows] /\ rows'[Server] = own
      /\ \A q \in Peer : rows'[q] = IF q \in gone THEN NoRow ELSE rows[q]
  <2> HIDE DEF own
  <2> QED
    BY <1>1, <1>5, <1>7
<1>9. rows'[Server].links = peers'
  BY <1>5, <1>7, <1>8 DEF RowInv
<1>10. \A q \in Peer : rows'[q] # NoRow => q \in peers' \/ HasInfo(infos', q)
  BY <1>1, <1>5, <1>8 DEF RowInv, HasInfo
<1>11. ASSUME bumps = 0
       PROVE  peers' = peers /\ infos' = infos /\ rows' = rows
  <2>1. \A p \in dead : p \notin peers /\ ~HasInfo(infos, p) /\ rows[p] = NoRow
    BY <1>4, <1>11 DEF RowInv
  <2>2. purged = {} /\ dead \cap peers = {} /\ peers' = peers
    BY <1>4, <1>5, <1>11, <2>1
  <2>3. infos' = infos
    BY <1>5, <1>6, <2>1, <2>2 DEF HasInfo
  <2>4. kept = rows
    BY <1>6, <2>1, <2>2
  <2>5. own = rows[Server]
    <3>1. Cardinality(dead \cap peers) = 0
      BY <2>2, FS_EmptySet
    <3>2. rows[Server] \in Rows /\ rows[Server].links \ dead = rows[Server].links
      BY <1>1, <1>6, <2>2 DEF RowInv
    <3>3. own = [ver |-> rows[Server].ver + 0, links |-> rows[Server].links]
      BY <1>7, <3>1, <3>2
    <3>4. rows[Server] = [ver |-> rows[Server].ver, links |-> rows[Server].links]
          /\ rows[Server].ver + 0 = rows[Server].ver
      BY <3>2 DEF Rows
    <3> QED
      BY <3>3, <3>4
  <2> HIDE DEF own, kept
  <2> QED
    BY <1>1, <1>5, <1>6, <2>2, <2>3, <2>4, <2>5
<1>12. bumps = 0 => Known' = Known /\ \A q \in Known : rows'[q] = rows[q]
  BY <1>11 DEF Known, HasInfo
<1> HIDE DEF bumps
<1>13. CacheInv' /\ topo' \in Nat /\ topo <= topo' /\ cache' \in [Formats -> Snapshots]
  BY <1>4, <1>5, <1>12, NoteTopologyChangeCache
<1>14. infos' \in [Node -> Infos] /\ peers' \subseteq Peer
  BY <1>5, <1>6, Absent
<1>15. SessionType'
  <2>1. dst' \in [Peer -> Nat] /\ topoSeen' \in [Peer -> Nat]
    BY <1>5, <1>6
  <2>2. saved' \in [Peer -> [Node -> Nat]]
    BY <1>5, <1>6
  <2> QED
    BY <2>1, <2>2 DEF SessionType
<1>16. \A q \in Node : infos'[q] = infos[q] \/ (infos'[q] = NoInfo /\ q # Server)
  BY <1>1, <1>5
<1>17. \A p \in Peer : /\ dst'[p] = dst[p] \/ dst'[p] = 0
                       /\ p \in dead => dst'[p] = 0
                       /\ topoSeen'[p] = topoSeen[p] \/ topoSeen'[p] = 0
                       /\ \A q \in Node : saved'[p][q] = saved[p][q] \/ saved'[p][q] = 0
  BY <1>5
<1> QED
  BY <1>5, <1>8, <1>9, <1>10, <1>13, <1>14, <1>15, <1>16, <1>17 DEF GroupType

\* rpc.removePeer and addPeer drop the peer's transaction.
LEMMA DropPumpFacts ==
    ASSUME TypeOK, PumpInv, NEW STATE p, p \in Peer, DropPump(p)
    PROVE  /\ outstanding' \in [Peer -> Updates] /\ outstanding'[p] = None
           /\ \A r \in Peer : outstanding'[r] = outstanding[r] \/ outstanding'[r] = None
           /\ \A r \in Peer : outstanding'[r] # None => r \in inFlight'
           /\ inFlight' = inFlight \ {p} /\ dirty' \subseteq Peer /\ forceFull' \subseteq Peer
<1>1. outstanding \in [Peer -> Updates] /\ None \in Updates /\ outstanding' = [outstanding EXCEPT ![p] = None]
  BY Absent DEF TypeOK, PumpType, DropPump
<1>2. outstanding' \in [Peer -> Updates] /\ outstanding'[p] = None
      /\ \A r \in Peer : r # p => outstanding'[r] = outstanding[r]
  BY <1>1
<1> QED
  BY <1>2 DEF DropPump, PumpInv, TypeOK, PumpType

\* A step that only forgets, leaves the clients' types and keeps the rest.
LEMMA ForgetsStep ==
    ASSUME Inv, Forgets, TypeOK', PumpInv', RowInv', CacheInv'
    PROVE  Inv'
  BY ForgetsTopology, ForgetsInfo DEF Inv

\* Unless the group changes, neither its rows nor its cache do.
LEMMA GroupUnchanged ==
    ASSUME RowInv, CacheInv, UNCHANGED <<groupVars, cache>>, room' \ closing' \subseteq peers
    PROVE  RowInv' /\ CacheInv'
<1>1. peers' = peers /\ infos' = infos /\ rows' = rows /\ topo' = topo /\ cache' = cache
  BY DEF groupVars
<1>2. RowInv'
  BY <1>1 DEF RowInv, HasInfo
<1>3. Known' = Known
  BY <1>1 DEF Known, HasInfo
<1> QED
  BY <1>1, <1>2, <1>3 DEF CacheInv, CacheCoherent

-----------------------------------------------------------------------------
(* The actions that only forget.                                           *)

LEMMA JoinStep == ASSUME Inv, NEW p \in Peer, Join(p) PROVE Inv'
<1>1. TypeOK /\ PumpInv /\ RowInv /\ CacheInv /\ closing = {} /\ p \notin room /\ Server \notin Peer /\ DropPump(p)
  BY RouteAssumption DEF Inv, Join, Quiescent
<1>2. /\ room' = room \cup {p} /\ peers' = peers \cup {p} /\ todo' = room \cup {p}
      /\ UNCHANGED <<client, view, viewTopo, infos, dst, saved, topoSeen, closing>>
  BY DEF Join, clientVars, sessionVars
<1>3. /\ rows' \in [Node -> Rows] /\ rows'[Server].links = peers'
      /\ \A q \in Peer : rows'[q] = rows[q]
      /\ CacheInv' /\ topo' \in Nat /\ topo <= topo' /\ cache' \in [Formats -> Snapshots]
  <2>0. rows \in [Node -> Rows] /\ Server \in Node /\ Peer \subseteq Node /\ peers \subseteq Peer
        /\ topo \in Nat /\ cache \in [Formats -> Snapshots]
    BY <1>1 DEF TypeOK, GroupType, Node
  <2>1. CASE p \in peers
    <3>1. peers' = peers /\ UNCHANGED <<rows, topo, cache>>
      BY <1>2, <2>1 DEF Join
    <3>2. Known' = Known
      BY <3>1, <1>2 DEF Known, HasInfo
    <3> QED
      BY <1>1, <2>0, <3>1, <3>2 DEF RowInv, CacheInv, CacheCoherent
  <2>2. CASE p \notin peers
    <3>1. rows' = UpdateMyConnRow(rows, peers') /\ NoteTopologyChange(1)
      BY <1>2, <2>2 DEF Join
    <3> DEFINE own == [ver |-> rows[Server].ver + 1, links |-> peers']
    <3>2. own \in Rows
      <4>1. rows[Server] \in Rows /\ peers' \in SUBSET Node
        BY <1>2, <2>0
      <4>2. rows[Server].ver + 1 \in Nat
        BY <4>1, Fields
      <4> QED
        BY <4>1, <4>2 DEF Rows
    <3>3. rows[Server].links # peers'
      BY <1>1, <1>2, <2>2 DEF RowInv
    <3>4. rows' = [rows EXCEPT ![Server] = own]
      BY <3>1, <3>3 DEF UpdateMyConnRow
    <3>5. rows' \in [Node -> Rows] /\ rows'[Server] = own /\ \A q \in Peer : rows'[q] = rows[q]
      <4> HIDE DEF own
      <4> QED
        BY <1>1, <2>0, <3>2, <3>4
    <3>6. CacheInv' /\ topo' \in Nat /\ topo <= topo' /\ cache' \in [Formats -> Snapshots]
      BY <1>1, <3>1, NoteTopologyChangeCache
    <3> QED
      BY <3>5, <3>6
  <2> QED
    BY <2>1, <2>2
<1>4. RowInv'
  BY <1>1, <1>2, <1>3 DEF RowInv, HasInfo
<1>5. PumpInv'
  BY <1>1, <1>2, DropPumpFacts DEF PumpInv
<1>6. TypeOK'
  BY <1>1, <1>2, <1>3, DropPumpFacts DEF TypeOK, ClientType, GroupType, SessionType, PumpType
<1>7. Forgets
  BY <1>1, <1>2, <1>3, DropPumpFacts DEF Forgets
<1> QED
  BY <1>3, <1>4, <1>5, <1>6, <1>7, ForgetsStep

\* remove_peer, the end of the connection and the broadcast that follows.
LEMMA RemoveStep ==
    ASSUME Inv, NEW p \in Peer, RemovePeer(p), DropPump(p), ForgetView(p),
           room' = room \ {p}, todo' = room \ {p}, client' = client, closing' = closing \ {p}
    PROVE  Inv'
<1>1. TypeOK /\ PumpInv /\ RowInv /\ CacheInv
  BY DEF Inv
<1> DEFINE dead == {p}
           purged == {}
<1>2. Sweep(dead, purged) /\ dead \subseteq Peer /\ purged \subseteq Peer
  BY DEF RemovePeer
<1>3. /\ GroupType' /\ SessionType' /\ CacheInv'
      /\ peers' = peers \ dead /\ rows'[Server].links = peers'
      /\ \A q \in Peer : rows'[q] # NoRow => q \in peers' \/ HasInfo(infos', q)
      /\ topo <= topo'
      /\ \A q \in Node : infos'[q] = infos[q] \/ (infos'[q] = NoInfo /\ q # Server)
      /\ \A r \in Peer :
            /\ dst'[r] = dst[r] \/ dst'[r] = 0
            /\ r \in dead => dst'[r] = 0
            /\ topoSeen'[r] = topoSeen[r] \/ topoSeen'[r] = 0
            /\ \A q \in Node : saved'[r][q] = saved[r][q] \/ saved'[r][q] = 0
  <2> HIDE DEF dead, purged
  <2> QED
    BY <1>1, <1>2, SweepFacts
<1>4. /\ view' \in [Peer -> [Node -> Infos]] /\ viewTopo' \in [Peer -> Nat]
      /\ viewTopo'[p] = 0 /\ \A q \in Node : view'[p][q] = NoInfo
      /\ \A r \in Peer : r # p => viewTopo'[r] = viewTopo[r] /\ view'[r] = view[r]
  <2>1. [q \in Node |-> NoInfo] \in [Node -> Infos]
    BY Absent
  <2> QED
    BY <1>1, <2>1 DEF ForgetView, TypeOK, ClientType
<1>5. RowInv'
  BY <1>1, <1>3 DEF RowInv, HasInfo
<1>6. PumpInv'
  BY <1>1, DropPumpFacts DEF PumpInv
<1>7. TypeOK'
  BY <1>1, <1>3, <1>4, DropPumpFacts DEF TypeOK, ClientType, PumpType
<1>8. Forgets
  BY <1>1, <1>3, <1>4, DropPumpFacts DEF Forgets, GroupType
<1> QED
  BY <1>3, <1>5, <1>6, <1>7, <1>8, ForgetsStep

LEMMA LeaveStep == ASSUME Inv, NEW p \in Peer, Leave(p) PROVE Inv'
  BY RemoveStep DEF Leave, Quiescent

LEMMA CloseSilentStep == ASSUME Inv, NEW p \in Peer, CloseSilent(p) PROVE Inv'
  BY RemoveStep DEF CloseSilent

LEMMA CleanExpiredStep ==
    ASSUME Inv, NEW dead \in SUBSET peers, NEW purged \in SUBSET Peer, NEW late \in SUBSET inFlight,
           CleanExpired(dead, purged, late)
    PROVE  Inv'
<1>1. TypeOK /\ PumpInv /\ RowInv /\ CacheInv /\ closing = {} /\ dead \subseteq Peer
  BY DEF Inv, TypeOK, GroupType, CleanExpired, Quiescent
<1>2. /\ Sweep(dead, purged) /\ closing' = dead
      /\ inFlight' = inFlight \ late /\ dirty' = dirty \cup late /\ forceFull' = forceFull \cup late
      /\ outstanding' = [p \in Peer |-> IF p \in late THEN None ELSE outstanding[p]]
      /\ todo' = late /\ UNCHANGED <<client, view, viewTopo, room>>
  BY DEF CleanExpired, clientVars
<1>3. /\ GroupType' /\ SessionType' /\ CacheInv'
      /\ peers' = peers \ dead /\ rows'[Server].links = peers'
      /\ \A q \in Peer : rows'[q] # NoRow => q \in peers' \/ HasInfo(infos', q)
      /\ topo <= topo'
      /\ \A q \in Node : infos'[q] = infos[q] \/ (infos'[q] = NoInfo /\ q # Server)
      /\ \A r \in Peer :
            /\ dst'[r] = dst[r] \/ dst'[r] = 0
            /\ topoSeen'[r] = topoSeen[r] \/ topoSeen'[r] = 0
            /\ \A q \in Node : saved'[r][q] = saved[r][q] \/ saved'[r][q] = 0
  BY <1>1, <1>2, SweepFacts
<1>4. /\ outstanding' \in [Peer -> Updates]
      /\ \A r \in Peer : outstanding'[r] = outstanding[r] \/ outstanding'[r] = None
      /\ \A r \in Peer : outstanding'[r] # None => r \in inFlight'
  BY <1>1, <1>2, Absent DEF TypeOK, PumpType, PumpInv
<1>5. RowInv'
  BY <1>1, <1>2, <1>3 DEF RowInv, HasInfo
<1>6. PumpInv'
  BY <1>1, <1>2, <1>4 DEF PumpInv
<1>7. TypeOK'
  BY <1>1, <1>2, <1>3, <1>4 DEF TypeOK, ClientType, PumpType
<1>8. Forgets
  BY <1>1, <1>2, <1>3, <1>4 DEF Forgets, GroupType
<1> QED
  BY <1>3, <1>5, <1>6, <1>7, <1>8, ForgetsStep

\* The transaction of p ends without an effect on its session.
LEMMA VoidStep ==
    ASSUME Inv, NEW p \in Peer, outstanding' = [outstanding EXCEPT ![p] = None],
           UNCHANGED <<clientVars, room, groupVars, cache, sessionVars, dirty, forceFull, closing>>,
           inFlight' = inFlight \/ inFlight' = inFlight \ {p},
           todo' \subseteq room
    PROVE  Inv'
<1>1. TypeOK /\ PumpInv /\ RowInv /\ CacheInv
  BY DEF Inv
<1>2. /\ UNCHANGED <<client, view, viewTopo, room, peers, infos, rows, topo, cache>>
      /\ UNCHANGED <<dst, saved, topoSeen, dirty, forceFull, closing>>
  BY DEF clientVars, groupVars, sessionVars
<1>3. /\ outstanding' \in [Peer -> Updates] /\ outstanding'[p] = None
      /\ \A r \in Peer : r # p => outstanding'[r] = outstanding[r]
  BY <1>1, Absent DEF TypeOK, PumpType
<1>4. RowInv' /\ CacheInv'
  BY <1>1, <1>2, GroupUnchanged DEF RowInv
<1>5. PumpInv'
  BY <1>1, <1>2, <1>3 DEF PumpInv
<1>6. TypeOK'
  BY <1>1, <1>2, <1>3 DEF TypeOK, ClientType, GroupType, SessionType, PumpType
<1>7. Forgets
  BY <1>1, <1>2, <1>3 DEF Forgets, TypeOK, GroupType
<1> QED
  BY <1>4, <1>5, <1>6, <1>7, ForgetsStep

LEMMA ErrorResponseStep == ASSUME Inv, NEW p \in Peer, ErrorResponse(p) PROVE Inv'
  BY VoidStep DEF ErrorResponse

LEMMA DeadlinePassedStep == ASSUME Inv, NEW p \in Peer, DeadlinePassed(p) PROVE Inv'
<1>1. todo' \subseteq room /\ UNCHANGED <<inFlight, dirty, forceFull>>
  BY DEF DeadlinePassed, pumpVars, Inv, PumpInv
<1> QED
  BY <1>1, VoidStep DEF DeadlinePassed

\* Neither transactions nor rows change; a session may forget the topology.
LEMMA QuietStep ==
    ASSUME Inv, UNCHANGED <<clientVars, room, groupVars, cache, dst, saved, outstanding, pumpVars, closing>>,
           todo' \subseteq room,
           topoSeen' \in [Peer -> Nat], \A p \in Peer : topoSeen'[p] = topoSeen[p] \/ topoSeen'[p] = 0
    PROVE  Inv'
<1>1. TypeOK /\ PumpInv /\ RowInv /\ CacheInv
  BY DEF Inv
<1>2. /\ UNCHANGED <<client, view, viewTopo, room, peers, infos, rows, topo, cache>>
      /\ UNCHANGED <<dst, saved, outstanding, inFlight, dirty, forceFull, closing>>
  BY DEF clientVars, groupVars, pumpVars
<1>3. RowInv' /\ CacheInv'
  BY <1>1, <1>2, GroupUnchanged DEF RowInv
<1>4. PumpInv'
  BY <1>1, <1>2 DEF PumpInv
<1>5. TypeOK'
  BY <1>1, <1>2 DEF TypeOK, ClientType, GroupType, SessionType, PumpType
<1>6. Forgets
  BY <1>1, <1>2 DEF Forgets, TypeOK, GroupType
<1> QED
  BY <1>3, <1>4, <1>5, <1>6, ForgetsStep

LEMMA MaintainPeersStep == ASSUME Inv, NEW due \in SUBSET room, MaintainPeers(due) PROVE Inv'
<1>1. topoSeen' = topoSeen /\ dst' = dst /\ saved' = saved /\ topoSeen \in [Peer -> Nat]
  BY DEF MaintainPeers, sessionVars, Inv, TypeOK, SessionType
<1> QED
  BY <1>1, QuietStep DEF MaintainPeers

LEMMA SavedExpiresStep == ASSUME Inv, NEW p \in Peer, NEW q \in Node, SavedExpires(p, q) PROVE Inv'
<1>1. todo' \subseteq room /\ topoSeen' = topoSeen /\ topoSeen \in [Peer -> Nat]
  BY DEF SavedExpires, Inv, PumpInv, TypeOK, SessionType
<1> QED
  BY <1>1, QuietStep DEF SavedExpires

LEMMA TopologyExpiresStep == ASSUME Inv, NEW p \in Peer, TopologyExpires(p) PROVE Inv'
<1>1. todo' \subseteq room /\ topoSeen' = [topoSeen EXCEPT ![p] = 0] /\ topoSeen \in [Peer -> Nat]
  BY DEF TopologyExpires, Inv, PumpInv, TypeOK, SessionType
<1> QED
  BY <1>1, QuietStep DEF TopologyExpires

-----------------------------------------------------------------------------
(* The clients.                                                            *)

\* A client becomes c: in the same instance its versions grow, and in the same
\* session it keeps its copy of the routes.
ClientBecomes(p, c) ==
    /\ c \in Clients /\ c.ver > 0 /\ c.inst > 0
    /\ client' = [client EXCEPT ![p] = c]
    /\ \/ c.inst = client[p].inst /\ client[p].ver <= c.ver
       \/ c.inst > client[p].inst
    /\ client[p].sess <= c.sess
    /\ \/ view' = view /\ viewTopo' = viewTopo
       \/ ForgetView(p) /\ client[p].sess < c.sess
    /\ UNCHANGED <<serverVars, outstanding>>

LEMMA ClientStep ==
    ASSUME Inv, NEW p \in Peer, NEW STATE c, ClientBecomes(p, c)
    PROVE  Inv'
<1>1. TypeOK /\ PumpInv /\ RowInv /\ CacheInv /\ SessionInv /\ TopologyInv /\ InfoInv
  BY DEF Inv
<1>2. /\ UNCHANGED <<room, peers, infos, rows, topo, cache>>
      /\ UNCHANGED <<dst, saved, topoSeen, outstanding, inFlight, dirty, forceFull, todo, closing>>
  BY DEF ClientBecomes, serverVars, groupVars, sessionVars, pumpVars
<1>3. /\ client' \in [Peer -> Clients] /\ client'[p] = c
      /\ \A r \in Peer : r # p => client'[r] = client[r]
      /\ client[p] \in Clients
  BY <1>1 DEF ClientBecomes, TypeOK, ClientType
<1>4. /\ c.ver \in Nat /\ c.inst \in Nat /\ c.sess \in Nat
      /\ c.ver > 0 /\ c.inst > 0 /\ client[p].sess <= c.sess
      /\ (c.inst = client[p].inst /\ client[p].ver <= c.ver) \/ c.inst > client[p].inst
  BY Fields DEF ClientBecomes
<1>5. /\ view' \in [Peer -> [Node -> Infos]] /\ viewTopo' \in [Peer -> Nat]
      /\ \A r \in Peer :
            \/ viewTopo'[r] = viewTopo[r] /\ view'[r] = view[r]
            \/ /\ r = p /\ client[p].sess < c.sess
               /\ viewTopo'[p] = 0 /\ \A q \in Node : view'[p][q] = NoInfo
  <2>1. view \in [Peer -> [Node -> Infos]] /\ viewTopo \in [Peer -> Nat]
    BY <1>1 DEF TypeOK, ClientType
  <2>2. CASE view' = view /\ viewTopo' = viewTopo
    BY <2>1, <2>2
  <2>3. CASE ForgetView(p) /\ client[p].sess < c.sess
    <3>1. [q \in Node |-> NoInfo] \in [Node -> Infos]
      BY Absent
    <3>2. /\ view' = [view EXCEPT ![p] = [q \in Node |-> NoInfo]]
          /\ viewTopo' = [viewTopo EXCEPT ![p] = 0]
      BY <2>3 DEF ForgetView
    <3> QED
      BY <2>1, <2>3, <3>1, <3>2
  <2> QED
    BY <2>2, <2>3 DEF ClientBecomes
<1>51. \A r \in Peer :
          \/ client'[r].sess = client[r].sess /\ viewTopo'[r] = viewTopo[r] /\ view'[r] = view[r]
          \/ /\ client'[r].sess > client[r].sess
             /\ viewTopo'[r] = viewTopo[r] \/ viewTopo'[r] = 0
             /\ view'[r] = view[r] \/ (\A q \in Node : view'[r][q] = NoInfo)
  <2> TAKE r \in Peer
  <2>1. CASE r # p
    BY <1>3, <1>5, <2>1
  <2>2. CASE r = p /\ client[p].sess < c.sess
    BY <1>3, <1>5, <2>2
  <2>3. CASE r = p /\ client[p].sess = c.sess
    BY <1>1, <1>3, <1>4, <1>5, <2>3, Numbers
  <2> QED
    BY <1>1, <1>4, <2>1, <2>2, <2>3, Numbers
<1>6. TypeOK'
  BY <1>1, <1>2, <1>3, <1>5 DEF TypeOK, ClientType, GroupType, SessionType, PumpType
<1>7. RowInv' /\ CacheInv'
  BY <1>1, <1>2, GroupUnchanged DEF RowInv, groupVars
<1>8. PumpInv'
  BY <1>1, <1>2 DEF PumpInv
<1>9. SessionInv'
  BY <1>1, <1>2, <1>3, <1>4, Numbers DEF SessionInv
<1>10. ASSUME NEW r \in Peer
       PROVE  TopologyOf(r)'
  <2>1. TopologyOf(r) /\ dst[r] <= client[r].sess /\ outstanding[r].sess <= client[r].sess
    BY <1>1 DEF TopologyInv, SessionInv
  <2>2. CASE client'[r].sess = client[r].sess /\ viewTopo'[r] = viewTopo[r]
    BY <1>2, <2>1, <2>2 DEF TopologyOf
  <2>3. CASE client'[r].sess > client[r].sess /\ (viewTopo'[r] = viewTopo[r] \/ viewTopo'[r] = 0)
    <3>1. dst'[r] # client'[r].sess /\ outstanding'[r].sess # client'[r].sess
      BY <1>1, <1>2, <1>3, <1>4, <2>1, <2>3, Numbers
    <3> QED
      BY <1>1, <1>2, <2>1, <2>3, <3>1, Numbers DEF TopologyOf
  <2> QED
    BY <1>51, <2>2, <2>3
<1>11. HasInfo(infos, Server)'
  BY <1>1, <1>2 DEF InfoInv, HasInfo
<1>12. ASSUME NEW q \in Node, Running(q)'
       PROVE  FirstInfo(q, infos[q])' /\ \A r \in Peer : InfoOf(r, q)'
  <2>1. /\ Running(q)
        /\ q \in Peer => client[q].ver <= client'[q].ver /\ client'[q].ver \in Nat
    <3>1. CASE q = p
      BY <1>1, <1>3, <1>4, <1>12, <3>1, Numbers DEF Running, SessionInv
    <3>2. CASE q # p
      BY <1>1, <1>3, <1>12, <3>2, Numbers DEF Running
    <3> QED
      BY <3>1, <3>2
  <2>2. FirstInfo(q, infos[q]) /\ \A r \in Peer : InfoOf(r, q)
    BY <1>1, <2>1 DEF InfoInv
  <2>3. ASSUME NEW i \in Infos, FirstInfo(q, i)
        PROVE  i = NoInfo \/ (i.inst = 1 /\ i.ver > 0 /\ (q \in Peer => i.ver <= client'[q].ver))
    BY <1>1, <2>1, <2>3, Fields, Numbers DEF FirstInfo
  <2>4. FirstInfo(q, infos[q])'
    BY <1>1, <1>2, <2>2, <2>3, Numbers DEF FirstInfo
  <2>5. ASSUME NEW r \in Peer
        PROVE  InfoOf(r, q)'
    <3>1. InfoOf(r, q) /\ dst[r] <= client[r].sess /\ outstanding[r].sess <= client[r].sess
      BY <1>1, <2>2 DEF SessionInv
    <3>2. FirstInfo(q, outstanding[r].vers[q])'
      BY <1>1, <1>2, <2>3, <3>1, Numbers DEF FirstInfo, InfoOf
    <3>3. q \in Peer => saved'[r][q] <= client'[q].ver
      BY <1>1, <1>2, <2>1, <3>1, Numbers DEF InfoOf
    <3>4. CASE client'[r].sess = client[r].sess /\ view'[r][q] = view[r][q]
      <4>1. FirstInfo(q, view[r][q])'
        BY <1>1, <2>3, <3>1, <3>4, Numbers DEF FirstInfo, InfoOf
      <4> QED
        BY <1>2, <3>1, <3>2, <3>3, <3>4, <4>1 DEF InfoOf, HasInfo
    <3>5. CASE client'[r].sess > client[r].sess /\ (view'[r][q] = view[r][q] \/ view'[r][q] = NoInfo)
      <4>1. dst'[r] # client'[r].sess /\ outstanding'[r].sess # client'[r].sess
        BY <1>1, <1>2, <1>3, <1>4, <3>1, <3>5, Numbers
      <4>2. FirstInfo(q, view[r][q])'
        BY <1>1, <2>3, <3>1, <3>5, Numbers DEF FirstInfo, InfoOf
      <4>3. view'[r][q].ver <= view[r][q].ver /\ view'[r][q].ver \in Nat
        BY <1>1, <3>5, Absent, Numbers
      <4>4. HasInfo(infos', q) => view'[r][q].ver <= infos'[q].ver
        BY <1>1, <1>2, <3>1, <4>3, Numbers DEF InfoOf, HasInfo
      <4> QED
        BY <1>2, <3>1, <3>2, <3>3, <4>1, <4>2, <4>4 DEF InfoOf, HasInfo
    <3> QED
      BY <1>51, <3>4, <3>5
  <2> QED
    BY <2>4, <2>5
<1> QED
  BY <1>6, <1>7, <1>8, <1>9, <1>10, <1>11, <1>12 DEF Inv, TopologyInv, InfoInv

LEMMA ChangeInfoStep == ASSUME Inv, NEW p \in Peer, ChangeInfo(p) PROVE Inv'
<1> DEFINE c == [client[p] EXCEPT !.ver = @ + 1]
<1>1. client \in [Peer -> Clients] /\ client[p] \in Clients /\ client[p].ver > 0 /\ client[p].inst > 0
  BY DEF Inv, TypeOK, ClientType, SessionInv
<1>2. c \in Clients /\ c.ver = client[p].ver + 1 /\ c.inst = client[p].inst /\ c.sess = client[p].sess
  <2>1. client[p].ver + 1 \in Nat
    BY <1>1, Fields
  <2> QED
    BY <1>1, <2>1 DEF Clients
<1>3. client' = [client EXCEPT ![p] = c]
  BY <1>1 DEF ChangeInfo
<1> HIDE DEF c
<1>4. ClientBecomes(p, c)
  <2>1. view' = view /\ viewTopo' = viewTopo /\ UNCHANGED <<serverVars, outstanding>>
    BY DEF ChangeInfo
  <2>2. /\ c.ver > 0 /\ c.inst > 0
        /\ c.inst = client[p].inst /\ client[p].ver <= c.ver /\ client[p].sess <= c.sess
    BY <1>1, <1>2, Fields
  <2> QED
    BY <1>1, <1>2, <1>3, <2>1, <2>2 DEF ClientBecomes
<1> QED
  BY <1>4, ClientStep

LEMMA ChangeLinksStep ==
    ASSUME Inv, NEW p \in Peer, NEW others \in SUBSET (Peer \ {p}), ChangeLinks(p, others)
    PROVE  Inv'
<1> DEFINE n == client[p].rowVer + 1
           l == {Server} \cup others
           c == [client[p] EXCEPT !.rowVer = n, !.links = l]
<1>1. client \in [Peer -> Clients] /\ client[p] \in Clients /\ client[p].ver > 0 /\ client[p].inst > 0
  BY DEF Inv, TypeOK, ClientType, SessionInv
<1>2. n \in Nat /\ l \in SUBSET Node
  BY <1>1, Fields DEF Node
<1>3. client' = [client EXCEPT ![p] = c]
  BY <1>1 DEF ChangeLinks
<1> HIDE DEF n, l
<1>4. c \in Clients /\ c.ver = client[p].ver /\ c.inst = client[p].inst /\ c.sess = client[p].sess
  BY <1>1, <1>2 DEF Clients
<1> HIDE DEF c
<1>5. ClientBecomes(p, c)
  <2>1. view' = view /\ viewTopo' = viewTopo /\ UNCHANGED <<serverVars, outstanding>>
    BY DEF ChangeLinks
  <2>2. /\ c.ver > 0 /\ c.inst > 0
        /\ c.inst = client[p].inst /\ client[p].ver <= c.ver /\ client[p].sess <= c.sess
    BY <1>1, <1>4, Fields
  <2> QED
    BY <1>1, <1>3, <1>4, <2>1, <2>2 DEF ClientBecomes
<1> QED
  BY <1>5, ClientStep

LEMMA NewClientFacts ==
    ASSUME NEW i \in Nat, NEW s \in Nat
    PROVE  /\ NewClient(i, s) \in Clients
           /\ NewClient(i, s).inst = i /\ NewClient(i, s).ver = 1 /\ NewClient(i, s).sess = s
<1>1. 0 \in Nat /\ {} \in SUBSET Node /\ 1 \in Nat
  OBVIOUS
<1> QED
  BY <1>1 DEF NewClient, Clients

LEMMA RestartClientStep == ASSUME Inv, NEW p \in Peer, RestartClient(p) PROVE Inv'
<1> DEFINE c == NewClient(client[p].inst + 1, client[p].sess + 1)
<1>1. client \in [Peer -> Clients] /\ client[p].inst \in Nat /\ client[p].sess \in Nat
  BY Numbers DEF Inv, TypeOK, ClientType
<1>2. c \in Clients /\ c.inst = client[p].inst + 1 /\ c.ver = 1 /\ c.sess = client[p].sess + 1
  BY <1>1, NewClientFacts
<1>3. client' = [client EXCEPT ![p] = c]
  BY <1>1 DEF RestartClient
<1> HIDE DEF c
<1>4. ClientBecomes(p, c)
  <2>1. view' = view /\ viewTopo' = viewTopo /\ UNCHANGED <<serverVars, outstanding>>
    BY DEF RestartClient
  <2>2. /\ c.ver > 0 /\ c.inst > 0
        /\ c.inst > client[p].inst /\ client[p].sess <= c.sess
    BY <1>1, <1>2, Fields
  <2> QED
    BY <1>1, <1>2, <1>3, <2>1, <2>2 DEF ClientBecomes
<1> QED
  BY <1>4, ClientStep

LEMMA NewSessionStep == ASSUME Inv, NEW p \in Peer, NewSession(p) PROVE Inv'
<1> DEFINE c == [client[p] EXCEPT !.sess = @ + 1]
<1>1. client \in [Peer -> Clients] /\ client[p] \in Clients /\ client[p].ver > 0 /\ client[p].inst > 0
  BY DEF Inv, TypeOK, ClientType, SessionInv
<1>2. c \in Clients /\ c.ver = client[p].ver /\ c.inst = client[p].inst /\ c.sess = client[p].sess + 1
  <2>1. client[p].sess + 1 \in Nat
    BY <1>1, Fields
  <2> QED
    BY <1>1, <2>1 DEF Clients
<1>3. client' = [client EXCEPT ![p] = c]
  BY <1>1 DEF NewSession
<1> HIDE DEF c
<1>4. ClientBecomes(p, c)
  <2>1. ForgetView(p) /\ UNCHANGED <<serverVars, outstanding>>
    BY DEF NewSession
  <2>2. /\ c.ver > 0 /\ c.inst > 0
        /\ c.inst = client[p].inst /\ client[p].ver <= c.ver /\ client[p].sess < c.sess
        /\ client[p].sess <= c.sess
    BY <1>1, <1>2, Fields
  <2> QED
    BY <1>1, <1>2, <1>3, <2>1, <2>2 DEF ClientBecomes
<1> QED
  BY <1>4, ClientStep

-----------------------------------------------------------------------------
(* Updates and their answers.                                              *)

\* The transaction of p becomes u, which the client has not applied: it carries
\* infos and the topology as the relay has them.
LEMMA BuiltStep ==
    ASSUME Inv, NEW p \in Peer, NEW STATE u, u \in Updates, u.sess = 0, u.topo = 0 \/ u.topo = topo,
           \A q \in Node : u.vers[q] = NoInfo \/ u.vers[q] = infos[q],
           outstanding' = [outstanding EXCEPT ![p] = u],
           UNCHANGED <<clientVars, groupVars, sessionVars>>
    PROVE  SessionInv' /\ TopologyInv' /\ InfoInv'
<1>1. TypeOK /\ SessionInv /\ TopologyInv /\ InfoInv
  BY DEF Inv
<1>2. UNCHANGED <<client, view, viewTopo, infos, topo, dst, saved, topoSeen>>
  BY DEF clientVars, groupVars, sessionVars
<1>3. outstanding'[p] = u /\ \A r \in Peer : r # p => outstanding'[r] = outstanding[r]
  BY <1>1 DEF TypeOK, PumpType
<1>4. SessionInv'
  BY <1>1, <1>2, <1>3, Numbers DEF SessionInv
<1>5. ASSUME NEW r \in Peer
      PROVE  TopologyOf(r)'
  <2>1. TopologyOf(r) /\ client[r].sess > 0
    BY <1>1 DEF TopologyInv, SessionInv
  <2>2. CASE r # p
    BY <1>2, <1>3, <2>1, <2>2 DEF TopologyOf
  <2>3. CASE r = p
    BY <1>1, <1>2, <1>3, <2>1, <2>3, Numbers DEF TopologyOf
  <2> QED
    BY <2>2, <2>3
<1>6. ASSUME NEW q \in Node, Running(q)'
      PROVE  FirstInfo(q, infos[q])' /\ \A r \in Peer : InfoOf(r, q)'
  <2>1. Running(q) /\ FirstInfo(q, infos[q]) /\ \A r \in Peer : InfoOf(r, q)
    BY <1>1, <1>2, <1>6 DEF Running, InfoInv
  <2>2. FirstInfo(q, infos[q])'
    BY <1>2, <2>1 DEF FirstInfo
  <2>3. ASSUME NEW r \in Peer
        PROVE  InfoOf(r, q)'
    <3>1. InfoOf(r, q) /\ client[r].sess > 0
      BY <1>1, <2>1 DEF SessionInv
    <3>2. CASE r # p
      BY <1>2, <1>3, <3>1, <3>2 DEF InfoOf, FirstInfo, HasInfo
    <3>3. CASE r = p
      <4>1. outstanding'[r].vers[q] = NoInfo \/ outstanding'[r].vers[q] = infos[q]
        BY <1>3, <3>3
      <4>2. FirstInfo(q, view[r][q])' /\ FirstInfo(q, outstanding[r].vers[q])'
        BY <1>2, <2>1, <3>1, <4>1 DEF InfoOf, FirstInfo
      <4>3. outstanding'[r].sess # client'[r].sess
        BY <1>1, <1>2, <1>3, <3>1, <3>3, Numbers
      <4>4. outstanding'[r].vers[q].ver <= infos'[q].ver
        BY <1>1, <1>2, <4>1, Absent, Numbers
      <4>5. outstanding'[r].vers[q] # NoInfo => saved'[r][q] <= outstanding'[r].vers[q].ver
        BY <1>2, <3>1, <4>1 DEF InfoOf, HasInfo
      <4> QED
        BY <1>2, <3>1, <4>2, <4>3, <4>4, <4>5 DEF InfoOf, HasInfo
    <3> QED
      BY <3>2, <3>3
  <2> QED
    BY <2>2, <2>3
<1>7. HasInfo(infos, Server)'
  BY <1>1, <1>2 DEF InfoInv, HasInfo
<1> QED
  BY <1>4, <1>5, <1>6, <1>7 DEF TopologyInv, InfoInv

\* What build_route_update sends: a snapshot that is, or becomes, the cached one.
LEMMA BuildRouteUpdateFacts ==
    ASSUME TypeOK, CacheInv, NEW STATE p, p \in Peer, NEW STATE force, BuildRouteUpdate(p, force),
           UNCHANGED groupVars
    PROVE  /\ cache' \in [Formats -> Snapshots] /\ CacheInv'
           /\ \E u \in Updates : /\ u.sess = 0 /\ (u.topo = 0 \/ u.topo = topo)
                                 /\ \A q \in Node : u.vers[q] = NoInfo \/ u.vers[q] = infos[q]
                                 /\ outstanding' = [outstanding EXCEPT ![p] = u]
<1> DEFINE full == force \/ dst[p] = 0
           conn == ConnInfo(p)
           sent == [q \in Node |-> IF q \in Selected(p, full) THEN infos[q] ELSE NoInfo]
           none == [None EXCEPT !.open = TRUE, !.vers = sent]
           some == [None EXCEPT !.open = TRUE, !.vers = sent, !.topo = topo,
                                !.ghosts = conn.members \ Known]
<1>1. /\ infos \in [Node -> Infos] /\ rows \in [Node -> Rows] /\ topo \in Nat /\ topo > 0
      /\ cache \in [Formats -> Snapshots] /\ peers \subseteq Peer
      /\ UNCHANGED <<peers, infos, rows, topo>>
  BY DEF TypeOK, GroupType, CacheInv, groupVars
<1>2. sent \in [Node -> Infos] /\ \A q \in Node : sent[q] = NoInfo \/ sent[q] = infos[q]
  BY <1>1, Absent
<1>3. Format(p) \in Formats
  BY DEF Format, Formats
<1>4. Known \subseteq Node /\ p \in Node
  BY DEF Known, Node
<1>5. Snapshot(p) \in Snapshots /\ Snapshot(p).ver = topo /\ Snapshot(p).members = Known \cup {p}
      /\ Snapshot(p).rows = rows
  BY <1>1, <1>4 DEF Snapshot, Snapshots
<1>6. /\ conn \in Snapshots /\ conn.ver = topo
      /\ Known \subseteq conn.members /\ \A q \in Known : conn.rows[q] = rows[q]
  <2>1. CASE cache[Format(p)].ver = topo
    BY <1>1, <1>3, <2>1 DEF ConnInfo, CacheInv, CacheCoherent, Formats
  <2>2. CASE cache[Format(p)].ver # topo
    <3>1. conn = Snapshot(p)
      BY <2>2 DEF ConnInfo
    <3> QED
      BY <1>5, <3>1
  <2> QED
    BY <2>1, <2>2
<1>7. conn.members \ Known \in SUBSET Node
  BY <1>6, Fields
<1> HIDE DEF sent, conn
<1>8. /\ none \in Updates /\ none.sess = 0 /\ none.topo = 0 /\ none.vers = sent
  BY <1>2, Absent DEF Updates, None
<1>9. /\ some \in Updates /\ some.sess = 0 /\ some.topo = topo /\ some.vers = sent
  <2> DEFINE gh == conn.members \ Known
  <2>1. some = [none EXCEPT !.topo = topo, !.ghosts = gh]
    OBVIOUS
  <2>2. gh \in SUBSET Node
    BY <1>7
  <2> HIDE DEF gh, none, some
  <2> QED
    BY <1>1, <1>8, <2>1, <2>2 DEF Updates
<1>10. \/ outstanding' = [outstanding EXCEPT ![p] = none] /\ cache' = cache
       \/ outstanding' = [outstanding EXCEPT ![p] = some] /\ cache' = [cache EXCEPT ![Format(p)] = conn]
  BY DEF BuildRouteUpdate, sent, conn
<1> HIDE DEF none, some
<1>11. \E u \in Updates : /\ u.sess = 0 /\ (u.topo = 0 \/ u.topo = topo)
                          /\ \A q \in Node : u.vers[q] = NoInfo \/ u.vers[q] = infos[q]
                          /\ outstanding' = [outstanding EXCEPT ![p] = u]
  BY <1>2, <1>8, <1>9, <1>10
<1>12. cache' \in [Formats -> Snapshots]
       /\ \A f \in Formats : cache'[f] = cache[f] \/ cache'[f] = conn
  BY <1>1, <1>3, <1>6, <1>10
<1>13. Known' = Known
  BY <1>1 DEF Known, HasInfo
<1>14. CacheInv'
  <2>1. \A f \in Formats : cache'[f].ver <= topo'
    BY <1>1, <1>6, <1>12 DEF CacheInv
  <2>2. ASSUME NEW f \in Formats, cache'[f].ver = topo'
        PROVE  Known' \subseteq cache'[f].members /\ \A q \in Known' : cache'[f].rows[q] = rows'[q]
    <3>1. CASE cache'[f] = conn
      BY <1>1, <1>6, <1>13, <3>1
    <3>2. CASE cache'[f] = cache[f]
      BY <1>1, <1>13, <2>2, <3>2 DEF CacheInv, CacheCoherent, Formats
    <3> QED
      BY <1>12, <3>1, <3>2
  <2> QED
    BY <1>1, <2>1, <2>2 DEF CacheInv, CacheCoherent, Formats
<1> QED
  BY <1>11, <1>12, <1>14

LEMMA SendRouteUpdateStep == ASSUME Inv, NEW p \in Peer, SendRouteUpdate(p) PROVE Inv'
<1>1. TypeOK /\ PumpInv /\ RowInv /\ CacheInv /\ p \in todo /\ p \in room
  BY DEF Inv, SendRouteUpdate, PumpInv
<1>2. /\ todo' = todo \ {p}
      /\ UNCHANGED <<clientVars, groupVars, sessionVars, closing, room>>
  BY DEF SendRouteUpdate
<1>3. CASE p \in inFlight
  <2>1. /\ dirty' = dirty \cup {p}
        /\ UNCHANGED <<inFlight, forceFull, outstanding, cache>>
        /\ UNCHANGED <<client, view, viewTopo, peers, infos, rows, topo, dst, saved, topoSeen>>
    BY <1>2, <1>3 DEF SendRouteUpdate, clientVars, groupVars, sessionVars
  <2>2. TypeOK'
    BY <1>1, <1>2, <2>1 DEF TypeOK, ClientType, GroupType, SessionType, PumpType
  <2>3. PumpInv'
    BY <1>1, <1>2, <2>1 DEF PumpInv
  <2>4. RowInv' /\ CacheInv'
    BY <1>1, <1>2, <2>1, GroupUnchanged DEF RowInv
  <2>5. Forgets
    BY <1>1, <2>1 DEF Forgets, TypeOK, GroupType
  <2> QED
    BY <2>2, <2>3, <2>4, <2>5, ForgetsStep
<1>4. CASE p \notin inFlight
  <2>1. /\ BuildRouteUpdate(p, p \in forceFull)
        /\ inFlight' = inFlight \cup {p} /\ dirty' = dirty \ {p} /\ forceFull' = forceFull \ {p}
    BY <1>4 DEF SendRouteUpdate, Flush
  <2>2. PICK u \in Updates : /\ u.sess = 0 /\ (u.topo = 0 \/ u.topo = topo)
                             /\ \A q \in Node : u.vers[q] = NoInfo \/ u.vers[q] = infos[q]
                             /\ outstanding' = [outstanding EXCEPT ![p] = u]
    BY <1>1, <1>2, <2>1, BuildRouteUpdateFacts
  <2>3. cache' \in [Formats -> Snapshots] /\ CacheInv'
    BY <1>1, <1>2, <2>1, BuildRouteUpdateFacts
  <2>4. SessionInv' /\ TopologyInv' /\ InfoInv'
    BY <1>2, <2>2, BuiltStep
  <2>5. UNCHANGED <<client, view, viewTopo, peers, infos, rows, topo, dst, saved, topoSeen>>
    BY <1>2 DEF clientVars, groupVars, sessionVars
  <2>6. outstanding' \in [Peer -> Updates] /\ \A r \in Peer : r # p => outstanding'[r] = outstanding[r]
    BY <1>1, <2>2 DEF TypeOK, PumpType
  <2>7. TypeOK'
    BY <1>1, <1>2, <2>1, <2>3, <2>5, <2>6 DEF TypeOK, ClientType, GroupType, SessionType, PumpType
  <2>8. PumpInv'
    BY <1>1, <1>2, <2>1, <2>6 DEF PumpInv
  <2>9. RowInv'
    BY <1>1, <1>2, <2>5 DEF RowInv, HasInfo
  <2> QED
    BY <2>3, <2>4, <2>7, <2>8, <2>9 DEF Inv
<1> QED
  BY <1>3, <1>4

LEMMA DeliverStep == ASSUME Inv, NEW p \in Peer, Deliver(p) PROVE Inv'
<1> DEFINE out == outstanding[p]
           got == [q \in Node |-> IF out.vers[q] # NoInfo THEN out.vers[q] ELSE view[p][q]]
           u   == [out EXCEPT !.sess = client[p].sess]
<1>1. TypeOK /\ PumpInv /\ RowInv /\ CacheInv /\ SessionInv /\ TopologyInv /\ InfoInv
  BY DEF Inv
<1>2. /\ UNCHANGED <<client, room, peers, infos, rows, topo, cache>>
      /\ UNCHANGED <<dst, saved, topoSeen, inFlight, dirty, forceFull, todo, closing>>
  BY DEF Deliver, serverVars, groupVars, sessionVars, pumpVars
<1>3. /\ outstanding \in [Peer -> Updates] /\ view \in [Peer -> [Node -> Infos]]
      /\ viewTopo \in [Peer -> Nat] /\ out \in Updates /\ client[p].sess \in Nat /\ out.topo \in Nat
      /\ out # None
  BY <1>1, Numbers DEF TypeOK, ClientType, PumpType, Deliver
<1>4. u \in Updates /\ u.sess = client[p].sess /\ u.topo = out.topo /\ u.vers = out.vers
  <2> HIDE DEF out
  <2> QED
    BY <1>3 DEF Updates
<1>5. got \in [Node -> Infos]
  BY <1>1, Numbers
<1>6. /\ outstanding' = [outstanding EXCEPT ![p] = u]
      /\ view' = [view EXCEPT ![p] = got]
      /\ viewTopo' = IF out.topo = 0 THEN viewTopo ELSE [viewTopo EXCEPT ![p] = out.topo]
  BY <1>3 DEF Deliver
<1> HIDE DEF u, got, out
<1>7. /\ outstanding' \in [Peer -> Updates] /\ outstanding'[p] = u
      /\ \A r \in Peer : r # p => outstanding'[r] = outstanding[r]
      /\ view' \in [Peer -> [Node -> Infos]] /\ view'[p] = got
      /\ \A r \in Peer : r # p => view'[r] = view[r]
      /\ viewTopo' \in [Peer -> Nat] /\ viewTopo'[p] = IF out.topo = 0 THEN viewTopo[p] ELSE out.topo
      /\ \A r \in Peer : r # p => viewTopo'[r] = viewTopo[r]
  BY <1>3, <1>4, <1>5, <1>6
<1>8. TypeOK'
  BY <1>1, <1>2, <1>7 DEF TypeOK, ClientType, GroupType, SessionType, PumpType
<1>9. RowInv' /\ CacheInv'
  BY <1>1, <1>2, GroupUnchanged DEF RowInv, groupVars
<1>10. PumpInv'
  BY <1>1, <1>2, <1>3, <1>7 DEF PumpInv, out
<1>11. SessionInv'
  BY <1>1, <1>2, <1>3, <1>4, <1>7 DEF SessionInv
<1>12. ASSUME NEW r \in Peer
       PROVE  TopologyOf(r)'
  <2>1. TopologyOf(r)
    BY <1>1 DEF TopologyInv
  <2>2. CASE r # p
    BY <1>2, <1>7, <2>1, <2>2 DEF TopologyOf
  <2>3. CASE r = p
    BY <1>1, <1>2, <1>3, <1>4, <1>7, <2>1, <2>3, Numbers DEF TopologyOf, out
  <2> QED
    BY <2>2, <2>3
<1>13. ASSUME NEW q \in Node, Running(q)'
       PROVE  FirstInfo(q, infos[q])' /\ \A r \in Peer : InfoOf(r, q)'
  <2>1. Running(q) /\ FirstInfo(q, infos[q]) /\ \A r \in Peer : InfoOf(r, q)
    BY <1>1, <1>2, <1>13 DEF Running, InfoInv
  <2>2. FirstInfo(q, infos[q])'
    BY <1>2, <2>1 DEF FirstInfo
  <2>3. ASSUME NEW r \in Peer
        PROVE  InfoOf(r, q)'
    <3>1. InfoOf(r, q)
      BY <2>1
    <3>2. CASE r # p
      BY <1>2, <1>7, <3>1, <3>2 DEF InfoOf, FirstInfo, HasInfo
    <3>3. CASE r = p
      <4>1. /\ outstanding'[r].vers[q] = outstanding[r].vers[q]
            /\ view'[r][q] = IF outstanding[r].vers[q] # NoInfo THEN outstanding[r].vers[q] ELSE view[r][q]
        BY <1>4, <1>7, <3>3 DEF out, got
      <4>2. FirstInfo(q, view[r][q])' /\ FirstInfo(q, outstanding[r].vers[q])'
        BY <1>2, <3>1, <4>1 DEF InfoOf, FirstInfo
      <4>3. outstanding'[r].vers[q].ver <= view'[r][q].ver
        BY <1>1, <4>1, Absent, Numbers
      <4>4. HasInfo(infos, q) => view'[r][q].ver <= infos[q].ver
        BY <3>1, <4>1 DEF InfoOf
      <4>5. dst[r] = client[r].sess => saved[r][q] <= view'[r][q].ver
        BY <3>1, <4>1 DEF InfoOf
      <4> QED
        BY <1>2, <3>1, <4>1, <4>2, <4>3, <4>4, <4>5 DEF InfoOf, HasInfo
    <3> QED
      BY <3>2, <3>3
  <2> QED
    BY <2>2, <2>3
<1>14. HasInfo(infos, Server)'
  BY <1>1, <1>2 DEF InfoInv, HasInfo
<1> QED
  BY <1>8, <1>9, <1>10, <1>11, <1>12, <1>13, <1>14 DEF Inv, TopologyInv, InfoInv

LEMMA ResponseStep == ASSUME Inv, NEW p \in Peer, Response(p) PROVE Inv'
<1> DEFINE out     == outstanding[p]
           session == SessionChanged(p, out.sess)
           old(q)  == IF session THEN 0 ELSE saved[p][q]
           kept    == [q \in Node |-> IF out.vers[q] # NoInfo /\ out.vers[q].ver > old(q)
                                      THEN out.vers[q].ver ELSE old(q)]
           before  == IF session THEN 0 ELSE topoSeen[p]
           seen    == IF out.topo > before THEN out.topo ELSE before
<1>1. TypeOK /\ PumpInv /\ RowInv /\ CacheInv /\ SessionInv /\ TopologyInv /\ InfoInv
  BY DEF Inv
<1>2. /\ UNCHANGED <<client, view, viewTopo, room, peers, infos, rows, topo, cache>>
      /\ UNCHANGED <<dirty, forceFull, closing>>
  BY DEF Response, clientVars, groupVars
<1>3. /\ outstanding \in [Peer -> Updates] /\ saved \in [Peer -> [Node -> Nat]]
      /\ topoSeen \in [Peer -> Nat] /\ dst \in [Peer -> Nat] /\ out.sess \in Nat /\ out.topo \in Nat
      /\ p \in room
  BY <1>1, Numbers DEF TypeOK, SessionType, PumpType, Response
<1>4. /\ dst' = [dst EXCEPT ![p] = out.sess]
      /\ topoSeen' = [topoSeen EXCEPT ![p] = seen]
      /\ outstanding' = [outstanding EXCEPT ![p] = None]
      /\ inFlight' = inFlight \ {p} /\ todo' \subseteq {p}
  BY <1>3 DEF Response
<1>5. saved' = [saved EXCEPT ![p] = kept]
  BY DEF Response
<1>6. kept \in [Node -> Nat] /\ seen \in Nat
  BY <1>1, <1>3, Numbers
<1>7. session <=> dst[p] # out.sess
  BY DEF SessionChanged
<1>8. \A q \in Node : \/ kept[q] = out.vers[q].ver /\ out.vers[q] # NoInfo
                      \/ kept[q] = 0
                      \/ kept[q] = saved[p][q] /\ dst[p] = out.sess
  BY <1>7
<1>9. \/ seen = out.topo
      \/ seen = 0
      \/ seen = topoSeen[p] /\ dst[p] = out.sess
  BY <1>7
<1> HIDE DEF kept, seen, out, session
<1>10. /\ outstanding' \in [Peer -> Updates] /\ outstanding'[p] = None
       /\ \A r \in Peer : r # p => outstanding'[r] = outstanding[r]
       /\ saved' \in [Peer -> [Node -> Nat]] /\ saved'[p] = kept
       /\ \A r \in Peer : r # p => saved'[r] = saved[r]
       /\ topoSeen' \in [Peer -> Nat] /\ topoSeen'[p] = seen
       /\ \A r \in Peer : r # p => topoSeen'[r] = topoSeen[r]
       /\ dst' \in [Peer -> Nat] /\ dst'[p] = out.sess
       /\ \A r \in Peer : r # p => dst'[r] = dst[r]
  BY <1>3, <1>4, <1>5, <1>6, Absent
<1>11. TypeOK'
  BY <1>1, <1>2, <1>3, <1>4, <1>10 DEF TypeOK, ClientType, GroupType, SessionType, PumpType
<1>12. RowInv' /\ CacheInv'
  BY <1>1, <1>2, GroupUnchanged DEF RowInv, groupVars
<1>13. PumpInv'
  BY <1>1, <1>2, <1>3, <1>4, <1>10 DEF PumpInv
<1>14. SessionInv'
  BY <1>1, <1>2, <1>10, Absent, Numbers DEF SessionInv, out
<1>15. ASSUME NEW r \in Peer
       PROVE  TopologyOf(r)'
  <2>1. TopologyOf(r) /\ client[r].sess > 0
    BY <1>1 DEF TopologyInv, SessionInv
  <2>2. CASE r # p
    BY <1>2, <1>10, <2>1, <2>2 DEF TopologyOf
  <2>3. CASE r = p
    <3>1. seen <= topo
      BY <1>1, <1>9, <2>1, <2>3, Numbers DEF TopologyOf, out
    <3>2. out.sess = client[p].sess => seen <= viewTopo[p]
      BY <1>1, <1>9, <2>1, <2>3, Numbers DEF TopologyOf, out
    <3> QED
      BY <1>1, <1>2, <1>10, <2>1, <2>3, <3>1, <3>2, Absent, Numbers DEF TopologyOf
  <2> QED
    BY <2>2, <2>3
<1>16. ASSUME NEW q \in Node, Running(q)'
       PROVE  FirstInfo(q, infos[q])' /\ \A r \in Peer : InfoOf(r, q)'
  <2>1. Running(q) /\ FirstInfo(q, infos[q]) /\ \A r \in Peer : InfoOf(r, q)
    BY <1>1, <1>2, <1>16 DEF Running, InfoInv
  <2>2. FirstInfo(q, infos[q])'
    BY <1>2, <2>1 DEF FirstInfo
  <2>3. ASSUME NEW r \in Peer
        PROVE  InfoOf(r, q)'
    <3>1. InfoOf(r, q) /\ client[r].sess > 0
      BY <1>1, <2>1 DEF SessionInv
    <3>2. CASE r # p
      BY <1>2, <1>10, <3>1, <3>2 DEF InfoOf, FirstInfo, HasInfo
    <3>3. CASE r = p
      <4>1. saved'[r][q] = kept[q] /\ dst'[r] = out.sess /\ outstanding'[r] = None
        BY <1>10, <3>3
      <4>2. HasInfo(infos, q) => kept[q] <= infos[q].ver
        BY <1>1, <1>8, <3>1, <3>3, Numbers DEF InfoOf, out
      <4>3. q \in Peer => kept[q] <= client[q].ver
        BY <1>1, <1>8, <3>1, <3>3, Numbers DEF InfoOf, FirstInfo, out
      <4>4. out.sess = client[r].sess => kept[q] <= view[r][q].ver
        BY <1>1, <1>8, <3>1, <3>3, Numbers DEF InfoOf, out
      <4>5. FirstInfo(q, view[r][q])' /\ FirstInfo(q, outstanding[r].vers[q])'
        BY <1>2, <3>1, <4>1, Absent DEF InfoOf, FirstInfo
      <4>6. outstanding'[r].vers[q] = NoInfo /\ outstanding'[r].sess = 0
            /\ outstanding'[r].vers[q].ver = 0
        BY <4>1, Absent
      <4> QED
        BY <1>1, <1>2, <3>1, <4>1, <4>2, <4>3, <4>4, <4>5, <4>6, Numbers DEF InfoOf, HasInfo
    <3> QED
      BY <3>2, <3>3
  <2> QED
    BY <2>2, <2>3
<1>17. HasInfo(infos, Server)'
  BY <1>1, <1>2 DEF InfoInv, HasInfo
<1> QED
  BY <1>11, <1>12, <1>13, <1>14, <1>15, <1>16, <1>17 DEF Inv, TopologyInv, InfoInv

\* store_conn_rows changes the row of the reporter alone.
LEMMA StoreConnRowsFacts ==
    ASSUME TypeOK, NEW p \in Peer, NEW STATE inf
    PROVE  /\ StoreConnRows(p, inf) \in [Node -> Rows]
           /\ \A q \in Node : q # p => StoreConnRows(p, inf)[q] = rows[q]
<1> DEFINE l == {q \in client[p].links : q = Server \/ q \in peers \/ HasInfo(inf, q)}
           r == [ver |-> client[p].rowVer, links |-> l]
<1>1. rows \in [Node -> Rows] /\ client[p] \in Clients
  BY DEF TypeOK, GroupType, ClientType
<1>2. client[p].rowVer \in Nat /\ l \in SUBSET Node
  BY <1>1, Fields
<1>3. r \in Rows
  <2> HIDE DEF l
  <2> QED
    BY <1>2 DEF Rows
<1>4. StoreConnRows(p, inf) = [rows EXCEPT ![p] = r] \/ StoreConnRows(p, inf) = rows
  BY DEF StoreConnRows
<1> HIDE DEF r
<1> QED
  BY <1>1, <1>3, <1>4

LEMMA SyncRequestStep ==
    ASSUME Inv, NEW p \in Peer, NEW withInfo \in BOOLEAN, NEW withRow \in BOOLEAN,
           SyncRequest(p, withInfo, withRow)
    PROVE  Inv'
<1> DEFINE me       == client[p]
           session  == SessionChanged(p, me.sess)
           instance == withInfo /\ HasInfo(infos, p) /\ infos[p].inst # me.inst
           newInfo  == withInfo /\ (instance \/ me.ver > infos[p].ver)
           mine     == [inst |-> me.inst, ver |-> me.ver]
           inf      == IF newInfo THEN [infos EXCEPT ![p] = mine] ELSE infos
           stored   == IF withRow THEN StoreConnRows(p, inf) ELSE rows
           newRow   == stored # rows
           changed  == newRow \/ (newInfo /\ ~HasInfo(infos, p))
           bumps    == IF changed THEN 1 ELSE 0
<1>1. TypeOK /\ PumpInv /\ RowInv /\ CacheInv /\ SessionInv /\ TopologyInv /\ InfoInv
  BY DEF Inv
<1>2. /\ UNCHANGED <<client, view, viewTopo, room, peers, outstanding>>
      /\ UNCHANGED <<inFlight, dirty, forceFull, closing>>
      /\ closing = {} /\ p \in room
  BY DEF SyncRequest, clientVars, pumpVars, Quiescent
<1>3. /\ infos \in [Node -> Infos] /\ rows \in [Node -> Rows] /\ me \in Clients
      /\ saved \in [Peer -> [Node -> Nat]] /\ topoSeen \in [Peer -> Nat] /\ dst \in [Peer -> Nat]
      /\ Peer \subseteq Node /\ Server \notin Peer /\ p \in peers
  BY <1>1, <1>2, RouteAssumption DEF TypeOK, GroupType, ClientType, SessionType, RowInv, Node
<1>4. /\ infos' = inf /\ rows' = stored /\ NoteTopologyChange(bumps)
      /\ dst' = [dst EXCEPT ![p] = me.sess]
      /\ topoSeen' = IF session THEN [topoSeen EXCEPT ![p] = 0] ELSE topoSeen
      /\ saved' = [r \in Peer |-> [q \in Node |->
                      IF (session /\ r = p) \/ (instance /\ q = p) THEN 0 ELSE saved[r][q]]]
      /\ todo' \subseteq room
  BY <1>2 DEF SyncRequest
<1>5. mine \in Infos /\ mine.inst = me.inst /\ mine.ver = me.ver /\ me.sess \in Nat
      /\ me.ver \in Nat /\ infos[p].ver \in Nat
  BY <1>1, <1>3, Fields, Numbers DEF Infos
<1>6. /\ inf \in [Node -> Infos]
      /\ \A q \in Node : q # p => inf[q] = infos[q]
      /\ inf[p] = IF newInfo THEN mine ELSE infos[p]
  <2> HIDE DEF mine, newInfo
  <2> QED
    BY <1>3, <1>5
<1>7. stored \in [Node -> Rows] /\ \A q \in Node : q # p => stored[q] = rows[q]
  <2> HIDE DEF inf
  <2> QED
    BY <1>1, <1>3, StoreConnRowsFacts
<1>8. Known' = {q \in Peer : q \in peers \/ HasInfo(inf, q) \/ stored[q] # NoRow} \cup {Server}
  BY <1>2, <1>4 DEF Known, HasInfo
<1>9. bumps = 0 => Known' = Known /\ \A q \in Known : rows'[q] = rows[q]
  <2> SUFFICES ASSUME bumps = 0
               PROVE  Known' = Known /\ rows' = rows
    OBVIOUS
  <2>1. stored = rows
    OBVIOUS
  <2> HIDE DEF bumps, inf, stored
  <2> QED
    BY <1>3, <1>4, <1>6, <1>8, <2>1 DEF Known, HasInfo
<1>10. bumps \in Nat
  OBVIOUS
<1> HIDE DEF bumps, stored
<1>11. CacheInv' /\ topo' \in Nat /\ topo <= topo' /\ cache' \in [Formats -> Snapshots]
  BY <1>1, <1>4, <1>9, <1>10, NoteTopologyChangeCache
<1>12. RowInv'
  BY <1>1, <1>2, <1>3, <1>4, <1>6, <1>7 DEF RowInv, HasInfo, Node
<1>13. PumpInv'
  BY <1>1, <1>2, <1>4 DEF PumpInv
<1>14. /\ dst' \in [Peer -> Nat] /\ dst'[p] = me.sess
       /\ \A r \in Peer : r # p => dst'[r] = dst[r]
       /\ topoSeen' \in [Peer -> Nat]
       /\ \A r \in Peer : topoSeen'[r] = 0 \/ (topoSeen'[r] = topoSeen[r] /\ dst'[r] = dst[r])
  BY <1>3, <1>4, <1>5 DEF SessionChanged
<1>15. /\ saved' \in [Peer -> [Node -> Nat]]
       /\ \A r \in Peer, q \in Node : saved'[r][q] = 0 \/ (saved'[r][q] = saved[r][q] /\ dst'[r] = dst[r])
  BY <1>3, <1>4, <1>14 DEF SessionChanged
<1>16. TypeOK'
  BY <1>1, <1>2, <1>4, <1>6, <1>7, <1>11, <1>14, <1>15
     DEF TypeOK, ClientType, GroupType, SessionType, PumpType
<1>17. SessionInv'
  BY <1>1, <1>2, <1>14, Numbers DEF SessionInv
<1>18. ASSUME NEW r \in Peer
       PROVE  TopologyOf(r)'
  <2>1. TopologyOf(r)
    BY <1>1 DEF TopologyInv
  <2> QED
    BY <1>1, <1>2, <1>11, <1>14, <2>1, Numbers DEF TopologyOf
<1>19. HasInfo(infos, Server)'
  BY <1>1, <1>3, <1>4, <1>6 DEF InfoInv, HasInfo, Node
<1>20. ASSUME NEW q \in Node, Running(q)'
       PROVE  FirstInfo(q, infos[q])' /\ \A r \in Peer : InfoOf(r, q)'
  <2>1. Running(q) /\ FirstInfo(q, infos[q]) /\ \A r \in Peer : InfoOf(r, q)
    BY <1>1, <1>2, <1>20 DEF Running, InfoInv
  <2>2. \/ infos'[q] = infos[q]
        \/ q = p /\ infos'[q] = mine
    BY <1>4, <1>6
  <2>3. FirstInfo(q, infos[q])'
    <3>1. CASE infos'[q] = infos[q]
      BY <1>2, <2>1, <3>1 DEF FirstInfo
    <3>2. CASE q = p /\ infos'[q] = mine
      BY <1>1, <1>2, <1>5, <2>1, <3>2 DEF FirstInfo, Running, SessionInv
    <3> QED
      BY <2>2, <3>1, <3>2
  <2>4. ASSUME NEW r \in Peer
        PROVE  InfoOf(r, q)'
    <3>1. InfoOf(r, q)
      BY <2>1
    <3>2. FirstInfo(q, view[r][q])' /\ FirstInfo(q, outstanding[r].vers[q])'
      BY <1>2, <3>1 DEF InfoOf, FirstInfo
    <3>3. saved'[r][q] <= saved[r][q] /\ saved'[r][q] \in Nat
      BY <1>1, <1>15, Numbers
    <3>4. HasInfo(infos, q)' =>
              /\ saved'[r][q] <= infos'[q].ver /\ view'[r][q].ver <= infos'[q].ver
              /\ outstanding'[r].vers[q].ver <= infos'[q].ver
      <4>1. CASE infos'[q] = infos[q]
        BY <1>1, <1>2, <3>1, <3>3, <4>1, Numbers DEF InfoOf, HasInfo
      <4>2. CASE q = p /\ infos'[q] = mine
        <5>1. saved[r][q] <= client[q].ver /\ view[r][q].ver <= client[q].ver
              /\ outstanding[r].vers[q].ver <= client[q].ver
          BY <1>1, <3>1, <4>2, Absent, Numbers DEF InfoOf, FirstInfo
        <5> QED
          BY <1>1, <1>2, <1>5, <3>3, <4>2, <5>1, Numbers
      <4> QED
        BY <2>2, <4>1, <4>2
    <3>5. q \in Peer => saved'[r][q] <= client'[q].ver
      BY <1>1, <1>2, <3>1, <3>3, Numbers DEF InfoOf
    <3>6. outstanding'[r].vers[q] # NoInfo => saved'[r][q] <= outstanding'[r].vers[q].ver
      BY <1>1, <1>2, <3>1, <3>3, Numbers DEF InfoOf
    <3>7. dst'[r] = client'[r].sess => saved'[r][q] <= view'[r][q].ver
      BY <1>1, <1>2, <1>15, <3>1, Numbers DEF InfoOf
    <3> QED
      BY <1>2, <3>1, <3>2, <3>4, <3>5, <3>6, <3>7 DEF InfoOf
  <2> QED
    BY <2>3, <2>4
<1> QED
  BY <1>11, <1>12, <1>13, <1>16, <1>17, <1>18, <1>19, <1>20 DEF Inv, TopologyInv, InfoInv

-----------------------------------------------------------------------------
(* The theorems.                                                           *)

LEMMA InitInv == Init => Inv
<1> SUFFICES ASSUME Init PROVE Inv
  OBVIOUS
<1> DEFINE none == [q \in Node |-> NoInfo]
           zero == [q \in Node |-> 0]
<1>1. Server \in Node /\ Peer \subseteq Node /\ Server \notin Peer
  BY RouteAssumption DEF Node
<1>2. /\ client = [p \in Peer |-> NewClient(1, 1)] /\ view = [p \in Peer |-> none]
      /\ viewTopo = [p \in Peer |-> 0]
      /\ room = {} /\ peers = {} /\ inFlight = {} /\ dirty = {} /\ forceFull = {}
      /\ todo = {} /\ closing = {}
      /\ infos = [q \in Node |-> IF q = Server THEN [inst |-> 1, ver |-> 1] ELSE NoInfo]
      /\ rows = [q \in Node |-> NoRow] /\ topo = 1 /\ cache = [f \in Formats |-> NoCache]
      /\ dst = [p \in Peer |-> 0] /\ saved = [p \in Peer |-> zero]
      /\ topoSeen = [p \in Peer |-> 0] /\ outstanding = [p \in Peer |-> None]
  BY DEF Init, Formats
<1>3. NewClient(1, 1) \in Clients /\ NewClient(1, 1).inst = 1 /\ NewClient(1, 1).ver = 1
      /\ NewClient(1, 1).sess = 1
  BY NewClientFacts
<1>4. none \in [Node -> Infos] /\ zero \in [Node -> Nat] /\ [inst |-> 1, ver |-> 1] \in Infos
      /\ [inst |-> 1, ver |-> 1] # NoInfo /\ NoRow.links = {}
      /\ \A q \in Node : none[q] = NoInfo /\ zero[q] = 0
  BY Absent DEF Infos, NoInfo, NoRow
<1> HIDE DEF none, zero
<1>5. TypeOK
  <2>1. ClientType
    BY <1>2, <1>3, <1>4 DEF ClientType
  <2>2. GroupType
    BY <1>2, <1>4, Absent DEF GroupType
  <2>3. SessionType
    BY <1>2, <1>4 DEF SessionType
  <2>4. PumpType
    BY <1>2, Absent DEF PumpType
  <2> QED
    BY <2>1, <2>2, <2>3, <2>4 DEF TypeOK
<1>6. PumpInv
  BY <1>2 DEF PumpInv
<1>7. RowInv
  BY <1>1, <1>2, <1>4 DEF RowInv
<1>8. CacheInv
  BY <1>2, Absent DEF CacheInv, CacheCoherent, Formats
<1>9. SessionInv
  BY <1>2, <1>3, Absent DEF SessionInv
<1>10. TopologyInv
  BY <1>2, <1>3, Absent DEF TopologyInv, TopologyOf
<1>11. HasInfo(infos, Server)
  BY <1>1, <1>2, <1>4 DEF HasInfo
<1>12. ASSUME NEW q \in Node
       PROVE  FirstInfo(q, infos[q]) /\ \A p \in Peer : InfoOf(p, q)
  <2>1. \A p \in Peer : /\ view[p][q] = NoInfo /\ outstanding[p].vers[q] = NoInfo /\ saved[p][q] = 0
                        /\ dst[p] = 0 /\ outstanding[p].sess = 0 /\ client[p].sess = 1 /\ client[p].ver = 1
    BY <1>2, <1>3, <1>4, Absent
  <2>2. FirstInfo(q, infos[q]) /\ infos[q].ver \in Nat
    BY <1>1, <1>2, <1>5, Numbers DEF FirstInfo
  <2> QED
    BY <1>1, <2>1, <2>2, Absent DEF InfoOf, FirstInfo
<1> QED
  BY <1>5, <1>6, <1>7, <1>8, <1>9, <1>10, <1>11, <1>12 DEF Inv, InfoInv

LEMMA StutterStep == ASSUME Inv, UNCHANGED vars PROVE Inv'
<1>1. todo' \subseteq room /\ topoSeen' = topoSeen /\ topoSeen \in [Peer -> Nat]
  BY DEF vars, sessionVars, Inv, PumpInv, TypeOK, SessionType
<1> QED
  BY <1>1, QuietStep DEF vars, sessionVars

LEMMA NextInv == ASSUME Inv, [Next]_vars PROVE Inv'
<1>1. CASE ClientNext
  <2>1. PICK p \in Peer :
            \/ Join(p) \/ Leave(p) \/ RestartClient(p) \/ NewSession(p) \/ ChangeInfo(p)
            \/ \E others \in SUBSET (Peer \ {p}) : ChangeLinks(p, others)
            \/ \E withInfo, withRow \in BOOLEAN : SyncRequest(p, withInfo, withRow)
            \/ Deliver(p) \/ Response(p) \/ ErrorResponse(p)
    BY <1>1 DEF ClientNext
  <2> QED
    BY <2>1, JoinStep, LeaveStep, RestartClientStep, NewSessionStep, ChangeInfoStep, ChangeLinksStep,
       SyncRequestStep, DeliverStep, ResponseStep, ErrorResponseStep
<1>2. CASE Clock
  BY <1>2, SavedExpiresStep, TopologyExpiresStep, DeadlinePassedStep, CleanExpiredStep DEF Clock
<1>3. CASE Continue
  BY <1>3, SendRouteUpdateStep, CloseSilentStep, MaintainPeersStep DEF Continue
<1> QED
  BY <1>1, <1>2, <1>3, StutterStep DEF Next

\* The inductive invariant of route synchronisation holds in every reachable
\* state, for any number of clients, restarts, sessions and versions.
THEOREM Invariance == Spec => []Inv
  BY InitInv, NextInv, PTL DEF Spec

\* A transaction the WASM core can still be answered for belongs to the update
\* the pump waits for, so the late answer to a retried update completes nothing.
THEOREM TransactionsAreInFlight == Spec => []OutstandingInFlight
<1>1. Inv => OutstandingInFlight
  BY DEF Inv, PumpInv, OutstandingInFlight
<1> QED
  BY <1>1, Invariance, PTL

\* build_conn_info never serves a cached snapshot that misses a known node or
\* has an old row of it: note_topology_change is called often enough.
THEOREM CacheIsCoherent == Spec => []CacheCoherent
<1>1. Inv => CacheCoherent
  BY DEF Inv, CacheInv
<1> QED
  BY <1>1, Invariance, PTL

\* A session that has the current topology version recorded belongs to a client
\* that was sent the rows of that topology, whatever was lost, late or restarted.
THEOREM TopologyIsDelivered == Spec => []SavedTopologyDelivered
<1>1. ASSUME Inv PROVE SavedTopologyDelivered
  <2>1. TypeOK /\ TopologyInv /\ room \subseteq Peer
    BY <1>1 DEF Inv, TypeOK, PumpType
  <2> QED
    BY <2>1, Numbers DEF SavedTopologyDelivered, TopologyInv, TopologyOf
<1> QED
  BY <1>1, Invariance, PTL

\* An info that an incremental update leaves out because its version is recorded
\* as saved is the one the client holds, as long as its owner was not restarted.
THEOREM InfoOfRunningIsDelivered == Spec => []SavedInfoOfRunningDelivered
<1>1. ASSUME Inv PROVE SavedInfoOfRunningDelivered
  <2>1. TypeOK /\ InfoInv /\ room \subseteq Peer
    BY <1>1 DEF Inv, TypeOK, PumpType
  <2> SUFFICES ASSUME NEW p \in room, NEW q \in Node, dst[p] = client[p].sess, q # p,
                      HasInfo(infos, q), q \in Peer => client[q].inst = 1,
                      q \notin Selected(p, FALSE)
               PROVE  view[p][q] = infos[q]
    BY DEF SavedInfoOfRunningDelivered
  <2>2. p \in Peer /\ FirstInfo(q, infos[q]) /\ InfoOf(p, q)
    BY <2>1 DEF InfoInv, Running
  <2>3. infos[q].ver <= saved[p][q]
    BY <2>1, <2>2, Numbers DEF Selected
  <2>4. view[p][q].ver = infos[q].ver /\ infos[q].ver > 0
    BY <2>1, <2>2, <2>3, Numbers DEF InfoOf, FirstInfo, HasInfo
  <2>5. view[p][q].inst = infos[q].inst
    BY <2>2, <2>4, Absent DEF InfoOf, FirstInfo, HasInfo
  <2> QED
    BY <2>1, <2>2, <2>4, <2>5, Numbers, Fields
<1> QED
  BY <1>1, Invariance, PTL
=============================================================================
