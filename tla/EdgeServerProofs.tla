-------------------------- MODULE EdgeServerProofs --------------------------
(***************************************************************************)
(* Proofs about EdgeServer for every number of connections, peers and      *)
(* addresses and every limit.                                              *)
(***************************************************************************)
EXTENDS EdgeServer, SequenceTheorems, FiniteSetTheorems, TLAPS

USE DEF Pending, Live

-----------------------------------------------------------------------------
(* The call stack.                                                         *)

\* Pushing a call: a non-empty stack whose frames are the new one and the old
\* ones, one place further.
LEMMA Push ==
    ASSUME NEW f \in Frame, NEW s \in Seq(Frame)
    PROVE  /\ <<f>> \o s \in Seq(Frame)
           /\ <<f>> \o s # <<>>
           /\ Len(<<f>> \o s) = Len(s) + 1
           /\ (<<f>> \o s)[1] = f
           /\ \A i \in 1..Len(s) : (<<f>> \o s)[i + 1] = s[i]
           /\ \A i \in 2..Len(s) + 1 : (<<f>> \o s)[i] = s[i - 1]
<1>1. <<f>> \in Seq(Frame) /\ Len(<<f>>) = 1 /\ <<f>>[1] = f
  OBVIOUS
<1>2. Len(s) \in Nat
  OBVIOUS
<1>3. /\ <<f>> \o s \in Seq(Frame)
      /\ Len(<<f>> \o s) = 1 + Len(s)
      /\ \A i \in 1..1 + Len(s) : (<<f>> \o s)[i] = IF i <= 1 THEN <<f>>[i] ELSE s[i - 1]
  BY <1>1, ConcatProperties
<1> QED
  BY <1>1, <1>2, <1>3

\* Popping a call.
LEMMA Pop ==
    ASSUME NEW s \in Seq(Frame), s # <<>>
    PROVE  /\ Head(s) = s[1] /\ Head(s) \in Frame
           /\ Tail(s) \in Seq(Frame)
           /\ Len(Tail(s)) + 1 = Len(s)
           /\ Len(s) >= 1
           /\ \A i \in 1..Len(Tail(s)) : Tail(s)[i] = s[i + 1]
           /\ \A i \in 2..Len(s) : s[i] = Tail(s)[i - 1]
<1>1. Len(s) \in Nat /\ Len(s) # 0
  OBVIOUS
<1> QED
  BY <1>1, HeadTailProperties

-----------------------------------------------------------------------------
(* Type correctness.                                                       *)

\* The counters of pending handshakes stay natural numbers.
LEMMA ReleaseHandshakeSlotType ==
    ASSUME TypeOK, NEW STATE c, c \in Conn, ReleaseHandshakeSlot(c)
    PROVE  pendingHandshakes' \in Nat /\ pendingByIp' \in [IP -> Nat]
<1>1. pendingHandshakes' \in Nat
  BY DEF ReleaseHandshakeSlot, TypeOK
<1>2. CASE ipOf[c] \in IP
  <2>1. pendingByIp[ipOf[c]] \in Nat
    BY <1>2 DEF TypeOK
  <2>2. (IF pendingByIp[ipOf[c]] > 0 THEN pendingByIp[ipOf[c]] - 1 ELSE 0) \in Nat
    BY <2>1
  <2> QED
    BY <1>1, <2>2 DEF ReleaseHandshakeSlot, TypeOK
<1>3. CASE ipOf[c] \notin IP
  <2>1. pendingByIp' = pendingByIp
    BY <1>3 DEF ReleaseHandshakeSlot, TypeOK
  <2> QED
    BY <1>1, <2>1 DEF TypeOK
<1> QED
  BY <1>2, <1>3

\* removeConnection keeps the types of what it changes.
LEMMA RemoveConnectionType ==
    ASSUME TypeOK,
           NEW STATE c, c \in Conn, NEW STATE rms, rms \in [Peer -> Conn \cup {NoConn}],
           NEW STATE rest, rest \in Seq(Frame),
           RemoveConnection(c, rms, rest)
    PROVE  /\ phase' \in [Conn -> {"none", "msg1", "msg3", "ready", "closed"}]
           /\ hsTimer' \subseteq Conn /\ freed' \subseteq Conn /\ connections' \subseteq Conn
           /\ rooms' \in [Peer -> Conn \cup {NoConn}]
           /\ pendingHandshakes' \in Nat
           /\ pendingByIp' \in [IP -> Nat]
           /\ mTimer' \in {"armed", "off"}
           /\ routed' \subseteq Peer /\ behind' \subseteq Peer
           /\ syncConn' \in [Peer -> Conn \cup {NoConn}]
           /\ inFlight' \subseteq Peer /\ aged' \subseteq Peer
           /\ dirty' \subseteq Peer /\ forceFull' \subseteq Peer
           /\ calls' \in Seq(Frame)
<1>1. phase' \in [Conn -> {"none", "msg1", "msg3", "ready", "closed"}]
  BY DEF RemoveConnection, TypeOK
<1>2. rooms' \in [Peer -> Conn \cup {NoConn}]
  BY DEF RemoveConnection, RoomDelete, TypeOK
<1>3. connections' \subseteq Conn /\ mTimer' \in {"armed", "off"}
  BY DEF RemoveConnection, TypeOK
<1>4. CASE phase[c] = "ready"
  <2>1. [todo |-> RoomPeers(RoomDelete(rms, c)), force |-> FALSE, conn |-> c] \in Frame
    BY DEF Frame, RoomPeers
  <2>2. calls' \in Seq(Frame)
    BY <1>4, <2>1, Push DEF RemoveConnection
  <2>3. RemovePeer(peerOf[c]) /\ UNCHANGED <<quotaVars, hsTimer, freed>>
    BY <1>4 DEF RemoveConnection
  <2> QED
    BY <1>1, <1>2, <1>3, <2>2, <2>3 DEF RemovePeer, quotaVars, TypeOK
<1>5. CASE phase[c] # "ready"
  <2>1. /\ ReleaseHandshakeSlot(c)
        /\ hsTimer' = hsTimer \ {c}
        /\ freed' = freed \cup {c}
        /\ calls' = rest
        /\ UNCHANGED <<pumpVars, routeVars>>
    BY <1>5 DEF RemoveConnection
  <2>2. pendingHandshakes' \in Nat /\ pendingByIp' \in [IP -> Nat]
    BY <2>1, ReleaseHandshakeSlotType
  <2>3. freed' \subseteq Conn /\ hsTimer' \subseteq Conn
    BY <2>1 DEF TypeOK
  <2> QED
    BY <1>1, <1>2, <1>3, <2>1, <2>2, <2>3 DEF pumpVars, routeVars, TypeOK
<1> QED
  BY <1>4, <1>5

\* sendRouteUpdate keeps the types of what it changes.
LEMMA SendRouteUpdateType ==
    ASSUME TypeOK, NEW STATE c, c \in Conn, NEW STATE force, NEW STATE changed, SendRouteUpdate(c, force, changed),
           peerOf[c] \in Peer
    PROVE  /\ behind' \subseteq Peer
           /\ syncConn' \in [Peer -> Conn \cup {NoConn}]
           /\ inFlight' \subseteq Peer /\ aged' \subseteq Peer
           /\ dirty' \subseteq Peer /\ forceFull' \subseteq Peer
BY DEF SendRouteUpdate, TypeOK

\* Visiting a peer leaves a stack of calls.
LEMMA VisitedType ==
    ASSUME TypeOK, NEW p \in Peer, calls # <<>>
    PROVE  Visited(p) \in Seq(Frame)
<1>1. calls \in Seq(Frame)
  BY DEF TypeOK
<1>2. Top \in Frame /\ Tail(calls) \in Seq(Frame)
  BY <1>1, Pop DEF Top
<1>3. [Top EXCEPT !.todo = @ \ {p}] \in Frame
  BY <1>2 DEF Frame
<1> QED
  BY <1>2, <1>3, Push DEF Visited

\* The initial state has its types.
LEMMA TypeInit == Init => TypeOK
<1> SUFFICES ASSUME Init PROVE TypeOK
  OBVIOUS
<1>1. Idle \in Job
  BY DEF Idle, Job
<1>2. calls \in Seq(Frame)
  BY DEF Init
<1> QED
  BY <1>1, <1>2 DEF Init, TypeOK

\* Every step keeps the types; of RoomInv the proof needs that the connections
\* named by the room and by the job have announced a peer id.
LEMMA TypeStep == TypeOK /\ RoomInv /\ [Next]_vars => TypeOK'
<1> SUFFICES ASSUME TypeOK, RoomInv, [Next]_vars PROVE TypeOK'
  OBVIOUS
<1> USE ConnAssumption, PeerAssumption
<1>1. CASE UNCHANGED vars
  BY <1>1 DEF TypeOK, vars, connVars, quotaVars, pumpVars, routeVars, durVars
<1>2. ASSUME NEW c \in Conn, NEW ip \in IP, Accept(c, ip) PROVE TypeOK'
  BY <1>2 DEF Accept, TypeOK, pumpVars, routeVars, durVars
<1>3. ASSUME NEW c \in Conn, Drop(c) \/ HandshakeTimeout(c) PROVE TypeOK'
  <2>1. RemoveConnection(c, rooms, calls) /\ UNCHANGED <<peerOf, ipOf, durVars, job>>
    BY <1>3 DEF Drop, HandshakeTimeout
  <2>2. rooms \in [Peer -> Conn \cup {NoConn}] /\ calls \in Seq(Frame)
    BY DEF TypeOK
  <2> QED
    BY <2>1, <2>2, RemoveConnectionType DEF TypeOK, durVars
<1>4. ASSUME NEW c \in Conn, NEW p \in Peer, HandshakeMessage1(c, p) PROVE TypeOK'
  <2>1. peerOf' \in [Conn -> Peer \cup {NoPeer}] /\ UNCHANGED <<ipOf, durVars, job>>
    BY <1>4 DEF HandshakeMessage1, TypeOK
  <2>2. CASE phase' = [phase EXCEPT ![c] = "msg3"] /\ UNCHANGED <<hsTimer, freed,
            connections, rooms, quotaVars, mTimer, pumpVars, routeVars, calls>>
    BY <2>1, <2>2 DEF TypeOK, quotaVars, pumpVars, routeVars, durVars
  <2>3. CASE RemoveConnection(c, rooms, calls)
    <3>1. rooms \in [Peer -> Conn \cup {NoConn}] /\ calls \in Seq(Frame)
      BY DEF TypeOK
    <3> QED
      BY <2>1, <2>3, <3>1, RemoveConnectionType DEF TypeOK, durVars
  <2> QED
    BY <1>4, <2>2, <2>3 DEF HandshakeMessage1
<1>5. ASSUME NEW STATE c, c \in Conn, NEW STATE p, p \in Peer, RegisterConnection(c, p),
             peerOf' \in [Conn -> Peer \cup {NoPeer}], UNCHANGED <<ipOf, durVars>>
      PROVE  TypeOK'
  <2>1. job' \in Job
    BY <1>5 DEF RegisterConnection, Idle, Job
  <2>2. [rooms EXCEPT ![p] = c] \in [Peer -> Conn \cup {NoConn}] /\ calls \in Seq(Frame)
    BY <1>5 DEF TypeOK
  <2>3. CASE rooms[p] # NoConn
    <3>1. rooms[p] \in Conn /\ RemoveConnection(rooms[p], [rooms EXCEPT ![p] = c], calls)
      BY <1>5, <2>3 DEF RegisterConnection, TypeOK
    <3> QED
      BY <1>5, <2>1, <2>2, <3>1, RemoveConnectionType DEF TypeOK, durVars
  <2>4. CASE rooms[p] = NoConn
    BY <1>5, <2>1, <2>2, <2>4 DEF RegisterConnection, TypeOK, quotaVars, pumpVars, routeVars, durVars
  <2> QED
    BY <2>3, <2>4
<1>6. ASSUME NEW c \in Conn, HandshakeMessage3(c) PROVE TypeOK'
  <2>1. peerOf[c] \in Peer
    BY <1>6 DEF HandshakeMessage3, RoomInv
  <2> QED
    BY <1>5, <1>6, <2>1 DEF HandshakeMessage3, TypeOK
<1>7. ASSUME NEW c \in Conn, NEW p \in Peer, LegacyHandshake(c, p) PROVE TypeOK'
  <2>1. peerOf' \in [Conn -> Peer \cup {NoPeer}]
    BY <1>7 DEF LegacyHandshake, TypeOK
  <2> QED
    BY <1>5, <1>7, <2>1 DEF LegacyHandshake
<1>8. CASE FinishRegistration
  <2>1. job.conn \in Conn /\ peerOf[job.conn] \in Peer
    BY <1>8 DEF FinishRegistration, RoomInv
  <2>2. pendingHandshakes' \in Nat /\ pendingByIp' \in [IP -> Nat]
    BY <1>8, <2>1, ReleaseHandshakeSlotType DEF FinishRegistration
  <2>3. job' \in Job
    BY <1>8 DEF FinishRegistration, Idle, Job
  <2>4. calls' \in Seq(Frame)
    <3>1. [todo |-> RoomPeers(rooms), force |-> resync, conn |-> NoConn] \in Frame
      BY DEF Frame, RoomPeers, TypeOK
    <3> QED
      BY <1>8, <3>1 DEF FinishRegistration
  <2> QED
    BY <1>8, <2>1, <2>2, <2>3, <2>4 DEF FinishRegistration, TypeOK
<1>9. ASSUME NEW c \in Conn, NEW p \in Peer, ForwardRejected(c, p) PROVE TypeOK'
  <2>1. /\ rooms[p] \in Conn
        /\ RemoveConnection(rooms[p], rooms, calls)
        /\ UNCHANGED <<peerOf, ipOf, durVars, job>>
    BY <1>9 DEF ForwardRejected, Ready
  <2>2. rooms \in [Peer -> Conn \cup {NoConn}] /\ calls \in Seq(Frame)
    BY DEF TypeOK
  <2> QED
    BY <2>1, <2>2, RemoveConnectionType DEF TypeOK, durVars
<1>10. ASSUME NEW c \in Conn, NEW changed \in BOOLEAN, RouteRequest(c, changed) PROVE TypeOK'
  <2>1. peerOf[c] \in Peer
    BY <1>10 DEF RouteRequest, Ready, RoomInv
  <2>2. calls' \in Seq(Frame)
    <3>1. [todo |-> RoomPeers(rooms) \ {peerOf[c]}, force |-> FALSE, conn |-> NoConn] \in Frame
      BY DEF Frame, RoomPeers
    <3> QED
      BY <1>10, <3>1 DEF RouteRequest, TypeOK
  <2>3. SendRouteUpdate(c, FALSE, changed)
    BY <1>10 DEF RouteRequest
  <2> QED
    BY <1>10, <2>1, <2>2, <2>3, SendRouteUpdateType
    DEF RouteRequest, TypeOK, connVars, quotaVars, durVars
<1>11. ASSUME NEW c \in Conn, RouteResponse(c) PROVE TypeOK'
  BY <1>11 DEF RouteResponse, TypeOK, connVars, quotaVars, durVars
<1>13. ASSUME NEW p \in Peer, BroadcastSkip(p) PROVE TypeOK'
  BY <1>13, VisitedType DEF BroadcastSkip, TypeOK, connVars, quotaVars, pumpVars, routeVars, durVars
<1>14. ASSUME NEW p \in Peer, BroadcastSend(p) PROVE TypeOK'
  <2>1. /\ rooms[p] \in Conn
        /\ peerOf[rooms[p]] \in Peer
        /\ SendRouteUpdate(rooms[p], Top.force, FALSE)
    BY <1>14 DEF BroadcastSend, Ready, RoomInv
  <2>2. calls' \in Seq(Frame)
    BY <1>14, VisitedType DEF BroadcastSend
  <2> QED
    BY <1>14, <2>1, <2>2, SendRouteUpdateType
    DEF BroadcastSend, TypeOK, connVars, quotaVars, durVars
<1>15. ASSUME NEW p \in Peer, BroadcastReject(p) PROVE TypeOK'
  <2>1. /\ rooms[p] \in Conn
        /\ Visited(p) \in Seq(Frame)
        /\ rooms \in [Peer -> Conn \cup {NoConn}]
        /\ RemoveConnection(rooms[p], rooms, Visited(p))
        /\ UNCHANGED <<peerOf, ipOf, durVars, job>>
    BY <1>15, VisitedType DEF BroadcastReject, Ready, TypeOK
  <2> QED
    BY <2>1, RemoveConnectionType DEF TypeOK, durVars
<1>16. CASE BroadcastReturn
  <2>1. calls \in Seq(Frame) /\ calls # <<>>
    BY <1>16 DEF TypeOK, BroadcastReturn
  <2>2. Top \in Frame /\ calls' \in Seq(Frame)
    BY <1>16, <2>1, Pop DEF Top, BroadcastReturn
  <2>3. Top.conn \in Conn \cup {NoConn}
    BY <2>2 DEF Frame
  <2> QED
    BY <1>16, <2>2, <2>3 DEF BroadcastReturn, TypeOK, quotaVars, pumpVars, routeVars, durVars
<1>17. ASSUME NEW dead \in SUBSET routed, NEW late \in SUBSET inFlight,
              NEW changed \in BOOLEAN, NEW failed \in SUBSET late,
              CleanExpired(dead, late, failed, changed)
       PROVE  TypeOK'
  <2>1. job' \in Job
    BY <1>17 DEF CleanExpired, Idle, Job, TypeOK
  <2> QED
    BY <1>17, <2>1 DEF CleanExpired, TypeOK, connVars, quotaVars, durVars
<1>18. ASSUME NEW p \in Peer, MaintenanceClose(p) PROVE TypeOK'
  <2>1. job' \in Job /\ UNCHANGED <<peerOf, ipOf, durVars>>
    BY <1>18 DEF MaintenanceClose, Job, TypeOK
  <2>2. rooms \in [Peer -> Conn \cup {NoConn}] /\ calls \in Seq(Frame)
    BY DEF TypeOK
  <2>3. CASE rooms[p] # NoConn
    <3>1. rooms[p] \in Conn /\ RemoveConnection(rooms[p], rooms, calls)
      BY <1>18, <2>2, <2>3 DEF MaintenanceClose
    <3> QED
      BY <2>1, <2>2, <3>1, RemoveConnectionType DEF TypeOK, durVars
  <2>4. CASE rooms[p] = NoConn
    BY <1>18, <2>1, <2>4 DEF MaintenanceClose, TypeOK, quotaVars, pumpVars, routeVars, durVars
  <2> QED
    BY <2>3, <2>4
<1>19. CASE MaintenanceBroadcast
  <2>1. job' \in Job
    BY <1>19 DEF MaintenanceBroadcast, Idle, Job, TypeOK
  <2>2. calls' \in Seq(Frame)
    <3>1. [todo |-> RoomPeers(rooms), force |-> FALSE, conn |-> NoConn] \in Frame
      BY DEF Frame, RoomPeers
    <3> QED
      BY <1>19, <3>1 DEF MaintenanceBroadcast, TypeOK
  <2> QED
    BY <1>19, <2>1, <2>2
    DEF MaintenanceBroadcast, TypeOK, connVars, quotaVars, pumpVars, routeVars, durVars
<1>20. ASSUME NEW c \in Conn, MaintenanceSkip(c) PROVE TypeOK'
  <2>1. job' \in Job
    BY <1>20 DEF MaintenanceSkip, Job, TypeOK
  <2> QED
    BY <1>20, <2>1
    DEF MaintenanceSkip, TypeOK, connVars, quotaVars, pumpVars, routeVars, durVars
<1>21. ASSUME NEW c \in Conn, MaintenanceSend(c) PROVE TypeOK'
  <2>1. job' \in Job /\ UNCHANGED <<peerOf, ipOf, durVars>>
    BY <1>21 DEF MaintenanceSend, Job, TypeOK
  <2>2. CASE SendRouteUpdate(c, FALSE, FALSE) /\ UNCHANGED <<phase, hsTimer, freed,
            connections, rooms, quotaVars, mTimer, routed, calls>>
    <3>1. peerOf[c] \in Peer
      BY <1>21 DEF MaintenanceSend, Ready, RoomInv
    <3> QED
      BY <2>1, <2>2, <3>1, SendRouteUpdateType DEF TypeOK, quotaVars, durVars
  <2>3. CASE RemoveConnection(c, rooms, calls)
    <3>1. rooms \in [Peer -> Conn \cup {NoConn}] /\ calls \in Seq(Frame)
      BY DEF TypeOK
    <3> QED
      BY <2>1, <2>3, <3>1, RemoveConnectionType DEF TypeOK, durVars
  <2> QED
    BY <1>21, <2>2, <2>3 DEF MaintenanceSend
<1>22. CASE MaintenanceEnd
  <2>1. job' \in Job
    BY <1>22 DEF MaintenanceEnd, Idle, Job
  <2> QED
    BY <1>22, <2>1
    DEF MaintenanceEnd, TypeOK, connVars, quotaVars, pumpVars, routeVars, durVars
<1>23. CASE RouteIdStored
  BY <1>23 DEF RouteIdStored, TypeOK, connVars, quotaVars, pumpVars, routeVars
<1>24. CASE Restart
  <2>1. job' \in Job /\ calls' \in Seq(Frame)
    BY <1>24 DEF Restart, Idle, Job
  <2> QED
    BY <1>24, <2>1 DEF Restart, TypeOK
<1> QED
  BY <1>1, <1>2, <1>3, <1>4, <1>6, <1>7, <1>8, <1>9, <1>10, <1>11, <1>13, <1>14, <1>15,
     <1>16, <1>17, <1>18, <1>19, <1>20, <1>21, <1>22, <1>23, <1>24
  DEF Next, Event, Timeout, MaintenanceTimer, Continue

-----------------------------------------------------------------------------
(* The registries.                                                         *)

\* Removing a connection that is not being registered keeps the registries in
\* order: RoomRegistry.delete takes it out of the room if it is there.
LEMMA RemoveConnectionRoom ==
    ASSUME TypeOK, RoomInv,
           NEW STATE c, c \in Conn, NEW STATE rest, rest \in Seq(Frame),
           RemoveConnection(c, rooms, rest),
           job.op = "register" => job.conn # c,
           job' = job \/ (job.op # "register" /\ job'.op # "register"),
           peerOf' \in [Conn -> Peer \cup {NoPeer}],
           \A d \in Conn : d # c => peerOf'[d] = peerOf[d]
    PROVE  RoomInv'
<1> USE ConnAssumption, PeerAssumption
<1>1. /\ phase' \in [Conn -> {"none", "msg1", "msg3", "ready", "closed"}]
      /\ phase'[c] = "closed"
      /\ \A d \in Conn : d # c => phase'[d] = phase[d]
      /\ connections' = connections \ {c}
  BY DEF RemoveConnection, TypeOK
<1>2. /\ \A p \in Peer : rooms'[p] = IF rooms[p] = c THEN NoConn ELSE rooms[p]
      /\ rooms \in [Peer -> Conn \cup {NoConn}]
  BY DEF RemoveConnection, RoomDelete, TypeOK, RoomInv
<1>3. connections' = {d \in Conn : phase'[d] \in Live}
  BY <1>1 DEF RoomInv
<1>4. \A d \in Conn : phase'[d] \in {"msg3", "ready"} => peerOf'[d] \in Peer
  BY <1>1 DEF RoomInv
<1>5. \A d \in Conn : phase'[d] = "ready" => rooms'[peerOf'[d]] = d
  BY <1>1, <1>2 DEF RoomInv
<1>6. ASSUME NEW p \in Peer, rooms'[p] # NoConn
      PROVE  /\ peerOf'[rooms'[p]] = p
             /\ phase'[rooms'[p]] = "ready" \/ (job'.op = "register" /\ job'.conn = rooms'[p])
  <2>1. rooms'[p] = rooms[p] /\ rooms[p] # c /\ rooms[p] \in Conn
    BY <1>2, <1>6
  <2>2. peerOf'[rooms[p]] = peerOf[rooms[p]] /\ phase'[rooms[p]] = phase[rooms[p]]
    BY <1>1, <2>1
  <2> QED
    BY <2>1, <2>2 DEF RoomInv
<1>7. job'.op = "register" =>
        /\ job'.conn \in Conn
        /\ phase'[job'.conn] \in Pending
        /\ peerOf'[job'.conn] \in Peer
        /\ rooms'[peerOf'[job'.conn]] = job'.conn
  BY <1>1, <1>2 DEF RoomInv
<1> QED
  BY <1>3, <1>4, <1>5, <1>6, <1>7 DEF RoomInv

\* The initial state has its registries in order.
LEMMA RoomInit == Init => RoomInv
BY DEF Init, RoomInv, Idle

\* Every step keeps the registries in order.
LEMMA RoomStep == TypeOK /\ RoomInv /\ TypeOK' /\ [Next]_vars => RoomInv'
<1> SUFFICES ASSUME TypeOK, RoomInv, TypeOK', [Next]_vars PROVE RoomInv'
  OBVIOUS
<1> USE ConnAssumption, PeerAssumption
<1> DEFINE Same == /\ UNCHANGED <<phase, connections, rooms, peerOf>>
                   /\ job' = job \/ (job.op # "register" /\ job'.op # "register")
<1>0. Same => RoomInv'
  BY DEF RoomInv, TypeOK
<1>q. Quiescent => job.op = "idle"
  BY DEF Quiescent, Idle
<1>1. CASE UNCHANGED vars
  BY <1>0, <1>1 DEF vars, connVars
<1>2. ASSUME NEW c \in Conn, NEW ip \in IP, Accept(c, ip) PROVE RoomInv'
  BY <1>2 DEF Accept, TypeOK, RoomInv
<1>3. ASSUME NEW c \in Conn, Drop(c) \/ HandshakeTimeout(c) PROVE RoomInv'
  <2>1. /\ RemoveConnection(c, rooms, calls)
        /\ UNCHANGED <<peerOf, job>>
        /\ job.op = "idle"
        /\ calls \in Seq(Frame)
    BY <1>q, <1>3 DEF Drop, HandshakeTimeout, TypeOK
  <2> QED
    BY <2>1, RemoveConnectionRoom DEF TypeOK
<1>4. ASSUME NEW c \in Conn, NEW p \in Peer, HandshakeMessage1(c, p) PROVE RoomInv'
  <2>1. /\ job.op = "idle" /\ job' = job
        /\ phase[c] = "msg1"
        /\ peerOf' = [peerOf EXCEPT ![c] = p]
    BY <1>q, <1>4 DEF HandshakeMessage1
  <2>2. CASE phase' = [phase EXCEPT ![c] = "msg3"] /\ UNCHANGED <<connections, rooms>>
    BY <2>1, <2>2 DEF TypeOK, RoomInv
  <2>3. CASE RemoveConnection(c, rooms, calls)
    <3>1. calls \in Seq(Frame)
      BY DEF TypeOK
    <3> QED
      BY <2>1, <2>3, <3>1, RemoveConnectionRoom DEF TypeOK
  <2> QED
    BY <1>4, <2>2, <2>3 DEF HandshakeMessage1
<1>5. ASSUME NEW STATE c, c \in Conn, NEW STATE p, p \in Peer, RegisterConnection(c, p),
             job.op = "idle",
             phase[c] \in Pending,
             peerOf' = [peerOf EXCEPT ![c] = p]
      PROVE  RoomInv'
  <2>1. job'.op = "register" /\ job'.conn = c
    BY <1>5 DEF RegisterConnection, Idle
  <2> DEFINE r == rooms[p]
  <2>2. /\ r \in Conn \cup {NoConn} /\ r # c
        /\ r \in Conn => peerOf[r] = p /\ phase[r] = "ready"
    BY <1>5 DEF RoomInv, TypeOK
  <2>3. /\ rooms' = [rooms EXCEPT ![p] = c]
        /\ connections' = connections \ {r}
        /\ \A d \in Conn : d # r => phase'[d] = phase[d]
        /\ r \in Conn => phase'[r] = "closed"
    <3>1. CASE r # NoConn
      <4>1. RemoveConnection(r, [rooms EXCEPT ![p] = c], calls)
        BY <1>5, <3>1 DEF RegisterConnection
      <4>2. rooms' = [rooms EXCEPT ![p] = c]
        BY <2>2, <3>1, <4>1 DEF RemoveConnection, RoomDelete, TypeOK
      <4> QED
        BY <2>2, <4>1, <4>2 DEF RemoveConnection, TypeOK
    <3>2. CASE r = NoConn
      BY <1>5, <3>2 DEF RegisterConnection, TypeOK
    <3> QED
      BY <3>1, <3>2
  <2>4. /\ \A d \in Conn : d # c => peerOf'[d] = peerOf[d]
        /\ peerOf'[c] = p
        /\ \A q \in Peer : q # p => rooms'[q] = rooms[q]
        /\ rooms'[p] = c
    BY <1>5, <2>3 DEF TypeOK
  <2> HIDE DEF r
  <2>5. rooms[p] = r /\ phase[c] \in Pending
    BY <1>5 DEF r
  <2>6. connections' = {d \in Conn : phase'[d] \in Live}
    BY <2>2, <2>3 DEF RoomInv
  <2>7. \A d \in Conn : phase'[d] \in {"msg3", "ready"} => peerOf'[d] \in Peer
    BY <1>5, <2>2, <2>3, <2>4 DEF RoomInv
  <2>8. ASSUME NEW d \in Conn, phase'[d] = "ready" PROVE rooms'[peerOf'[d]] = d
    <3>1. d # r /\ d # c /\ phase[d] = "ready" /\ peerOf'[d] = peerOf[d]
      BY <2>2, <2>3, <2>4, <2>5, <2>8
    <3>2. peerOf[d] \in Peer /\ rooms[peerOf[d]] = d
      BY <3>1 DEF RoomInv
    <3>3. peerOf[d] # p
      BY <2>5, <3>1, <3>2
    <3> QED
      BY <2>4, <3>1, <3>2, <3>3
  <2>9. ASSUME NEW q \in Peer, rooms'[q] # NoConn
        PROVE  /\ peerOf'[rooms'[q]] = q
               /\ phase'[rooms'[q]] = "ready" \/ (job'.op = "register" /\ job'.conn = rooms'[q])
    <3>1. CASE q = p
      BY <2>1, <2>4, <3>1
    <3>2. CASE q # p
      <4>1. rooms'[q] = rooms[q] /\ rooms[q] \in Conn
        BY <2>4, <2>9, <3>2 DEF TypeOK
      <4>2. peerOf[rooms[q]] = q /\ phase[rooms[q]] = "ready"
        BY <1>5, <2>9, <4>1 DEF RoomInv
      <4>3. rooms[q] # r /\ rooms[q] # c
        BY <2>2, <2>5, <3>2, <4>1, <4>2
      <4> QED
        BY <2>3, <2>4, <4>1, <4>2, <4>3
    <3> QED
      BY <3>1, <3>2
  <2>10. c \in Conn /\ phase'[c] \in Pending /\ peerOf'[c] \in Peer /\ rooms'[peerOf'[c]] = c
    BY <1>5, <2>2, <2>3, <2>4, <2>5
  <2> QED
    BY <2>1, <2>6, <2>7, <2>8, <2>9, <2>10 DEF RoomInv
<1>6. ASSUME NEW c \in Conn, HandshakeMessage3(c) PROVE RoomInv'
  <2>1. peerOf[c] \in Peer /\ job.op = "idle"
    BY <1>q, <1>6 DEF HandshakeMessage3, RoomInv
  <2>2. peerOf' = [peerOf EXCEPT ![c] = peerOf[c]]
    BY <1>6 DEF HandshakeMessage3, TypeOK
  <2> QED
    BY <1>5, <1>6, <2>1, <2>2 DEF HandshakeMessage3
<1>7. ASSUME NEW c \in Conn, NEW p \in Peer, LegacyHandshake(c, p) PROVE RoomInv'
  BY <1>5, <1>7, <1>q DEF LegacyHandshake
<1>8. CASE FinishRegistration
  BY <1>8 DEF FinishRegistration, RoomInv, TypeOK, Idle
<1>9. ASSUME NEW STATE p, p \in Peer, NEW STATE rest, rest \in Seq(Frame),
             Ready(rooms[p]), RemoveConnection(rooms[p], rooms, rest), peerOf' = peerOf,
             job' = job \/ (job.op # "register" /\ job'.op # "register")
      PROVE  RoomInv'
  <2>1. rooms[p] \in Conn /\ (job.op = "register" => job.conn # rooms[p])
    BY <1>9 DEF Ready, RoomInv
  <2> QED
    BY <1>9, <2>1, RemoveConnectionRoom DEF TypeOK
<1>10. ASSUME NEW c \in Conn, NEW p \in Peer, ForwardRejected(c, p) PROVE RoomInv'
  BY <1>9, <1>10 DEF ForwardRejected, TypeOK
<1>11. ASSUME NEW c \in Conn, NEW changed \in BOOLEAN, RouteRequest(c, changed) PROVE RoomInv'
  BY <1>0, <1>11 DEF RouteRequest, connVars
<1>12. ASSUME NEW c \in Conn, RouteResponse(c) PROVE RoomInv'
  BY <1>0, <1>12 DEF RouteResponse, connVars
<1>13. ASSUME NEW p \in Peer, BroadcastSkip(p) \/ BroadcastSend(p) PROVE RoomInv'
  BY <1>0, <1>13 DEF BroadcastSkip, BroadcastSend, connVars
<1>14. ASSUME NEW p \in Peer, BroadcastReject(p) PROVE RoomInv'
  <2>1. Visited(p) \in Seq(Frame)
    BY <1>14, VisitedType DEF BroadcastReject
  <2> QED
    BY <1>9, <1>14, <2>1 DEF BroadcastReject
<1>15. CASE BroadcastReturn
  BY <1>0, <1>15 DEF BroadcastReturn
<1>16. ASSUME NEW dead \in SUBSET routed, NEW late \in SUBSET inFlight,
              NEW changed \in BOOLEAN, NEW failed \in SUBSET late,
              CleanExpired(dead, late, failed, changed)
       PROVE  RoomInv'
  BY <1>0, <1>q, <1>16 DEF CleanExpired, connVars, Idle
<1>17. ASSUME NEW p \in Peer, MaintenanceClose(p) PROVE RoomInv'
  <2>1. job.op # "register" /\ job'.op # "register" /\ peerOf' = peerOf /\ calls \in Seq(Frame)
    BY <1>17 DEF MaintenanceClose, TypeOK, Job
  <2>2. CASE rooms[p] # NoConn
    <3>1. Ready(rooms[p])
      BY <2>1, <2>2 DEF Ready, RoomInv, TypeOK
    <3> QED
      BY <1>9, <1>17, <2>1, <2>2, <3>1 DEF MaintenanceClose
  <2>3. CASE rooms[p] = NoConn
    BY <1>0, <1>17, <2>1, <2>3 DEF MaintenanceClose
  <2> QED
    BY <2>2, <2>3
<1>18. CASE MaintenanceBroadcast
  BY <1>0, <1>18 DEF MaintenanceBroadcast, connVars, Idle
<1>19. ASSUME NEW c \in Conn, MaintenanceSkip(c) PROVE RoomInv'
  BY <1>0, <1>19 DEF MaintenanceSkip, connVars, TypeOK, Job
<1>20. ASSUME NEW c \in Conn, MaintenanceSend(c) PROVE RoomInv'
  <2>1. job.op # "register" /\ job'.op # "register" /\ peerOf' = peerOf /\ calls \in Seq(Frame)
    BY <1>20 DEF MaintenanceSend, TypeOK, Job
  <2>2. CASE UNCHANGED <<phase, connections, rooms>>
    BY <1>0, <2>1, <2>2
  <2>3. CASE RemoveConnection(c, rooms, calls)
    BY <2>1, <2>3, RemoveConnectionRoom DEF TypeOK
  <2> QED
    BY <1>20, <2>2, <2>3 DEF MaintenanceSend
<1>21. CASE MaintenanceEnd
  BY <1>0, <1>21 DEF MaintenanceEnd, connVars, Idle
<1>22. CASE RouteIdStored
  BY <1>0, <1>22 DEF RouteIdStored, connVars
<1>23. CASE Restart
  BY <1>23 DEF Restart, RoomInv, TypeOK, Idle
<1> QED
  BY <1>1, <1>2, <1>3, <1>4, <1>6, <1>7, <1>8, <1>10, <1>11, <1>12, <1>13, <1>14, <1>15,
     <1>16, <1>17, <1>18, <1>19, <1>20, <1>21, <1>22, <1>23
  DEF Next, Event, Timeout, MaintenanceTimer, Continue

-----------------------------------------------------------------------------
(* The route state mirrors the room.                                       *)

\* Taking a connection out of the room takes its peer id out of the room and
\* out of the route state if it was ready, and nothing otherwise.
LEMMA RemoveConnectionRoute ==
    ASSUME TypeOK, RoomInv,
           NEW STATE c, c \in Conn, NEW STATE rest, rest \in Seq(Frame),
           RemoveConnection(c, rooms, rest),
           job.op = "register" => job.conn # c
    PROVE  \/ /\ phase[c] = "ready" /\ peerOf[c] \in Peer
              /\ RoomPeers(rooms') = RoomPeers(rooms) \ {peerOf[c]}
              /\ routed' = routed \ {peerOf[c]}
           \/ /\ phase[c] # "ready"
              /\ RoomPeers(rooms') = RoomPeers(rooms)
              /\ routed' = routed
<1> USE ConnAssumption, PeerAssumption
<1>1. \A p \in Peer : rooms'[p] = IF rooms[p] = c THEN NoConn ELSE rooms[p]
  BY DEF RemoveConnection, RoomDelete, TypeOK, RoomInv
<1>2. CASE phase[c] = "ready"
  <2>1. peerOf[c] \in Peer /\ \A p \in Peer : rooms[p] = c <=> p = peerOf[c]
    BY <1>2 DEF RoomInv
  <2>2. RoomPeers(rooms') = RoomPeers(rooms) \ {peerOf[c]}
    BY <1>1, <2>1 DEF RoomPeers
  <2> QED
    BY <1>2, <2>1, <2>2 DEF RemoveConnection, RemovePeer
<1>3. CASE phase[c] # "ready"
  <2>1. \A p \in Peer : rooms[p] # c
    BY <1>3 DEF RoomInv
  <2>2. RoomPeers(rooms') = RoomPeers(rooms)
    BY <1>1, <2>1 DEF RoomPeers
  <2> QED
    BY <1>3, <2>2 DEF RemoveConnection, routeVars
<1> QED
  BY <1>2, <1>3

\* The initial route state has no direct peer.
LEMMA RouteInit == Init => RouteInv
BY DEF Init, RouteInv, RoomPeers, Idle

\* Every step keeps the route state in line with the room.
LEMMA RouteStep ==
    TypeOK /\ RoomInv /\ RouteInv /\ TypeOK' /\ RoomInv' /\ [Next]_vars => RouteInv'
<1> SUFFICES ASSUME TypeOK, RoomInv, RouteInv, TypeOK', RoomInv', [Next]_vars PROVE RouteInv'
  OBVIOUS
<1> USE ConnAssumption, PeerAssumption
<1>o. job.op \in {"idle", "register", "close", "visit"} /\ job.fail \subseteq Peer
  BY DEF TypeOK, Job
<1>q. Quiescent => job.op = "idle" /\ calls = <<>>
  BY DEF Quiescent, Idle
<1>0. ASSUME UNCHANGED <<rooms, routed, peerOf>>,
             job' = job \/ (job.op \in {"idle", "visit"} /\ job'.op \in {"idle", "visit"})
      PROVE  RouteInv'
  BY <1>0 DEF RouteInv
<1>1. CASE UNCHANGED vars
  BY <1>0, <1>1 DEF vars, connVars, routeVars
<1>2. ASSUME NEW c \in Conn, NEW ip \in IP, Accept(c, ip) PROVE RouteInv'
  BY <1>0, <1>2 DEF Accept, routeVars
<1>3. ASSUME NEW STATE c, c \in Conn, RemoveConnection(c, rooms, calls),
             job.op \in {"idle", "visit"}, job'.op \in {"idle", "visit"}
      PROVE  RouteInv'
  <2>1. calls \in Seq(Frame)
    BY DEF TypeOK
  <2> QED
    BY <1>3, <2>1, RemoveConnectionRoute DEF RouteInv
<1>4. ASSUME NEW c \in Conn, Drop(c) \/ HandshakeTimeout(c) PROVE RouteInv'
  BY <1>q, <1>3, <1>4 DEF Drop, HandshakeTimeout
<1>5. ASSUME NEW c \in Conn, NEW p \in Peer, HandshakeMessage1(c, p) PROVE RouteInv'
  <2>1. job.op = "idle" /\ job' = job
    BY <1>q, <1>5 DEF HandshakeMessage1
  <2>2. CASE UNCHANGED <<rooms, routed>>
    BY <2>1, <2>2 DEF RouteInv
  <2>3. CASE RemoveConnection(c, rooms, calls)
    BY <1>3, <2>1, <2>3
  <2> QED
    BY <1>5, <2>2, <2>3 DEF HandshakeMessage1, routeVars
<1>6. ASSUME NEW STATE c, c \in Conn, NEW STATE p, p \in Peer, RegisterConnection(c, p),
             job.op = "idle", peerOf'[c] = p
      PROVE  RouteInv'
  <2>1. job'.op = "register" /\ job'.conn = c
    BY <1>6 DEF RegisterConnection, Idle
  <2>2. routed = RoomPeers(rooms)
    BY <1>6 DEF RouteInv
  <2>3. CASE rooms[p] # NoConn
    <3>1. /\ rooms[p] \in Conn /\ peerOf[rooms[p]] = p /\ phase[rooms[p]] = "ready"
          /\ RemoveConnection(rooms[p], [rooms EXCEPT ![p] = c], calls)
      BY <1>6, <2>3 DEF RegisterConnection, RoomInv, TypeOK
    <3>2. routed' = routed \ {p}
      BY <3>1 DEF RemoveConnection, RemovePeer
    <3>3. \A q \in Peer : q # p => rooms'[q] = rooms[q]
      BY <3>1 DEF RemoveConnection, RoomDelete, TypeOK
    <3> QED
      BY <1>6, <2>1, <2>2, <3>2, <3>3 DEF RouteInv, RoomPeers
  <2>4. CASE rooms[p] = NoConn
    <3>1. rooms' = [rooms EXCEPT ![p] = c] /\ routed' = routed
      BY <1>6, <2>4 DEF RegisterConnection, routeVars
    <3> QED
      BY <1>6, <2>1, <2>2, <2>4, <3>1 DEF RouteInv, RoomPeers, TypeOK
  <2> QED
    BY <2>3, <2>4
<1>7. ASSUME NEW c \in Conn, HandshakeMessage3(c) PROVE RouteInv'
  BY <1>q, <1>6, <1>7 DEF HandshakeMessage3, RoomInv
<1>8. ASSUME NEW c \in Conn, NEW p \in Peer, LegacyHandshake(c, p) PROVE RouteInv'
  BY <1>q, <1>6, <1>8 DEF LegacyHandshake, TypeOK
<1>9. CASE FinishRegistration
  <2>1. /\ routed = RoomPeers(rooms) \ {peerOf[job.conn]}
        /\ peerOf[job.conn] \in RoomPeers(rooms)
    BY <1>9 DEF FinishRegistration, RouteInv, RoomInv, RoomPeers
  <2> QED
    BY <1>9, <2>1 DEF FinishRegistration, RouteInv, Idle
<1>10. ASSUME NEW c \in Conn, NEW p \in Peer, ForwardRejected(c, p) PROVE RouteInv'
  BY <1>q, <1>3, <1>10 DEF ForwardRejected, Ready
<1>11. ASSUME NEW c \in Conn, NEW changed \in BOOLEAN, RouteRequest(c, changed) PROVE RouteInv'
  BY <1>0, <1>11 DEF RouteRequest, connVars
<1>12. ASSUME NEW c \in Conn, RouteResponse(c) PROVE RouteInv'
  BY <1>0, <1>12 DEF RouteResponse, connVars
<1>13. ASSUME NEW p \in Peer, BroadcastSkip(p) \/ BroadcastSend(p) PROVE RouteInv'
  BY <1>0, <1>13 DEF BroadcastSkip, BroadcastSend, connVars, routeVars
<1>14. ASSUME NEW p \in Peer, BroadcastReject(p) PROVE RouteInv'
  <2>1. /\ rooms[p] \in Conn /\ phase[rooms[p]] = "ready" /\ job' = job /\ peerOf' = peerOf
        /\ RemoveConnection(rooms[p], rooms, Visited(p))
        /\ Visited(p) \in Seq(Frame)
    BY <1>14, VisitedType DEF BroadcastReject, Ready
  <2>2. job.op = "register" => job.conn # rooms[p]
    BY <2>1 DEF RoomInv
  <2>3. /\ RoomPeers(rooms') = RoomPeers(rooms) \ {peerOf[rooms[p]]}
        /\ routed' = routed \ {peerOf[rooms[p]]}
    BY <2>1, <2>2, RemoveConnectionRoute
  <2> QED
    BY <2>1, <2>3 DEF RouteInv
<1>15. CASE BroadcastReturn
  BY <1>0, <1>15 DEF BroadcastReturn, routeVars
<1>16. ASSUME NEW dead \in SUBSET routed, NEW late \in SUBSET inFlight,
              NEW changed \in BOOLEAN, NEW failed \in SUBSET late,
              CleanExpired(dead, late, failed, changed)
       PROVE  RouteInv'
  BY <1>q, <1>16 DEF CleanExpired, RouteInv, Idle
<1>17. ASSUME NEW p \in Peer, MaintenanceClose(p) PROVE RouteInv'
  <2>1. /\ job.op = "close" /\ job'.op = "close" /\ job'.fail = job.fail \ {p}
        /\ calls \in Seq(Frame)
    BY <1>17 DEF MaintenanceClose, TypeOK, Job
  <2>2. CASE rooms[p] # NoConn
    <3>1. rooms[p] \in Conn /\ phase[rooms[p]] = "ready" /\ peerOf[rooms[p]] = p
      BY <2>1, <2>2 DEF RoomInv, TypeOK
    <3>2. RemoveConnection(rooms[p], rooms, calls)
      BY <1>17, <2>2 DEF MaintenanceClose
    <3>3. RoomPeers(rooms') = RoomPeers(rooms) \ {p} /\ routed' = routed \ {p}
      BY <2>1, <3>1, <3>2, RemoveConnectionRoute
    <3> QED
      BY <2>1, <3>3 DEF RouteInv
  <2>3. CASE rooms[p] = NoConn
    <3>1. UNCHANGED <<rooms, routed>> /\ p \notin RoomPeers(rooms)
      BY <1>17, <2>3 DEF MaintenanceClose, RoomPeers, routeVars
    <3> QED
      BY <2>1, <3>1 DEF RouteInv
  <2> QED
    BY <2>2, <2>3
<1>18. CASE MaintenanceBroadcast
  BY <1>18 DEF MaintenanceBroadcast, RouteInv, routeVars, Idle
<1>19. ASSUME NEW c \in Conn, MaintenanceSkip(c) PROVE RouteInv'
  BY <1>0, <1>19 DEF MaintenanceSkip, connVars, routeVars, TypeOK, Job
<1>20. ASSUME NEW c \in Conn, MaintenanceSend(c) PROVE RouteInv'
  <2>1. job.op = "visit" /\ job'.op = "visit" /\ peerOf' = peerOf
    BY <1>20 DEF MaintenanceSend, TypeOK, Job
  <2>2. CASE UNCHANGED <<rooms, routed>>
    BY <1>0, <2>1, <2>2
  <2>3. CASE RemoveConnection(c, rooms, calls)
    BY <1>3, <2>1, <2>3
  <2> QED
    BY <1>20, <2>2, <2>3 DEF MaintenanceSend
<1>21. CASE MaintenanceEnd
  BY <1>0, <1>21 DEF MaintenanceEnd, connVars, routeVars, Idle
<1>22. CASE RouteIdStored
  BY <1>0, <1>22 DEF RouteIdStored, connVars, routeVars
<1>23. CASE Restart
  BY <1>23 DEF Restart, RouteInv, RoomPeers, Idle
<1> QED
  BY <1>1, <1>2, <1>4, <1>5, <1>7, <1>8, <1>9, <1>10, <1>11, <1>12, <1>13, <1>14, <1>15,
     <1>16, <1>17, <1>18, <1>19, <1>20, <1>21, <1>22, <1>23
  DEF Next, Event, Timeout, MaintenanceTimer, Continue

-----------------------------------------------------------------------------
(* Disposal.                                                               *)

\* The connections a stack of calls is going to dispose of, and that it
\* disposes of none of them twice.
DisposedBy(s) == {c \in Conn : \E i \in 1..Len(s) : s[i].conn = c}
Distinct(s) == \A i, j \in 1..Len(s) : s[i].conn = s[j].conn /\ i # j => s[i].conn = NoConn

\* Pushing a call that disposes of a connection no other call disposes of.
LEMMA PushDisposal ==
    ASSUME NEW f \in Frame, NEW s \in Seq(Frame), Distinct(s), f.conn \notin DisposedBy(s)
    PROVE  /\ DisposedBy(<<f>> \o s) = DisposedBy(s) \cup ({f.conn} \ {NoConn})
           /\ Distinct(<<f>> \o s)
<1> DEFINE t == <<f>> \o s
<1>1. /\ t \in Seq(Frame) /\ Len(t) = Len(s) + 1 /\ t[1] = f /\ Len(s) \in Nat
      /\ \A i \in 1..Len(s) : t[i + 1] = s[i]
      /\ \A i \in 2..Len(s) + 1 : t[i] = s[i - 1]
  BY Push
<1>2. f.conn \in Conn \cup {NoConn}
  BY DEF Frame
<1> HIDE DEF t
<1>3. ASSUME NEW c \in Conn PROVE c \in DisposedBy(t) <=> c \in DisposedBy(s) \cup ({f.conn} \ {NoConn})
  <2>1. ASSUME c \in DisposedBy(t) PROVE c \in DisposedBy(s) \cup {f.conn}
    <3>1. PICK i \in 1..Len(t) : t[i].conn = c
      BY <2>1 DEF DisposedBy
    <3>2. CASE i = 1
      BY <1>1, <3>1, <3>2
    <3>3. CASE i # 1
      <4>1. i - 1 \in 1..Len(s) /\ t[i] = s[i - 1]
        BY <1>1, <3>3
      <4> QED
        BY <3>1, <4>1 DEF DisposedBy
    <3> QED
      BY <3>2, <3>3
  <2>2. ASSUME c \in DisposedBy(s) PROVE c \in DisposedBy(t)
    <3>1. PICK i \in 1..Len(s) : s[i].conn = c
      BY <2>2 DEF DisposedBy
    <3>2. i + 1 \in 1..Len(t) /\ t[i + 1].conn = c
      BY <1>1, <3>1
    <3> QED
      BY <3>2 DEF DisposedBy
  <2>3. ASSUME c = f.conn PROVE c \in DisposedBy(t)
    <3>1. 1 \in 1..Len(t) /\ t[1].conn = c
      BY <1>1, <2>3
    <3> QED
      BY <3>1 DEF DisposedBy
  <2> QED
    BY <2>1, <2>2, <2>3, ConnAssumption
<1>4. DisposedBy(t) = DisposedBy(s) \cup ({f.conn} \ {NoConn})
  BY <1>2, <1>3 DEF DisposedBy
<1>5. Distinct(t)
  <2> SUFFICES ASSUME NEW i \in 1..Len(t), NEW j \in 1..Len(t), i # j, t[i].conn = t[j].conn
               PROVE  t[i].conn = NoConn
    BY DEF Distinct
  <2>1. ASSUME NEW k \in 1..Len(t), k # 1, f.conn = t[k].conn PROVE f.conn = NoConn
    <3>1. k - 1 \in 1..Len(s) /\ t[k] = s[k - 1]
      BY <1>1, <2>1
    <3> QED
      BY <1>2, <2>1, <3>1 DEF DisposedBy
  <2>2. CASE i = 1 \/ j = 1
    BY <1>1, <2>1, <2>2
  <2>3. CASE i # 1 /\ j # 1
    <3>1. i - 1 \in 1..Len(s) /\ j - 1 \in 1..Len(s) /\ t[i] = s[i - 1] /\ t[j] = s[j - 1]
      BY <1>1, <2>3
    <3> QED
      BY <3>1 DEF Distinct
  <2> QED
    BY <2>2, <2>3
<1> QED
  BY <1>4, <1>5 DEF t

\* Popping a call: what it disposes of is no longer waiting.
LEMMA PopDisposal ==
    ASSUME NEW s \in Seq(Frame), s # <<>>, Distinct(s)
    PROVE  /\ DisposedBy(Tail(s)) = DisposedBy(s) \ {Head(s).conn}
           /\ Distinct(Tail(s))
           /\ Head(s).conn # NoConn => Head(s).conn \in DisposedBy(s)
<1> DEFINE t == Tail(s)
<1>1. /\ t \in Seq(Frame) /\ Len(s) = Len(t) + 1 /\ s[1] = Head(s) /\ Len(t) \in Nat
      /\ Head(s) \in Frame
      /\ \A i \in 1..Len(t) : t[i] = s[i + 1]
      /\ \A i \in 2..Len(s) : s[i] = t[i - 1]
  BY Pop
<1> HIDE DEF t
<1>2. ASSUME NEW c \in Conn PROVE c \in DisposedBy(t) <=> c \in DisposedBy(s) \ {Head(s).conn}
  <2>1. ASSUME c \in DisposedBy(t) PROVE c \in DisposedBy(s) \ {Head(s).conn}
    <3>1. PICK i \in 1..Len(t) : t[i].conn = c
      BY <2>1 DEF DisposedBy
    <3>2. i + 1 \in 1..Len(s) /\ s[i + 1].conn = c /\ 1 \in 1..Len(s) /\ i + 1 # 1
      BY <1>1, <3>1
    <3>3. c # s[1].conn
      BY <3>2, ConnAssumption DEF Distinct
    <3> QED
      BY <1>1, <3>2, <3>3 DEF DisposedBy
  <2>2. ASSUME c \in DisposedBy(s), c # Head(s).conn PROVE c \in DisposedBy(t)
    <3>1. PICK i \in 1..Len(s) : s[i].conn = c
      BY <2>2 DEF DisposedBy
    <3>2. i - 1 \in 1..Len(t) /\ t[i - 1].conn = c
      BY <1>1, <2>2, <3>1
    <3> QED
      BY <3>2 DEF DisposedBy
  <2> QED
    BY <2>1, <2>2
<1>3. DisposedBy(t) = DisposedBy(s) \ {Head(s).conn}
  BY <1>2 DEF DisposedBy
<1>4. Distinct(t)
  <2> SUFFICES ASSUME NEW i \in 1..Len(t), NEW j \in 1..Len(t), i # j, t[i].conn = t[j].conn
               PROVE  t[i].conn = NoConn
    BY DEF Distinct
  <2>1. /\ i + 1 \in 1..Len(s) /\ j + 1 \in 1..Len(s) /\ i + 1 # j + 1
        /\ t[i] = s[i + 1] /\ t[j] = s[j + 1]
    BY <1>1
  <2> QED
    BY <2>1 DEF Distinct
<1>5. Head(s).conn # NoConn => Head(s).conn \in DisposedBy(s)
  <2>1. 1 \in 1..Len(s) /\ s[1].conn = Head(s).conn /\ Head(s).conn \in Conn \cup {NoConn}
    BY <1>1 DEF Frame
  <2> QED
    BY <2>1 DEF DisposedBy
<1> QED
  BY <1>3, <1>4, <1>5 DEF t

\* Visiting a peer changes nothing of it.
LEMMA VisitedDisposal ==
    ASSUME TypeOK, NEW p \in Peer, calls # <<>>, Distinct(calls)
    PROVE  /\ DisposedBy(Visited(p)) = DisposedBy(calls)
           /\ Distinct(Visited(p))
<1> DEFINE f == [Top EXCEPT !.todo = @ \ {p}]
<1>1. calls \in Seq(Frame)
  BY DEF TypeOK
<1>2. Top \in Frame /\ Tail(calls) \in Seq(Frame)
  BY <1>1, Pop DEF Top
<1>3. f \in Frame /\ f.conn = Top.conn
  BY <1>2 DEF Frame
<1>4. /\ DisposedBy(Tail(calls)) = DisposedBy(calls) \ {Top.conn}
      /\ Distinct(Tail(calls))
      /\ Top.conn # NoConn => Top.conn \in DisposedBy(calls)
  BY <1>1, PopDisposal DEF Top
<1> HIDE DEF f
<1>5. /\ DisposedBy(<<f>> \o Tail(calls)) = DisposedBy(Tail(calls)) \cup ({f.conn} \ {NoConn})
      /\ Distinct(<<f>> \o Tail(calls))
  BY <1>2, <1>3, <1>4, PushDisposal
<1>6. NoConn \notin DisposedBy(calls)
  BY ConnAssumption DEF DisposedBy
<1>7. Visited(p) = <<f>> \o Tail(calls)
  BY DEF Visited, f
<1> QED
  BY <1>3, <1>4, <1>5, <1>6, <1>7

\* The three parts of FreedOnce in terms of the stack of calls.
LEMMA FreedOnceForm ==
    FreedOnce <=> /\ freed \cap DisposedBy(calls) = {}
                  /\ freed \cup DisposedBy(calls) = {c \in Conn : phase[c] = "closed"}
                  /\ Distinct(calls)
BY DEF FreedOnce, Disposing, DisposedBy, Distinct

\* Removing a connection: either it is disposed of at once, or the broadcast
\* that starts will dispose of it.
LEMMA RemoveConnectionFreed ==
    ASSUME TypeOK, FreedOnce,
           NEW STATE c, c \in Conn, NEW STATE rms, rms \in [Peer -> Conn \cup {NoConn}],
           NEW STATE rest, rest \in Seq(Frame), RemoveConnection(c, rms, rest),
           Distinct(rest), DisposedBy(rest) = DisposedBy(calls)
    PROVE  FreedOnce'
<1> DEFINE closed == {d \in Conn : phase[d] = "closed"}
<1>1. /\ freed \cap DisposedBy(rest) = {}
      /\ freed \cup DisposedBy(rest) = closed
  BY FreedOnceForm
<1>2. c \notin closed /\ {d \in Conn : phase'[d] = "closed"} = closed \cup {c}
  BY DEF RemoveConnection, TypeOK
<1>3. /\ freed' \cap DisposedBy(calls') = {}
      /\ freed' \cup DisposedBy(calls') = closed \cup {c}
      /\ Distinct(calls')
  <2>1. CASE phase[c] = "ready"
    <3> DEFINE f == [todo |-> RoomPeers(RoomDelete(rms, c)), force |-> FALSE, conn |-> c]
    <3>1. f \in Frame /\ f.conn = c
      BY DEF Frame, RoomPeers
    <3>2. calls' = <<f>> \o rest /\ freed' = freed
      BY <2>1 DEF RemoveConnection
    <3> HIDE DEF f
    <3>3. /\ DisposedBy(<<f>> \o rest) = DisposedBy(rest) \cup ({c} \ {NoConn})
          /\ Distinct(<<f>> \o rest)
      BY <1>1, <1>2, <3>1, PushDisposal
    <3> QED
      BY <1>1, <1>2, <3>2, <3>3, ConnAssumption
  <2>2. CASE phase[c] # "ready"
    <3>1. calls' = rest /\ freed' = freed \cup {c}
      BY <2>2 DEF RemoveConnection
    <3> QED
      BY <1>1, <1>2, <3>1
  <2> QED
    BY <2>1, <2>2
<1> HIDE DEF closed
<1>4. FreedOnce' <=> /\ freed' \cap DisposedBy(calls') = {}
                     /\ freed' \cup DisposedBy(calls') = {d \in Conn : phase'[d] = "closed"}
                     /\ Distinct(calls')
  BY DEF FreedOnce, Disposing, DisposedBy, Distinct
<1> QED
  BY <1>2, <1>3, <1>4

\* Initially nothing is closed.
LEMMA FreedInit == Init => FreedOnce
BY DEF Init, FreedOnce, Disposing

\* Every step keeps the account of what is disposed of.
LEMMA FreedStep == TypeOK /\ RoomInv /\ FreedOnce /\ [Next]_vars => FreedOnce'
<1> SUFFICES ASSUME TypeOK, RoomInv, FreedOnce, [Next]_vars PROVE FreedOnce'
  OBVIOUS
<1> USE ConnAssumption, PeerAssumption
<1>t. /\ calls \in Seq(Frame)
      /\ rooms \in [Peer -> Conn \cup {NoConn}]
      /\ phase \in [Conn -> {"none", "msg1", "msg3", "ready", "closed"}]
  BY DEF TypeOK
<1>d. Distinct(calls)
  BY FreedOnceForm
<1>f. FreedOnce' <=> /\ freed' \cap DisposedBy(calls') = {}
                     /\ freed' \cup DisposedBy(calls') = {d \in Conn : phase'[d] = "closed"}
                     /\ Distinct(calls')
  BY DEF FreedOnce, Disposing, DisposedBy, Distinct
<1>0. ASSUME freed' = freed,
             \A d \in Conn : phase'[d] = "closed" <=> phase[d] = "closed",
             DisposedBy(calls') = DisposedBy(calls), Distinct(calls')
      PROVE  FreedOnce'
  BY <1>0, <1>f, FreedOnceForm
<1>e. ASSUME calls = <<>>, NEW STATE todo, todo \in SUBSET Peer, NEW STATE force, force \in BOOLEAN,
             calls' = <<[todo |-> todo, force |-> force, conn |-> NoConn]>>
      PROVE  DisposedBy(calls') = DisposedBy(calls) /\ Distinct(calls')
  <2>1. DisposedBy(calls) = {}
    BY <1>e DEF DisposedBy
  <2>2. Len(calls') = 1 /\ calls'[1].conn = NoConn
    BY <1>e
  <2>3. \A i \in 1..Len(calls') : calls'[i].conn = NoConn
    BY <2>2
  <2> QED
    BY <2>1, <2>3 DEF DisposedBy, Distinct
<1>1. CASE UNCHANGED vars
  BY <1>0, <1>1, <1>d DEF vars, connVars
<1>2. ASSUME NEW c \in Conn, NEW ip \in IP, Accept(c, ip) PROVE FreedOnce'
  BY <1>0, <1>2, <1>d, <1>t DEF Accept
<1>3. ASSUME NEW STATE c, c \in Conn, RemoveConnection(c, rooms, calls) PROVE FreedOnce'
  BY <1>3, <1>d, <1>t, RemoveConnectionFreed
<1>4. ASSUME NEW c \in Conn, Drop(c) \/ HandshakeTimeout(c) PROVE FreedOnce'
  BY <1>3, <1>4 DEF Drop, HandshakeTimeout
<1>5. ASSUME NEW c \in Conn, NEW p \in Peer, HandshakeMessage1(c, p) PROVE FreedOnce'
  <2>1. CASE phase' = [phase EXCEPT ![c] = "msg3"] /\ UNCHANGED <<freed, calls>>
    BY <1>0, <1>5, <1>d, <1>t, <2>1 DEF HandshakeMessage1
  <2>2. CASE RemoveConnection(c, rooms, calls)
    BY <1>3, <2>2
  <2> QED
    BY <1>5, <2>1, <2>2 DEF HandshakeMessage1
<1>6. ASSUME NEW STATE c, c \in Conn, NEW STATE p, p \in Peer, RegisterConnection(c, p) PROVE FreedOnce'
  <2>1. CASE rooms[p] # NoConn
    <3>1. /\ rooms[p] \in Conn
          /\ [rooms EXCEPT ![p] = c] \in [Peer -> Conn \cup {NoConn}]
          /\ RemoveConnection(rooms[p], [rooms EXCEPT ![p] = c], calls)
      BY <1>6, <1>t, <2>1 DEF RegisterConnection
    <3> QED
      BY <1>d, <1>t, <3>1, RemoveConnectionFreed
  <2>2. CASE rooms[p] = NoConn
    BY <1>0, <1>6, <1>d, <2>2 DEF RegisterConnection
  <2> QED
    BY <2>1, <2>2
<1>7. ASSUME NEW c \in Conn, HandshakeMessage3(c) PROVE FreedOnce'
  BY <1>6, <1>7 DEF HandshakeMessage3, RoomInv
<1>8. ASSUME NEW c \in Conn, NEW p \in Peer, LegacyHandshake(c, p) PROVE FreedOnce'
  BY <1>6, <1>8 DEF LegacyHandshake
<1>9. CASE FinishRegistration
  <2>1. /\ job.conn \in Conn /\ phase[job.conn] \in Pending
        /\ phase' = [phase EXCEPT ![job.conn] = "ready"]
        /\ freed' = freed
    BY <1>9 DEF FinishRegistration, RoomInv
  <2>2. DisposedBy(calls') = DisposedBy(calls) /\ Distinct(calls')
    <3>1. RoomPeers(rooms) \in SUBSET Peer /\ resync \in BOOLEAN
      BY DEF RoomPeers, TypeOK
    <3> QED
      BY <1>9, <1>e, <3>1 DEF FinishRegistration
  <2> QED
    BY <1>0, <1>t, <2>1, <2>2
<1>10. ASSUME NEW c \in Conn, NEW p \in Peer, ForwardRejected(c, p) PROVE FreedOnce'
  BY <1>3, <1>10 DEF ForwardRejected, Ready
<1>11. ASSUME NEW c \in Conn, NEW changed \in BOOLEAN, RouteRequest(c, changed) PROVE FreedOnce'
  <2>1. calls = <<>> /\ UNCHANGED <<phase, freed>>
    BY <1>11 DEF RouteRequest, Quiescent, connVars
  <2>2. DisposedBy(calls') = DisposedBy(calls) /\ Distinct(calls')
    <3>1. (RoomPeers(rooms) \ {peerOf[c]}) \in SUBSET Peer
      BY DEF RoomPeers
    <3> QED
      BY <1>11, <1>d, <1>e, <2>1, <3>1 DEF RouteRequest
  <2> QED
    BY <1>0, <2>1, <2>2
<1>12. ASSUME NEW c \in Conn, RouteResponse(c) PROVE FreedOnce'
  BY <1>0, <1>12, <1>d DEF RouteResponse, connVars
<1>13. ASSUME NEW p \in Peer, BroadcastSkip(p) \/ BroadcastSend(p) PROVE FreedOnce'
  <2>1. calls # <<>> /\ calls' = Visited(p) /\ UNCHANGED <<phase, freed>>
    BY <1>13 DEF BroadcastSkip, BroadcastSend, connVars
  <2> QED
    BY <1>0, <1>d, <2>1, VisitedDisposal
<1>14. ASSUME NEW p \in Peer, BroadcastReject(p) PROVE FreedOnce'
  <2>1. calls # <<>> /\ rooms[p] \in Conn /\ RemoveConnection(rooms[p], rooms, Visited(p))
    BY <1>14 DEF BroadcastReject, Ready
  <2> QED
    BY <1>d, <1>t, <2>1, VisitedType, VisitedDisposal, RemoveConnectionFreed
<1>15. CASE BroadcastReturn
  <2>1. /\ calls # <<>> /\ calls' = Tail(calls) /\ phase' = phase
        /\ freed' = freed \cup ({Top.conn} \ {NoConn})
    BY <1>15 DEF BroadcastReturn
  <2>2. /\ DisposedBy(calls') = DisposedBy(calls) \ {Top.conn}
        /\ Distinct(calls')
        /\ Top.conn # NoConn => Top.conn \in DisposedBy(calls)
    BY <1>d, <1>t, <2>1, PopDisposal DEF Top
  <2>3. NoConn \notin DisposedBy(calls)
    BY DEF DisposedBy
  <2>4. /\ freed' \cap DisposedBy(calls') = {}
        /\ freed' \cup DisposedBy(calls') = freed \cup DisposedBy(calls)
    BY <2>1, <2>2, <2>3, FreedOnceForm
  <2> QED
    BY <1>f, <2>1, <2>2, <2>4, FreedOnceForm
<1>16. ASSUME NEW dead \in SUBSET routed, NEW late \in SUBSET inFlight,
              NEW changed \in BOOLEAN, NEW failed \in SUBSET late,
              CleanExpired(dead, late, failed, changed)
       PROVE  FreedOnce'
  BY <1>0, <1>d, <1>16 DEF CleanExpired, connVars
<1>17. ASSUME NEW p \in Peer, MaintenanceClose(p) PROVE FreedOnce'
  <2>1. CASE rooms[p] # NoConn
    BY <1>3, <1>17, <1>t, <2>1 DEF MaintenanceClose
  <2>2. CASE rooms[p] = NoConn
    BY <1>0, <1>d, <1>17, <2>2 DEF MaintenanceClose
  <2> QED
    BY <2>1, <2>2
<1>18. CASE MaintenanceBroadcast
  <2>1. calls = <<>> /\ UNCHANGED <<phase, freed>>
    BY <1>18 DEF MaintenanceBroadcast, connVars
  <2>2. DisposedBy(calls') = DisposedBy(calls) /\ Distinct(calls')
    <3>1. RoomPeers(rooms) \in SUBSET Peer
      BY DEF RoomPeers
    <3> QED
      BY <1>18, <1>d, <1>e, <2>1, <3>1 DEF MaintenanceBroadcast
  <2> QED
    BY <1>0, <2>1, <2>2
<1>19. ASSUME NEW c \in Conn, MaintenanceSkip(c) PROVE FreedOnce'
  BY <1>0, <1>d, <1>19 DEF MaintenanceSkip, connVars
<1>20. ASSUME NEW c \in Conn, MaintenanceSend(c) PROVE FreedOnce'
  <2>1. CASE UNCHANGED <<phase, freed, calls>>
    BY <1>0, <1>d, <2>1
  <2>2. CASE RemoveConnection(c, rooms, calls)
    BY <1>3, <2>2
  <2> QED
    BY <1>20, <2>1, <2>2 DEF MaintenanceSend
<1>21. CASE MaintenanceEnd
  BY <1>0, <1>d, <1>21 DEF MaintenanceEnd, connVars
<1>22. CASE RouteIdStored
  BY <1>0, <1>d, <1>22 DEF RouteIdStored, connVars
<1>23. CASE Restart
  <2>1. DisposedBy(calls') = {} /\ Distinct(calls')
    BY <1>23 DEF Restart, DisposedBy, Distinct
  <2>2. freed' = {d \in Conn : phase'[d] = "closed"}
    BY <1>23, <1>t DEF Restart
  <2> QED
    BY <1>f, <2>1, <2>2
<1> QED
  BY <1>1, <1>2, <1>4, <1>5, <1>7, <1>8, <1>9, <1>10, <1>11, <1>12, <1>13, <1>14, <1>15,
     <1>16, <1>17, <1>18, <1>19, <1>20, <1>21, <1>22, <1>23
  DEF Next, Event, Timeout, MaintenanceTimer, Continue

-----------------------------------------------------------------------------
(* The timers.                                                             *)

\* Removing a connection that is not being registered stops its handshake
\* timer, and the maintenance timer with the last connection.
LEMMA RemoveConnectionTimers ==
    ASSUME TypeOK, RoomInv, TimerInv,
           NEW STATE c, c \in Conn, NEW STATE rms, NEW STATE rest, RemoveConnection(c, rms, rest),
           \/ job'.op = job.op
           \/ job.op \in {"idle", "register"} /\ job'.op \in {"idle", "register"}
    PROVE  TimerInv'
<1> USE ConnAssumption
<1>1. /\ phase' = [phase EXCEPT ![c] = "closed"] /\ phase[c] \in Live
      /\ phase \in [Conn -> {"none", "msg1", "msg3", "ready", "closed"}]
      /\ hsTimer' = IF phase[c] = "ready" THEN hsTimer ELSE hsTimer \ {c}
  BY DEF RemoveConnection, TypeOK
<1>2. hsTimer' = {d \in Conn : phase'[d] \in Pending}
  BY <1>1 DEF TimerInv
<1>3. /\ connections' = connections \ {c} /\ c \in connections
      /\ mTimer' = IF connections' = {} THEN "off" ELSE mTimer
  BY <1>1 DEF RemoveConnection, RoomInv
<1> QED
  BY <1>2, <1>3 DEF TimerInv

\* Initially no timer is set.
LEMMA TimerInit == Init => TimerInv
BY DEF Init, TimerInv, Idle

\* Every step keeps the timers as they should be.
LEMMA TimerStep ==
    TypeOK /\ RoomInv /\ FreedOnce /\ TimerInv /\ TypeOK' /\ [Next]_vars => TimerInv'
<1> SUFFICES ASSUME TypeOK, RoomInv, FreedOnce, TimerInv, TypeOK', [Next]_vars PROVE TimerInv'
  OBVIOUS
<1> USE ConnAssumption, PeerAssumption
<1>o. job.op \in {"idle", "register", "close", "visit"}
  BY DEF TypeOK, Job
<1>q. Quiescent => job.op = "idle"
  BY DEF Quiescent, Idle
<1>0. ASSUME UNCHANGED <<phase, hsTimer, connections, mTimer>>,
             \/ job'.op = job.op
             \/ job.op \in {"close", "visit"} /\ job'.op \in {"close", "visit"}
             \/ job.op \in {"idle", "register"} /\ job'.op \in {"idle", "register"}
      PROVE  TimerInv'
  BY <1>0 DEF TimerInv
<1>1. CASE UNCHANGED vars
  BY <1>0, <1>1 DEF vars, connVars
<1>2. ASSUME NEW c \in Conn, NEW ip \in IP, Accept(c, ip) PROVE TimerInv'
  <2>1. /\ hsTimer' = {d \in Conn : phase'[d] \in Pending}
        /\ job'.op = "idle" /\ mTimer' = "armed" /\ c \in connections'
    BY <1>2, <1>q DEF Accept, TimerInv, TypeOK
  <2> QED
    BY <2>1 DEF TimerInv
<1>3. ASSUME NEW c \in Conn, Drop(c) \/ HandshakeTimeout(c) PROVE TimerInv'
  BY <1>3, RemoveConnectionTimers DEF Drop, HandshakeTimeout
<1>4. ASSUME NEW c \in Conn, NEW p \in Peer, HandshakeMessage1(c, p) PROVE TimerInv'
  <2>1. CASE phase' = [phase EXCEPT ![c] = "msg3"] /\ UNCHANGED <<hsTimer, connections, mTimer>>
    BY <1>4, <2>1 DEF HandshakeMessage1, TimerInv, TypeOK
  <2>2. CASE RemoveConnection(c, rooms, calls)
    BY <1>4, <2>2, RemoveConnectionTimers DEF HandshakeMessage1
  <2> QED
    BY <1>4, <2>1, <2>2 DEF HandshakeMessage1
<1>5. ASSUME NEW STATE c, c \in Conn, NEW STATE p, p \in Peer, RegisterConnection(c, p), job.op = "idle"
      PROVE  TimerInv'
  <2>1. job'.op = "register"
    BY <1>5 DEF RegisterConnection, Idle
  <2>2. CASE rooms[p] # NoConn
    BY <1>5, <2>1, <2>2, RemoveConnectionTimers DEF RegisterConnection, TypeOK
  <2>3. CASE rooms[p] = NoConn
    BY <1>0, <1>5, <2>1, <2>3 DEF RegisterConnection
  <2> QED
    BY <2>2, <2>3
<1>6. ASSUME NEW c \in Conn, HandshakeMessage3(c) PROVE TimerInv'
  BY <1>q, <1>5, <1>6 DEF HandshakeMessage3, RoomInv
<1>7. ASSUME NEW c \in Conn, NEW p \in Peer, LegacyHandshake(c, p) PROVE TimerInv'
  BY <1>q, <1>5, <1>7 DEF LegacyHandshake
<1>8. CASE FinishRegistration
  BY <1>8 DEF FinishRegistration, RoomInv, TimerInv, TypeOK, Idle
<1>9. ASSUME NEW c \in Conn, NEW p \in Peer, ForwardRejected(c, p) PROVE TimerInv'
  BY <1>9, RemoveConnectionTimers DEF ForwardRejected, Ready
<1>10. ASSUME NEW c \in Conn, NEW changed \in BOOLEAN, RouteRequest(c, changed) PROVE TimerInv'
  BY <1>0, <1>10 DEF RouteRequest, connVars
<1>11. ASSUME NEW c \in Conn, RouteResponse(c) PROVE TimerInv'
  BY <1>0, <1>11 DEF RouteResponse, connVars
<1>12. ASSUME NEW p \in Peer, BroadcastSkip(p) \/ BroadcastSend(p) PROVE TimerInv'
  BY <1>0, <1>12 DEF BroadcastSkip, BroadcastSend, connVars
<1>13. ASSUME NEW p \in Peer, BroadcastReject(p) PROVE TimerInv'
  BY <1>13, RemoveConnectionTimers DEF BroadcastReject, Ready
<1>14. CASE BroadcastReturn
  <2>1. Top.conn # NoConn => Top.conn \in Conn /\ phase[Top.conn] = "closed"
    <3>1. calls \in Seq(Frame) /\ calls # <<>> /\ Distinct(calls)
      BY <1>14, FreedOnceForm DEF BroadcastReturn, TypeOK
    <3>2. Top.conn # NoConn => Top.conn \in DisposedBy(calls)
      BY <3>1, PopDisposal DEF Top
    <3> QED
      BY <3>2, FreedOnceForm
  <2>2. hsTimer' = hsTimer
    BY <1>14, <2>1 DEF BroadcastReturn, TimerInv
  <2> QED
    BY <1>0, <1>14, <2>2 DEF BroadcastReturn
<1>15. ASSUME NEW dead \in SUBSET routed, NEW late \in SUBSET inFlight,
              NEW changed \in BOOLEAN, NEW failed \in SUBSET late,
              CleanExpired(dead, late, failed, changed)
       PROVE  TimerInv'
  BY <1>15 DEF CleanExpired, TimerInv, connVars, Idle
<1>16. ASSUME NEW p \in Peer, MaintenanceClose(p) PROVE TimerInv'
  <2>1. job'.op = job.op
    BY <1>16 DEF MaintenanceClose, TypeOK, Job
  <2>2. CASE rooms[p] # NoConn
    BY <1>16, <2>1, <2>2, RemoveConnectionTimers DEF MaintenanceClose, TypeOK
  <2>3. CASE rooms[p] = NoConn
    BY <1>0, <1>16, <2>1, <2>3 DEF MaintenanceClose
  <2> QED
    BY <2>2, <2>3
<1>17. CASE MaintenanceBroadcast
  BY <1>0, <1>17 DEF MaintenanceBroadcast, connVars, Idle
<1>18. ASSUME NEW c \in Conn, MaintenanceSkip(c) PROVE TimerInv'
  BY <1>0, <1>18 DEF MaintenanceSkip, connVars, TypeOK, Job
<1>19. ASSUME NEW c \in Conn, MaintenanceSend(c) PROVE TimerInv'
  <2>1. job'.op = job.op
    BY <1>19 DEF MaintenanceSend, TypeOK, Job
  <2>2. CASE UNCHANGED <<phase, hsTimer, connections, mTimer>>
    BY <1>0, <2>1, <2>2
  <2>3. CASE RemoveConnection(c, rooms, calls)
    BY <2>1, <2>3, RemoveConnectionTimers
  <2> QED
    BY <1>19, <2>2, <2>3 DEF MaintenanceSend
<1>20. CASE MaintenanceEnd
  BY <1>20 DEF MaintenanceEnd, TimerInv, connVars, Idle
<1>21. CASE RouteIdStored
  BY <1>0, <1>21 DEF RouteIdStored, connVars
<1>22. CASE Restart
  <2>1. \A c \in Conn : phase'[c] \notin Pending
    BY <1>22 DEF Restart, TypeOK
  <2> QED
    BY <1>22, <2>1 DEF Restart, TimerInv, Idle
<1> QED
  BY <1>1, <1>2, <1>3, <1>4, <1>6, <1>7, <1>8, <1>9, <1>10, <1>11, <1>12, <1>13, <1>14, <1>15,
     <1>16, <1>17, <1>18, <1>19, <1>20, <1>21, <1>22
  DEF Next, Event, Timeout, MaintenanceTimer, Continue

-----------------------------------------------------------------------------
(* The theorems.                                                           *)

\* The inductive invariant of this module.
BaseInv == TypeOK /\ RoomInv /\ RouteInv /\ FreedOnce /\ TimerInv

\* BaseInv holds of every reachable state.
THEOREM BaseCorrect == Spec => []BaseInv
<1>1. Init => BaseInv
  BY TypeInit, RoomInit, RouteInit, FreedInit, TimerInit DEF BaseInv
<1>2. BaseInv /\ [Next]_vars => BaseInv'
  BY TypeStep, RoomStep, RouteStep, FreedStep, TimerStep DEF BaseInv
<1> QED
  BY <1>1, <1>2, PTL DEF Spec

\* Every variable of the server keeps its type through every handler.
THEOREM TypeCorrect == Spec => []TypeOK
<1>1. BaseInv => TypeOK
  BY DEF BaseInv
<1> QED
  BY <1>1, BaseCorrect, PTL

\* this.connections, the room and the connections themselves agree at every
\* step of every handler; a peer id never has two ready connections.
THEOREM RegistriesCorrect == Spec => []RegistrySound
<1>1. BaseInv => RegistrySound
  <2> SUFFICES ASSUME TypeOK, RoomInv PROVE RegistrySound
    BY DEF BaseInv
  <2>1. \A c \in Conn : phase[c] = "ready" => peerOf[c] \in Peer /\ rooms[peerOf[c]] = c
    BY DEF RoomInv
  <2>2. \A p \in Peer : rooms[p] # NoConn =>
          /\ peerOf[rooms[p]] = p
          /\ \/ phase[rooms[p]] = "ready"
             \/ job.op = "register" /\ job.conn = rooms[p] /\ phase[rooms[p]] \in Pending
    BY DEF RoomInv
  <2> QED
    BY <2>1, <2>2 DEF RegistrySound, RoomInv
<1> QED
  BY <1>1, BaseCorrect, PTL

\* Between two events the WASM route state has exactly the peers of the room.
THEOREM RoutesCorrect == Spec => []RouteMirrorsRoom
<1>1. BaseInv => RouteMirrorsRoom
  BY DEF BaseInv, RouteInv, RouteMirrorsRoom, Quiescent, Idle
<1> QED
  BY <1>1, BaseCorrect, PTL

\* disposeConnection runs exactly once for every closed connection, however
\* deep the cascade of broadcasts that closed it.
THEOREM DisposalCorrect == Spec => []FreedOnce
<1>1. BaseInv => FreedOnce
  BY DEF BaseInv
<1> QED
  BY <1>1, BaseCorrect, PTL

\* A handshake is always on a timer, and the maintenance timer is set between
\* two events exactly while there are connections.
THEOREM TimersCorrect == Spec => []TimersArmed
<1>1. BaseInv => TimersArmed
  BY DEF BaseInv, TimerInv, TimersArmed, Quiescent, Idle
<1> QED
  BY <1>1, BaseCorrect, PTL

-----------------------------------------------------------------------------
(* Ownership.                                                              *)

\* removePeer forgets all the pump knows of a peer id.
LEMMA RemovePeerPump ==
    ASSUME TypeOK, PumpInv, NEW STATE p, p \in Peer, RemovePeer(p)
    PROVE  /\ syncConn'[p] = NoConn
           /\ \A q \in Peer : q # p => syncConn'[q] = syncConn[q]
           /\ \A q \in inFlight' \cup dirty' \cup forceFull' : syncConn'[q] # NoConn
           /\ aged' \subseteq inFlight'
<1>1. /\ syncConn'[p] = NoConn
      /\ \A q \in Peer : q # p => syncConn'[q] = syncConn[q]
  BY DEF RemovePeer, TypeOK
<1>2. /\ inFlight' \cup dirty' \cup forceFull' = (inFlight \cup dirty \cup forceFull) \ {p}
      /\ aged' \subseteq inFlight'
      /\ inFlight \cup dirty \cup forceFull \subseteq Peer
  BY DEF RemovePeer, PumpInv, TypeOK
<1> QED
  BY <1>1, <1>2 DEF PumpInv

\* Removing a connection removes the state that belongs to it.
LEMMA RemoveConnectionPump ==
    ASSUME TypeOK, RoomInv, PumpInv,
           NEW STATE c, c \in Conn, NEW STATE rms, rms \in [Peer -> Conn \cup {NoConn}], NEW STATE rest,
           RemoveConnection(c, rms, rest),
           \A p \in Peer : rms[p] = rooms[p] \/ (p = peerOf[c] /\ phase[c] = "ready")
    PROVE  PumpInv'
<1> USE ConnAssumption, PeerAssumption
<1>1. /\ phase[c] \in Live /\ phase'[c] = "closed"
      /\ \A d \in Conn : d # c => phase'[d] = phase[d]
  BY DEF RemoveConnection, TypeOK
<1>2. \A p \in Peer : p # peerOf[c] => rooms'[p] = rms[p]
  BY DEF RemoveConnection, RoomDelete, TypeOK
<1>3. CASE phase[c] = "ready"
  <2>1. RemovePeer(peerOf[c]) /\ peerOf[c] \in Peer
    BY <1>3 DEF RemoveConnection, RoomInv
  <2>2. ASSUME NEW p \in Peer, syncConn'[p] # NoConn
        PROVE  syncConn'[p] = rooms'[p] /\ phase'[rooms'[p]] = "ready"
    <3>1. p # peerOf[c] /\ syncConn'[p] = syncConn[p]
      BY <2>1, <2>2, RemovePeerPump
    <3>2. syncConn[p] = rooms[p] /\ phase[rooms[p]] = "ready" /\ rooms[p] \in Conn
      BY <2>2, <3>1 DEF PumpInv, TypeOK
    <3>3. rooms'[p] = rooms[p]
      BY <1>2, <3>1
    <3>4. rooms[p] # c
      BY <3>1, <3>2 DEF RoomInv
    <3> QED
      BY <1>1, <3>1, <3>2, <3>3, <3>4
  <2> QED
    BY <2>1, <2>2, RemovePeerPump DEF PumpInv
<1>4. CASE phase[c] # "ready"
  <2>1. UNCHANGED <<syncConn, inFlight, aged, dirty, forceFull>>
    BY <1>4 DEF RemoveConnection, pumpVars
  <2>2. \A p \in Peer : rooms'[p] = rooms[p] \/ rooms[p] = c
    BY <1>4 DEF RemoveConnection, RoomDelete, TypeOK
  <2> QED
    BY <1>1, <1>4, <2>1, <2>2 DEF PumpInv, TypeOK
<1> QED
  BY <1>3, <1>4

\* sendRouteUpdate to the ready connection of a peer.
LEMMA SendRouteUpdatePump ==
    ASSUME TypeOK, RoomInv, PumpInv,
           NEW STATE c, c \in Conn, phase[c] = "ready", NEW STATE force, NEW STATE changed,
           SendRouteUpdate(c, force, changed), UNCHANGED <<phase, rooms>>
    PROVE  PumpInv'
<1> USE ConnAssumption, PeerAssumption
<1> DEFINE p == peerOf[c]
<1>1. p \in Peer /\ rooms[p] = c
  BY DEF RoomInv
<1>2. /\ syncConn'[p] = c
      /\ \A q \in Peer : q # p => syncConn'[q] = syncConn[q]
  BY <1>1 DEF SendRouteUpdate, TypeOK
<1>3. /\ inFlight' \cup dirty' \cup forceFull' \subseteq inFlight \cup dirty \cup forceFull \cup {p}
      /\ aged' \subseteq inFlight'
      /\ inFlight \cup dirty \cup forceFull \subseteq Peer
  BY DEF SendRouteUpdate, PumpInv, TypeOK
<1> HIDE DEF p
<1>4. \A q \in inFlight' \cup dirty' \cup forceFull' : syncConn'[q] # NoConn
  BY <1>1, <1>2, <1>3 DEF PumpInv
<1>5. \A q \in Peer : syncConn'[q] # NoConn => syncConn'[q] = rooms'[q] /\ phase'[rooms'[q]] = "ready"
  BY <1>1, <1>2 DEF PumpInv
<1> QED
  BY <1>3, <1>4, <1>5 DEF PumpInv

\* Initially the pump has no state.
LEMMA PumpInit == Init => PumpInv
BY DEF Init, PumpInv

\* Every step keeps the states of the pump with the ready connections.
LEMMA PumpStep == TypeOK /\ RoomInv /\ PumpInv /\ [Next]_vars => PumpInv'
<1> SUFFICES ASSUME TypeOK, RoomInv, PumpInv, [Next]_vars PROVE PumpInv'
  OBVIOUS
<1> USE ConnAssumption, PeerAssumption
<1>t. /\ rooms \in [Peer -> Conn \cup {NoConn}]
      /\ phase \in [Conn -> {"none", "msg1", "msg3", "ready", "closed"}]
  BY DEF TypeOK
<1>0. ASSUME UNCHANGED <<rooms, pumpVars>>,
             \A d \in Conn : phase[d] = "ready" => phase'[d] = "ready"
      PROVE  PumpInv'
  BY <1>0, <1>t DEF PumpInv, pumpVars
<1>1. CASE UNCHANGED vars
  BY <1>0, <1>1 DEF vars, connVars
<1>2. ASSUME NEW c \in Conn, NEW ip \in IP, Accept(c, ip) PROVE PumpInv'
  BY <1>0, <1>2, <1>t DEF Accept
<1>3. ASSUME NEW STATE c, c \in Conn, NEW STATE rest, RemoveConnection(c, rooms, rest) PROVE PumpInv'
  BY <1>3, <1>t, RemoveConnectionPump
<1>4. ASSUME NEW c \in Conn, Drop(c) \/ HandshakeTimeout(c) PROVE PumpInv'
  BY <1>3, <1>4 DEF Drop, HandshakeTimeout
<1>5. ASSUME NEW c \in Conn, NEW p \in Peer, HandshakeMessage1(c, p) PROVE PumpInv'
  <2>1. CASE phase' = [phase EXCEPT ![c] = "msg3"] /\ UNCHANGED <<rooms, pumpVars>>
    BY <1>0, <1>5, <1>t, <2>1 DEF HandshakeMessage1
  <2>2. CASE RemoveConnection(c, rooms, calls)
    BY <1>3, <2>2
  <2> QED
    BY <1>5, <2>1, <2>2 DEF HandshakeMessage1
<1>6. ASSUME NEW STATE c, c \in Conn, NEW STATE p, p \in Peer, RegisterConnection(c, p),
             job.op = "idle"
      PROVE  PumpInv'
  <2>1. CASE rooms[p] # NoConn
    <3>1. rooms[p] \in Conn /\ phase[rooms[p]] = "ready" /\ peerOf[rooms[p]] = p
      BY <1>6, <1>t, <2>1 DEF RoomInv
    <3>2. /\ RemoveConnection(rooms[p], [rooms EXCEPT ![p] = c], calls)
          /\ [rooms EXCEPT ![p] = c] \in [Peer -> Conn \cup {NoConn}]
          /\ \A q \in Peer : [rooms EXCEPT ![p] = c][q] = rooms[q] \/ q = p
      BY <1>6, <1>t, <2>1 DEF RegisterConnection
    <3> QED
      BY <3>1, <3>2, RemoveConnectionPump
  <2>2. CASE rooms[p] = NoConn
    <3>1. syncConn[p] = NoConn
      BY <1>6, <2>2 DEF PumpInv
    <3>2. rooms' = [rooms EXCEPT ![p] = c] /\ UNCHANGED <<phase, pumpVars>>
      BY <1>6, <2>2 DEF RegisterConnection
    <3> QED
      BY <1>t, <3>1, <3>2 DEF PumpInv, pumpVars
  <2> QED
    BY <2>1, <2>2
<1>q. Quiescent => job.op = "idle"
  BY DEF Quiescent, Idle
<1>7. ASSUME NEW c \in Conn, HandshakeMessage3(c) PROVE PumpInv'
  BY <1>6, <1>7, <1>q DEF HandshakeMessage3, RoomInv
<1>8. ASSUME NEW c \in Conn, NEW p \in Peer, LegacyHandshake(c, p) PROVE PumpInv'
  BY <1>6, <1>8, <1>q DEF LegacyHandshake
<1>9. CASE FinishRegistration
  <2> DEFINE p == peerOf[job.conn]
  <2>1. p \in Peer /\ job.conn \in Conn
    BY <1>9 DEF FinishRegistration, RoomInv
  <2>2. /\ syncConn'[p] = NoConn
        /\ \A q \in Peer : q # p => syncConn'[q] = syncConn[q]
        /\ inFlight' \cup dirty' \cup forceFull' = (inFlight \cup dirty \cup forceFull) \ {p}
        /\ aged' \subseteq inFlight'
        /\ inFlight \cup dirty \cup forceFull \subseteq Peer
    BY <1>9, <2>1 DEF FinishRegistration, TypeOK, PumpInv
  <2>3. rooms' = rooms /\ \A d \in Conn : phase[d] = "ready" => phase'[d] = "ready"
    BY <1>9, <1>t, <2>1 DEF FinishRegistration
  <2> HIDE DEF p
  <2> QED
    BY <1>t, <2>1, <2>2, <2>3 DEF PumpInv
<1>10. ASSUME NEW c \in Conn, NEW p \in Peer, ForwardRejected(c, p) PROVE PumpInv'
  BY <1>3, <1>10 DEF ForwardRejected, Ready
<1>11. ASSUME NEW c \in Conn, NEW changed \in BOOLEAN, RouteRequest(c, changed) PROVE PumpInv'
  BY <1>11, SendRouteUpdatePump DEF RouteRequest, Ready, connVars
<1>12. ASSUME NEW c \in Conn, RouteResponse(c) PROVE PumpInv'
  <2>1. /\ UNCHANGED <<phase, rooms, syncConn>>
        /\ inFlight' \cup dirty' \cup forceFull' \subseteq inFlight \cup dirty \cup forceFull
        /\ aged' \subseteq inFlight'
    BY <1>12 DEF RouteResponse, connVars, PumpInv
  <2> QED
    BY <2>1 DEF PumpInv
<1>13. ASSUME NEW p \in Peer, BroadcastSkip(p) PROVE PumpInv'
  BY <1>0, <1>13 DEF BroadcastSkip, connVars
<1>14. ASSUME NEW p \in Peer, BroadcastSend(p) PROVE PumpInv'
  BY <1>14, SendRouteUpdatePump DEF BroadcastSend, Ready, connVars
<1>15. ASSUME NEW p \in Peer, BroadcastReject(p) PROVE PumpInv'
  BY <1>3, <1>15 DEF BroadcastReject, Ready
<1>16. CASE BroadcastReturn
  BY <1>0, <1>16 DEF BroadcastReturn
<1>17. ASSUME NEW dead \in SUBSET routed, NEW late \in SUBSET inFlight,
              NEW changed \in BOOLEAN, NEW failed \in SUBSET late,
              CleanExpired(dead, late, failed, changed)
       PROVE  PumpInv'
  <2>1. /\ UNCHANGED <<phase, rooms, syncConn>>
        /\ inFlight' \cup dirty' \cup forceFull' \subseteq inFlight \cup dirty \cup forceFull
        /\ aged' \subseteq inFlight'
    BY <1>17 DEF CleanExpired, connVars
  <2> QED
    BY <2>1 DEF PumpInv
<1>18. ASSUME NEW p \in Peer, MaintenanceClose(p) PROVE PumpInv'
  <2>1. CASE rooms[p] # NoConn
    BY <1>3, <1>18, <1>t, <2>1 DEF MaintenanceClose
  <2>2. CASE rooms[p] = NoConn
    BY <1>0, <1>18, <2>2 DEF MaintenanceClose
  <2> QED
    BY <2>1, <2>2
<1>19. CASE MaintenanceBroadcast
  BY <1>0, <1>19 DEF MaintenanceBroadcast, connVars
<1>20. ASSUME NEW c \in Conn, MaintenanceSkip(c) PROVE PumpInv'
  BY <1>0, <1>20 DEF MaintenanceSkip, connVars
<1>21. ASSUME NEW c \in Conn, MaintenanceSend(c) PROVE PumpInv'
  <2>1. CASE SendRouteUpdate(c, FALSE, FALSE) /\ UNCHANGED <<phase, rooms>>
    BY <1>21, <2>1, SendRouteUpdatePump DEF MaintenanceSend, Ready
  <2>2. CASE RemoveConnection(c, rooms, calls)
    BY <1>3, <2>2
  <2> QED
    BY <1>21, <2>1, <2>2 DEF MaintenanceSend
<1>22. CASE MaintenanceEnd
  BY <1>0, <1>22 DEF MaintenanceEnd, connVars
<1>23. CASE RouteIdStored
  BY <1>0, <1>23 DEF RouteIdStored, connVars
<1>24. CASE Restart
  BY <1>24 DEF Restart, PumpInv
<1> QED
  BY <1>1, <1>2, <1>4, <1>5, <1>7, <1>8, <1>9, <1>10, <1>11, <1>12, <1>13, <1>14, <1>15,
     <1>16, <1>17, <1>18, <1>19, <1>20, <1>21, <1>22, <1>23, <1>24
  DEF Next, Event, Timeout, MaintenanceTimer, Continue

-----------------------------------------------------------------------------
(* What is owed.                                                           *)

\* Some call of a stack is still going to visit a peer.
Covered(p, s) == \E i \in 1..Len(s) : p \in s[i].todo

\* A new call covers what it is started with.
LEMMA PushCovers ==
    ASSUME NEW f \in Frame, NEW s \in Seq(Frame), NEW p \in f.todo
    PROVE  Covered(p, <<f>> \o s)
<1>1. Len(<<f>> \o s) = Len(s) + 1 /\ (<<f>> \o s)[1] = f /\ Len(s) \in Nat
  BY Push
<1>2. 1 \in 1..Len(<<f>> \o s)
  BY <1>1
<1> QED
  BY <1>1, <1>2 DEF Covered

\* Visiting a peer leaves the others covered.
LEMMA VisitedCovers ==
    ASSUME TypeOK, calls # <<>>, NEW p \in Peer, NEW q \in Peer, q # p, Covered(q, calls)
    PROVE  Covered(q, Visited(p))
<1> DEFINE f == [Top EXCEPT !.todo = @ \ {p}]
           s == Tail(calls)
<1>1. calls \in Seq(Frame)
  BY DEF TypeOK
<1>2. /\ Top \in Frame /\ s \in Seq(Frame) /\ Top = calls[1]
      /\ Len(calls) = Len(s) + 1 /\ Len(s) \in Nat
      /\ \A i \in 2..Len(calls) : calls[i] = s[i - 1]
  BY <1>1, Pop DEF Top
<1>3. f \in Frame /\ f.todo = Top.todo \ {p}
  BY <1>2 DEF Frame
<1>4. Visited(p) = <<f>> \o s
  BY DEF Visited
<1> HIDE DEF f, s
<1>5. PICK i \in 1..Len(calls) : q \in calls[i].todo
  BY DEF Covered
<1>6. CASE i = 1
  <2>1. q \in f.todo
    BY <1>2, <1>3, <1>5, <1>6
  <2> QED
    BY <1>2, <1>3, <1>4, <2>1, PushCovers
<1>7. CASE i # 1
  <2>1. Len(<<f>> \o s) = Len(s) + 1 /\ \A j \in 1..Len(s) : (<<f>> \o s)[j + 1] = s[j]
    BY <1>2, <1>3, Push
  <2>2. i - 1 \in 1..Len(s) /\ s[i - 1] = calls[i]
    BY <1>2, <1>7
  <2>3. i \in 1..Len(<<f>> \o s) /\ (<<f>> \o s)[(i - 1) + 1] = s[i - 1] /\ (i - 1) + 1 = i
    BY <1>2, <2>1, <2>2
  <2> QED
    BY <1>4, <1>5, <2>2, <2>3 DEF Covered
<1> QED
  BY <1>6, <1>7

\* A call that returns had nobody left to visit.
LEMMA PopCovers ==
    ASSUME NEW s \in Seq(Frame), s # <<>>, Head(s).todo = {}, NEW q, Covered(q, s)
    PROVE  Covered(q, Tail(s))
<1>1. /\ Head(s) = s[1] /\ Tail(s) \in Seq(Frame) /\ Len(s) = Len(Tail(s)) + 1 /\ Len(Tail(s)) \in Nat
      /\ \A i \in 2..Len(s) : s[i] = Tail(s)[i - 1]
  BY Pop
<1>2. PICK i \in 1..Len(s) : q \in s[i].todo
  BY DEF Covered
<1>3. i # 1
  BY <1>1, <1>2
<1>4. i - 1 \in 1..Len(Tail(s)) /\ s[i] = Tail(s)[i - 1]
  BY <1>1, <1>3
<1> QED
  BY <1>2, <1>4 DEF Covered

\* A broadcast to the whole room pays every debt.
LEMMA BroadcastCovers ==
    ASSUME RoomInv', TypeOK', NEW STATE f, f \in Frame, NEW STATE s, s \in Seq(Frame),
           calls' = <<f>> \o s, f.todo = RoomPeers(rooms')
    PROVE  OwedInv'
<1> USE ConnAssumption
<1> SUFFICES ASSUME NEW c \in Conn, phase'[c] = "ready"
             PROVE  \E i \in 1..Len(calls') : peerOf'[c] \in calls'[i].todo
  BY DEF OwedInv
<1>1. peerOf'[c] \in f.todo
  BY DEF RoomInv, RoomPeers
<1> QED
  BY <1>1, PushCovers DEF Covered

\* Removing a connection: the others are told, or the topology has not changed.
LEMMA RemoveConnectionOwed ==
    ASSUME TypeOK, RoomInv, OwedInv, TypeOK', RoomInv',
           NEW STATE c, c \in Conn, NEW STATE rms, rms \in [Peer -> Conn \cup {NoConn}],
           NEW STATE rest, rest \in Seq(Frame), RemoveConnection(c, rms, rest),
           \/ phase[c] = "ready"
           \/ rest = calls /\ (\A d \in Conn : d # c => peerOf'[d] = peerOf[d])
              /\ (job' = job \/ (job.op # "close" /\ job'.op # "close"))
    PROVE  OwedInv'
<1>1. CASE phase[c] = "ready"
  <2> DEFINE f == [todo |-> RoomPeers(RoomDelete(rms, c)), force |-> FALSE, conn |-> c]
  <2>1. f \in Frame /\ f.todo = RoomPeers(rooms')
    BY DEF Frame, RoomPeers, RemoveConnection
  <2>2. calls' = <<f>> \o rest
    BY <1>1 DEF RemoveConnection
  <2> HIDE DEF f
  <2> QED
    BY <2>1, <2>2, BroadcastCovers
<1>2. CASE phase[c] # "ready"
  <2>1. /\ phase' = [phase EXCEPT ![c] = "closed"]
        /\ calls' = rest /\ UNCHANGED <<pumpVars, routeVars>>
    BY <1>2 DEF RemoveConnection
  <2> QED
    BY <1>2, <2>1 DEF OwedInv, TypeOK, pumpVars, routeVars
<1> QED
  BY <1>1, <1>2

\* sendRouteUpdate pays the debt to its receiver and makes no other one,
\* unless the handler has changed the topology.
LEMMA SendRouteUpdateOwed ==
    ASSUME TypeOK, RoomInv, NEW STATE c, c \in Conn, phase[c] = "ready",
           NEW STATE force, NEW STATE changed, SendRouteUpdate(c, force, changed)
    PROVE  /\ peerOf[c] \in behind' => peerOf[c] \in inFlight' /\ peerOf[c] \in dirty'
           /\ \A q \in Peer : q # peerOf[c] =>
                /\ q \in inFlight => q \in inFlight'
                /\ q \in dirty => q \in dirty'
                /\ ~changed /\ q \in behind' => q \in behind
BY DEF SendRouteUpdate, TypeOK

\* Initially nothing is owed.
LEMMA OwedInit == Init => OwedInv
BY DEF Init, OwedInv

\* Every step keeps track of what is owed.
LEMMA OwedStep ==
    TypeOK /\ RoomInv /\ OwedInv /\ TypeOK' /\ RoomInv' /\ [Next]_vars => OwedInv'
<1> SUFFICES ASSUME TypeOK, RoomInv, OwedInv, TypeOK', RoomInv', [Next]_vars PROVE OwedInv'
  OBVIOUS
<1> USE ConnAssumption, PeerAssumption
<1>t. /\ rooms \in [Peer -> Conn \cup {NoConn}]
      /\ calls \in Seq(Frame)
      /\ phase \in [Conn -> {"none", "msg1", "msg3", "ready", "closed"}]
      /\ \A c \in Conn : phase[c] = "ready" => peerOf[c] \in Peer /\ rooms[peerOf[c]] = c
  BY DEF TypeOK, RoomInv
<1>q. Quiescent => job.op = "idle" /\ calls = <<>>
  BY DEF Quiescent, Idle
<1>c. calls = <<>> => \A p \in Peer : ~ \E i \in 1..Len(calls) : p \in calls[i].todo
  OBVIOUS
<1>0. ASSUME UNCHANGED <<pumpVars, routeVars, calls>>,
             \A d \in Conn : phase'[d] = "ready" => phase[d] = "ready" /\ peerOf'[d] = peerOf[d],
             job' = job \/ (job.op # "close" /\ job'.op # "close")
      PROVE  OwedInv'
  BY <1>0 DEF OwedInv, pumpVars, routeVars
<1>1. CASE UNCHANGED vars
  BY <1>0, <1>1 DEF vars, connVars
<1>2. ASSUME NEW c \in Conn, NEW ip \in IP, Accept(c, ip) PROVE OwedInv'
  BY <1>0, <1>2, <1>t DEF Accept
<1>3. ASSUME NEW c \in Conn, Drop(c) \/ HandshakeTimeout(c) PROVE OwedInv'
  BY <1>3, <1>t, RemoveConnectionOwed DEF Drop, HandshakeTimeout
<1>4. ASSUME NEW c \in Conn, NEW p \in Peer, HandshakeMessage1(c, p) PROVE OwedInv'
  <2>1. peerOf' = [peerOf EXCEPT ![c] = p] /\ job' = job
    BY <1>4 DEF HandshakeMessage1
  <2>2. CASE phase' = [phase EXCEPT ![c] = "msg3"] /\ UNCHANGED <<pumpVars, routeVars, calls>>
    BY <1>0, <1>t, <2>1, <2>2 DEF TypeOK
  <2>3. CASE RemoveConnection(c, rooms, calls)
    BY <1>t, <2>1, <2>3, RemoveConnectionOwed DEF TypeOK
  <2> QED
    BY <1>4, <2>2, <2>3 DEF HandshakeMessage1
<1>5. ASSUME NEW STATE c, c \in Conn, NEW STATE p, p \in Peer, RegisterConnection(c, p),
             job.op = "idle", phase[c] \in Pending,
             \A d \in Conn : d # c => peerOf'[d] = peerOf[d]
      PROVE  OwedInv'
  <2>1. CASE rooms[p] # NoConn
    <3>1. /\ rooms[p] \in Conn /\ phase[rooms[p]] = "ready"
          /\ RemoveConnection(rooms[p], [rooms EXCEPT ![p] = c], calls)
          /\ [rooms EXCEPT ![p] = c] \in [Peer -> Conn \cup {NoConn}]
      BY <1>5, <1>t, <2>1 DEF RoomInv, RegisterConnection
    <3> QED
      BY <1>t, <3>1, RemoveConnectionOwed
  <2>2. CASE rooms[p] = NoConn
    <3>1. job'.op = "register"
      BY <1>5 DEF RegisterConnection, Idle
    <3>2. UNCHANGED <<phase, pumpVars, routeVars, calls>>
      BY <1>5, <2>2 DEF RegisterConnection
    <3> QED
      BY <1>0, <1>5, <3>1, <3>2
  <2> QED
    BY <2>1, <2>2
<1>6. ASSUME NEW c \in Conn, HandshakeMessage3(c) PROVE OwedInv'
  BY <1>5, <1>6, <1>q DEF HandshakeMessage3, RoomInv
<1>7. ASSUME NEW c \in Conn, NEW p \in Peer, LegacyHandshake(c, p) PROVE OwedInv'
  BY <1>5, <1>7, <1>q DEF LegacyHandshake, TypeOK
<1>b. ASSUME calls = <<>>, NEW STATE force, force \in BOOLEAN,
             calls' = <<[todo |-> RoomPeers(rooms'), force |-> force, conn |-> NoConn]>>
      PROVE  OwedInv'
  <2> DEFINE f == [todo |-> RoomPeers(rooms'), force |-> force, conn |-> NoConn]
  <2>1. f \in Frame /\ f.todo = RoomPeers(rooms')
    BY <1>b DEF Frame, RoomPeers
  <2>2. Len(calls') = 1 /\ calls'[1] = f
    BY <1>b
  <2> HIDE DEF f
  <2>3. ASSUME NEW c \in Conn, phase'[c] = "ready"
        PROVE  \E i \in 1..Len(calls') : peerOf'[c] \in calls'[i].todo
    <3>1. peerOf'[c] \in f.todo
      BY <2>1, <2>3 DEF RoomInv, RoomPeers
    <3> QED
      BY <2>2, <3>1
  <2> QED
    BY <2>3 DEF OwedInv
<1>8. CASE FinishRegistration
  <2>1. resync \in BOOLEAN /\ rooms' = rooms
    BY <1>8 DEF FinishRegistration, TypeOK
  <2> QED
    BY <1>8, <1>b, <2>1 DEF FinishRegistration
<1>9. ASSUME NEW c \in Conn, NEW p \in Peer, ForwardRejected(c, p) PROVE OwedInv'
  BY <1>9, <1>t, RemoveConnectionOwed DEF ForwardRejected, Ready
<1>10. ASSUME NEW c \in Conn, NEW changed \in BOOLEAN, RouteRequest(c, changed) PROVE OwedInv'
  <2>1. /\ phase[c] = "ready" /\ SendRouteUpdate(c, FALSE, changed)
        /\ job.op = "idle" /\ calls = <<>>
        /\ UNCHANGED <<phase, peerOf, rooms, job>>
    BY <1>10, <1>q DEF RouteRequest, Ready, connVars
  <2>2. SUFFICES ASSUME NEW d \in Conn, phase'[d] = "ready", peerOf'[d] \in behind'
                 PROVE  \/ peerOf[d] \in inFlight' /\ peerOf[d] \in dirty'
                        \/ \E i \in 1..Len(calls') : peerOf[d] \in calls'[i].todo
    BY <2>1 DEF OwedInv
  <2>3. CASE d = c
    BY <2>1, <2>2, <2>3, SendRouteUpdateOwed
  <2>4. CASE d # c
    <3>1. peerOf[d] \in Peer /\ peerOf[d] # peerOf[c] /\ rooms[peerOf[d]] = d
      BY <1>t, <2>1, <2>2, <2>4
    <3>2. CASE changed
      <4>1. /\ Len(calls') = 1
            /\ calls'[1].todo = RoomPeers(rooms) \ {peerOf[c]}
        BY <1>10, <3>2 DEF RouteRequest
      <4>2. peerOf[d] \in calls'[1].todo
        BY <3>1, <4>1 DEF RoomPeers
      <4> QED
        BY <4>1, <4>2
    <3>3. CASE ~changed
      <4>1. peerOf[d] \in behind
        BY <2>1, <2>2, <3>1, <3>3, SendRouteUpdateOwed
      <4>2. peerOf[d] \in inFlight /\ peerOf[d] \in dirty
        BY <1>c, <2>1, <2>2, <3>1, <4>1 DEF OwedInv
      <4> QED
        BY <2>1, <3>1, <4>2, SendRouteUpdateOwed
    <3> QED
      BY <3>2, <3>3
  <2> QED
    BY <2>3, <2>4
<1>11. ASSUME NEW c \in Conn, RouteResponse(c) PROVE OwedInv'
  <2>1. job.op = "idle" /\ calls = <<>> /\ UNCHANGED <<phase, peerOf>>
    BY <1>11, <1>q DEF RouteResponse, connVars
  <2>2. SUFFICES ASSUME NEW d \in Conn, phase[d] = "ready", peerOf[d] \in behind'
                 PROVE  peerOf[d] \in inFlight' /\ peerOf[d] \in dirty'
    BY <2>1 DEF OwedInv
  <2>3. peerOf[d] \in behind
    BY <1>11, <2>2 DEF RouteResponse
  <2>4. peerOf[d] \in inFlight /\ peerOf[d] \in dirty
    BY <1>c, <1>t, <2>1, <2>2, <2>3 DEF OwedInv
  <2> QED
    BY <1>11, <2>2, <2>4 DEF RouteResponse
<1>12. ASSUME NEW p \in Peer, BroadcastSkip(p) PROVE OwedInv'
  <2>1. /\ calls # <<>> /\ ~Ready(rooms[p]) /\ calls' = Visited(p)
        /\ UNCHANGED <<phase, peerOf, inFlight, dirty, behind, job>>
    BY <1>12 DEF BroadcastSkip, connVars, pumpVars, routeVars
  <2>2. ASSUME NEW d \in Conn, phase[d] = "ready", Covered(peerOf[d], calls)
        PROVE  Covered(peerOf[d], calls')
    <3>1. peerOf[d] \in Peer /\ peerOf[d] # p
      BY <1>t, <2>1, <2>2 DEF Ready
    <3> QED
      BY <2>1, <2>2, <3>1, VisitedCovers
  <2> QED
    BY <2>1, <2>2 DEF OwedInv, Covered
<1>13. ASSUME NEW p \in Peer, BroadcastSend(p) PROVE OwedInv'
  <2>1. /\ calls # <<>> /\ calls' = Visited(p)
        /\ rooms[p] \in Conn /\ phase[rooms[p]] = "ready"
        /\ SendRouteUpdate(rooms[p], Top.force, FALSE)
        /\ UNCHANGED <<phase, peerOf, rooms, job>>
    BY <1>13 DEF BroadcastSend, Ready, connVars
  <2>2. peerOf[rooms[p]] = p
    BY <2>1 DEF RoomInv
  <2>3. ASSUME NEW d \in Conn, phase[d] = "ready", peerOf[d] \in behind'
        PROVE  \/ peerOf[d] \in inFlight' /\ peerOf[d] \in dirty'
               \/ Covered(peerOf[d], calls')
               \/ job.op = "close" /\ (job.changed \/ peerOf[d] \in job.fail)
    <3>1. CASE peerOf[d] = p
      BY <2>1, <2>2, <2>3, <3>1, SendRouteUpdateOwed
    <3>2. CASE peerOf[d] # p
      <4>1. peerOf[d] \in Peer
        BY <1>t, <2>3
      <4>2. /\ peerOf[d] \in behind
            /\ peerOf[d] \in inFlight => peerOf[d] \in inFlight'
            /\ peerOf[d] \in dirty => peerOf[d] \in dirty'
        BY <2>1, <2>2, <2>3, <3>2, <4>1, SendRouteUpdateOwed
      <4>3. Covered(peerOf[d], calls) => Covered(peerOf[d], calls')
        BY <2>1, <3>2, <4>1, VisitedCovers
      <4> QED
        BY <2>3, <4>2, <4>3 DEF OwedInv, Covered
    <3> QED
      BY <3>1, <3>2
  <2> QED
    BY <2>1, <2>3 DEF OwedInv, Covered
<1>14. ASSUME NEW p \in Peer, BroadcastReject(p) PROVE OwedInv'
  <2>1. /\ calls # <<>> /\ rooms[p] \in Conn /\ phase[rooms[p]] = "ready"
        /\ RemoveConnection(rooms[p], rooms, Visited(p))
    BY <1>14 DEF BroadcastReject, Ready
  <2> QED
    BY <1>t, <2>1, VisitedType, RemoveConnectionOwed
<1>15. CASE BroadcastReturn
  <2>1. /\ calls # <<>> /\ Head(calls).todo = {} /\ calls' = Tail(calls)
        /\ UNCHANGED <<phase, peerOf, inFlight, dirty, behind, job>>
    BY <1>15 DEF BroadcastReturn, Top, pumpVars, routeVars
  <2>2. \A q \in Peer : Covered(q, calls) => Covered(q, calls')
    BY <1>t, <2>1, PopCovers
  <2> QED
    BY <1>t, <2>1, <2>2 DEF OwedInv, Covered
<1>16. ASSUME NEW dead \in SUBSET routed, NEW late \in SUBSET inFlight,
              NEW changed \in BOOLEAN, NEW failed \in SUBSET late,
              CleanExpired(dead, late, failed, changed)
       PROVE  OwedInv'
  <2>1. /\ job.op = "idle" /\ calls = <<>> /\ UNCHANGED <<phase, peerOf>>
        /\ job'.op = "close" /\ job'.fail = dead \cup failed
        /\ job'.changed = (changed \/ dead # {})
    BY <1>16, <1>q DEF CleanExpired, connVars, Idle
  <2>2. SUFFICES ASSUME NEW d \in Conn, phase[d] = "ready", peerOf[d] \in behind',
                        ~job'.changed, peerOf[d] \notin job'.fail
                 PROVE  peerOf[d] \in inFlight' /\ peerOf[d] \in dirty'
    BY <2>1 DEF OwedInv
  <2>3. peerOf[d] \in behind /\ peerOf[d] \notin late \ failed /\ peerOf[d] \notin failed
    BY <1>16, <2>1, <2>2 DEF CleanExpired
  <2>4. peerOf[d] \in inFlight /\ peerOf[d] \in dirty
    BY <1>c, <1>t, <2>1, <2>2, <2>3 DEF OwedInv
  <2> QED
    BY <1>16, <2>3, <2>4 DEF CleanExpired
<1>17. ASSUME NEW p \in Peer, MaintenanceClose(p) PROVE OwedInv'
  <2>1. CASE rooms[p] # NoConn
    <3>1. /\ rooms[p] \in Conn /\ phase[rooms[p]] = "ready"
          /\ RemoveConnection(rooms[p], rooms, calls)
      BY <1>17, <1>t, <2>1 DEF MaintenanceClose, RoomInv
    <3> QED
      BY <1>t, <3>1, RemoveConnectionOwed
  <2>2. CASE rooms[p] = NoConn
    <3>1. /\ UNCHANGED <<phase, peerOf, inFlight, dirty, behind, calls>>
          /\ job'.op = job.op /\ job'.changed = job.changed /\ job'.fail = job.fail \ {p}
      BY <1>17, <2>2 DEF MaintenanceClose, pumpVars, routeVars, TypeOK, Job
    <3>2. \A d \in Conn : phase[d] = "ready" => peerOf[d] # p
      BY <1>t, <2>2
    <3> QED
      BY <3>1, <3>2 DEF OwedInv
  <2> QED
    BY <2>1, <2>2
<1>18. CASE MaintenanceBroadcast
  <2>1. /\ calls = <<>> /\ job.fail = {} /\ job'.op = "visit"
        /\ UNCHANGED <<phase, peerOf, rooms, inFlight, dirty, behind>>
    BY <1>18 DEF MaintenanceBroadcast, connVars, pumpVars, routeVars, Idle
  <2>2. CASE job.changed
    BY <1>18, <1>b, <2>1, <2>2 DEF MaintenanceBroadcast
  <2>3. CASE ~job.changed
    <3>1. calls' = calls
      BY <1>18, <2>3 DEF MaintenanceBroadcast
    <3> QED
      BY <2>1, <2>3, <3>1 DEF OwedInv
  <2> QED
    BY <2>2, <2>3
<1>19. ASSUME NEW c \in Conn, MaintenanceSkip(c) PROVE OwedInv'
  BY <1>0, <1>19 DEF MaintenanceSkip, connVars, TypeOK, Job
<1>20. ASSUME NEW c \in Conn, MaintenanceSend(c) PROVE OwedInv'
  <2>1. /\ phase[c] = "ready" /\ calls = <<>> /\ job.op = "visit" /\ job'.op = "visit"
        /\ UNCHANGED peerOf
    BY <1>20 DEF MaintenanceSend, Ready, TypeOK, Job
  <2>2. CASE SendRouteUpdate(c, FALSE, FALSE) /\ phase' = phase
    <3> SUFFICES ASSUME NEW d \in Conn, phase[d] = "ready", peerOf[d] \in behind'
                 PROVE  peerOf[d] \in inFlight' /\ peerOf[d] \in dirty'
      BY <2>1, <2>2 DEF OwedInv
    <3>1. CASE d = c
      BY <2>1, <2>2, <3>1, SendRouteUpdateOwed
    <3>2. CASE d # c
      <4>1. peerOf[d] \in Peer /\ peerOf[d] # peerOf[c]
        BY <1>t, <2>1, <3>2
      <4>2. /\ peerOf[d] \in behind
            /\ peerOf[d] \in inFlight => peerOf[d] \in inFlight'
            /\ peerOf[d] \in dirty => peerOf[d] \in dirty'
        BY <2>1, <2>2, <4>1, SendRouteUpdateOwed
      <4>3. peerOf[d] \in inFlight /\ peerOf[d] \in dirty
        BY <1>c, <2>1, <4>1, <4>2 DEF OwedInv
      <4> QED
        BY <4>2, <4>3
    <3> QED
      BY <3>1, <3>2
  <2>3. CASE RemoveConnection(c, rooms, calls)
    BY <1>t, <2>1, <2>3, RemoveConnectionOwed
  <2> QED
    BY <1>20, <2>2, <2>3 DEF MaintenanceSend
<1>21. CASE MaintenanceEnd
  BY <1>0, <1>21 DEF MaintenanceEnd, connVars, Idle
<1>22. CASE RouteIdStored
  BY <1>0, <1>22 DEF RouteIdStored, connVars
<1>23. CASE Restart
  BY <1>23 DEF Restart, OwedInv
<1> QED
  BY <1>1, <1>2, <1>3, <1>4, <1>6, <1>7, <1>8, <1>9, <1>10, <1>11, <1>12, <1>13, <1>14, <1>15,
     <1>16, <1>17, <1>18, <1>19, <1>20, <1>21, <1>22, <1>23
  DEF Next, Event, Timeout, MaintenanceTimer, Continue

-----------------------------------------------------------------------------
(* The theorems.                                                           *)

\* Ownership and debts are invariants.
THEOREM PumpCorrect == Spec => [](BaseInv /\ PumpInv /\ OwedInv)
<1>1. Init => PumpInv /\ OwedInv
  BY PumpInit, OwedInit
<1>2. BaseInv /\ BaseInv' /\ PumpInv /\ OwedInv /\ [Next]_vars => PumpInv' /\ OwedInv'
  BY PumpStep, OwedStep DEF BaseInv
<1> QED
  BY <1>1, <1>2, BaseCorrect, PTL DEF Spec

\* The retry loop of cleanExpired, maintainPeer and handleResponse only ever
\* send on the ready, not yet freed connection that owns the peer id.
THEOREM OwnershipCorrect == Spec => []PumpOwned
<1>1. BaseInv /\ PumpInv /\ OwedInv => PumpOwned
  <2> SUFFICES ASSUME BaseInv, PumpInv PROVE PumpOwned
    OBVIOUS
  <2>1. TypeOK /\ FreedOnce
    BY DEF BaseInv
  <2>2. \A c \in freed : phase[c] = "closed"
    BY <2>1, FreedOnceForm
  <2> QED
    BY <2>1, <2>2 DEF PumpInv, PumpOwned
<1> QED
  BY <1>1, PumpCorrect, PTL

\* No topology change is lost: a ready peer that is behind has an update in
\* flight and the dirty flag that makes the pump build another one.
THEOREM NoUpdateLost == Spec => []NoLostUpdate
<1>1. BaseInv /\ PumpInv /\ OwedInv => NoLostUpdate
  <2> SUFFICES ASSUME OwedInv, Quiescent PROVE NoLostUpdate
    BY DEF NoLostUpdate
  <2>1. job.op = "idle" /\ calls = <<>>
    BY DEF Quiescent, Idle
  <2>2. ~ \E i \in 1..Len(calls) : TRUE
    BY <2>1
  <2> QED
    BY <2>1, <2>2 DEF OwedInv, NoLostUpdate
<1> QED
  BY <1>1, PumpCorrect, PTL

-----------------------------------------------------------------------------
(* The admission limits: the handshake counters are exact, so what fetch   *)
(* checks before it accepts a connection is what there is.                 *)

\* The connections in their handshake, all or those of an address
InHandshake(ph) == {c \in Conn : ph[c] \in Pending}
InHandshakeOf(ph, ips, ip) == {c \in Conn : ph[c] \in Pending /\ ips[c] = ip}

\* The counters are exact and a connection in its handshake has an address.
QuotaInv ==
    /\ QuotaExact
    /\ \A c \in Conn : phase[c] \in Pending => ipOf[c] \in IP

\* The limits, in terms of the counters.
LimitInv ==
    /\ Cardinality(connections) <= MaxConnections
    /\ pendingHandshakes <= MaxPendingHandshakes
    /\ \A ip \in IP : pendingByIp[ip] <= MaxPendingPerIp

\* The sets counted by the quota are finite.
LEMMA InHandshakeFinite ==
    ASSUME NEW ph, NEW ips, NEW ip
    PROVE  /\ IsFiniteSet(InHandshake(ph)) /\ Cardinality(InHandshake(ph)) \in Nat
           /\ IsFiniteSet(InHandshakeOf(ph, ips, ip)) /\ Cardinality(InHandshakeOf(ph, ips, ip)) \in Nat
<1>1. InHandshake(ph) \subseteq Conn /\ InHandshakeOf(ph, ips, ip) \subseteq Conn
  BY DEF InHandshake, InHandshakeOf
<1> QED
  BY <1>1, ConnAssumption, FS_Subset, FS_CardinalityType

\* A connection leaves its handshake and its slot is released: the counters
\* stay exact, and the clamp at zero is never used.
LEMMA ReleaseExact ==
    ASSUME TypeOK, QuotaInv, NEW STATE c, c \in Conn, phase[c] \in Pending,
           NEW CONSTANT x \in {"ready", "closed"}, phase' = [phase EXCEPT ![c] = x],
           ipOf' = ipOf, ReleaseHandshakeSlot(c)
    PROVE  QuotaInv' /\ (LimitInv /\ connections' \subseteq connections => LimitInv')
<1> DEFINE P == InHandshake(phase)
           Q(ip) == InHandshakeOf(phase, ipOf, ip)
<1>1. /\ pendingHandshakes = Cardinality(P)
      /\ \A ip \in IP : pendingByIp[ip] = Cardinality(Q(ip))
      /\ ipOf[c] \in IP
  BY DEF QuotaInv, QuotaExact, InHandshake, InHandshakeOf
<1>2. /\ c \in P /\ InHandshake(phase') = P \ {c}
      /\ c \in Q(ipOf[c]) /\ InHandshakeOf(phase', ipOf', ipOf[c]) = Q(ipOf[c]) \ {c}
      /\ \A ip \in IP : ip # ipOf[c] => InHandshakeOf(phase', ipOf', ip) = Q(ip)
  BY DEF TypeOK, InHandshake, InHandshakeOf
<1>3. /\ IsFiniteSet(P) /\ Cardinality(P) \in Nat
      /\ \A ip \in IP : IsFiniteSet(Q(ip)) /\ Cardinality(Q(ip)) \in Nat
  BY InHandshakeFinite
<1> HIDE DEF P, Q
<1>4. /\ Cardinality(P \ {c}) = Cardinality(P) - 1 /\ Cardinality(P \ {c}) \in Nat
      /\ Cardinality(Q(ipOf[c]) \ {c}) = Cardinality(Q(ipOf[c])) - 1
      /\ Cardinality(Q(ipOf[c]) \ {c}) \in Nat
  BY <1>1, <1>2, <1>3, FS_RemoveElement, FS_CardinalityType
<1>5. /\ pendingHandshakes \in Nat /\ pendingHandshakes > 0
      /\ pendingHandshakes' = pendingHandshakes - 1
      /\ pendingHandshakes' = Cardinality(InHandshake(phase'))
  <2>1. pendingHandshakes \in Nat /\ pendingHandshakes - 1 \in Nat
    BY <1>1, <1>3, <1>4
  <2>2. pendingHandshakes' = pendingHandshakes - 1
    BY <2>1 DEF ReleaseHandshakeSlot
  <2>3. pendingHandshakes > 0
    BY <2>1
  <2>4. pendingHandshakes' = Cardinality(InHandshake(phase'))
    BY <1>1, <1>2, <1>4, <2>2
  <2> QED
    BY <2>1, <2>2, <2>3, <2>4
<1>6. /\ pendingByIp \in [IP -> Nat]
      /\ pendingByIp'[ipOf[c]] = pendingByIp[ipOf[c]] - 1
      /\ pendingByIp'[ipOf[c]] = Cardinality(InHandshakeOf(phase', ipOf', ipOf[c]))
      /\ \A ip \in IP : ip # ipOf[c] => pendingByIp'[ip] = pendingByIp[ip]
  <2>1. pendingByIp[ipOf[c]] \in Nat /\ pendingByIp[ipOf[c]] - 1 \in Nat
    BY <1>1, <1>3, <1>4
  <2>2. /\ pendingByIp \in [IP -> Nat]
        /\ pendingByIp' = [pendingByIp EXCEPT ![ipOf[c]] = IF @ > 0 THEN @ - 1 ELSE 0]
    BY DEF ReleaseHandshakeSlot, TypeOK
  <2>3. pendingByIp'[ipOf[c]] = pendingByIp[ipOf[c]] - 1
    BY <1>1, <2>1, <2>2
  <2>4. \A ip \in IP : ip # ipOf[c] => pendingByIp'[ip] = pendingByIp[ip]
    BY <2>2
  <2> QED
    BY <1>1, <1>2, <1>4, <2>2, <2>3, <2>4
<1>7. ASSUME NEW ip \in IP
      PROVE  /\ pendingByIp'[ip] = Cardinality(InHandshakeOf(phase', ipOf', ip))
             /\ pendingByIp'[ip] <= pendingByIp[ip]
  <2>1. CASE ip = ipOf[c]
    <3>1. pendingByIp[ip] \in Nat
      BY <1>6
    <3>2. pendingByIp'[ip] = pendingByIp[ip] - 1
      BY <1>6, <2>1
    <3>3. pendingByIp'[ip] <= pendingByIp[ip]
      BY <3>1, <3>2
    <3> QED
      BY <1>6, <2>1, <3>3
  <2>2. CASE ip # ipOf[c]
    <3>1. pendingByIp'[ip] = pendingByIp[ip] /\ pendingByIp[ip] \in Nat
      BY <1>6, <2>2
    <3>2. pendingByIp[ip] = Cardinality(InHandshakeOf(phase', ipOf', ip))
      BY <1>1, <1>2, <2>2
    <3> QED
      BY <3>1, <3>2
  <2> QED
    BY <2>1, <2>2
<1>8. QuotaInv'
  <2>1. \A d \in Conn : phase'[d] \in Pending => ipOf'[d] \in IP
    BY DEF TypeOK, QuotaInv
  <2> QED
    BY <1>5, <1>7, <2>1 DEF QuotaInv, QuotaExact, InHandshake, InHandshakeOf
<1>9. ASSUME LimitInv, connections' \subseteq connections PROVE LimitInv'
  <2>1. Cardinality(connections') <= Cardinality(connections)
        /\ Cardinality(connections) \in Nat /\ Cardinality(connections') \in Nat
    BY <1>9, ConnAssumption, FS_Subset, FS_CardinalityType DEF TypeOK
  <2>2. pendingHandshakes' <= MaxPendingHandshakes
    BY <1>5, <1>9, LimitAssumption DEF LimitInv
  <2>3. ASSUME NEW ip \in IP PROVE pendingByIp'[ip] <= MaxPendingPerIp
    <3>1. pendingByIp[ip] \in Nat /\ pendingByIp'[ip] \in Nat
      BY <1>7, InHandshakeFinite DEF TypeOK
    <3> QED
      BY <1>7, <1>9, <3>1, LimitAssumption DEF LimitInv
  <2> QED
    BY <1>9, <2>1, <2>2, <2>3, LimitAssumption DEF LimitInv
<1> QED
  BY <1>8, <1>9

\* A step that moves no connection into or out of its handshake and leaves the
\* counters alone.
LEMMA KeepExact ==
    ASSUME TypeOK, QuotaInv, UNCHANGED quotaVars, ipOf' = ipOf,
           \A c \in Conn : phase'[c] \in Pending <=> phase[c] \in Pending
    PROVE  QuotaInv' /\ (LimitInv /\ connections' \subseteq connections => LimitInv')
<1>1. QuotaInv'
  <2>1. InHandshake(phase') = InHandshake(phase)
    BY DEF InHandshake
  <2>2. \A ip \in IP : InHandshakeOf(phase', ipOf', ip) = InHandshakeOf(phase, ipOf, ip)
    BY DEF InHandshakeOf
  <2> QED
    BY <2>1, <2>2 DEF QuotaInv, QuotaExact, InHandshake, InHandshakeOf, quotaVars
<1>2. ASSUME LimitInv, connections' \subseteq connections PROVE LimitInv'
  <2>1. Cardinality(connections') <= Cardinality(connections)
        /\ Cardinality(connections) \in Nat /\ Cardinality(connections') \in Nat
    BY <1>2, ConnAssumption, FS_Subset, FS_CardinalityType DEF TypeOK
  <2> QED
    BY <1>2, <2>1, LimitAssumption DEF LimitInv, quotaVars
<1> QED
  BY <1>1, <1>2

\* Removing a connection, in its handshake or ready.
LEMMA RemoveConnectionQuota ==
    ASSUME TypeOK, QuotaInv, LimitInv, NEW STATE c, c \in Conn, NEW STATE rms, NEW STATE rest,
           RemoveConnection(c, rms, rest), ipOf' = ipOf
    PROVE  QuotaInv' /\ LimitInv'
<1>1. phase[c] \in Live /\ phase' = [phase EXCEPT ![c] = "closed"] /\ connections' \subseteq connections
  BY DEF RemoveConnection
<1>2. CASE phase[c] = "ready"
  <2>1. UNCHANGED quotaVars
    BY <1>2 DEF RemoveConnection
  <2>2. \A d \in Conn : phase'[d] \in Pending <=> phase[d] \in Pending
    BY <1>1, <1>2 DEF TypeOK
  <2> QED
    BY <1>1, <2>1, <2>2, KeepExact
<1>3. CASE phase[c] # "ready"
  <2>1. ReleaseHandshakeSlot(c) /\ phase[c] \in Pending
    BY <1>1, <1>3 DEF RemoveConnection
  <2> QED
    BY <1>1, <2>1, ReleaseExact
<1> QED
  BY <1>2, <1>3

\* createConnection takes a slot, after fetch has checked that there is one.
LEMMA AcceptQuota ==
    ASSUME TypeOK, RoomInv, QuotaInv, LimitInv, NEW c \in Conn, NEW ip \in IP, Accept(c, ip)
    PROVE  QuotaInv' /\ LimitInv'
<1> DEFINE P == InHandshake(phase)
           Q(i) == InHandshakeOf(phase, ipOf, i)
<1>1. /\ pendingHandshakes = Cardinality(P)
      /\ \A i \in IP : pendingByIp[i] = Cardinality(Q(i))
  BY DEF QuotaInv, QuotaExact, InHandshake, InHandshakeOf
<1>2. /\ c \notin P /\ InHandshake(phase') = P \cup {c}
      /\ c \notin Q(ip) /\ InHandshakeOf(phase', ipOf', ip) = Q(ip) \cup {c}
      /\ \A i \in IP : i # ip => InHandshakeOf(phase', ipOf', i) = Q(i)
  BY DEF Accept, TypeOK, InHandshake, InHandshakeOf
<1>3. IsFiniteSet(P) /\ IsFiniteSet(Q(ip))
  BY InHandshakeFinite
<1> HIDE DEF P, Q
<1>4. /\ Cardinality(P \cup {c}) = Cardinality(P) + 1
      /\ Cardinality(Q(ip) \cup {c}) = Cardinality(Q(ip)) + 1
  BY <1>2, <1>3, FS_AddElement
<1>5. /\ pendingHandshakes' = pendingHandshakes + 1
      /\ pendingHandshakes \in Nat /\ pendingHandshakes < MaxPendingHandshakes
      /\ pendingByIp \in [IP -> Nat] /\ pendingByIp[ip] < MaxPendingPerIp
      /\ pendingByIp'[ip] = pendingByIp[ip] + 1
      /\ \A i \in IP : i # ip => pendingByIp'[i] = pendingByIp[i]
  BY DEF Accept, HasCapacity, TypeOK
<1>6. pendingHandshakes' = Cardinality(InHandshake(phase'))
  BY <1>1, <1>2, <1>4, <1>5
<1>7. ASSUME NEW i \in IP PROVE pendingByIp'[i] = Cardinality(InHandshakeOf(phase', ipOf', i))
  <2>1. CASE i = ip
    <3>1. pendingByIp'[ip] = Cardinality(Q(ip)) + 1
      BY <1>1, <1>5
    <3> QED
      BY <1>2, <1>4, <2>1, <3>1
  <2>2. CASE i # ip
    BY <1>1, <1>2, <1>5, <2>2
  <2> QED
    BY <2>1, <2>2
<1>8. \A d \in Conn : phase'[d] \in Pending => ipOf'[d] \in IP
  BY DEF Accept, HasCapacity, TypeOK, QuotaInv
<1>9. QuotaInv'
  BY <1>6, <1>7, <1>8 DEF QuotaInv, QuotaExact, InHandshake, InHandshakeOf
<1>10. Cardinality(connections') <= MaxConnections
  <2>1. c \notin connections /\ connections' = connections \cup {c} /\ Cardinality(connections) < MaxConnections
    BY DEF Accept, HasCapacity, RoomInv
  <2>2. IsFiniteSet(connections)
    BY ConnAssumption, FS_Subset DEF TypeOK
  <2>3. Cardinality(connections') = Cardinality(connections) + 1 /\ Cardinality(connections) \in Nat
    BY <2>1, <2>2, FS_AddElement, FS_CardinalityType
  <2> QED
    BY <2>1, <2>3, LimitAssumption
<1>11. pendingHandshakes' <= MaxPendingHandshakes
  BY <1>5, LimitAssumption
<1>12. ASSUME NEW i \in IP PROVE pendingByIp'[i] <= MaxPendingPerIp
  <2>1. CASE i = ip
    <3>1. pendingByIp[ip] \in Nat
      BY <1>5
    <3> QED
      BY <1>5, <2>1, <3>1, LimitAssumption
  <2>2. CASE i # ip
    BY <1>5, <2>2 DEF LimitInv
  <2> QED
    BY <2>1, <2>2
<1> QED
  BY <1>9, <1>10, <1>11, <1>12 DEF LimitInv

\* Initially there is no connection.
LEMMA QuotaInit == Init => QuotaInv /\ LimitInv
<1> SUFFICES ASSUME Init PROVE QuotaInv /\ LimitInv
  OBVIOUS
<1>1. /\ {c \in Conn : phase[c] \in Pending} = {}
      /\ \A ip \in IP : {c \in Conn : phase[c] \in Pending /\ ipOf[c] = ip} = {}
      /\ connections = {} /\ pendingHandshakes = 0 /\ \A ip \in IP : pendingByIp[ip] = 0
  BY DEF Init
<1>2. Cardinality({}) = 0
  BY FS_EmptySet
<1> QED
  BY <1>1, <1>2, LimitAssumption DEF QuotaInv, QuotaExact, LimitInv

\* Every step keeps the counters exact and within the limits.
LEMMA QuotaStep ==
    TypeOK /\ RoomInv /\ QuotaInv /\ LimitInv /\ [Next]_vars => QuotaInv' /\ LimitInv'
<1> SUFFICES ASSUME TypeOK, RoomInv, QuotaInv, LimitInv, [Next]_vars PROVE QuotaInv' /\ LimitInv'
  OBVIOUS
<1> DEFINE Goal == QuotaInv' /\ LimitInv'
<1> USE ConnAssumption, PeerAssumption
<1>0. ASSUME UNCHANGED <<phase, ipOf, connections, quotaVars>> PROVE Goal
  BY <1>0, KeepExact
<1>1. CASE UNCHANGED vars
  BY <1>0, <1>1 DEF vars, connVars
<1>2. ASSUME NEW c \in Conn, NEW ip \in IP, Accept(c, ip) PROVE Goal
  BY <1>2, AcceptQuota
<1>3. ASSUME NEW c \in Conn, Drop(c) \/ HandshakeTimeout(c) PROVE Goal
  BY <1>3, RemoveConnectionQuota DEF Drop, HandshakeTimeout
<1>4. ASSUME NEW c \in Conn, NEW p \in Peer, HandshakeMessage1(c, p) PROVE Goal
  <2>1. ipOf' = ipOf /\ phase[c] = "msg1"
    BY <1>4 DEF HandshakeMessage1
  <2>2. CASE phase' = [phase EXCEPT ![c] = "msg3"] /\ UNCHANGED <<connections, quotaVars>>
    BY <2>1, <2>2, KeepExact DEF TypeOK
  <2>3. CASE RemoveConnection(c, rooms, calls)
    BY <2>1, <2>3, RemoveConnectionQuota
  <2> QED
    BY <1>4, <2>2, <2>3 DEF HandshakeMessage1
<1>5. ASSUME NEW STATE c, c \in Conn, NEW STATE p, p \in Peer, RegisterConnection(c, p), ipOf' = ipOf PROVE Goal
  <2>1. CASE rooms[p] # NoConn
    BY <1>5, <2>1, RemoveConnectionQuota DEF RegisterConnection, TypeOK
  <2>2. CASE rooms[p] = NoConn
    BY <1>0, <1>5, <2>2 DEF RegisterConnection
  <2> QED
    BY <2>1, <2>2
<1>6. ASSUME NEW c \in Conn, HandshakeMessage3(c) PROVE Goal
  BY <1>5, <1>6 DEF HandshakeMessage3, RoomInv
<1>7. ASSUME NEW c \in Conn, NEW p \in Peer, LegacyHandshake(c, p) PROVE Goal
  BY <1>5, <1>7 DEF LegacyHandshake
<1>8. CASE FinishRegistration
  <2>1. /\ job.conn \in Conn /\ phase[job.conn] \in Pending
        /\ phase' = [phase EXCEPT ![job.conn] = "ready"]
        /\ ReleaseHandshakeSlot(job.conn)
        /\ UNCHANGED <<ipOf, connections>>
    BY <1>8 DEF FinishRegistration, RoomInv
  <2> QED
    BY <2>1, ReleaseExact
<1>9. ASSUME NEW c \in Conn, NEW p \in Peer, ForwardRejected(c, p) PROVE Goal
  BY <1>9, RemoveConnectionQuota DEF ForwardRejected, Ready
<1>10. ASSUME NEW c \in Conn, NEW changed \in BOOLEAN, RouteRequest(c, changed) PROVE Goal
  BY <1>0, <1>10 DEF RouteRequest, connVars
<1>11. ASSUME NEW c \in Conn, RouteResponse(c) PROVE Goal
  BY <1>0, <1>11 DEF RouteResponse, connVars
<1>12. ASSUME NEW p \in Peer, BroadcastSkip(p) \/ BroadcastSend(p) PROVE Goal
  BY <1>0, <1>12 DEF BroadcastSkip, BroadcastSend, connVars
<1>13. ASSUME NEW p \in Peer, BroadcastReject(p) PROVE Goal
  BY <1>13, RemoveConnectionQuota DEF BroadcastReject, Ready
<1>14. CASE BroadcastReturn
  BY <1>0, <1>14 DEF BroadcastReturn
<1>15. ASSUME NEW dead \in SUBSET routed, NEW late \in SUBSET inFlight,
              NEW changed \in BOOLEAN, NEW failed \in SUBSET late,
              CleanExpired(dead, late, failed, changed)
       PROVE  Goal
  BY <1>0, <1>15 DEF CleanExpired, connVars
<1>16. ASSUME NEW p \in Peer, MaintenanceClose(p) PROVE Goal
  <2>1. CASE rooms[p] # NoConn
    BY <1>16, <2>1, RemoveConnectionQuota DEF MaintenanceClose, TypeOK
  <2>2. CASE rooms[p] = NoConn
    BY <1>0, <1>16, <2>2 DEF MaintenanceClose
  <2> QED
    BY <2>1, <2>2
<1>17. CASE MaintenanceBroadcast
  BY <1>0, <1>17 DEF MaintenanceBroadcast, connVars
<1>18. ASSUME NEW c \in Conn, MaintenanceSkip(c) PROVE Goal
  BY <1>0, <1>18 DEF MaintenanceSkip, connVars
<1>19. ASSUME NEW c \in Conn, MaintenanceSend(c) PROVE Goal
  <2>1. ipOf' = ipOf
    BY <1>19 DEF MaintenanceSend
  <2>2. CASE UNCHANGED <<phase, connections, quotaVars>>
    BY <1>0, <2>1, <2>2
  <2>3. CASE RemoveConnection(c, rooms, calls)
    BY <2>1, <2>3, RemoveConnectionQuota
  <2> QED
    BY <1>19, <2>2, <2>3 DEF MaintenanceSend
<1>20. CASE MaintenanceEnd
  BY <1>0, <1>20 DEF MaintenanceEnd, connVars
<1>21. CASE RouteIdStored
  BY <1>0, <1>21 DEF RouteIdStored, connVars
<1>22. CASE Restart
  <2>1. /\ {c \in Conn : phase'[c] \in Pending} = {}
        /\ \A ip \in IP : {c \in Conn : phase'[c] \in Pending /\ ipOf'[c] = ip} = {}
        /\ connections' = {} /\ pendingHandshakes' = 0 /\ \A ip \in IP : pendingByIp'[ip] = 0
    BY <1>22 DEF Restart, TypeOK
  <2>2. Cardinality({}) = 0
    BY FS_EmptySet
  <2>3. \A c \in Conn : phase'[c] \notin Pending
    BY <1>22 DEF Restart, TypeOK
  <2>4. QuotaInv'
    BY <2>1, <2>2, <2>3 DEF QuotaInv, QuotaExact
  <2>5. LimitInv'
    BY <2>1, <2>2, LimitAssumption DEF LimitInv
  <2> QED
    BY <2>4, <2>5
<1> QED
  BY <1>1, <1>2, <1>3, <1>4, <1>6, <1>7, <1>8, <1>9, <1>10, <1>11, <1>12, <1>13, <1>14, <1>15,
     <1>16, <1>17, <1>18, <1>19, <1>20, <1>21, <1>22
  DEF Next, Event, Timeout, MaintenanceTimer, Continue

-----------------------------------------------------------------------------
(* The theorems.                                                           *)

\* The counters are exact and within the limits in every reachable state.
THEOREM AdmissionCorrect == Spec => [](BaseInv /\ QuotaInv /\ LimitInv)
<1>1. BaseInv /\ QuotaInv /\ LimitInv /\ [Next]_vars => QuotaInv' /\ LimitInv'
  BY QuotaStep DEF BaseInv
<1> QED
  BY <1>1, QuotaInit, BaseCorrect, PTL DEF Spec

\* However a connection leaves its handshake, releaseHandshakeSlot runs for it
\* once: the counters count the handshakes there are.
THEOREM QuotaCorrect == Spec => []QuotaExact
<1>1. BaseInv /\ QuotaInv /\ LimitInv => QuotaExact
  BY DEF QuotaInv
<1> QED
  BY <1>1, AdmissionCorrect, PTL

\* MAX_CONNECTIONS, MAX_PENDING_HANDSHAKES and maxPendingPerIp bound the
\* connections there are, not only the counters that fetch compares.
THEOREM CapacityCorrect == Spec => []WithinCapacity
<1>1. BaseInv /\ QuotaInv /\ LimitInv => WithinCapacity
  BY DEF BaseInv, RoomInv, QuotaInv, QuotaExact, LimitInv, WithinCapacity
<1> QED
  BY <1>1, AdmissionCorrect, PTL
=============================================================================
