-------------------------- MODULE PeerCenterProofs --------------------------
(***************************************************************************)
(* The safety properties of PeerCenter, for any peers, infos, TTL and      *)
(* interval.  They come from two inductive invariants: RowInv says where   *)
(* the rows come from and how old they are, DigestInv that every digest in *)
(* the system is the digest of the map it stands beside.                   *)
(***************************************************************************)
EXTENDS PeerCenter, TLAPS

\* A digest as the one of a client's map
MapDigest(m) == {t \in Peer \X Peer \X Info : m[t[1]][t[2]] = t[3]}

\* A row is backed by a report that is not older, of a peer that is connected,
\* and was renewed within the TTL when the maintenance last looked.
RowInv ==
    /\ reported \subseteq connected
    /\ \A k \in Pair : row[k] # NoInfo =>
        /\ k[1] \in reported
        /\ reportAge[k[1]] <= rowAge[k]
        /\ rowAge[k] < Ttl + since
    /\ \A k \in Pair : row[k] = NoInfo => rowAge[k] = 0
    /\ connected = {} => ~group

\* Every digest but 0 is the digest of its map.
DigestInv ==
    /\ digest # NoDigest => digest = calc_digest(row)
    /\ \A p \in Peer : known[p].digest # NoDigest => known[p].digest = MapDigest(known[p].map)
    /\ \A p \in Peer : answer[p].digest # NoDigest => answer[p].digest = MapDigest(answer[p].map)

-----------------------------------------------------------------------------
(* Operators.                                                              *)

\* The digest of rows is one of the digests, and 0 is not.
LEMMA DigestType ==
    ASSUME NEW r PROVE calc_digest(r) \in Digests /\ calc_digest(r) # NoDigest
<1>1. calc_digest(r) \in Digests
    BY DEF calc_digest, Digests
<1>2. QED
    BY <1>1, PeerCenterAssumption

\* Grouping gives a map, with the same digest.
LEMMA GroupedDigest ==
    ASSUME NEW r \in Rows
    PROVE  Grouped(r) \in Maps /\ MapDigest(Grouped(r)) = calc_digest(r)
<1>1. Grouped(r) \in Maps
    BY DEF Grouped, Maps, Rows, Pair
<1>2. ASSUME NEW t \in Peer \X Peer \X Info
      PROVE  Grouped(r)[t[1]][t[2]] = r[<<t[1], t[2]>>]
    BY DEF Grouped
<1>3. QED
    BY <1>1, <1>2 DEF MapDigest, calc_digest

\* Maps with the same digest are the same: the hash covers every entry.
LEMMA DigestInjective ==
    ASSUME NEW m \in Maps, NEW n \in Maps, MapDigest(m) = MapDigest(n)
    PROVE  m = n
<1>1. ASSUME NEW s \in Peer, NEW d \in Peer
      PROVE  m[s][d] = n[s][d]
    <2>1. \A i \in Info : <<s, d, i>> \in MapDigest(m) <=> m[s][d] = i
        BY DEF MapDigest
    <2>2. \A i \in Info : <<s, d, i>> \in MapDigest(n) <=> n[s][d] = i
        BY DEF MapDigest
    <2>3. m[s][d] \in Info \cup {NoInfo} /\ n[s][d] \in Info \cup {NoInfo}
        BY DEF Maps
    <2>4. QED
        BY <2>1, <2>2, <2>3, PeerCenterAssumption
<1>2. ASSUME NEW s \in Peer PROVE m[s] = n[s]
    BY <1>1 DEF Maps
<1>3. QED
    BY <1>2 DEF Maps

\* What Keep leaves has its type.
LEMMA KeepType ==
    ASSUME TypeOK, NEW r \in Rows, NEW q \in SUBSET Peer, Keep(r, q)
    PROVE  /\ group' \in BOOLEAN /\ row' \in Rows /\ rowAge' \in [Pair -> Nat]
           /\ reported' \in SUBSET Peer /\ reportAge' \in [Peer -> Nat]
           /\ digest' \in {NoDigest} \cup Digests
           /\ ~group' => row' = NoRows /\ reported' = {} /\ digest' = NoDigest
<1>1. group' \in BOOLEAN /\ row' \in Rows /\ reported' \in SUBSET Peer
    BY DEF Keep
<1>2. rowAge' \in [Pair -> Nat] /\ reportAge' \in [Peer -> Nat]
    BY DEF Keep, TypeOK
<1>3. digest' \in {NoDigest} \cup Digests
    BY DigestType DEF Keep
<1>4. ~group' => row' = NoRows /\ reported' = {} /\ digest' = NoDigest
    BY DEF Keep
<1>5. QED
    BY <1>1, <1>2, <1>3, <1>4

\* The rows remove_peer and clean_outdated keep are rows.
LEMMA KeptRows ==
    ASSUME TypeOK
    PROVE  /\ \A p \in Peer :
                [k \in Pair |-> IF p \in {k[1], k[2]} THEN NoInfo ELSE row[k]] \in Rows
           /\ [k \in Pair |-> IF rowAge[k] < Ttl THEN row[k] ELSE NoInfo] \in Rows
BY DEF TypeOK, Rows

LEMMA AnswerTypes ==
    /\ NoMap \in Maps
    /\ NoAnswer \in [kind : {"none", "unchanged", "full"}, digest : {NoDigest} \cup Digests, map : Maps]
    /\ Unchanged \in [kind : {"none", "unchanged", "full"}, digest : {NoDigest} \cup Digests, map : Maps]
    /\ NoRows \in Rows
BY DEF NoMap, Maps, NoAnswer, Unchanged, NoRows, Rows

-----------------------------------------------------------------------------
(* Types.                                                                  *)

\* Every step keeps the types.
LEMMA TypeStep == TypeOK /\ [Next]_vars => TypeOK'
<1> SUFFICES ASSUME TypeOK, [Next]_vars PROVE TypeOK'
    OBVIOUS
<1> USE AnswerTypes, PeerCenterAssumption
<1>1. CASE UNCHANGED vars
    BY <1>1 DEF TypeOK, vars, server
<1>2. ASSUME NEW p \in Peer, Connect(p) PROVE TypeOK'
    BY <1>2 DEF TypeOK, Connect, server
<1>3. ASSUME NEW p \in Peer, remove_peer(p)
      PROVE  /\ group' \in BOOLEAN /\ row' \in Rows /\ rowAge' \in [Pair -> Nat]
             /\ reported' \in SUBSET Peer /\ reportAge' \in [Peer -> Nat]
             /\ digest' \in {NoDigest} \cup Digests
             /\ ~group' => row' = NoRows /\ reported' = {} /\ digest' = NoDigest
    <2>1. reported \ {p} \in SUBSET Peer
        BY DEF TypeOK
    <2>2. QED
        BY <1>3, <2>1, KeepType, KeptRows DEF remove_peer
<1>4. ASSUME NEW p \in Peer, Leave(p), changes' \in 0..MaxChanges PROVE TypeOK'
    BY <1>3, <1>4 DEF TypeOK, Leave
<1>5. ASSUME NEW p \in Peer, Disconnect(p) PROVE TypeOK'
    BY <1>4, <1>5 DEF Disconnect, TypeOK
<1>6. ASSUME NEW p \in Peer, Reconnect(p) PROVE TypeOK'
    BY <1>3, <1>6 DEF TypeOK, Reconnect
<1>7. ASSUME NEW p \in Peer, NEW id \in Peer, NEW links \in Links(p), ReportPeers(p, id, links)
      PROVE  TypeOK'
    <2>0. changes' \in 0..MaxChanges
        BY <1>7 DEF ReportPeers, CountReport, TypeOK
    <2>1. CASE id # p
        BY <1>4, <1>7, <2>0, <2>1 DEF ReportPeers
    <2>2. CASE id = p
        <3>1. report_peers(p, links) /\ UNCHANGED <<connected, answer, known, since>>
            BY <1>7, <2>2 DEF ReportPeers
        <3>2. row' \in Rows
            BY <3>1 DEF report_peers, TypeOK, Rows, Links, Pair
        <3>3. rowAge' \in [Pair -> Nat] /\ reportAge' \in [Peer -> Nat]
            BY <3>1 DEF report_peers, TypeOK
        <3>4. digest' \in {NoDigest} \cup Digests /\ group' /\ reported' \in SUBSET Peer
            BY <3>1, DigestType DEF report_peers, TypeOK
        <3>5. QED
            BY <2>0, <3>1, <3>2, <3>3, <3>4 DEF TypeOK
    <2>3. QED
        BY <2>1, <2>2
<1>8. ASSUME NEW p \in Peer, GetGlobalPeerMap(p) PROVE TypeOK'
    <2>1. Grouped(row) \in Maps
        BY GroupedDigest DEF TypeOK
    <2>2. Full(digest, Grouped(row)) \in
            [kind : {"none", "unchanged", "full"}, digest : {NoDigest} \cup Digests, map : Maps]
        BY <2>1 DEF Full, TypeOK
    <2>3. QED
        BY <1>8, <2>2 DEF GetGlobalPeerMap, get_global_peer_map, TypeOK
<1>9. ASSUME NEW p \in Peer, Receive(p) PROVE TypeOK'
    <2>1. [digest |-> answer[p].digest, map |-> answer[p].map]
            \in [digest : {NoDigest} \cup Digests, map : Maps]
        BY DEF TypeOK
    <2>2. QED
        BY <1>9, <2>1 DEF Receive, TypeOK, server
<1>10. CASE CleanExpired
    <2>1. {p \in reported : reportAge[p] < Ttl} \in SUBSET Peer
        BY DEF TypeOK
    <2>2. QED
        BY <1>10, <2>1, KeepType, KeptRows DEF CleanExpired, clean_outdated, TypeOK
<1>11. CASE Restart
    <2>1. rowAge' \in [Pair -> Nat] /\ reportAge' \in [Peer -> Nat]
        BY <1>11 DEF Restart
    <2>2. answer' \in [Peer -> [kind : {"none", "unchanged", "full"},
                                digest : {NoDigest} \cup Digests, map : Maps]]
        BY <1>11 DEF Restart
    <2>3. changes' \in 0..MaxChanges
        BY <1>11 DEF Restart, TypeOK
    <2>4. QED
        BY <1>11, <2>1, <2>2, <2>3 DEF Restart, TypeOK
<1>12. CASE Tick
    BY <1>12 DEF Tick, TypeOK
<1>13. QED
    BY <1>1, <1>2, <1>5, <1>6, <1>7, <1>8, <1>9, <1>10, <1>11, <1>12 DEF Next

\* Every variable of PeerCenter keeps its type.
THEOREM TypeCorrect == Spec => []TypeOK
<1>1. ASSUME Init PROVE TypeOK
    <2>1. rowAge \in [Pair -> Nat] /\ reportAge \in [Peer -> Nat]
        BY <1>1 DEF Init
    <2>2. answer \in [Peer -> [kind : {"none", "unchanged", "full"},
                               digest : {NoDigest} \cup Digests, map : Maps]]
        BY <1>1, AnswerTypes DEF Init
    <2>3. known \in [Peer -> [digest : {NoDigest} \cup Digests, map : Maps]]
        BY <1>1, AnswerTypes DEF Init
    <2>4. since \in 0..Interval /\ changes \in 0..MaxChanges
        BY <1>1, PeerCenterAssumption DEF Init
    <2>5. QED
        BY <1>1, <2>1, <2>2, <2>3, <2>4, AnswerTypes DEF Init, TypeOK
<1>2. QED
    BY <1>1, TypeStep, PTL DEF Spec

-----------------------------------------------------------------------------
(* Rows.                                                                   *)

\* What Keep leaves of the rows has its reports, if it left them.
LEMMA KeepRows ==
    ASSUME TypeOK, RowInv, NEW r \in Rows, NEW q \in SUBSET reported, Keep(r, q),
           \A k \in Pair : r[k] # NoInfo => r[k] = row[k] /\ k[1] \in q
    PROVE  /\ reported' = q
           /\ \A k \in Pair : row'[k] # NoInfo =>
                /\ k[1] \in q
                /\ reportAge'[k[1]] <= rowAge'[k]
                /\ rowAge'[k] = rowAge[k] /\ row[k] = row'[k]
           /\ \A k \in Pair : row'[k] = NoInfo => rowAge'[k] = 0
           /\ group' <=> (r # NoRows \/ q # {})
<1>1. \A k \in Pair : k[1] \in Peer
    BY DEF Pair
<1>2. QED
    BY <1>1 DEF Keep, RowInv, TypeOK

\* A peer that leaves takes its rows with it, and the last one the group.
LEMMA RemoveRows ==
    ASSUME TypeOK, RowInv, NEW p \in Peer, remove_peer(p)
    PROVE  /\ reported' = reported \ {p}
           /\ \A k \in Pair : row'[k] # NoInfo =>
                /\ k[1] \in reported \ {p}
                /\ reportAge'[k[1]] <= rowAge'[k]
                /\ rowAge'[k] = rowAge[k] /\ row[k] = row'[k]
           /\ \A k \in Pair : row'[k] = NoInfo => rowAge'[k] = 0
           /\ reported \ {p} = {} => ~group'
<1> DEFINE r == [k \in Pair |-> IF p \in {k[1], k[2]} THEN NoInfo ELSE row[k]]
<1>1. r \in Rows /\ Keep(r, reported \ {p})
    BY KeptRows DEF remove_peer
<1>2. \A k \in Pair : r[k] # NoInfo => r[k] = row[k] /\ k[1] \in reported \ {p}
    BY DEF RowInv
<1>3. reported \ {p} = {} => r = NoRows
    BY <1>2 DEF NoRows
<1> HIDE DEF r
<1>4. QED
    BY <1>1, <1>2, <1>3, KeepRows

\* Every step keeps the rows backed by reports and within the TTL.
LEMMA RowStep == TypeOK /\ RowInv /\ [Next]_vars => RowInv'
<1> SUFFICES ASSUME TypeOK, RowInv, [Next]_vars PROVE RowInv'
    OBVIOUS
<1> USE PeerCenterAssumption
<1>0. /\ \A k \in Pair : k[1] \in Peer /\ rowAge[k] \in Nat
      /\ \A p \in Peer : reportAge[p] \in Nat
      /\ since \in Nat
    BY DEF Pair, TypeOK
<1>1. CASE UNCHANGED vars
    BY <1>1 DEF RowInv, vars, server
<1>2. ASSUME NEW p \in Peer, Connect(p) PROVE RowInv'
    <2>1. connected = {} => \A k \in Pair : row[k] = NoInfo
        BY DEF RowInv
    <2>2. QED
        BY <1>2, <2>1 DEF RowInv, Connect, server
<1>3. ASSUME NEW p \in Peer, Leave(p) PROVE RowInv'
    <2>1. connected' = {} => reported \ {p} = {}
        BY <1>3 DEF Leave, RowInv
    <2>2. QED
        BY <1>3, <2>1, RemoveRows DEF Leave, RowInv
<1>4. ASSUME NEW p \in Peer, Reconnect(p) PROVE RowInv'
    BY <1>4, RemoveRows DEF Reconnect, RowInv
<1>5. ASSUME NEW p \in Peer, NEW id \in Peer, NEW links \in Links(p), ReportPeers(p, id, links)
      PROVE  RowInv'
    <2>1. CASE id # p
        BY <1>3, <1>5, <2>1 DEF ReportPeers
    <2>2. CASE id = p
        <3>1. /\ p \in connected
              /\ report_peers(p, links) /\ UNCHANGED <<connected, answer, known, since>>
            BY <1>5, <2>2 DEF ReportPeers
        <3>2. reported' = reported \cup {p} /\ reported' \subseteq connected'
            BY <3>1 DEF report_peers, RowInv
        <3>3. ASSUME NEW k \in Pair, row'[k] # NoInfo
              PROVE  /\ k[1] \in reported' /\ reportAge'[k[1]] <= rowAge'[k]
                     /\ rowAge'[k] < Ttl + since'
            <4>1. CASE k[1] = p /\ links[k[2]] # NoInfo
                BY <1>0, <3>1, <3>2, <4>1 DEF report_peers, TypeOK
            <4>2. CASE ~(k[1] = p /\ links[k[2]] # NoInfo)
                <5>1. row'[k] = row[k] /\ rowAge'[k] = rowAge[k] /\ since' = since
                    BY <3>1, <4>2 DEF report_peers
                <5>2. reportAge'[k[1]] <= reportAge[k[1]]
                    BY <1>0, <3>1 DEF report_peers, TypeOK
                <5>3. reportAge'[k[1]] \in Nat
                    BY <1>0, <3>1 DEF report_peers, TypeOK
                <5>4. k[1] \in reported /\ reportAge[k[1]] <= rowAge[k] /\ rowAge[k] < Ttl + since
                    BY <3>3, <5>1 DEF RowInv
                <5>5. QED
                    BY <1>0, <3>2, <5>1, <5>2, <5>3, <5>4
            <4>3. QED
                BY <4>1, <4>2
        <3>4. ASSUME NEW k \in Pair, row'[k] = NoInfo PROVE rowAge'[k] = 0
            BY <3>1, <3>4 DEF report_peers, RowInv
        <3>5. QED
            BY <3>1, <3>2, <3>3, <3>4 DEF RowInv
    <2>3. QED
        BY <2>1, <2>2
<1>6. ASSUME NEW p \in Peer, GetGlobalPeerMap(p) PROVE RowInv'
    BY <1>6 DEF GetGlobalPeerMap, get_global_peer_map, RowInv
<1>7. ASSUME NEW p \in Peer, Receive(p) PROVE RowInv'
    BY <1>7 DEF Receive, RowInv, server
<1>8. CASE CleanExpired
    <2> DEFINE r == [k \in Pair |-> IF rowAge[k] < Ttl THEN row[k] ELSE NoInfo]
               q == {p \in reported : reportAge[p] < Ttl}
    <2>1. r \in Rows /\ q \in SUBSET reported /\ Keep(r, q)
        BY <1>8, KeptRows DEF CleanExpired, clean_outdated
    <2>2. \A k \in Pair : r[k] # NoInfo => r[k] = row[k] /\ rowAge[k] < Ttl /\ k[1] \in q
        BY <1>0 DEF RowInv
    <2>3. \A k \in Pair : r[k] # NoInfo => rowAge[k] < Ttl
        BY <2>2
    <2>4. row' = r
        BY <2>1 DEF Keep
    <2> HIDE DEF r, q
    <2>5. since' = 0 /\ connected' = connected /\ connected # {}
        BY <1>8 DEF CleanExpired
    <2>6. /\ reported' = q
          /\ \A k \in Pair : row'[k] # NoInfo =>
               k[1] \in q /\ reportAge'[k[1]] <= rowAge'[k] /\ rowAge'[k] = rowAge[k]
          /\ \A k \in Pair : row'[k] = NoInfo => rowAge'[k] = 0
        BY <2>1, <2>2, KeepRows
    <2>7. \A k \in Pair : row'[k] # NoInfo => rowAge'[k] < Ttl + since'
        BY <1>0, <2>3, <2>4, <2>5, <2>6
    <2>8. reported' \subseteq connected'
        BY <2>1, <2>5, <2>6 DEF RowInv
    <2>9. QED
        BY <2>5, <2>6, <2>7, <2>8 DEF RowInv
<1>9. CASE Restart
    BY <1>9 DEF Restart, RowInv, NoRows
<1>10. CASE Tick
    BY <1>0, <1>10 DEF Tick, RowInv, TypeOK
<1>11. QED
    BY <1>1, <1>2, <1>3, <1>4, <1>5, <1>6, <1>7, <1>8, <1>9, <1>10 DEF Next, Disconnect

\* The inductive invariant of the rows: rows are backed by reports of connected
\* peers, are within the TTL, and the group goes with the last connection.
THEOREM RowsCorrect == Spec => [](TypeOK /\ RowInv)
<1>1. Init => RowInv
    BY DEF Init, RowInv, NoRows
<1>2. QED
    BY <1>1, TypeCorrect, RowStep, PTL DEF Spec

\* report_peers and remove_peer: no link outlives the connection that reported
\* it, none is in another peer's name, and the last connection of a network
\* leaves no group behind.
THEOREM PresenceCorrect == Spec => []RowsOfPresent
<1>1. TypeOK /\ RowInv => RowsOfPresent
    BY DEF RowInv, RowsOfPresent
<1>2. QED
    BY <1>1, RowsCorrect, PTL

\* clean_outdated: no link is kept beyond its TTL and one round of maintenance.
THEOREM FreshCorrect == Spec => []RowFresh
<1>1. TypeOK /\ RowInv => RowFresh
    BY PeerCenterAssumption DEF RowInv, RowFresh, TypeOK
<1>2. QED
    BY <1>1, RowsCorrect, PTL

-----------------------------------------------------------------------------
(* Digests.                                                                *)

\* What Keep leaves has the digest of its rows.
LEMMA KeepDigest ==
    ASSUME NEW r, NEW q, Keep(r, q)
    PROVE  digest' # NoDigest => digest' = calc_digest(row')
BY DEF Keep

\* Every step keeps digests beside their maps.
LEMMA DigestStep == TypeOK /\ DigestInv /\ [Next]_vars => DigestInv'
<1> SUFFICES ASSUME TypeOK, DigestInv, [Next]_vars PROVE DigestInv'
    OBVIOUS
<1>0. NoAnswer.digest = NoDigest /\ Unchanged.digest = NoDigest
    BY DEF NoAnswer, Unchanged
<1>1. CASE UNCHANGED vars
    BY <1>1 DEF DigestInv, vars, server
<1>2. ASSUME NEW p \in Peer, Connect(p) PROVE DigestInv'
    BY <1>2 DEF DigestInv, Connect, server
<1>3. ASSUME NEW p \in Peer, remove_peer(p), UNCHANGED known,
             answer' = [answer EXCEPT ![p] = NoAnswer]
      PROVE  DigestInv'
    <2>1. digest' # NoDigest => digest' = calc_digest(row')
        BY <1>3, KeepDigest DEF remove_peer
    <2>2. QED
        BY <1>0, <1>3, <2>1 DEF DigestInv, TypeOK
<1>4. ASSUME NEW p \in Peer, Disconnect(p) \/ Leave(p) \/ Reconnect(p) PROVE DigestInv'
    BY <1>3, <1>4 DEF Disconnect, Leave, Reconnect
<1>5. ASSUME NEW p \in Peer, NEW id \in Peer, NEW links \in Links(p), ReportPeers(p, id, links)
      PROVE  DigestInv'
    BY <1>4, <1>5 DEF ReportPeers, report_peers, DigestInv
<1>6. ASSUME NEW p \in Peer, GetGlobalPeerMap(p) PROVE DigestInv'
    <2>1. Full(digest, Grouped(row)).digest = digest
        BY DEF Full
    <2>2. Full(digest, Grouped(row)).map = Grouped(row)
        BY DEF Full
    <2>3. digest # NoDigest => digest = MapDigest(Grouped(row))
        BY GroupedDigest DEF DigestInv, TypeOK
    <2>4. answer'[p] \in {Unchanged, Full(digest, Grouped(row))}
        BY <1>6 DEF GetGlobalPeerMap, get_global_peer_map, TypeOK
    <2>5. answer'[p].digest # NoDigest => answer'[p].digest = MapDigest(answer'[p].map)
        BY <1>0, <2>1, <2>2, <2>3, <2>4
    <2>6. \A o \in Peer \ {p} : answer'[o] = answer[o]
        BY <1>6 DEF GetGlobalPeerMap, get_global_peer_map, TypeOK
    <2>7. QED
        BY <1>6, <2>5, <2>6 DEF GetGlobalPeerMap, get_global_peer_map, DigestInv
<1>7. ASSUME NEW p \in Peer, Receive(p) PROVE DigestInv'
    <2> DEFINE taken == [digest |-> answer[p].digest, map |-> answer[p].map]
    <2>1. taken.digest # NoDigest => taken.digest = MapDigest(taken.map)
        BY DEF DigestInv
    <2> HIDE DEF taken
    <2>2. known'[p] \in {known[p], taken} /\ \A o \in Peer \ {p} : known'[o] = known[o]
        BY <1>7 DEF Receive, TypeOK, taken
    <2>3. known'[p].digest # NoDigest => known'[p].digest = MapDigest(known'[p].map)
        BY <2>1, <2>2 DEF DigestInv
    <2>4. answer'[p] = NoAnswer /\ \A o \in Peer \ {p} : answer'[o] = answer[o]
        BY <1>7 DEF Receive, TypeOK
    <2>5. QED
        BY <1>0, <1>7, <2>2, <2>3, <2>4 DEF Receive, server, DigestInv
<1>8. CASE CleanExpired
    BY <1>8, KeepDigest DEF CleanExpired, clean_outdated, DigestInv
<1>9. CASE Restart
    BY <1>0, <1>9 DEF Restart, DigestInv
<1>10. CASE Tick
    BY <1>10 DEF Tick, DigestInv
<1>11. QED
    BY <1>1, <1>2, <1>4, <1>5, <1>6, <1>7, <1>8, <1>9, <1>10 DEF Next

\* The inductive invariant of the digests: on the relay, under way and at the
\* clients every digest but 0 is the digest of the map beside it.
THEOREM DigestsCorrect == Spec => [](TypeOK /\ DigestInv)
<1>1. Init => DigestInv
    BY DEF Init, DigestInv, NoAnswer
<1>2. QED
    BY <1>1, TypeCorrect, DigestStep, PTL DEF Spec

\* get_global_peer_map: a client whose digest is confirmed has the present map.
THEOREM DigestCorrect == Spec => []DigestNamesMap
<1>1. ASSUME TypeOK, DigestInv PROVE DigestNamesMap
    <2> SUFFICES ASSUME NEW p \in Peer, known[p].digest = digest, digest # NoDigest
                 PROVE  known[p].map = Grouped(row)
        BY DEF DigestNamesMap
    <2>1. known[p].map \in Maps /\ row \in Rows
        BY <1>1 DEF TypeOK
    <2>2. MapDigest(known[p].map) = calc_digest(row)
        BY <1>1 DEF DigestInv
    <2>3. Grouped(row) \in Maps /\ MapDigest(Grouped(row)) = calc_digest(row)
        BY <2>1, GroupedDigest
    <2>4. QED
        BY <2>1, <2>2, <2>3, DigestInjective
<1>2. QED
    BY <1>1, DigestsCorrect, PTL
=============================================================================
