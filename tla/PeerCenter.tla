----------------------------- MODULE PeerCenter -----------------------------
(***************************************************************************)
(* The PeerCenter of wasm/src/peer_center.rs for one network: peers report *)
(* their direct links, and poll the map of all links with the digest of    *)
(* the map they have.  WasmRpcCore (rpc.rs) calls it for the two RPCs, for *)
(* a peer that leaves and in each round of maintenance.                    *)
(*                                                                         *)
(* The map is lost with the object; clients keep theirs.  The 64-bit hash  *)
(* is taken as free of collisions, and as different from 0.                *)
(***************************************************************************)
EXTENDS Naturals

CONSTANTS
    Peer, Info, NoInfo,  \* DirectConnectedPeerInfo
    NoDigest,            \* 0
    Ttl,                 \* PEER_CENTER_TTL_SECONDS, in ticks of the clock
    Interval,            \* time between two rounds of maintenance
    MaxChanges           \* bound on departures, restarts and reports of something new

Pair == Peer \X Peer     \* SrcDstPeerPair

Rows == [Pair -> Info \cup {NoInfo}]

Maps == [Peer -> [Peer -> Info \cup {NoInfo}]]  \* the map as a client has it

Digests == SUBSET (Peer \X Peer \X Info)

ASSUME PeerCenterAssumption ==
    /\ NoInfo \notin Info
    /\ \A d \in Digests : d # NoDigest
    /\ Ttl \in Nat \ {0} /\ Interval \in Nat \ {0} /\ MaxChanges \in Nat

VARIABLES
    connected,  \* the peers that have a connection
    group,      \* the network has an entry in groups
    row,        \* global_peer_map
    rowAge,     \* time since update_time_ms
    reported,   \* peer_report_time: its keys
    reportAge,  \* and the time since
    digest,     \* digest
    answer,     \* the answer on its way to a client
    known,      \* external: the map and the digest a client has
    since,      \* time since the last round of maintenance
    changes     \* departures, restarts and reports of something new so far

server == <<group, row, rowAge, reported, reportAge, digest>>
vars == <<connected, server, answer, known, since, changes>>

NoRows == [k \in Pair |-> NoInfo]

NoMap == [s \in Peer |-> [d \in Peer |-> NoInfo]]

\* GetGlobalPeerMapResponse: nothing under way, nothing new, or a map
NoAnswer  == [kind |-> "none", digest |-> NoDigest, map |-> NoMap]
Unchanged == [kind |-> "unchanged", digest |-> NoDigest, map |-> NoMap]
Full(d, m) == [kind |-> "full", digest |-> d, map |-> m]

-----------------------------------------------------------------------------
(* peer_center.rs                                                          *)

\* The keys and infos of the map in their order; not their times
calc_digest(r) == {t \in Peer \X Peer \X Info : r[<<t[1], t[2]>>] = t[3]}

\* The entries by their source
Grouped(r) == [s \in Peer |-> [d \in Peer |-> r[<<s, d>>]]]

\* Mutant: the digest is left as it was
Keep_StaleDigest(r, q) ==
    /\ row' = r
    /\ rowAge' = [k \in Pair |-> IF r[k] = NoInfo THEN 0 ELSE rowAge[k]]
    /\ reported' = q
    /\ reportAge' = [p \in Peer |-> IF p \in q THEN reportAge[p] ELSE 0]
    /\ group' = (r # NoRows \/ q # {})
    /\ digest' = IF group' THEN digest ELSE NoDigest

\* What is left of the rows and the reports; the digest is computed again, and
\* the entry of the network goes with the last of them
Keep(r, q) ==
    /\ row' = r
    /\ rowAge' = [k \in Pair |-> IF r[k] = NoInfo THEN 0 ELSE rowAge[k]]
    /\ reported' = q
    /\ reportAge' = [p \in Peer |-> IF p \in q THEN reportAge[p] ELSE 0]
    /\ group' = (r # NoRows \/ q # {})
    /\ digest' = IF group' THEN calc_digest(r) ELSE NoDigest

remove_peer(p) ==
    Keep([k \in Pair |-> IF p \in {k[1], k[2]} THEN NoInfo ELSE row[k]], reported \ {p})

\* links are added to the rows of p: an earlier link that is not among them stays
report_peers(p, links) ==
    /\ row' = [k \in Pair |-> IF k[1] = p /\ links[k[2]] # NoInfo THEN links[k[2]] ELSE row[k]]
    /\ rowAge' = [k \in Pair |-> IF k[1] = p /\ links[k[2]] # NoInfo THEN 0 ELSE rowAge[k]]
    /\ reported' = reported \cup {p}
    /\ reportAge' = [reportAge EXCEPT ![p] = 0]
    /\ group' = TRUE
    /\ digest' = calc_digest(row')

\* Mutant: a client that has a map is not sent another
get_global_peer_map_Once(p, d) ==
    /\ group' = TRUE
    /\ answer' = [answer EXCEPT ![p] = IF d # NoDigest THEN Unchanged ELSE Full(digest, Grouped(row))]
    /\ UNCHANGED <<row, rowAge, reported, reportAge, digest>>

\* A network nobody has reported for gets an entry with digest 0
get_global_peer_map(p, d) ==
    /\ group' = TRUE
    /\ answer' = [answer EXCEPT ![p] = IF d = digest /\ d # NoDigest THEN Unchanged
                                       ELSE Full(digest, Grouped(row))]
    /\ UNCHANGED <<row, rowAge, reported, reportAge, digest>>

\* Mutant: an entry lives as long as its peer reports
clean_outdated_ByReport ==
    Keep([k \in Pair |-> IF k[1] \in reported /\ reportAge[k[1]] < Ttl THEN row[k] ELSE NoInfo],
         {p \in reported : reportAge[p] < Ttl})

clean_outdated ==
    Keep([k \in Pair |-> IF rowAge[k] < Ttl THEN row[k] ELSE NoInfo],
         {p \in reported : reportAge[p] < Ttl})

-----------------------------------------------------------------------------
(* rpc.rs and the connections                                              *)

Connect(p) ==
    /\ p \notin connected
    /\ connected' = connected \cup {p}
    /\ since' = IF connected = {} THEN 0 ELSE since
    /\ UNCHANGED <<server, answer, known, changes>>

\* WasmRpcCore::remove_peer, when the connection of p goes
Leave(p) ==
    /\ p \in connected
    /\ remove_peer(p)
    /\ connected' = connected \ {p}
    /\ answer' = [answer EXCEPT ![p] = NoAnswer]
    /\ UNCHANGED <<known, since>>

Disconnect(p) ==
    /\ changes < MaxChanges
    /\ changes' = changes + 1
    /\ Leave(p)

\* A reconnect replaces the connection of p: the old one is removed first
Reconnect(p) ==
    /\ p \in connected /\ changes < MaxChanges
    /\ changes' = changes + 1
    /\ remove_peer(p)
    /\ answer' = [answer EXCEPT ![p] = NoAnswer]
    /\ UNCHANGED <<connected, known, since>>

\* p reports once more, in time, what the relay has of it
Repeats(p, id, links) ==
    /\ id = p /\ p \in reported
    /\ \A d \in Peer : links[d] # NoInfo => row[<<p, d>>] = links[d]

\* Only a report of something new counts against the bound: the others go on
CountReport(p, id, links) ==
    IF Repeats(p, id, links) THEN UNCHANGED changes
    ELSE changes < MaxChanges /\ changes' = changes + 1

\* Mutant: the id in the request counts
ReportPeers_AnyId(p, id, links) ==
    /\ p \in connected
    /\ CountReport(p, id, links)
    /\ report_peers(id, links)
    /\ UNCHANGED <<connected, answer, known, since>>

\* ReportPeers; an id that is not the connection's closes it
ReportPeers(p, id, links) ==
    /\ p \in connected
    /\ CountReport(p, id, links)
    /\ IF id # p THEN Leave(p)
       ELSE report_peers(p, links) /\ UNCHANGED <<connected, answer, known, since>>

\* GetGlobalPeerMap, with the digest the client has
GetGlobalPeerMap(p) ==
    /\ p \in connected /\ answer[p] = NoAnswer
    /\ get_global_peer_map(p, known[p].digest)
    /\ UNCHANGED <<connected, known, since, changes>>

\* external: the client takes the map it is sent
Receive(p) ==
    /\ answer[p] # NoAnswer
    /\ known' = [known EXCEPT ![p] = IF answer[p] = Unchanged THEN @
                                     ELSE [digest |-> answer[p].digest, map |-> answer[p].map]]
    /\ answer' = [answer EXCEPT ![p] = NoAnswer]
    /\ UNCHANGED <<connected, server, since, changes>>

\* clean_expired, called by the maintenance of the connections
CleanExpired ==
    /\ connected # {} /\ since = Interval
    /\ clean_outdated
    /\ since' = 0
    /\ UNCHANGED <<connected, answer, known, changes>>

\* The object is evicted, and starts again
Restart ==
    /\ changes < MaxChanges
    /\ changes' = changes + 1
    /\ connected' = {}
    /\ group' = FALSE /\ row' = NoRows /\ rowAge' = [k \in Pair |-> 0]
    /\ reported' = {} /\ reportAge' = [p \in Peer |-> 0] /\ digest' = NoDigest
    /\ answer' = [p \in Peer |-> NoAnswer]
    /\ UNCHANGED <<known, since>>

Tick ==
    /\ connected # {} /\ since < Interval
    /\ since' = since + 1
    /\ rowAge' = [k \in Pair |-> IF row[k] = NoInfo THEN 0 ELSE rowAge[k] + 1]
    /\ reportAge' = [p \in Peer |-> IF p \in reported THEN reportAge[p] + 1 ELSE 0]
    /\ UNCHANGED <<connected, group, row, reported, digest, answer, known, changes>>

Init ==
    /\ connected = {}
    /\ group = FALSE /\ row = NoRows /\ rowAge = [k \in Pair |-> 0]
    /\ reported = {} /\ reportAge = [p \in Peer |-> 0] /\ digest = NoDigest
    /\ answer = [p \in Peer |-> NoAnswer]
    /\ known = [p \in Peer |-> [digest |-> NoDigest, map |-> NoMap]]
    /\ since = 0 /\ changes = 0

\* external: a peer reports links to others
Links(p) == {links \in [Peer -> Info \cup {NoInfo}] : links[p] = NoInfo}

Next ==
    \/ \E p \in Peer :
        \/ Connect(p) \/ Disconnect(p) \/ Reconnect(p)
        \/ \E id \in Peer, links \in Links(p) : ReportPeers(p, id, links)
        \/ GetGlobalPeerMap(p) \/ Receive(p)
    \/ CleanExpired \/ Restart \/ Tick

Spec == Init /\ [][Next]_vars

\* Clients poll, answers arrive, the timer of the maintenance fires
Fairness ==
    /\ \A p \in Peer : WF_vars(GetGlobalPeerMap(p)) /\ WF_vars(Receive(p))
    /\ WF_vars(CleanExpired) /\ WF_vars(Tick)

FairSpec == Spec /\ Fairness

-----------------------------------------------------------------------------
(* Properties.                                                             *)

\* Every variable has its type, and a network without an entry has nothing.
TypeOK ==
    /\ connected \in SUBSET Peer
    /\ group \in BOOLEAN
    /\ row \in Rows /\ rowAge \in [Pair -> Nat]
    /\ reported \in SUBSET Peer /\ reportAge \in [Peer -> Nat]
    /\ digest \in {NoDigest} \cup Digests
    /\ ~group => row = NoRows /\ reported = {} /\ digest = NoDigest
    /\ answer \in [Peer -> [kind : {"none", "unchanged", "full"},
                            digest : {NoDigest} \cup Digests, map : Maps]]
    /\ known \in [Peer -> [digest : {NoDigest} \cup Digests, map : Maps]]
    /\ since \in 0..Interval /\ changes \in 0..MaxChanges

\* A client whose digest the relay would confirm has the relay's map, whatever
\* was removed, expired, lost or delayed since it was sent.
DigestNamesMap ==
    \A p \in Peer : known[p].digest = digest /\ digest # NoDigest => known[p].map = Grouped(row)

\* Links are known only from peers that are connected and have reported: none
\* outlives the connection that reported it, and none is in another's name.  The
\* maintenance stops with the last connection: nothing is left then that it
\* would have to clean.
RowsOfPresent ==
    /\ reported \subseteq connected
    /\ \A k \in Pair : row[k] # NoInfo => k[1] \in reported
    /\ connected = {} => ~group

\* No link is told to clients longer than the TTL and one round of maintenance
\* after it was reported last, even if its peer reports other links.
RowFresh == \A k \in Pair : rowAge[k] < Ttl + Interval

\* Once nothing new is reported every connected client ends up with the map of
\* the relay: the map of the links that are reported again and again, without
\* those that expire.
Converges == <>[](\A p \in connected : known[p].map = Grouped(row))
=============================================================================
