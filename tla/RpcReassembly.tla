--------------------------- MODULE RpcReassembly ---------------------------
(***************************************************************************)
(* Reassembly of fragmented RPC packets in WasmRpcCore (rpc.rs):           *)
(* merge_packet, clean_pending and remove_pending, called by               *)
(* handle_request and handle_response, with the peers that come and go     *)
(* around them.  An error of merge_packet is thrown into server.ts, which  *)
(* closes the connection, and that calls remove_peer.                      *)
(*                                                                         *)
(* The contents of a fragment are its length, the connection it arrived on *)
(* and the number of pieces it declared.  Its transaction stands for the   *)
(* transaction id with the direction: a response is only looked at while   *)
(* its transaction is outstanding.  Of the clock only the expiry of an     *)
(* entry (10s without a new fragment) and of a transaction (3s) is left.   *)
(***************************************************************************)
EXTENDS Naturals, FiniteSets, Functions

CONSTANTS
    Peer,                          \* authenticated peers of the network
    Request, Answer,               \* transactions: of their requests, of their answers to ours
    MaxRpcPieces,                  \* MAX_RPC_PIECES
    MaxPendingTransactionsPerPeer, \* MAX_PENDING_TRANSACTIONS_PER_PEER
    MaxPendingBytes,               \* MAX_PENDING_BYTES
    MaxPendingPieces,              \* MAX_PENDING_PIECES
    MaxLen,                        \* bound on the length of a fragment
    MaxInst                        \* bound on the connections of a peer

ASSUME ReassemblyAssumption ==
    /\ Request \cap Answer = {}
    /\ IsFiniteSet(Peer) /\ IsFiniteSet(Request) /\ IsFiniteSet(Answer)
    /\ MaxRpcPieces \in Nat /\ MaxPendingTransactionsPerPeer \in Nat
    /\ MaxPendingBytes \in Nat /\ MaxPendingPieces \in Nat
    /\ MaxLen \in Nat /\ MaxInst \in Nat

Tx  == Request \cup Answer
Key == Peer \X Tx       \* RpcKey

VARIABLES
    conn,            \* number of p's connection, 0 while it has none
    insts,           \* connections p has had
    pending,         \* self.pending: PendingRpc of a key, NoEntry if absent
    pending_bytes,   \* self.pending_bytes
    pending_pieces,  \* self.pending_pieces
    outstanding,     \* keys of self.outstanding_routes
    delivered        \* the packet the last step has reassembled, NoPacket if none

vars == <<conn, insts, pending, pending_bytes, pending_pieces, outstanding, delivered>>

Pieces   == 0..(MaxRpcPieces - 1)
NoPiece  == [len |-> 0, inst |-> 0, total |-> 0]
NoEntry  == [total |-> 0, pieces |-> [i \in Pieces |-> NoPiece], first |-> FALSE,
             received |-> 0, bytes |-> 0, expired |-> FALSE]
NoPacket == [inst |-> 0, pieces |-> [i \in Pieces |-> NoPiece], total |-> 0]

SaturatingSub(a, b) == IF a > b THEN a - b ELSE 0

\* The three fields that are kept together
Table(es, b, n) == [entries |-> es, bytes |-> b, pieces |-> n]

Current == Table(pending, pending_bytes, pending_pieces)

Become(t) ==
    /\ pending' = t.entries
    /\ pending_bytes' = t.bytes
    /\ pending_pieces' = t.pieces

\* What each entry of a table accounts for
BytesOf(t)  == [k \in Key |-> t.entries[k].bytes]
PiecesOf(t) == [k \in Key |-> t.entries[k].total]

PendingKeys(t) == {k \in Key : t.entries[k] # NoEntry}

\* Mutant: only the bytes are given back
RemovePending_BytesOnly(t, ks) ==
    Table([k \in Key |-> IF k \in ks THEN NoEntry ELSE t.entries[k]],
          SaturatingSub(t.bytes, SumFunctionOnSet(BytesOf(t), ks)),
          t.pieces)

\* remove_pending for each of `ks'
RemovePending(t, ks) ==
    Table([k \in Key |-> IF k \in ks THEN NoEntry ELSE t.entries[k]],
          SaturatingSub(t.bytes, SumFunctionOnSet(BytesOf(t), ks)),
          SaturatingSub(t.pieces, SumFunctionOnSet(PiecesOf(t), ks)))

\* Mutant: expired entries are kept
CleanPending_Never(t) == t

\* clean_pending
CleanPending(t) == RemovePending(t, {k \in Key : t.entries[k].expired})

\* Mutant: the fragments of the peer stay
RemovePeer_KeepsPending(p, t) ==
    /\ conn' = [conn EXCEPT ![p] = 0]
    /\ Become(t)
    /\ outstanding' = {k \in outstanding : k[1] # p}

\* remove_peer, called when the connection of p is closed
RemovePeer(p, t) ==
    /\ conn' = [conn EXCEPT ![p] = 0]
    /\ Become(RemovePending(t, {k \in PendingKeys(t) : k[1] = p}))
    /\ outstanding' = {k \in outstanding : k[1] # p}

\* An error thrown by handle_request or handle_response: failConnection
Fail(p, t) ==
    /\ RemovePeer(p, t)
    /\ delivered' = NoPacket
    /\ UNCHANGED insts

\* handle_response ignores an answer whose transaction is not outstanding
Heeded(k) == k[2] \in Answer => k \in outstanding

-----------------------------------------------------------------------------
(* merge_packet.  `k' names the transaction, `total', `idx' and `len' are  *)
(* of the fragment.                                                        *)

\* A packet that was not fragmented
Whole(k) ==
    /\ conn[k[1]] # 0
    /\ Heeded(k)
    /\ outstanding' \in {outstanding, outstanding \ {k}}
    /\ delivered' = NoPacket
    /\ UNCHANGED <<conn, insts, pending, pending_bytes, pending_pieces>>

\* Impossible piece numbers, no descriptor in the first fragment, a complete
\* packet that does not decode: nothing but the error, after the last fragment
\* was merged or before anything was done
Malformed(p) ==
    /\ conn[p] # 0
    /\ Fail(p, Current) \/ Fail(p, CleanPending(Current))

\* The fragments of a transaction disagree about their number
ChangedCount(k, total) ==
    LET t == CleanPending(Current)
    IN  /\ conn[k[1]] # 0
        /\ Heeded(k)
        /\ k \in PendingKeys(t)
        /\ t.entries[k].total # total
        /\ Fail(k[1], RemovePending(t, {k}))

\* The entry exists, or there is room for it
Admitted(t, k, total) ==
    \/ k \in PendingKeys(t) /\ t.entries[k].total = total
    \/ /\ k \notin PendingKeys(t)
       /\ Cardinality({j \in PendingKeys(t) : j[1] = k[1]}) < MaxPendingTransactionsPerPeer
       /\ t.pieces + total <= MaxPendingPieces

\* There is none
TooMany(k, total) ==
    LET t == CleanPending(Current)
    IN  /\ conn[k[1]] # 0
        /\ Heeded(k)
        /\ k \notin PendingKeys(t)
        /\ ~Admitted(t, k, total)
        /\ Fail(k[1], t)

\* The table with an entry for k
Opened(t, k, total) ==
    IF k \in PendingKeys(t) THEN t
    ELSE Table([t.entries EXCEPT ![k] = [NoEntry EXCEPT !.total = total]],
               t.bytes, t.pieces + total)

\* Mutant: the first piece is only noticed when it arrives first
WithPiece_FirstInOrder(e, idx, pc) ==
    [total |-> e.total, pieces |-> [e.pieces EXCEPT ![idx] = pc],
     first |-> e.first \/ (idx = 0 /\ e.received = 0),
     received |-> IF e.pieces[idx] = NoPiece THEN e.received + 1 ELSE e.received,
     bytes |-> SaturatingSub(e.bytes, e.pieces[idx].len) + pc.len, expired |-> FALSE]

\* An entry with one more piece, or another one in its place
WithPiece(e, idx, pc) ==
    [total |-> e.total, pieces |-> [e.pieces EXCEPT ![idx] = pc],
     first |-> e.first \/ idx = 0,
     received |-> IF e.pieces[idx] = NoPiece THEN e.received + 1 ELSE e.received,
     bytes |-> SaturatingSub(e.bytes, e.pieces[idx].len) + pc.len, expired |-> FALSE]

\* The fragment is stored, in place of one that has arrived before
Stored(t, k, idx, pc) ==
    Table([t.entries EXCEPT ![k] = WithPiece(@, idx, pc)],
          SaturatingSub(t.bytes, t.entries[k].pieces[idx].len) + pc.len,
          t.pieces)

\* The fragment does not fit into the memory set aside for all peers
TooBig(k, total, idx, len) ==
    LET t == CleanPending(Current)
        o == Opened(t, k, total)
    IN  /\ conn[k[1]] # 0
        /\ Heeded(k)
        /\ Admitted(t, k, total)
        /\ SaturatingSub(o.bytes, o.entries[k].pieces[idx].len) + len > MaxPendingBytes
        /\ Fail(k[1], RemovePending(o, {k}))

\* The fragment is stored; with the last one the packet is handed on
Merge(k, total, idx, len) ==
    LET t == CleanPending(Current)
        o == Opened(t, k, total)
        n == Stored(o, k, idx, [len |-> len, inst |-> conn[k[1]], total |-> total])
        e == n.entries[k]
    IN  /\ conn[k[1]] # 0
        /\ Heeded(k)
        /\ Admitted(t, k, total)
        /\ SaturatingSub(o.bytes, o.entries[k].pieces[idx].len) + len <= MaxPendingBytes
        /\ IF e.received # total
           THEN /\ Become(n)
                /\ delivered' = NoPacket
                /\ UNCHANGED outstanding
           ELSE /\ Become(RemovePending(n, {k}))
                /\ delivered' = [inst |-> conn[k[1]], pieces |-> e.pieces, total |-> total]
                /\ outstanding' \in {outstanding, outstanding \ {k}}
        /\ UNCHANGED <<conn, insts>>

-----------------------------------------------------------------------------
\* add_peer for a new connection
Connect(p) ==
    /\ conn[p] = 0
    /\ insts[p] < MaxInst
    /\ insts' = [insts EXCEPT ![p] = @ + 1]
    /\ conn' = [conn EXCEPT ![p] = insts[p] + 1]
    /\ delivered' = NoPacket
    /\ UNCHANGED <<pending, pending_bytes, pending_pieces, outstanding>>

\* The connection is closed for another reason
Disconnect(p) ==
    /\ conn[p] # 0
    /\ Fail(p, Current)

\* build_route_update opens a transaction
BuildRouteUpdate(k) ==
    /\ conn[k[1]] # 0
    /\ k[2] \in Answer /\ k \notin outstanding
    /\ Become(CleanPending(Current))
    /\ \E late \in SUBSET outstanding : outstanding' = (outstanding \ late) \cup {k}
    /\ delivered' = NoPacket
    /\ UNCHANGED <<conn, insts>>

\* clean_expired of the maintenance timer: clean_rpc_state
CleanExpired ==
    /\ Become(CleanPending(Current))
    /\ outstanding' \in SUBSET outstanding
    /\ delivered' = NoPacket
    /\ UNCHANGED <<conn, insts>>

\* 10s have passed since the last fragment of an entry
Expire(k) ==
    /\ pending[k] # NoEntry /\ ~pending[k].expired
    /\ pending' = [pending EXCEPT ![k].expired = TRUE]
    /\ delivered' = NoPacket
    /\ UNCHANGED <<conn, insts, pending_bytes, pending_pieces, outstanding>>

Init ==
    /\ conn = [p \in Peer |-> 0] /\ insts = [p \in Peer |-> 0]
    /\ pending = [k \in Key |-> NoEntry]
    /\ pending_bytes = 0 /\ pending_pieces = 0
    /\ outstanding = {}
    /\ delivered = NoPacket

Next ==
    \/ \E p \in Peer : Connect(p) \/ Disconnect(p) \/ Malformed(p)
    \/ \E k \in Key : Whole(k) \/ BuildRouteUpdate(k) \/ Expire(k)
    \/ \E k \in Key, total \in 2..MaxRpcPieces :
          \/ ChangedCount(k, total)
          \/ TooMany(k, total)
          \/ \E idx \in 0..(total - 1), len \in 0..MaxLen :
                TooBig(k, total, idx, len) \/ Merge(k, total, idx, len)
    \/ CleanExpired

Spec == Init /\ [][Next]_vars

\* The maintenance timer fires as long as there are connections, and time passes
Fairness ==
    /\ WF_vars(CleanExpired)
    /\ \A k \in Key : WF_vars(Expire(k))

FairSpec == Spec /\ Fairness

-----------------------------------------------------------------------------
Held(e) == {i \in Pieces : e.pieces[i] # NoPiece}

HeldBytes(e) == SumFunctionOnSet([i \in Pieces |-> e.pieces[i].len], Pieces)

\* The two counters that enforce the limits equal what the entries hold, after
\* every way a fragment can be stored, replaced, refused, expired or dropped
\* with its peer.  They are kept with saturating arithmetic, so an error in one
\* path would not show in the code, but close the table for everybody or open
\* it beyond its limits: the entries respect the limit of each peer and those
\* for all.
CountersExact ==
    /\ pending_bytes = SumFunctionOnSet([k \in Key |-> HeldBytes(pending[k])], Key)
    /\ pending_pieces = SumFunctionOnSet([k \in Key |-> pending[k].total], Key)
    /\ pending_bytes <= MaxPendingBytes /\ pending_pieces <= MaxPendingPieces
    /\ \A p \in Peer :
          Cardinality({k \in PendingKeys(Current) : k[1] = p}) <= MaxPendingTransactionsPerPeer

\* received_pieces, body_bytes and first describe the pieces, and a complete
\* packet does not stay: the errors merge_packet prepares for (a missing first
\* or other piece on completion) cannot occur.
EntrySound ==
    \A k \in PendingKeys(Current) :
        /\ pending[k].received = Cardinality(Held(pending[k]))
        /\ pending[k].received < pending[k].total
        /\ pending[k].bytes = HeldBytes(pending[k])
        /\ pending[k].first <=> 0 \in Held(pending[k])

\* A reassembled packet has all its pieces, cut into the same number, and all
\* of them came over the connection that completed it: a client that reconnects
\* and reuses a transaction id never gets its old fragments mixed in.
PacketOfOneConnection ==
    \A i \in 0..(delivered.total - 1) :
        /\ delivered.pieces[i].inst = delivered.inst
        /\ delivered.pieces[i].total = delivered.total

\* An abandoned transaction gives its room back, whatever other peers send.
Reclaimed ==
    \A k \in Key :
        (pending[k] # NoEntry /\ pending[k].expired)
            ~> (pending[k] = NoEntry \/ ~pending[k].expired)
=============================================================================
