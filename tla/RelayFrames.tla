---------------------------- MODULE RelayFrames ----------------------------
(***************************************************************************)
(* What the relay does with one frame: handleMessage and its cases in      *)
(* server.ts, the header and the filter in core/packet.ts with             *)
(* wasm/src/packet.rs, the results of runtime/messages.ts, and the send    *)
(* window of runtime/connection.ts.                                        *)
(*                                                                         *)
(* EdgeServer has the lifecycle of the connections and decides which of    *)
(* them an update of the routes is sent to; here a handler that broadcasts *)
(* sends one to any of the ready connections (`updating'), and nothing     *)
(* else happens before it is through.  Cryptography is the outcome `body'  *)
(* of a frame: "ok", "bad" (does not verify, decode or parse) or "void" (a *)
(* handshake for a network that is not configured; a packet that decrypts  *)
(* to nothing).                                                            *)
(***************************************************************************)
EXTENDS Integers, FiniteSets, Sequences

CONSTANTS
    Conn, NoConn,
    Peer,            \* peer ids, below Word
    Server,          \* SERVER_PEER_ID
    Watched,         \* the connection whose sends are remembered
    Byte,            \* values of a byte (256)
    MaxForwardHops,  \* MAX_FORWARD_HOPS
    SendWindow,      \* SEND_WINDOW_MS, in ticks of the clock
    MaxSendFrames, MaxSendBytes,  \* MAX_SEND_..._PER_WINDOW
    MaxFrameBytes,   \* config.maxFrameBytes
    ForeignPayloads  \* what clients put into ForeignNetworkPackets

HeaderSize == 1      \* EASYTIER_HEADER_SIZE, EASYTIER_AEAD_TAIL_SIZE and
TailSize   == 1      \* FOREIGN_HEADER_MIN_LEN, scaled down
ForeignHeaderMin == 2

Word == Byte * Byte * Byte * Byte  \* values of a u32

PacketTypes == 1..21  \* the types of EasyTier's packets

ASSUME FrameAssumption ==
    /\ NoConn \notin Conn /\ Watched \in Conn
    /\ Byte \in Nat /\ Byte > 1
    /\ Peer \subseteq 1..(Word - 1) /\ Server \in 1..(Word - 1) /\ Server \notin Peer
    /\ MaxForwardHops \in Nat /\ SendWindow \in Nat \ {0}
    /\ MaxSendFrames \in Nat /\ MaxSendBytes \in Nat /\ MaxFrameBytes \in Nat
    /\ ForeignPayloads \subseteq Seq(Nat)
    /\ \A cells \in ForeignPayloads :
           \A i \in (ForeignHeaderMin + 1)..Len(cells) : cells[i] \in PacketTypes

VARIABLES
    config,   \* config.disableRelayData, config.connectionMode
    conn,     \* the connections
    room,     \* the room: peer id -> connection
    relayed,  \* history: the frame relayed in this step, and the peer it went to
    laps,     \* history: how often a frame has been relayed at most
    recent,   \* history: the frames sent to Watched in each of the last ticks
    heard,    \* history: the RPC this step handed to the RPC core
    updating  \* the connections the running handler still sends an update to

vars == <<config, conn, room, relayed, laps, recent, heard, updating>>

Handshake == 2  \* PacketType
Ping      == 4
Pong      == 5
RpcReq    == 8
RpcResp   == 9
Foreign   == 10
Msg1      == 13
Msg3      == 15

\* A frame of createPacket: its header; the payload of a ForeignNetworkPacket (the
\* length of its header, the rest of the fixed part, a name and a packet, or less of
\* it; the header of the packet inside is one cell, its type); the length of the
\* frame; as history, how often it was relayed
Frame(type, from, to, enc, body) ==
    [type |-> type, from |-> from, to |-> to, enc |-> enc, body |-> body, hops |-> 1,
     cells |-> <<>>, text |-> FALSE, len |-> 1,
     size |-> HeaderSize + 1 + (IF enc THEN TailSize ELSE 0), relays |-> 0]

NoFrame == [type |-> 0, cells |-> <<>>, to |-> 0, peer |-> 0]

NoRpc == [from |-> 0, enc |-> FALSE, peer |-> 0, mode |-> "secure"]

NothingSent == [t \in 0..(SendWindow - 1) |-> 0]

NewConnection ==
    [phase |-> "msg1", peer |-> 0, mode |-> "secure", cipher |-> FALSE,
     open |-> TRUE, age |-> 0, frames |-> 0, bytes |-> 0]

-----------------------------------------------------------------------------
(* core/packet.ts                                                          *)

\* external: int32 of ECMAScript, and >>> 0
Signed(n)   == IF n % Word >= (Word \div 2) THEN (n % Word) - Word ELSE n % Word
Unsigned(n) == n % Word

Byte2 == Byte * Byte
Byte3 == Byte * Byte * Byte

writeU32(n) == <<n % Byte, (n \div Byte) % Byte, (n \div Byte2) % Byte, (n \div Byte3) % Byte>>

\* Mutant: the result of the bit operations is signed
readU32_Signed(b) == Signed(b[1] + b[2] * Byte + b[3] * Byte2 + Signed(b[4] * Byte3))

readU32(b) == Unsigned(Signed(b[1] + b[2] * Byte + b[3] * Byte2 + Signed(b[4] * Byte3)))

\* The peer ids the relay reads where a client wrote them
HeaderIds == [id \in Peer \cup {0, Server} |-> readU32(writeU32(id))]

HeaderId(id) == HeaderIds[id]

\* toUint8Array, MAX_FRAME_BYTES and parsePacket accept the frame
Parses(f) ==
    /\ ~f.text
    /\ f.size <= MaxFrameBytes
    /\ f.size >= HeaderSize
    /\ f.size - HeaderSize = f.len + (IF f.enc THEN TailSize ELSE 0)

\* Mutant: the limit is not checked
HopLimitExceeded_Never(f) == FALSE

HopLimitExceeded(f) == f.hops > MaxForwardHops

createPong(f) == [f EXCEPT !.type = Pong]

incrementForwardCounter(f) == [f EXCEPT !.hops = @ + 1, !.relays = @ + 1]

RelayDataPlaneTypes == {1, 11, 12, 16, 17, 18, 19}

\* wasm/src/packet.rs: the type of the packet inside a ForeignNetworkPacket, after
\* a header that says how long it is; 0 if there is none
foreign_network_inner_packet_type(f) ==
    LET payload   == Len(f.cells)
        headerLen == f.cells[1]
    IN  IF \/ payload < ForeignHeaderMin
           \/ headerLen < ForeignHeaderMin \/ headerLen > payload
           \/ payload - headerLen < HeaderSize
        THEN 0 ELSE f.cells[headerLen + 1]

\* Mutant: the packet inside is looked for behind a header without a name
is_relay_data_packet_NoName(f) ==
    \/ foreign_network_inner_packet_type(f) = 0
    \/ f.cells[ForeignHeaderMin + 1] \in {Foreign} \cup RelayDataPlaneTypes

\* The packet inside is not found, is data, or is another ForeignNetworkPacket
is_relay_data_packet(f) ==
    foreign_network_inner_packet_type(f) \in {0, Foreign} \cup RelayDataPlaneTypes

isRelayDataPacket(f) ==
    IF f.type # Foreign THEN f.type \in RelayDataPlaneTypes ELSE is_relay_data_packet(f)

-----------------------------------------------------------------------------
(* runtime/messages.ts: what is accepted of a handshake.  The ids in it    *)
(* come from the header as wasm/src/packet.rs reads it.                    *)

\* The result decodes: an object, its strings, its key of 32 bytes
Decodes(f) == f.body # "bad"

readPeerId(id) == id \in 1..(Word - 1)

parseHandshakeInfo(f) == Decodes(f) /\ readPeerId(f.from)

parseLegacyHandshakeInfo(f) == Decodes(f) /\ readPeerId(f.from)

\* The proof of the network secret is confirmed
parseAuthenticationInfo(f) == Decodes(f) /\ f.body = "ok" /\ readPeerId(f.from)

-----------------------------------------------------------------------------
(* runtime/connection.ts                                                   *)

HasRoom(k, size) == k.bytes + size <= MaxSendBytes /\ k.frames < MaxSendFrames

\* Mutant: the start of the window stays
Windowed_StartKept(k) ==
    IF k.age >= SendWindow THEN [k EXCEPT !.frames = 0, !.bytes = 0] ELSE k

\* sendConnection first starts a new window if the old one is over
Windowed(k) ==
    IF k.age >= SendWindow THEN [k EXCEPT !.age = 0, !.frames = 0, !.bytes = 0] ELSE k

CanSend(c, size) == HasRoom(Windowed(conn[c]), size) /\ conn[c].open

AfterSend(c, size) ==
    LET k == Windowed(conn[c])
    IN  IF CanSend(c, size) THEN [k EXCEPT !.frames = @ + 1, !.bytes = @ + size] ELSE k

\* What was sent in this step, for the history
Remember(c, size) ==
    recent' = IF c = Watched /\ CanSend(c, size) THEN [recent EXCEPT ![0] = @ + 1] ELSE recent

\* encrypt: a legacy connection without its cipher would send in the clear
CipherOf(k) == k.mode = "secure" \/ k.cipher

-----------------------------------------------------------------------------
(* server.ts: helpers                                                      *)

Ready(k) == {c \in Conn : k[c].phase = "ready"}

\* broadcastRouteUpdate to the ready connections k: which of them have no update in
\* flight yet, EdgeServer knows
Broadcast(k, rest) == \E more \in SUBSET Ready(k) : updating' = rest \cup more

\* close and removeConnection; what is left of a connection is not used again
Closed == [NewConnection EXCEPT !.phase = "closed", !.open = FALSE]

RoomWithout(c) == [p \in Peer |-> IF room[p] = c THEN NoConn ELSE room[p]]

Close(c) ==
    /\ conn' = [conn EXCEPT ![c] = Closed]
    /\ room' = RoomWithout(c)
    /\ IF conn[c].phase = "ready" THEN Broadcast(conn', updating \ {c}) ELSE UNCHANGED updating

\* registerConnection, completeHandshake and announcePeer, with the broadcast of
\* the connection that is replaced; k is the new connection of peer p
Register(c, p, k) ==
    /\ conn' = [d \in Conn |->
                    IF d = c THEN [k EXCEPT !.phase = "ready", !.peer = p]
                    ELSE IF room[p] = d THEN Closed ELSE conn[d]]
    /\ room' = [room EXCEPT ![p] = c]
    /\ Broadcast(conn', {})

\* WasmRpcCore::get_next_hop knows the direct peers only
getNextHop(p) == IF p \in Peer /\ room[p] # NoConn THEN p ELSE 0

resolveRecipient(p) ==
    LET direct(q) == IF q \in Peer THEN room[q] ELSE NoConn
        gateway   == getNextHop(p)
    IN  IF direct(p) # NoConn
        THEN IF conn[direct(p)].phase = "ready" THEN direct(p) ELSE NoConn
        ELSE IF gateway \in {0, p} THEN NoConn ELSE direct(gateway)

\* The filter of handleReadyPacket
Filtered(f) == config.disableRelayData /\ isRelayDataPacket(f)

ToServer(f) == HeaderId(f.to) = Server

\* Mutant: the source of an RPC is not compared
DirectRejected_AnySource(k, f) ==
    \/ f.type \in {Ping, Pong} /\ f.enc
    \/ f.type \in {RpcReq, RpcResp} /\ (f.body = "bad" \/ (k.mode = "secure" /\ ~f.enc))

\* handleReadyPacket throws for a frame addressed to the relay
DirectRejected(k, f) ==
    \/ HeaderId(f.from) # k.peer
    \/ f.type \in {Ping, Pong} /\ f.enc
    \/ f.type \in {RpcReq, RpcResp} /\
         \/ f.body = "bad"
         \/ k.mode = "secure" /\ ~f.enc
         \/ k.mode = "legacy" /\ ~k.cipher

Msg1Rejected(f) ==
    \/ f.type # Msg1
    \/ config.connectionMode = "legacy"
    \/ f.from = Server
    \/ f.enc
    \/ ~parseHandshakeInfo(f)

LegacyRejected(f) ==
    \/ config.connectionMode = "secure"
    \/ HeaderId(f.from) = Server
    \/ f.enc
    \/ ~parseLegacyHandshakeInfo(f)

Msg3Rejected(k, f) ==
    \/ f.type # Msg3
    \/ f.from # k.peer
    \/ f.to # Server
    \/ f.enc
    \/ ~parseAuthenticationInfo(f)

ReadyRejected(k, f) ==
    IF ToServer(f) THEN DirectRejected(k, f)
    ELSE /\ ~Filtered(f)
         /\ resolveRecipient(HeaderId(f.to)) # NoConn
         /\ HopLimitExceeded(f)

\* handleMessage throws
Throws(c, f) ==
    \/ ~Parses(f)
    \/ conn[c].phase = "msg1" /\ (IF f.type = Handshake THEN LegacyRejected(f) ELSE Msg1Rejected(f))
    \/ conn[c].phase = "msg3" /\ Msg3Rejected(conn[c], f)
    \/ conn[c].phase = "ready" /\ ReadyRejected(conn[c], f)

-----------------------------------------------------------------------------
(* external: the frames clients make themselves                            *)

HandshakeFrames ==
    {Frame(type, from, Server, FALSE, body) :
        type \in {Handshake, Msg1, Msg3}, from \in Peer \cup {0, Server}, body \in {"ok", "bad", "void"}}

DirectFrames(from) ==
    {Frame(type, from, Server, enc, "ok") : type \in {Ping, Pong}, enc \in BOOLEAN}
    \cup {Frame(type, from, Server, enc, body) :
              type \in {RpcReq, RpcResp}, enc \in BOOLEAN, body \in {"ok", "bad", "void"}}

\* A frame for another peer, of the client's own or received from the relay
RelayedFrame(type, from, to, len, relays) ==
    [Frame(type, from, to, FALSE, "ok") EXCEPT !.hops = relays, !.relays = relays,
                                               !.len = len, !.size = HeaderSize + len]

WrappedFrame(from, to, cells) ==
    [RelayedFrame(Foreign, from, to, Len(cells), 0) EXCEPT !.cells = cells]

\* What a frame for another peer is, matters to the filter only: with the filter
\* there is every kind of them, without it they are sent back and forth
RelayedFrames(from) ==
    IF config.disableRelayData
    THEN {RelayedFrame(type, from, to, 1, 0) : type \in PacketTypes \ {Foreign}, to \in Peer}
         \cup {WrappedFrame(from, to, cells) : to \in Peer, cells \in ForeignPayloads}
    ELSE {RelayedFrame(1, from, to, len, relays) :
              to \in Peer, len \in {1, MaxFrameBytes - HeaderSize}, relays \in 0..laps}

\* Frames that are refused whatever the phase is
BrokenFrames ==
    LET f == Frame(RpcReq, Server, Server, TRUE, "ok")
    IN  {f, [f EXCEPT !.text = TRUE], [f EXCEPT !.size = 0], [f EXCEPT !.enc = FALSE],
         [f EXCEPT !.len = MaxFrameBytes, !.size = MaxFrameBytes + HeaderSize + TailSize]}

Sent(c) ==
    BrokenFrames \cup (IF conn[c].phase = "ready" THEN DirectFrames(conn[c].peer) \cup RelayedFrames(conn[c].peer)
                       \cup {Frame(RpcReq, p, Server, TRUE, "ok") : p \in Peer}
                       ELSE HandshakeFrames)

-----------------------------------------------------------------------------
(* Events                                                                  *)

Live(c) == conn[c].phase \in {"msg1", "msg3", "ready"}

\* A step that relays nothing and hands no RPC to the RPC core
Quiet == relayed' = NoFrame /\ heard' = NoRpc /\ UNCHANGED <<config, laps>>

\* createConnection; a connection that is closed makes room for another one
Connect(c) ==
    /\ conn[c].phase = "closed"
    /\ conn' = [conn EXCEPT ![c] = NewConnection]
    /\ recent' = IF c = Watched THEN NothingSent ELSE recent
    /\ Quiet /\ UNCHANGED <<room, updating>>

\* failConnection after an error in the handler
Reject(c) ==
    /\ Live(c)
    /\ (\E f \in Sent(c) : Throws(c, f)) = TRUE
    /\ Close(c)
    /\ Quiet /\ UNCHANGED recent

\* A first message for a network that is not configured
UnknownNetwork(c, f) ==
    /\ conn[c].phase = "msg1" /\ f.type \in {Handshake, Msg1} /\ f.body = "void"
    /\ ~Throws(c, f)
    /\ Close(c)
    /\ Quiet /\ UNCHANGED recent

\* handleHandshakeMessage1: message 2 is sent
HandshakeMessage1(c, f) ==
    LET size == HeaderSize + 1
    IN  /\ conn[c].phase = "msg1" /\ f.type = Msg1 /\ f.body = "ok"
        /\ ~Throws(c, f)
        /\ Remember(c, size)
        /\ IF CanSend(c, size)
           THEN /\ conn' = [conn EXCEPT ![c] = [AfterSend(c, size) EXCEPT !.peer = f.from,
                                                                          !.phase = "msg3"]]
                /\ UNCHANGED <<room, updating>>
           ELSE Close(c)
        /\ Quiet

HandshakeMessage3(c, f) ==
    /\ conn[c].phase = "msg3"
    /\ ~Throws(c, f)
    /\ Register(c, conn[c].peer, conn[c])
    /\ Quiet /\ UNCHANGED recent

\* handleLegacyHandshake: the cipher is installed, the response sent
LegacyHandshake(c, f) ==
    LET size == HeaderSize + 1
    IN  /\ conn[c].phase = "msg1" /\ f.type = Handshake /\ f.body = "ok"
        /\ ~Throws(c, f)
        /\ Remember(c, size)
        /\ IF CanSend(c, size)
           THEN Register(c, f.from, [AfterSend(c, size) EXCEPT !.mode = "legacy", !.cipher = TRUE])
           ELSE Close(c)
        /\ Quiet

\* handleReadyPacket: a frame for another peer
Forward(c, f) ==
    LET target == resolveRecipient(HeaderId(f.to))
    IN  /\ conn[c].phase = "ready" /\ ~ToServer(f) /\ ~Filtered(f)
        /\ target # NoConn
        /\ ~Throws(c, f)
        /\ Remember(target, f.size)
        /\ IF CanSend(target, f.size)
           THEN /\ conn' = [conn EXCEPT ![target] = AfterSend(target, f.size)]
                /\ relayed' = [type |-> f.type, cells |-> f.cells, to |-> f.to,
                                peer |-> conn[target].peer]
                /\ laps' = IF incrementForwardCounter(f).relays > laps
                           THEN incrementForwardCounter(f).relays ELSE laps
                /\ heard' = NoRpc /\ UNCHANGED <<config, room, updating>>
           ELSE Close(target) /\ Quiet

\* handleReadyPacket: Ping is answered
AnswerPing(c, f) ==
    LET size == createPong(f).size
    IN  /\ conn[c].phase = "ready" /\ ToServer(f) /\ f.type = Ping
        /\ ~Throws(c, f)
        /\ Remember(c, size)
        /\ IF CanSend(c, size)
           THEN conn' = [conn EXCEPT ![c] = AfterSend(c, size)] /\ UNCHANGED <<room, updating>>
           ELSE Close(c)
        /\ Quiet

\* sendControl: createPacket, encrypt and send; a failure closes the connection.
\* `next' are the connections sent to afterwards if it does not fail.
SendControl(c, next) ==
    LET size == HeaderSize + 1 + (IF CipherOf(conn[c]) THEN TailSize ELSE 0)
    IN  /\ Remember(c, size)
        /\ IF CanSend(c, size)
           THEN /\ conn' = [conn EXCEPT ![c] = AfterSend(c, size)]
                /\ updating' = next
                /\ UNCHANGED room
           ELSE Close(c)

\* The RPC core answers a request that is complete; a sync of the routes is followed
\* by an update to the client and a broadcast to the others
handleRequest(c) == \E next \in SUBSET Ready(conn) : SendControl(c, next)

\* An answer lets the pump go on
handleResponse(c) ==
    updating' \in SUBSET {c} /\ UNCHANGED <<conn, room, recent>>

\* handleReadyPacket: an RPC that decrypts goes to the RPC core
HandleRpc(c, f, complete) ==
    /\ conn[c].phase = "ready" /\ ToServer(f) /\ f.type \in {RpcReq, RpcResp}
    /\ ~(f.enc /\ f.body = "void")
    /\ ~Throws(c, f)
    /\ heard' = [from |-> f.from, enc |-> f.enc, peer |-> conn[c].peer, mode |-> conn[c].mode]
    /\ IF ~complete THEN UNCHANGED <<conn, room, recent, updating>>
       ELSE IF f.type = RpcReq THEN handleRequest(c) ELSE handleResponse(c)
    /\ relayed' = NoFrame /\ UNCHANGED <<config, laps>>

\* The handler goes on: sendRouteUpdate to one connection
SendRouteUpdate(c) ==
    /\ c \in updating
    /\ SendControl(c, updating \ {c})
    /\ Quiet

\* The retry timer or the maintenance has updates to send
Maintenance ==
    /\ updating' \in SUBSET Ready(conn)
    /\ Quiet /\ UNCHANGED <<conn, room, recent>>

\* external: the socket of a connection is closing
SocketDies(c) ==
    /\ Live(c) /\ conn[c].open
    /\ conn' = [conn EXCEPT ![c].open = FALSE]
    /\ Quiet /\ UNCHANGED <<room, recent, updating>>

\* The close event of the socket, the handshake timer, or the maintenance that gives
\* a connection up
CloseEvent(c) ==
    /\ Live(c)
    /\ Close(c)
    /\ Quiet /\ UNCHANGED recent

Tick ==
    /\ conn' = [c \in Conn |-> [conn[c] EXCEPT !.age = IF Live(c) /\ @ < SendWindow THEN @ + 1 ELSE @]]
    /\ recent' = [t \in 0..(SendWindow - 1) |-> IF t = 0 THEN 0 ELSE recent[t - 1]]
    /\ Quiet /\ UNCHANGED <<room, updating>>

\* handleMessage
Message(c) ==
    \/ Reject(c)
    \/ \E f \in Sent(c) :
        \/ UnknownNetwork(c, f)
        \/ HandshakeMessage1(c, f) \/ HandshakeMessage3(c, f) \/ LegacyHandshake(c, f)
        \/ Forward(c, f) \/ AnswerPing(c, f)
        \/ \E complete \in BOOLEAN : HandleRpc(c, f, complete)

Init ==
    /\ config \in [disableRelayData : BOOLEAN, connectionMode : {"secure", "legacy"}]
    /\ conn = [c \in Conn |-> Closed]
    /\ room = [p \in Peer |-> NoConn]
    /\ relayed = NoFrame /\ laps = 0
    /\ recent = NothingSent
    /\ heard = NoRpc /\ updating = {}

Event ==
    \/ \E c \in Conn : Connect(c) \/ Message(c) \/ SocketDies(c) \/ CloseEvent(c)
    \/ Maintenance
    \/ Tick

\* A handler runs to its end before the next event
Next ==
    \/ updating = {} /\ Event
    \/ \E c \in Conn : SendRouteUpdate(c)

Spec == Init /\ [][Next]_vars

-----------------------------------------------------------------------------
(* Properties.                                                             *)

\* A frame that clients keep sending back to the relay is relayed at most
\* MaxForwardHops + 1 times.
HopBound == laps <= MaxForwardHops + 1

\* A frame for a connected peer finds it, and nobody else: the id it registered
\* under is the id read from headers (also with the highest bit set, which must
\* not make it negative), the room has its ready connection under that id, and
\* what was relayed went to its addressee.
DeliveredToAddressee ==
    /\ \A p \in Peer : room[p] # NoConn =>
        /\ HeaderId(p) = p
        /\ conn[room[p]].phase = "ready" /\ conn[room[p]].peer = p
    /\ \A c \in Conn : conn[c].phase = "ready" => room[conn[c].peer] = c
    /\ relayed # NoFrame => relayed.to = relayed.peer

\* Reference: the packets of the control plane, RelayHandshake (20, 21) included
ControlPlane == {Handshake, 3, Ping, Pong, 6, 7, RpcReq, RpcResp, Msg1, 14, Msg3, 20, 21}

\* Reference: the payload is the fixed part, a name of n cells and a packet
WrapsControl(cells) ==
    \E n \in 0..Len(cells) :
        /\ Len(cells) > ForeignHeaderMin + n
        /\ cells[1] = ForeignHeaderMin + n
        /\ cells[ForeignHeaderMin + n + 1] \in ControlPlane

\* With DISABLE_RELAY_DATA a client receives nothing but packets of the control
\* plane through the relay, plain or wrapped into a ForeignNetworkPacket, however
\* long the name is that it is wrapped with and wherever the payload was cut off.
ControlOnly ==
    config.disableRelayData /\ relayed # NoFrame =>
        \/ relayed.type \in ControlPlane
        \/ relayed.type = Foreign /\ WrapsControl(relayed.cells)

\* The frames of the last ticks, each as its tick and its number in it
SentRecently == UNION {{t} \X (1..recent[t]) : t \in DOMAIN recent}

\* In any interval as long as the send window, wherever the windows of the
\* connection begin, at most two windows' worth of frames is sent to it.
RateBound == Cardinality(SentRecently) <= 2 * MaxSendFrames

\* An RPC reaches the RPC core only in the name of the peer its connection was
\* authenticated as, over the handshake that is configured, and encrypted if
\* that is the secure one.
RpcAuthentic ==
    heard # NoRpc =>
        /\ heard.from = heard.peer
        /\ heard.mode = config.connectionMode
        /\ heard.mode = "secure" => heard.enc
=============================================================================
