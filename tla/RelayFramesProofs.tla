------------------------- MODULE RelayFramesProofs -------------------------
(***************************************************************************)
(* The safety properties of RelayFrames, for any connections, peers, width *)
(* of a byte and limits.  The inductive invariant ties three things        *)
(* together: the room and the ready connections point at each other, what  *)
(* a handshake has established fits the configuration, and a frame has     *)
(* been relayed no more often than its counter says.                       *)
(***************************************************************************)
EXTENDS RelayFrames, FiniteSetTheorems, TLAPS

-----------------------------------------------------------------------------
(* Arithmetic of the header: an id survives being written and read.        *)

LEMMA DivMod ==
    ASSUME NEW n \in Int, NEW d \in Nat, d > 0
    PROVE  n \div d \in Int /\ n % d \in 0..(d - 1) /\ n = d * (n \div d) + (n % d)
OBVIOUS

\* Quotient and remainder are unique.
LEMMA DivUnique ==
    ASSUME NEW n \in Int, NEW d \in Nat, d > 0,
           NEW q \in Int, NEW r \in 0..(d - 1), n = d * q + r
    PROVE  n \div d = q /\ n % d = r
OBVIOUS

\* Dividing twice is dividing by the product.
LEMMA DivDiv ==
    ASSUME NEW n \in Nat, NEW a \in Nat, a > 0, NEW b \in Nat, b > 0
    PROVE  n \div (a * b) = (n \div a) \div b
<1> DEFINE q == n \div a
           r == n % a
           s == q \div b
           t == q % b
<1>1. q \in Int /\ r \in 0..(a - 1) /\ n = a * q + r
    BY DivMod
<1>2. s \in Int /\ t \in 0..(b - 1) /\ q = b * s + t
    BY <1>1, DivMod
<1> HIDE DEF q, r, s, t
<1>3. n = (a * b) * s + (a * t + r)
    BY <1>1, <1>2
<1>4. a * t + r \in 0..(a * b - 1)
    <2>1. a * t <= a * (b - 1)
        BY <1>2
    <2>2. a * t >= 0
        BY <1>2
    <2>3. QED
        BY <1>1, <1>2, <2>1, <2>2
<1>5. a * b \in Nat /\ a * b > 0
    OBVIOUS
<1>6. QED
    BY <1>2, <1>3, <1>4, <1>5, DivUnique DEF s, q

LEMMA Widths ==
    /\ Byte2 \in Nat /\ Byte2 > 0 /\ Byte3 \in Nat /\ Byte3 > 0 /\ Word \in Nat /\ Word > 1
    /\ Byte3 = Byte2 * Byte /\ Word = Byte3 * Byte
<1>1. Byte \in Nat /\ Byte > 1
    BY FrameAssumption
<1>2. Byte2 \in Nat /\ Byte2 > 1
    BY <1>1 DEF Byte2
<1>3. Byte3 = Byte2 * Byte /\ Byte3 \in Nat /\ Byte3 > 1
    BY <1>1, <1>2 DEF Byte3, Byte2
<1>4. Word = Byte3 * Byte /\ Word \in Nat /\ Word > 1
    BY <1>1, <1>3 DEF Word, Byte3
<1>5. QED
    BY <1>2, <1>3, <1>4

\* The four bytes of an id are its digits.
LEMMA Digits ==
    ASSUME NEW n \in 0..(Word - 1)
    PROVE  /\ n % Byte \in 0..(Byte - 1) /\ (n \div Byte) % Byte \in 0..(Byte - 1)
           /\ (n \div Byte2) % Byte \in 0..(Byte - 1) /\ (n \div Byte3) % Byte \in 0..(Byte - 1)
           /\ n = (n % Byte) + ((n \div Byte) % Byte) * Byte + ((n \div Byte2) % Byte) * Byte2
                  + ((n \div Byte3) % Byte) * Byte3
<1> DEFINE q1 == n \div Byte
           q2 == q1 \div Byte
           q3 == q2 \div Byte
<1>0. Byte \in Nat /\ Byte > 1 /\ n \in Nat
    BY FrameAssumption, Widths
<1>1. q1 \in Int /\ n % Byte \in 0..(Byte - 1) /\ n = Byte * q1 + (n % Byte) /\ q1 \in Nat
    BY <1>0, DivMod
<1>2. q2 \in Int /\ q1 % Byte \in 0..(Byte - 1) /\ q1 = Byte * q2 + (q1 % Byte) /\ q2 \in Nat
    BY <1>0, <1>1, DivMod
<1>3. q3 \in Int /\ q2 % Byte \in 0..(Byte - 1) /\ q2 = Byte * q3 + (q2 % Byte) /\ q3 \in Nat
    BY <1>0, <1>2, DivMod
<1>4. n \div Byte2 = q2
    BY <1>0, DivDiv DEF Byte2
<1>5. n \div Byte3 = q3
    BY <1>0, <1>4, Widths, DivDiv
<1> HIDE DEF q1, q2, q3
<1>6. n = Byte3 * q3 + (Byte2 * (q2 % Byte) + Byte * (q1 % Byte) + (n % Byte))
    <2>1. Byte * q1 = Byte2 * q2 + Byte * (q1 % Byte)
        BY <1>0, <1>2 DEF Byte2
    <2>2. Byte2 * q2 = Byte3 * q3 + Byte2 * (q2 % Byte)
        <3>1. Byte2 * q2 = Byte2 * (Byte * q3 + (q2 % Byte))
            BY <1>3
        <3>2. Byte2 * (Byte * q3 + (q2 % Byte)) = (Byte2 * Byte) * q3 + Byte2 * (q2 % Byte)
            BY <1>0, <1>3, Widths
        <3>3. QED
            BY <3>1, <3>2, Widths
    <2>3. Byte * q1 \in Nat /\ Byte2 * q2 \in Nat /\ Byte3 * q3 \in Nat
          /\ Byte * (q1 % Byte) \in Nat /\ Byte2 * (q2 % Byte) \in Nat /\ n % Byte \in Nat
        BY <1>0, <1>1, <1>2, <1>3, Widths
    <2>4. QED
        BY <1>0, <1>1, <2>1, <2>2, <2>3
<1>7. q3 < Byte
    <2>1. Byte2 * (q2 % Byte) >= 0 /\ Byte * (q1 % Byte) >= 0
        BY <1>0, <1>2, <1>3, Widths
    <2>2. Byte3 * q3 <= n
        BY <1>0, <1>1, <1>2, <1>3, <1>6, <2>1, Widths
    <2>3. Byte3 * q3 < Byte3 * Byte
        BY <2>2, <1>3, Widths
    <2>4. QED
        BY <1>0, <1>3, <2>3, Widths
<1>8. q3 % Byte = q3
    BY <1>0, <1>3, <1>7
<1>9. QED
    <2>1. n % Byte \in 0..(Byte - 1) /\ q1 % Byte \in 0..(Byte - 1)
          /\ q2 % Byte \in 0..(Byte - 1) /\ q3 % Byte \in 0..(Byte - 1)
        BY <1>0, <1>1, <1>2, <1>3, <1>7, <1>8
    <2>2. n = (n % Byte) + (q1 % Byte) * Byte + (q2 % Byte) * Byte2 + (q3 % Byte) * Byte3
        BY <1>0, <1>6, <1>8, <2>1, Widths
    <2>3. QED
        BY <2>1, <2>2, <1>4, <1>5 DEF q1

\* >>> 0 undoes what the signed operators did.
LEMMA UnsignedSigned ==
    ASSUME NEW n \in Int
    PROVE  /\ Signed(n) \in Int
           /\ Unsigned(Signed(n)) = n % Word
           /\ Signed(n) = n % Word \/ Signed(n) = (n % Word) - Word
<1>1. n % Word \in 0..(Word - 1)
    BY Widths, DivMod
<1>2. Signed(n) = n % Word \/ Signed(n) = (n % Word) - Word
    BY <1>1, Widths DEF Signed
<1>3. (n % Word) % Word = n % Word
    BY <1>1, Widths
<1>4. ((n % Word) - Word) % Word = n % Word
    <2>1. (n % Word) - Word = Word * (-1) + (n % Word)
        BY <1>1, Widths
    <2>2. QED
        BY <1>1, <2>1, Widths, DivUnique
<1>5. QED
    BY <1>1, <1>2, <1>3, <1>4, Widths DEF Unsigned

\* readU32 reads what writeU32 wrote, the ids with the highest bit set too.
THEOREM ReadU32Exact ==
    ASSUME NEW n \in 0..(Word - 1)
    PROVE  readU32(writeU32(n)) = n
<1> DEFINE d1 == n % Byte
           d2 == (n \div Byte) % Byte
           d3 == (n \div Byte2) % Byte
           d4 == (n \div Byte3) % Byte
<1>1. /\ d1 \in 0..(Byte - 1) /\ d2 \in 0..(Byte - 1) /\ d3 \in 0..(Byte - 1) /\ d4 \in 0..(Byte - 1)
      /\ n = d1 + d2 * Byte + d3 * Byte2 + d4 * Byte3
    BY Digits
<1>2. writeU32(n)[1] = d1 /\ writeU32(n)[2] = d2 /\ writeU32(n)[3] = d3 /\ writeU32(n)[4] = d4
    BY DEF writeU32
<1> HIDE DEF d1, d2, d3, d4
<1>3. d1 \in Nat /\ d2 \in Nat /\ d3 \in Nat /\ d4 \in Nat /\ Byte \in Nat /\ n \in Nat
    BY <1>1, FrameAssumption, Widths
<1> DEFINE top == d4 * Byte3
           low == d1 + d2 * Byte + d3 * Byte2
           sum == low + Signed(top)
<1>4. top \in 0..(Word - 1) /\ low \in Nat /\ n = low + top
    <2>1. d1 \in Nat /\ d2 * Byte \in Nat /\ d3 * Byte2 \in Nat /\ d4 * Byte3 \in Nat
        BY <1>3, Widths
    <2>2. QED
        BY <1>1, <2>1, Widths
<1> HIDE DEF top, low
<1>5. top % Word = top
    BY <1>4, Widths
<1>6. Signed(top) = top \/ Signed(top) = top - Word
    BY <1>4, <1>5, UnsignedSigned, Widths
<1>7. sum \in Int /\ sum % Word = n
    <2>1. sum = Word * 0 + n \/ sum = Word * (-1) + n
        BY <1>4, <1>6, Widths
    <2>2. sum \in Int
        BY <1>4, <1>6, Widths
    <2>3. QED
        BY <2>1, <2>2, Widths, DivUnique
<1>8. Unsigned(Signed(sum)) = n
    BY <1>7, UnsignedSigned
<1>9. QED
    BY <1>2, <1>8 DEF readU32, sum, low, top

\* The ids of the frames
Ids == Peer \cup {0, Server}

\* An id read from a header is the id a client put there.
LEMMA HeaderIdExact == \A id \in Ids : HeaderId(id) = id
<1>1. Ids \subseteq 0..(Word - 1)
    BY FrameAssumption, Widths DEF Ids
<1>2. QED
    BY <1>1, ReadU32Exact DEF HeaderId, HeaderIds, Ids

-----------------------------------------------------------------------------
(* Types.                                                                  *)

Modes       == {"secure", "legacy"}
Configs     == [disableRelayData : BOOLEAN, connectionMode : Modes]
Connections == [phase : {"closed", "msg1", "msg3", "ready"}, peer : Ids, mode : Modes,
                cipher : BOOLEAN, open : BOOLEAN, age : Nat, frames : Nat, bytes : Int]
Payloads    == ForeignPayloads \cup {<<>>}
Frames      == [type : PacketTypes, from : Ids, to : Ids, enc : BOOLEAN, body : {"ok", "bad", "void"},
                hops : Nat, cells : Payloads, text : BOOLEAN, len : Int, size : Int, relays : Nat]
Relays      == [type : PacketTypes \cup {0}, cells : Payloads, to : Ids, peer : Ids]
Rpcs        == [from : Ids, enc : BOOLEAN, peer : Ids, mode : Modes]

TypeOK ==
    /\ config \in Configs
    /\ conn \in [Conn -> Connections]
    /\ room \in [Peer -> Conn \cup {NoConn}]
    /\ relayed \in Relays
    /\ laps \in Nat
    /\ recent \in [0..(SendWindow - 1) -> Nat]
    /\ heard \in Rpcs

\* The room and the ready connections point at each other.
RoomInv ==
    /\ \A p \in Peer : room[p] # NoConn =>
        conn[room[p]].phase = "ready" /\ conn[room[p]].peer = p
    /\ \A c \in Conn : conn[c].phase = "ready" =>
        conn[c].peer \in Peer /\ room[conn[c].peer] = c

\* What the handshakes have established so far fits the configuration.
HandshakeInv ==
    \A c \in Conn :
        /\ conn[c].phase \in {"msg1", "msg3"} => conn[c].mode = "secure"
        /\ conn[c].phase = "msg3" => conn[c].peer \in Peer /\ config.connectionMode = "secure"
        /\ conn[c].phase = "ready" =>
            conn[c].mode = config.connectionMode /\ (conn[c].mode = "legacy" => conn[c].cipher)

\* Updates are sent to ready connections only.
UpdatingInv == updating \subseteq Ready(conn)

\* The frame that was relayed went to its addressee and passed the filter.
RelayedInv ==
    /\ laps <= MaxForwardHops + 1
    /\ relayed # NoFrame =>
        /\ relayed.type \in PacketTypes
        /\ relayed.to = relayed.peer
        /\ config.disableRelayData => ~isRelayDataPacket(relayed)

Inv == TypeOK /\ RoomInv /\ HandshakeInv /\ UpdatingInv /\ RelayedInv /\ RpcAuthentic

-----------------------------------------------------------------------------
(* Operators.                                                              *)

LEMMA IdsFacts == /\ 0 \in Ids /\ Server \in Ids /\ Peer \subseteq Ids
                  /\ 0 \notin Peer /\ Server \notin Peer /\ Server # 0
BY FrameAssumption, Widths DEF Ids

LEMMA NoFrameFacts == NoFrame \in Relays
BY IdsFacts DEF NoFrame, Relays, Payloads

\* What may be sent: a frame that has been relayed no more often than its counter
\* says
OwnFrame(f) == f \in Frames /\ f.relays <= f.hops

\* The frames that were not relayed yet
LEMMA FrameFacts ==
    ASSUME NEW type \in PacketTypes, NEW from \in Ids, NEW to \in Ids, NEW enc \in BOOLEAN,
           NEW body \in {"ok", "bad", "void"}
    PROVE  OwnFrame(Frame(type, from, to, enc, body))
<1>1. HeaderSize + 1 + (IF enc THEN TailSize ELSE 0) \in Int
    BY DEF HeaderSize, TailSize
<1>2. QED
    BY <1>1 DEF OwnFrame, Frame, Frames, Payloads

LEMMA TypeFacts ==
    /\ Handshake \in PacketTypes /\ Ping \in PacketTypes /\ Pong \in PacketTypes
    /\ RpcReq \in PacketTypes /\ RpcResp \in PacketTypes /\ Foreign \in PacketTypes
    /\ Msg1 \in PacketTypes /\ Msg3 \in PacketTypes /\ 1 \in PacketTypes
BY DEF PacketTypes, Handshake, Ping, Pong, RpcReq, RpcResp, Foreign, Msg1, Msg3

LEMMA HandshakeFrameFacts == \A f \in HandshakeFrames : OwnFrame(f)
<1>1. TAKE f \in HandshakeFrames
<1>2. PICK type \in {Handshake, Msg1, Msg3}, from \in Peer \cup {0, Server},
           body \in {"ok", "bad", "void"} : f = Frame(type, from, Server, FALSE, body)
    BY DEF HandshakeFrames, Frame
<1>3. type \in PacketTypes /\ from \in Ids
    BY TypeFacts DEF Ids
<1>4. QED
    BY <1>2, <1>3, IdsFacts, FrameFacts

LEMMA DirectFrameFacts == ASSUME NEW p \in Ids PROVE \A f \in DirectFrames(p) : OwnFrame(f)
<1> SUFFICES ASSUME NEW type \in {Ping, Pong, RpcReq, RpcResp}, NEW enc \in BOOLEAN,
                    NEW body \in {"ok", "bad", "void"}
             PROVE  OwnFrame(Frame(type, p, Server, enc, body))
    BY DEF DirectFrames
<1>1. type \in PacketTypes
    BY TypeFacts
<1>2. QED
    BY <1>1, IdsFacts, FrameFacts

LEMMA RelayedFrameFacts ==
    ASSUME NEW p \in Ids, laps \in Nat
    PROVE  \A f \in RelayedFrames(p) : OwnFrame(f)
<1>1. ASSUME NEW type \in PacketTypes, NEW to \in Peer, NEW len \in Int, NEW relays \in Nat
      PROVE  OwnFrame(RelayedFrame(type, p, to, len, relays))
    <2> DEFINE f == Frame(type, p, to, FALSE, "ok")
               g == [f EXCEPT !.hops = relays, !.relays = relays]
    <2>1. f \in Frames
        BY IdsFacts, FrameFacts DEF OwnFrame
    <2>2. HeaderSize + len \in Int
        BY DEF HeaderSize
    <2>3. RelayedFrame(type, p, to, len, relays) = [g EXCEPT !.len = len, !.size = HeaderSize + len]
        BY DEF RelayedFrame
    <2> HIDE DEF f
    <2>4. g \in Frames /\ g.hops = relays /\ g.relays = relays
        BY <2>1 DEF Frames
    <2> HIDE DEF g
    <2>5. [g EXCEPT !.len = len] \in Frames /\ [g EXCEPT !.len = len].hops = relays
          /\ [g EXCEPT !.len = len].relays = relays
        BY <2>4 DEF Frames
    <2> DEFINE h == [g EXCEPT !.len = len]
    <2>6. RelayedFrame(type, p, to, len, relays) = [h EXCEPT !.size = HeaderSize + len]
        BY <2>3
    <2>7. h \in Frames /\ h.hops = relays /\ h.relays = relays
        BY <2>5
    <2> HIDE DEF h
    <2>8. [h EXCEPT !.size = HeaderSize + len] \in Frames
          /\ [h EXCEPT !.size = HeaderSize + len].hops = relays
          /\ [h EXCEPT !.size = HeaderSize + len].relays = relays
        BY <2>2, <2>7 DEF Frames
    <2>9. QED
        BY <2>6, <2>8 DEF OwnFrame
<1>2. ASSUME NEW to \in Peer, NEW cells \in ForeignPayloads
      PROVE  OwnFrame(WrappedFrame(p, to, cells))
    <2> DEFINE f == RelayedFrame(Foreign, p, to, Len(cells), 0)
    <2>1. Len(cells) \in Int
        BY FrameAssumption
    <2>2. OwnFrame(f)
        BY <1>1, <2>1, TypeFacts
    <2>3. WrappedFrame(p, to, cells) = [f EXCEPT !.cells = cells]
        BY DEF WrappedFrame
    <2> HIDE DEF f
    <2>4. QED
        BY <2>2, <2>3 DEF OwnFrame, Frames, Payloads
<1>3. \A len \in {1, MaxFrameBytes - HeaderSize} : len \in Int
    BY FrameAssumption DEF HeaderSize
<1>4. CASE config.disableRelayData
    BY <1>1, <1>2, <1>4 DEF RelayedFrames
<1>5. CASE ~config.disableRelayData
    <2>1. \A to \in Peer, len \in {1, MaxFrameBytes - HeaderSize}, relays \in 0..laps :
              OwnFrame(RelayedFrame(1, p, to, len, relays))
        BY <1>1, <1>3, TypeFacts
    <2>2. QED
        BY <1>5, <2>1 DEF RelayedFrames
<1>6. QED
    BY <1>4, <1>5

LEMMA BrokenFrameFacts == \A f \in BrokenFrames : OwnFrame(f)
<1> DEFINE f == Frame(RpcReq, Server, Server, TRUE, "ok")
<1>1. OwnFrame(f)
    BY IdsFacts, TypeFacts, FrameFacts
<1> HIDE DEF f
<1>2. OwnFrame([f EXCEPT !.size = 0])
    BY <1>1 DEF OwnFrame, Frames
<1>2a. OwnFrame([f EXCEPT !.text = TRUE])
    BY <1>1 DEF OwnFrame, Frames
<1>2b. OwnFrame([f EXCEPT !.enc = FALSE])
    BY <1>1 DEF OwnFrame, Frames
<1>3. MaxFrameBytes \in Int /\ MaxFrameBytes + HeaderSize + TailSize \in Int
    BY FrameAssumption DEF HeaderSize, TailSize
<1>4. OwnFrame([f EXCEPT !.len = MaxFrameBytes, !.size = MaxFrameBytes + HeaderSize + TailSize])
    BY <1>1, <1>3 DEF OwnFrame, Frames
<1>5. QED
    BY <1>1, <1>2, <1>2a, <1>2b, <1>4, Zenon DEF BrokenFrames, f

\* Whatever a client sends, its own frame or one it received, has been relayed no
\* more often than its counter says.
LEMMA SentFacts ==
    ASSUME TypeOK, NEW c \in Conn, NEW f \in Sent(c)
    PROVE  f \in Frames /\ f.relays <= f.hops
<1>1. conn[c].peer \in Ids /\ laps \in Nat
    BY DEF TypeOK, Connections
<1>2. \A p \in Peer : OwnFrame(Frame(RpcReq, p, Server, TRUE, "ok"))
    BY IdsFacts, TypeFacts, FrameFacts
<1>3. OwnFrame(f)
    BY <1>1, <1>2, HandshakeFrameFacts, DirectFrameFacts, RelayedFrameFacts, BrokenFrameFacts DEF Sent
<1>4. QED
    BY <1>3 DEF OwnFrame

LEMMA ConnectionFacts ==
    /\ NewConnection \in Connections /\ NewConnection.phase = "msg1" /\ NewConnection.mode = "secure"
    /\ Closed \in Connections /\ Closed.phase = "closed"
<1>1. NewConnection \in Connections
    BY IdsFacts DEF NewConnection, Connections, Modes
<1>2. NewConnection.phase = "msg1" /\ NewConnection.mode = "secure"
    BY DEF NewConnection
<1>3. Closed \in Connections /\ Closed.phase = "closed"
    BY <1>1 DEF Closed, Connections
<1>4. QED
    BY <1>1, <1>2, <1>3

\* Two states of a connection that differ in its socket and its window only
Alike(j, k) == j.phase = k.phase /\ j.peer = k.peer /\ j.mode = k.mode /\ j.cipher = k.cipher

LEMMA WindowedFacts ==
    ASSUME NEW k \in Connections
    PROVE  Windowed(k) \in Connections /\ Alike(Windowed(k), k)
<1> DEFINE w == [k EXCEPT !.age = 0, !.frames = 0, !.bytes = 0]
<1>0. w \in Connections
    <2>1. [k EXCEPT !.age = 0, !.frames = 0] \in Connections
        BY DEF Connections
    <2>2. \A j \in Connections : [j EXCEPT !.bytes = 0] \in Connections
        BY DEF Connections
    <2>3. w = [[k EXCEPT !.age = 0, !.frames = 0] EXCEPT !.bytes = 0]
        OBVIOUS
    <2>4. QED
        BY <2>1, <2>2, <2>3
<1>1. w.phase = k.phase /\ w.peer = k.peer /\ w.mode = k.mode
    BY DEF Connections
<1>2. w.cipher = k.cipher
    BY DEF Connections
<1> HIDE DEF w
<1>3. Alike(w, k) /\ Alike(k, k)
    BY <1>1, <1>2 DEF Alike
<1>4. Windowed(k) \in {w, k}
    BY DEF Windowed, w
<1>5. QED
    BY <1>0, <1>3, <1>4

LEMMA AfterSendFacts ==
    ASSUME TypeOK, NEW c \in Conn, NEW size \in Int
    PROVE  AfterSend(c, size) \in Connections /\ Alike(AfterSend(c, size), conn[c])
<1> DEFINE k == Windowed(conn[c])
           s == [k EXCEPT !.frames = @ + 1, !.bytes = @ + size]
<1>1. k \in Connections /\ Alike(k, conn[c])
    BY WindowedFacts DEF TypeOK
<1>2. AfterSend(c, size) \in {s, k}
    BY DEF AfterSend
<1> HIDE DEF k
<1>0. s \in Connections
    <2>1. k.frames + 1 \in Nat /\ k.bytes + size \in Int
        BY <1>1 DEF Connections
    <2>2. QED
        BY <1>1, <2>1 DEF Connections
<1>3. s.phase = k.phase /\ s.peer = k.peer /\ s.mode = k.mode
    BY <1>1 DEF Connections
<1>4. s.cipher = k.cipher
    BY <1>1 DEF Connections
<1> HIDE DEF s
<1>5. Alike(s, conn[c])
    BY <1>1, <1>3, <1>4 DEF Alike
<1>6. QED
    BY <1>0, <1>1, <1>2, <1>5

ConnTypes ==
    conn' \in [Conn -> Connections] /\ room' \in [Peer -> Conn \cup {NoConn}]

ConnInv == RoomInv /\ HandshakeInv /\ UpdatingInv

\* Sockets and windows do not matter to the invariants.
LEMMA AlikeStep ==
    ASSUME TypeOK, ConnInv, conn' \in [Conn -> Connections], UNCHANGED <<config, room>>,
           \A d \in Conn : Alike(conn'[d], conn[d]), updating' \subseteq Ready(conn)
    PROVE  ConnTypes /\ ConnInv'
<1>1. ConnTypes
    BY DEF ConnTypes, TypeOK
<1>2. \A d \in Conn : /\ conn'[d].phase = conn[d].phase /\ conn'[d].peer = conn[d].peer
                      /\ conn'[d].mode = conn[d].mode /\ conn'[d].cipher = conn[d].cipher
    BY DEF Alike
<1>3. RoomInv'
    BY <1>2 DEF ConnInv, RoomInv, TypeOK
<1>4. HandshakeInv'
    <2> SUFFICES ASSUME NEW d \in Conn
                 PROVE  /\ conn'[d].phase \in {"msg1", "msg3"} => conn'[d].mode = "secure"
                        /\ conn'[d].phase = "msg3" => conn'[d].peer \in Peer /\ config'.connectionMode = "secure"
                        /\ conn'[d].phase = "ready" =>
                            /\ conn'[d].mode = config'.connectionMode
                            /\ conn'[d].mode = "legacy" => conn'[d].cipher
        BY DEF HandshakeInv
    <2>1. /\ conn[d].phase \in {"msg1", "msg3"} => conn[d].mode = "secure"
          /\ conn[d].phase = "msg3" => conn[d].peer \in Peer /\ config.connectionMode = "secure"
          /\ conn[d].phase = "ready" =>
                conn[d].mode = config.connectionMode /\ (conn[d].mode = "legacy" => conn[d].cipher)
        BY DEF ConnInv, HandshakeInv
    <2>2. QED
        BY <1>2, <2>1
<1>5. UpdatingInv'
    BY <1>2 DEF UpdatingInv, Ready
<1>6. QED
    BY <1>1, <1>3, <1>4, <1>5 DEF ConnInv

LEMMA SendStep ==
    ASSUME TypeOK, ConnInv, NEW c \in Conn, NEW size \in Int,
           conn' = [conn EXCEPT ![c] = AfterSend(c, size)], UNCHANGED <<config, room>>,
           updating' \subseteq Ready(conn)
    PROVE  ConnTypes /\ ConnInv'
<1>1. AfterSend(c, size) \in Connections /\ Alike(AfterSend(c, size), conn[c])
    BY AfterSendFacts
<1>2. conn' \in [Conn -> Connections]
    BY <1>1 DEF TypeOK
<1>3. \A d \in Conn : Alike(conn'[d], conn[d])
    BY <1>1 DEF TypeOK, Alike
<1>4. QED
    BY <1>2, <1>3, AlikeStep

\* A connection that is closed leaves the room.
LEMMA CloseStep ==
    ASSUME TypeOK, ConnInv, NEW c \in Conn, Close(c), config' = config
    PROVE  ConnTypes /\ ConnInv'
<1>1. conn' = [conn EXCEPT ![c] = Closed] /\ room' = [p \in Peer |-> IF room[p] = c THEN NoConn ELSE room[p]]
    BY DEF Close, RoomWithout
<1>2. ConnTypes
    BY <1>1, ConnectionFacts DEF ConnTypes, TypeOK
<1>3. \A d \in Conn : d # c => conn'[d] = conn[d]
    BY <1>1 DEF TypeOK
<1>4. conn'[c].phase = "closed"
    BY <1>1, ConnectionFacts DEF TypeOK
<1>5. RoomInv'
    BY <1>1, <1>3, <1>4, FrameAssumption DEF ConnInv, RoomInv, TypeOK
<1>6. HandshakeInv'
    BY <1>3, <1>4 DEF ConnInv, HandshakeInv
<1>7. UpdatingInv'
    <2>1. updating \subseteq Ready(conn)
        BY DEF ConnInv, UpdatingInv
    <2>2. updating \ {c} \subseteq Ready(conn')
        BY <1>3, <2>1 DEF Ready
    <2>3. updating' = updating \ {c} \/ updating' \subseteq (updating \ {c}) \cup Ready(conn')
        <3>1. CASE conn[c].phase = "ready"
            BY <3>1 DEF Close, Broadcast
        <3>2. CASE conn[c].phase # "ready"
            BY <2>1, <3>2 DEF Close, Ready
        <3>3. QED
            BY <3>1, <3>2
    <2>4. QED
        BY <2>2, <2>3 DEF UpdatingInv
<1>8. QED
    BY <1>2, <1>5, <1>6, <1>7 DEF ConnInv

\* Registration replaces the connection the peer had.
LEMMA RegisterStep ==
    ASSUME TypeOK, ConnInv, NEW c \in Conn, NEW p \in Peer, NEW k \in Connections,
           Register(c, p, k), config' = config, conn[c].phase \in {"msg1", "msg3"},
           k.mode = config.connectionMode, k.mode = "legacy" => k.cipher
    PROVE  ConnTypes /\ ConnInv'
<1> DEFINE ready == [k EXCEPT !.phase = "ready", !.peer = p]
<1>1. ready \in Connections /\ ready.phase = "ready" /\ ready.peer = p /\ ready.mode = k.mode
      /\ (ready.cipher <=> k.cipher)
    BY IdsFacts DEF Connections
<1>2. /\ conn' = [d \in Conn |-> IF d = c THEN ready ELSE IF room[p] = d THEN Closed ELSE conn[d]]
      /\ room' = [room EXCEPT ![p] = c]
    BY DEF Register
<1> HIDE DEF ready
<1>3. ConnTypes
    BY <1>1, <1>2, ConnectionFacts DEF ConnTypes, TypeOK
<1>4. conn'[c] = ready /\ \A d \in Conn \ {c} : conn'[d] = IF room[p] = d THEN Closed ELSE conn[d]
    BY <1>2
<1>5. \A q \in Peer : room[q] # c
    BY FrameAssumption DEF ConnInv, RoomInv, TypeOK
<1>6. RoomInv'
    <2>1. ASSUME NEW q \in Peer, room'[q] # NoConn
          PROVE  conn'[room'[q]].phase = "ready" /\ conn'[room'[q]].peer = q
        <3>1. CASE q = p
            BY <1>1, <1>2, <1>4, <3>1 DEF TypeOK
        <3>2. CASE q # p
            <4>1. room'[q] = room[q] /\ room[q] # c /\ room[q] \in Conn
                BY <1>2, <1>5, <2>1, <3>2 DEF TypeOK
            <4>2. conn[room[q]].phase = "ready" /\ conn[room[q]].peer = q
                BY <2>1, <4>1 DEF ConnInv, RoomInv
            <4>3. room[p] # room[q]
                BY <3>2, <4>2, <4>1, FrameAssumption DEF ConnInv, RoomInv
            <4>4. QED
                BY <1>4, <4>1, <4>2, <4>3
        <3>3. QED
            BY <3>1, <3>2
    <2>2. ASSUME NEW d \in Conn, conn'[d].phase = "ready"
          PROVE  conn'[d].peer \in Peer /\ room'[conn'[d].peer] = d
        <3>1. CASE d = c
            BY <1>1, <1>2, <1>4, <3>1 DEF TypeOK
        <3>2. CASE d # c
            <4>1. conn'[d] = conn[d] /\ room[p] # d
                BY <1>4, <2>2, <3>2, ConnectionFacts
            <4>2. conn[d].peer \in Peer /\ room[conn[d].peer] = d
                BY <2>2, <4>1 DEF ConnInv, RoomInv
            <4>3. QED
                BY <1>2, <4>1, <4>2 DEF TypeOK
        <3>3. QED
            BY <3>1, <3>2
    <2>3. QED
        BY <2>1, <2>2 DEF RoomInv
<1>7. HandshakeInv'
    <2>1. ASSUME NEW d \in Conn, d # c
          PROVE  conn'[d] = conn[d] \/ conn'[d].phase = "closed"
        BY <1>4, <2>1, ConnectionFacts
    <2>2. conn'[c].phase = "ready" /\ conn'[c].mode = config.connectionMode
          /\ (conn'[c].mode = "legacy" => conn'[c].cipher)
        BY <1>1, <1>4
    <2>3. QED
        BY <2>1, <2>2 DEF ConnInv, HandshakeInv
<1>8. UpdatingInv'
    BY DEF Register, Broadcast, UpdatingInv
<1>9. QED
    BY <1>3, <1>6, <1>7, <1>8 DEF ConnInv

LEMMA RememberType ==
    ASSUME TypeOK, NEW c, NEW size, Remember(c, size)
    PROVE  recent' \in [0..(SendWindow - 1) -> Nat]
<1>1. 0 \in 0..(SendWindow - 1)
    BY FrameAssumption
<1>2. QED
    BY <1>1 DEF Remember, TypeOK

LEMMA NothingSentType == NothingSent \in [0..(SendWindow - 1) -> Nat]
BY DEF NothingSent

LEMMA NoRpcType == NoRpc \in Rpcs
BY IdsFacts DEF NoRpc, Rpcs, Modes

-----------------------------------------------------------------------------
(* One lemma per action.                                                   *)

\* A step that relays nothing and hears no RPC
LEMMA QuietStep ==
    ASSUME Inv, ConnTypes, ConnInv', recent' \in [0..(SendWindow - 1) -> Nat], Quiet
    PROVE  Inv'
<1>1. TypeOK'
    BY NoRpcType, NoFrameFacts DEF Inv, TypeOK, ConnTypes, Quiet
<1>2. RelayedInv' /\ RpcAuthentic'
    BY DEF Inv, Quiet, RelayedInv, RpcAuthentic
<1>3. QED
    BY <1>1, <1>2 DEF Inv, ConnInv

LEMMA InvParts == Inv => TypeOK /\ ConnInv
BY DEF Inv, ConnInv

LEMMA ConnectStep ==
    ASSUME Inv, NEW c \in Conn, Connect(c)
    PROVE  Inv'
<1> USE InvParts
<1>1. conn' = [conn EXCEPT ![c] = NewConnection] /\ conn[c].phase = "closed"
      /\ UNCHANGED <<config, room, updating>> /\ Quiet
    BY DEF Connect, Quiet
<1>2. ConnTypes
    BY <1>1, ConnectionFacts DEF ConnTypes, TypeOK
<1>3. conn'[c] = NewConnection /\ \A d \in Conn : d # c => conn'[d] = conn[d]
    BY <1>1 DEF TypeOK
<1>4. RoomInv'
    BY <1>1, <1>3, ConnectionFacts DEF ConnInv, RoomInv, TypeOK
<1>5. HandshakeInv'
    BY <1>1, <1>3, ConnectionFacts DEF ConnInv, HandshakeInv
<1>6. recent' \in [0..(SendWindow - 1) -> Nat]
    BY NothingSentType DEF Connect, TypeOK
<1>7. UpdatingInv'
    BY <1>1, <1>3, ConnectionFacts DEF ConnInv, UpdatingInv, Ready
<1>8. QED
    BY <1>1, <1>2, <1>4, <1>5, <1>6, <1>7, QuietStep DEF ConnInv

\* An error, a first message for another network, the event of a socket
LEMMA ClosingStep ==
    ASSUME Inv, NEW c \in Conn, Close(c), Quiet, UNCHANGED recent
    PROVE  Inv'
<1>1. ConnTypes /\ ConnInv'
    BY CloseStep, InvParts DEF Quiet
<1>2. recent' \in [0..(SendWindow - 1) -> Nat]
    BY InvParts DEF TypeOK
<1>3. QED
    BY <1>1, <1>2, QuietStep

\* The id in a first message that is not rejected is a peer's.
LEMMA SenderFacts ==
    ASSUME NEW f \in Frames, readPeerId(f.from), f.from # Server
    PROVE  f.from \in Peer
BY DEF Frames, Ids, readPeerId

LEMMA HandshakeMessage1Step ==
    ASSUME Inv, NEW c \in Conn, NEW f \in Sent(c), HandshakeMessage1(c, f)
    PROVE  Inv'
<1> USE InvParts
<1> DEFINE size == HeaderSize + 1
<1>1. conn[c].phase = "msg1" /\ Remember(c, size) /\ Quiet /\ config' = config
    BY DEF HandshakeMessage1, Quiet
<1>2. ~Msg1Rejected(f)
    BY DEF HandshakeMessage1, Throws, Handshake, Msg1
<1>3. f.from \in Peer /\ config.connectionMode = "secure"
    <2>1. f \in Frames
        BY SentFacts DEF Inv
    <2>2. config.connectionMode # "legacy" /\ f.from # Server /\ readPeerId(f.from)
        BY <1>2 DEF Msg1Rejected, parseHandshakeInfo
    <2>3. config.connectionMode \in Modes
        BY DEF TypeOK, Configs
    <2>4. QED
        BY <2>1, <2>2, <2>3, SenderFacts DEF Modes
<1>4. recent' \in [0..(SendWindow - 1) -> Nat]
    BY <1>1, RememberType
<1>5. size \in Int
    BY DEF HeaderSize
<1>6. CASE Close(c)
    BY <1>1, <1>4, <1>6, CloseStep, QuietStep
<1>7. CASE /\ conn' = [conn EXCEPT ![c] = [AfterSend(c, size) EXCEPT !.peer = f.from, !.phase = "msg3"]]
           /\ UNCHANGED <<room, updating>>
    <2> DEFINE k == AfterSend(c, size)
               new == [k EXCEPT !.peer = f.from, !.phase = "msg3"]
    <2>1. k \in Connections /\ k.mode = conn[c].mode
        BY <1>5, AfterSendFacts DEF Alike
    <2>2. conn' = [conn EXCEPT ![c] = new]
        BY <1>7
    <2> HIDE DEF k
    <2>3. new \in Connections /\ new.phase = "msg3" /\ new.peer = f.from /\ new.mode = k.mode
        BY <1>3, <2>1, IdsFacts DEF Connections
    <2> HIDE DEF new
    <2>4. ConnTypes
        BY <1>7, <2>2, <2>3 DEF ConnTypes, TypeOK
    <2>5. conn'[c] = new /\ \A d \in Conn : d # c => conn'[d] = conn[d]
        BY <2>2 DEF TypeOK
    <2>6. RoomInv'
        BY <1>1, <1>7, <2>3, <2>5 DEF ConnInv, RoomInv, TypeOK
    <2>7. conn[c].mode = "secure"
        BY <1>1 DEF ConnInv, HandshakeInv
    <2>8. HandshakeInv'
        BY <1>1, <1>3, <2>1, <2>3, <2>5, <2>7 DEF ConnInv, HandshakeInv
    <2>9. UpdatingInv'
        BY <1>1, <1>7, <2>5 DEF ConnInv, UpdatingInv, Ready
    <2>10. QED
        BY <1>1, <1>4, <2>4, <2>6, <2>8, <2>9, QuietStep DEF ConnInv
<1>8. QED
    BY <1>6, <1>7 DEF HandshakeMessage1

LEMMA HandshakeMessage3Step ==
    ASSUME Inv, NEW c \in Conn, NEW f, HandshakeMessage3(c, f)
    PROVE  Inv'
<1> USE InvParts
<1>1. conn[c].phase = "msg3" /\ Register(c, conn[c].peer, conn[c]) /\ Quiet
      /\ UNCHANGED <<config, recent>>
    BY DEF HandshakeMessage3, Quiet
<1>2. conn[c] \in Connections /\ conn[c].peer \in Peer /\ conn[c].mode = "secure"
      /\ config.connectionMode = "secure"
    BY <1>1 DEF ConnInv, HandshakeInv, TypeOK
<1>3. ConnTypes /\ ConnInv'
    BY <1>1, <1>2, RegisterStep
<1>4. QED
    BY <1>1, <1>3, QuietStep DEF TypeOK

LEMMA LegacyHandshakeStep ==
    ASSUME Inv, NEW c \in Conn, NEW f \in Sent(c), LegacyHandshake(c, f)
    PROVE  Inv'
<1> USE InvParts
<1> DEFINE size == HeaderSize + 1
           k == AfterSend(c, size)
           new == [k EXCEPT !.mode = "legacy", !.cipher = TRUE]
<1>1. conn[c].phase = "msg1" /\ Remember(c, size) /\ Quiet /\ config' = config
    BY DEF LegacyHandshake, Quiet
<1>2. ~LegacyRejected(f)
    BY DEF LegacyHandshake, Throws
<1>3. f.from \in Peer /\ config.connectionMode = "legacy"
    <2>1. f \in Frames
        BY SentFacts DEF Inv
    <2>2. config.connectionMode # "secure" /\ HeaderId(f.from) # Server /\ readPeerId(f.from)
        BY <1>2 DEF LegacyRejected, parseLegacyHandshakeInfo
    <2>3. config.connectionMode \in Modes
        BY DEF TypeOK, Configs
    <2>4. HeaderId(f.from) = f.from
        BY <2>1, HeaderIdExact DEF Frames
    <2>5. QED
        BY <2>1, <2>2, <2>3, <2>4, SenderFacts DEF Modes
<1>4. recent' \in [0..(SendWindow - 1) -> Nat]
    BY <1>1, RememberType
<1>5. size \in Int
    BY DEF HeaderSize
<1>6. CASE Close(c)
    BY <1>1, <1>4, <1>6, CloseStep, QuietStep
<1>7. CASE Register(c, f.from, new)
    <2>1. k \in Connections
        BY <1>5, AfterSendFacts
    <2> HIDE DEF k
    <2>2. new \in Connections /\ new.mode = "legacy" /\ new.cipher
        BY <2>1 DEF Connections, Modes
    <2> HIDE DEF new
    <2>3. ConnTypes /\ ConnInv'
        BY <1>1, <1>3, <1>7, <2>2, RegisterStep
    <2>4. QED
        BY <1>1, <1>4, <2>3, QuietStep
<1>8. QED
    BY <1>6, <1>7 DEF LegacyHandshake

\* resolveRecipient finds the ready connection of the peer it is asked for.
LEMMA Recipient ==
    ASSUME TypeOK, RoomInv, NEW p \in Ids, resolveRecipient(p) # NoConn
    PROVE  /\ p \in Peer /\ resolveRecipient(p) = room[p] /\ room[p] \in Conn
           /\ conn[room[p]].phase = "ready" /\ conn[room[p]].peer = p
<1>1. CASE p \notin Peer
    BY <1>1 DEF resolveRecipient, getNextHop
<1>2. CASE p \in Peer
    <2>1. room[p] # NoConn
        BY <1>2 DEF resolveRecipient, getNextHop
    <2>2. room[p] \in Conn /\ conn[room[p]].phase = "ready" /\ conn[room[p]].peer = p
        BY <1>2, <2>1 DEF TypeOK, RoomInv
    <2>3. resolveRecipient(p) = room[p]
        BY <1>2, <2>1, <2>2 DEF resolveRecipient
    <2>4. QED
        BY <1>2, <2>2, <2>3
<1>3. QED
    BY <1>1, <1>2

\* What Forward relays
LEMMA ForwardFacts ==
    ASSUME Inv, NEW c \in Conn, NEW f \in Sent(c), Forward(c, f)
    PROVE  /\ f \in Frames /\ f.relays <= f.hops
           /\ f.to \in Peer /\ HeaderId(f.to) = f.to
           /\ resolveRecipient(HeaderId(f.to)) = room[f.to] /\ room[f.to] \in Conn
           /\ conn[room[f.to]].phase = "ready" /\ conn[room[f.to]].peer = f.to
           /\ ~Filtered(f) /\ ~HopLimitExceeded(f)
<1> USE InvParts
<1>1. f \in Frames /\ f.relays <= f.hops
    BY SentFacts DEF Inv
<1>2. f.to \in Ids /\ HeaderId(f.to) = f.to
    BY <1>1, HeaderIdExact DEF Frames
<1>3. conn[c].phase = "ready" /\ ~ToServer(f) /\ ~Filtered(f) /\ ~Throws(c, f)
      /\ resolveRecipient(HeaderId(f.to)) # NoConn
    BY DEF Forward
<1>4. ~HopLimitExceeded(f)
    BY <1>3 DEF Throws, ReadyRejected
<1>5. f.to \in Peer /\ resolveRecipient(f.to) = room[f.to] /\ room[f.to] \in Conn
      /\ conn[room[f.to]].phase = "ready" /\ conn[room[f.to]].peer = f.to
    BY <1>2, <1>3, Recipient DEF ConnInv
<1>6. QED
    BY <1>1, <1>2, <1>3, <1>4, <1>5

LEMMA ForwardStep ==
    ASSUME Inv, NEW c \in Conn, NEW f \in Sent(c), Forward(c, f)
    PROVE  Inv'
<1> USE InvParts
<1> DEFINE target == resolveRecipient(HeaderId(f.to))
           new == incrementForwardCounter(f)
<1>1. /\ f \in Frames /\ f.relays <= f.hops
      /\ target \in Conn /\ conn[target].peer = f.to /\ f.to \in Ids
      /\ ~Filtered(f) /\ ~HopLimitExceeded(f)
    BY ForwardFacts, IdsFacts
<1>2. f.size \in Int /\ f.hops \in Nat /\ f.relays \in Nat
    BY <1>1 DEF Frames
<1>3. Remember(target, f.size) /\ config' = config
    BY DEF Forward, Quiet
<1>4. recent' \in [0..(SendWindow - 1) -> Nat]
    BY <1>3, RememberType
<1>5. CASE Close(target) /\ Quiet
    BY <1>1, <1>3, <1>4, <1>5, CloseStep, QuietStep
<1>6. CASE /\ conn' = [conn EXCEPT ![target] = AfterSend(target, f.size)]
           /\ relayed' = [type |-> f.type, cells |-> f.cells, to |-> f.to, peer |-> conn[target].peer]
           /\ laps' = IF new.relays > laps THEN new.relays ELSE laps
           /\ heard' = NoRpc /\ UNCHANGED <<config, room, updating>>
    <2>1. ConnTypes /\ ConnInv'
        BY <1>1, <1>2, <1>3, <1>6, SendStep DEF ConnInv, UpdatingInv
    <2>2. new.relays = f.relays + 1
        BY <1>1 DEF incrementForwardCounter, Frames
    <2> HIDE DEF new, target
    <2>3. /\ relayed' \in Relays /\ relayed'.to = relayed'.peer
          /\ relayed'.type = f.type /\ relayed'.cells = f.cells /\ f.type \in PacketTypes
        BY <1>1, <1>6 DEF Frames, Relays
    <2>4. laps' \in Nat /\ laps' <= MaxForwardHops + 1
        <3>1. laps \in Nat /\ laps <= MaxForwardHops + 1
            BY DEF Inv, TypeOK, RelayedInv
        <3>2. f.hops <= MaxForwardHops
            BY <1>1, <1>2, FrameAssumption DEF HopLimitExceeded
        <3>3. QED
            BY <1>1, <1>2, <1>6, <2>2, <3>1, <3>2, FrameAssumption
    <2>5. TypeOK'
        BY <1>4, <1>6, <2>1, <2>3, <2>4, NoRpcType DEF TypeOK, ConnTypes
    <2>6. config.disableRelayData => ~isRelayDataPacket(relayed')
        BY <1>1, <2>3
        DEF Filtered, isRelayDataPacket, is_relay_data_packet, foreign_network_inner_packet_type
    <2>7. RelayedInv' /\ RpcAuthentic'
        BY <1>6, <2>3, <2>4, <2>6 DEF RelayedInv, RpcAuthentic
    <2>8. QED
        BY <2>1, <2>5, <2>7 DEF Inv, ConnInv
<1>7. QED
    BY <1>5, <1>6 DEF Forward

LEMMA AnswerPingStep ==
    ASSUME Inv, NEW c \in Conn, NEW f \in Sent(c), AnswerPing(c, f)
    PROVE  Inv'
<1> USE InvParts
<1> DEFINE size == createPong(f).size
<1>1. Remember(c, size) /\ Quiet /\ config' = config
    BY DEF AnswerPing, Quiet
<1>2. size \in Int
    <2>1. f \in Frames
        BY SentFacts DEF Inv
    <2>2. QED
        BY <2>1 DEF createPong, Frames
<1>3. \/ Close(c)
      \/ conn' = [conn EXCEPT ![c] = AfterSend(c, size)] /\ UNCHANGED <<room, updating>>
    BY DEF AnswerPing
<1> HIDE DEF size
<1>4. ConnTypes /\ ConnInv'
    BY <1>1, <1>2, <1>3, CloseStep, SendStep DEF ConnInv, UpdatingInv
<1>5. QED
    BY <1>1, <1>4, RememberType, QuietStep

LEMMA SendControlFacts ==
    ASSUME Inv, NEW c \in Conn, NEW next \in SUBSET Ready(conn), SendControl(c, next), config' = config
    PROVE  ConnTypes /\ ConnInv' /\ recent' \in [0..(SendWindow - 1) -> Nat]
<1> USE InvParts
<1> DEFINE size == HeaderSize + 1 + (IF CipherOf(conn[c]) THEN TailSize ELSE 0)
<1>1. size \in Int
    BY DEF HeaderSize, TailSize
<1>2. /\ Remember(c, size)
      /\ \/ Close(c)
         \/ conn' = [conn EXCEPT ![c] = AfterSend(c, size)] /\ updating' = next /\ UNCHANGED room
    BY DEF SendControl
<1> HIDE DEF size
<1>3. ConnTypes /\ ConnInv'
    BY <1>1, <1>2, CloseStep, SendStep
<1>4. QED
    BY <1>2, <1>3, RememberType

LEMMA SendRouteUpdateStep ==
    ASSUME Inv, NEW c \in Conn, SendRouteUpdate(c)
    PROVE  Inv'
<1>1. SendControl(c, updating \ {c}) /\ Quiet /\ config' = config
    BY DEF SendRouteUpdate, Quiet
<1>2. updating \ {c} \in SUBSET Ready(conn)
    BY DEF Inv, UpdatingInv
<1>3. ConnTypes /\ ConnInv' /\ recent' \in [0..(SendWindow - 1) -> Nat]
    BY <1>1, <1>2, SendControlFacts
<1>4. QED
    BY <1>1, <1>3, QuietStep

\* Nothing is sent yet.
LEMMA NothingSentStep ==
    ASSUME Inv, UNCHANGED <<conn, room, recent, config>>, updating' \subseteq Ready(conn)
    PROVE  ConnTypes /\ ConnInv' /\ recent' \in [0..(SendWindow - 1) -> Nat]
<1> USE InvParts
<1>1. \A d \in Conn : Alike(conn'[d], conn[d])
    BY DEF Alike
<1>2. ConnTypes /\ ConnInv'
    BY <1>1, AlikeStep DEF TypeOK
<1>3. QED
    BY <1>2 DEF TypeOK

LEMMA MaintenanceStep ==
    ASSUME Inv, Maintenance
    PROVE  Inv'
<1>1. UNCHANGED <<conn, room, recent, config>> /\ updating' \subseteq Ready(conn) /\ Quiet
    BY DEF Maintenance, Quiet
<1>2. QED
    BY <1>1, NothingSentStep, QuietStep

LEMMA HandleRpcStep ==
    ASSUME Inv, NEW c \in Conn, NEW f \in Sent(c), NEW complete \in BOOLEAN, HandleRpc(c, f, complete)
    PROVE  Inv'
<1> USE InvParts
<1>1. /\ conn[c].phase = "ready" /\ ToServer(f) /\ ~Throws(c, f) /\ f.type \in {RpcReq, RpcResp}
      /\ heard' = [from |-> f.from, enc |-> f.enc, peer |-> conn[c].peer, mode |-> conn[c].mode]
      /\ relayed' = NoFrame /\ UNCHANGED <<config, laps>>
    BY DEF HandleRpc
<1>2. \/ \E next \in SUBSET Ready(conn) : SendControl(c, next)
      \/ UNCHANGED <<conn, room, recent>> /\ updating' \subseteq updating \cup {c}
    BY DEF HandleRpc, handleRequest, handleResponse
<1>3. ConnTypes /\ ConnInv' /\ recent' \in [0..(SendWindow - 1) -> Nat]
    <2>1. ASSUME NEW next \in SUBSET Ready(conn), SendControl(c, next)
          PROVE  ConnTypes /\ ConnInv' /\ recent' \in [0..(SendWindow - 1) -> Nat]
        BY <1>1, <2>1, SendControlFacts
    <2>2. CASE UNCHANGED <<conn, room, recent>> /\ updating' \subseteq updating \cup {c}
        <3>1. updating' \subseteq Ready(conn)
            BY <1>1, <2>2 DEF Inv, UpdatingInv, Ready
        <3>2. QED
            BY <1>1, <2>2, <3>1, NothingSentStep
    <2>3. QED
        BY <1>2, <2>1, <2>2
<1>4. f \in Frames
    BY SentFacts DEF Inv
<1>5. ~DirectRejected(conn[c], f)
    BY <1>1 DEF Throws, ReadyRejected
<1>6. f.from = conn[c].peer /\ (conn[c].mode = "secure" => f.enc)
    <2>1. HeaderId(f.from) = f.from
        BY <1>4, HeaderIdExact DEF Frames
    <2>2. QED
        BY <1>1, <1>5, <2>1 DEF DirectRejected
<1>7. conn[c].mode = config.connectionMode
    BY <1>1 DEF ConnInv, HandshakeInv
<1>8. heard' \in Rpcs
    BY <1>1, <1>4 DEF Rpcs, Frames, TypeOK, Connections
<1>9. RpcAuthentic'
    BY <1>1, <1>6, <1>7 DEF RpcAuthentic
<1>10. TypeOK'
    BY <1>1, <1>3, <1>8, NoFrameFacts DEF TypeOK, ConnTypes
<1>11. RelayedInv'
    BY <1>1 DEF Inv, RelayedInv
<1>12. QED
    BY <1>3, <1>9, <1>10, <1>11 DEF Inv, ConnInv

LEMMA SocketDiesStep ==
    ASSUME Inv, NEW c \in Conn, SocketDies(c)
    PROVE  Inv'
<1> USE InvParts
<1>1. conn' = [conn EXCEPT ![c].open = FALSE] /\ Quiet
      /\ UNCHANGED <<config, room, recent, updating>>
    BY DEF SocketDies, Quiet
<1>2. \A k \in Connections : [k EXCEPT !.open = FALSE] \in Connections
    BY DEF Connections
<1>3. \A k \in Connections : Alike([k EXCEPT !.open = FALSE], k)
    BY DEF Connections, Alike
<1>4. conn' = [conn EXCEPT ![c] = [conn[c] EXCEPT !.open = FALSE]]
    BY <1>1
<1>5. conn' \in [Conn -> Connections]
    BY <1>2, <1>4 DEF TypeOK
<1>6. \A d \in Conn : Alike(conn'[d], conn[d])
    <2>1. conn'[c] = [conn[c] EXCEPT !.open = FALSE] /\ \A d \in Conn : d # c => conn'[d] = conn[d]
        BY <1>4 DEF TypeOK
    <2>2. Alike(conn'[c], conn[c])
        BY <1>3, <2>1 DEF TypeOK
    <2>3. QED
        BY <2>1, <2>2 DEF Alike
<1>7. ConnTypes /\ ConnInv'
    BY <1>1, <1>5, <1>6, AlikeStep DEF ConnInv, UpdatingInv
<1>8. QED
    BY <1>1, <1>7, QuietStep DEF TypeOK

LEMMA TickStep ==
    ASSUME Inv, Tick
    PROVE  Inv'
<1> USE InvParts
<1> DEFINE older(c) == [conn[c] EXCEPT !.age = IF Live(c) /\ @ < SendWindow THEN @ + 1 ELSE @]
<1>1. conn' = [c \in Conn |-> older(c)] /\ Quiet /\ UNCHANGED <<config, room, updating>>
      /\ recent' = [t \in 0..(SendWindow - 1) |-> IF t = 0 THEN 0 ELSE recent[t - 1]]
    BY DEF Tick, Quiet
<1>2. \A c \in Conn : older(c) \in Connections
    <2>1. \A k \in Connections, n \in Nat : [k EXCEPT !.age = n] \in Connections
        BY DEF Connections
    <2>2. ASSUME NEW c \in Conn
          PROVE  (IF Live(c) /\ conn[c].age < SendWindow THEN conn[c].age + 1 ELSE conn[c].age) \in Nat
        BY DEF TypeOK, Connections
    <2>3. QED
        BY <2>1, <2>2 DEF TypeOK
<1>3. \A c \in Conn : Alike(older(c), conn[c])
    BY DEF TypeOK, Connections, Alike
<1> HIDE DEF older
<1>4. ConnTypes /\ ConnInv'
    BY <1>1, <1>2, <1>3, AlikeStep DEF ConnInv, UpdatingInv
<1>5. recent' \in [0..(SendWindow - 1) -> Nat]
    BY <1>1, FrameAssumption DEF TypeOK
<1>6. QED
    BY <1>1, <1>4, <1>5, QuietStep

-----------------------------------------------------------------------------
(* The theorems.                                                           *)

LEMMA InitInv == Init => Inv
<1> SUFFICES ASSUME Init PROVE Inv
    OBVIOUS
<1>1. TypeOK
    BY ConnectionFacts, NoFrameFacts, NothingSentType, NoRpcType DEF Init, TypeOK, Configs, Modes
<1>2. RoomInv /\ HandshakeInv
    BY ConnectionFacts DEF Init, RoomInv, HandshakeInv
<1>3. RelayedInv
    BY FrameAssumption DEF Init, RelayedInv
<1>4. UpdatingInv /\ RpcAuthentic
    BY DEF Init, UpdatingInv, RpcAuthentic
<1>5. QED
    BY <1>1, <1>2, <1>3, <1>4 DEF Inv

\* Every step keeps the invariant.
LEMMA InvStep == Inv /\ [Next]_vars => Inv'
<1> SUFFICES ASSUME Inv, [Next]_vars PROVE Inv'
    OBVIOUS
<1>1. CASE UNCHANGED vars
    <2>1. ConnTypes /\ RoomInv' /\ HandshakeInv'
        BY <1>1 DEF vars, Inv, TypeOK, ConnTypes, RoomInv, HandshakeInv
    <2>2. TypeOK'
        BY <1>1 DEF vars, Inv, TypeOK
    <2>3. UpdatingInv' /\ RelayedInv' /\ RpcAuthentic'
        BY <1>1 DEF vars, Inv, UpdatingInv, Ready, RelayedInv, RpcAuthentic, isRelayDataPacket,
                    is_relay_data_packet, foreign_network_inner_packet_type
    <2>4. QED
        BY <2>1, <2>2, <2>3 DEF Inv
<1>2. ASSUME NEW c \in Conn, Message(c) PROVE Inv'
    <2>1. CASE Reject(c)
        BY <2>1, ClosingStep DEF Reject
    <2>2. ASSUME NEW f \in Sent(c), UnknownNetwork(c, f) PROVE Inv'
        BY <2>2, ClosingStep DEF UnknownNetwork
    <2>3. ASSUME NEW f \in Sent(c),
                 \/ HandshakeMessage1(c, f) \/ HandshakeMessage3(c, f) \/ LegacyHandshake(c, f)
                 \/ Forward(c, f) \/ AnswerPing(c, f)
          PROVE  Inv'
        BY <2>3, HandshakeMessage1Step, HandshakeMessage3Step, LegacyHandshakeStep, ForwardStep, AnswerPingStep
    <2>4. ASSUME NEW f \in Sent(c), NEW complete \in BOOLEAN, HandleRpc(c, f, complete) PROVE Inv'
        BY <2>4, HandleRpcStep
    <2>5. QED
        BY <1>2, <2>1, <2>2, <2>3, <2>4 DEF Message
<1>3. ASSUME NEW c \in Conn, Connect(c) PROVE Inv'
    BY <1>3, ConnectStep
<1>4. ASSUME NEW c \in Conn, SendRouteUpdate(c) PROVE Inv'
    BY <1>4, SendRouteUpdateStep
<1>5. ASSUME NEW c \in Conn, SocketDies(c) PROVE Inv'
    BY <1>5, SocketDiesStep
<1>6. ASSUME NEW c \in Conn, CloseEvent(c) PROVE Inv'
    BY <1>6, ClosingStep DEF CloseEvent
<1>7. CASE Tick
    BY <1>7, TickStep
<1>8. CASE Maintenance
    BY <1>8, MaintenanceStep
<1>9. QED
    BY <1>1, <1>2, <1>3, <1>4, <1>5, <1>6, <1>7, <1>8 DEF Next, Event

\* The room, the handshakes and the frame relayed last stay consistent.
THEOREM Invariance == Spec => []Inv
BY InitInv, InvStep, PTL DEF Spec

\* However often clients send a frame back, the relay passes it on at most
\* MaxForwardHops + 1 times.
THEOREM HopsAreBounded == Spec => []HopBound
<1>1. Inv => HopBound
    BY DEF Inv, RelayedInv, HopBound
<1>2. QED
    BY <1>1, Invariance, PTL

\* A frame is relayed to the connection of the peer it names, for every peer id
\* a u32 can hold.
THEOREM FramesReachAddressee == Spec => []DeliveredToAddressee
<1>1. Inv => DeliveredToAddressee
    <2> SUFFICES ASSUME Inv PROVE DeliveredToAddressee
        OBVIOUS
    <2>1. \A p \in Peer : HeaderId(p) = p
        BY HeaderIdExact, IdsFacts
    <2>2. relayed # NoFrame => relayed.to = relayed.peer
        BY DEF Inv, RelayedInv
    <2>3. QED
        BY <2>1, <2>2 DEF Inv, RoomInv, DeliveredToAddressee
<1>2. QED
    BY <1>1, Invariance, PTL

LEMMA PayloadFacts ==
    ASSUME NEW cells \in Payloads
    PROVE  /\ cells \in Seq(Nat) /\ Len(cells) \in Nat
           /\ \A i \in (ForeignHeaderMin + 1)..Len(cells) : cells[i] \in PacketTypes
<1>1. CASE cells = <<>>
    BY <1>1 DEF ForeignHeaderMin
<1>2. CASE cells \in ForeignPayloads
    BY <1>2, FrameAssumption
<1>3. QED
    BY <1>1, <1>2 DEF Payloads

\* The types of the control plane and those of the data plane are all there are.
LEMMA TypesDivided ==
    ASSUME NEW type \in PacketTypes
    PROVE  type \in ControlPlane <=> type \notin {0, Foreign} \cup RelayDataPlaneTypes
BY DEF PacketTypes, ControlPlane, RelayDataPlaneTypes, Foreign, Handshake, Ping, Pong, RpcReq, RpcResp,
       Msg1, Msg3

\* The packet inside a ForeignNetworkPacket is looked for in the right place: the
\* parser finds one of the control plane exactly if there is one behind a name.
LEMMA InnerExact ==
    ASSUME NEW f, f.cells \in Payloads
    PROVE  is_relay_data_packet(f) <=> ~WrapsControl(f.cells)
<1> DEFINE cells == f.cells
           n == cells[1] - ForeignHeaderMin
           type == cells[cells[1] + 1]
           unreadable == \/ Len(cells) < ForeignHeaderMin
                         \/ cells[1] < ForeignHeaderMin \/ cells[1] > Len(cells)
                         \/ Len(cells) - cells[1] < HeaderSize
<1>1. cells \in Seq(Nat) /\ Len(cells) \in Nat /\ ForeignHeaderMin = 2 /\ HeaderSize = 1
      /\ \A i \in (ForeignHeaderMin + 1)..Len(cells) : cells[i] \in PacketTypes
    BY PayloadFacts DEF ForeignHeaderMin, HeaderSize
<1>2. foreign_network_inner_packet_type(f) = IF unreadable THEN 0 ELSE type
    BY DEF foreign_network_inner_packet_type
<1> HIDE DEF cells
<1>3. CASE unreadable
    <2>1. is_relay_data_packet(f)
        BY <1>2, <1>3 DEF is_relay_data_packet
    <2>2. ~WrapsControl(cells)
        <3> SUFFICES ASSUME NEW m \in 0..Len(cells), Len(cells) > ForeignHeaderMin + m,
                            cells[1] = ForeignHeaderMin + m
                     PROVE  FALSE
            BY DEF WrapsControl
        <3>1. QED
            BY <1>1, <1>3
    <2>3. QED
        BY <2>1, <2>2 DEF cells
<1>4. CASE ~unreadable
    <2>1. Len(cells) >= 2 /\ cells[1] \in Nat
        BY <1>1, <1>4
    <2>2. cells[1] >= 2 /\ cells[1] < Len(cells)
        BY <1>1, <1>4, <2>1
    <2>3. cells[1] + 1 \in (ForeignHeaderMin + 1)..Len(cells) /\ n \in 0..Len(cells)
          /\ Len(cells) > ForeignHeaderMin + n /\ cells[1] = ForeignHeaderMin + n
        BY <1>1, <2>1, <2>2
    <2>4. type \in PacketTypes
        BY <1>1, <2>3
    <2>5. is_relay_data_packet(f) <=> type \notin ControlPlane
        BY <1>2, <1>4, <2>4, TypesDivided DEF is_relay_data_packet
    <2>6. WrapsControl(cells) <=> type \in ControlPlane
        <3>1. ASSUME NEW m \in 0..Len(cells), cells[1] = ForeignHeaderMin + m
              PROVE  ForeignHeaderMin + m + 1 = cells[1] + 1
            BY <1>1, <3>1
        <3>2. ForeignHeaderMin + n + 1 = cells[1] + 1
            BY <1>1, <2>1
        <3>3. QED
            BY <2>3, <3>1, <3>2 DEF WrapsControl
    <2>7. QED
        BY <2>5, <2>6 DEF cells
<1>5. QED
    BY <1>3, <1>4

\* The filter drops exactly what is not of the control plane, for every type of
\* packet and every payload of a ForeignNetworkPacket.
THEOREM FilterExact ==
    ASSUME NEW f, f.type \in PacketTypes, f.cells \in Payloads
    PROVE  isRelayDataPacket(f) <=>
               ~(f.type \in ControlPlane \/ (f.type = Foreign /\ WrapsControl(f.cells)))
<1>1. CASE f.type # Foreign
    BY <1>1, TypesDivided DEF isRelayDataPacket, PacketTypes
<1>2. CASE f.type = Foreign
    <2>1. f.type \notin ControlPlane
        BY <1>2, TypesDivided
    <2>2. QED
        BY <1>2, <2>1, InnerExact DEF isRelayDataPacket
<1>3. QED
    BY <1>1, <1>2

\* With DISABLE_RELAY_DATA the relay passes on the control plane only.
THEOREM OnlyControlRelayed == Spec => []ControlOnly
<1>1. Inv => ControlOnly
    <2> SUFFICES ASSUME Inv, config.disableRelayData, relayed # NoFrame
                 PROVE  \/ relayed.type \in ControlPlane
                        \/ relayed.type = Foreign /\ WrapsControl(relayed.cells)
        BY DEF ControlOnly
    <2>1. relayed.type \in PacketTypes /\ ~isRelayDataPacket(relayed)
        BY DEF Inv, RelayedInv
    <2>2. relayed.cells \in Payloads
        BY DEF Inv, TypeOK, Relays
    <2>3. QED
        BY <2>1, <2>2, FilterExact
<1>2. QED
    BY <1>1, Invariance, PTL

\* The RPC core hears a peer in its own name only.
THEOREM RpcIsAuthentic == Spec => []RpcAuthentic
<1>1. Inv => RpcAuthentic
    BY DEF Inv
<1>2. QED
    BY <1>1, Invariance, PTL

-----------------------------------------------------------------------------
(* The send window.  The frames of the last ticks are divided at the start *)
(* of the window of the connection: those since then are counted in its    *)
(* frames, and those before were the ones of the window before.            *)

\* The frames that the history r remembers
SentIn(r) == {s \in (0..(SendWindow - 1)) \X Nat : s[2] \in 1..r[s[1]]}

\* Those of the last a ticks and the present one, and those before
Since(r, a)  == {s \in SentIn(r) : s[1] <= a}
Before(r, a) == {s \in SentIn(r) : s[1] > a}

Histories == [0..(SendWindow - 1) -> Nat]

\* What the history is for a window that began age ticks ago
WindowInv(r, age, frames) ==
    /\ age \in 0..SendWindow /\ frames \in 0..MaxSendFrames
    /\ IsFiniteSet(SentIn(r))
    /\ Cardinality(Since(r, age)) <= frames
    /\ Cardinality(Before(r, age)) <= MaxSendFrames
    /\ age = SendWindow => r[0] = 0

RateInv ==
    /\ IsFiniteSet(SentIn(recent)) /\ Cardinality(SentIn(recent)) <= 2 * MaxSendFrames
    /\ conn[Watched].phase # "closed" =>
           WindowInv(recent, conn[Watched].age, conn[Watched].frames)

LEMMA WindowConstants ==
    MaxSendFrames \in Nat /\ SendWindow \in Nat /\ SendWindow > 0 /\ 0 \in 0..(SendWindow - 1)
BY FrameAssumption

\* The parts of a finite history are finite.
LEMMA PartsFinite ==
    ASSUME NEW r, NEW a, IsFiniteSet(SentIn(r))
    PROVE  /\ IsFiniteSet(Since(r, a)) /\ Cardinality(Since(r, a)) \in Nat
           /\ IsFiniteSet(Before(r, a)) /\ Cardinality(Before(r, a)) \in Nat
           /\ Cardinality(SentIn(r)) \in Nat
           /\ Cardinality(Since(r, a)) <= Cardinality(SentIn(r))
           /\ Cardinality(Before(r, a)) <= Cardinality(SentIn(r))
<1>1. Since(r, a) \subseteq SentIn(r) /\ Before(r, a) \subseteq SentIn(r)
    BY DEF Since, Before
<1>2. /\ IsFiniteSet(Since(r, a)) /\ Cardinality(Since(r, a)) <= Cardinality(SentIn(r))
      /\ IsFiniteSet(Before(r, a)) /\ Cardinality(Before(r, a)) <= Cardinality(SentIn(r))
    BY <1>1, FS_Subset
<1>3. QED
    BY <1>2, FS_CardinalityType

\* The two parts are all of it: two windows' worth at most.
LEMMA TwoWindows ==
    ASSUME NEW r, NEW age, NEW frames, WindowInv(r, age, frames)
    PROVE  Cardinality(SentIn(r)) <= 2 * MaxSendFrames
<1> DEFINE S == Since(r, age)
           B == Before(r, age)
<1>1. IsFiniteSet(SentIn(r)) /\ age \in Int /\ frames \in Int /\ frames <= MaxSendFrames
      /\ Cardinality(S) <= frames /\ Cardinality(B) <= MaxSendFrames
    BY WindowConstants DEF WindowInv
<1>2. IsFiniteSet(S) /\ IsFiniteSet(B) /\ Cardinality(S) \in Nat /\ Cardinality(B) \in Nat
    BY <1>1, PartsFinite
<1>3. SentIn(r) = S \cup B /\ S \cap B = {}
    BY <1>1 DEF Since, Before, SentIn
<1> HIDE DEF S, B
<1>4. Cardinality(S \cup B) = Cardinality(S) + Cardinality(B) - Cardinality(S \cap B)
    BY <1>2, FS_Union
<1>5. Cardinality({}) = 0
    BY FS_EmptySet
<1>6. Cardinality(S \cap B) = 0 /\ Cardinality(SentIn(r)) = Cardinality(S \cup B)
    BY <1>3, <1>5, Zenon
<1>7. QED
    BY <1>1, <1>2, <1>4, <1>6, WindowConstants

\* A new window begins when the old one is over; what was counted becomes what
\* was before.
LEMMA WindowBegins ==
    ASSUME NEW r \in Histories, NEW frames, WindowInv(r, SendWindow, frames)
    PROVE  WindowInv(r, 0, 0)
<1>1. IsFiniteSet(SentIn(r)) /\ frames \in 0..MaxSendFrames /\ r[0] = 0
      /\ Cardinality(Since(r, SendWindow)) <= frames
    BY DEF WindowInv
<1>2. Since(r, SendWindow) = SentIn(r)
    BY WindowConstants DEF Since, SentIn
<1>3. Cardinality(Since(r, SendWindow)) = Cardinality(SentIn(r))
    BY <1>2, Zenon
<1>4. Since(r, 0) = {}
    <2>1. ASSUME NEW s \in Since(r, 0) PROVE FALSE
        <3>1. s[1] = 0 /\ s[2] \in 1..r[s[1]]
            BY DEF Since, SentIn
        <3>2. QED
            BY <1>1, <3>1
    <2>2. QED
        BY <2>1
<1>5. Cardinality({}) = 0
    BY FS_EmptySet
<1>6. Cardinality(Since(r, 0)) = 0
    BY <1>4, <1>5, Zenon
<1>7. /\ Cardinality(Before(r, 0)) \in Nat /\ Cardinality(SentIn(r)) \in Nat
      /\ Cardinality(Before(r, 0)) <= Cardinality(SentIn(r))
    BY <1>1, PartsFinite
<1>8. Cardinality(Before(r, 0)) <= MaxSendFrames
    BY <1>1, <1>3, <1>7, WindowConstants
<1>9. QED
    BY <1>1, <1>6, <1>8, WindowConstants DEF WindowInv

\* A frame that is sent is counted.
LEMMA FrameCounts ==
    ASSUME NEW r \in Histories, NEW age, NEW frames, WindowInv(r, age, frames),
           frames < MaxSendFrames, age # SendWindow
    PROVE  WindowInv([r EXCEPT ![0] = @ + 1], age, frames + 1)
<1> DEFINE n == [r EXCEPT ![0] = @ + 1]
           x == <<0, r[0] + 1>>
           S == Since(r, age)
<1>1. /\ age \in 0..SendWindow /\ frames \in 0..MaxSendFrames /\ IsFiniteSet(SentIn(r))
      /\ Cardinality(S) <= frames /\ Cardinality(Before(r, age)) <= MaxSendFrames
    BY DEF WindowInv
<1>2. n[0] = r[0] + 1 /\ r[0] \in Nat /\ \A t \in 1..(SendWindow - 1) : n[t] = r[t]
    BY WindowConstants DEF Histories
<1> HIDE DEF n
<1>3. SentIn(n) = SentIn(r) \cup {x}
    <2>1. ASSUME NEW s \in (0..(SendWindow - 1)) \X Nat
          PROVE  s[2] \in 1..n[s[1]] <=> s[2] \in 1..r[s[1]] \/ s = x
        <3>1. CASE s[1] = 0
            BY <1>2, <3>1
        <3>2. CASE s[1] # 0
            <4>1. s[1] \in 1..(SendWindow - 1) /\ s # x
                BY <3>2, WindowConstants
            <4>2. QED
                BY <1>2, <4>1
        <3>3. QED
            BY <3>1, <3>2
    <2>2. x \in (0..(SendWindow - 1)) \X Nat
        BY <1>2, WindowConstants
    <2> HIDE DEF x
    <2>3. QED
        BY <2>1, <2>2 DEF SentIn
<1>4. Since(n, age) = S \cup {x} /\ Before(n, age) = Before(r, age)
    BY <1>1, <1>3, WindowConstants DEF Since, Before
<1>5. x \notin S
    BY <1>2 DEF Since, SentIn
<1> HIDE DEF x
<1>6. IsFiniteSet(S) /\ Cardinality(S) \in Nat
    BY <1>1, PartsFinite
<1> HIDE DEF S
<1>7. Cardinality(S \cup {x}) = Cardinality(S) + 1
    BY <1>5, <1>6, FS_AddElement
<1>8. IsFiniteSet(SentIn(r) \cup {x})
    BY <1>1, FS_AddElement
<1>9. /\ IsFiniteSet(SentIn(n)) /\ Cardinality(Since(n, age)) = Cardinality(S) + 1
      /\ Cardinality(Before(n, age)) = Cardinality(Before(r, age))
    BY <1>3, <1>4, <1>7, <1>8, Zenon
<1>10. WindowInv(n, age, frames + 1)
    <2>1. frames + 1 \in 0..MaxSendFrames /\ Cardinality(Since(n, age)) <= frames + 1
        BY <1>1, <1>6, <1>9, WindowConstants
    <2>2. QED
        BY <1>1, <1>9, <2>1 DEF WindowInv
<1>11. QED
    BY <1>10 DEF n

\* The history a tick later
Aged(r) == [t \in 0..(SendWindow - 1) |-> IF t = 0 THEN 0 ELSE r[t - 1]]

\* Its frames are older ones, moved.
LEMMA AgedMoves ==
    ASSUME NEW r \in Histories, NEW s \in SentIn(Aged(r))
    PROVE  \E u \in SentIn(r) : s = <<u[1] + 1, u[2]>>
<1>1. s \in (0..(SendWindow - 1)) \X Nat /\ s[2] \in 1..Aged(r)[s[1]]
    BY DEF SentIn
<1>2. s[1] # 0
    BY <1>1, WindowConstants DEF Aged
<1>3. s[1] - 1 \in 0..(SendWindow - 1) /\ s[2] \in 1..r[s[1] - 1]
    BY <1>1, <1>2, WindowConstants DEF Aged
<1> DEFINE u == <<s[1] - 1, s[2]>>
<1>4. u \in SentIn(r)
    BY <1>1, <1>3 DEF SentIn
<1>5. s = <<u[1] + 1, u[2]>>
    BY <1>1, <1>3
<1>6. QED
    BY <1>4, <1>5

\* Frames that are moved do not become more.
LEMMA MovedCard ==
    ASSUME NEW S, NEW T, IsFiniteSet(S), \A s \in T : \E u \in S : s = <<u[1] + 1, u[2]>>
    PROVE  IsFiniteSet(T) /\ Cardinality(T) \in Nat /\ Cardinality(S) \in Nat
           /\ Cardinality(T) <= Cardinality(S)
<1> DEFINE f == [u \in S |-> <<u[1] + 1, u[2]>>]
           M == {f[u] : u \in S}
<1>1. IsFiniteSet(M) /\ Cardinality(M) <= Cardinality(S)
    <2>1. f \in Surjection(S, M)
        BY DEF Surjection
    <2> HIDE DEF f, M
    <2>2. QED
        BY <2>1, FS_Surjection
<1>2. T \subseteq M
    OBVIOUS
<1> HIDE DEF M
<1>3. IsFiniteSet(T) /\ Cardinality(T) <= Cardinality(M)
    BY <1>1, <1>2, FS_Subset
<1>4. Cardinality(T) \in Nat /\ Cardinality(M) \in Nat /\ Cardinality(S) \in Nat
    BY <1>1, <1>3, FS_CardinalityType
<1>5. QED
    BY <1>1, <1>3, <1>4

\* A window gets older until it is over.
LEMMA WindowAges ==
    ASSUME NEW r \in Histories, NEW age, NEW frames, WindowInv(r, age, frames)
    PROVE  WindowInv(Aged(r), IF age < SendWindow THEN age + 1 ELSE age, frames)
<1> DEFINE n == Aged(r)
           b == IF age < SendWindow THEN age + 1 ELSE age
<1>1. /\ age \in 0..SendWindow /\ frames \in 0..MaxSendFrames /\ IsFiniteSet(SentIn(r))
      /\ Cardinality(Since(r, age)) <= frames /\ Cardinality(Before(r, age)) <= MaxSendFrames
    BY DEF WindowInv
<1>2. n[0] = 0
    BY WindowConstants DEF Aged
<1>3. b \in 0..SendWindow /\ (b = age + 1 \/ (b = age /\ age = SendWindow))
    BY <1>1, WindowConstants
<1> HIDE DEF b
<1>4. \A s \in SentIn(n) : \E u \in SentIn(r) : s = <<u[1] + 1, u[2]>>
    BY AgedMoves
<1> HIDE DEF n
<1>5. \A s \in Since(n, b) : \E u \in Since(r, age) : s = <<u[1] + 1, u[2]>>
    <2> TAKE s \in Since(n, b)
    <2>1. s \in SentIn(n) /\ s[1] <= b
        BY DEF Since
    <2>2. PICK u \in SentIn(r) : s = <<u[1] + 1, u[2]>>
        BY <1>4, <2>1
    <2>3. u[1] \in 0..(SendWindow - 1) /\ s[1] = u[1] + 1
        BY <2>2 DEF SentIn
    <2>4. u[1] <= age
        BY <1>1, <1>3, <2>1, <2>3, WindowConstants
    <2>5. QED
        BY <2>2, <2>4 DEF Since
<1>6. \A s \in Before(n, b) : \E u \in Before(r, age) : s = <<u[1] + 1, u[2]>>
    <2> TAKE s \in Before(n, b)
    <2>1. s \in SentIn(n) /\ s[1] > b /\ s[1] \in 0..(SendWindow - 1)
        BY DEF Before, SentIn
    <2>2. PICK u \in SentIn(r) : s = <<u[1] + 1, u[2]>>
        BY <1>4, <2>1
    <2>3. u[1] \in 0..(SendWindow - 1) /\ s[1] = u[1] + 1
        BY <2>2 DEF SentIn
    <2>4. u[1] > age
        BY <1>1, <1>3, <2>1, <2>3, WindowConstants
    <2>5. QED
        BY <2>2, <2>4 DEF Before
<1>7. IsFiniteSet(Since(r, age)) /\ IsFiniteSet(Before(r, age))
    BY <1>1, PartsFinite
<1>8. IsFiniteSet(SentIn(n))
    BY <1>1, <1>4, MovedCard
<1>9. /\ Cardinality(Since(n, b)) \in Nat /\ Cardinality(Since(r, age)) \in Nat
      /\ Cardinality(Since(n, b)) <= Cardinality(Since(r, age))
    BY <1>5, <1>7, MovedCard
<1>10. /\ Cardinality(Before(n, b)) \in Nat /\ Cardinality(Before(r, age)) \in Nat
       /\ Cardinality(Before(n, b)) <= Cardinality(Before(r, age))
    BY <1>6, <1>7, MovedCard
<1>11. Cardinality(Since(n, b)) <= frames /\ Cardinality(Before(n, b)) <= MaxSendFrames
    BY <1>1, <1>9, <1>10, WindowConstants
<1>12. WindowInv(n, b, frames)
    BY <1>1, <1>2, <1>3, <1>8, <1>11 DEF WindowInv
<1>13. QED
    BY <1>12 DEF n, b

\* What a step may do to the watched connection besides ageing it: leave its
\* window and the history alone (or close it), or send a frame and count it.
Untouched ==
    /\ recent' = recent
    /\ conn'[Watched].phase # "closed" =>
        /\ conn[Watched].phase # "closed"
        /\ conn'[Watched].age = conn[Watched].age /\ conn'[Watched].frames = conn[Watched].frames

Counted(k) ==
    /\ conn[Watched].phase # "closed"
    /\ recent' = [recent EXCEPT ![0] = @ + 1]
    /\ k.frames < MaxSendFrames
    /\ conn'[Watched].age = k.age /\ conn'[Watched].frames = k.frames + 1

RateStep == Untouched \/ Counted(Windowed(conn[Watched]))

\* The window of a connection that is about to send.
LEMMA WindowedWindow ==
    ASSUME NEW k \in Connections, k.age \in 0..SendWindow, NEW w, w = Windowed(k)
    PROVE  \/ k.age = SendWindow /\ w.age = 0 /\ w.frames = 0
           \/ k.age # SendWindow /\ w.age = k.age /\ w.frames = k.frames
<1>1. CASE k.age >= SendWindow
    <2>1. w = [[k EXCEPT !.age = 0, !.frames = 0] EXCEPT !.bytes = 0]
        BY <1>1 DEF Windowed
    <2>2. w.age = 0 /\ w.frames = 0
        BY <2>1 DEF Connections
    <2>3. QED
        BY <1>1, <2>2, WindowConstants
<1>2. CASE ~(k.age >= SendWindow)
    BY <1>2, WindowConstants DEF Windowed
<1>3. QED
    BY <1>1, <1>2

\* Such a step keeps the bound.
LEMMA RateStepKeeps ==
    ASSUME TypeOK, RateInv, RateStep
    PROVE  RateInv'
<1>0. recent \in Histories /\ conn[Watched] \in Connections
    BY FrameAssumption DEF TypeOK, Histories
<1>1. CASE Untouched
    BY <1>1 DEF Untouched, RateInv
<1>2. CASE Counted(Windowed(conn[Watched]))
    <2> DEFINE k == conn[Watched]
               w == Windowed(k)
               n == [recent EXCEPT ![0] = @ + 1]
    <2>1. /\ recent' = n /\ w.frames < MaxSendFrames
          /\ conn'[Watched].age = w.age /\ conn'[Watched].frames = w.frames + 1
          /\ WindowInv(recent, k.age, k.frames)
        BY <1>2 DEF Counted, RateInv
    <2>2. k.age \in 0..SendWindow
        BY <2>1 DEF WindowInv
    <2>3. \/ k.age = SendWindow /\ w.age = 0 /\ w.frames = 0
          \/ k.age # SendWindow /\ w.age = k.age /\ w.frames = k.frames
        BY <1>0, <2>2, WindowedWindow
    <2> HIDE DEF w, k
    <2>4. WindowInv(recent, w.age, w.frames) /\ w.age # SendWindow
        BY <1>0, <2>1, <2>3, WindowBegins, WindowConstants
    <2>5. WindowInv(n, w.age, w.frames + 1)
        BY <1>0, <2>1, <2>4, FrameCounts
    <2> HIDE DEF n
    <2>6. WindowInv(recent', conn'[Watched].age, conn'[Watched].frames)
        BY <2>1, <2>5
    <2>7. IsFiniteSet(SentIn(recent')) /\ Cardinality(SentIn(recent')) <= 2 * MaxSendFrames
        BY <2>6, TwoWindows DEF WindowInv
    <2>8. QED
        BY <2>6, <2>7 DEF RateInv
<1>3. QED
    BY <1>1, <1>2 DEF RateStep

\* A connection is closed, and nothing is sent.
LEMMA CloseRate ==
    ASSUME TypeOK, NEW c \in Conn, Close(c), recent' = recent
    PROVE  RateStep
<1>1. \A d \in Conn : d # c => conn'[d] = conn[d]
    BY DEF Close, TypeOK
<1>2. conn'[c].phase = "closed"
    BY ConnectionFacts DEF Close, TypeOK
<1>3. QED
    BY <1>1, <1>2, FrameAssumption DEF RateStep, Untouched

\* What sendConnection leaves of the window.
LEMMA AfterSendWindow ==
    ASSUME TypeOK, NEW c \in Conn, NEW size \in Int, CanSend(c, size)
    PROVE  /\ AfterSend(c, size).age = Windowed(conn[c]).age
           /\ AfterSend(c, size).frames = Windowed(conn[c]).frames + 1
           /\ Windowed(conn[c]).frames < MaxSendFrames
<1> DEFINE k == Windowed(conn[c])
<1>1. k \in Connections
    BY WindowedFacts DEF TypeOK
<1>2. AfterSend(c, size) = [k EXCEPT !.frames = @ + 1, !.bytes = @ + size] /\ k.frames < MaxSendFrames
    BY DEF AfterSend, CanSend, HasRoom
<1> HIDE DEF k
<1>3. AfterSend(c, size).age = k.age /\ AfterSend(c, size).frames = k.frames + 1
    BY <1>1, <1>2 DEF Connections
<1>4. QED
    BY <1>2, <1>3 DEF k

\* A connection d takes a frame or is closed; after a frame, its window is that
\* of sendConnection, and the others are as they were or closed.
LEMMA SendRate ==
    ASSUME TypeOK, NEW d \in Conn, NEW size \in Int, conn[d].phase # "closed", Remember(d, size),
           ~CanSend(d, size) => Close(d),
           CanSend(d, size) =>
               /\ conn'[d].age = AfterSend(d, size).age /\ conn'[d].frames = AfterSend(d, size).frames
               /\ \A e \in Conn : e # d => conn'[e] = conn[e] \/ conn'[e].phase = "closed"
    PROVE  RateStep
<1>1. CASE ~CanSend(d, size)
    BY <1>1, CloseRate DEF Remember
<1>2. CASE CanSend(d, size) /\ d = Watched
    <2>1. recent' = [recent EXCEPT ![0] = @ + 1]
        BY <1>2 DEF Remember
    <2>2. QED
        BY <1>2, <2>1, AfterSendWindow DEF RateStep, Counted
<1>3. CASE CanSend(d, size) /\ d # Watched
    BY <1>3, FrameAssumption DEF Remember, RateStep, Untouched
<1>4. QED
    BY <1>1, <1>2, <1>3

\* The handlers that answer or forward a frame.
LEMMA PlainSendRate ==
    ASSUME TypeOK, NEW d \in Conn, NEW size \in Int, conn[d].phase # "closed", Remember(d, size),
           ~CanSend(d, size) => Close(d),
           CanSend(d, size) => conn' = [conn EXCEPT ![d] = AfterSend(d, size)]
    PROVE  RateStep
<1>1. CanSend(d, size) =>
          /\ conn'[d] = AfterSend(d, size) /\ \A e \in Conn : e # d => conn'[e] = conn[e]
    BY DEF TypeOK
<1>2. QED
    BY <1>1, SendRate

\* registerConnection keeps the window of the connection it registers.
LEMMA RegisterWindow ==
    ASSUME NEW c \in Conn, NEW p, NEW k \in Connections, Register(c, p, k)
    PROVE  /\ conn'[c].age = k.age /\ conn'[c].frames = k.frames
           /\ \A d \in Conn : d # c => conn'[d] = conn[d] \/ conn'[d].phase = "closed"
<1>1. conn'[c] = [k EXCEPT !.phase = "ready", !.peer = p]
    BY DEF Register
<1>2. conn'[c].age = k.age /\ conn'[c].frames = k.frames
    BY <1>1 DEF Connections
<1>3. \A d \in Conn : d # c => conn'[d] = conn[d] \/ conn'[d].phase = "closed"
    BY ConnectionFacts DEF Register
<1>4. QED
    BY <1>2, <1>3

\* A new connection begins with an empty history.
LEMMA ConnectRate ==
    ASSUME TypeOK, RateInv, NEW c \in Conn, Connect(c)
    PROVE  RateInv'
<1>1. conn' = [conn EXCEPT ![c] = NewConnection] /\ recent' = IF c = Watched THEN NothingSent ELSE recent
    BY DEF Connect
<1>2. CASE c # Watched
    <2>1. conn'[Watched] = conn[Watched] /\ recent' = recent
        BY <1>1, <1>2, FrameAssumption DEF TypeOK
    <2>2. QED
        BY <2>1 DEF RateInv
<1>3. CASE c = Watched
    <2>1. conn'[Watched] = NewConnection /\ recent' = NothingSent
        BY <1>1, <1>3 DEF TypeOK
    <2>2. NewConnection.age = 0 /\ NewConnection.frames = 0
        BY DEF NewConnection
    <2>3. SentIn(NothingSent) = {} /\ NothingSent[0] = 0
        BY WindowConstants DEF SentIn, NothingSent
    <2>4. Since(NothingSent, 0) = {} /\ Before(NothingSent, 0) = {}
        BY <2>3 DEF Since, Before
    <2>5. IsFiniteSet({}) /\ Cardinality({}) = 0
        BY FS_EmptySet
    <2>6. /\ IsFiniteSet(SentIn(NothingSent)) /\ Cardinality(Since(NothingSent, 0)) = 0
          /\ Cardinality(Before(NothingSent, 0)) = 0 /\ Cardinality(SentIn(NothingSent)) = 0
        BY <2>3, <2>4, <2>5, Zenon
    <2>7. WindowInv(NothingSent, 0, 0)
        BY <2>3, <2>6, WindowConstants DEF WindowInv
    <2>8. QED
        BY <2>1, <2>2, <2>6, <2>7, WindowConstants DEF RateInv
<1>4. QED
    BY <1>2, <1>3

\* The clock moves on.
LEMMA TickRate ==
    ASSUME TypeOK, RateInv, Tick
    PROVE  RateInv'
<1> DEFINE k == conn[Watched]
           b == IF Live(Watched) /\ k.age < SendWindow THEN k.age + 1 ELSE k.age
<1>0. recent \in Histories /\ k \in Connections
    BY FrameAssumption DEF TypeOK, Histories
<1>1. recent' = Aged(recent) /\ conn'[Watched] = [k EXCEPT !.age = b]
    BY FrameAssumption DEF Tick, Aged
<1>2. conn'[Watched].phase = k.phase /\ conn'[Watched].age = b /\ conn'[Watched].frames = k.frames
    BY <1>0, <1>1 DEF Connections
<1>3. k.phase # "closed" => b = IF k.age < SendWindow THEN k.age + 1 ELSE k.age
    BY <1>0 DEF Live, Connections
<1> HIDE DEF b
<1>4. \A s \in SentIn(Aged(recent)) : \E u \in SentIn(recent) : s = <<u[1] + 1, u[2]>>
    BY <1>0, AgedMoves
<1>5. IsFiniteSet(SentIn(recent)) /\ Cardinality(SentIn(recent)) <= 2 * MaxSendFrames
    BY DEF RateInv
<1>6. /\ IsFiniteSet(SentIn(Aged(recent)))
      /\ Cardinality(SentIn(Aged(recent))) \in Nat /\ Cardinality(SentIn(recent)) \in Nat
      /\ Cardinality(SentIn(Aged(recent))) <= Cardinality(SentIn(recent))
    BY <1>4, <1>5, MovedCard
<1>7. Cardinality(SentIn(Aged(recent))) <= 2 * MaxSendFrames
    BY <1>5, <1>6, WindowConstants
<1>8. ASSUME k.phase # "closed"
      PROVE  WindowInv(Aged(recent), b, k.frames)
    <2>1. WindowInv(recent, k.age, k.frames)
        BY <1>8 DEF RateInv
    <2> HIDE DEF k
    <2>2. QED
        BY <1>0, <1>3, <1>8, <2>1, WindowAges
<1>9. QED
    BY <1>1, <1>2, <1>6, <1>7, <1>8 DEF RateInv

\* Every step is one of these.
LEMMA NextRate == Inv /\ RateInv /\ [Next]_vars => RateInv'
<1> SUFFICES ASSUME Inv, RateInv, [Next]_vars PROVE RateInv'
    OBVIOUS
<1> USE InvParts
<1>1. CASE UNCHANGED vars
    BY <1>1 DEF vars, RateInv
<1>2. ASSUME NEW c \in Conn, Reject(c) \/ CloseEvent(c) PROVE RateStep
    BY <1>2, CloseRate DEF Reject, CloseEvent
<1>3. ASSUME NEW c \in Conn, NEW f \in Sent(c), UnknownNetwork(c, f) PROVE RateStep
    BY <1>3, CloseRate DEF UnknownNetwork
<1>4. ASSUME NEW c \in Conn, NEW f \in Sent(c), HandshakeMessage1(c, f) PROVE RateStep
    <2> DEFINE size == HeaderSize + 1
               k == AfterSend(c, size)
    <2>1. /\ conn[c].phase = "msg1" /\ Remember(c, size) /\ (~CanSend(c, size) => Close(c))
          /\ CanSend(c, size) => conn' = [conn EXCEPT ![c] = [k EXCEPT !.peer = f.from, !.phase = "msg3"]]
        BY <1>4 DEF HandshakeMessage1
    <2>2. k \in Connections /\ size \in Int
        BY AfterSendFacts DEF HeaderSize
    <2>3. [k EXCEPT !.peer = f.from, !.phase = "msg3"].age = k.age
          /\ [k EXCEPT !.peer = f.from, !.phase = "msg3"].frames = k.frames
        <3> HIDE DEF k
        <3>1. QED
            BY <2>2 DEF Connections
    <2> HIDE DEF size
    <2>4. CanSend(c, size) =>
              /\ conn'[c].age = k.age /\ conn'[c].frames = k.frames
              /\ \A e \in Conn : e # c => conn'[e] = conn[e]
        BY <2>1, <2>3 DEF TypeOK
    <2>5. QED
        BY <2>1, <2>2, <2>4, SendRate
<1>5. ASSUME NEW c \in Conn, NEW f \in Sent(c), HandshakeMessage3(c, f) PROVE RateStep
    <2>1. conn[c].phase = "msg3" /\ Register(c, conn[c].peer, conn[c]) /\ recent' = recent
        BY <1>5 DEF HandshakeMessage3
    <2>2. conn[c] \in Connections
        BY DEF TypeOK
    <2>3. QED
        BY <2>1, <2>2, RegisterWindow, FrameAssumption DEF RateStep, Untouched
<1>6. ASSUME NEW c \in Conn, NEW f \in Sent(c), LegacyHandshake(c, f) PROVE RateStep
    <2> DEFINE size == HeaderSize + 1
               k == AfterSend(c, size)
               new == [k EXCEPT !.mode = "legacy", !.cipher = TRUE]
    <2>1. /\ conn[c].phase = "msg1" /\ Remember(c, size) /\ (~CanSend(c, size) => Close(c))
          /\ CanSend(c, size) => Register(c, f.from, new)
        BY <1>6 DEF LegacyHandshake
    <2>2. k \in Connections /\ size \in Int
        BY AfterSendFacts DEF HeaderSize
    <2>3. new \in Connections /\ new.age = k.age /\ new.frames = k.frames
        <3> HIDE DEF k
        <3>1. QED
            BY <2>2 DEF Connections, Modes
    <2> HIDE DEF new, size
    <2>4. CanSend(c, size) =>
              /\ conn'[c].age = k.age /\ conn'[c].frames = k.frames
              /\ \A e \in Conn : e # c => conn'[e] = conn[e] \/ conn'[e].phase = "closed"
        BY <2>1, <2>3, RegisterWindow
    <2>5. QED
        BY <2>1, <2>2, <2>4, SendRate
<1>7. ASSUME NEW c \in Conn, NEW f \in Sent(c), Forward(c, f) PROVE RateStep
    <2> DEFINE target == resolveRecipient(HeaderId(f.to))
    <2>1. target \in Conn /\ f.size \in Int /\ conn[target].phase # "closed"
        BY <1>7, ForwardFacts DEF Frames
    <2>2. /\ Remember(target, f.size) /\ (~CanSend(target, f.size) => Close(target))
          /\ CanSend(target, f.size) => conn' = [conn EXCEPT ![target] = AfterSend(target, f.size)]
        BY <1>7 DEF Forward
    <2> HIDE DEF target
    <2>3. QED
        BY <2>1, <2>2, PlainSendRate
<1>8. ASSUME NEW c \in Conn, NEW f \in Sent(c), AnswerPing(c, f) PROVE RateStep
    <2> DEFINE size == createPong(f).size
    <2>1. f \in Frames
        BY SentFacts DEF Inv
    <2>2. size \in Int
        BY <2>1 DEF createPong, Frames
    <2>3. /\ conn[c].phase # "closed" /\ Remember(c, size) /\ (~CanSend(c, size) => Close(c))
          /\ CanSend(c, size) => conn' = [conn EXCEPT ![c] = AfterSend(c, size)]
        BY <1>8 DEF AnswerPing
    <2> HIDE DEF size
    <2>4. QED
        BY <2>2, <2>3, PlainSendRate
<1>9. ASSUME NEW c \in Conn, conn[c].phase = "ready", NEW next, SendControl(c, next) PROVE RateStep
    <2> DEFINE size == HeaderSize + 1 + (IF CipherOf(conn[c]) THEN TailSize ELSE 0)
    <2>1. size \in Int
        BY DEF HeaderSize, TailSize
    <2>2. /\ conn[c].phase # "closed" /\ Remember(c, size) /\ (~CanSend(c, size) => Close(c))
          /\ CanSend(c, size) => conn' = [conn EXCEPT ![c] = AfterSend(c, size)]
        BY <1>9 DEF SendControl
    <2> HIDE DEF size
    <2>3. QED
        BY <2>1, <2>2, PlainSendRate
<1>10. ASSUME NEW c \in Conn, NEW f \in Sent(c), NEW complete \in BOOLEAN, HandleRpc(c, f, complete)
       PROVE  RateStep
    <2>1. conn[c].phase = "ready" /\ ((\E next : SendControl(c, next)) \/ UNCHANGED <<conn, recent>>)
        BY <1>10 DEF HandleRpc, handleRequest, handleResponse
    <2>2. CASE UNCHANGED <<conn, recent>>
        BY <2>2 DEF RateStep, Untouched
    <2>3. QED
        BY <1>9, <2>1, <2>2
<1>11. ASSUME NEW c \in Conn, SendRouteUpdate(c) PROVE RateStep
    <2>1. conn[c].phase = "ready"
        BY <1>11 DEF SendRouteUpdate, ConnInv, UpdatingInv, Ready
    <2>2. QED
        BY <1>9, <1>11, <2>1 DEF SendRouteUpdate
<1>12. ASSUME NEW c \in Conn, SocketDies(c) PROVE RateStep
    <2>1. \A k \in Connections : /\ [k EXCEPT !.open = FALSE].phase = k.phase
                                 /\ [k EXCEPT !.open = FALSE].age = k.age
                                 /\ [k EXCEPT !.open = FALSE].frames = k.frames
        BY DEF Connections
    <2>2. conn' = [conn EXCEPT ![c] = [conn[c] EXCEPT !.open = FALSE]] /\ recent' = recent
        BY <1>12 DEF SocketDies
    <2>3. \A d \in Conn : /\ conn'[d].phase = conn[d].phase /\ conn'[d].age = conn[d].age
                          /\ conn'[d].frames = conn[d].frames
        BY <2>1, <2>2 DEF TypeOK
    <2>4. QED
        BY <2>2, <2>3, FrameAssumption DEF RateStep, Untouched
<1>13. ASSUME Maintenance PROVE RateStep
    BY <1>13 DEF Maintenance, RateStep, Untouched
<1>14. CASE Next
    <2>1. \/ \E c \in Conn : Connect(c)
          \/ Tick
          \/ RateStep
        BY <1>2, <1>3, <1>4, <1>5, <1>6, <1>7, <1>8, <1>10, <1>11, <1>12, <1>13, <1>14
        DEF Next, Event, Message
    <2>2. QED
        BY <2>1, ConnectRate, TickRate, RateStepKeeps
<1>15. QED
    BY <1>1, <1>14

LEMMA InitRate == Init => RateInv
<1> SUFFICES ASSUME Init PROVE RateInv
    OBVIOUS
<1>1. recent = NothingSent /\ conn[Watched].phase = "closed"
    BY ConnectionFacts, FrameAssumption DEF Init
<1>2. SentIn(NothingSent) = {}
    BY DEF SentIn, NothingSent
<1>3. IsFiniteSet({}) /\ Cardinality({}) = 0
    BY FS_EmptySet
<1>4. IsFiniteSet(SentIn(recent)) /\ Cardinality(SentIn(recent)) = 0
    BY <1>1, <1>2, <1>3, Zenon
<1>5. QED
    BY <1>1, <1>4, WindowConstants DEF RateInv

\* In any interval as long as the send window, at most two windows' worth of
\* frames is sent to a connection, wherever its windows begin.
THEOREM RateIsBounded == Spec => []RateBound
<1>1. Inv /\ RateInv => RateBound
    <2> SUFFICES ASSUME Inv, RateInv PROVE RateBound
        OBVIOUS
    <2>1. DOMAIN recent = 0..(SendWindow - 1) /\ \A t \in 0..(SendWindow - 1) : recent[t] \in Nat
        BY DEF Inv, TypeOK
    <2>2. SentRecently = SentIn(recent)
        BY <2>1 DEF SentRecently, SentIn
    <2>3. Cardinality(SentRecently) = Cardinality(SentIn(recent))
        BY <2>2, Zenon
    <2>4. QED
        BY <2>3 DEF RateInv, RateBound
<1>2. QED
    BY <1>1, InitRate, NextRate, Invariance, PTL DEF Spec
=============================================================================
