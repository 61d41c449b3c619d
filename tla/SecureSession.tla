--------------------------- MODULE SecureSession ---------------------------
(***************************************************************************)
(* The store of secure sessions (secure.rs): SESSION_STORE, which outlives *)
(* the connections, and the SecurePeer of each connection, which attaches  *)
(* to the session of its peer id in build_msg2 and detaches when it is     *)
(* freed.  upsert_session creates a session, lets a reconnecting client    *)
(* join it, or starts a new epoch for a client that has lost it (Sync).    *)
(*                                                                         *)
(* A SecurePeer copies the session's state from the store before it uses   *)
(* it and writes it back afterwards within one call, so the store's copy   *)
(* is the only one here.  There is one direction of traffic each way, as   *)
(* the relay only seals packets to the peer and opens packets from it.  A  *)
(* frame received is its epoch, whether it decrypts, and whether the       *)
(* replay window of its epoch takes it (module ReplayWindow).  The         *)
(* generation of a session is always 1: a client presents it if it holds a *)
(* session.  Epochs are u32 and wrap, which a client brings about with one *)
(* frame of the last epoch: precheck_replay takes any epoch while no slot  *)
(* is valid, and a Sync goes on from it.  Sequence numbers are u64 and do  *)
(* not wrap.                                                               *)
(***************************************************************************)
EXTENDS Naturals, FiniteSets

CONSTANTS
    Conn,                  \* connections in secure mode (each is used once)
    Peer,                  \* peer ids: the keys of the store (one network, one server key)
    StaticKey,             \* Noise static public keys of clients
    NoConn, NoPeer, NoKey,
    MaxStoredSessions,     \* MAX_STORED_SESSIONS
    DecryptFailThreshold,  \* DECRYPT_FAIL_THRESHOLD
    MaxRxEpochAhead,       \* MAX_ACCEPTED_RX_EPOCH_AHEAD
    MaxRoot,               \* bound on the root keys drawn
    EpochCount,            \* 2^32: the number of epochs
    MaxSeq                 \* bound on the packets sealed in an epoch and its successors

ASSUME SessionAssumption ==
    /\ IsFiniteSet(Conn) /\ NoConn \notin Conn
    /\ NoPeer \notin Peer /\ NoKey \notin StaticKey
    /\ MaxStoredSessions \in Nat /\ DecryptFailThreshold \in Nat /\ MaxRxEpochAhead \in Nat
    /\ MaxRoot \in Nat /\ EpochCount \in Nat \ {0} /\ MaxSeq \in Nat

VARIABLES
    sessions,    \* SESSION_STORE: StoredSession of a peer id, NoSession if absent
    phase,       \* "none", "msg3" (attached), "auth" (authenticated) or "closed"
    peerOf,      \* session_key of the connection
    keyOf,       \* history: the static key the connection authenticated with
    offer,       \* the root key msg2 carries, 0 if none (Join)
    clientRoot,  \* external: the root key of the session the client of a peer id holds, 0 if none
    waiting,     \* external: the connection on which that client waits for msg2
    roots,       \* root keys drawn so far
    sealed,      \* history: the nonces <<root key, epoch, sequence>> used by the relay
    wrapped      \* history: the root keys whose epoch went from the last one to 0

vars == <<sessions, phase, peerOf, keyOf, offer, clientRoot, waiting, roots, sealed, wrapped>>

\* The slots of a direction: slots[0], of the newest epoch, and slots[1]
Gen == {"new", "old"}

NoSlot  == [epoch |-> 0, valid |-> FALSE, idle |-> FALSE]
NoSlots == [i \in Gen |-> NoSlot]
NoGrace == [slots |-> NoSlots, valid |-> FALSE, over |-> FALSE]

\* `idle': untouched for SESSION_IDLE_MS
NoSession == [root |-> 0, next |-> 0, seq |-> 0, rx |-> NoSlots, grace |-> NoGrace,
              fails |-> 0, pin |-> NoKey, att |-> 0, idle |-> FALSE]

Attached == {"msg3", "auth"}

Attachments(p) == {c \in Conn : phase[c] \in Attached /\ peerOf[c] = p}

Epoch == 0..(EpochCount - 1)

\* wrapping_add(1)
NextEpoch(e) == (e + 1) % EpochCount

\* The epoch after e, of the session with this root key, is in use from now on
NoteEpoch(root, e) == wrapped' = IF e + 1 = EpochCount THEN wrapped \cup {root} ELSE wrapped

Touch(s) == [s EXCEPT !.idle = FALSE]

-----------------------------------------------------------------------------
(* upsert_session and build_msg2                                           *)

\* Mutant: idle sessions are dropped although connections are attached
Kept_IgnoresAttachments ==
    {p \in Peer : sessions[p] # NoSession /\ ~sessions[p].idle}

\* The sessions that survive the retain of upsert_session
Kept ==
    {p \in Peer : sessions[p] # NoSession /\ (sessions[p].att > 0 \/ ~sessions[p].idle)}

\* The store with session s for p
Upserted(p, s) ==
    [q \in Peer |-> IF q = p THEN s ELSE IF q \in Kept THEN sessions[q] ELSE NoSession]

\* The largest of the relay's epoch and those of the valid slots
SyncEpoch(s) ==
    LET es == {s.next} \cup {s.rx[i].epoch : i \in {j \in Gen : s.rx[j].valid}}
    IN  CHOOSE e \in es : \A f \in es : f <= e

\* Mutant: the epoch is kept while the sequence starts again
Synced_SameEpoch(s) ==
    [s EXCEPT !.seq = 0, !.grace = [slots |-> s.rx, valid |-> TRUE, over |-> FALSE],
              !.rx = NoSlots, !.fails = 0]

\* A new epoch for both sides; the old one is received for a while
Synced(s) ==
    [s EXCEPT !.next = NextEpoch(SyncEpoch(s)), !.seq = 0,
              !.grace = [slots |-> s.rx, valid |-> TRUE, over |-> FALSE],
              !.rx = NoSlots, !.fails = 0]

\* build_msg2 after upsert_session returned `s': attach, and send; if the send
\* fails the connection is closed at once
BuildMsg2(c, p, s, root) ==
    /\ phase[c] = "none"
    /\ peerOf' = [peerOf EXCEPT ![c] = p]
    /\ offer' = [offer EXCEPT ![c] = root]
    /\ waiting' = [waiting EXCEPT ![p] = c]
    /\ \/ /\ phase' = [phase EXCEPT ![c] = "msg3"]
          /\ sessions' = Upserted(p, [Touch(s) EXCEPT !.att = @ + 1])
       \/ /\ phase' = [phase EXCEPT ![c] = "closed"]
          /\ sessions' = Upserted(p, Touch(s))
    /\ UNCHANGED <<keyOf, clientRoot, sealed>>

Create(c, p) ==
    /\ p \notin Kept
    /\ Cardinality(Kept) < MaxStoredSessions
    /\ roots < MaxRoot
    /\ roots' = roots + 1
    /\ BuildMsg2(c, p, [NoSession EXCEPT !.root = roots + 1], roots + 1)
    /\ UNCHANGED wrapped

Join(c, p) ==
    /\ p \in Kept
    /\ clientRoot[p] # 0
    /\ BuildMsg2(c, p, sessions[p], 0)
    /\ UNCHANGED <<roots, wrapped>>

Sync(c, p) ==
    /\ p \in Kept
    /\ clientRoot[p] = 0
    /\ BuildMsg2(c, p, Synced(sessions[p]), sessions[p].root)
    /\ NoteEpoch(sessions[p].root, SyncEpoch(sessions[p]))
    /\ UNCHANGED roots

\* upsert_session refuses: the store is full or the client changed its
\* encryption algorithm.  Expired sessions are gone nevertheless.
Refuse(c, p) ==
    /\ phase[c] = "none"
    /\ p \in Kept \/ Cardinality(Kept) >= MaxStoredSessions
    /\ phase' = [phase EXCEPT ![c] = "closed"]
    /\ sessions' = [q \in Peer |-> IF q \in Kept THEN sessions[q] ELSE NoSession]
    /\ UNCHANGED <<peerOf, keyOf, offer, clientRoot, waiting, roots, sealed, wrapped>>

-----------------------------------------------------------------------------
(* The rest of a connection's life                                         *)

\* Drop for SecurePeer
Detached(s) == [Touch(s) EXCEPT !.att = IF @ > 0 THEN @ - 1 ELSE 0]

\* The connection is closed and its SecurePeer freed, with the session as in `s'
Free(c, s) ==
    /\ phase' = [phase EXCEPT ![c] = "closed"]
    /\ sessions' = [sessions EXCEPT ![peerOf[c]] = Detached(s)]

Close(c) ==
    /\ phase[c] \in Attached
    /\ Free(c, sessions[peerOf[c]])
    /\ UNCHANGED <<peerOf, keyOf, offer, clientRoot, waiting, roots, sealed, wrapped>>

\* external: the client takes over what msg2 says
Msg2Received(c) ==
    /\ phase[c] = "msg3"
    /\ waiting[peerOf[c]] = c
    /\ clientRoot' = [clientRoot EXCEPT ![peerOf[c]] = IF offer[c] = 0 THEN @ ELSE offer[c]]
    /\ waiting' = [waiting EXCEPT ![peerOf[c]] = NoConn]
    /\ UNCHANGED <<sessions, phase, peerOf, keyOf, offer, roots, sealed, wrapped>>

\* Mutant: the latest key is recorded without a comparison
Confirms_Always(s, k) == TRUE

\* confirm_session_public_key
Confirms(s, k) == s.pin \in {NoKey, k}

\* finish_msg3 with a valid proof, for a client with static key k
FinishMsg3(c, k) ==
    LET s == sessions[peerOf[c]]
    IN  /\ phase[c] = "msg3"
        /\ waiting[peerOf[c]] # c
        /\ IF Confirms(s, k)
           THEN /\ phase' = [phase EXCEPT ![c] = "auth"]
                /\ keyOf' = [keyOf EXCEPT ![c] = k]
                /\ sessions' = [sessions EXCEPT ![peerOf[c]] = [Touch(s) EXCEPT !.pin = k]]
           ELSE /\ Free(c, s)
                /\ UNCHANGED keyOf
        /\ UNCHANGED <<peerOf, offer, clientRoot, waiting, roots, sealed, wrapped>>

\* maybe_rotate_epoch starts an epoch when the current one has lasted ten
\* minutes or a million packets
SendEpoch(s, rotate) == IF rotate THEN NextEpoch(s.next) ELSE s.next

\* encrypt_packet: the sequence goes on when the epoch changes
EncryptPacket(c, rotate) ==
    LET s == sessions[peerOf[c]]
        e == SendEpoch(s, rotate)
    IN  /\ phase[c] = "auth"
        /\ s.seq < MaxSeq
        /\ sealed' = sealed \cup {<<s.root, e, s.seq>>}
        /\ sessions' = [sessions EXCEPT ![peerOf[c]] =
                           [Touch(s) EXCEPT !.next = e, !.seq = @ + 1]]
        /\ IF rotate THEN NoteEpoch(s.root, s.next) ELSE UNCHANGED wrapped
        /\ UNCHANGED <<phase, peerOf, keyOf, offer, clientRoot, waiting, roots>>

\* evict_slots
EvictSlots(ss) == [i \in Gen |-> IF ss[i].valid /\ ss[i].idle THEN NoSlot ELSE ss[i]]

\* evict_old_rx_slots
Evicted(s) ==
    [s EXCEPT !.rx = EvictSlots(s.rx),
              !.grace = IF s.grace.valid /\ s.grace.over THEN NoGrace
                        ELSE [s.grace EXCEPT !.slots = EvictSlots(s.grace.slots)]]

Tracks(ss, e) == \E i \in Gen : ss[i].valid /\ ss[i].epoch = e

\* precheck_replay for an epoch; `dup' is the answer of its replay window, if
\* there is one
PrecheckReplay(s, e, dup) ==
    LET base == {s.next, s.rx["new"].epoch} \cup (IF s.rx["old"].valid THEN {s.rx["old"].epoch} ELSE {})
    IN  CASE s.grace.valid /\ Tracks(s.grace.slots, e) -> ~dup
          [] ~s.rx["new"].valid -> TRUE
          [] Tracks(s.rx, e) -> ~dup
          [] OTHER -> e > s.rx["new"].epoch /\ \E b \in base : e <= b + MaxRxEpochAhead

\* The slot that tracks e, in the order of the array, is used
Used(ss, e) ==
    [i \in Gen |->
        IF ss[i].valid /\ ss[i].epoch = e
           /\ (i = "old" => ~(ss["new"].valid /\ ss["new"].epoch = e))
        THEN [epoch |-> e, valid |-> TRUE, idle |-> FALSE]
        ELSE ss[i]]

\* commit_replay: the slot of the epoch is used, or one is made for a newer epoch
CommitReplay(s, e) ==
    LET slot == [epoch |-> e, valid |-> TRUE, idle |-> FALSE]
    IN  CASE s.grace.valid /\ Tracks(s.grace.slots, e) -> [s EXCEPT !.grace.slots = Used(@, e)]
          [] ~s.rx["new"].valid -> [s EXCEPT !.rx = [s.rx EXCEPT !["new"] = slot]]
          [] Tracks(s.rx, e) -> [s EXCEPT !.rx = Used(@, e)]
          [] OTHER -> [s EXCEPT !.rx = [i \in Gen |-> IF i = "new" THEN slot ELSE s.rx["new"]]]

\* decrypt_packet: refused as a replay, not decryptable (the connection is
\* closed when that happens too often in a row), or opened.  `frame' is what the
\* payload turns out to be: "bad", "dup" in its epoch's window, or "new"
DecryptPacket(c, e, frame) ==
    LET s == Touch(Evicted(sessions[peerOf[c]]))
    IN  /\ phase[c] = "auth"
        /\ IF ~PrecheckReplay(s, e, frame = "dup")
           THEN /\ sessions' = [sessions EXCEPT ![peerOf[c]] = s]
                /\ UNCHANGED phase
           ELSE IF frame # "bad"
           THEN /\ sessions' = [sessions EXCEPT ![peerOf[c]] =
                                   [CommitReplay(s, e) EXCEPT !.fails = 0]]
                /\ UNCHANGED phase
           ELSE IF s.fails + 1 >= DecryptFailThreshold
           THEN Free(c, [s EXCEPT !.fails = @ + 1])
           ELSE /\ sessions' = [sessions EXCEPT ![peerOf[c]] = [s EXCEPT !.fails = @ + 1]]
                /\ UNCHANGED phase
        /\ UNCHANGED <<peerOf, keyOf, offer, clientRoot, waiting, roots, sealed, wrapped>>

-----------------------------------------------------------------------------
(* Time, and processes that start again                                    *)

\* A session has not been touched for 60s, its slots have not been used for
\* 30s, the grace of a Sync (5s) is over
Pass(p, i) ==
    /\ sessions[p] # NoSession
    /\ \/ sessions' = [sessions EXCEPT ![p].idle = TRUE]
       \/ sessions[p].rx[i].valid /\ sessions' = [sessions EXCEPT ![p].rx[i].idle = TRUE]
       \/ sessions[p].grace.valid /\ sessions' = [sessions EXCEPT ![p].grace.over = TRUE]
    /\ UNCHANGED <<phase, peerOf, keyOf, offer, clientRoot, waiting, roots, sealed, wrapped>>

\* The isolate is lost with the store and every connection
RestartRelay ==
    /\ sessions' = [p \in Peer |-> NoSession]
    /\ phase' = [c \in Conn |-> IF phase[c] = "none" THEN "none" ELSE "closed"]
    /\ UNCHANGED <<peerOf, keyOf, offer, clientRoot, waiting, roots, sealed, wrapped>>

\* external: the client process starts again, or gives its session up
RestartClient(p) ==
    /\ clientRoot[p] # 0 \/ waiting[p] # NoConn
    /\ clientRoot' = [clientRoot EXCEPT ![p] = 0]
    /\ waiting' = [waiting EXCEPT ![p] = NoConn]
    /\ UNCHANGED <<sessions, phase, peerOf, keyOf, offer, roots, sealed, wrapped>>

Init ==
    /\ sessions = [p \in Peer |-> NoSession]
    /\ phase = [c \in Conn |-> "none"]
    /\ peerOf = [c \in Conn |-> NoPeer]
    /\ keyOf = [c \in Conn |-> NoKey]
    /\ offer = [c \in Conn |-> 0]
    /\ clientRoot = [p \in Peer |-> 0]
    /\ waiting = [p \in Peer |-> NoConn]
    /\ roots = 0
    /\ sealed = {} /\ wrapped = {}

Next ==
    \/ \E c \in Conn, p \in Peer : Create(c, p) \/ Join(c, p) \/ Sync(c, p) \/ Refuse(c, p)
    \/ \E c \in Conn : Close(c) \/ Msg2Received(c)
    \/ \E c \in Conn, k \in StaticKey : FinishMsg3(c, k)
    \/ \E c \in Conn, rotate \in BOOLEAN : EncryptPacket(c, rotate)
    \/ \E c \in Conn, e \in Epoch, frame \in {"bad", "dup", "new"} :
          DecryptPacket(c, e, frame)
    \/ \E p \in Peer, i \in Gen : Pass(p, i)
    \/ RestartRelay
    \/ \E p \in Peer : RestartClient(p)

Spec == Init /\ [][Next]_vars

-----------------------------------------------------------------------------
Slot  == [epoch : Epoch, valid : BOOLEAN, idle : BOOLEAN]
Slots == [Gen -> Slot]
Session ==
    [root : Nat, next : Epoch, seq : Nat, rx : Slots,
     grace : [slots : Slots, valid : BOOLEAN, over : BOOLEAN],
     fails : Nat, pin : StaticKey \cup {NoKey}, att : Nat, idle : BOOLEAN]

\* Every variable has its type.
TypeOK ==
    /\ sessions \in [Peer -> Session]
    /\ phase \in [Conn -> {"none", "msg3", "auth", "closed"}]
    /\ peerOf \in [Conn -> Peer \cup {NoPeer}]
    /\ keyOf \in [Conn -> StaticKey \cup {NoKey}]
    /\ offer \in [Conn -> Nat]
    /\ clientRoot \in [Peer -> Nat]
    /\ waiting \in [Peer -> Conn \cup {NoConn}]
    /\ roots \in Nat
    /\ sealed \subseteq Nat \X Nat \X Nat
    /\ wrapped \subseteq Nat

\* A session counts exactly the connections that use it, and there is one for
\* every such connection: load_session_state and persist_session_state never
\* find it missing, and a session nobody uses can expire.
AttachmentsExact ==
    \A p \in Peer :
        /\ sessions[p].att = Cardinality(Attachments(p))
        /\ Attachments(p) # {} => sessions[p] # NoSession

\* The nonce the relay uses next under a root key, in the current epoch or in
\* the one a rotation starts, has not been used before, whichever connections
\* shared the session, rotated it or synchronised it - as long as its epoch has
\* not wrapped.  The code reuses nonces after that.
NonceFresh ==
    \A p \in Peer : sessions[p] # NoSession /\ sessions[p].root \notin wrapped =>
        \A e \in {sessions[p].next, sessions[p].next + 1} :
            <<sessions[p].root, e, sessions[p].seq>> \notin sealed

\* The connections that share a session were authenticated with one static key.
OneStaticKey ==
    \A c, d \in Conn :
        phase[c] = "auth" /\ phase[d] = "auth" /\ peerOf[c] = peerOf[d] => keyOf[c] = keyOf[d]

\* A client that is told to join a session holds the root key of that session.
JoinShares ==
    \A c \in Conn :
        phase[c] = "msg3" /\ waiting[peerOf[c]] = c /\ offer[c] = 0 =>
            clientRoot[peerOf[c]] = sessions[peerOf[c]].root
=============================================================================
