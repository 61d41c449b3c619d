------------------------ MODULE SecureSessionProofs ------------------------
(***************************************************************************)
(* Proofs about the session store: a session counts its connections, no    *)
(* nonce is used twice, and the connections of a session share one static  *)
(* key.                                                                    *)
(***************************************************************************)
EXTENDS SecureSession, FiniteSetTheorems, TLAPS

USE DEF Attached

\* What the operations on a received or touched session leave alone
SameCore(s, t) ==
    /\ t.root = s.root /\ t.next = s.next /\ t.seq = s.seq
    /\ t.pin = s.pin

-----------------------------------------------------------------------------
(* The operations on one session                                           *)

\* Epochs are numbers, and the next one is larger unless it wraps.
LEMMA ZeroEpoch == 0 \in Epoch /\ Epoch \subseteq Nat
BY SessionAssumption DEF Epoch

LEMMA NextEpochFacts ==
    ASSUME NEW e \in Epoch
    PROVE  NextEpoch(e) \in Epoch /\ (e + 1 # EpochCount => NextEpoch(e) = e + 1)
<1>1. e \in Nat /\ e < EpochCount /\ EpochCount \in Nat /\ EpochCount > 0
  BY SessionAssumption DEF Epoch
<1>2. e + 1 = EpochCount \/ e + 1 < EpochCount
  BY <1>1
<1>3. NextEpoch(e) \in Nat /\ NextEpoch(e) < EpochCount
  BY <1>1 DEF NextEpoch
<1>4. e + 1 < EpochCount => NextEpoch(e) = e + 1
  BY <1>1 DEF NextEpoch
<1> QED
  BY <1>1, <1>2, <1>3, <1>4 DEF Epoch

\* An absent session is a session record.
LEMMA NoSessionType == NoSession \in Session
BY SessionAssumption, ZeroEpoch DEF NoSession, NoGrace, NoSlots, NoSlot, Session, Slots, Slot

\* Touching a session changes its idleness only.
LEMMA TouchType ==
    ASSUME NEW s \in Session
    PROVE  Touch(s) \in Session /\ SameCore(s, Touch(s)) /\ Touch(s).att = s.att
BY DEF Touch, Session, SameCore

\* Dropping a SecurePeer takes one attachment away.
LEMMA DetachedType ==
    ASSUME NEW s \in Session
    PROVE  /\ Detached(s) \in Session /\ SameCore(s, Detached(s))
           /\ s.att > 0 => Detached(s).att = s.att - 1
<1>1. Touch(s) \in Session /\ SameCore(s, Touch(s)) /\ Touch(s).att = s.att
  BY TouchType
<1>2. s.att \in Nat
  BY DEF Session
<1> QED
  BY <1>1, <1>2 DEF Detached, Session, SameCore

\* Sync keeps key and attachments and starts a later epoch, unless that wraps.
LEMMA SyncedType ==
    ASSUME NEW s \in Session
    PROVE  /\ Synced(s) \in Session
           /\ Synced(s).root = s.root /\ Synced(s).pin = s.pin /\ Synced(s).att = s.att
           /\ SyncEpoch(s) + 1 # EpochCount => Synced(s).next > s.next
           /\ Synced(s).seq = 0
<1> DEFINE es == {s.next} \cup {s.rx[i].epoch : i \in {j \in Gen : s.rx[j].valid}}
<1> DEFINE m == IF s.rx["new"].valid THEN s.rx["new"].epoch ELSE s.next
           n == IF s.rx["old"].valid THEN s.rx["old"].epoch ELSE s.next
<1>1. es = {s.next, m, n}
  BY DEF Gen
<1>2. s.next \in Epoch /\ m \in Epoch /\ n \in Epoch
  BY DEF Session, Slots, Slot, Gen
<1>0. Epoch \subseteq Nat
  BY DEF Epoch
<1>3. \E e \in es : \A f \in es : f <= e
  <2> HIDE DEF m, n, es
  <2>1. \A i, j, k \in Nat : \E e \in {i, j, k} : \A f \in {i, j, k} : f <= e
    OBVIOUS
  <2>2. s.next \in Nat /\ m \in Nat /\ n \in Nat
    BY <1>0, <1>2
  <2>3. \E e \in {s.next, m, n} : \A f \in {s.next, m, n} : f <= e
    BY <2>1, <2>2
  <2> QED
    BY <1>1, <2>3
<1>4. SyncEpoch(s) = CHOOSE e \in es : \A f \in es : f <= e
  BY DEF SyncEpoch
<1>5. SyncEpoch(s) \in es /\ \A f \in es : f <= SyncEpoch(s)
  BY <1>3, <1>4
<1>6. s.next <= SyncEpoch(s) /\ SyncEpoch(s) \in Epoch
  <2>1. es \subseteq Epoch
    BY <1>1, <1>2
  <2> QED
    BY <1>5, <2>1
<1> HIDE DEF es
<1>7. [slots |-> s.rx, valid |-> TRUE, over |-> FALSE]
         \in [slots : Slots, valid : BOOLEAN, over : BOOLEAN] /\ NoSlots \in Slots
  BY ZeroEpoch DEF Session, Slots, Slot, NoSlots, NoSlot
<1>8. /\ NextEpoch(SyncEpoch(s)) \in Epoch
      /\ SyncEpoch(s) + 1 # EpochCount => NextEpoch(SyncEpoch(s)) > s.next
  <2> HIDE DEF m, n
  <2> DEFINE k == SyncEpoch(s)
  <2>1. k \in Epoch /\ s.next <= k /\ k \in Nat /\ s.next \in Nat
    BY <1>0, <1>2, <1>6
  <2> HIDE DEF k
  <2>2. NextEpoch(k) \in Epoch /\ (k + 1 # EpochCount => NextEpoch(k) = k + 1)
    BY <2>1, NextEpochFacts
  <2>3. k + 1 # EpochCount => NextEpoch(k) > s.next
    BY <2>1, <2>2
  <2> QED
    BY <2>2, <2>3 DEF k
<1> HIDE DEF m, n
<1> DEFINE e == NextEpoch(SyncEpoch(s))
           g == [slots |-> s.rx, valid |-> TRUE, over |-> FALSE]
<1> HIDE DEF e, g
<1>9. Synced(s) = [s EXCEPT !.next = e, !.seq = 0, !.grace = g, !.rx = NoSlots, !.fails = 0]
  BY DEF Synced, e, g
<1>10. /\ Synced(s) \in Session
       /\ Synced(s).root = s.root /\ Synced(s).pin = s.pin /\ Synced(s).att = s.att
       /\ Synced(s).next = e /\ Synced(s).seq = 0
  <2>1. e \in Epoch /\ g \in [slots : Slots, valid : BOOLEAN, over : BOOLEAN] /\ NoSlots \in Slots
    BY <1>7, <1>8 DEF e, g
  <2>2. Synced(s).next = e /\ Synced(s).seq = 0 /\ Synced(s).grace = g
        /\ Synced(s).rx = NoSlots /\ Synced(s).fails = 0
    BY <1>9 DEF Session
  <2>3. Synced(s).root = s.root /\ Synced(s).pin = s.pin /\ Synced(s).att = s.att
        /\ Synced(s).idle = s.idle
    BY <1>9 DEF Session
  <2>4. Synced(s) = [root |-> s.root, next |-> e, seq |-> 0, rx |-> NoSlots, grace |-> g,
                     fails |-> 0, pin |-> s.pin, att |-> s.att, idle |-> s.idle]
    BY <1>9 DEF Session
  <2>5. s.root \in Nat /\ s.pin \in StaticKey \cup {NoKey} /\ s.att \in Nat /\ s.idle \in BOOLEAN
    BY DEF Session
  <2>6. Synced(s) \in Session
    BY <2>1, <2>4, <2>5 DEF Session
  <2> QED
    BY <2>2, <2>3, <2>6
<1>11. SyncEpoch(s) + 1 # EpochCount => e > s.next
  BY <1>8 DEF e
<1> QED
  BY <1>10, <1>11

\* Evicting receive slots leaves what is sent alone.
LEMMA EvictedType ==
    ASSUME NEW s \in Session
    PROVE  Evicted(s) \in Session /\ SameCore(s, Evicted(s)) /\ Evicted(s).att = s.att
<1>1. ASSUME NEW ss \in Slots PROVE EvictSlots(ss) \in Slots
  BY ZeroEpoch DEF Slots, Slot, NoSlot, EvictSlots
<1>2. s.rx \in Slots /\ s.grace \in [slots : Slots, valid : BOOLEAN, over : BOOLEAN]
  BY DEF Session
<1>3. /\ NoGrace \in [slots : Slots, valid : BOOLEAN, over : BOOLEAN]
      /\ [s.grace EXCEPT !.slots = EvictSlots(s.grace.slots)]
            \in [slots : Slots, valid : BOOLEAN, over : BOOLEAN]
  BY <1>1, <1>2, ZeroEpoch DEF NoGrace, NoSlots, NoSlot, Slots, Slot
<1> QED
  BY <1>1, <1>2, <1>3 DEF Evicted, Session, SameCore

\* Recording a received frame leaves what is sent alone.
LEMMA CommitType ==
    ASSUME NEW s \in Session, NEW e \in Epoch
    PROVE  CommitReplay(s, e) \in Session /\ SameCore(s, CommitReplay(s, e))
           /\ CommitReplay(s, e).att = s.att
<1> DEFINE slot == [epoch |-> e, valid |-> TRUE, idle |-> FALSE]
           s1 == [s EXCEPT !.grace.slots = Used(@, e)]
           s2 == [s EXCEPT !.rx = [s.rx EXCEPT !["new"] = slot]]
           s3 == [s EXCEPT !.rx = Used(@, e)]
           s4 == [s EXCEPT !.rx = [i \in Gen |-> IF i = "new" THEN slot ELSE s.rx["new"]]]
           Good(t) == t \in Session /\ SameCore(s, t) /\ t.att = s.att
<1>1. slot \in Slot
  BY DEF Slot
<1>2. ASSUME NEW ss \in Slots PROVE Used(ss, e) \in Slots
  BY <1>1 DEF Slots, Used
<1>3. s.rx \in Slots /\ s.grace \in [slots : Slots, valid : BOOLEAN, over : BOOLEAN]
  BY DEF Session
<1>4. CommitReplay(s, e) \in {s1, s2, s3, s4}
  BY DEF CommitReplay
<1> HIDE DEF slot
<1>5. Good(s1)
  <2>1. [s.grace EXCEPT !.slots = Used(@, e)]
          \in [slots : Slots, valid : BOOLEAN, over : BOOLEAN]
    BY <1>2, <1>3
  <2> QED
    BY <2>1 DEF Session, SameCore
<1>6. Good(s2)
  <2>1. [s.rx EXCEPT !["new"] = slot] \in Slots
    BY <1>1, <1>3 DEF Slots
  <2> QED
    BY <2>1 DEF Session, SameCore
<1>7. Good(s3)
  BY <1>2, <1>3 DEF Session, SameCore
<1>8. Good(s4)
  <2>1. [i \in Gen |-> IF i = "new" THEN slot ELSE s.rx["new"]] \in Slots
    BY <1>1, <1>3 DEF Slots, Gen
  <2> QED
    BY <2>1 DEF Session, SameCore
<1> HIDE DEF s1, s2, s3, s4
<1> QED
  BY <1>4, <1>5, <1>6, <1>7, <1>8

-----------------------------------------------------------------------------
(* The inductive invariant                                                 *)

\* A root key belongs to one session, and under it, until its epoch
\* wraps, no nonce is sealed that is not below the session's epoch and sequence
StoreInv ==
    /\ \A p \in Peer : sessions[p].root <= roots
    /\ \A p \in Peer : sessions[p].root = 0 => sessions[p] = NoSession
    /\ \A p, q \in Peer : sessions[p].root = sessions[q].root /\ sessions[p].root # 0 => p = q
    /\ \A n \in sealed : n[1] > 0 /\ n[1] <= roots
    /\ \A p \in Peer, n \in sealed :
          n[1] = sessions[p].root /\ n[1] \notin wrapped =>
             \/ n[2] < sessions[p].next
             \/ n[2] = sessions[p].next /\ n[3] < sessions[p].seq

\* The connections are counted by the sessions of their peers
AttInv ==
    /\ \A p \in Peer : sessions[p].att = Cardinality(Attachments(p))
    /\ \A c \in Conn : phase[c] \in Attached => peerOf[c] \in Peer

\* A connection was authenticated with the key its session has recorded
KeyInv ==
    \A c \in Conn :
        phase[c] = "auth" => keyOf[c] \in StaticKey /\ sessions[peerOf[c]].pin = keyOf[c]

IInv == TypeOK /\ StoreInv /\ AttInv /\ KeyInv

-----------------------------------------------------------------------------
(* Consequences                                                            *)

\* A session has finitely many connections.
LEMMA AttachmentsFinite ==
    ASSUME NEW p \in Peer
    PROVE  IsFiniteSet(Attachments(p)) /\ Attachments(p) \subseteq Conn
<1>1. Attachments(p) \subseteq Conn
  BY DEF Attachments
<1> QED
  BY <1>1, SessionAssumption, FS_Subset

\* The session of an attached connection is in the store and will be kept
LEMMA AttachedSession ==
    ASSUME IInv, NEW c \in Conn, phase[c] \in Attached
    PROVE  /\ peerOf[c] \in Peer
           /\ sessions[peerOf[c]].att > 0
           /\ sessions[peerOf[c]].root # 0
           /\ sessions[peerOf[c]] # NoSession
           /\ peerOf[c] \in Kept
<1> DEFINE p == peerOf[c]
<1>1. p \in Peer /\ c \in Attachments(p)
  BY DEF IInv, AttInv, Attachments
<1> HIDE DEF p
<1>2. Cardinality(Attachments(p)) # 0 /\ Cardinality(Attachments(p)) \in Nat
  BY <1>1, AttachmentsFinite, FS_EmptySet, FS_CardinalityType
<1>3. sessions[p].att > 0
  BY <1>1, <1>2 DEF IInv, AttInv
<1>4. NoSession.att = 0
  BY DEF NoSession
<1>5. sessions[p] # NoSession
  BY <1>3, <1>4
<1>6. sessions[p].root # 0
  BY <1>1, <1>5 DEF IInv, StoreInv
<1> QED
  BY <1>1, <1>3, <1>5, <1>6 DEF Kept, p

\* A session that is not kept has no connections
LEMMA UnkeptUnattached ==
    ASSUME IInv, NEW p \in Peer, p \notin Kept
    PROVE  sessions[p].att = 0 /\ Attachments(p) = {}
<1>1. \A c \in Conn : ~(phase[c] \in Attached /\ peerOf[c] = p)
  BY AttachedSession
<1>2. Attachments(p) = {}
  BY <1>1 DEF Attachments
<1> QED
  BY <1>2, FS_EmptySet DEF IInv, AttInv

-----------------------------------------------------------------------------
(* What steps do to the parts of the invariant                             *)

\* Sessions are dropped, or keep their root key and do not go back
LEMMA StoreKeeps ==
    ASSUME IInv, TypeOK', roots' = roots, sealed' = sealed, wrapped \subseteq wrapped',
           \A p \in Peer :
              \/ sessions'[p] = NoSession
              \/ /\ sessions[p].root # 0
                 /\ sessions'[p].root = sessions[p].root
                 /\ \/ sessions'[p].root \in wrapped'
                    \/ sessions'[p].next > sessions[p].next
                    \/ sessions'[p].next = sessions[p].next /\ sessions'[p].seq = sessions[p].seq
    PROVE  StoreInv'
<1>1. NoSession.root = 0
  BY DEF NoSession
<1>2. \A p \in Peer : /\ sessions[p].root \in Nat /\ sessions[p].next \in Nat /\ sessions[p].seq \in Nat
                      /\ sessions'[p].root \in Nat /\ sessions'[p].next \in Nat /\ sessions'[p].seq \in Nat
  BY ZeroEpoch DEF IInv, TypeOK, Session
<1>3. roots \in Nat /\ \A n \in sealed : n[1] \in Nat /\ n[2] \in Nat /\ n[3] \in Nat
  BY DEF IInv, TypeOK
<1>4. \A p \in Peer : sessions'[p].root <= roots
  BY <1>1, <1>2, <1>3 DEF IInv, StoreInv
<1>5. \A p \in Peer : sessions'[p].root = 0 => sessions'[p] = NoSession
  OBVIOUS
<1>6. \A p, q \in Peer : sessions'[p].root = sessions'[q].root /\ sessions'[p].root # 0 => p = q
  BY <1>1 DEF IInv, StoreInv
<1>7. \A n \in sealed : n[1] > 0 /\ n[1] <= roots
  BY DEF IInv, StoreInv
<1>8. ASSUME NEW p \in Peer, NEW n \in sealed, n[1] = sessions'[p].root, n[1] \notin wrapped'
      PROVE  \/ n[2] < sessions'[p].next
             \/ n[2] = sessions'[p].next /\ n[3] < sessions'[p].seq
  <2>1. sessions'[p].root # 0
    BY <1>3, <1>7, <1>8
  <2>2. sessions'[p].root = sessions[p].root
    BY <1>1, <2>1
  <2>3. \/ n[2] < sessions[p].next
        \/ n[2] = sessions[p].next /\ n[3] < sessions[p].seq
    BY <1>8, <2>2 DEF IInv, StoreInv
  <2>4. \/ sessions'[p].next > sessions[p].next
        \/ sessions'[p].next = sessions[p].next /\ sessions'[p].seq = sessions[p].seq
    BY <1>1, <1>8, <2>1
  <2> QED
    BY <1>2, <1>3, <2>3, <2>4
<1> QED
  BY <1>4, <1>5, <1>6, <1>7, <1>8 DEF StoreInv

\* The connections stay attached as they are
LEMMA AttKeeps ==
    ASSUME IInv, peerOf' = peerOf,
           \A c \in Conn : phase'[c] \in Attached <=> phase[c] \in Attached,
           \A p \in Peer : sessions'[p].att = sessions[p].att
    PROVE  AttInv'
<1>1. \A p \in Peer : Attachments(p)' = Attachments(p)
  BY DEF Attachments
<1> QED
  BY <1>1 DEF IInv, AttInv

\* No session loses the key it has recorded
LEMMA KeyKeeps ==
    ASSUME IInv,
           \A c \in Conn : phase'[c] = "auth" =>
               phase[c] = "auth" /\ keyOf'[c] = keyOf[c] /\ peerOf'[c] = peerOf[c],
           \A c \in Conn : phase'[c] = "auth" /\ phase[c] = "auth" =>
               sessions'[peerOf[c]].pin = sessions[peerOf[c]].pin
    PROVE  KeyInv'
BY DEF IInv, KeyInv

\* One connection is freed
LEMMA FreeStep ==
    ASSUME IInv, NEW c \in Conn, phase[c] \in Attached,
           NEW s \in Session, SameCore(sessions[peerOf[c]], s), s.att = sessions[peerOf[c]].att,
           Free(c, s), UNCHANGED <<peerOf, keyOf, offer, clientRoot, waiting, roots, sealed, wrapped>>
    PROVE  IInv'
<1>p. PICK p \in Peer : p = peerOf[c]
  BY AttachedSession
<1>1. p \in Peer /\ sessions[p].att > 0 /\ sessions[p].root # 0
  BY <1>p, AttachedSession
<1>2. Detached(s) \in Session /\ SameCore(s, Detached(s)) /\ Detached(s).att = sessions[p].att - 1
  BY <1>p, <1>1, DetachedType
<1>3. sessions' = [sessions EXCEPT ![p] = Detached(s)] /\ phase' = [phase EXCEPT ![c] = "closed"]
  BY <1>p DEF Free
<1>4. sessions \in [Peer -> Session] /\ phase \in [Conn -> {"none", "msg3", "auth", "closed"}]
  BY DEF IInv, TypeOK
<1>5. TypeOK'
  <2>1. sessions' \in [Peer -> Session] /\ phase' \in [Conn -> {"none", "msg3", "auth", "closed"}]
    BY <1>1, <1>2, <1>3, <1>4
  <2> QED
    BY <2>1 DEF IInv, TypeOK
<1>6. SameCore(sessions[p], sessions'[p]) /\ sessions'[p].att = sessions[p].att - 1
  BY <1>p, <1>1, <1>2, <1>3, <1>4 DEF SameCore
<1>7. \A q \in Peer : q # p => sessions'[q] = sessions[q]
  BY <1>3, <1>4
<1>8. StoreInv'
  <2>1. ASSUME NEW q \in Peer
        PROVE  \/ sessions'[q] = NoSession
               \/ /\ sessions[q].root # 0
                  /\ sessions'[q].root = sessions[q].root
                  /\ \/ sessions'[q].root \in wrapped'
                     \/ sessions'[q].next > sessions[q].next
                     \/ sessions'[q].next = sessions[q].next /\ sessions'[q].seq = sessions[q].seq
    BY <1>1, <1>6, <1>7 DEF SameCore, IInv, StoreInv
  <2> QED
    BY <1>5, <2>1, StoreKeeps
<1>9. AttInv'
  <2>1. c \in Attachments(p) /\ Attachments(p)' = Attachments(p) \ {c}
    BY <1>p, <1>3, <1>4 DEF Attachments
  <2>2. \A q \in Peer : q # p => Attachments(q)' = Attachments(q)
    BY <1>p, <1>3, <1>4 DEF Attachments
  <2>3. Cardinality(Attachments(p) \ {c}) = Cardinality(Attachments(p)) - 1
    BY <1>1, <2>1, AttachmentsFinite, FS_RemoveElement
  <2>4. ASSUME NEW q \in Peer PROVE sessions'[q].att = Cardinality(Attachments(q)')
    <3>1. \A r \in Peer : sessions[r].att = Cardinality(Attachments(r))
      BY DEF IInv, AttInv
    <3>2. sessions'[p].att = Cardinality(Attachments(p)')
      BY <1>1, <1>6, <2>1, <2>3, <3>1
    <3>3. CASE q = p
      BY <3>2, <3>3
    <3>4. CASE q # p
      <4>1. Attachments(q)' = Attachments(q) /\ sessions'[q] = sessions[q]
        BY <1>7, <2>2, <3>4
      <4> QED
        BY <3>1, <4>1
    <3> QED
      BY <3>3, <3>4
  <2>5. \A d \in Conn : phase'[d] \in Attached => peerOf'[d] \in Peer
    BY <1>3, <1>4 DEF IInv, AttInv
  <2> QED
    BY <2>4, <2>5 DEF AttInv
<1>10. KeyInv'
  <2>1. \A d \in Conn : phase'[d] = "auth" =>
           phase[d] = "auth" /\ keyOf'[d] = keyOf[d] /\ peerOf'[d] = peerOf[d]
    BY <1>3, <1>4
  <2>2. \A d \in Conn : phase[d] = "auth" => sessions'[peerOf[d]].pin = sessions[peerOf[d]].pin
    BY <1>6, <1>7, AttachedSession DEF SameCore
  <2> QED
    BY <2>1, <2>2, KeyKeeps
<1> QED
  BY <1>5, <1>8, <1>9, <1>10 DEF IInv
\* The session of one peer is read or written and keeps its core
LEMMA UpdateStep ==
    ASSUME IInv, NEW p \in Peer, sessions[p].root # 0,
           NEW t \in Session, SameCore(sessions[p], t), t.att = sessions[p].att,
           sessions' = [sessions EXCEPT ![p] = t],
           UNCHANGED <<phase, peerOf, keyOf, offer, clientRoot, waiting, roots, sealed, wrapped>>
    PROVE  IInv'
<1>1. sessions \in [Peer -> Session]
  BY DEF IInv, TypeOK
<1>2. TypeOK'
  <2>1. sessions' \in [Peer -> Session]
    BY <1>1
  <2> QED
    BY <2>1 DEF IInv, TypeOK
<1>3. sessions'[p] = t /\ \A q \in Peer : q # p => sessions'[q] = sessions[q]
  BY <1>1
<1>4. StoreInv'
  <2>1. ASSUME NEW q \in Peer
        PROVE  \/ sessions'[q] = NoSession
               \/ /\ sessions[q].root # 0
                  /\ sessions'[q].root = sessions[q].root
                  /\ \/ sessions'[q].root \in wrapped'
                     \/ sessions'[q].next > sessions[q].next
                     \/ sessions'[q].next = sessions[q].next /\ sessions'[q].seq = sessions[q].seq
    BY <1>3 DEF SameCore, IInv, StoreInv
  <2> QED
    BY <1>2, <2>1, StoreKeeps
<1>5. AttInv'
  <2>1. \A q \in Peer : sessions'[q].att = sessions[q].att
    BY <1>3
  <2> QED
    BY <2>1, AttKeeps
<1>6. KeyInv'
  <2>1. \A c \in Conn : phase[c] = "auth" => sessions'[peerOf[c]].pin = sessions[peerOf[c]].pin
    BY <1>3, AttachedSession DEF SameCore
  <2> QED
    BY <2>1, KeyKeeps
<1> QED
  BY <1>2, <1>4, <1>5, <1>6 DEF IInv

\* Message 2 is built for a session s of p that counts the connections of p
LEMMA BuildStep ==
    ASSUME IInv, NEW c \in Conn, NEW p \in Peer, NEW s \in Session, NEW root \in Nat,
           BuildMsg2(c, p, s, root), roots' \in Nat, wrapped' \subseteq Nat,
           s.att = sessions[p].att,
           Attachments(p) # {} => s.pin = sessions[p].pin
    PROVE  /\ TypeOK' /\ AttInv' /\ KeyInv'
           /\ sealed' = sealed
           /\ SameCore(s, sessions'[p])
           /\ \A q \in Peer : q # p =>
                 sessions'[q] = NoSession \/ (q \in Kept /\ sessions'[q] = sessions[q])
<1>1. /\ sessions \in [Peer -> Session] /\ phase \in [Conn -> {"none", "msg3", "auth", "closed"}]
      /\ peerOf \in [Conn -> Peer \cup {NoPeer}] /\ offer \in [Conn -> Nat]
      /\ waiting \in [Peer -> Conn \cup {NoConn}]
  BY DEF IInv, TypeOK
<1>2. /\ phase[c] = "none"
      /\ peerOf' = [peerOf EXCEPT ![c] = p]
      /\ offer' = [offer EXCEPT ![c] = root]
      /\ waiting' = [waiting EXCEPT ![p] = c]
      /\ UNCHANGED <<keyOf, clientRoot, sealed>>
  BY DEF BuildMsg2
<1>3. PICK t \in Session, ph \in {"msg3", "closed"} :
         /\ SameCore(s, t)
         /\ t.att = IF ph = "msg3" THEN s.att + 1 ELSE s.att
         /\ phase' = [phase EXCEPT ![c] = ph]
         /\ sessions' = Upserted(p, t)
  <2>1. Touch(s) \in Session /\ SameCore(s, Touch(s)) /\ Touch(s).att = s.att /\ s.att \in Nat
    BY TouchType DEF Session
  <2>2. /\ [Touch(s) EXCEPT !.att = @ + 1] \in Session
        /\ SameCore(s, [Touch(s) EXCEPT !.att = @ + 1])
        /\ [Touch(s) EXCEPT !.att = @ + 1].att = s.att + 1
    BY <2>1 DEF Session, SameCore
  <2>3. \/ /\ phase' = [phase EXCEPT ![c] = "msg3"]
           /\ sessions' = Upserted(p, [Touch(s) EXCEPT !.att = @ + 1])
        \/ /\ phase' = [phase EXCEPT ![c] = "closed"]
           /\ sessions' = Upserted(p, Touch(s))
    BY DEF BuildMsg2
  <2> DEFINE t1 == [Touch(s) EXCEPT !.att = @ + 1]
             t2 == Touch(s)
  <2>4. CASE phase' = [phase EXCEPT ![c] = "msg3"] /\ sessions' = Upserted(p, t1)
    <3> HIDE DEF t1
    <3>1. t1 \in Session /\ SameCore(s, t1) /\ t1.att = s.att + 1
      BY <2>2 DEF t1
    <3> QED
      BY <2>4, <3>1
  <2>5. CASE phase' = [phase EXCEPT ![c] = "closed"] /\ sessions' = Upserted(p, t2)
    <3> HIDE DEF t2
    <3>1. t2 \in Session /\ SameCore(s, t2) /\ t2.att = s.att
      BY <2>1 DEF t2
    <3> QED
      BY <2>5, <3>1
  <2> QED
    BY <2>3, <2>4, <2>5
<1>4. /\ sessions'[p] = t
      /\ \A q \in Peer : q # p =>
            sessions'[q] = IF q \in Kept THEN sessions[q] ELSE NoSession
  BY <1>3 DEF Upserted
<1>5. TypeOK'
  <2>1. sessions' \in [Peer -> Session]
    BY <1>1, <1>3, NoSessionType DEF Upserted
  <2>2. phase' \in [Conn -> {"none", "msg3", "auth", "closed"}]
    BY <1>1, <1>3
  <2>3. peerOf' \in [Conn -> Peer \cup {NoPeer}] /\ offer' \in [Conn -> Nat]
        /\ waiting' \in [Peer -> Conn \cup {NoConn}]
    BY <1>1, <1>2
  <2> QED
    BY <1>2, <2>1, <2>2, <2>3 DEF IInv, TypeOK
<1>6. /\ phase'[c] = ph /\ peerOf'[c] = p
      /\ \A d \in Conn : d # c => phase'[d] = phase[d] /\ peerOf'[d] = peerOf[d]
  BY <1>1, <1>2, <1>3
<1>7. AttInv'
  <2>1. c \notin Attachments(p)
    BY <1>2 DEF Attachments
  <2>2. Attachments(p)' = IF ph = "msg3" THEN Attachments(p) \cup {c} ELSE Attachments(p)
    BY <1>2, <1>6 DEF Attachments
  <2>3. \A q \in Peer : q # p => Attachments(q)' = Attachments(q)
    BY <1>2, <1>6 DEF Attachments
  <2>4. Cardinality(Attachments(p) \cup {c}) = Cardinality(Attachments(p)) + 1
    BY <2>1, AttachmentsFinite, FS_AddElement
  <2>5. \A q \in Peer : sessions[q].att = Cardinality(Attachments(q))
    BY DEF IInv, AttInv
  <2>6. ASSUME NEW q \in Peer PROVE sessions'[q].att = Cardinality(Attachments(q)')
    <3>1. CASE q = p
      BY <1>3, <1>4, <2>2, <2>4, <2>5, <3>1
    <3>2. CASE q # p /\ q \in Kept
      BY <1>4, <2>3, <2>5, <3>2
    <3>3. CASE q # p /\ q \notin Kept
      <4>1. Attachments(q)' = {}
        BY <2>3, <3>3, UnkeptUnattached
      <4>2. sessions'[q].att = 0
        BY <1>4, <3>3 DEF NoSession
      <4> QED
        BY <4>1, <4>2, FS_EmptySet
    <3> QED
      BY <3>1, <3>2, <3>3
  <2>7. \A d \in Conn : phase'[d] \in Attached => peerOf'[d] \in Peer
    BY <1>6 DEF IInv, AttInv
  <2> QED
    BY <2>6, <2>7 DEF AttInv
<1>8. KeyInv'
  <2>1. \A d \in Conn : phase'[d] = "auth" =>
           phase[d] = "auth" /\ keyOf'[d] = keyOf[d] /\ peerOf'[d] = peerOf[d]
    BY <1>2, <1>3, <1>6
  <2>2. ASSUME NEW d \in Conn, phase[d] = "auth"
        PROVE  sessions'[peerOf[d]].pin = sessions[peerOf[d]].pin
    <3>1. peerOf[d] \in Peer /\ peerOf[d] \in Kept
      BY <2>2, AttachedSession
    <3>2. CASE peerOf[d] = p
      <4>1. d \in Attachments(p)
        BY <2>2, <3>2 DEF Attachments
      <4> QED
        BY <1>3, <1>4, <3>2, <4>1 DEF SameCore
    <3>3. CASE peerOf[d] # p
      BY <1>4, <3>1, <3>3
    <3> QED
      BY <3>2, <3>3
  <2> QED
    BY <2>1, <2>2, KeyKeeps
<1> QED
  BY <1>2, <1>3, <1>4, <1>5, <1>7, <1>8
-----------------------------------------------------------------------------
(* The actions                                                             *)

\* Create draws a root key that no session and no sealed packet has.
LEMMA CreateStep ==
    ASSUME IInv, NEW c \in Conn, NEW p \in Peer, Create(c, p)
    PROVE  IInv'
<1> DEFINE s == [NoSession EXCEPT !.root = roots + 1]
<1>1. roots \in Nat /\ roots' = roots + 1 /\ p \notin Kept /\ wrapped' = wrapped
  BY DEF Create, IInv, TypeOK
<1>2. s \in Session /\ s.root = roots + 1 /\ s.att = 0
  <2>1. ASSUME NEW t \in Session, NEW r \in Nat
        PROVE  /\ [t EXCEPT !.root = r] \in Session
               /\ [t EXCEPT !.root = r].root = r /\ [t EXCEPT !.root = r].att = t.att
    BY DEF Session
  <2>2. NoSession.att = 0
    BY DEF NoSession
  <2>3. roots + 1 \in Nat
    BY <1>1
  <2> QED
    BY <2>1, <2>2, <2>3, NoSessionType
<1>3. BuildMsg2(c, p, s, roots + 1)
  BY DEF Create
<1>4. sessions[p].att = 0 /\ Attachments(p) = {}
  BY <1>1, UnkeptUnattached
<1> HIDE DEF s
<1>5. /\ TypeOK' /\ AttInv' /\ KeyInv'
      /\ sealed' = sealed
      /\ SameCore(s, sessions'[p])
      /\ \A q \in Peer : q # p =>
            sessions'[q] = NoSession \/ (q \in Kept /\ sessions'[q] = sessions[q])
  <2>1. wrapped' \subseteq Nat
    BY <1>1 DEF IInv, TypeOK
  <2> QED
    BY <1>1, <1>2, <1>3, <1>4, <2>1, BuildStep
<1>6. StoreInv'
  <2>1. sessions'[p].root = roots + 1
    BY <1>2, <1>5 DEF SameCore
  <2>2. NoSession.root = 0
    BY DEF NoSession
  <2>3. \A q \in Peer : sessions[q].root \in Nat /\ sessions[q].root <= roots
    BY DEF IInv, TypeOK, Session, StoreInv
  <2>4. \A q \in Peer : q # p => \/ sessions'[q] = NoSession
                                \/ sessions'[q] = sessions[q]
    BY <1>5
  <2>5. \A n \in sealed : n[1] \in Nat /\ n[1] > 0 /\ n[1] <= roots
    BY DEF IInv, TypeOK, StoreInv
  <2>6. \A q \in Peer : sessions'[q].root <= roots'
    BY <1>1, <2>1, <2>2, <2>3, <2>4
  <2>7. \A q \in Peer : sessions'[q].root = 0 => sessions'[q] = NoSession
    BY <1>1, <2>1, <2>4 DEF IInv, StoreInv
  <2>8. ASSUME NEW q \in Peer, NEW r \in Peer,
               sessions'[q].root = sessions'[r].root, sessions'[q].root # 0
        PROVE  q = r
    <3>1. \A x \in Peer : x # p => sessions'[x].root # roots + 1
      BY <1>1, <2>2, <2>3, <2>4
    <3>2. CASE q = p \/ r = p
      BY <2>1, <2>8, <3>1, <3>2
    <3>3. CASE q # p /\ r # p
      BY <2>2, <2>4, <2>8, <3>3 DEF IInv, StoreInv
    <3> QED
      BY <3>2, <3>3
  <2>9. \A n \in sealed' : n[1] > 0 /\ n[1] <= roots'
    BY <1>1, <1>5, <2>5
  <2>10. ASSUME NEW q \in Peer, NEW n \in sealed, n[1] = sessions'[q].root, n[1] \notin wrapped'
         PROVE  \/ n[2] < sessions'[q].next
                \/ n[2] = sessions'[q].next /\ n[3] < sessions'[q].seq
    <3>1. n[1] # roots + 1 /\ n[1] # 0
      BY <1>1, <2>5
    <3>2. q # p /\ sessions'[q] = sessions[q]
      BY <2>1, <2>2, <2>4, <2>10, <3>1
    <3> QED
      BY <1>1, <2>10, <3>2 DEF IInv, StoreInv
  <2> QED
    BY <1>5, <2>6, <2>7, <2>8, <2>9, <2>10 DEF StoreInv
<1> QED
  BY <1>5, <1>6 DEF IInv

\* Join and Sync: message 2 for the session there is, or for its next epoch
LEMMA ReuseStep ==
    ASSUME IInv, NEW c \in Conn, NEW p \in Peer, p \in Kept, NEW root \in Nat,
           NEW s, \/ s = sessions[p] /\ wrapped' = wrapped
                  \/ s = Synced(sessions[p]) /\ NoteEpoch(sessions[p].root, SyncEpoch(sessions[p])),
           BuildMsg2(c, p, s, root), roots' = roots
    PROVE  IInv'
<1>1. sessions[p] \in Session /\ roots \in Nat /\ sessions[p] # NoSession
  BY DEF IInv, TypeOK, Kept
<1>2. sessions[p].root # 0
  BY <1>1 DEF IInv, StoreInv
<1>3. /\ s \in Session /\ s.root = sessions[p].root
      /\ s.pin = sessions[p].pin /\ s.att = sessions[p].att
      /\ \/ s.root \in wrapped'
         \/ s.next > sessions[p].next
         \/ s.next = sessions[p].next /\ s.seq = sessions[p].seq
      /\ wrapped \subseteq wrapped' /\ wrapped' \subseteq Nat
  <2>1. wrapped \subseteq Nat /\ sessions[p].root \in Nat
    BY <1>1 DEF IInv, TypeOK, Session
  <2> QED
    BY <1>1, <2>1, SyncedType DEF NoteEpoch
<1>4. /\ TypeOK' /\ AttInv' /\ KeyInv'
      /\ sealed' = sealed
      /\ SameCore(s, sessions'[p])
      /\ \A q \in Peer : q # p =>
            sessions'[q] = NoSession \/ (q \in Kept /\ sessions'[q] = sessions[q])
  BY <1>1, <1>3, BuildStep
<1>5. ASSUME NEW q \in Peer
      PROVE  \/ sessions'[q] = NoSession
             \/ /\ sessions[q].root # 0
                /\ sessions'[q].root = sessions[q].root
                /\ \/ sessions'[q].root \in wrapped'
                   \/ sessions'[q].next > sessions[q].next
                   \/ sessions'[q].next = sessions[q].next /\ sessions'[q].seq = sessions[q].seq
  <2>1. CASE q = p
    BY <1>2, <1>3, <1>4, <2>1 DEF SameCore
  <2>2. CASE q # p
    BY <1>4, <2>2 DEF IInv, StoreInv
  <2> QED
    BY <2>1, <2>2
<1>6. StoreInv'
  BY <1>3, <1>4, <1>5, StoreKeeps
<1> QED
  BY <1>4, <1>6 DEF IInv

\* A refusal only drops sessions that no connection uses.
LEMMA RefuseStep ==
    ASSUME IInv, NEW c \in Conn, NEW p \in Peer, Refuse(c, p)
    PROVE  IInv'
<1>1. /\ sessions \in [Peer -> Session] /\ phase \in [Conn -> {"none", "msg3", "auth", "closed"}]
      /\ phase[c] = "none" /\ phase' = [phase EXCEPT ![c] = "closed"]
      /\ sessions' = [q \in Peer |-> IF q \in Kept THEN sessions[q] ELSE NoSession]
      /\ UNCHANGED <<peerOf, keyOf, offer, clientRoot, waiting, roots, sealed, wrapped>>
  BY DEF IInv, TypeOK, Refuse
<1>2. TypeOK'
  <2>1. sessions' \in [Peer -> Session] /\ phase' \in [Conn -> {"none", "msg3", "auth", "closed"}]
    BY <1>1, NoSessionType
  <2> QED
    BY <1>1, <2>1 DEF IInv, TypeOK
<1>3. StoreInv'
  <2>1. ASSUME NEW q \in Peer
        PROVE  \/ sessions'[q] = NoSession
               \/ /\ sessions[q].root # 0
                  /\ sessions'[q].root = sessions[q].root
                  /\ \/ sessions'[q].root \in wrapped'
                     \/ sessions'[q].next > sessions[q].next
                     \/ sessions'[q].next = sessions[q].next /\ sessions'[q].seq = sessions[q].seq
    BY <1>1 DEF IInv, StoreInv
  <2> QED
    BY <1>1, <1>2, <2>1, StoreKeeps
<1>4. AttInv'
  <2>1. \A q \in Peer : sessions'[q].att = sessions[q].att
    BY <1>1, UnkeptUnattached DEF NoSession
  <2>2. \A d \in Conn : phase'[d] \in Attached <=> phase[d] \in Attached
    BY <1>1
  <2> QED
    BY <1>1, <2>1, <2>2, AttKeeps
<1>5. KeyInv'
  <2>1. \A d \in Conn : phase'[d] = "auth" =>
           phase[d] = "auth" /\ keyOf'[d] = keyOf[d] /\ peerOf'[d] = peerOf[d]
    BY <1>1
  <2>2. \A d \in Conn : phase[d] = "auth" => sessions'[peerOf[d]].pin = sessions[peerOf[d]].pin
    BY <1>1, AttachedSession
  <2> QED
    BY <2>1, <2>2, KeyKeeps
<1> QED
  BY <1>2, <1>3, <1>4, <1>5 DEF IInv

\* Closing a connection gives up its attachment.
LEMMA CloseStep ==
    ASSUME IInv, NEW c \in Conn, Close(c)
    PROVE  IInv'
<1>1. phase[c] \in Attached /\ Free(c, sessions[peerOf[c]])
      /\ UNCHANGED <<peerOf, keyOf, offer, clientRoot, waiting, roots, sealed, wrapped>>
  BY DEF Close
<1>2. sessions[peerOf[c]] \in Session
  BY <1>1, AttachedSession DEF IInv, TypeOK
<1> QED
  BY <1>1, <1>2, FreeStep DEF SameCore

\* finish_msg3 records the static key, or frees the connection.
LEMMA FinishStep ==
    ASSUME IInv, NEW c \in Conn, NEW k \in StaticKey, FinishMsg3(c, k)
    PROVE  IInv'
<1>1. /\ phase[c] = "msg3"
      /\ UNCHANGED <<peerOf, offer, clientRoot, waiting, roots, sealed, wrapped>>
  BY DEF FinishMsg3
<1>p. PICK p \in Peer : p = peerOf[c]
  BY <1>1, AttachedSession
<1>2. sessions \in [Peer -> Session] /\ sessions[p].root # 0 /\ sessions[p] \in Session
  BY <1>1, <1>p, AttachedSession DEF IInv, TypeOK
<1>3. CASE ~Confirms(sessions[p], k)
  <2>1. Free(c, sessions[p]) /\ keyOf' = keyOf
    BY <1>p, <1>3 DEF FinishMsg3
  <2> QED
    BY <1>1, <1>p, <1>2, <2>1, FreeStep DEF SameCore
<1>4. CASE Confirms(sessions[p], k)
  <2> DEFINE t == [Touch(sessions[p]) EXCEPT !.pin = k]
  <2>1. /\ phase' = [phase EXCEPT ![c] = "auth"]
        /\ keyOf' = [keyOf EXCEPT ![c] = k]
        /\ sessions' = [sessions EXCEPT ![p] = t]
    BY <1>p, <1>4 DEF FinishMsg3
  <2>2. /\ t \in Session /\ t.pin = k /\ t.att = sessions[p].att
        /\ t.root = sessions[p].root /\ t.next = sessions[p].next /\ t.seq = sessions[p].seq
    BY <1>2, TouchType DEF Session, SameCore
  <2> HIDE DEF t
  <2>3. phase \in [Conn -> {"none", "msg3", "auth", "closed"}]
        /\ keyOf \in [Conn -> StaticKey \cup {NoKey}]
    BY DEF IInv, TypeOK
  <2>4. TypeOK'
    <3>1. /\ sessions' \in [Peer -> Session] /\ phase' \in [Conn -> {"none", "msg3", "auth", "closed"}]
          /\ keyOf' \in [Conn -> StaticKey \cup {NoKey}]
      BY <1>2, <2>1, <2>2, <2>3
    <3> QED
      BY <1>1, <3>1 DEF IInv, TypeOK
  <2>5. sessions'[p] = t /\ \A q \in Peer : q # p => sessions'[q] = sessions[q]
    BY <1>2, <2>1
  <2>6. StoreInv'
    <3>1. ASSUME NEW q \in Peer
          PROVE  \/ sessions'[q] = NoSession
                 \/ /\ sessions[q].root # 0
                    /\ sessions'[q].root = sessions[q].root
                    /\ \/ sessions'[q].root \in wrapped'
                       \/ sessions'[q].next > sessions[q].next
                       \/ sessions'[q].next = sessions[q].next /\ sessions'[q].seq = sessions[q].seq
      BY <1>2, <2>2, <2>5 DEF IInv, StoreInv
    <3> QED
      BY <1>1, <2>4, <3>1, StoreKeeps
  <2>7. AttInv'
    <3>1. \A q \in Peer : sessions'[q].att = sessions[q].att
      BY <2>2, <2>5
    <3>2. \A d \in Conn : phase'[d] \in Attached <=> phase[d] \in Attached
      BY <1>1, <2>1, <2>3
    <3> QED
      BY <1>1, <3>1, <3>2, AttKeeps
  <2>8. KeyInv'
    <3>1. ASSUME NEW d \in Conn, phase'[d] = "auth"
          PROVE  keyOf'[d] \in StaticKey /\ sessions'[peerOf'[d]].pin = keyOf'[d]
      <4>1. CASE d = c
        BY <1>1, <1>p, <2>1, <2>2, <2>3, <2>5, <4>1
      <4>2. CASE d # c
        <5>1. phase[d] = "auth" /\ keyOf'[d] = keyOf[d] /\ peerOf'[d] = peerOf[d]
          BY <1>1, <2>1, <2>3, <3>1, <4>2
        <5>2. keyOf[d] \in StaticKey /\ sessions[peerOf[d]].pin = keyOf[d] /\ peerOf[d] \in Peer
          BY <5>1, AttachedSession DEF IInv, KeyInv
        <5>3. CASE peerOf[d] = p
          BY <1>4, <2>2, <2>5, <5>1, <5>2, <5>3, SessionAssumption DEF Confirms
        <5>4. CASE peerOf[d] # p
          BY <2>5, <5>1, <5>2, <5>4
        <5> QED
          BY <5>3, <5>4
      <4> QED
        BY <4>1, <4>2
    <3> QED
      BY <3>1 DEF KeyInv
  <2> QED
    BY <2>4, <2>6, <2>7, <2>8 DEF IInv
<1> QED
  BY <1>3, <1>4

\* A sealed packet moves the session past the nonce it used
LEMMA EncryptStep ==
    ASSUME IInv, NEW c \in Conn, NEW rotate \in BOOLEAN, EncryptPacket(c, rotate)
    PROVE  IInv'
<1>1. /\ phase[c] = "auth"
      /\ UNCHANGED <<phase, peerOf, keyOf, offer, clientRoot, waiting, roots>>
  BY DEF EncryptPacket
<1>p. PICK p \in Peer : p = peerOf[c]
  BY <1>1, AttachedSession
<1> DEFINE s == sessions[p]
           e == IF rotate THEN NextEpoch(s.next) ELSE s.next
           t == [Touch(s) EXCEPT !.next = e, !.seq = @ + 1]
<1>2. /\ sessions \in [Peer -> Session] /\ s.root # 0 /\ s \in Session
      /\ s.next \in Epoch /\ s.next \in Nat /\ s.seq \in Nat /\ s.root \in Nat
  BY <1>1, <1>p, AttachedSession, ZeroEpoch DEF IInv, TypeOK, Session
<1>3. /\ sealed' = sealed \cup {<<s.root, e, s.seq>>}
      /\ sessions' = [sessions EXCEPT ![p] = t]
  BY <1>p DEF EncryptPacket, SendEpoch
<1>4. /\ e \in Epoch /\ e \in Nat
      /\ s.root \in wrapped' \/ e >= s.next
      /\ wrapped \subseteq wrapped' /\ wrapped' \subseteq Nat
  <2>1. IF rotate THEN NoteEpoch(s.root, s.next) ELSE UNCHANGED wrapped
    BY <1>p DEF EncryptPacket
  <2>2. NextEpoch(s.next) \in Epoch /\ (s.next + 1 # EpochCount => NextEpoch(s.next) = s.next + 1)
    BY <1>2, NextEpochFacts
  <2>3. wrapped \subseteq Nat
    BY DEF IInv, TypeOK
  <2> HIDE DEF s
  <2>4. CASE rotate
    <3>1. e = NextEpoch(s.next) /\ NoteEpoch(s.root, s.next)
      BY <2>1, <2>4
    <3> HIDE DEF e
    <3>2. e \in Epoch /\ e \in Nat
      BY <2>2, <3>1, ZeroEpoch
    <3>3. CASE s.next + 1 = EpochCount
      BY <1>2, <2>3, <3>1, <3>2, <3>3 DEF NoteEpoch
    <3>4. CASE s.next + 1 # EpochCount
      <4>1. e >= s.next
        BY <1>2, <2>2, <3>1, <3>4
      <4> QED
        BY <2>3, <3>1, <3>2, <3>4, <4>1 DEF NoteEpoch
    <3> QED
      BY <3>3, <3>4
  <2>5. CASE ~rotate
    <3>1. e = s.next /\ wrapped' = wrapped
      BY <2>1, <2>5
    <3> QED
      BY <1>2, <2>3, <3>1
  <2> QED
    BY <2>4, <2>5
<1> HIDE DEF e
<1>5. /\ t \in Session /\ t.next = e /\ t.seq = s.seq + 1
      /\ t.root = s.root /\ t.pin = s.pin /\ t.att = s.att
  <2>1. Touch(s) \in Session /\ SameCore(s, Touch(s)) /\ Touch(s).att = s.att
    BY <1>2, TouchType
  <2>2. s.seq + 1 \in Nat /\ Touch(s).seq = s.seq
    BY <1>2, <2>1 DEF SameCore
  <2> QED
    BY <1>4, <2>1, <2>2 DEF Session, SameCore
<1> HIDE DEF t, s
<1>6. sessions'[p] = t /\ \A q \in Peer : q # p => sessions'[q] = sessions[q]
  BY <1>2, <1>3
<1>7. TypeOK'
  <2>1. sessions' \in [Peer -> Session]
    BY <1>2, <1>3, <1>5
  <2>2. sealed' \subseteq Nat \X Nat \X Nat
    BY <1>2, <1>3, <1>4 DEF IInv, TypeOK
  <2> QED
    BY <1>1, <1>4, <2>1, <2>2 DEF IInv, TypeOK
<1>8. StoreInv'
  <2>1. \A q \in Peer : sessions'[q].root = sessions[q].root
    BY <1>5, <1>6 DEF s
  <2>2. \A q \in Peer : sessions'[q].root <= roots'
    BY <1>1, <2>1 DEF IInv, StoreInv
  <2>3. \A q \in Peer : sessions'[q].root = 0 => sessions'[q] = NoSession
    BY <1>2, <1>6, <2>1 DEF IInv, StoreInv, s
  <2>4. \A q, r \in Peer : sessions'[q].root = sessions'[r].root /\ sessions'[q].root # 0 => q = r
    BY <2>1 DEF IInv, StoreInv
  <2>5. \A n \in sealed' : n[1] > 0 /\ n[1] <= roots'
    <3>1. s.root > 0 /\ s.root <= roots
      BY <1>2 DEF IInv, StoreInv, s
    <3> QED
      BY <1>1, <1>3, <3>1 DEF IInv, StoreInv
  <2>6. ASSUME NEW q \in Peer, NEW n \in sealed', n[1] = sessions'[q].root, n[1] \notin wrapped'
        PROVE  \/ n[2] < sessions'[q].next
               \/ n[2] = sessions'[q].next /\ n[3] < sessions'[q].seq
    <3>1. CASE n \in sealed /\ q # p
      BY <1>4, <1>6, <2>6, <3>1 DEF IInv, StoreInv
    <3>2. CASE n \in sealed /\ q = p
      <4>1. \/ n[2] < s.next
            \/ n[2] = s.next /\ n[3] < s.seq
        BY <1>4, <2>1, <2>6, <3>2 DEF IInv, StoreInv, s
      <4>2. n[2] \in Nat /\ n[3] \in Nat
        BY <3>2 DEF IInv, TypeOK
      <4>3. e >= s.next
        BY <1>4, <2>1, <2>6, <3>2 DEF s
      <4> QED
        BY <1>2, <1>4, <1>5, <1>6, <3>2, <4>1, <4>2, <4>3
    <3>3. CASE n = <<s.root, e, s.seq>>
      <4>1. sessions[q].root = sessions[p].root /\ sessions[q].root # 0
        BY <1>2, <2>1, <2>6, <3>3 DEF s
      <4>2. q = p
        BY <4>1 DEF IInv, StoreInv
      <4> QED
        BY <1>2, <1>5, <1>6, <3>3, <4>2
    <3> QED
      BY <1>3, <3>1, <3>2, <3>3
  <2> QED
    BY <2>2, <2>3, <2>4, <2>5, <2>6 DEF StoreInv
<1>9. AttInv'
  <2>1. \A q \in Peer : sessions'[q].att = sessions[q].att
    BY <1>5, <1>6 DEF s
  <2> QED
    BY <1>1, <2>1, AttKeeps
<1>10. KeyInv'
  <2>1. \A d \in Conn : phase[d] = "auth" => sessions'[peerOf[d]].pin = sessions[peerOf[d]].pin
    BY <1>5, <1>6, AttachedSession DEF s
  <2> QED
    BY <1>1, <2>1, KeyKeeps
<1> QED
  BY <1>7, <1>8, <1>9, <1>10 DEF IInv

\* decrypt_packet changes the receiving side only, or frees the connection.
LEMMA DecryptStep ==
    ASSUME IInv, NEW c \in Conn, NEW e \in Epoch, NEW frame \in {"bad", "dup", "new"},
           DecryptPacket(c, e, frame)
    PROVE  IInv'
<1>1. /\ phase[c] = "auth"
      /\ UNCHANGED <<peerOf, keyOf, offer, clientRoot, waiting, roots, sealed, wrapped>>
  BY DEF DecryptPacket
<1>p. PICK p \in Peer : p = peerOf[c]
  BY <1>1, AttachedSession
<1> DEFINE s == Touch(Evicted(sessions[p]))
           opened == [CommitReplay(s, e) EXCEPT !.fails = 0]
           failed == [s EXCEPT !.fails = @ + 1]
           Good(t) == t \in Session /\ SameCore(sessions[p], t) /\ t.att = sessions[p].att
<1>2. sessions[p].root # 0 /\ sessions[p] \in Session
  BY <1>1, <1>p, AttachedSession DEF IInv, TypeOK
<1>3. Good(s)
  BY <1>2, EvictedType, TouchType DEF SameCore
<1>4. \/ UNCHANGED phase /\ \E t \in {s, opened, failed} : sessions' = [sessions EXCEPT ![p] = t]
      \/ Free(c, failed)
  BY <1>p DEF DecryptPacket
<1> HIDE DEF s
<1>5. Good(opened)
  <2>1. Good(CommitReplay(s, e))
    BY <1>3, CommitType, SessionAssumption DEF SameCore
  <2> QED
    BY <2>1 DEF Session, SameCore
<1>6. Good(failed)
  BY <1>3 DEF Session, SameCore
<1> HIDE DEF opened, failed
<1>7. CASE Free(c, failed)
  BY <1>1, <1>p, <1>6, <1>7, FreeStep
<1>8. ASSUME UNCHANGED phase, NEW t \in {s, opened, failed}, sessions' = [sessions EXCEPT ![p] = t]
      PROVE  IInv'
  <2>1. Good(t)
    BY <1>3, <1>5, <1>6
  <2> QED
    BY <1>1, <1>2, <1>8, <2>1, UpdateStep
<1> QED
  BY <1>4, <1>7, <1>8

\* The clock moves no key, epoch or count.
LEMMA PassStep ==
    ASSUME IInv, NEW p \in Peer, NEW i \in Gen, Pass(p, i)
    PROVE  IInv'
<1> DEFINE s == sessions[p]
           t1 == [s EXCEPT !.idle = TRUE]
           t2 == [s EXCEPT !.rx[i].idle = TRUE]
           t3 == [s EXCEPT !.grace.over = TRUE]
           Good(t) == t \in Session /\ SameCore(s, t) /\ t.att = s.att
<1>1. UNCHANGED <<phase, peerOf, keyOf, offer, clientRoot, waiting, roots, sealed, wrapped>>
  BY DEF Pass
<1>2. sessions \in [Peer -> Session] /\ s \in Session /\ s.root # 0
  BY DEF IInv, TypeOK, Pass, StoreInv
<1>3. \E t \in {t1, t2, t3} : sessions' = [sessions EXCEPT ![p] = t]
  BY <1>2 DEF Pass
<1> HIDE DEF s
<1>4. Good(t1)
  BY <1>2 DEF Session, SameCore
<1>5. Good(t2)
  <2>1. [s.rx EXCEPT ![i].idle = TRUE] \in Slots
    BY <1>2 DEF Session, Slots, Slot
  <2> QED
    BY <1>2, <2>1 DEF Session, SameCore
<1>6. Good(t3)
  <2>1. [s.grace EXCEPT !.over = TRUE] \in [slots : Slots, valid : BOOLEAN, over : BOOLEAN]
    BY <1>2 DEF Session
  <2> QED
    BY <1>2, <2>1 DEF Session, SameCore
<1>7. ASSUME NEW t \in {t1, t2, t3}, sessions' = [sessions EXCEPT ![p] = t] PROVE IInv'
  <2> HIDE DEF t1, t2, t3
  <2>1. Good(t)
    BY <1>4, <1>5, <1>6
  <2> QED
    BY <1>1, <1>2, <1>7, <2>1, UpdateStep DEF s
<1> QED
  BY <1>3, <1>7

\* A restart of the relay leaves no session and no connection.
LEMMA RestartRelayStep ==
    ASSUME IInv, RestartRelay
    PROVE  IInv'
<1>1. /\ phase \in [Conn -> {"none", "msg3", "auth", "closed"}]
      /\ sessions' = [p \in Peer |-> NoSession]
      /\ phase' = [c \in Conn |-> IF phase[c] = "none" THEN "none" ELSE "closed"]
      /\ UNCHANGED <<peerOf, keyOf, offer, clientRoot, waiting, roots, sealed, wrapped>>
  BY DEF IInv, TypeOK, RestartRelay
<1>2. TypeOK'
  <2>1. sessions' \in [Peer -> Session] /\ phase' \in [Conn -> {"none", "msg3", "auth", "closed"}]
    BY <1>1, NoSessionType
  <2> QED
    BY <1>1, <2>1 DEF IInv, TypeOK
<1>3. StoreInv'
  <2>1. \A p \in Peer : sessions'[p] = NoSession
    BY <1>1
  <2> QED
    BY <1>1, <1>2, <2>1, StoreKeeps
<1>4. \A c \in Conn : phase'[c] \notin Attached
  BY <1>1
<1>5. AttInv'
  <2>1. ASSUME NEW p \in Peer PROVE sessions'[p].att = Cardinality(Attachments(p)')
    <3>1. Attachments(p)' = {}
      BY <1>4 DEF Attachments
    <3>2. sessions'[p].att = 0
      BY <1>1 DEF NoSession
    <3> QED
      BY <3>1, <3>2, FS_EmptySet
  <2> QED
    BY <1>4, <2>1 DEF AttInv
<1>6. KeyInv'
  BY <1>4 DEF KeyInv
<1> QED
  BY <1>2, <1>3, <1>5, <1>6 DEF IInv

\* The store and the connections are left alone: a step of a client, or none
LEMMA ClientStep ==
    ASSUME IInv, UNCHANGED <<sessions, phase, peerOf, keyOf, offer, roots, sealed, wrapped>>,
           clientRoot' \in [Peer -> Nat], waiting' \in [Peer -> Conn \cup {NoConn}]
    PROVE  IInv'
<1>1. TypeOK'
  BY DEF IInv, TypeOK
<1>2. StoreInv'
  BY DEF IInv, StoreInv
<1>3. AttInv'
  BY AttKeeps
<1>4. KeyInv'
  BY DEF IInv, KeyInv
<1> QED
  BY <1>1, <1>2, <1>3, <1>4 DEF IInv

-----------------------------------------------------------------------------
(* The theorems                                                            *)

\* The inductive invariant holds in every state of the session store: initially
\* there are no sessions, and each operation of secure.rs preserves it.
THEOREM StoreCorrect == Spec => []IInv
<1>1. Init => IInv
  <2> SUFFICES ASSUME Init PROVE IInv
    OBVIOUS
  <2> USE DEF Init
  <2>1. TypeOK
    BY NoSessionType, SessionAssumption DEF TypeOK
  <2>2. StoreInv
    BY DEF StoreInv, NoSession
  <2>3. ASSUME NEW p \in Peer PROVE sessions[p].att = Cardinality(Attachments(p))
    <3>1. Attachments(p) = {}
      BY DEF Attachments
    <3>2. sessions[p].att = 0
      BY DEF NoSession
    <3> QED
      BY <3>1, <3>2, FS_EmptySet
  <2>4. AttInv /\ KeyInv
    BY <2>3 DEF AttInv, KeyInv
  <2> QED
    BY <2>1, <2>2, <2>4 DEF IInv
<1>2. IInv /\ [Next]_vars => IInv'
  <2> SUFFICES ASSUME IInv, [Next]_vars PROVE IInv'
    OBVIOUS
  <2>1. ASSUME NEW c \in Conn, NEW p \in Peer, Create(c, p) PROVE IInv'
    BY <2>1, CreateStep
  <2>2. ASSUME NEW c \in Conn, NEW p \in Peer, Join(c, p) PROVE IInv'
    BY <2>2, ReuseStep DEF Join
  <2>3. ASSUME NEW c \in Conn, NEW p \in Peer, Sync(c, p) PROVE IInv'
    <3>1. sessions[p].root \in Nat
      BY DEF IInv, TypeOK, Session
    <3> QED
      BY <2>3, <3>1, ReuseStep DEF Sync
  <2>4. ASSUME NEW c \in Conn, NEW p \in Peer, Refuse(c, p) PROVE IInv'
    BY <2>4, RefuseStep
  <2>5. ASSUME NEW c \in Conn, Close(c) PROVE IInv'
    BY <2>5, CloseStep
  <2>6. ASSUME NEW c \in Conn, Msg2Received(c) PROVE IInv'
    <3>1. /\ clientRoot \in [Peer -> Nat] /\ waiting \in [Peer -> Conn \cup {NoConn}]
          /\ offer[c] \in Nat
      BY DEF IInv, TypeOK
    <3>2. clientRoot' \in [Peer -> Nat] /\ waiting' \in [Peer -> Conn \cup {NoConn}]
      BY <2>6, <3>1 DEF Msg2Received
    <3> QED
      BY <2>6, <3>2, ClientStep DEF Msg2Received
  <2>7. ASSUME NEW c \in Conn, NEW k \in StaticKey, FinishMsg3(c, k) PROVE IInv'
    BY <2>7, FinishStep
  <2>8. ASSUME NEW c \in Conn, NEW rotate \in BOOLEAN, EncryptPacket(c, rotate) PROVE IInv'
    BY <2>8, EncryptStep
  <2>9. ASSUME NEW c \in Conn, NEW e \in Epoch, NEW frame \in {"bad", "dup", "new"},
               DecryptPacket(c, e, frame)
        PROVE  IInv'
    BY <2>9, DecryptStep
  <2>10. ASSUME NEW p \in Peer, NEW i \in Gen, Pass(p, i) PROVE IInv'
    BY <2>10, PassStep
  <2>11. CASE RestartRelay
    BY <2>11, RestartRelayStep
  <2>12. ASSUME NEW p \in Peer, RestartClient(p) PROVE IInv'
    <3>1. clientRoot \in [Peer -> Nat] /\ waiting \in [Peer -> Conn \cup {NoConn}]
      BY DEF IInv, TypeOK
    <3>2. clientRoot' \in [Peer -> Nat] /\ waiting' \in [Peer -> Conn \cup {NoConn}]
      BY <2>12, <3>1 DEF RestartClient
    <3> QED
      BY <2>12, <3>2, ClientStep DEF RestartClient
  <2>13. CASE UNCHANGED vars
    BY <2>13, ClientStep DEF vars, IInv, TypeOK
  <2> QED
    BY <2>1, <2>2, <2>3, <2>4, <2>5, <2>6, <2>7, <2>8, <2>9, <2>10, <2>11, <2>12, <2>13 DEF Next
<1> QED
  BY <1>1, <1>2, PTL DEF Spec

\* Every variable of the session store keeps its type.
THEOREM SessionTypeCorrect == Spec => []TypeOK
BY StoreCorrect, PTL DEF IInv

\* A session of the store counts exactly the connections attached to it by
\* build_msg2 and not yet dropped, and none of them is without a session.
THEOREM AttachmentsCorrect == Spec => []AttachmentsExact
<1>1. IInv => AttachmentsExact
  <2> SUFFICES ASSUME IInv, NEW p \in Peer
               PROVE  /\ sessions[p].att = Cardinality(Attachments(p))
                      /\ Attachments(p) # {} => sessions[p] # NoSession
    BY DEF AttachmentsExact
  <2>1. sessions[p].att = Cardinality(Attachments(p))
    BY DEF IInv, AttInv
  <2>2. \A c \in Attachments(p) : c \in Conn /\ phase[c] \in Attached /\ peerOf[c] = p
    BY DEF Attachments
  <2> QED
    BY <2>1, <2>2, AttachedSession
<1> QED
  BY <1>1, StoreCorrect, PTL

\* encrypt_packet never seals with a nonce already used under the same root key
\* while the epoch under that key has not wrapped: until then an epoch only
\* grows, and its sequence only starts again in a new one.
THEOREM NoncesCorrect == Spec => []NonceFresh
<1>1. IInv => NonceFresh
  <2> SUFFICES ASSUME IInv, NEW p \in Peer, NEW e \in {sessions[p].next, sessions[p].next + 1},
                      sessions[p].root \notin wrapped,
                      <<sessions[p].root, e, sessions[p].seq>> \in sealed
               PROVE  FALSE
    BY DEF NonceFresh
  <2>1. sessions[p].next \in Nat /\ sessions[p].seq \in Nat
    BY ZeroEpoch DEF IInv, TypeOK, Session
  <2>2. e < sessions[p].next \/ (e = sessions[p].next /\ sessions[p].seq < sessions[p].seq)
    BY DEF IInv, StoreInv
  <2> QED
    BY <2>1, <2>2
<1> QED
  BY <1>1, StoreCorrect, PTL

\* confirm_session_public_key lets connections share a session only when they
\* authenticated with the same static key.
THEOREM StaticKeyCorrect == Spec => []OneStaticKey
<1>1. IInv => OneStaticKey
  BY DEF IInv, KeyInv, OneStaticKey
<1> QED
  BY <1>1, StoreCorrect, PTL
=============================================================================
