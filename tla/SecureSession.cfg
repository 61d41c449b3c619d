SPECIFICATION Spec
CONSTANTS
    Conn = {c1, c2}
    Peer = {p1, p2}
    StaticKey = {k1, k2}
    NoConn = NoConn
    NoPeer = NoPeer
    NoKey = NoKey
    MaxStoredSessions = 1
    DecryptFailThreshold = 1
    MaxRxEpochAhead = 1
    MaxRoot = 2
    EpochCount = 3
    MaxSeq = 2
SYMMETRY Symmetry
INVARIANT AttachmentsExact
INVARIANT NonceFresh
INVARIANT OneStaticKey
