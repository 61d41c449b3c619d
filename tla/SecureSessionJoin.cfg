SPECIFICATION Spec
CONSTANTS
    Conn = {c1, c2, c3}
    Peer = {p1}
    StaticKey = {k1}
    NoConn = NoConn
    NoPeer = NoPeer
    NoKey = NoKey
    MaxStoredSessions = 1
    DecryptFailThreshold = 2
    MaxRxEpochAhead = 1
    MaxRoot = 2
    EpochCount = 2
    MaxSeq = 1
SYMMETRY Symmetry
INVARIANT JoinShares
