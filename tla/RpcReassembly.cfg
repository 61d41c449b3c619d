SPECIFICATION FairSpec
CONSTANTS
    Peer = {p1, p2}
    Request = {r1}
    Answer = {a1}
    MaxRpcPieces = 3
    MaxPendingTransactionsPerPeer = 1
    MaxPendingBytes = 2
    MaxPendingPieces = 4
    MaxLen = 1
    MaxInst = 2
INVARIANT CountersExact
INVARIANT EntrySound
INVARIANT PacketOfOneConnection
PROPERTY Reclaimed
