SPECIFICATION FairSpec
CONSTANTS
    Peer = {p1, p2}
    Info = {i1, i2}
    NoInfo = NoInfo
    NoDigest = NoDigest
    Ttl = 1
    Interval = 1
    MaxChanges = 3
INVARIANT DigestNamesMap
INVARIANT RowsOfPresent
INVARIANT RowFresh
PROPERTY Converges
