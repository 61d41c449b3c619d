SPECIFICATION FairSpec
CONSTANTS
    Conn = {c1, c2}
    Peer = {p1, p2}
    IP = {ip1, ip2}
    NoConn = NoConn
    NoPeer = NoPeer
    NoIP = NoIP
    MaxConnections = 2
    MaxPendingHandshakes = 2
    MaxPendingPerIp = 1
INVARIANT QuotaExact
INVARIANT RegistrySound
INVARIANT RouteMirrorsRoom
INVARIANT PumpOwned
INVARIANT FreedOnce
INVARIANT TimersArmed
INVARIANT NoLostUpdate
PROPERTY HandshakeEnds
PROPERTY UpdateBuilt
