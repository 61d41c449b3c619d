SPECIFICATION Spec
CONSTANTS
    Conn = {c1, c2}
    NoConn = NoConn
    Peer = {1, 8}
    Server = 15
    Watched = c1
    Byte = 2
    MaxForwardHops = 1
    SendWindow = 2
    MaxSendFrames = 1
    MaxSendBytes = 5
    MaxFrameBytes = 6
    ForeignPayloads <- Payloads
INVARIANT HopBound
INVARIANT DeliveredToAddressee
 
INVARIANT RateBound
INVARIANT RpcAuthentic
