--------------------------- MODULE MCRelayFrames ---------------------------
\* RelayFrames for TLC.
EXTENDS RelayFrames

\* Payloads with a header that is too short, fits, fills the payload or exceeds it,
\* a name of no or one cell, and data, an RPC or another wrapping inside
Payloads ==
    {<<>>, <<ForeignHeaderMin>>} \cup
    {<<headerLen, 0>> \o rest :
        headerLen \in {1, 2, 3, 5},
        rest \in {<<>>, <<1>>, <<RpcReq>>, <<Foreign>>, <<1, RpcReq>>, <<RpcReq, 1>>, <<RpcReq, Foreign>>}}
=============================================================================
