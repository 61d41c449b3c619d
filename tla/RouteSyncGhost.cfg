SPECIFICATION Spec
CONSTANTS
    Peer = {p1, p2}
    Server = Server
    ListCapable = {}
    Budgets <- GhostBudgets
CHECK_DEADLOCK FALSE
INVARIANT NoGhostSent
