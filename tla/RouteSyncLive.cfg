SPECIFICATION FairSpec
CONSTANTS
    Peer = {p1, p2}
    Server = Server
    ListCapable = {}
    Budgets <- LiveBudgets
CHECK_DEADLOCK FALSE
PROPERTY Converges
