SPECIFICATION Spec
CONSTANTS
    Peer = {p1, p2}
    Server = Server
    ListCapable = {p1, p2}
    Budgets <- StaleAckBudgets
CHECK_DEADLOCK FALSE
INVARIANT SavedInfoDelivered
