SPECIFICATION Spec
CONSTANTS
    Peer = {p1, p2}
    Server = Server
    ListCapable = {p1, p2}
    Budgets <- SafetyBudgets
SYMMETRY Symmetry
CHECK_DEADLOCK FALSE
INVARIANT SavedTopologyDelivered
INVARIANT SavedInfoOfRunningDelivered
INVARIANT OutstandingInFlight
INVARIANT CacheCoherent
