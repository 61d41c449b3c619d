SPECIFICATION FairSpec
CONSTANTS
    Req = {r1, r2}
    MaxEvict = 2
    MaxFaults = 1
INVARIANT ConfigDocumented
INVARIANT KeyStable
INVARIANT RouteIdStable
INVARIANT PersistedIsStored
INVARIANT ReturnersResynced
PROPERTY Serves
