------------------------ MODULE ServerStartupProofs ------------------------
(***************************************************************************)
(* The keys and route ids clients see, for any number of requests,         *)
(* evictions and failing storage calls.  LifeInv says that one             *)
(* initialisation runs at a time and that connections exist only after it, *)
(* KeyInv where the keys in use and the keys clients know come from, IdInv *)
(* the same of the route id.                                               *)
(***************************************************************************)
EXTENDS ServerStartup, TLAPS

Pairs == [priv : Int, pub : Int]
Inits == [step : {"none", "get", "put", "list", "done", "failed"}, cand : Pairs]
Reqs  == [at : {"idle", "forwarded", "waiting", "open", "authenticating", "ready"},
          on : Req \cup {NoReq}, pub : Int]

\* Every variable the argument uses has its type.
Typed ==
    /\ env \in Envs
    /\ identityReady \in Req \cup {NoReq}
    /\ init \in [Req -> Inits]
    /\ keys \in Pairs
    /\ rpc \in [pub : Int, routeId : Int]
    /\ req \in [Req -> Reqs]
    /\ disk \in [keys : Pairs, routeId : Int]
    /\ minted \in Nat /\ writing \in Int
    /\ persisted \in BOOLEAN /\ resync \in BOOLEAN

Connected(r) == req[r].at \in {"open", "authenticating", "ready"}

\* The identity of this life is ready
Done == identityReady \in Req /\ init[identityReady].step = "done"

\* One initialisation at a time, remembered until it fails; connections are
\* made only when it is done.
LifeInv ==
    /\ \A r \in Req : init[r].step \in {"get", "put", "list", "done"} => identityReady = r
    /\ \A r \in Req : Connected(r) => Done
    /\ \A r \in Req : req[r].at = "waiting" => req[r].on \in Req
    /\ \A r \in Req : req[r].at = "forwarded" => config.ok

\* The one identity, once it is fixed by the configuration or the storage
Pinned   == config.ok /\ config.localKeys # NoKeys
Identity == IF Pinned THEN config.localKeys ELSE disk.keys
Known    == Pinned \/ isValidKeypair(disk.keys)

\* The keys in use, of a connection or known to a client are the identity.
KeyInv ==
    /\ rpc.pub = keys.pub
    /\ keys # NoKeys => keys = Identity /\ Known
    /\ \A r \in Req : Connected(r) => keys # NoKeys /\ req[r].pub = keys.pub
    /\ \A k \in toldKeys : k = Identity.pub /\ Known
    /\ \A r \in Req : init[r].step \in {"get", "put"} => ~Pinned
    /\ \A r \in Req : init[r].step = "put" =>
        ~isValidKeypair(disk.keys) /\ isValidKeypair(init[r].cand)

\* The route id in use is stored or being written, and clients know no other.
IdInv ==
    /\ ~Done => ~persisted /\ writing = 0 /\ rpc.routeId = 0 /\ announced = "none"
    /\ writing # 0 => writing = rpc.routeId /\ persisted
    /\ persisted => rpc.routeId > 0
    /\ rpc.routeId >= 0
    /\ persisted /\ writing = 0 => disk.routeId = rpc.routeId
    /\ \A r \in Req : req[r].at = "ready" => rpc.routeId > 0 /\ (persisted \/ lostWrite)
    /\ ~lostWrite => \A i \in toldIds : i = disk.routeId /\ i > 0
    /\ ~lostWrite /\ writing # 0 => toldIds = {}
    /\ Done /\ ~persisted /\ ~lostWrite => ~ValidRouteId(disk.routeId)
    /\ toldBefore => toldIds # {}
    /\ toldBefore /\ ~lostWrite /\ Done /\ announced = "none" => resync
    /\ toldBefore /\ ~lostWrite => announced # "incremental"

-----------------------------------------------------------------------------
(* Types and lives.                                                        *)

\* Accepted keys are pairs of numbers.
LEMMA LocalKeys == env \in Envs /\ config.ok => config.localKeys \in Pairs
<1> SUFFICES ASSUME env \in Envs, config.ok PROVE config.localKeys \in Pairs
    OBVIOUS
<1>1. env.LOCAL_PRIVATE_KEY \in Int /\ env.LOCAL_PUBLIC_KEY \in Int
    <2>1. PICK priv \in {0, 1, BadKey}, pub \in {0, 1, 2, BadKey} :
            env = [LeastEnv EXCEPT !.LOCAL_PRIVATE_KEY = priv, !.LOCAL_PUBLIC_KEY = pub]
        BY DEF Envs
    <2>2. priv \in Int /\ pub \in Int
        BY DEF BadKey
    <2>3. env.LOCAL_PRIVATE_KEY = priv /\ env.LOCAL_PUBLIC_KEY = pub
        BY <2>1 DEF LeastEnv
    <2>4. QED
        BY <2>2, <2>3
<1>2. config.localKeys = [priv |-> env.LOCAL_PRIVATE_KEY, pub |-> env.LOCAL_PUBLIC_KEY]
    BY DEF config, readServerConfig, Rejected
<1>3. QED
    BY <1>1, <1>2 DEF Pairs

LEMMA Constants ==
    /\ NoKeys \in Pairs /\ NoKeys.pub = 0 /\ NoKeys.priv = 0
    /\ NoRpc \in [pub : Int, routeId : Int] /\ NoRpc.pub = 0 /\ NoRpc.routeId = 0
    /\ NoInit \in Inits
    /\ NoInit.step = "none"
    /\ Idle \in Reqs
    /\ Idle.at = "idle"
BY DEF NoKeys, NoRpc, NoInit, Idle, Pairs, Inits, Reqs

\* Every step keeps the types.
LEMMA TypedStep == Typed /\ LifeInv /\ [Next]_vars => Typed'
<1> SUFFICES ASSUME Typed, LifeInv, [Next]_vars PROVE Typed'
    OBVIOUS
<1> USE Constants
<1>1. CASE UNCHANGED vars
    BY <1>1 DEF Typed, vars, memVars
<1>2. ASSUME NEW r \in Req, NEW path, NEW get, NEW upgrade, WorkerFetch(r, path, get, upgrade)
      PROVE  Typed'
    BY <1>2 DEF Typed, WorkerFetch, memVars, Reqs
<1>3. ASSUME NEW r \in Req, ObjectFetch(r) PROVE Typed'
    <2>1. config.localKeys \in Pairs
        BY <1>3, LocalKeys DEF ObjectFetch, LifeInv, Typed
    <2>2. req' \in [Req -> Reqs]
        BY <1>3 DEF ObjectFetch, EnsureIdentity, Typed, Reqs
    <2>3. [step |-> "list", cand |-> config.localKeys] \in Inits /\ [step |-> "get", cand |-> NoKeys] \in Inits
        BY <2>1 DEF Inits
    <2>4. init' \in [Req -> Inits]
        BY <1>3, <2>3 DEF ObjectFetch, EnsureIdentity, Typed
    <2>5. keys' \in Pairs /\ rpc' \in [pub : Int, routeId : Int]
        BY <1>3, <2>1 DEF ObjectFetch, EnsureIdentity, Typed, Pairs
    <2>6. identityReady' \in Req \cup {NoReq}
        BY <1>3 DEF ObjectFetch, EnsureIdentity, Typed
    <2>7. QED
        BY <1>3, <2>2, <2>4, <2>5, <2>6 DEF ObjectFetch, Typed
<1>4. ASSUME NEW r \in Req, NEW pair \in Pairs, Resolve(r, pair)
      PROVE  /\ init' \in [Req -> Inits]
             /\ keys' \in Pairs /\ rpc' \in [pub : Int, routeId : Int]
    BY <1>4 DEF Resolve, Typed, Pairs, Inits
<1>5. ASSUME NEW r \in Req, IdentityRead(r) PROVE Typed'
    <2>1. StoredKeys(disk.keys) \in Pairs
        BY DEF StoredKeys, Typed
    <2>2. [priv |-> minted + 1, pub |-> minted + 1] \in Pairs /\ minted + 1 \in Nat
        BY DEF Typed, Pairs
    <2>3. QED
        BY <1>4, <1>5, <2>1, <2>2 DEF IdentityRead, parseGeneratedKeypair, Typed, Inits
<1>6. ASSUME NEW r \in Req, IdentityWritten(r) PROVE Typed'
    <2>1. init[r].cand \in Pairs
        BY DEF Typed, Inits
    <2>2. QED
        BY <1>4, <1>6, <2>1 DEF IdentityWritten, Typed
<1>7. ASSUME NEW r \in Req, RouteIdsRestored(r) PROVE Typed'
    BY <1>7 DEF RouteIdsRestored, setPeerRouteId, ValidRouteId, Typed, Inits
<1>8. ASSUME NEW r \in Req, NEW applied, InitCallFails(r, applied) PROVE Typed'
    BY <1>8 DEF InitCallFails, InitFails, Typed, Inits
<1>9. ASSUME NEW r \in Req, NEW capacity, FetchResumes(r, capacity) PROVE Typed'
    <2>1. [at |-> "open", on |-> NoReq, pub |-> keys.pub] \in
            Reqs
        BY DEF Typed, Pairs, Reqs
    <2>2. QED
        BY <1>9, <2>1 DEF FetchResumes, Typed, memVars
<1>10. ASSUME NEW r \in Req, Handshake(r) PROVE Typed'
    BY <1>10 DEF Handshake, Typed, memVars, Reqs
<1>11. ASSUME NEW r \in Req, Register(r) PROVE Typed'
    <2> DEFINE id == IF rpc.routeId # 0 THEN rpc.routeId ELSE minted + 1
    <2>1. id \in Int
        BY DEF Typed
    <2>2. /\ req' = [req EXCEPT ![r].at = "ready"] /\ rpc' = [rpc EXCEPT !.routeId = id]
          /\ minted' \in {minted, minted + 1} /\ writing' \in {writing, id}
          /\ (persisted' = persisted \/ persisted' = TRUE) /\ resync' = FALSE
          /\ UNCHANGED <<env, disk, identityReady, init, keys>>
        BY <1>11 DEF Register, persistPeerRouteId, announcePeer
    <2> HIDE DEF id
    <2>3. req' \in [Req -> Reqs] /\ rpc' \in [pub : Int, routeId : Int]
        BY <2>1, <2>2 DEF Typed, Reqs
    <2>4. minted' \in Nat /\ writing' \in Int
        BY <2>1, <2>2 DEF Typed
    <2>5. persisted' \in BOOLEAN
        BY <2>2 DEF Typed
    <2>6. QED
        BY <2>2, <2>3, <2>4, <2>5 DEF Typed
<1>12. ASSUME NEW r \in Req, LearnRoute(r) PROVE Typed'
    BY <1>12 DEF LearnRoute, Typed, memVars
<1>13. ASSUME NEW r \in Req, Disconnect(r) PROVE Typed'
    BY <1>13 DEF Disconnect, Typed, memVars
<1>14. CASE RouteIdWritten
    BY <1>14 DEF RouteIdWritten, Typed
<1>15. ASSUME NEW applied, RouteIdWriteFails(applied) PROVE Typed'
    BY <1>15 DEF RouteIdWriteFails, Typed
<1>16. CASE Evict
    <2>1. disk' \in [keys : Pairs, routeId : Int]
        BY <1>16 DEF Evict, Typed, Inits
    <2>2. QED
        BY <1>16, <2>1 DEF Evict, Typed
<1>17. QED
    BY <1>1, <1>2, <1>3, <1>5, <1>6, <1>7, <1>8, <1>9, <1>10, <1>11, <1>12, <1>13, <1>14, <1>15,
       <1>16 DEF Next, Startup, Peering, Storage

\* Every step keeps initialisations and connections in their order.
LEMMA LifeStep == Typed /\ LifeInv /\ [Next]_vars => LifeInv'
<1> SUFFICES ASSUME Typed, LifeInv, [Next]_vars PROVE LifeInv'
    OBVIOUS
<1> USE Constants, StartupAssumption
<1>0. env' = env /\ (config.ok)' = config.ok
    BY DEF Next, Startup, Peering, Storage, vars, WorkerFetch, ObjectFetch, IdentityRead,
           IdentityWritten, RouteIdsRestored, InitCallFails, FetchResumes, Handshake, Register,
           LearnRoute, Disconnect, RouteIdWritten, RouteIdWriteFails, Evict, config
<1>1. CASE UNCHANGED vars
    BY <1>0, <1>1 DEF LifeInv, vars, memVars, Done, Connected
<1>2. ASSUME NEW r \in Req, NEW path, NEW get, NEW upgrade, WorkerFetch(r, path, get, upgrade)
      PROVE  LifeInv'
    <2>1. UNCHANGED <<init, identityReady>>
        BY <1>2 DEF WorkerFetch, memVars
    <2>2. req' = req \/ (req' = [req EXCEPT ![r].at = "forwarded"] /\ config.ok)
        BY <1>2 DEF WorkerFetch
    <2>3. \A s \in Req : Connected(s)' => Connected(s)
        BY <2>2 DEF Connected, Typed, Reqs
    <2>4. \A s \in Req : req'[s].at = "waiting" => req'[s] = req[s]
        BY <2>2 DEF Typed, Reqs
    <2>5. \A s \in Req : req'[s].at = "forwarded" => config.ok
        BY <2>2 DEF LifeInv, Typed, Reqs
    <2>6. QED
        BY <1>0, <2>1, <2>3, <2>4, <2>5 DEF LifeInv, Done
<1>3. ASSUME NEW r \in Req, ObjectFetch(r) PROVE LifeInv'
    <2>1. req' = [req EXCEPT ![r].at = "waiting",
                             ![r].on = IF identityReady = NoReq THEN r ELSE identityReady]
        BY <1>3 DEF ObjectFetch, EnsureIdentity
    <2>2. CASE identityReady # NoReq
        <3>1. UNCHANGED <<init, identityReady>>
            BY <1>3, <2>2 DEF ObjectFetch, EnsureIdentity
        <3>2. \A s \in Req : Connected(s)' => Connected(s)
            BY <2>1 DEF Connected, Typed, Reqs
        <3>3. \A s \in Req : (req'[s].at = "waiting" => req'[s].on \in Req)
                          /\ (req'[s].at = "forwarded" => config.ok)
            BY <2>1, <2>2 DEF LifeInv, Typed, Reqs
        <3>4. QED
            BY <1>0, <3>1, <3>2, <3>3 DEF LifeInv, Done
    <2>3. CASE identityReady = NoReq
        <3>1. identityReady' = r /\ \A s \in Req \ {r} : init'[s] = init[s]
            BY <1>3, <2>3 DEF ObjectFetch, EnsureIdentity, Typed
        <3>2. \A s \in Req : ~Connected(s) /\ init[s].step \notin {"get", "put", "list", "done"}
            BY <2>3 DEF LifeInv, Done
        <3>3. \A s \in Req : ~Connected(s)'
            BY <2>1, <3>2 DEF Connected, Typed, Reqs
        <3>4. \A s \in Req : (req'[s].at = "waiting" => req'[s].on \in Req)
                          /\ (req'[s].at = "forwarded" => config.ok)
            BY <2>1, <2>3 DEF LifeInv, Typed, Reqs
        <3>5. QED
            BY <1>0, <3>1, <3>2, <3>3, <3>4 DEF LifeInv
    <2>4. QED
        BY <2>2, <2>3
<1>4. ASSUME NEW r \in Req, NEW pair, NEW step \in {"put", "list"},
             init[r].step \in {"get", "put"}, init' = [init EXCEPT ![r] = [step |-> step, cand |-> pair]],
             UNCHANGED <<identityReady, req>>
      PROVE  LifeInv'
    <2>1. identityReady = r /\ ~Done
        BY <1>4 DEF LifeInv, Done, Typed, Inits
    <2>2. \A s \in Req : s # r => init'[s] = init[s]
        BY <1>4 DEF Typed
    <2>3. QED
        BY <1>0, <1>4, <2>1, <2>2 DEF LifeInv, Connected
<1>5. ASSUME NEW r \in Req, IdentityRead(r) PROVE LifeInv'
    BY <1>4, <1>5 DEF IdentityRead, Resolve
<1>6. ASSUME NEW r \in Req, IdentityWritten(r) PROVE LifeInv'
    BY <1>4, <1>6 DEF IdentityWritten, Resolve
<1>7. ASSUME NEW r \in Req, RouteIdsRestored(r) PROVE LifeInv'
    <2>1. init' = [init EXCEPT ![r].step = "done"] /\ UNCHANGED <<identityReady, req>>
        BY <1>7 DEF RouteIdsRestored
    <2>2. identityReady = r
        BY <1>7 DEF RouteIdsRestored, LifeInv
    <2>3. init'[r].step = "done" /\ \A s \in Req : s # r => init'[s] = init[s]
        BY <2>1 DEF Typed, Inits
    <2>4. Done' /\ \A s \in Req : s # r => init'[s].step \notin {"get", "put", "list", "done"}
        BY <2>1, <2>2, <2>3 DEF LifeInv, Done
    <2>5. QED
        BY <1>0, <2>1, <2>2, <2>4 DEF LifeInv
<1>8. ASSUME NEW r \in Req, NEW applied, InitCallFails(r, applied) PROVE LifeInv'
    <2>1. init' = [init EXCEPT ![r].step = "failed"] /\ UNCHANGED req /\ identityReady' = NoReq
        BY <1>8 DEF InitCallFails, InitFails
    <2>2. identityReady = r /\ ~Done
        BY <1>8 DEF InitCallFails, LifeInv, Done, Typed, Inits
    <2>3. \A s \in Req : init'[s].step \notin {"get", "put", "list", "done"}
        BY <2>1, <2>2 DEF LifeInv, Typed, Inits
    <2>4. \A s \in Req : ~Connected(s)'
        BY <2>1, <2>2 DEF LifeInv, Connected
    <2>5. QED
        BY <1>0, <2>1, <2>3, <2>4 DEF LifeInv
<1>9. ASSUME NEW r \in Req, NEW capacity, FetchResumes(r, capacity) PROVE LifeInv'
    <2>1. UNCHANGED <<init, identityReady>>
        BY <1>9 DEF FetchResumes, memVars
    <2>2. \A s \in Req : s # r => req'[s] = req[s]
        BY <1>9 DEF FetchResumes, Typed
    <2>3. req'[r].at \in {"open", "idle"}
        BY <1>9 DEF FetchResumes, Typed
    <2>4. req'[r].at = "open" => init[req[r].on].step = "done" /\ req[r].on \in Req
        BY <1>9 DEF FetchResumes, Settled, Typed, LifeInv
    <2>5. QED
        BY <1>0, <2>1, <2>2, <2>3, <2>4 DEF LifeInv, Connected, Done
<1>10. ASSUME NEW r \in Req, Handshake(r) \/ Register(r) \/ LearnRoute(r) \/ Disconnect(r)
       PROVE  LifeInv'
    <2>1. UNCHANGED <<init, identityReady>>
        BY <1>10 DEF Handshake, Register, LearnRoute, Disconnect, memVars
    <2>2. \/ req' = req
          \/ Connected(r) /\ req' = [req EXCEPT ![r] = Idle]
          \/ Connected(r) /\ req' = [req EXCEPT ![r].at = "authenticating"]
          \/ Connected(r) /\ req' = [req EXCEPT ![r].at = "ready"]
        BY <1>10 DEF Handshake, Register, LearnRoute, Disconnect, Connected
    <2>3. \A s \in Req : Connected(s)' => Connected(s)
        BY <2>2 DEF Connected, Typed, Reqs
    <2>4. \A s \in Req : req'[s].at \in {"waiting", "forwarded"} => req'[s] = req[s]
        BY <2>2 DEF Typed, Reqs
    <2>5. Done' = Done
        BY <2>1 DEF Done
    <2>6. QED
        BY <1>0, <2>1, <2>3, <2>4, <2>5 DEF LifeInv
<1>11. ASSUME RouteIdWritten \/ \E applied \in BOOLEAN : RouteIdWriteFails(applied)
       PROVE  LifeInv'
    BY <1>0, <1>11 DEF RouteIdWritten, RouteIdWriteFails, LifeInv, Done, Connected
<1>12. CASE Evict
    BY <1>0, <1>12 DEF Evict, LifeInv, Connected
<1>13. QED
    BY <1>1, <1>2, <1>3, <1>5, <1>6, <1>7, <1>8, <1>9, <1>10, <1>11, <1>12
    DEF Next, Startup, Peering, Storage

\* ensureIdentity: one initialisation runs at a time, and connections are made
\* only in a life whose initialisation is done.
THEOREM LifeCorrect == Spec => [](Typed /\ LifeInv)
<1>1. ASSUME Init PROVE Typed
    <2>1. disk \in [keys : Pairs, routeId : Int]
        BY <1>1, Constants DEF Init, BadKey, Pairs
    <2>2. req \in [Req -> Reqs] /\ init \in [Req -> Inits]
        BY <1>1, Constants DEF Init
    <2>3. QED
        BY <1>1, <2>1, <2>2, Constants DEF Init, Typed
<1>2. Init => LifeInv
    BY Constants DEF Init, LifeInv, Connected
<1>3. QED
    BY <1>1, <1>2, TypedStep, LifeStep, PTL DEF Spec

-----------------------------------------------------------------------------
(* The keys.                                                               *)

\* Every step keeps the environment.
LEMMA EnvStep == [Next]_vars => env' = env /\ config' = config
BY DEF Next, Startup, Peering, Storage, vars, WorkerFetch, ObjectFetch, IdentityRead,
       IdentityWritten, RouteIdsRestored, InitCallFails, FetchResumes, Handshake, Register,
       LearnRoute, Disconnect, RouteIdWritten, RouteIdWriteFails, Evict, config

\* Every step keeps the keys in use and the keys clients know equal.
LEMMA KeyStep == Typed /\ LifeInv /\ KeyInv /\ [Next]_vars => KeyInv'
<1> SUFFICES ASSUME Typed, LifeInv, KeyInv, [Next]_vars PROVE KeyInv'
    OBVIOUS
<1> USE Constants, StartupAssumption
<1>0. config' = config /\ Pinned' = Pinned
    BY EnvStep DEF Pinned
<1>a. ASSUME disk'.keys = disk.keys PROVE Identity' = Identity /\ Known' = Known
    BY <1>0, <1>a DEF Identity, Known
<1>b. ASSUME UNCHANGED <<keys, toldKeys>>, rpc'.pub = rpc.pub, disk'.keys = disk.keys,
             \A s \in Req : Connected(s)' => Connected(s) /\ req'[s].pub = req[s].pub,
             \A s \in Req : init'[s].step \in {"get", "put"} => init'[s] = init[s]
      PROVE  KeyInv'
    BY <1>a, <1>b, <1>0 DEF KeyInv
<1>c. \A r \in Req : init[r].step \in {"get", "put", "list"} =>
            identityReady = r /\ ~Done /\ \A s \in Req : ~Connected(s)
    BY DEF LifeInv, Done
<1>1. CASE UNCHANGED vars
    BY <1>1, <1>b DEF vars, memVars, pastVars, Connected
<1>2. ASSUME NEW r \in Req, NEW path, NEW get, NEW upgrade, WorkerFetch(r, path, get, upgrade)
      PROVE  KeyInv'
    <2>1. UNCHANGED <<init, keys, rpc, disk, toldKeys>>
        BY <1>2 DEF WorkerFetch, memVars, pastVars
    <2>2. req' = req \/ req' = [req EXCEPT ![r].at = "forwarded"]
        BY <1>2 DEF WorkerFetch
    <2>3. \A s \in Req : Connected(s)' => Connected(s) /\ req'[s].pub = req[s].pub
        BY <2>2 DEF Connected, Typed, Reqs
    <2>4. QED
        BY <1>b, <2>1, <2>3
<1>3. ASSUME NEW r \in Req, ObjectFetch(r) PROVE KeyInv'
    <2>1. req' = [req EXCEPT ![r].at = "waiting",
                             ![r].on = IF identityReady = NoReq THEN r ELSE identityReady]
        BY <1>3 DEF ObjectFetch, EnsureIdentity
    <2>2. \A s \in Req : Connected(s)' => Connected(s) /\ req'[s].pub = req[s].pub
        BY <2>1 DEF Connected, Typed, Reqs
    <2>3. UNCHANGED <<disk, toldKeys>>
        BY <1>3 DEF ObjectFetch, pastVars
    <2>4. CASE identityReady # NoReq
        BY <1>b, <1>3, <2>2, <2>3, <2>4 DEF ObjectFetch, EnsureIdentity
    <2>5. CASE identityReady = NoReq
        <3>1. \A s \in Req : ~Connected(s) /\ init[s].step \notin {"get", "put", "list", "done"}
            BY <2>5 DEF LifeInv, Done
        <3>2. config.ok
            BY <1>3 DEF ObjectFetch, LifeInv
        <3>3. Identity' = Identity /\ Known' = Known
            BY <1>a, <2>3
        <3>4. CASE config.localKeys # NoKeys
            <4>1. Pinned /\ Identity = config.localKeys /\ Known
                BY <3>2, <3>4 DEF Pinned, Identity, Known
            <4>2. keys' = Identity /\ rpc'.pub = keys'.pub
                BY <1>3, <2>5, <3>4, <4>1 DEF ObjectFetch, EnsureIdentity
            <4>3. \A s \in Req : init'[s].step \notin {"get", "put"}
                BY <1>3, <2>5, <3>1, <3>4 DEF ObjectFetch, EnsureIdentity, Typed
            <4>4. QED
                BY <2>2, <2>3, <3>1, <3>3, <4>1, <4>2, <4>3 DEF KeyInv
        <3>5. CASE config.localKeys = NoKeys
            <4>1. ~Pinned
                BY <3>5 DEF Pinned
            <4>2. UNCHANGED <<keys, rpc>>
                BY <1>3, <2>5, <3>5 DEF ObjectFetch, EnsureIdentity
            <4>3. \A s \in Req : init'[s].step # "put"
                BY <1>3, <2>5, <3>1, <3>5 DEF ObjectFetch, EnsureIdentity, Typed
            <4>4. QED
                BY <1>0, <2>2, <2>3, <3>1, <3>3, <4>1, <4>2, <4>3 DEF KeyInv
        <3>6. QED
            BY <3>4, <3>5
    <2>6. QED
        BY <2>4, <2>5
<1>4. ASSUME NEW r \in Req, IdentityRead(r) PROVE KeyInv'
    <2>1. UNCHANGED <<disk, toldKeys, req>> /\ init[r].step = "get"
        BY <1>4 DEF IdentityRead, pastVars
    <2>2. ~Pinned /\ identityReady = r /\ (\A s \in Req : ~Connected(s))
        BY <1>c, <2>1 DEF KeyInv
    <2>3. \A s \in Req : ~Connected(s)'
        BY <2>1, <2>2 DEF Connected
    <2>4. Identity' = Identity /\ Known' = Known /\ Identity = disk.keys
        BY <1>a, <2>1, <2>2 DEF Identity
    <2>5. \A s \in Req : s # r => init'[s] = init[s] /\ init[s].step \notin {"get", "put"}
        BY <1>c, <1>4, <2>2 DEF IdentityRead, Resolve, Typed
    <2>6. CASE StoredKeys(disk.keys) # NoKeys
        <3>1. isValidKeypair(disk.keys) /\ StoredKeys(disk.keys) = disk.keys
            BY <2>6 DEF StoredKeys
        <3>2. keys' = disk.keys /\ rpc'.pub = keys'.pub /\ init'[r].step = "list"
            BY <1>4, <2>6, <3>1 DEF IdentityRead, Resolve, Typed
        <3>3. Known
            BY <3>1 DEF Known
        <3>4. QED
            BY <2>1, <2>3, <2>4, <2>5, <3>2, <3>3 DEF KeyInv
    <2>7. CASE StoredKeys(disk.keys) = NoKeys
        <3>1. ~isValidKeypair(disk.keys)
            BY <2>7 DEF StoredKeys, isValidKeypair
        <3>2. UNCHANGED <<keys, rpc>> /\ init'[r].step = "put"
              /\ init'[r].cand = [priv |-> minted + 1, pub |-> minted + 1]
            BY <1>4, <2>7 DEF IdentityRead, parseGeneratedKeypair, Typed
        <3>3. isValidKeypair(init'[r].cand)
            BY <3>2 DEF isValidKeypair, Typed
        <3>4. QED
            BY <1>0, <2>1, <2>2, <2>3, <2>4, <2>5, <3>1, <3>2, <3>3 DEF KeyInv
    <2>8. QED
        BY <2>6, <2>7
<1>d. ASSUME NEW r \in Req, init[r].step = "put"
      PROVE  ~Pinned /\ ~Known /\ toldKeys = {} /\ keys = NoKeys /\ isValidKeypair(init[r].cand)
    BY <1>d DEF KeyInv, Known
<1>e. ASSUME NEW r \in Req, init[r].step = "put", disk'.keys = init[r].cand
      PROVE  ~Pinned' /\ Known' /\ Identity' = init[r].cand
    BY <1>0, <1>d, <1>e DEF Known, Identity
<1>5. ASSUME NEW r \in Req, IdentityWritten(r) PROVE KeyInv'
    <2>1. init[r].step = "put" /\ disk' = [disk EXCEPT !.keys = init[r].cand]
          /\ UNCHANGED <<toldKeys, req>>
        BY <1>5 DEF IdentityWritten, pastVars
    <2>2. disk'.keys = init[r].cand
        BY <2>1 DEF Typed
    <2>3. keys' = init[r].cand /\ rpc'.pub = keys'.pub /\ init'[r].step = "list"
          /\ \A s \in Req : s # r => init'[s] = init[s]
        BY <1>5 DEF IdentityWritten, Resolve, Typed
    <2>4. \A s \in Req : ~Connected(s)'
        BY <1>c, <2>1 DEF Connected
    <2>5. \A s \in Req : init'[s].step \notin {"get", "put"}
        BY <1>c, <2>1, <2>3
    <2>6. QED
        BY <1>d, <1>e, <2>1, <2>2, <2>3, <2>4, <2>5 DEF KeyInv
<1>6. ASSUME NEW r \in Req, RouteIdsRestored(r) PROVE KeyInv'
    <2>1. UNCHANGED <<keys, disk, toldKeys, req>>
        BY <1>6 DEF RouteIdsRestored, pastVars
    <2>2. rpc'.pub = rpc.pub
        BY <1>6 DEF RouteIdsRestored, setPeerRouteId, Typed
    <2>3. \A s \in Req : init'[s].step \in {"get", "put"} => init'[s] = init[s]
        BY <1>6 DEF RouteIdsRestored, Typed, Inits
    <2>4. QED
        BY <1>b, <2>1, <2>2, <2>3 DEF Connected
<1>7. ASSUME NEW r \in Req, NEW applied, InitCallFails(r, applied) PROVE KeyInv'
    <2>1. UNCHANGED <<keys, rpc, toldKeys, req>> /\ init[r].step \in {"get", "put", "list"}
        BY <1>7 DEF InitCallFails, pastVars
    <2>2. \A s \in Req : init'[s].step \notin {"get", "put"}
        BY <1>c, <1>7 DEF InitCallFails, InitFails, Typed, Inits
    <2>3. \A s \in Req : ~Connected(s)'
        BY <1>c, <2>1 DEF Connected
    <2>4. CASE disk' = disk
        BY <1>b, <2>1, <2>2, <2>3, <2>4
    <2>5. CASE init[r].step = "put" /\ disk' = [disk EXCEPT !.keys = init[r].cand]
        <3>1. disk'.keys = init[r].cand
            BY <2>5 DEF Typed
        <3>2. QED
            BY <1>d, <1>e, <2>1, <2>2, <2>3, <2>5, <3>1 DEF KeyInv
    <2>6. QED
        BY <1>7, <2>4, <2>5 DEF InitCallFails
<1>8. ASSUME NEW r \in Req, NEW capacity, FetchResumes(r, capacity) PROVE KeyInv'
    <2>1. UNCHANGED <<init, keys, rpc, disk, toldKeys>>
        BY <1>8 DEF FetchResumes, memVars, pastVars
    <2>2. \A s \in Req : s # r => req'[s] = req[s]
        BY <1>8 DEF FetchResumes, Typed
    <2>3. Connected(r)' => SecurePeerAccepts(keys) /\ req'[r].pub = keys.pub
        BY <1>8 DEF FetchResumes, Typed, Connected
    <2>4. SecurePeerAccepts(keys) => keys # NoKeys
        BY DEF SecurePeerAccepts
    <2>5. \A s \in Req : Connected(s)' => keys # NoKeys /\ req'[s].pub = keys.pub
        BY <2>2, <2>3, <2>4 DEF Connected, KeyInv
    <2>6. Identity' = Identity /\ Known' = Known
        BY <1>a, <2>1
    <2>7. QED
        BY <1>0, <2>1, <2>5, <2>6 DEF KeyInv
<1>9. ASSUME NEW r \in Req, Handshake(r) PROVE KeyInv'
    <2>1. UNCHANGED <<init, keys, rpc, disk>> /\ toldKeys' = toldKeys \cup {req[r].pub}
          /\ req' = [req EXCEPT ![r].at = "authenticating"] /\ Connected(r)
        BY <1>9 DEF Handshake, memVars, Connected
    <2>2. \A s \in Req : Connected(s)' => Connected(s) /\ req'[s].pub = req[s].pub
        BY <2>1 DEF Connected, Typed, Reqs
    <2>3. req[r].pub = Identity.pub /\ Known
        BY <2>1 DEF KeyInv
    <2>4. Identity' = Identity /\ Known' = Known
        BY <1>a, <2>1
    <2>5. QED
        BY <1>0, <2>1, <2>2, <2>3, <2>4 DEF KeyInv
<1>10. ASSUME NEW r \in Req, Register(r) PROVE KeyInv'
    <2>1. UNCHANGED <<init, keys, disk, toldKeys>> /\ req' = [req EXCEPT ![r].at = "ready"]
          /\ Connected(r) /\ rpc'.pub = rpc.pub
        BY <1>10 DEF Register, Connected, pastVars, Typed
    <2>2. \A s \in Req : Connected(s)' => Connected(s) /\ req'[s].pub = req[s].pub
        BY <2>1 DEF Connected, Typed, Reqs
    <2>3. QED
        BY <1>b, <2>1, <2>2
<1>11. ASSUME NEW r \in Req, LearnRoute(r) PROVE KeyInv'
    <2>1. UNCHANGED <<init, keys, rpc, disk, req>> /\ toldKeys' = toldKeys \cup {rpc.pub}
          /\ Connected(r)
        BY <1>11 DEF LearnRoute, memVars, Connected
    <2>2. rpc.pub = Identity.pub /\ Known
        BY <2>1 DEF KeyInv
    <2>3. Identity' = Identity /\ Known' = Known
        BY <1>a, <2>1
    <2>4. QED
        BY <1>0, <2>1, <2>2, <2>3 DEF KeyInv, Connected
<1>12. ASSUME NEW r \in Req, Disconnect(r) PROVE KeyInv'
    <2>1. UNCHANGED <<init, keys, rpc, disk, toldKeys>> /\ req' = [req EXCEPT ![r] = Idle]
        BY <1>12 DEF Disconnect, memVars, pastVars
    <2>2. \A s \in Req : Connected(s)' => Connected(s) /\ req'[s].pub = req[s].pub
        BY <2>1 DEF Connected, Typed, Reqs
    <2>3. QED
        BY <1>b, <2>1, <2>2
<1>13. ASSUME RouteIdWritten \/ \E applied \in BOOLEAN : RouteIdWriteFails(applied)
       PROVE  KeyInv'
    <2>1. UNCHANGED <<init, keys, rpc, req, toldKeys>> /\ disk'.keys = disk.keys
        BY <1>13 DEF RouteIdWritten, RouteIdWriteFails, pastVars, Typed
    <2>2. QED
        BY <1>b, <2>1 DEF Connected
<1>14. CASE Evict
    <2>1. keys' = NoKeys /\ rpc'.pub = 0 /\ toldKeys' = toldKeys
          /\ (\A s \in Req : ~Connected(s)') /\ (\A s \in Req : init'[s].step = "none")
        BY <1>14 DEF Evict, Connected
    <2>2. disk'.keys = disk.keys
          \/ \E r \in Req : init[r].step = "put" /\ disk'.keys = init[r].cand
        BY <1>14 DEF Evict
    <2>3. CASE disk'.keys = disk.keys
        BY <1>a, <2>1, <2>3 DEF KeyInv
    <2>4. ASSUME NEW r \in Req, init[r].step = "put", disk'.keys = init[r].cand PROVE KeyInv'
        BY <1>d, <2>1, <2>4 DEF KeyInv
    <2>5. QED
        BY <2>2, <2>3, <2>4
<1>15. QED
    BY <1>1, <1>2, <1>3, <1>4, <1>5, <1>6, <1>7, <1>8, <1>9, <1>10, <1>11, <1>12, <1>13, <1>14
    DEF Next, Startup, Peering, Storage

\* initIdentity: the keys in use, those a connection was opened with and those
\* clients know are the configured or the stored pair.
THEOREM KeysCorrect == Spec => []KeyInv
<1>1. Init => KeyInv
    BY Constants DEF Init, KeyInv, Connected
<1>2. QED
    BY <1>1, LifeCorrect, KeyStep, PTL DEF Spec

\* No client ever sees a second static key, however often the object is
\* evicted, whichever storage calls fail and however many first requests wait
\* for one initialisation.
THEOREM KeyCorrect == Spec => []KeyStable
<1>1. KeyInv => KeyStable
    BY DEF KeyInv, KeyStable
<1>2. QED
    BY <1>1, KeysCorrect, PTL

-----------------------------------------------------------------------------
(* The route id.                                                           *)

\* Every step keeps the route id in use, the stored one and those clients know
\* equal until a write fails.
LEMMA IdStep == Typed /\ LifeInv /\ IdInv /\ [Next]_vars => IdInv'
<1> SUFFICES ASSUME Typed, LifeInv, IdInv, [Next]_vars PROVE IdInv'
    OBVIOUS
<1> USE Constants, StartupAssumption
<1>a. ASSUME Done' <=> Done, disk'.routeId = disk.routeId, rpc'.routeId = rpc.routeId,
             UNCHANGED <<persisted, writing, announced, resync, lostWrite, toldIds, toldBefore>>,
             \A s \in Req : req'[s].at = "ready" => req[s].at = "ready"
      PROVE  IdInv'
    BY <1>a DEF IdInv, ValidRouteId
<1>b. \A r \in Req : init[r].step \in {"get", "put", "list"} =>
            identityReady = r /\ ~Done /\ \A s \in Req : ~Connected(s)
    BY DEF LifeInv, Done
<1>1. CASE UNCHANGED vars
    BY <1>1, <1>a DEF vars, memVars, pastVars, Done
<1>2. ASSUME NEW r \in Req, NEW path, NEW get, NEW upgrade, WorkerFetch(r, path, get, upgrade)
      PROVE  IdInv'
    <2>1. UNCHANGED <<memVars, pastVars, disk, lostWrite>>
        BY <1>2 DEF WorkerFetch
    <2>2. \A s \in Req : req'[s].at = "ready" => req[s].at = "ready"
        BY <1>2 DEF WorkerFetch, Typed, Reqs
    <2>3. QED
        BY <1>a, <2>1, <2>2 DEF memVars, pastVars, Done
<1>3. ASSUME NEW r \in Req, ObjectFetch(r) PROVE IdInv'
    <2>1. UNCHANGED <<disk, persisted, resync, writing, announced, pastVars, lostWrite>>
        BY <1>3 DEF ObjectFetch
    <2>2. \A s \in Req : req'[s].at = "ready" => req[s].at = "ready"
        BY <1>3 DEF ObjectFetch, EnsureIdentity, Typed, Reqs
    <2>3. CASE identityReady # NoReq
        <3>1. UNCHANGED <<init, identityReady, rpc>>
            BY <1>3, <2>3 DEF ObjectFetch, EnsureIdentity
        <3>2. QED
            BY <1>a, <2>1, <2>2, <3>1 DEF pastVars, Done
    <2>4. CASE identityReady = NoReq
        <3>1. ~Done
            BY <2>4 DEF Done
        <3>2. identityReady' = r /\ init'[r].step \in {"get", "list"}
            BY <1>3, <2>4 DEF ObjectFetch, EnsureIdentity, Typed
        <3>3. ~Done'
            BY <3>2 DEF Done
        <3>4. rpc'.routeId = rpc.routeId
            BY <1>3, <2>4, <3>1 DEF ObjectFetch, EnsureIdentity, IdInv
        <3>5. QED
            BY <1>a, <2>1, <2>2, <3>1, <3>3, <3>4 DEF pastVars
    <2>5. QED
        BY <2>3, <2>4
<1>4. ASSUME NEW r \in Req, NEW applied,
             IdentityRead(r) \/ IdentityWritten(r) \/ InitCallFails(r, applied)
      PROVE  IdInv'
    <2>1. init[r].step \in {"get", "put", "list"} /\ UNCHANGED req
          /\ UNCHANGED <<persisted, resync, writing, announced, pastVars, lostWrite>>
        BY <1>4 DEF IdentityRead, IdentityWritten, InitCallFails
    <2>2. ~Done /\ identityReady = r
        BY <1>b, <2>1
    <2>3. identityReady' = NoReq \/ (identityReady' = r /\ init'[r].step \in {"put", "list"})
        BY <1>4, <2>2 DEF IdentityRead, IdentityWritten, InitCallFails, InitFails, Resolve, Typed
    <2>4. ~Done'
        BY <2>3 DEF Done
    <2>5. rpc'.routeId = rpc.routeId /\ disk'.routeId = disk.routeId
        BY <1>4, <2>2 DEF IdentityRead, IdentityWritten, InitCallFails, Resolve, Typed, IdInv
    <2>6. QED
        BY <1>a, <2>1, <2>2, <2>4, <2>5 DEF pastVars
<1>5. ASSUME NEW r \in Req, RouteIdsRestored(r) PROVE IdInv'
    <2>1. init[r].step = "list" /\ UNCHANGED <<disk, writing, announced, pastVars, lostWrite, req>>
        BY <1>5 DEF RouteIdsRestored
    <2>2. ~Done /\ (\A s \in Req : req[s].at # "ready")
        BY <1>b, <2>1 DEF Connected
    <2>3. ~persisted /\ writing = 0 /\ rpc.routeId = 0 /\ announced = "none"
        BY <2>2 DEF IdInv
    <2>4. Done'
        BY <1>b, <1>5 DEF RouteIdsRestored, Done, Typed, Inits
    <2>5. CASE ValidRouteId(disk.routeId)
        <3>1. rpc'.routeId = disk.routeId /\ persisted' /\ resync'
            BY <1>5, <2>5 DEF RouteIdsRestored, setPeerRouteId, Typed
        <3>2. disk.routeId > 0 /\ disk.routeId >= 0
            BY <2>5 DEF ValidRouteId, Typed
        <3>3. QED
            BY <2>1, <2>2, <2>3, <2>4, <3>1, <3>2 DEF IdInv, ValidRouteId, pastVars
    <2>6. CASE ~ValidRouteId(disk.routeId)
        <3>1. rpc' = rpc /\ ~persisted'
            BY <1>5, <2>3, <2>6 DEF RouteIdsRestored, setPeerRouteId
        <3>2. lostWrite \/ toldIds = {}
            BY <2>6 DEF IdInv, ValidRouteId
        <3>3. QED
            BY <2>1, <2>2, <2>3, <2>4, <2>6, <3>1, <3>2 DEF IdInv, ValidRouteId, pastVars
    <2>7. QED
        BY <2>5, <2>6
<1>6. ASSUME NEW r \in Req, NEW capacity, FetchResumes(r, capacity) PROVE IdInv'
    <2>1. UNCHANGED <<memVars, pastVars, disk, lostWrite>>
        BY <1>6 DEF FetchResumes
    <2>2. \A s \in Req : req'[s].at = "ready" => req[s].at = "ready"
        BY <1>6 DEF FetchResumes, Typed
    <2>3. QED
        BY <1>a, <2>1, <2>2 DEF memVars, pastVars, Done
<1>7. ASSUME NEW r \in Req, Handshake(r) \/ Disconnect(r) PROVE IdInv'
    <2>1. UNCHANGED <<memVars, toldIds, toldBefore, disk, lostWrite>>
        BY <1>7 DEF Handshake, Disconnect, pastVars
    <2>2. \A s \in Req : req'[s].at = "ready" => req[s].at = "ready"
        BY <1>7 DEF Handshake, Disconnect, Typed, Reqs
    <2>3. QED
        BY <1>a, <2>1, <2>2 DEF memVars, Done
<1>8. ASSUME NEW r \in Req, Register(r) PROVE IdInv'
    <2> DEFINE id == IF rpc.routeId # 0 THEN rpc.routeId ELSE minted + 1
    <2>1. /\ rpc'.routeId = id /\ persistPeerRouteId(id) /\ announcePeer
          /\ UNCHANGED <<disk, identityReady, init, pastVars, lostWrite>>
        BY <1>8 DEF Register, Typed
    <2>2. id > 0 /\ id \in Int /\ (rpc.routeId # 0 => id = rpc.routeId)
        BY DEF IdInv, Typed
    <2> HIDE DEF id
    <2>3. Done /\ Done'
        BY <1>8, <2>1 DEF Register, LifeInv, Connected, Done
    <2>4. announced' # "none" /\ (toldBefore /\ ~lostWrite => announced' # "incremental")
        BY <2>1, <2>3 DEF announcePeer, IdInv
    <2>5. CASE persisted
        <3>1. persisted' /\ UNCHANGED writing /\ rpc'.routeId = rpc.routeId
            BY <2>1, <2>2, <2>5 DEF persistPeerRouteId, IdInv
        <3>2. QED
            BY <2>1, <2>2, <2>3, <2>4, <2>5, <3>1 DEF IdInv, pastVars
    <2>6. CASE ~persisted
        <3>1. persisted' /\ writing' = id
            BY <2>1, <2>6 DEF persistPeerRouteId
        <3>2. lostWrite \/ toldIds = {}
            BY <2>3, <2>6 DEF IdInv, ValidRouteId
        <3>3. QED
            BY <2>1, <2>2, <2>3, <2>4, <3>1, <3>2 DEF IdInv, pastVars
    <2>7. QED
        BY <2>5, <2>6
<1>9. ASSUME NEW r \in Req, LearnRoute(r) PROVE IdInv'
    <2>1. /\ req[r].at = "ready" /\ writing = 0 /\ toldIds' = toldIds \cup {rpc.routeId}
          /\ UNCHANGED <<memVars, disk, req, toldBefore, lostWrite>>
        BY <1>9 DEF LearnRoute
    <2>2. rpc.routeId > 0 /\ (lostWrite \/ disk.routeId = rpc.routeId)
        BY <2>1 DEF IdInv
    <2>3. Done' = Done
        BY <2>1 DEF Done, memVars
    <2>4. QED
        BY <2>1, <2>2, <2>3 DEF IdInv, memVars
<1>10. CASE RouteIdWritten
    <2>1. /\ writing # 0 /\ disk'.routeId = writing /\ writing' = 0
          /\ UNCHANGED <<init, identityReady, rpc, persisted, resync, announced, req, pastVars, lostWrite>>
        BY <1>10 DEF RouteIdWritten, Typed
    <2>2. Done' = Done
        BY <2>1 DEF Done
    <2>3. QED
        BY <2>1, <2>2 DEF IdInv, pastVars
<1>11. ASSUME NEW applied, RouteIdWriteFails(applied) PROVE IdInv'
    <2>1. /\ writing # 0 /\ writing' = 0 /\ ~persisted' /\ lostWrite'
          /\ UNCHANGED <<init, identityReady, rpc, resync, announced, req, pastVars>>
        BY <1>11 DEF RouteIdWriteFails
    <2>2. Done' = Done /\ Done
        BY <2>1 DEF Done, IdInv
    <2>3. QED
        BY <2>1, <2>2 DEF IdInv, pastVars
<1>12. CASE Evict
    <2>1. /\ ~persisted' /\ writing' = 0 /\ rpc'.routeId = 0 /\ announced' = "none"
          /\ UNCHANGED <<toldIds, lostWrite>> /\ identityReady' = NoReq
          /\ \A s \in Req : req'[s].at = "idle"
        BY <1>12 DEF Evict
    <2>2. ~Done'
        BY <2>1 DEF Done
    <2>3. disk'.routeId = disk.routeId \/ (writing # 0 /\ disk'.routeId = writing)
        BY <1>12 DEF Evict
    <2>4. toldBefore' => toldIds' # {}
        BY <1>12 DEF Evict
    <2>5. QED
        BY <2>1, <2>2, <2>3, <2>4 DEF IdInv
<1>13. QED
    BY <1>1, <1>2, <1>3, <1>4, <1>5, <1>6, <1>7, <1>8, <1>9, <1>10, <1>11, <1>12
    DEF Next, Startup, Peering, Storage

\* restoreRouteIds and persistPeerRouteId: in every life the route id in use is
\* the stored one or the one being written.
THEOREM IdsCorrect == Spec => []IdInv
<1>1. Init => IdInv
    BY Constants, StartupAssumption DEF Init, IdInv, Done
<1>2. QED
    BY <1>1, LifeCorrect, IdStep, PTL DEF Spec

\* Clients see one route id in all lives of the object, unless a write of it
\* failed.
THEOREM RouteIdCorrect == Spec => []RouteIdStable
<1>1. IdInv => RouteIdStable
    BY DEF IdInv, RouteIdStable
<1>2. QED
    BY <1>1, IdsCorrect, PTL

\* A network in persistedRouteIds whose put is not under way is stored with the
\* id in use.
THEOREM PersistedCorrect == Spec => []PersistedIsStored
<1>1. IdInv => PersistedIsStored
    BY DEF IdInv, PersistedIsStored
<1>2. QED
    BY <1>1, IdsCorrect, PTL

\* The first peer of a life whose peers may hold routes of an earlier one is
\* announced with a full update.
THEOREM ResyncCorrect == Spec => []ReturnersResynced
<1>1. IdInv => ReturnersResynced
    BY DEF IdInv, ReturnersResynced
<1>2. QED
    BY <1>1, IdsCorrect, PTL

-----------------------------------------------------------------------------
(* The configuration: readServerConfig against the documented table.       *)

\* All combinations of values, the lengths and the keys without a bound
Environment ==
    [NETWORK_NAME : Nat \cup {Unset}, NETWORK_SECRET : Nat \cup {Unset},
     LOCAL_PRIVATE_KEY : Nat \cup {BadKey}, LOCAL_PUBLIC_KEY : Nat \cup {BadKey},
     DISABLE_RELAY_DATA : WordTexts \cup {Undefined}, EASYTIER_HOSTNAME : Nat \cup {Unset},
     MAX_FRAME_BYTES : NumberTexts \cup {Undefined},
     MAX_PENDING_PER_IP : NumberTexts \cup {Undefined},
     CONNECTION_MODE : WordTexts \cup {Undefined}]

\* A parsed variable is the documented value, or refused where there is none
Agrees(parsed, text, table) ==
    IF text \in DOMAIN table THEN parsed = Accepted(table[text]) ELSE parsed = Rejected

\* The vocabulary, text by text.
LEMMA Numbers ==
    /\ Number(Empty) = 0 /\ Number("0") = 0 /\ Number("1") = 1 /\ Number("_2048_") = 2048
    /\ Number("2049") = 2049 /\ Number("1023") = 1023 /\ Number("0x400") = 1024
    /\ Number("16777216") = 16777216 /\ Number("16777217") = 16777217 /\ Number("many") = -1
BY SMT DEF Number, NaN, Empty

LEMMA Words ==
    /\ Normalized("__") = Empty /\ Normalized("_TRUE_") = "true" /\ Normalized("yes") = "yes"
    /\ Normalized("Off") = "off" /\ Normalized("0") = "0" /\ Normalized("secure") = "secure"
    /\ Normalized("_Legacy") = "legacy" /\ Normalized("maybe") = "maybe"
BY SMT DEF Normalized, Empty

LEMMA FrameTable ==
    /\ DOMAIN DocumentedFrame = {Undefined, "_2048_", "2049", "0x400", "16777216"}
    /\ DocumentedFrame[Undefined] = 1048576 /\ DocumentedFrame["_2048_"] = 2048
    /\ DocumentedFrame["2049"] = 2049 /\ DocumentedFrame["0x400"] = 1024
    /\ DocumentedFrame["16777216"] = 16777216
BY SMT DEF DocumentedFrame, Undefined

LEMMA PendingTable ==
    /\ DOMAIN DocumentedPending = {Undefined, Empty, "1", "_2048_", "1023", "0x400"}
    /\ DocumentedPending[Undefined] = 17 /\ DocumentedPending[Empty] = 17
    /\ DocumentedPending["1"] = 1 /\ DocumentedPending["_2048_"] = 2048
    /\ DocumentedPending["1023"] = 1023 /\ DocumentedPending["0x400"] = 1024
BY SMT DEF DocumentedPending, Undefined, Empty

\* Only these texts are true.
LEMMA RelayTable ==
    /\ DOMAIN DocumentedRelay = {Undefined, Empty, "_TRUE_", "yes", "Off", "0"}
    /\ \A text \in {"_TRUE_", "yes"} : DocumentedRelay[text] = TRUE
    /\ \A text \in {Undefined, Empty, "Off", "0"} : DocumentedRelay[text] = FALSE
<1>1. DOMAIN DocumentedRelay = {Undefined, Empty, "_TRUE_", "yes", "Off", "0"}
    BY Zenon DEF DocumentedRelay
<1>2. \A text \in DOMAIN DocumentedRelay : DocumentedRelay[text] = (text \in {"_TRUE_", "yes"})
    BY Zenon DEF DocumentedRelay
<1>3. ASSUME NEW text \in {"_TRUE_", "yes"}
      PROVE  DocumentedRelay[text] = TRUE
    BY <1>1, <1>2, Zenon
<1>4. ASSUME NEW text \in {Undefined, Empty, "Off", "0"}
      PROVE  DocumentedRelay[text] = FALSE
    <2>1. text \notin {"_TRUE_", "yes"}
        BY SMT DEF Undefined, Empty
    <2>2. (text \in {"_TRUE_", "yes"}) = FALSE
        BY <2>1, SMT
    <2>3. QED
        BY <1>1, <1>2, <2>2, Zenon
<1>5. QED
    BY <1>1, <1>3, <1>4, Zenon

\* What the parsers make of the vocabulary.
LEMMA FrameParsed ==
    /\ maxFrameBytes(Undefined) = Accepted(1048576) /\ maxFrameBytes("_2048_") = Accepted(2048)
    /\ maxFrameBytes("2049") = Accepted(2049) /\ maxFrameBytes("0x400") = Accepted(1024)
    /\ maxFrameBytes("16777216") = Accepted(16777216)
    /\ maxFrameBytes(Empty) = Rejected /\ maxFrameBytes("0") = Rejected
    /\ maxFrameBytes("1") = Rejected /\ maxFrameBytes("1023") = Rejected
    /\ maxFrameBytes("16777217") = Rejected /\ maxFrameBytes("many") = Rejected
BY Numbers, SMT DEF maxFrameBytes, Undefined, Empty

LEMMA PendingParsed ==
    /\ parsePositiveInt(Undefined, 17) = Accepted(17) /\ parsePositiveInt(Empty, 17) = Accepted(17)
    /\ parsePositiveInt("1", 17) = Accepted(1) /\ parsePositiveInt("_2048_", 17) = Accepted(2048)
    /\ parsePositiveInt("1023", 17) = Accepted(1023) /\ parsePositiveInt("0x400", 17) = Accepted(1024)
    /\ parsePositiveInt("0", 17) = Rejected /\ parsePositiveInt("2049", 17) = Rejected
    /\ parsePositiveInt("16777216", 17) = Rejected /\ parsePositiveInt("16777217", 17) = Rejected
    /\ parsePositiveInt("many", 17) = Rejected
BY Numbers, SMT DEF parsePositiveInt, Undefined, Empty

LEMMA RelayParsed ==
    /\ parseBoolean(Undefined) = Accepted(FALSE) /\ parseBoolean(Empty) = Accepted(FALSE)
    /\ parseBoolean("_TRUE_") = Accepted(TRUE) /\ parseBoolean("yes") = Accepted(TRUE)
    /\ parseBoolean("Off") = Accepted(FALSE) /\ parseBoolean("0") = Accepted(FALSE)
    /\ parseBoolean("__") = Rejected /\ parseBoolean("secure") = Rejected
    /\ parseBoolean("_Legacy") = Rejected /\ parseBoolean("maybe") = Rejected
BY Words, Zenon DEF parseBoolean, Undefined, Empty

\* MAX_FRAME_BYTES.
LEMMA FrameAgrees ==
    ASSUME NEW text \in NumberTexts \cup {Undefined}
    PROVE  Agrees(maxFrameBytes(text), text, DocumentedFrame)
<1>1. CASE text \in {Undefined, "_2048_", "2049", "0x400", "16777216"}
    BY <1>1, FrameParsed, FrameTable, SMT DEF Agrees
<1>2. CASE text \in {Empty, "0", "1", "1023", "16777217", "many"}
    <2>1. text \notin DOMAIN DocumentedFrame
        BY <1>2, FrameTable, SMT DEF Undefined, Empty
    <2>2. maxFrameBytes(text) = Rejected
        BY <1>2, FrameParsed, SMT
    <2>3. QED
        BY <2>1, <2>2, SMT DEF Agrees
<1>3. QED
    BY <1>1, <1>2, SMT DEF NumberTexts

\* MAX_PENDING_PER_IP.
LEMMA PendingAgrees ==
    ASSUME NEW text \in NumberTexts \cup {Undefined}
    PROVE  Agrees(parsePositiveInt(text, 17), text, DocumentedPending)
<1>1. CASE text \in {Undefined, Empty, "1", "_2048_", "1023", "0x400"}
    BY <1>1, PendingParsed, PendingTable, SMT DEF Agrees
<1>2. CASE text \in {"0", "2049", "16777216", "16777217", "many"}
    <2>1. text \notin DOMAIN DocumentedPending
        BY <1>2, PendingTable, SMT DEF Undefined, Empty
    <2>2. parsePositiveInt(text, 17) = Rejected
        BY <1>2, PendingParsed, SMT
    <2>3. QED
        BY <2>1, <2>2, SMT DEF Agrees
<1>3. QED
    BY <1>1, <1>2, SMT DEF NumberTexts

\* DISABLE_RELAY_DATA.
LEMMA RelayAgrees ==
    ASSUME NEW text \in WordTexts \cup {Undefined}
    PROVE  Agrees(parseBoolean(text), text, DocumentedRelay)
<1>1. CASE text \in {Undefined, Empty, "Off", "0"}
    BY <1>1, RelayParsed, RelayTable, Zenon DEF Agrees
<1>2. CASE text \in {"_TRUE_", "yes"}
    BY <1>2, RelayParsed, RelayTable, Zenon DEF Agrees
<1>3. CASE text \in {"__", "secure", "_Legacy", "maybe"}
    <2>1. text \notin DOMAIN DocumentedRelay
        BY <1>3, RelayTable, SMT DEF Undefined, Empty
    <2>2. parseBoolean(text) = Rejected
        BY <1>3, RelayParsed, Zenon
    <2>3. QED
        BY <2>1, <2>2, Zenon DEF Agrees
<1>4. QED
    BY <1>1, <1>2, <1>3, Zenon DEF WordTexts

\* CONNECTION_MODE.
LEMMA ModeAgrees ==
    ASSUME NEW text \in WordTexts \cup {Undefined}
    PROVE  Agrees(parseConnectionMode(text), text, DocumentedMode)
BY Words, SMT DEF WordTexts, Undefined, Empty, Agrees, parseConnectionMode, DocumentedMode

\* readServerConfig accepts an environment exactly if the table allows each of
\* its values, the "matching" of the public key aside, which it does not check,
\* and yields the documented values, whatever they are combined with.
THEOREM ConfigExact == \A e \in Environment : ConfigAsDocumented(e)
<1> TAKE e \in Environment
<1> DEFINE frame    == maxFrameBytes(e.MAX_FRAME_BYTES)
           pending  == parsePositiveInt(e.MAX_PENDING_PER_IP, 17)
           relay    == parseBoolean(e.DISABLE_RELAY_DATA)
           mode     == parseConnectionMode(e.CONNECTION_MODE)
           hostname == IF e.EASYTIER_HOSTNAME = Unset THEN 4 ELSE e.EASYTIER_HOSTNAME
           pinned   == HasKey(e.LOCAL_PRIVATE_KEY)
           parsed   == frame.ok /\ pending.ok /\ relay.ok /\ mode.ok
           sound    == /\ requireText(e.NETWORK_NAME) /\ e.NETWORK_NAME <= 255
                       /\ requireText(e.NETWORK_SECRET)
                       /\ pinned = HasKey(e.LOCAL_PUBLIC_KEY)
                       /\ hostname \in 1..255
                       /\ pinned => /\ decodeBase64Key(e.LOCAL_PUBLIC_KEY)
                                    /\ decodeBase64Key(e.LOCAL_PRIVATE_KEY)
           read     == readServerConfig(e)
           allowed  == /\ e.MAX_FRAME_BYTES \in DOMAIN DocumentedFrame
                       /\ e.MAX_PENDING_PER_IP \in DOMAIN DocumentedPending
                       /\ e.DISABLE_RELAY_DATA \in DOMAIN DocumentedRelay
                       /\ e.CONNECTION_MODE \in DOMAIN DocumentedMode
<1>1. /\ e.NETWORK_NAME \in Nat \cup {Unset} /\ e.NETWORK_SECRET \in Nat \cup {Unset}
      /\ e.EASYTIER_HOSTNAME \in Nat \cup {Unset}
      /\ e.LOCAL_PRIVATE_KEY \in Nat \cup {BadKey} /\ e.LOCAL_PUBLIC_KEY \in Nat \cup {BadKey}
      /\ e.MAX_FRAME_BYTES \in NumberTexts \cup {Undefined}
      /\ e.MAX_PENDING_PER_IP \in NumberTexts \cup {Undefined}
      /\ e.DISABLE_RELAY_DATA \in WordTexts \cup {Undefined}
      /\ e.CONNECTION_MODE \in WordTexts \cup {Undefined}
    BY DEF Environment
<1>2. /\ Agrees(frame, e.MAX_FRAME_BYTES, DocumentedFrame)
      /\ Agrees(pending, e.MAX_PENDING_PER_IP, DocumentedPending)
      /\ Agrees(relay, e.DISABLE_RELAY_DATA, DocumentedRelay)
      /\ Agrees(mode, e.CONNECTION_MODE, DocumentedMode)
    BY <1>1, FrameAgrees, PendingAgrees, RelayAgrees, ModeAgrees
<1>3. /\ sound /\ parsed =>
           /\ read.ok = TRUE /\ read.hostname = hostname /\ read.disableRelayData = relay.value
           /\ read.maxFrameBytes = frame.value /\ read.maxPendingPerIp = pending.value
           /\ read.connectionMode = mode.value
      /\ ~(sound /\ parsed) => read.ok = FALSE
    BY DEF readServerConfig, Rejected
<1>4. sound <=> /\ e.NETWORK_NAME \in 1..255 /\ e.NETWORK_SECRET > 0
                /\ e.EASYTIER_HOSTNAME \in {Unset} \cup 1..255
                /\ \/ e.LOCAL_PRIVATE_KEY = 0 /\ e.LOCAL_PUBLIC_KEY = 0
                   \/ e.LOCAL_PRIVATE_KEY > 0 /\ e.LOCAL_PUBLIC_KEY > 0
    BY <1>1 DEF requireText, HasKey, decodeBase64Key, Unset, BadKey
<1> HIDE DEF frame, pending, relay, mode, read
<1>5. \A value : Accepted(value).ok = TRUE /\ Accepted(value).value = value
    BY DEF Accepted
<1>6. Rejected.ok = FALSE
    BY DEF Rejected
<1>7. parsed <=> allowed
    BY <1>2, <1>5, <1>6 DEF Agrees
<1>8. allowed => /\ frame.value = DocumentedFrame[e.MAX_FRAME_BYTES]
                 /\ pending.value = DocumentedPending[e.MAX_PENDING_PER_IP]
                 /\ relay.value = DocumentedRelay[e.DISABLE_RELAY_DATA]
                 /\ mode.value = DocumentedMode[e.CONNECTION_MODE]
    BY <1>2, <1>5, Zenon DEF Agrees
<1>9. e.EASYTIER_HOSTNAME = Unset => hostname = 4
    OBVIOUS
<1> HIDE DEF sound, parsed, allowed, hostname
<1>10. /\ read.ok <=> sound /\ allowed
       /\ read.ok =>
            /\ read.maxFrameBytes = DocumentedFrame[e.MAX_FRAME_BYTES]
            /\ read.maxPendingPerIp = DocumentedPending[e.MAX_PENDING_PER_IP]
            /\ read.disableRelayData = DocumentedRelay[e.DISABLE_RELAY_DATA]
            /\ read.connectionMode = DocumentedMode[e.CONNECTION_MODE]
            /\ e.EASYTIER_HOSTNAME = Unset => read.hostname = 4
    BY <1>3, <1>7, <1>8, <1>9
<1>11. QED
    BY <1>4, <1>10, Zenon DEF ConfigAsDocumented, OtherRows, KeysGiven, read, allowed

\* The environments of a deployment, and what one change makes of them.
LEMMA Environments == \A e \in Envs : {e} \cup Changes(e) \subseteq Environment
<1> TAKE e \in Envs
<1>1. e \in Environment
    <2>1. PICK priv \in {0, 1, BadKey}, pub \in {0, 1, 2, BadKey} :
            e = [LeastEnv EXCEPT !.LOCAL_PRIVATE_KEY = priv, !.LOCAL_PUBLIC_KEY = pub]
        BY DEF Envs
    <2>2. LeastEnv \in Environment
        BY DEF LeastEnv, Environment
    <2>3. priv \in Nat \cup {BadKey} /\ pub \in Nat \cup {BadKey}
        OBVIOUS
    <2>4. QED
        BY <2>1, <2>2, <2>3 DEF Environment
<1>2. \A n \in Nat \cup {Unset} : /\ [e EXCEPT !.NETWORK_NAME = n] \in Environment
                                  /\ [e EXCEPT !.NETWORK_SECRET = n] \in Environment
                                  /\ [e EXCEPT !.EASYTIER_HOSTNAME = n] \in Environment
    BY <1>1 DEF Environment
<1>3. \A t \in NumberTexts : /\ [e EXCEPT !.MAX_FRAME_BYTES = t] \in Environment
                             /\ [e EXCEPT !.MAX_PENDING_PER_IP = t] \in Environment
    BY <1>1 DEF Environment
<1>4. \A t \in WordTexts : /\ [e EXCEPT !.DISABLE_RELAY_DATA = t] \in Environment
                           /\ [e EXCEPT !.CONNECTION_MODE = t] \in Environment
    BY <1>1 DEF Environment
<1>5. ASSUME NEW f \in Changes(e)
      PROVE  f \in Environment
    <2>1. \/ \E n \in {Unset, 0, 255, 256} : f = [e EXCEPT !.NETWORK_NAME = n]
          \/ \E n \in {Unset, 0} : f = [e EXCEPT !.NETWORK_SECRET = n]
          \/ \E n \in {0, 255, 256} : f = [e EXCEPT !.EASYTIER_HOSTNAME = n]
          \/ \E t \in NumberTexts : f = [e EXCEPT !.MAX_FRAME_BYTES = t]
          \/ \E t \in NumberTexts : f = [e EXCEPT !.MAX_PENDING_PER_IP = t]
          \/ \E t \in WordTexts : f = [e EXCEPT !.DISABLE_RELAY_DATA = t]
          \/ \E t \in WordTexts : f = [e EXCEPT !.CONNECTION_MODE = t]
        BY <1>5 DEF Changes
    <2>2. CASE \E n \in {Unset, 0, 255, 256} : f = [e EXCEPT !.NETWORK_NAME = n]
        <3>1. PICK n \in {Unset, 0, 255, 256} : f = [e EXCEPT !.NETWORK_NAME = n]
            BY <2>2
        <3>2. n \in Nat \cup {Unset}
            OBVIOUS
        <3>3. QED
            BY ONLY <1>2, <3>1, <3>2
    <2>3. CASE \E n \in {Unset, 0} : f = [e EXCEPT !.NETWORK_SECRET = n]
        <3>1. PICK n \in {Unset, 0} : f = [e EXCEPT !.NETWORK_SECRET = n]
            BY <2>3
        <3>2. n \in Nat \cup {Unset}
            OBVIOUS
        <3>3. QED
            BY ONLY <1>2, <3>1, <3>2
    <2>4. CASE \E n \in {0, 255, 256} : f = [e EXCEPT !.EASYTIER_HOSTNAME = n]
        <3>1. PICK n \in {0, 255, 256} : f = [e EXCEPT !.EASYTIER_HOSTNAME = n]
            BY <2>4
        <3>2. n \in Nat \cup {Unset}
            OBVIOUS
        <3>3. QED
            BY ONLY <1>2, <3>1, <3>2
    <2>5. CASE \E t \in NumberTexts : f = [e EXCEPT !.MAX_FRAME_BYTES = t]
        BY <1>3, <2>5, Zenon
    <2>6. CASE \E t \in NumberTexts : f = [e EXCEPT !.MAX_PENDING_PER_IP = t]
        BY <1>3, <2>6, Zenon
    <2>7. CASE \E t \in WordTexts : f = [e EXCEPT !.DISABLE_RELAY_DATA = t]
        BY <1>4, <2>7, Zenon
    <2>8. CASE \E t \in WordTexts : f = [e EXCEPT !.CONNECTION_MODE = t]
        BY <1>4, <2>8, Zenon
    <2>9. QED
        BY ONLY <2>1, <2>2, <2>3, <2>4, <2>5, <2>6, <2>7, <2>8
<1>6. QED
    BY <1>1, <1>5

-----------------------------------------------------------------------------
(* The pair in use matches wherever a connection is open.                  *)

\* Requests go on only with an accepted configuration, and connections are
\* opened only with keys that match.
PairInv ==
    /\ \A r \in Req : req[r].at # "idle" => config.ok
    /\ \A r \in Req : Connected(r) => SecurePeerAccepts(keys)

\* Every step keeps the keys of open connections a matching pair.
LEMMA PairStep == Typed /\ LifeInv /\ PairInv /\ [Next]_vars => PairInv'
<1> SUFFICES ASSUME Typed, LifeInv, PairInv, [Next]_vars PROVE PairInv'
    OBVIOUS
<1> USE Constants, StartupAssumption
<1>0. (config.ok)' = config.ok
    BY EnvStep
<1>a. ASSUME keys' = keys,
             \A s \in Req : req'[s].at # "idle" => req[s].at # "idle" \/ config.ok,
             \A s \in Req : Connected(s)' => Connected(s) \/ SecurePeerAccepts(keys)
      PROVE  PairInv'
    BY <1>0, <1>a DEF PairInv
<1>b. ASSUME \A s \in Req : req'[s].at # "idle" => req[s].at # "idle",
             \A s \in Req : ~Connected(s)'
      PROVE  PairInv'
    BY <1>0, <1>b DEF PairInv
<1>c. \A r \in Req : init[r].step \in {"get", "put", "list"} => \A s \in Req : ~Connected(s)
    BY DEF LifeInv, Done
<1>1. CASE UNCHANGED vars
    BY <1>1, <1>a DEF vars, memVars, Connected
<1>2. ASSUME NEW r \in Req, NEW path, NEW get, NEW upgrade, WorkerFetch(r, path, get, upgrade)
      PROVE  PairInv'
    <2>1. keys' = keys /\ (req' = req \/ (req' = [req EXCEPT ![r].at = "forwarded"] /\ config.ok))
        BY <1>2 DEF WorkerFetch, memVars
    <2>2. \A s \in Req : /\ req'[s].at # "idle" => req[s].at # "idle" \/ config.ok
                         /\ Connected(s)' => Connected(s)
        BY <2>1 DEF Connected, Typed, Reqs
    <2>3. QED
        BY <1>a, <2>1, <2>2
<1>3. ASSUME NEW r \in Req, ObjectFetch(r) PROVE PairInv'
    <2>1. req' = [req EXCEPT ![r].at = "waiting",
                             ![r].on = IF identityReady = NoReq THEN r ELSE identityReady]
        BY <1>3 DEF ObjectFetch, EnsureIdentity
    <2>2. req[r].at = "forwarded"
        BY <1>3 DEF ObjectFetch
    <2>3. \A s \in Req : /\ req'[s].at # "idle" => req[s].at # "idle"
                         /\ Connected(s)' => Connected(s)
        BY <2>1, <2>2 DEF Connected, Typed, Reqs
    <2>4. CASE identityReady # NoReq
        <3>1. keys' = keys
            BY <1>3, <2>4 DEF ObjectFetch, EnsureIdentity
        <3>2. QED
            BY <1>a, <2>3, <3>1
    <2>5. CASE identityReady = NoReq
        <3>1. \A s \in Req : ~Connected(s)
            BY <2>5 DEF LifeInv, Done
        <3>2. QED
            BY <1>b, <2>3, <3>1
    <2>6. QED
        BY <2>4, <2>5
<1>4. ASSUME NEW r \in Req, IdentityRead(r) \/ IdentityWritten(r) PROVE PairInv'
    <2>1. init[r].step \in {"get", "put"} /\ req' = req
        BY <1>4 DEF IdentityRead, IdentityWritten
    <2>2. \A s \in Req : ~Connected(s)'
        BY <1>c, <2>1 DEF Connected
    <2>3. QED
        BY <1>b, <2>1, <2>2
<1>5. ASSUME NEW r \in Req, RouteIdsRestored(r) \/ (\E applied \in BOOLEAN : InitCallFails(r, applied))
      PROVE  PairInv'
    <2>1. keys' = keys /\ req' = req
        BY <1>5 DEF RouteIdsRestored, InitCallFails
    <2>2. \A s \in Req : Connected(s)' => Connected(s)
        BY <2>1 DEF Connected
    <2>3. QED
        BY <1>a, <2>1, <2>2
<1>6. ASSUME NEW r \in Req, NEW capacity, FetchResumes(r, capacity) PROVE PairInv'
    <2>1. keys' = keys /\ req[r].at = "waiting"
        BY <1>6 DEF FetchResumes, memVars, Settled
    <2>2. \A s \in Req : s # r => req'[s] = req[s]
        BY <1>6 DEF FetchResumes, Typed
    <2>3. req'[r].at = "idle" \/ SecurePeerAccepts(keys)
        BY <1>6 DEF FetchResumes, Typed
    <2>4. \A s \in Req : /\ req'[s].at # "idle" => req[s].at # "idle"
                         /\ Connected(s)' => Connected(s) \/ SecurePeerAccepts(keys)
        BY <2>1, <2>2, <2>3 DEF Connected
    <2>5. QED
        BY <1>a, <2>1, <2>4
<1>7. ASSUME NEW r \in Req, Handshake(r) \/ Register(r) \/ LearnRoute(r) \/ Disconnect(r)
      PROVE  PairInv'
    <2>1. keys' = keys
        BY <1>7 DEF Handshake, Register, LearnRoute, Disconnect, memVars
    <2>2. \/ req' = req
          \/ Connected(r) /\ req' = [req EXCEPT ![r] = Idle]
          \/ Connected(r) /\ req' = [req EXCEPT ![r].at = "authenticating"]
          \/ Connected(r) /\ req' = [req EXCEPT ![r].at = "ready"]
        BY <1>7 DEF Handshake, Register, LearnRoute, Disconnect, Connected
    <2>3. \A s \in Req : /\ req'[s].at # "idle" => req[s].at # "idle"
                         /\ Connected(s)' => Connected(s)
        BY <2>2 DEF Connected, Typed, Reqs
    <2>4. QED
        BY <1>a, <2>1, <2>3
<1>8. ASSUME RouteIdWritten \/ \E applied \in BOOLEAN : RouteIdWriteFails(applied)
      PROVE  PairInv'
    <2>1. keys' = keys /\ req' = req
        BY <1>8 DEF RouteIdWritten, RouteIdWriteFails
    <2>2. \A s \in Req : Connected(s)' => Connected(s)
        BY <2>1 DEF Connected
    <2>3. QED
        BY <1>a, <2>1, <2>2
<1>9. CASE Evict
    <2>1. \A s \in Req : req'[s].at = "idle"
        BY <1>9 DEF Evict
    <2>2. QED
        BY <1>b, <2>1 DEF Connected
<1>10. QED
    BY <1>1, <1>2, <1>3, <1>4, <1>5, <1>6, <1>7, <1>8, <1>9 DEF Next, Startup, Peering, Storage

\* An environment with an open connection is one the whole table allows.
LEMMA ServedAllowed ==
    ASSUME Typed, KeyInv, PairInv, NEW r \in Req, Connected(r)
    PROVE  TableAllows(env)
<1>1. env \in Environment
    BY Environments DEF Typed
<1>2. config.ok /\ SecurePeerAccepts(keys) /\ keys # NoKeys
    BY DEF PairInv, KeyInv, Connected
<1>3. OtherRows(env) /\ KeysGiven(env)
    BY <1>1, <1>2, ConfigExact DEF ConfigAsDocumented, config
<1>4. config.localKeys = [priv |-> env.LOCAL_PRIVATE_KEY, pub |-> env.LOCAL_PUBLIC_KEY]
    BY <1>2 DEF config, readServerConfig, Rejected
<1>5. CASE Pinned
    <2>1. keys = config.localKeys
        BY <1>2, <1>5 DEF KeyInv, Identity
    <2>2. KeysMatch(env)
        BY <1>2, <1>4, <2>1 DEF SecurePeerAccepts, KeysMatch
    <2>3. QED
        BY <1>3, <2>2 DEF TableAllows
<1>6. CASE ~Pinned
    <2>1. env.LOCAL_PRIVATE_KEY = 0 /\ env.LOCAL_PUBLIC_KEY = 0
        BY <1>2, <1>4, <1>6 DEF Pinned, NoKeys
    <2>2. QED
        BY <1>3, <2>1 DEF TableAllows, KeysMatch
<1>7. QED
    BY <1>5, <1>6

\* The Worker and the object read every environment as the table says, but for
\* a public key that does not match, and no connection is ever open in an
\* environment that the table, its matching key included, does not allow.
THEOREM ConfigCorrect == Spec => []ConfigDocumented
<1>1. Init => PairInv
    BY Constants DEF Init, PairInv, Connected
<1>2. Typed => (answer # "none" => \A changed \in {env} \cup Changes(env) : ConfigAsDocumented(changed))
    BY ConfigExact, Environments DEF Typed
<1>3. Typed /\ KeyInv /\ PairInv => \A r \in Req : Connected(r) => TableAllows(env)
    BY ServedAllowed
<1>4. Typed /\ KeyInv /\ PairInv => ConfigDocumented
    BY <1>2, <1>3 DEF ConfigDocumented, Connected
<1>5. QED
    BY <1>1, <1>4, PairStep, LifeCorrect, KeysCorrect, PTL DEF Spec
=============================================================================
