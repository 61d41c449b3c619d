--------------------------- MODULE ServerStartup ---------------------------
(***************************************************************************)
(* From a request at the Worker (index.ts) to a registered peer, over the  *)
(* lives of the Durable Object (server.ts): resolving the server's         *)
(* identity, restoring and persisting the route id of the network.         *)
(*                                                                         *)
(* The object may be evicted at any point, its storage calls take time and *)
(* may fail, and a call that failed or was cut short may still have been   *)
(* applied.  Events may reach the object while it waits for its storage    *)
(* (the input gate of the platform is not relied on); what it sends is     *)
(* held back while a write is under way (the output gate of the platform). *)
(***************************************************************************)
EXTENDS ServerConfig, FiniteSets

CONSTANTS
    Req,        \* requests that may be under way at the same time
    MaxEvict,   \* bound on evictions
    MaxFaults   \* bound on failing storage calls

NoReq == "none"

ASSUME StartupAssumption == NoReq \notin Req /\ MaxEvict \in Nat /\ MaxFaults \in Nat

VARIABLES
    env,         \* the environment of the deployment
    disk,        \* DO storage: the stored identity and route id
    identityReady,  \* the request whose initIdentity the object waits for, or NoReq
    init,        \* init[r]: where the initIdentity started by r is, and its candidate keys
    keys,        \* localPrivateKey, localPublicKey
    rpc,         \* EasyTierRpc: its public key, and the route id of the network (0 if none yet)
    persisted,   \* persistedRouteIds has the network
    resync,      \* resyncPendingNetworks has the network
    writing,     \* the route id whose put is under way, or 0
    req,         \* a request: where it is, whose initIdentity it awaits, its SecurePeer's key
    answer,      \* the answer the last step gave to a request, if any
    \* history
    minted,      \* keys and route ids generated so far
    toldKeys,    \* public keys clients have seen, in handshakes and route infos
    toldIds,     \* route ids clients have seen
    toldBefore,  \* one of them in an earlier life of the object
    announced,   \* "none", or how the first peer of this life was announced
    lostWrite,   \* a put of the route id has failed
    evictions, faults

memVars  == <<identityReady, init, keys, rpc, persisted, resync, writing, announced>>
pastVars == <<toldKeys, toldIds, toldBefore>>
vars == <<env, disk, memVars, req, answer, minted, pastVars, lostWrite, evictions, faults>>

NoKeys == [priv |-> 0, pub |-> 0]
NoRpc  == [pub |-> 0, routeId |-> 0]
NoInit == [step |-> "none", cand |-> NoKeys]
Idle   == [at |-> "idle", on |-> NoReq, pub |-> 0]

config == readServerConfig(env)

\* A promise that is settled is acted upon before the next event
Settled(r) == req[r].at = "waiting" /\ init[req[r].on].step \in {"done", "failed"}
NextEvent  == \A r \in Req : ~Settled(r)

Fault == faults < MaxFaults /\ faults' = faults + 1

-----------------------------------------------------------------------------
(* index.ts                                                                *)

\* fetch of the Worker; `get': the method is GET
WorkerFetch(r, path, get, upgrade) ==
    /\ NextEvent
    /\ req[r] = Idle
    /\ answer' = IF path = "/healthz" /\ get
                 THEN IF config.ok THEN "healthy" ELSE "invalid"
                 ELSE IF path # "/" THEN "not found"
                 ELSE IF ~upgrade THEN "upgrade required"
                 ELSE IF ~config.ok THEN "invalid" ELSE "none"
    /\ req' = IF answer' = "none" THEN [req EXCEPT ![r].at = "forwarded"] ELSE req
    /\ UNCHANGED <<env, disk, memVars, minted, pastVars, lostWrite, evictions, faults>>

-----------------------------------------------------------------------------
(* server.ts: fetch and ensureIdentity                                     *)

\* Mutant: every request initialises the identity
EnsureIdentity_Each(r) ==
    /\ req' = [req EXCEPT ![r].at = "waiting", ![r].on = r]
    /\ identityReady' = r
    /\ IF config.localKeys # NoKeys
       THEN /\ init' = [init EXCEPT ![r] = [step |-> "list", cand |-> config.localKeys]]
            /\ keys' = config.localKeys
            /\ rpc' = [pub |-> config.localKeys.pub, routeId |-> 0]
       ELSE /\ init' = [init EXCEPT ![r] = [step |-> "get", cand |-> NoKeys]]
            /\ UNCHANGED <<keys, rpc>>

\* Requests share one initialisation.  With configured keys it goes straight
\* to the route ids.
EnsureIdentity(r) ==
    /\ req' = [req EXCEPT ![r].at = "waiting",
                          ![r].on = IF identityReady = NoReq THEN r ELSE identityReady]
    /\ identityReady' = IF identityReady = NoReq THEN r ELSE identityReady
    /\ IF identityReady # NoReq
       THEN UNCHANGED <<init, keys, rpc>>
       ELSE IF config.localKeys # NoKeys
       THEN /\ init' = [init EXCEPT ![r] = [step |-> "list", cand |-> config.localKeys]]
            /\ keys' = config.localKeys
            /\ rpc' = [pub |-> config.localKeys.pub, routeId |-> 0]
       ELSE /\ init' = [init EXCEPT ![r] = [step |-> "get", cand |-> NoKeys]]
            /\ UNCHANGED <<keys, rpc>>

ObjectFetch(r) ==
    /\ NextEvent /\ answer' = "none"
    /\ req[r].at = "forwarded"
    /\ EnsureIdentity(r)
    /\ UNCHANGED <<env, disk, persisted, resync, writing, announced, minted, pastVars,
                   lostWrite, evictions, faults>>

\* The keys are resolved: they are taken over, a new EasyTierRpc is made, and
\* the list of route ids is requested
Resolve(r, pair) ==
    /\ init' = [init EXCEPT ![r] = [step |-> "list", cand |-> pair]]
    /\ keys' = pair
    /\ rpc' = [pub |-> pair.pub, routeId |-> 0]

\* Mutant: a failed initialisation is remembered
InitFails_Remembered(r) ==
    /\ init' = [init EXCEPT ![r].step = "failed"]
    /\ UNCHANGED identityReady

\* The catch of ensureIdentity: the next request starts again
InitFails(r) ==
    /\ init' = [init EXCEPT ![r].step = "failed"]
    /\ identityReady' = NoReq

\* Mutant: keys of 33 bytes are expected
isValidKeypair_WrongLength(pair) == FALSE

isValidKeypair(pair) == pair.priv > 0 /\ pair.pub > 0

\* The stored key pair, if it is usable
StoredKeys(pair) == IF isValidKeypair(pair) THEN pair ELSE NoKeys

\* generate_keypair makes a pair that was not seen before
parseGeneratedKeypair(n) == [priv |-> n, pub |-> n]

\* storage.get of the identity returns
IdentityRead(r) ==
    LET stored    == StoredKeys(disk.keys)
        generated == parseGeneratedKeypair(minted + 1)
    IN  /\ NextEvent /\ answer' = "none"
        /\ init[r].step = "get"
        /\ IF stored # NoKeys
           THEN Resolve(r, stored) /\ UNCHANGED minted
           ELSE /\ init' = [init EXCEPT ![r] = [step |-> "put", cand |-> generated]]
                /\ minted' = minted + 1
                /\ UNCHANGED <<keys, rpc>>
        /\ UNCHANGED <<env, disk, identityReady, persisted, resync, writing, announced, req,
                       pastVars, lostWrite, evictions, faults>>

\* storage.put of the identity returns
IdentityWritten(r) ==
    /\ NextEvent /\ answer' = "none"
    /\ init[r].step = "put"
    /\ disk' = [disk EXCEPT !.keys = init[r].cand]
    /\ Resolve(r, init[r].cand)
    /\ UNCHANGED <<env, identityReady, persisted, resync, writing, announced, req, minted,
                   pastVars, lostWrite, evictions, faults>>

\* set_peer_route_id accepts the stored record
ValidRouteId(id) == id > 0

\* Mutant: a stored id is not handed to the WASM core
setPeerRouteId_Dropped(restored) == UNCHANGED <<rpc, persisted>>

setPeerRouteId(restored) ==
    /\ rpc' = IF restored THEN [rpc EXCEPT !.routeId = disk.routeId] ELSE rpc
    /\ persisted' = (persisted \/ restored)

\* storage.list returns: restoreRouteIds, and the identity is ready
RouteIdsRestored(r) ==
    LET restored == ValidRouteId(disk.routeId)
    IN  /\ NextEvent /\ answer' = "none"
        /\ init[r].step = "list"
        /\ init' = [init EXCEPT ![r].step = "done"]
        /\ setPeerRouteId(restored)
        /\ resync' = (resync \/ restored)
        /\ UNCHANGED <<env, disk, identityReady, keys, writing, announced, req, minted,
                       pastVars, lostWrite, evictions, faults>>

\* One of these calls fails; a failing put may have been applied
InitCallFails(r, applied) ==
    /\ NextEvent /\ answer' = "none"
    /\ Fault
    /\ init[r].step \in {"get", "put", "list"}
    /\ InitFails(r)
    /\ disk' = IF init[r].step = "put" /\ applied THEN [disk EXCEPT !.keys = init[r].cand] ELSE disk
    /\ UNCHANGED <<env, keys, rpc, persisted, resync, writing, announced, req, minted,
                   pastVars, lostWrite, evictions>>

\* The constructor of SecurePeer: both keys decode, and they match
SecurePeerAccepts(pair) == pair.priv > 0 /\ pair.pub > 0 /\ pair.priv = pair.pub

\* fetch goes on when the identity is ready: the connection is refused for lack
\* of capacity, or because SecurePeer finds that the keys do not match, or open
FetchResumes(r, capacity) ==
    /\ Settled(r)
    /\ answer' = IF init[req[r].on].step = "failed" THEN "invalid"
                 ELSE IF ~capacity THEN "capacity exceeded"
                 ELSE IF ~SecurePeerAccepts(keys) THEN "invalid" ELSE "open"
    /\ req' = [req EXCEPT ![r] = IF answer' = "open"
                                THEN [at |-> "open", on |-> NoReq, pub |-> keys.pub] ELSE Idle]
    /\ UNCHANGED <<env, disk, memVars, minted, pastVars, lostWrite, evictions, faults>>

-----------------------------------------------------------------------------
(* server.ts: registration                                                 *)

\* external: the client receives message 2 with the server's static key
Handshake(r) ==
    /\ NextEvent /\ answer' = "none"
    /\ req[r].at = "open" /\ writing = 0
    /\ req' = [req EXCEPT ![r].at = "authenticating"]
    /\ toldKeys' = toldKeys \cup {req[r].pub}
    /\ UNCHANGED <<env, disk, memVars, minted, toldIds, toldBefore, lostWrite,
                   evictions, faults>>

persistPeerRouteId(id) ==
    IF persisted THEN UNCHANGED <<persisted, writing>>
    ELSE persisted' = TRUE /\ writing' = id

\* Mutant: peers that return are announced like any other
announcePeer_Incremental == resync' = FALSE /\ announced' = "incremental"

announcePeer ==
    /\ resync' = FALSE
    /\ announced' = IF announced # "none" THEN announced
                    ELSE IF resync THEN "full" ELSE "incremental"

\* Message 3: registerConnection and announcePeer.  add_peer creates the route
\* group, which takes a random route id unless one was restored.
Register(r) ==
    LET id == IF rpc.routeId # 0 THEN rpc.routeId ELSE minted + 1
    IN  /\ NextEvent /\ answer' = "none"
        /\ req[r].at = "authenticating"
        /\ req' = [req EXCEPT ![r].at = "ready"]
        /\ rpc' = [rpc EXCEPT !.routeId = id]
        /\ minted' = IF id = rpc.routeId THEN minted ELSE minted + 1
        /\ persistPeerRouteId(id)
        /\ announcePeer
        /\ UNCHANGED <<env, disk, identityReady, init, keys, pastVars, lostWrite,
                       evictions, faults>>

\* external: a peer receives the relay's route info
LearnRoute(r) ==
    /\ NextEvent /\ answer' = "none"
    /\ req[r].at = "ready" /\ writing = 0
    /\ toldKeys' = toldKeys \cup {rpc.pub}
    /\ toldIds' = toldIds \cup {rpc.routeId}
    /\ <<toldKeys', toldIds'>> # <<toldKeys, toldIds>>
    /\ UNCHANGED <<env, disk, memVars, req, minted, toldBefore, lostWrite, evictions,
                   faults>>

\* The put of the route id returns, or fails: the network is then forgotten so
\* that the next registration writes again
RouteIdWritten ==
    /\ NextEvent /\ answer' = "none"
    /\ writing # 0
    /\ disk' = [disk EXCEPT !.routeId = writing]
    /\ writing' = 0
    /\ UNCHANGED <<env, identityReady, init, keys, rpc, persisted, resync, announced, req, minted,
                   pastVars, lostWrite, evictions, faults>>

RouteIdWriteFails(applied) ==
    /\ NextEvent /\ answer' = "none"
    /\ Fault
    /\ writing # 0
    /\ disk' = IF applied THEN [disk EXCEPT !.routeId = writing] ELSE disk
    /\ writing' = 0
    /\ persisted' = FALSE
    /\ lostWrite' = TRUE
    /\ UNCHANGED <<env, identityReady, init, keys, rpc, resync, announced, req, minted,
                   pastVars, evictions>>

\* A connection ends
Disconnect(r) ==
    /\ NextEvent /\ answer' = "none"
    /\ req[r].at \in {"open", "authenticating", "ready"}
    /\ req' = [req EXCEPT ![r] = Idle]
    /\ UNCHANGED <<env, disk, memVars, minted, pastVars, lostWrite, evictions, faults>>

\* external: the platform evicts the object.  Requests and connections are
\* lost; writes under way are applied or not.
Evict ==
    /\ evictions < MaxEvict
    /\ evictions' = evictions + 1
    /\ \E landed \in {disk.keys} \cup {init[r].cand : r \in {q \in Req : init[q].step = "put"}},
          id \in {disk.routeId, IF writing = 0 THEN disk.routeId ELSE writing} :
            disk' = [keys |-> landed, routeId |-> id]
    /\ identityReady' = NoReq /\ init' = [r \in Req |-> NoInit]
    /\ keys' = NoKeys /\ rpc' = NoRpc
    /\ persisted' = FALSE /\ resync' = FALSE /\ writing' = 0 /\ announced' = "none"
    /\ req' = [r \in Req |-> Idle]
    /\ answer' = "none"
    /\ toldBefore' = (toldIds # {})
    /\ UNCHANGED <<env, minted, toldKeys, toldIds, lostWrite, faults>>

-----------------------------------------------------------------------------
\* A deployment starts with no records in its storage, or with records of
\* another version that it cannot use
Init ==
    /\ env \in Envs
    /\ disk \in {[keys |-> NoKeys, routeId |-> 0],
                 [keys |-> [priv |-> BadKey, pub |-> BadKey], routeId |-> -1]}
    /\ identityReady = NoReq /\ init = [r \in Req |-> NoInit]
    /\ keys = NoKeys /\ rpc = NoRpc
    /\ persisted = FALSE /\ resync = FALSE /\ writing = 0 /\ announced = "none"
    /\ req = [r \in Req |-> Idle] /\ answer = "none"
    /\ minted = 10
    /\ toldKeys = {} /\ toldIds = {} /\ toldBefore = FALSE
    /\ lostWrite = FALSE /\ evictions = 0 /\ faults = 0

Startup(r) ==
    \/ ObjectFetch(r) \/ IdentityRead(r) \/ IdentityWritten(r) \/ RouteIdsRestored(r)
    \/ \E applied \in BOOLEAN : InitCallFails(r, applied)
    \/ \E capacity \in BOOLEAN : FetchResumes(r, capacity)

Peering(r) ==
    Handshake(r) \/ Register(r) \/ LearnRoute(r) \/ Disconnect(r)

Storage == RouteIdWritten \/ \E applied \in BOOLEAN : RouteIdWriteFails(applied)

Next ==
    \/ \E r \in Req : \/ \E path \in {"/", "/healthz", "/x"}, get, upgrade \in BOOLEAN :
                             WorkerFetch(r, path, get, upgrade)
                      \/ Startup(r) \/ Peering(r)
    \/ Storage
    \/ Evict

Spec == Init /\ [][Next]_vars

\* Storage calls return and handlers run; clients try again, and are not
\* refused for lack of capacity for ever
Fairness ==
    /\ WF_vars(Storage)
    /\ \A r \in Req :
        /\ WF_vars(Startup(r))
        /\ SF_vars(WorkerFetch(r, "/", TRUE, TRUE))
        /\ SF_vars(FetchResumes(r, TRUE))

FairSpec == Spec /\ Fairness

-----------------------------------------------------------------------------
(* Properties.                                                             *)

\* Whatever variable of the environment is changed, readServerConfig takes or
\* refuses it as the table of the README says, when the Worker reads it for a
\* request and when the object does, but for a public key that does not match
\* the private one: it is taken, and /healthz says so.  By the time a connection
\* is open the whole table holds, the matching public key included: the
\* constructor of SecurePeer refuses every connection of other environments.
ConfigDocumented ==
    /\ answer # "none" => \A changed \in {env} \cup Changes(env) : ConfigAsDocumented(changed)
    /\ \A r \in Req : req[r].at \in {"open", "authenticating", "ready"} => TableAllows(env)

\* Clients remember the static key of their first handshake: no client ever
\* sees a second one, in a handshake or in a route info, whatever evictions,
\* failing calls and concurrent first requests there were.
KeyStable == \A k, l \in toldKeys : k = l

\* The route id of the network is as stable, unless a write of it failed.
RouteIdStable == lostWrite \/ \A i, j \in toldIds : i = j

\* A network that counts as persisted is: the stored id is the one in use.
PersistedIsStored == persisted /\ writing = 0 => disk.routeId = rpc.routeId

\* When clients have routes from an earlier life of the object, the first peer
\* of this life is announced with a full update.
ReturnersResynced == toldBefore /\ ~lostWrite => announced # "incremental"

\* A deployment that reports itself healthy and whose configured keys match
\* serves: it gets peers again, although storage calls failed and the object
\* was evicted.
Serves ==
    config.ok /\ config.localKeys.priv = config.localKeys.pub
        ~> \E r \in Req : req[r].at \in {"open", "authenticating", "ready"}
=============================================================================
