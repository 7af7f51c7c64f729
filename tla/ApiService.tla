----------------------------- MODULE ApiService -----------------------------
(***************************************************************************)
(* EthereumApiService (src/packages/node/src/ethereum/                    *)
(* api.service.ethereum.ts) and the worker's block fetch                  *)
(* (indexer/worker/worker.service.ts).                                     *)
(*                                                                         *)
(* init() connects to every configured endpoint concurrently under        *)
(* Promise.all.  Each connection, when it resolves, fills networkMeta if  *)
(* no other has yet, then compares its chain id with the project's; any   *)
(* rejection exits the process.  Once all have resolved they are added to *)
(* the connection pool in endpoint order.                                  *)
(*                                                                         *)
(* fetchBlocks() asks the pool's current api once and, on failure, falls  *)
(* into fetchBlocksFromFirstAvailableEndpoint, which asks this.api again  *)
(* up to MAX_RECONNECT_ATTEMPTS times.  The pool itself is node-core: as  *)
(* spec section 4.2 describes it, this.api is the next connection round-  *)
(* robin, one pointer shared by every caller.  The disconnect handlers    *)
(* that would mark a connection unhealthy are commented out in init, so   *)
(* every added connection stays in the rotation.                          *)
(***************************************************************************)
EXTENDS Integers, Sequences, SequencesExt, FiniteSets

CONSTANTS
  EndpointList,          (* network.endpoint, in configured order          *)
  ChainIds,              (* chain ids an endpoint may report               *)
  NetworkChainId,        (* network.chainId of the project                 *)
  Workers,               (* callers of fetchBlocks (WorkerService threads) *)
  MaxFetches,            (* fetchChainBlock calls per worker               *)
  MAX_RECONNECT_ATTEMPTS,
  NONE

ASSUME /\ Len(EndpointList) > 0
       /\ NetworkChainId \in ChainIds
       /\ MaxFetches \in Nat /\ MAX_RECONNECT_ATTEMPTS \in Nat \ {0}

N == Len(EndpointList)
Conns == 1 .. N

VARIABLES
  conn,         (* conn[i]: the promise of endpoint i in Promise.all       *)
  chainOf,      (* chainOf[i]: what api.getChainId() returned, once known *)
  networkMeta,  (* this.networkMeta: the connection it was read from      *)
  phase,        (* "init", "ready" (pool filled) or "exited"              *)
  pool,         (* connectionPoolService's connections, in order          *)
  next,         (* the pool's round-robin pointer                         *)
  down,         (* connections whose requests fail                        *)
  wpc,          (* wpc[w]: where worker w's fetchBlocks call stands       *)
  target,       (* target[w]: the connection its pending request went to  *)
  reconnectAttempts,
  fetched       (* fetched[w]: blocks worker w has received               *)

vars == <<conn, chainOf, networkMeta, phase, pool, next, down, wpc, target,
          reconnectAttempts, fetched>>

-----------------------------------------------------------------------------
(* Variant of this.api whose pointer runs past the end of the pool. *)
PickApiNoWrap(w) ==
  /\ target' = [target EXCEPT ![w] = pool[next]]
  /\ next' = next + 1

(* this.api: the pool hands out the connection under the pointer and moves *)
(* the pointer on.                                                         *)
PickApi(w) ==
  /\ target' = [target EXCEPT ![w] = pool[next]]
  /\ next' = (next % Len(pool)) + 1

(* Variant of a connection settling that never compares chain ids. *)
ConnectionSettlesNoChainCheck(i) ==
  /\ phase = "init"
  /\ conn[i] = "connecting"
  /\ \/ /\ phase' = "exited"
        /\ UNCHANGED <<conn, chainOf, networkMeta>>
     \/ \E cid \in ChainIds :
          /\ chainOf' = [chainOf EXCEPT ![i] = cid]
          /\ networkMeta' = IF networkMeta = NONE THEN i ELSE networkMeta
          /\ conn' = [conn EXCEPT ![i] = "connected"]
          /\ UNCHANGED phase
  /\ UNCHANGED <<pool, next, down, wpc, target, reconnectAttempts, fetched>>

(* One connection of Promise.all settles.  EthereumApiConnection.create    *)
(* may reject; otherwise the first connection to get here fills           *)
(* networkMeta, and a chain id other than network.chainId throws.  Either *)
(* rejection reaches the catch of init and process.exit(1).               *)
ConnectionSettles(i) ==
  /\ phase = "init"
  /\ conn[i] = "connecting"
  /\ \/ /\ phase' = "exited"
        /\ UNCHANGED <<conn, chainOf, networkMeta>>
     \/ \E cid \in ChainIds :
          /\ chainOf' = [chainOf EXCEPT ![i] = cid]
          /\ networkMeta' = IF networkMeta = NONE THEN i ELSE networkMeta
          /\ IF cid /= NetworkChainId
             THEN /\ phase' = "exited"
                  /\ UNCHANGED conn
             ELSE /\ conn' = [conn EXCEPT ![i] = "connected"]
                  /\ UNCHANGED phase
  /\ UNCHANGED <<pool, next, down, wpc, target, reconnectAttempts, fetched>>

(* Promise.all resolves: connectionPoolService.addBatchToConnections.      *)
AddBatchToConnections ==
  /\ phase = "init"
  /\ \A i \in Conns : conn[i] = "connected"
  /\ pool' = [k \in Conns |-> k]
  /\ phase' = "ready"
  /\ UNCHANGED <<conn, chainOf, networkMeta, next, down, wpc, target,
                 reconnectAttempts, fetched>>

(* fetchBlocks: the first request goes to this.api. *)
FetchBlocks(w) ==
  /\ PickApi(w)
  /\ wpc' = [wpc EXCEPT ![w] = "first"]

(* WorkerService.fetchChainBlock(height): apiService.fetchBlocks([height]) *)
(* once the service is initialised.                                        *)
FetchChainBlock(w) ==
  /\ phase = "ready"
  /\ wpc[w] = "idle"
  /\ fetched[w] < MaxFetches
  /\ FetchBlocks(w)
  /\ UNCHANGED <<conn, chainOf, networkMeta, phase, pool, down,
                 reconnectAttempts, fetched>>

(* The request in flight is answered: the blocks are returned to the       *)
(* caller.                                                                 *)
Received(w) ==
  /\ wpc[w] \in {"first", "retry"}
  /\ target[w] \notin down
  /\ wpc' = [wpc EXCEPT ![w] = "idle"]
  /\ fetched' = [fetched EXCEPT ![w] = @ + 1]
  /\ UNCHANGED <<conn, chainOf, networkMeta, phase, pool, next, down, target,
                 reconnectAttempts>>

(* The first request fails: the catch calls                               *)
(* fetchBlocksFromFirstAvailableEndpoint, whose loop starts with           *)
(* reconnectAttempts = 0 and asks this.api again.                          *)
FirstFailed(w) ==
  /\ wpc[w] = "first"
  /\ target[w] \in down
  /\ reconnectAttempts' = [reconnectAttempts EXCEPT ![w] = 0]
  /\ PickApi(w)
  /\ wpc' = [wpc EXCEPT ![w] = "retry"]
  /\ UNCHANGED <<conn, chainOf, networkMeta, phase, pool, down, fetched>>

(* Variant of the retry loop that never counts an attempt. *)
RetryFailedNoCount(w) ==
  /\ wpc[w] = "retry"
  /\ target[w] \in down
  /\ IF reconnectAttempts[w] + 1 < MAX_RECONNECT_ATTEMPTS
     THEN PickApi(w) /\ UNCHANGED wpc
     ELSE /\ wpc' = [wpc EXCEPT ![w] = "failed"]
          /\ UNCHANGED <<target, next>>
  /\ UNCHANGED <<conn, chainOf, networkMeta, phase, pool, down, fetched,
                 reconnectAttempts>>

(* A retry fails: reconnectAttempts++, and the loop asks this.api again   *)
(* while reconnectAttempts < MAX_RECONNECT_ATTEMPTS, or throws 'Maximum   *)
(* number of retries' to the worker.                                      *)
RetryFailed(w) ==
  /\ wpc[w] = "retry"
  /\ target[w] \in down
  /\ reconnectAttempts' = [reconnectAttempts EXCEPT ![w] = @ + 1]
  /\ IF reconnectAttempts[w] + 1 < MAX_RECONNECT_ATTEMPTS
     THEN PickApi(w) /\ UNCHANGED wpc
     ELSE /\ wpc' = [wpc EXCEPT ![w] = "failed"]
          /\ UNCHANGED <<target, next>>
  /\ UNCHANGED <<conn, chainOf, networkMeta, phase, pool, down, fetched>>

-----------------------------------------------------------------------------
Init ==
  /\ conn = [i \in Conns |-> "connecting"]
  /\ chainOf = [i \in Conns |-> NONE]
  /\ networkMeta = NONE
  /\ phase = "init"
  /\ pool = <<>>
  /\ next = 1
  /\ down \in SUBSET Conns
  /\ wpc = [w \in Workers |-> "idle"]
  /\ target = [w \in Workers |-> NONE]
  /\ reconnectAttempts = [w \in Workers |-> 0]
  /\ fetched = [w \in Workers |-> 0]

Next ==
  \/ \E i \in Conns : ConnectionSettles(i)
  \/ AddBatchToConnections
  \/ \E w \in Workers : FetchChainBlock(w) \/ Received(w) \/ FirstFailed(w)
                        \/ RetryFailed(w)

(* Every request is answered or fails within the 120 s fetchJson timeout, *)
(* and every pending connection settles.                                   *)
Fairness ==
  /\ \A i \in Conns : WF_vars(ConnectionSettles(i))
  /\ WF_vars(AddBatchToConnections)
  /\ \A w \in Workers : WF_vars(Received(w) \/ FirstFailed(w) \/ RetryFailed(w))

Spec == Init /\ [][Next]_vars /\ Fairness

-----------------------------------------------------------------------------
(* Every variable ranges over the values the code can give it. *)
TypeOK ==
  /\ conn \in [Conns -> {"connecting", "connected"}]
  /\ chainOf \in [Conns -> ChainIds \cup {NONE}]
  /\ networkMeta \in Conns \cup {NONE}
  /\ phase \in {"init", "ready", "exited"}
  /\ pool \in Seq(Conns)
  /\ next \in 1 .. N
  /\ wpc \in [Workers -> {"idle", "first", "retry", "failed"}]
  /\ target \in [Workers -> Conns \cup {NONE}]
  /\ reconnectAttempts \in [Workers -> 0 .. MAX_RECONNECT_ATTEMPTS]
  /\ fetched \in [Workers -> 0 .. MaxFetches]

(* Spec section 4.2 and scenario 6: no block is fetched from a connection *)
(* whose chain id differs from the project's, and networkMeta, read from   *)
(* whichever connection resolved first, describes a connection that      *)
(* passed the check.  Promise.all settles the connections in any order,  *)
(* and networkMeta is filled before the check runs.                      *)
OnlyVerifiedConnectionsServe ==
  /\ \A w \in Workers :
       wpc[w] \in {"first", "retry"} => chainOf[target[w]] = NetworkChainId
  /\ phase = "ready" => chainOf[networkMeta] = NetworkChainId

(* Spec section 4.2: fetchBlocksFromFirstAvailable walks the pool, so a   *)
(* fetch fails only when no connection of the pool can answer it.         *)
FailsOnlyWhenAllDown ==
  \A w \in Workers : wpc[w] = "failed" => \A k \in 1 .. Len(pool) : pool[k] \in down

(* Every fetchBlocks call returns or throws, and init ends with a full    *)
(* pool or an exit.                                                       *)
FetchSettles ==
  /\ \A w \in Workers : wpc[w] \in {"first", "retry"} ~> wpc[w] \in {"idle", "failed"}
  /\ <>(phase \in {"ready", "exited"})

====
