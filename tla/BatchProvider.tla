---------------------------- MODULE BatchProvider ----------------------------
(***************************************************************************)
(* JsonRpcBatchProvider (src/unnamed/part_001): JSON-RPC requests are      *)
(* queued in _pendingBatch and sent as one array either when a 1 ms timer  *)
(* fires or when the queue grows past batchSize.  While the size is being  *)
(* probed ('testing') every answered batch raises batchSize by one and the *)
(* first failed batch lowers it by one and freezes it ('determined').      *)
(* Several batches may be in flight at once; each is answered on its own.  *)
(* determineBatchSize is an independent probe that may run concurrently.   *)
(* The server accepts arrays of at most Limit requests.                    *)
(* Each batch goes out through fetchJson / _fetchData (src/unnamed/         *)
(* part_000): getUrl is retried after a 429 with a back-off, up to          *)
(* throttleLimit attempts, and the whole sequence races a 2-minute timer.   *)
(* The server may never answer a request.                                  *)
(***************************************************************************)
EXTENDS Integers, Sequences, SequencesExt, FiniteSets

CONSTANTS
  NumReqs,     (* number of send() calls the client makes                  *)
  Limit,       (* the largest batch the server answers                     *)
  ProbeLimit,  (* last size tried by determineBatchSize (10 in the code)   *)
  AttemptLimit (* connection.throttleLimit (5 in EthereumApi)              *)

ASSUME NumReqs \in Nat \ {0} /\ Limit \in Nat \ {0} /\ ProbeLimit \in Nat
ASSUME AttemptLimit \in Nat \ {0}

Reqs == 1 .. NumReqs
Settled == {"resolved", "rejected"}

VARIABLES
  req,         (* req[r]: "new", "pending", "inflight", "resolved", "rejected" *)
  pending,     (* this._pendingBatch (null is <<>>)                        *)
  timer,       (* this._pendingBatchAggregator is set                      *)
  inflight,    (* inflight[b]: the _fetchData loop of each batch whose     *)
               (* fetchJson has not settled                                *)
  batchSize,   (* this.batchSize                                           *)
  status,      (* this.batchSizeStatus                                     *)
  probe        (* determineBatchSize: the size it tries next; past         *)
               (* ProbeLimit once its loop has ended                       *)

vars == <<req, pending, timer, inflight, batchSize, status, probe>>

-----------------------------------------------------------------------------
(* What the server can answer to a batch of n requests: an array (every    *)
(* payload present, or one missing from position k on), a non-array body, *)
(* or a failed fetch.  A batch over the limit is never answered with an    *)
(* array.                                                                  *)
Reply(kind, k) == [kind |-> kind, at |-> k]

Replies(n) ==
  IF n > Limit THEN {Reply("nonArray", 0), Reply("error", 0)}
  ELSE {Reply("ok", 0), Reply("nonArray", 0), Reply("error", 0)}
         \cup {Reply("missing", k) : k \in 1 .. n}

(* Where the _fetchData loop of one request stands: its attempt, whether *)
(* it awaits getUrl or the 429 back-off, and whether runningTimeout armed  *)
(* its timer.                                                              *)
FetchStates == [attempt : 0 .. AttemptLimit - 1, at : {"getUrl", "stall"}, timer : BOOLEAN]

StartFetch == [attempt |-> 0, at |-> "getUrl", timer |-> TRUE]

(* Variant of runRequests that leaves _pendingBatch in place. *)
RunRequestsKeepPending(batch) ==
  /\ inflight' = inflight @@ (batch :> StartFetch)
  /\ req' = [r \in Reqs |-> IF Contains(batch, r) THEN "inflight" ELSE req[r]]
  /\ timer' = FALSE
  /\ UNCHANGED pending

(* runRequests: take the whole pending batch, clear it and the timer, and  *)
(* put the batch on the wire.                                              *)
RunRequests(batch) ==
  /\ inflight' = inflight @@ (batch :> StartFetch)
  /\ req' = [r \in Reqs |-> IF Contains(batch, r) THEN "inflight" ELSE req[r]]
  /\ pending' = <<>>
  /\ timer' = FALSE

(* Variant of send() that never schedules the timer. *)
SendNoTimer(r) ==
  /\ req[r] = "new"
  /\ LET batch == Append(pending, r) IN
       IF Len(batch) > batchSize
       THEN RunRequests(batch)
       ELSE /\ pending' = batch
            /\ req' = [req EXCEPT ![r] = "pending"]
            /\ UNCHANGED <<inflight, timer>>
  /\ UNCHANGED <<batchSize, status, probe>>

(* send(): push the request, schedule the timer if none is set, and flush  *)
(* at once when the queue holds more than batchSize requests (flush finds  *)
(* the timer just set, clears it and runs runRequests).                    *)
Send(r) ==
  /\ req[r] = "new"
  /\ LET batch == Append(pending, r) IN
       IF Len(batch) > batchSize
       THEN RunRequests(batch)
       ELSE /\ pending' = batch
            /\ req' = [req EXCEPT ![r] = "pending"]
            /\ timer' = TRUE
            /\ UNCHANGED inflight
  /\ UNCHANGED <<batchSize, status, probe>>

(* The 1 ms timer fires: runRequests. *)
TimerFires ==
  /\ timer
  /\ RunRequests(pending)
  /\ UNCHANGED <<batchSize, status, probe>>

(* Each answered request is resolved with its payload or rejected with     *)
(* the payload's error.                                                    *)
PayloadOutcomes(batch) == [ToSet(batch) -> Settled]

(* Variant of the failure path that never freezes the size. *)
DowngradeNoFreeze ==
  /\ batchSize' = IF status = "testing" THEN batchSize - 1 ELSE batchSize
  /\ UNCHANGED status

(* The .catch handler's probing step: a failure while testing lowers the   *)
(* size by one and freezes it.                                             *)
Downgrade ==
  /\ batchSize' = IF status = "testing" THEN batchSize - 1 ELSE batchSize
  /\ status' = "determined"

(* What the .then and .catch handlers of runRequests do with the reply    *)
(* to a batch: settle its requests and adjust the batch size.              *)
SettleBatch(batch, reply) ==
  CASE reply.kind = "ok" ->
         \E out \in PayloadOutcomes(batch) :
           /\ req' = [r \in Reqs |-> IF Contains(batch, r) THEN out[r] ELSE req[r]]
           /\ batchSize' = IF status = "testing" THEN batchSize + 1 ELSE batchSize
           /\ UNCHANGED status
    [] reply.kind = "nonArray" ->
         (* 'Invalid response': all rejected, the size is left alone    *)
         /\ req' = [r \in Reqs |-> IF Contains(batch, r) THEN "rejected" ELSE req[r]]
         /\ UNCHANGED <<batchSize, status>>
    [] reply.kind = "error" ->
         /\ req' = [r \in Reqs |-> IF Contains(batch, r) THEN "rejected" ELSE req[r]]
         /\ Downgrade
    [] OTHER ->
         (* payload k is undefined: requests before it are settled, the *)
         (* TypeError reaches .catch after batchSize++ and rejects the  *)
         (* rest; a settled promise ignores the second settlement.      *)
         \E out \in PayloadOutcomes(batch) :
           /\ req' = [r \in Reqs |->
                        IF ~Contains(batch, r) THEN req[r]
                        ELSE IF \E i \in 1 .. reply.at - 1 : batch[i] = r THEN out[r]
                        ELSE "rejected"]
           /\ UNCHANGED batchSize
           /\ status' = "determined"

(* The race of fetchJson for the batch settles: the batch is off the wire  *)
(* and its requests are settled by the handlers.                           *)
Respond(batch, reply) ==
  /\ inflight' = [b \in DOMAIN inflight \ {batch} |-> inflight[b]]
  /\ SettleBatch(batch, reply)
  /\ UNCHANGED <<pending, timer, probe>>

(* getUrl answers other than with a 429.  With no response at all,       *)
(* reading response.body throws and the race rejects.  Otherwise the body *)
(* is parsed and the race resolves with it: the assert calls for a non-2xx *)
(* status or a body that is not JSON pass an object as the check, so they  *)
(* never throw, and such a body resolves as null or as the raw bytes.      *)
GetUrlAnswers(b) ==
  /\ inflight[b].at = "getUrl"
  /\ \E reply \in Replies(Len(b)) : Respond(b, reply)

(* A 429: before the last attempt the loop backs off (no throttleCallback *)
(* is set); on the last one 'rate limited' is thrown with the response and *)
(* caught; the response is there, the 'bad response' assert does not      *)
(* throw, and the race resolves with the parsed 429 body, not an array.    *)
Throttled(b) ==
  /\ inflight[b].at = "getUrl"
  /\ IF inflight[b].attempt = AttemptLimit - 1
     THEN Respond(b, Reply("nonArray", 0))
     ELSE /\ inflight' = [inflight EXCEPT ![b].at = "stall"]
          /\ UNCHANGED <<req, pending, timer, batchSize, status, probe>>

(* The staller's timer fires: the next attempt. *)
StallEnds(b) ==
  /\ inflight[b].at = "stall"
  /\ inflight' = [inflight EXCEPT ![b] = [@ EXCEPT !.attempt = @ + 1, !.at = "getUrl"]]
  /\ UNCHANGED <<req, pending, timer, batchSize, status, probe>>

(* runningTimeout fires first: the race rejects with TIMEOUT, whether the  *)
(* loop awaits getUrl or a back-off.  The loop is not cancelled, but what  *)
(* it does later reaches no one, so the batch leaves the model here.      *)
RequestTimeout(b) ==
  /\ inflight[b].timer
  /\ Respond(b, Reply("error", 0))

(* fetchJson of some in-flight batch takes a step. *)
ReceiveResponse ==
  \E b \in DOMAIN inflight :
    GetUrlAnswers(b) \/ Throttled(b) \/ StallEnds(b) \/ RequestTimeout(b)

(* determineBatchSize: try arrays of 1 .. ProbeLimit eth_blockNumber calls *)
(* and keep the last size answered in full; stop at the first failure.     *)
Probe ==
  /\ probe <= ProbeLimit
  /\ \/ /\ probe <= Limit
        /\ batchSize' = probe
        /\ probe' = probe + 1
     \/ /\ probe' = ProbeLimit + 1
        /\ UNCHANGED batchSize
  /\ UNCHANGED <<req, pending, timer, inflight, status>>

-----------------------------------------------------------------------------
Init ==
  /\ req = [r \in Reqs |-> "new"]
  /\ pending = <<>>
  /\ timer = FALSE
  /\ inflight = [b \in {} |-> StartFetch]
  /\ batchSize = 1
  /\ status = "testing"
  /\ probe = 1

Next ==
  \/ \E r \in Reqs : Send(r)
  \/ TimerFires
  \/ ReceiveResponse
  \/ Probe

(* The event loop fires every timer: the 1 ms batch timer, the staller's   *)
(* back-off and runningTimeout.  The server is not assumed to answer.      *)
Fairness ==
  /\ WF_vars(TimerFires)
  /\ WF_vars(\E b \in DOMAIN inflight : StallEnds(b))
  /\ WF_vars(\E b \in DOMAIN inflight : RequestTimeout(b))

Spec == Init /\ [][Next]_vars /\ Fairness

-----------------------------------------------------------------------------
(* Every variable ranges over the values the code can give it. *)
TypeOK ==
  /\ req \in [Reqs -> {"new", "pending", "inflight"} \cup Settled]
  /\ pending \in Seq(Reqs)
  /\ timer \in BOOLEAN
  /\ \A b \in DOMAIN inflight : b \in Seq(Reqs) /\ b /= <<>> /\ inflight[b] \in FetchStates
  /\ batchSize \in 0 .. NumReqs + ProbeLimit + 1
  /\ status \in {"testing", "determined"}

(* A request is where its state says: pending requests are in              *)
(* _pendingBatch, each in-flight request is in exactly one batch on the    *)
(* wire, and a new or settled request is in neither.  So runRequests never *)
(* sends a request twice nor drops one, however send, flush, the timer and *)
(* the responses interleave.                                               *)
OneBatchPerRequest ==
  \A r \in Reqs :
    /\ (req[r] = "pending") <=> Contains(pending, r)
    /\ Cardinality({b \in DOMAIN inflight : Contains(b, r)}) = IF req[r] = "inflight" THEN 1 ELSE 0

FrozenSizeFits ==
  [][\A b \in DOMAIN inflight' \ DOMAIN inflight : status = "determined" => Len(b) <= Limit]_vars

=============================================================================
