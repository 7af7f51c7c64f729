--------------------------- MODULE DictionaryV2Query ---------------------------
(***************************************************************************)
(* The query entry the Ethereum dictionary v2 is asked with               *)
(* (buildDictionaryV2QueryEntry and its helpers, src/packages/node/src/    *)
(* indexer/fetch.service.ts), rebuilt each time a dynamic data source is   *)
(* added, and what the dictionary returns for it.                          *)
(*                                                                         *)
(* A block is abstracted to one transaction, one log, or nothing: the      *)
(* dictionary and the handlers both match a block when they match one of   *)
(* its items, so single-item blocks decide every question.  Addresses are  *)
(* given in lower case, so toLowerCase leaves them as they are; event      *)
(* signatures and function signatures are encoded by the injective         *)
(* EventToTopic and FunctionToSighash.                                     *)
(***************************************************************************)
EXTENDS Integers, Sequences, SequencesExt, FiniteSets

CONSTANTS
  Addresses,          (* contract and account addresses                    *)
  Signatures,         (* event signatures usable as topics                 *)
  Functions,          (* function signatures                               *)
  Handlers,           (* the handler shapes data sources are built from    *)
  DsOptions,          (* the options / groupedOptions data sources can have *)
  MaxDs,              (* bound on data sources, dynamic ones included      *)
  QueryAddressLimit,  (* --query-address-limit                             *)
  NONE,               (* undefined                                         *)
  NULL,               (* an explicit null (filter.to: null)                *)
  NOTNULL             (* the topic literal '!null'                         *)

ASSUME MaxDs \in Nat \ {0} /\ QueryAddressLimit \in Nat

VARIABLES
  dataSources,   (* the active data sources, in BlockHeightMap order       *)
  entry          (* the query entry built from them                        *)

vars == <<dataSources, entry>>

(* EthereumHandlerKind: block, transaction (Call) and log (Event)         *)
(* handlers.                                                               *)
HandlerKinds == {"Block", "Call", "Event"}

(* SubqlRuntimeHandler: a Block, Call or Event handler with an optional    *)
(* filter (NONE when absent), whose shape its kind fixes                   *)
(* (EthereumRuntimeFilterMap): from, to and function for a Call, topics    *)
(* for an Event.  The handler function's name plays no part here.          *)
RuntimeHandler(h) ==
  /\ h.kind \in HandlerKinds
  /\ \/ h.filter = NONE
     \/ h.kind = "Block"
     \/ h.kind = "Call" /\ DOMAIN h.filter = {"from", "to", "function"}
     \/ h.kind = "Event" /\ DOMAIN h.filter = {"topics"}

ASSUME \A h \in Handlers : RuntimeHandler(h)

-----------------------------------------------------------------------------
(* Encodings (utils/string: eventToTopic, functionToSighash). *)
EventToTopic(sig) == <<"topic", sig>>
FunctionToSighash(fn) == <<"sighash", fn>>

(* The chain items a block can hold.  A transaction's to is NULL for a     *)
(* contract creation; a log carries up to two topics.                      *)
Txs == [from : Addresses, to : Addresses \cup {NULL}, fn : Functions]
Logs == [address : Addresses,
         topics : {<<>>} \cup {<<EventToTopic(s)>> : s \in Signatures}
                  \cup {<<EventToTopic(s), EventToTopic(t)>> : s, t \in Signatures}]
Blocks == {[txs |-> {}, logs |-> {}]}
          \cup {[txs |-> {t}, logs |-> {}] : t \in Txs}
          \cup {[txs |-> {}, logs |-> {l}] : l \in Logs}

-----------------------------------------------------------------------------
(* extractOptionAddresses: the addresses of groupedOptions, or none when   *)
(* there are more than the limit; else options.address, lower-cased.       *)
ExtractOptionAddresses(ds) ==
  IF ds.grouped /= NONE
  THEN LET addrs == SelectSeq(ds.grouped, LAMBDA a : a /= NONE)
       IN IF Len(addrs) /= 0 /\ Len(addrs) <= QueryAddressLimit THEN addrs ELSE <<>>
  ELSE IF ds.address /= NONE THEN <<ds.address>> ELSE <<>>

(* Variant that puts the function signature in unencoded. *)
CallFilterUnhashed(f, ds) ==
  [to       |-> NONE,
   from     |-> IF f.from /= NONE THEN <<f.from>> ELSE NONE,
   function |-> IF f.function /= NONE THEN <<f.function>> ELSE NONE]

(* callFilterToDictionaryCondition.  optionsAddresses is always an array,  *)
(* so !optionsAddresses never holds and filter.to is never added.  A key   *)
(* with an empty array is left out (NONE).                                 *)
CallFilterToDictionaryCondition(f, ds) ==
  LET fromArray == IF f.from /= NONE THEN <<f.from>> ELSE <<>>
      funcArray == IF f.function /= NONE THEN <<FunctionToSighash(f.function)>> ELSE <<>>
  IN [to       |-> NONE,
      from     |-> IF fromArray /= <<>> THEN fromArray ELSE NONE,
      function |-> IF funcArray /= <<>> THEN funcArray ELSE NONE]

(* Variant that encodes '!null' as if it were an event signature. *)
EventFilterNotNullAsTopic(f, ds) ==
  LET ts == IF f.topics = NONE THEN <<>> ELSE f.topics
      slot(i) == IF i + 1 > Len(ts) \/ ts[i + 1] = NONE THEN NONE
                 ELSE <<EventToTopic(ts[i + 1])>>
  IN [address |-> ExtractOptionAddresses(ds),
      topics  |-> [i \in 0 .. 3 |-> slot(i)]]

(* eventFilterToDictionaryCondition: address from the options; topicsN     *)
(* collects slot N's topic, '!null' resets it to [] (any); empty slots are *)
(* skipped and only slots 0 .. 3 are read.                                 *)
EventFilterToDictionaryCondition(f, ds) ==
  LET ts == IF f.topics = NONE THEN <<>> ELSE f.topics
      slot(i) == IF i + 1 > Len(ts) \/ ts[i + 1] = NONE THEN NONE
                 ELSE IF ts[i + 1] = NOTNULL THEN <<>>
                 ELSE <<EventToTopic(ts[i + 1])>>
  IN [address |-> ExtractOptionAddresses(ds),
      topics  |-> [i \in 0 .. 3 |-> slot(i)]]

(* One handler's contribution to the entry (the switch of the loop). *)
AddHandler(acc, ds, h) ==
  CASE h.kind = "Call" /\ (h.filter.from /= NONE \/ h.filter.to /= NONE
                           \/ h.filter.function /= NONE) ->
         [acc EXCEPT !.transactions = Append(@, CallFilterToDictionaryCondition(h.filter, ds))]
    [] h.kind = "Event" /\ (ds.grouped /= NONE \/ ds.address /= NONE
                            \/ h.filter.topics /= NONE) ->
         [acc EXCEPT !.logs = Append(@, EventFilterToDictionaryCondition(h.filter, ds))]
    [] OTHER -> acc

(* The handlers of all data sources in order, with their data source. *)
HandlerList(dss) ==
  FlattenSeq([i \in 1 .. Len(dss) |->
                [j \in 1 .. Len(dss[i].handlers) |-> <<dss[i], dss[i].handlers[j]>>]])

(* The loop of buildDictionaryV2QueryEntry: a handler without a filter or  *)
(* a Block handler returns the conditions collected so far at once; after  *)
(* the loop, empty logs / transactions are deleted.                        *)
RECURSIVE BuildLoop(_, _)
BuildLoop(hs, acc) ==
  IF hs = <<>>
  THEN [logs         |-> IF acc.logs = <<>> THEN NONE ELSE acc.logs,
        transactions |-> IF acc.transactions = <<>> THEN NONE ELSE acc.transactions]
  ELSE LET ds == Head(hs)[1]
           h  == Head(hs)[2]
       IN IF h.filter = NONE \/ h.kind = "Block" THEN acc
          ELSE BuildLoop(Tail(hs), AddHandler(acc, ds, h))

BuildDictionaryV2QueryEntry(dss) ==
  BuildLoop(HandlerList(dss), [logs |-> <<>>, transactions |-> <<>>])

-----------------------------------------------------------------------------
(* What the dictionary returns for an entry (spec section 2): a condition  *)
(* key that is absent or an empty array matches anything; a block is       *)
(* returned when one of its items matches one condition.  An entry with no *)
(* condition at all cannot be used, and every block is fetched.            *)
In(x, arr) == arr = NONE \/ arr = <<>> \/ Contains(arr, x)

TxMatchesCondition(tx, c) ==
  In(tx.to, c.to) /\ In(tx.from, c.from) /\ In(FunctionToSighash(tx.fn), c.function)

LogMatchesCondition(log, c) ==
  /\ In(log.address, c.address)
  /\ \A i \in 0 .. 3 :
       c.topics[i] \in {NONE, <<>>}
       \/ (i < Len(log.topics) /\ Contains(c.topics[i], log.topics[i + 1]))

Conditions(arr) == IF arr = NONE THEN {} ELSE ToSet(arr)

Unusable(e) == Conditions(e.logs) = {} /\ Conditions(e.transactions) = {}

Delivered(e, blk) ==
  \/ Unusable(e)
  \/ \E tx \in blk.txs, c \in Conditions(e.transactions) : TxMatchesCondition(tx, c)
  \/ \E log \in blk.logs, c \in Conditions(e.logs) : LogMatchesCondition(log, c)

-----------------------------------------------------------------------------
(* What a handler must be given (spec section 4.4): a Block handler every  *)
(* block; a Call handler the transactions whose from, to and function      *)
(* match, the data source's address standing for to; an Event handler the *)
(* logs of the data source's addresses whose topics match, '!null' asking  *)
(* only that the topic is present.  A missing filter matches every item.   *)
DsAddresses(ds) ==
  IF ds.grouped /= NONE THEN ToSet(ds.grouped) \ {NONE}
  ELSE IF ds.address /= NONE THEN {ds.address} ELSE {}

CallMatches(tx, f, ds) ==
  /\ f.from = NONE \/ tx.from = f.from
  /\ IF DsAddresses(ds) /= {} THEN tx.to \in DsAddresses(ds)
     ELSE f.to = NONE \/ tx.to = f.to
  /\ f.function = NONE \/ tx.fn = f.function

EventMatches(log, f, ds) ==
  /\ DsAddresses(ds) = {} \/ log.address \in DsAddresses(ds)
  /\ f.topics = NONE
     \/ \A i \in 1 .. Len(f.topics) :
          \/ f.topics[i] = NONE
          \/ f.topics[i] = NOTNULL /\ i <= Len(log.topics)
          \/ i <= Len(log.topics) /\ log.topics[i] = EventToTopic(f.topics[i])

MustSee(ds, h, blk) ==
  CASE h.kind = "Block" -> TRUE
    [] h.filter = NONE -> IF h.kind = "Call" THEN blk.txs /= {} ELSE blk.logs /= {}
    [] h.kind = "Call" -> \E tx \in blk.txs : CallMatches(tx, h.filter, ds)
    [] OTHER -> \E log \in blk.logs : EventMatches(log, h.filter, ds)

Wanted(dss, blk) == \E p \in ToSet(HandlerList(dss)) : MustSee(p[1], p[2], blk)

-----------------------------------------------------------------------------
(* The data sources, and the entry the dictionary is queried with.  A     *)
(* runtime data source has options.address (or, grouped, several) and     *)
(* mapping.handlers.                                                       *)
HandlerSeqs == {<<h>> : h \in Handlers}

DataSources ==
  {[address |-> o.address, grouped |-> o.grouped, handlers |-> hs] :
     o \in DsOptions, hs \in HandlerSeqs}

Init ==
  /\ \E ds \in DataSources : dataSources = <<ds>>
  /\ entry = BuildDictionaryV2QueryEntry(dataSources)

(* A handler creates a dynamic data source; its start block is the current *)
(* height, so it comes last in the BlockHeightMap, and updateQueriesMap    *)
(* rebuilds the entry.                                                     *)
AddDynamicDs ==
  /\ Len(dataSources) < MaxDs
  /\ \E ds \in DataSources : dataSources' = Append(dataSources, ds)
  /\ entry' = BuildDictionaryV2QueryEntry(dataSources')

Next == AddDynamicDs

Spec == Init /\ [][Next]_vars

-----------------------------------------------------------------------------
EmptyEntry == [logs |-> <<>>, transactions |-> <<>>]

(* The entry is a list of log conditions and of transaction conditions,    *)
(* either possibly left out, over the project's addresses and encodings.   *)
OptArray(arr, S) == arr = NONE \/ ToSet(arr) \subseteq S

TypeOK ==
  /\ \A i \in 1 .. Len(dataSources) : dataSources[i] \in DataSources
  /\ entry.logs = NONE \/ \A c \in ToSet(entry.logs) :
       /\ ToSet(c.address) \subseteq Addresses
       /\ c.topics \in [0 .. 3 -> {NONE, <<>>} \cup {<<EventToTopic(x)>> : x \in Signatures}]
  /\ entry.transactions = NONE \/ \A c \in ToSet(entry.transactions) :
       /\ OptArray(c.to, Addresses \cup {NULL})
       /\ OptArray(c.from, Addresses)
       /\ OptArray(c.function, {FunctionToSighash(fn) : fn \in Functions})

(* Each condition callFilterToDictionaryCondition or                       *)
(* eventFilterToDictionaryCondition makes for a handler covers it: every   *)
(* block the handler must see is returned for that condition alone.  This  *)
(* relates the converters (topics slots, '!null', the address limit of     *)
(* grouped options, the dropped filter.to) to the filter semantics.        *)
ConvertedConditionsCover ==
  \A i \in 1 .. Len(dataSources) :
    \A j \in 1 .. Len(dataSources[i].handlers) :
      LET ds == dataSources[i]
          h  == ds.handlers[j]
          e  == AddHandler(EmptyEntry, ds, h)
      IN h.filter /= NONE /\ e /= EmptyEntry =>
           \A blk \in Blocks : MustSee(ds, h, blk) => Delivered(e, blk)

(* Spec section 8, round trip: any block a handler must see is returned by *)
(* the dictionary (or the dictionary is not used).                         *)
Complete == \A blk \in Blocks : Wanted(dataSources, blk) => Delivered(entry, blk)

(* Spec section 8, round trip: any block the dictionary returns satisfies  *)
(* at least one handler's filter.                                          *)
Sound ==
  ~Unusable(entry) => \A blk \in Blocks : Delivered(entry, blk) => Wanted(dataSources, blk)

=============================================================================
