------------------------- MODULE MCDictionaryV2Query -------------------------
EXTENDS DictionaryV2Query

CONSTANTS a1, a2, s1, s2, f1

(* Handler shapes: a Block handler, Call handlers filtering on each field  *)
(* (an explicit to: null included) or on none, Event handlers with a       *)
(* topic, with '!null' in slot 0, with an empty slot 0, with no topics,    *)
(* and handlers without a filter.                                          *)
CallFilter(from, to, fn) == [from |-> from, to |-> to, function |-> fn]

MCHandlers ==
  {[kind |-> "Block", filter |-> NONE],
   [kind |-> "Call", filter |-> NONE],
   [kind |-> "Event", filter |-> NONE]}
  \cup {[kind |-> "Call", filter |-> f] :
          f \in {CallFilter(NONE, a2, NONE), CallFilter(a1, NONE, NONE),
                 CallFilter(NONE, NONE, f1), CallFilter(NONE, NONE, NONE),
                 CallFilter(NONE, NULL, NONE)}}
  \cup {[kind |-> "Event", filter |-> [topics |-> t]] :
          t \in {NONE, <<s1>>, <<NOTNULL, s2>>, <<NONE, s1>>}}

(* Data source options: none, one address, grouped options of one address  *)
(* (within --query-address-limit 1) and of two (over it).                   *)
MCDsOptions ==
  {[address |-> NONE, grouped |-> NONE],
   [address |-> a1, grouped |-> NONE],
   [address |-> NONE, grouped |-> <<a2>>],
   [address |-> NONE, grouped |-> <<a1, a2>>]}

(* The v1 dictionary's getData, checked alongside: two entities (the logs  *)
(* and the transactions tables), heights 1 .. 3 with up to two rows each,  *)
(* and --dictionary-query-size 2.                                          *)
V1 == INSTANCE DictionaryV1
        WITH Entities <- {"evmLogs", "evmTransactions"}, MaxHeight <- 3,
             MaxRows <- 2, QuerySize <- 2, Infinity <- 1000

(* In every state where data sources are active, a batch                  *)
(* DictionaryV1.getData returns is exactly the matching heights from the   *)
(* start up to the lastBufferedHeight it reports (DictionaryV1's           *)
(* GetDataExact; TLC computes it once).                                    *)
GetDataExact == dataSources /= <<>> => V1!GetDataExact
==============================================================================
