----------------------------- MODULE DictionaryV1 -----------------------------
(***************************************************************************)
(* One getData call of the GraphQL dictionary (DictionaryV1.getData,       *)
(* src/unnamed/part_006), with the range it is given: getQueryEndBlock     *)
(* and the end of the query entry's BlockHeightMap segment.                *)
(*                                                                         *)
(* The dictionary has indexed the chain up to its lastProcessedHeight; for *)
(* each entity (one GraphQL table per kind of condition) it holds rows at  *)
(* the heights whose items match the entity's conditions, several rows    *)
(* per height when several items match.  The query fragment asks each     *)
(* entity for its first batchSize rows in [start, queryEnd] by ascending   *)
(* height, one per height while distinct is supported.  The code merges   *)
(* the per-entity pages into one batch of heights and lastBufferedHeight.  *)
(* JavaScript's Infinity, the Math.min of no values, is a number above    *)
(* every height: the code only compares it with heights.                   *)
(***************************************************************************)
EXTENDS Integers, Sequences, SequencesExt, FiniteSets, FiniteSetsExt

CONSTANTS
  Entities,     (* the entities a query entry can name                     *)
  MaxHeight,    (* heights are 1 .. MaxHeight                              *)
  MaxRows,      (* bound on the rows one entity has at one height          *)
  QuerySize,    (* nodeConfig.dictionaryQuerySize                          *)
  Infinity,     (* Math.min() of no values                                 *)
  NONE          (* undefined                                               *)

ASSUME MaxHeight \in Nat \ {0} /\ MaxRows \in Nat \ {0} /\ QuerySize \in Nat
ASSUME Infinity \in Nat /\ Infinity > MaxHeight

Heights == 1 .. MaxHeight

(* The dictionary's tables: rows[e][h] rows of entity e at height h.       *)
Tables == [Entities -> [Heights -> 0 .. MaxRows]]

-----------------------------------------------------------------------------
(* The GraphQL side (buildDictQueryFragment, answered by the dictionary):  *)
(* the rows of entity e in [start, end] the dictionary has indexed, by     *)
(* ascending height, one per height when distinct, cut to batchSize.       *)
EntityRows(rows, e, start, end, processed, distinct) ==
  LET hs == {h \in Heights : start <= h /\ h <= end /\ h <= processed /\ rows[e][h] > 0}
      asc == SetToSortSeq(hs, <)
      copies(h) == IF distinct THEN 1 ELSE rows[e][h]
  IN FlattenSeq([i \in 1 .. Len(asc) |-> [k \in 1 .. copies(asc[i]) |-> asc[i]]])

EntityNodes(rows, e, start, end, processed, distinct, batchSize) ==
  LET all == EntityRows(rows, e, start, end, processed, distinct)
  IN SubSeq(all, 1, IF batchSize < Len(all) THEN batchSize ELSE Len(all))

-----------------------------------------------------------------------------
(* Variant that reports the furthest entity's last height. *)
MergeResponseMax(nodes) ==
  LET ents     == {e \in DOMAIN nodes : Len(nodes[e]) > 0}
      heights  == UNION {ToSet(nodes[e]) : e \in DOMAIN nodes}
      endBlock == IF ents = {} THEN Infinity ELSE Max({Last(nodes[e]) : e \in ents})
  IN [lastBufferedHeight |-> endBlock,
      batchBlocks        |-> SetToSortSeq({h \in heights : h <= endBlock}, <)]

(* The merge of getData: every node's height goes into blockHeightSet;     *)
(* entityEndBlock holds the last node's height of each entity that         *)
(* returned nodes; endBlock is their minimum (Infinity when none did); the *)
(* batch is the set's heights up to endBlock, ascending.                   *)
MergeResponse(nodes) ==
  LET ents     == {e \in DOMAIN nodes : Len(nodes[e]) > 0}
      heights  == UNION {ToSet(nodes[e]) : e \in DOMAIN nodes}
      endBlock == IF ents = {} THEN Infinity ELSE Min({Last(nodes[e]) : e \in ents})
  IN [lastBufferedHeight |-> endBlock,
      batchBlocks        |-> SetToSortSeq({h \in heights : h <= endBlock}, <)]

(* dictionaryValidation: usable when the metadata is there and the         *)
(* dictionary has indexed the start height.                                 *)
DictionaryValidation(processed, startBlockHeight) ==
  /\ processed /= NONE
  /\ ~(startBlockHeight /= NONE /\ processed < startBlockHeight)

(* getQueryEndBlock, with this.metadata from initMetadata.                  *)
GetQueryEndBlock(startBlockHeight, apiFinalizedHeight, initProcessed) ==
  Min({startBlockHeight + QuerySize, apiFinalizedHeight, initProcessed})

(* dictionaryQuery: the conditions are grouped by entity (the reduce) and  *)
(* one query fragment is built per entity named, next to _metadata; the    *)
(* GraphQL text itself is left out.                                        *)
QueriedEntities(conditions) == {conditions[i].entity : i \in DOMAIN conditions}

(* getData.  The query entry of the BlockHeightMap segment holding          *)
(* startBlock is conditions and the segment ends at segEnd (NONE for the   *)
(* last segment); queryEndBlock is cut to segEnd.  An empty entry still    *)
(* queries _metadata alone (conditions is never falsy).  outcomes lists    *)
(* how each attempt ends: "ok", a "distinct" error (distinct is switched   *)
(* off and the query rerun) or any other error or the timeout (undefined). *)
RECURSIVE GetData(_, _, _, _, _, _, _, _, _)
GetData(rows, processed, conditions, segEnd, startBlock, queryEndBlock, batchSize, distinct, outcomes) ==
  LET ents  == QueriedEntities(conditions)
      end   == IF segEnd /= NONE /\ segEnd < queryEndBlock THEN segEnd ELSE queryEndBlock
      nodes == [e \in ents |-> EntityNodes(rows, e, startBlock, end, processed,
                                           distinct, batchSize)]
  IN CASE Head(outcomes) = "ok" ->
            IF DictionaryValidation(processed, startBlock) THEN MergeResponse(nodes)
            ELSE NONE
       [] Head(outcomes) = "distinct" /\ Tail(outcomes) /= <<>> ->
            GetData(rows, processed, conditions, segEnd, startBlock, end, batchSize,
                    FALSE, Tail(outcomes))
       [] OTHER -> NONE

-----------------------------------------------------------------------------
(* Bounded inputs: page sizes, and how the attempts of one call end (a     *)
(* distinct error is answered once, by the rerun without distinct).        *)
BatchSizes == 1 .. 2
OutcomeSeqs == {<<"ok">>, <<"other">>, <<"distinct", "ok">>, <<"distinct", "other">>}

(* The reference: the heights in [lo, hi] where some named entity has a    *)
(* row, ascending.                                                         *)
Matching(rows, ents, lo, hi) ==
  SetToSortSeq({h \in Heights : lo <= h /\ h <= hi /\ \E e \in ents : rows[e][h] > 0}, <)

(* Spec sections 4.4 and 8: a getData answer from the v1 dictionary is     *)
(* exact up to the height it reports.  For every dictionary, segment, set  *)
(* of entities queried, start, finalized height, page size and retry,      *)
(* when getData returns a batch, it holds every matching height from       *)
(* startBlock up to lastBufferedHeight (or the end of the queried range,  *)
(* if lower) and no other.  It rests on the merge taking the minimum of    *)
(* the entities' last heights over pages cut at batchSize, on              *)
(* getQueryEndBlock keeping the range within what the dictionary had       *)
(* indexed at init, and on the segment end.                                *)
GetDataExact ==
  \A rows \in Tables, ents \in SUBSET Entities, initProcessed, processed \in Heights,
     segEnd \in {NONE, 2},
     startBlock \in 1 .. 2, apiFinalized \in 2 .. MaxHeight, batchSize \in BatchSizes,
     outcomes \in OutcomeSeqs :
    initProcessed <= processed =>
      LET queryEnd == GetQueryEndBlock(startBlock, apiFinalized, initProcessed)
          segHi    == IF segEnd = NONE THEN queryEnd ELSE Min({segEnd, queryEnd})
          conditions == [i \in 1 .. Cardinality(ents) |-> [entity |-> SetToSeq(ents)[i]]]
          r == GetData(rows, processed, conditions, segEnd, startBlock, queryEnd,
                       batchSize, TRUE, outcomes)
      IN r /= NONE =>
           r.batchBlocks = Matching(rows, ents, startBlock,
                                    Min({r.lastBufferedHeight, segHi}))

=============================================================================
