--------------------------- MODULE UnfinalizedBlocks ---------------------------
(***************************************************************************)
(* The unfinalized-blocks tracker of the Ethereum indexer                  *)
(* (UnfinalizedBlocksService, src/unnamed/part_004) together with the      *)
(* parts of the system it interacts with:                                  *)
(*   - the chain, whose blocks above its finalized height may be replaced  *)
(*     by a reorganisation, and whose finalized height advances in jumps;  *)
(*   - the fetch service's tip poll, which calls registerFinalizedBlock;   *)
(*   - the block dispatcher, which indexes heights in order, calls         *)
(*     processUnfinalizedBlocks for every block and commits, or rewinds    *)
(*     the store when a fork is reported;                                  *)
(*   - a process restart, which reloads the tracker from the metadata      *)
(*     store (init).                                                       *)
(* A block hash is the pair <<height, version>>: a reorganisation at k     *)
(* gives every height >= k a new version, so hashes of different heights,  *)
(* and of different branches at one height, never coincide.               *)
(***************************************************************************)
EXTENDS Integers, Sequences, SequencesExt, FiniteSets

CONSTANTS
  MaxHeight,    (* the chain's blocks are 0 .. MaxHeight (0 is genesis)   *)
  MaxReorgs,    (* bound on the number of reorganisations                  *)
  MaxRestarts,  (* bound on the number of process restarts                 *)
  NONE          (* undefined / null                                        *)

ASSUME MaxHeight \in Nat \ {0}
ASSUME MaxReorgs \in Nat /\ MaxRestarts \in Nat

Heights == 0 .. MaxHeight
Versions == 0 .. MaxReorgs
Hashes == Heights \X Versions

VARIABLES
  canon,        (* canon[h]: version of the canonical block at height h     *)
  chainFinal,   (* the chain's finalized height                             *)
  reorgs,       (* reorganisations so far (bounded)                         *)
  finHeader,    (* this.finalizedHeader: [number, hash]                     *)
  unfinalized,  (* this.unfinalizedBlocks: sequence of [height, hash]       *)
  lastChecked,  (* this.lastCheckedBlockHeight                              *)
  mode,         (* nodeConfig.unfinalizedBlocks of the running process      *)
  pc,           (* where the dispatcher's processing of a block stands      *)
  block,        (* the block being processed: [height, hash]                *)
  verifiable,   (* hasForked's local lastVerifiableBlock, across its await  *)
  walk,         (* the height of hasForked's local header in its walk       *)
  txVerified,   (* lastFinalizedVerifiedHeight written in the open tx       *)
  indexed,      (* indexed[h]: hash of the block the store holds for h      *)
  cursor,       (* next height to index (lastProcessedHeight + 1)           *)
  stored,       (* the committed metadata: what a restart reads back        *)
  restarts

chainVars == <<canon, chainFinal, reorgs>>
vars == <<canon, chainFinal, reorgs, finHeader, unfinalized, lastChecked, mode,
          pc, block, verifiable, walk, txVerified, indexed, cursor, stored, restarts>>

(* Hash of the canonical block at height h; the parent of genesis is a     *)
(* fixed zero hash.                                                        *)
CanonHash(h) == IF h \in Heights THEN <<h, canon[h]>> ELSE <<h, 0>>

Record(h, hash) == [height |-> h, hash |-> hash]
Header(n) == [number |-> n, hash |-> CanonHash(n)]

F == finHeader.number   (* finalizedBlockNumber *)

-----------------------------------------------------------------------------
(* Pure helpers, one per method of the service.                            *)

(* getClosestRecord: the last record whose height is <= h, or NONE.         *)
ClosestRecord(recs, h) ==
  LET i == SelectLastInSeq(recs, LAMBDA r : r.height <= h)
  IN IF i = 0 THEN NONE ELSE recs[i]

(* removeFinalized: drop the records up to and including the one whose     *)
(* height equals h; when no record has that height nothing is dropped.     *)
RemoveFinalized(recs, h) ==
  LET i == SelectInSeq(recs, LAMBDA r : r.height = h)
  IN IF i = 0 THEN recs ELSE SubSeq(recs, i + 1, Len(recs))

(* The loop of getLastCorrectFinalizedBlock over the verifiable records in *)
(* reverse.  The first record is compared with the finalized header; every *)
(* later one with the header fetched by this.finalizedHeader.parentHash,   *)
(* i.e. always the block at fin - 1.                                       *)
RECURSIVE WalkBack(_, _, _, _)
WalkBack(recs, hdrHash, hdrParent, fin) ==
  IF recs = <<>> THEN NONE
  ELSE IF Last(recs).hash \in {hdrHash, hdrParent} THEN Last(recs).height
  ELSE WalkBack(Front(recs), CanonHash(fin - 1), CanonHash(fin - 2), fin)

(* getLastCorrectFinalizedBlock: the walk's match, else lastCheckedBlockHeight. *)
LastCorrectFinalizedBlock(recs, hdr, fallback) ==
  LET best  == SelectSeq(recs, LAMBDA r : r.height <= hdr.number)
      found == WalkBack(best, hdr.hash, CanonHash(hdr.number - 1), hdr.number)
  IN IF found = NONE THEN fallback ELSE found

-----------------------------------------------------------------------------
(* The chain.                                                              *)

(* A reorganisation replaces every block from an unfinalized height k up.  *)
Reorg ==
  /\ reorgs < MaxReorgs
  /\ \E k \in (chainFinal + 1) .. MaxHeight :
       canon' = [h \in Heights |-> IF h >= k THEN canon[h] + 1 ELSE canon[h]]
  /\ reorgs' = reorgs + 1
  /\ UNCHANGED <<chainFinal>>

(* The chain finalizes one or more further blocks.                         *)
Finalize ==
  /\ \E n \in (chainFinal + 1) .. MaxHeight : chainFinal' = n
  /\ UNCHANGED <<canon, reorgs>>

-----------------------------------------------------------------------------
(* registerFinalizedBlock: a header no higher than the one held is        *)
(* ignored.                                                                *)
RegisterFinalizedBlock(header) ==
  /\ F < header.number
  /\ finHeader' = header

(* FetchService.getFinalizedHeight, the fetch service's tip poll:          *)
(* api.getFinalizedBlock, blockToHeader, registerFinalizedBlock.           *)
PollFinalized ==
  /\ pc /= "exited"
  /\ RegisterFinalizedBlock(Header(chainFinal))
  /\ UNCHANGED <<chainVars, unfinalized, lastChecked, mode, pc, block, verifiable, walk,
                 txVerified, indexed, cursor, stored, restarts>>

-----------------------------------------------------------------------------
(* The dispatcher indexes the block at cursor and calls                    *)
(* processUnfinalizedBlocks(block, tx), which first runs                   *)
(* registerUnfinalizedBlock and awaits the save.                           *)

(* The heights the fetch service hands out: up to the best block          *)
(* (getBestHeight; the chain's head is MaxHeight) when unfinalized blocks  *)
(* are enabled, else up to the finalized block getFinalizedHeight          *)
(* registered.                                                             *)
TargetHeight == IF mode THEN MaxHeight ELSE F

(* Variant that hands out heights past the target. *)
StartBlockUnbounded(h) ==
  /\ pc = "idle"
  /\ h = cursor

StartBlock(h) ==
  /\ pc = "idle"
  /\ h = cursor
  /\ h <= TargetHeight

(* blockNumber <= finalizedBlockNumber: not recorded. *)
RegisterFinalized ==
  /\ StartBlock(cursor)
  /\ cursor <= F
  /\ block' = Record(cursor, CanonHash(cursor))
  /\ pc' = "hasForked"
  /\ UNCHANGED <<chainVars, finHeader, unfinalized, lastChecked, mode, verifiable, walk,
                 txVerified, indexed, cursor, stored, restarts>>

(* Variant without the order check of registerUnfinalizedBlock. *)
RegisterUnfinalizedUnordered ==
  /\ StartBlock(cursor)
  /\ cursor > F
  /\ block' = Record(cursor, CanonHash(cursor))
  /\ unfinalized' = Append(unfinalized, Record(cursor, CanonHash(cursor)))
  /\ pc' = "hasForked"
  /\ UNCHANGED <<chainVars, finHeader, lastChecked, mode, verifiable, walk, txVerified,
                 indexed, cursor, stored, restarts>>

(* In sequence: pushed and saved. *)
RegisterUnfinalized ==
  /\ StartBlock(cursor)
  /\ cursor > F
  /\ IF unfinalized = <<>> THEN TRUE ELSE Last(unfinalized).height + 1 = cursor
  /\ block' = Record(cursor, CanonHash(cursor))
  /\ unfinalized' = Append(unfinalized, Record(cursor, CanonHash(cursor)))
  /\ pc' = "hasForked"
  /\ UNCHANGED <<chainVars, finHeader, lastChecked, mode, verifiable, walk, txVerified,
                 indexed, cursor, stored, restarts>>

(* Out of sequence: 'Unfinalized block is not sequential', process.exit(1). *)
RegisterOutOfSequence ==
  /\ StartBlock(cursor)
  /\ cursor > F
  /\ unfinalized /= <<>>
  /\ Last(unfinalized).height + 1 /= cursor
  /\ pc' = "exited"
  /\ UNCHANGED <<chainVars, finHeader, unfinalized, lastChecked, mode, block,
                 verifiable, walk, txVerified, indexed, cursor, stored, restarts>>

-----------------------------------------------------------------------------
(* Endings of processUnfinalizedBlocks.                                    *)

(* The dispatcher commits the block's tx: the store, lastProcessedHeight   *)
(* and the tracker's saved metadata become durable together.               *)
Commit(recs, lc) ==
  /\ indexed' = [indexed EXCEPT ![block.height] = block.hash]
  /\ cursor' = cursor + 1
  /\ stored' = [unfinalized |-> recs,
                verified    |-> IF txVerified = NONE THEN stored.verified
                                ELSE txVerified,
                cursor      |-> cursor + 1,
                indexed     |-> [indexed EXCEPT ![block.height] = block.hash]]
  /\ unfinalized' = recs
  /\ lastChecked' = lc
  /\ txVerified' = NONE
  /\ pc' = "idle"

(* Not forked: deleteFinalizedBlock.  When lastCheckedBlockHeight is set   *)
(* and below the finalized height, removeFinalized runs and two saves are  *)
(* awaited before lastCheckedBlockHeight is assigned; otherwise it is      *)
(* assigned at once and processUnfinalizedBlocks returns null.             *)
DeleteFinalizedBlock ==
  IF lastChecked /= NONE /\ lastChecked < F
  THEN /\ unfinalized' = RemoveFinalized(unfinalized, F)
       /\ txVerified' = F
       /\ pc' = "savingFinalized"
       /\ UNCHANGED <<lastChecked, indexed, cursor, stored>>
  ELSE Commit(unfinalized, F)

(* Variant of the rewind that leaves the records above the target. *)
RewindKeepRecords(target) ==
  /\ txVerified' = NONE
  /\ IF target = NONE
     THEN /\ pc' = "badRewind"
          /\ UNCHANGED <<unfinalized, indexed, cursor, stored>>
     ELSE LET idx == [h \in Heights |-> IF h > target THEN NONE ELSE indexed[h]]
          IN /\ UNCHANGED unfinalized
             /\ indexed' = idx
             /\ cursor' = target + 1
             /\ stored' = [stored EXCEPT !.cursor = target + 1, !.indexed = idx]
             /\ pc' = "idle"
  /\ UNCHANGED lastChecked

(* Forked: the dispatcher rewinds to getLastCorrectFinalizedBlock's        *)
(* height: the store is reindexed from it, records above it are dropped    *)
(* and the cursor moves back.  An undefined target leaves pc = "badRewind". *)
Rewind(target) ==
  /\ txVerified' = NONE
  /\ IF target = NONE
     THEN /\ pc' = "badRewind"
          /\ UNCHANGED <<unfinalized, indexed, cursor, stored>>
     ELSE LET recs == SelectSeq(unfinalized, LAMBDA r : r.height <= target)
              idx  == [h \in Heights |-> IF h > target THEN NONE ELSE indexed[h]]
          IN /\ unfinalized' = recs
             /\ indexed' = idx
             /\ cursor' = target + 1
             /\ stored' = [stored EXCEPT !.unfinalized = recs, !.cursor = target + 1,
                                         !.indexed = idx]
             /\ pc' = "idle"
  /\ UNCHANGED lastChecked

Forked == Rewind(LastCorrectFinalizedBlock(unfinalized, finHeader, lastChecked))

(* hasForked, the branches that need no I/O: no verifiable record, or one  *)
(* at exactly the finalized height whose hash is compared.                 *)
HasForked ==
  /\ pc = "hasForked"
  /\ LET v == ClosestRecord(unfinalized, F)
         atTip == v /= NONE /\ v.height = F
     IN \/ /\ v = NONE \/ (atTip /\ v.hash = finHeader.hash)
           /\ DeleteFinalizedBlock
        \/ /\ atTip /\ v.hash /= finHeader.hash
           /\ Forked
  /\ UNCHANGED <<chainVars, finHeader, mode, block, verifiable, walk, restarts>>

(* hasForked with the verifiable record below the finalized height: the    *)
(* record found before the awaits is kept in verifiable, and the walk      *)
(* starts from the local copy of this.finalizedHeader.  The direct fetch   *)
(* for a gap over 200 blocks is out of reach of the bounds.                *)
HasForkedFetch ==
  /\ pc = "hasForked"
  /\ LET v == ClosestRecord(unfinalized, F) IN
       /\ v /= NONE
       /\ v.height < F
       /\ verifiable' = v
  /\ walk' = F
  /\ pc' = "fetchAncestor"
  /\ UNCHANGED <<chainVars, finHeader, unfinalized, lastChecked, mode, block,
                 txVerified, indexed, cursor, stored, restarts>>

(* Variant of the walk that fetches this.finalizedHeader's parent each     *)
(* time, as getLastCorrectFinalizedBlock does, instead of the local        *)
(* header's parent.                                                        *)
WalkParentRefetch ==
  /\ pc = "fetchAncestor"
  /\ walk /= verifiable.height
  /\ walk' = F - 1
  /\ UNCHANGED <<chainVars, finHeader, unfinalized, lastChecked, mode, pc, block,
                 verifiable, txVerified, indexed, cursor, stored, restarts>>

(* One iteration of the while loop: the local header is not yet at the    *)
(* record's height, and the awaited fetch of its parentHash gives the      *)
(* finalized chain's block one below.                                      *)
WalkParent ==
  /\ pc = "fetchAncestor"
  /\ walk /= verifiable.height
  /\ walk' = walk - 1
  /\ UNCHANGED <<chainVars, finHeader, unfinalized, lastChecked, mode, pc, block,
                 verifiable, txVerified, indexed, cursor, stored, restarts>>

(* The loop has reached the record's height: the header is compared with   *)
(* the remembered record.  What follows reads this.finalizedHeader again.  *)
CompareAncestor ==
  /\ pc = "fetchAncestor"
  /\ walk = verifiable.height
  /\ \/ /\ CanonHash(verifiable.height) = verifiable.hash
        /\ DeleteFinalizedBlock
     \/ /\ CanonHash(verifiable.height) /= verifiable.hash
        /\ Forked
  /\ verifiable' = NONE
  /\ walk' = NONE
  /\ UNCHANGED <<chainVars, finHeader, mode, block, restarts>>

(* deleteFinalizedBlock resumes after its two saves and sets               *)
(* lastCheckedBlockHeight from this.finalizedBlockNumber as it is now.      *)
SavedFinalized ==
  /\ pc = "savingFinalized"
  /\ Commit(unfinalized, F)
  /\ UNCHANGED <<chainVars, finHeader, mode, block, verifiable, walk, restarts>>

-----------------------------------------------------------------------------
(* A restart: the open tx is lost; init reloads the records and            *)
(* lastFinalizedVerifiedHeight and fetches the finalized header.  When the *)
(* restarted process has unfinalized blocks disabled and records exist,    *)
(* init runs processUnfinalizedBlocks(null) itself: on a fork it reindexes *)
(* to the returned height, otherwise it resets both keys and commits.      *)
Restart ==
  /\ restarts < MaxRestarts
  /\ restarts' = restarts + 1
  /\ \E m \in BOOLEAN :
     LET recs == stored.unfinalized
         fin  == Header(chainFinal)
         v    == ClosestRecord(recs, chainFinal)
         fork == v /= NONE /\ CanonHash(v.height) /= v.hash
         tgt  == LastCorrectFinalizedBlock(recs, fin, stored.verified)
     IN
     /\ mode' = m
     /\ finHeader' = fin
     /\ block' = NONE /\ verifiable' = NONE /\ walk' = NONE /\ txVerified' = NONE
     /\ IF m \/ recs = <<>>
        THEN /\ unfinalized' = recs /\ lastChecked' = stored.verified
             /\ indexed' = stored.indexed /\ cursor' = stored.cursor
             /\ pc' = "idle"
             /\ UNCHANGED stored
        ELSE IF ~fork
        THEN /\ unfinalized' = <<>> /\ lastChecked' = chainFinal
             /\ stored' = [stored EXCEPT !.unfinalized = <<>>, !.verified = NONE]
             /\ indexed' = stored.indexed /\ cursor' = stored.cursor
             /\ pc' = "idle"
        ELSE IF tgt = NONE
        THEN /\ unfinalized' = recs /\ lastChecked' = stored.verified
             /\ indexed' = stored.indexed /\ cursor' = stored.cursor
             /\ pc' = "badRewind"
             /\ UNCHANGED stored
        ELSE LET keep == SelectSeq(recs, LAMBDA r : r.height <= tgt)
                 idx  == [h \in Heights |-> IF h > tgt THEN NONE
                                            ELSE stored.indexed[h]]
             IN /\ unfinalized' = keep /\ lastChecked' = stored.verified
                /\ indexed' = idx /\ cursor' = tgt + 1
                /\ stored' = [stored EXCEPT !.unfinalized = keep,
                                            !.cursor = tgt + 1, !.indexed = idx]
                /\ pc' = "idle"
  /\ UNCHANGED chainVars

-----------------------------------------------------------------------------
Init ==
  /\ canon = [h \in Heights |-> 0]
  /\ chainFinal = 0
  /\ reorgs = 0
  /\ finHeader = Header(0)
  /\ unfinalized = <<>>
  /\ lastChecked = NONE
  /\ mode = TRUE
  /\ pc = "idle"
  /\ block = NONE
  /\ verifiable = NONE
  /\ walk = NONE
  /\ txVerified = NONE
  /\ indexed = [h \in Heights |-> IF h = 0 THEN CanonHash(0) ELSE NONE]
  /\ cursor = 1
  /\ stored = [unfinalized |-> <<>>, verified |-> NONE, cursor |-> 1,
               indexed |-> indexed]
  /\ restarts = 0

ChainStep ==
  /\ Reorg \/ Finalize
  /\ UNCHANGED <<finHeader, unfinalized, lastChecked, mode, pc, block, verifiable, walk,
                 txVerified, indexed, cursor, stored, restarts>>

Next ==
  \/ ChainStep
  \/ PollFinalized
  \/ RegisterFinalized
  \/ RegisterUnfinalized
  \/ RegisterOutOfSequence
  \/ HasForked
  \/ HasForkedFetch
  \/ WalkParent
  \/ CompareAncestor
  \/ SavedFinalized
  \/ Restart

(* The block dispatcher processes blocks without pause while the fetch    *)
(* service hands it heights, and each await of processUnfinalizedBlocks    *)
(* (the save, the header fetch) returns; the tip poll runs on a timer.     *)
(* The chain, reorganisations and restarts get no fairness.               *)
Dispatch ==
  \/ RegisterFinalized \/ RegisterUnfinalized \/ RegisterOutOfSequence
  \/ HasForked \/ HasForkedFetch \/ WalkParent \/ CompareAncestor \/ SavedFinalized

Spec == Init /\ [][Next]_vars /\ WF_vars(Dispatch) /\ WF_vars(PollFinalized)

-----------------------------------------------------------------------------
(* Every variable ranges over the values the code can give it. *)
TypeOK ==
  /\ canon \in [Heights -> Versions]
  /\ chainFinal \in Heights
  /\ finHeader \in [number : Heights, hash : Hashes]
  /\ \A i \in 1 .. Len(unfinalized) : unfinalized[i] \in [height : Heights, hash : Hashes]
  /\ lastChecked \in Heights \cup {NONE}
  /\ pc \in {"idle", "hasForked", "fetchAncestor", "savingFinalized", "exited", "badRewind"}
  /\ cursor \in 1 .. MaxHeight + 1
  /\ indexed \in [Heights -> Hashes \cup {NONE}]
  /\ walk \in Heights \cup {NONE}

(* Spec section 8: successive unfinalized records differ in height by      *)
(* exactly one, in memory and in the committed metadata, across            *)
(* registerUnfinalizedBlock, removeFinalized, fork rewinds and restarts.   *)
Contiguous(recs) ==
  \A i \in 1 .. Len(recs) - 1 : recs[i + 1].height = recs[i].height + 1

UnfinalizedContiguous ==
  Contiguous(unfinalized) /\ Contiguous(stored.unfinalized)

(* The tracker remembers exactly what the store indexed: between blocks,   *)
(* every unfinalized record is a height below the cursor whose indexed     *)
(* block has the recorded hash; and the committed metadata agrees with the *)
(* committed store, so a restart (init) reloads records that match it.     *)
Matches(recs, idx, cur) ==
  \A i \in 1 .. Len(recs) : recs[i].height < cur /\ idx[recs[i].height] = recs[i].hash

TrackerMatchesStore ==
  /\ pc = "idle" => Matches(unfinalized, indexed, cursor)
  /\ Matches(stored.unfinalized, stored.indexed, stored.cursor)

(* processUnfinalizedBlocks always returns: once the dispatcher has       *)
(* started a block, it eventually commits it, rewinds, or the process      *)
(* stops.  It rests on hasForked's parent walk (part_004:185-187) going    *)
(* down from its local copy of the finalized header to the record chosen   *)
(* before the awaits, which is below it, while the tip poll replaces       *)
(* this.finalizedHeader between the fetches.                               *)
ProcessingReturns ==
  pc \in {"hasForked", "fetchAncestor", "savingFinalized"}
    ~> pc \in {"idle", "exited", "badRewind"}

(* The indexer keeps up: whatever the chain does, the dispatcher           *)
(* eventually has indexed every height up to its target (the best block,   *)
(* or the finalized block when unfinalized blocks are disabled), unless    *)
(* the process stopped (the out-of-sequence exit or an undefined rewind    *)
(* target).  It fails if processUnfinalizedBlocks can get stuck, or fork   *)
(* rewinds, restarts and finalization can keep it from progressing.        *)
(* TLC finds it violated: a stale record at lastCheckedBlockHeight makes   *)
(* every block rewind to that height again (see README).                  *)
IndexerReachesTarget ==
  <>(pc \in {"exited", "badRewind"} \/ (pc = "idle" /\ cursor > TargetHeight))

(* Spec section 8: after processUnfinalizedBlocks returns null with        *)
(* finalized tip F (lastCheckedBlockHeight = F), no record has height <= F. *)
NoRecordAtOrBelowChecked ==
  pc = "idle" /\ lastChecked /= NONE =>
    \A i \in 1 .. Len(unfinalized) : unfinalized[i].height > lastChecked

(* Spec section 4.5: when a fork is found and no record matches, the       *)
(* rewind target is lastCheckedBlockHeight "as a best-effort safe point";  *)
(* the dispatcher must never be handed an undefined target.                *)
RewindDefined == pc /= "badRewind"

(* Spec section 8: a fork rewind never advances the cursor (rewindHeight   *)
(* <= lastProcessedHeight): no step moves the next height to index past    *)
(* the one after it, so no height is skipped.                              *)
CursorNeverSkips == [][cursor' <= cursor + 1]_vars

(* Every block the store holds at or below the last verified finalized     *)
(* height is the canonical one: a fork below the finalized tip is found.   *)
FinalizedIndexCanonical ==
  \A h \in Heights :
    lastChecked /= NONE /\ h <= lastChecked /\ indexed[h] /= NONE
      => indexed[h] = CanonHash(h)

=============================================================================
