-------------------------- MODULE SyncerProperties --------------------------
(***************************************************************************)
(* What the indexer promises: the tables are those of one branch of the    *)
(* chain, without a gap and without an event counted twice, across         *)
(* failures, crashes, late requests and reorganisations.                   *)
(***************************************************************************)
EXTENDS Syncer, FiniteSets

RowSet == [number : Height, hash : Hash, log : Log]

Caches == [Height -> Hash \cup {NoRow}]

TypeOK ==
  /\ ChainTypeOK
  /\ active \subseteq Token
  /\ cursor \in [Token -> Nat \cup {NoRow}]
  /\ blocks \in Caches
  /\ transfers \subseteq RowSet /\ approvals \subseteq RowSet
  /\ pc \in {"down", "boot", "get0", "create0", "idle", "walk", "rollback", "list",
             "get", "create", "scan", "load"}
  /\ safe \in 0..MaxHeight
  /\ at \in 0..MaxHeight
  /\ mismatched \in BOOLEAN
  /\ todo \subseteq Token
  /\ from \in Nat /\ to \in Nat /\ next \in Nat
  /\ logs \subseteq RowSet
  /\ cache \in Caches
  /\ SizerTypeOK
  /\ req \in [Request -> [pc : {"free", "get", "create"}, token : Token \cup {NoRow}]]

-----------------------------------------------------------------------------
(* Safety *)

\* The first block that is ever indexed.
First == InitialCursor(StartBlock) + 1

\* Block n and all events of token t in it are stored.
IsIndexed(t, n) ==
  /\ n \in StoredHeights(blocks)
  /\ \A l \in LogsIn[blocks[n]] : l.token = t =>
       /\ l.kind = "transfer" => Row(n, blocks[n], l) \in transfers
       /\ l.kind = "approval" => Row(n, blocks[n], l) \in approvals

\* Block n is on the canonical branch of the node.
IsCanonical(n) == HasBlock(n) /\ blocks[n] = BlockByNumber(n)

(* The indexed blocks are consecutive blocks of one branch, beginning with *)
(* the first block ever indexed: no commit puts a block on top of a block  *)
(* that is not its parent (commitBatch, syncer.go:214, never compares      *)
(* parent hashes; it relies on handleReorg).                               *)
StoredBlocksLinked ==
  /\ \E b \in Branch : \A n \in StoredHeights(blocks) : blocks[n] = BlockOn[b][n]
  /\ \A n \in StoredHeights(blocks) : First..n \subseteq StoredHeights(blocks)

(* Every stored event was read from a block that is indexed now, so that   *)
(* nothing of a branch that was given up is left (DeleteAfterBlock,        *)
(* transfer_repo.go:55 and approval_repo.go:60).                           *)
RowsMatchBlocks ==
  \A r \in transfers \cup approvals :
    r.hash = blocks[r.number] /\ r.log \in LogsIn[r.hash]

(* Up to the cursor of a token no event of it is missing: each block is    *)
(* indexed, and each of the token's transfers and approvals in it has its  *)
(* row.  The cursor may have been written by the indexer, by a late        *)
(* request of the API or by a rollback (syncer.go:232, sync_state_repo.go).*)
NoMissingRows ==
  \A t \in Token : cursor[t] # NoRow =>
    \A n \in First..cursor[t] : IsIndexed(t, n)

(* The balances kept up to date by the batches are those a rebuild from    *)
(* the stored transfers yields: no transfer is counted twice or not at all *)
(* when a batch is repeated after a failure, a crash or a cursor set back  *)
(* (applyBalanceDeltas, batch_applier.go:102, and RebuildFromTransfer).    *)
BalancesMatchTransfers == balances = BalancesRebuilt(balances, transfers)

(* Each allowance is the value of the latest stored approval, although     *)
(* SetAllowance overwrites whatever row there is (batch_applier.go:151).   *)
AllowancesMatchApprovals == allowances = AllowancesRebuilt(allowances, approvals)

(* Also when a reorganisation falls into a tick: the indexed blocks have   *)
(* no gap, they reach as far as every cursor, and no event lies above      *)
(* them, so that the walk of the next tick starts at or above all heights  *)
(* stored (LatestNumber, block_repo.go:37).  It says nothing of what the   *)
(* rows hold: logs and blocks read before and after the reorganisation may *)
(* be of different branches.                                               *)
WalkCoversTables ==
  /\ \A n \in StoredHeights(blocks) : First..n \subseteq StoredHeights(blocks)
  /\ \A t \in Token : cursor[t] # NoRow =>
       cursor[t] < First \/ cursor[t] \in StoredHeights(blocks)
  /\ \A r \in transfers \cup approvals : r.number \in StoredHeights(blocks)

-----------------------------------------------------------------------------
(* Steps *)

AnswerFound == pc = "walk" /\ pc' \in {"list", "rollback"}

(* When FindRollbackBlock (reorg.go:26) answers, its answer is the highest *)
(* common block: all indexed blocks up to it are canonical and none above  *)
(* it is; when it answers that nothing changed, all of them are canonical. *)
AncestorIsHighest ==
  [][AnswerFound =>
       \A n \in StoredHeights(blocks) :
         IsCanonical(n) <=> (pc' = "rollback" => n <= at')]_vars

(* A batch goes on top of the canonical chain: right after a commit every  *)
(* indexed block, old or new, is one the node has now (syncer.go:189).     *)
CommitExtendsCanonical ==
  [][(\E t \in Token : Commit(t) \/ CommitUnknown(t)) =>
       \A n \in StoredHeights(blocks') : IsCanonical(n)']_vars

(* A step takes events away only when the node has given up their blocks:  *)
(* each row that a rollback deletes is of a block that is not canonical.   *)
OnlyOrphansDeleted ==
  [][\A r \in transfers \cup approvals :
       r \notin transfers' \cup approvals' => ~IsCanonical(r.number)]_vars

(* A cursor goes down only in a rollback (sync_state_repo.go:85) or when a *)
(* GetOrCreate that read no row resets one that was created in the         *)
(* meantime (sync_state_repo.go:33): nothing else makes the indexer scan   *)
(* again.                                                                  *)
CursorsSetBackOnly ==
  [][\A t \in Token :
       cursor[t] # NoRow /\ cursor'[t] < cursor[t] =>
         \/ pc = "rollback"
         \/ \E r \in Request : req[r] = [pc |-> "create", token |-> t]]_vars

(* The error of FindRollbackBlock says that the reorg depth exceeds the    *)
(* depth of the walk (reorg.go:57): more than that many indexed blocks     *)
(* are not canonical any more.                                             *)
ErrorMeansTooDeep ==
  [][WalkExhausted /\ mismatched =>
       Cardinality({n \in StoredHeights(blocks) : ~IsCanonical(n)}) > depth]_vars

-----------------------------------------------------------------------------
(* Liveness *)

Undisturbed == Step /\ UNCHANGED <<chainVars, req>>

NodeIsAhead == \A n \in StoredHeights(blocks) : n <= head

\* A block that is indexed and still canonical lies within the depth that the
\* walk compares, counted from the highest indexed block.
HasAncestor ==
  StoredHeights(blocks) # {} =>
    \E n \in StoredHeights(blocks) :
      IsCanonical(n) /\ \A m \in StoredHeights(blocks) : m < n + depth

CaughtUp ==
  /\ \A n \in StoredHeights(blocks) : IsCanonical(n)
  /\ head > Confirmations =>
       \A t \in active : cursor[t] # NoRow /\ cursor[t] + Confirmations >= head

(* Whatever happened before, once the node and the calls to it, to the     *)
(* database and from the API leave the indexer alone, it drops what a      *)
(* reorganisation replaced and brings every active token to the safe head, *)
(* provided that the node's head is at or above the indexed blocks, that a *)
(* block they have in common lies within the depth of the walk             *)
(* (reorg.go:36): deeper, every tick ends with the error of reorg.go:57 -  *)
(* and that the indexed blocks are linked.  They always are, unless a      *)
(* reorganisation fell inside a tick: the walk then stops at the highest   *)
(* common block and never sees others below it.                            *)
CatchesUp ==
  <>[]NodeIsAhead /\ <>[](HasAncestor /\ StoredBlocksLinked) /\ <>[][Undisturbed]_vars
    => <>[]CaughtUp

=============================================================================
