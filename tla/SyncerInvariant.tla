-------------------------- MODULE SyncerInvariant --------------------------
(***************************************************************************)
(* The inductive invariant behind the safety of Syncer when no             *)
(* reorganisation falls into a tick: what the tables are at every moment,  *)
(* and what the locals of a tick have established about them so far.       *)
(***************************************************************************)
EXTENDS SyncerProperties

-----------------------------------------------------------------------------
(* The tables *)

Linked ==
  \E b \in Branch : \A n \in StoredHeights(blocks) : blocks[n] = BlockOn[b][n]

Contiguous ==
  \A n \in StoredHeights(blocks) : First..n \subseteq StoredHeights(blocks)

\* The rows of a table are decoded logs of indexed blocks.
Sound(table, kind) ==
  \A r \in table : /\ r.hash = blocks[r.number]
                   /\ r.log \in LogsIn[r.hash]
                   /\ r.log.kind = kind

TablesInv ==
  /\ Linked
  /\ Contiguous
  /\ Sound(transfers, "transfer") /\ Sound(approvals, "approval")
  /\ NoMissingRows

-----------------------------------------------------------------------------
(* The tick *)

\* The confirmations protect blocks the node has.
SafeInv == ~Quiet => safe <= head

\* Until a block differs the walk stands at the top, and then everything
\* above it differs.
WalkInv ==
  /\ pc = "walk" /\ ~mismatched => IsLatestNumber(at, blocks)
  /\ pc \in {"walk", "rollback"} =>
       \A n \in StoredHeights(blocks) :
         n > at => HasBlock(n) /\ blocks[n] # BlockByNumber(n)
  /\ pc = "rollback" => at \in StoredHeights(blocks) /\ IsCanonical(at)

\* After handleReorg everything indexed is canonical.
CheckedInv ==
  pc \in {"list", "get", "create", "scan", "load"} =>
    \A n \in StoredHeights(blocks) : IsCanonical(n)

\* The range of a batch follows what is complete for its token, even when
\* the cursor has been set back since.
RangeInv ==
  pc \in {"scan", "load"} =>
    /\ 1 <= from /\ from <= to /\ to <= safe
    /\ \A t \in Token : IsNext(t) => \A n \in First..(from - 1) : IsIndexed(t, n)

\* What was fetched for the batch is still what the node has.
BatchInv ==
  /\ pc = "load" =>
       /\ from <= next /\ next <= to + 1
       /\ \A t \in Token : IsNext(t) => logs = FilterLogs(t, from, to)
       /\ \A n \in Height :
            cache[n] = IF n \in from..(next - 1) THEN BlockByNumber(n) ELSE NoRow
  /\ pc # "load" => cache = NoBlocks

TickInv == SafeInv /\ WalkInv /\ CheckedInv /\ RangeInv /\ BatchInv

(* Between two steps the tables are complete and sound on one branch, and  *)
(* a tick in progress works on blocks that are still canonical.            *)
IInv == TablesInv /\ TickInv

-----------------------------------------------------------------------------
(* The balances and the allowances *)

\* A stored event has everything of its token below it: what a batch inserts
\* is later than all that is stored of its token, so that a cursor set back
\* makes the indexer read again but not insert again.
RowsReachBack ==
  \A r \in transfers \cup approvals : \A n \in First..r.number :
    IsIndexed(r.log.token, n)

DerivedInv ==
  /\ RowsReachBack
  /\ DOMAIN balances = BalanceKey(Token)
  /\ BalancesMatchTransfers

\* The transfers in the blocks First..n of a branch.
TransfersOn(b, n) ==
  UNION {{Row(m, BlockOn[b][m], l) :
            l \in {k \in LogsIn[BlockOn[b][m]] : k.kind = "transfer"}} :
         m \in Height \cap (First..n)}

\* No holder passes on more than it has received since the first block indexed.
\* Of the tokens and the start block, not of the code: a token may have been in
\* use before the start block, or move balances without an event.
Solvent ==
  \A b \in Branch, n \in Height, k \in BalanceKey(Token) :
    Total(Debits(TransfersOn(b, n), k)) <= Total(Credits(TransfersOn(b, n), k))

-----------------------------------------------------------------------------
(* Whatever the node does *)

\* What the locals of a tick know of the heights they cover.
CoverTick ==
  /\ pc = "rollback" => at \in StoredHeights(blocks)
  /\ pc \in {"scan", "load"} =>
       /\ 1 <= from /\ from <= to /\ to <= MaxHeight
       /\ First..(from - 1) \subseteq StoredHeights(blocks)
  /\ pc = "load" =>
       /\ from <= next /\ next <= to + 1
       /\ \A n \in Height : cache[n] # NoRow <=> n \in from..(next - 1)
       /\ \A r \in logs : r.number \in from..to
  /\ pc # "load" => cache = NoBlocks

(* Also when the chain is reorganised in the middle of a tick: the heights *)
(* of the tables fit together, whatever hashes they hold.                  *)
CoverInv == WalkCoversTables /\ CoverTick

\* Nothing is indexed or promised below the first block.
FromFirst ==
  /\ \A t \in Token : cursor[t] # NoRow => First - 1 <= cursor[t]
  /\ \A n \in StoredHeights(blocks) : First <= n
  /\ pc \in {"scan", "load"} => First <= from

\* What a tick has read of the cursor of its token still bounds it: a request
\* of the API may have written the first cursor since, and nothing else.
CursorInv ==
  /\ pc \in {"create0", "create"} =>
       \A t \in Token : IsNext(t) => cursor[t] \in {NoRow, InitialCursor(StartBlock)}
  /\ pc \in {"scan", "load"} =>
       \A t \in Token : IsNext(t) /\ cursor[t] # NoRow => cursor[t] < from

=============================================================================
