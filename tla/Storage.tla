------------------------------- MODULE Storage -------------------------------
(***************************************************************************)
(* internal/storage: what each SQL statement of the repositories returns   *)
(* or makes of its table, as functions of the tables.  A transaction       *)
(* (WithTx) is one step that composes them.                                *)
(*                                                                         *)
(*   blocks      indexed_blocks    [Height -> hash or NoRow]               *)
(*   cursor      sync_state        [Token -> last_indexed_block or NoRow]  *)
(*   transfers   erc20_transfers   set of rows [number, hash, log]         *)
(*   approvals   erc20_approvals   set of rows [number, hash, log]         *)
(*   balances    erc20_balances    [BalanceKey -> [amount, block] or NoRow]*)
(*   allowances  erc20_allowances  [AllowanceKey -> same or NoRow]         *)
(*                                                                         *)
(* There is one chain id.  finalized_block is left out: every statement    *)
(* that writes it writes the value of last_indexed_block.                  *)
(***************************************************************************)
EXTENDS Integers, FiniteSetsExt, Functions

CONSTANTS
  NoRow,    \* no row with this key
  Holder    \* the holder addresses followed, without the zero address

BalanceKey(tokens) == [token : tokens, holder : Holder]
AllowanceKey(tokens) == [token : tokens, owner : Holder, spender : Holder]

Least(m, n) == IF m < n THEN m ELSE n

-----------------------------------------------------------------------------
(* indexed_blocks: BlockRepo *)

StoredHeights(blocks) == {n \in DOMAIN blocks : blocks[n] # NoRow}

\* BlockRepo.LatestNumber, when there is a block.
IsLatestNumber(n, blocks) ==
  n \in StoredHeights(blocks) /\ \A m \in StoredHeights(blocks) : m <= n

\* BlockRepo.Upsert of every block of the cache.
BlocksUpserted(blocks, cache) ==
  [n \in DOMAIN blocks |-> IF cache[n] # NoRow THEN cache[n] ELSE blocks[n]]

\* BlockRepo.DeleteAfterBlock
BlocksUpTo(blocks, blockNumber) ==
  [n \in DOMAIN blocks |-> IF n > blockNumber THEN NoRow ELSE blocks[n]]

-----------------------------------------------------------------------------
(* erc20_transfers and erc20_approvals: primary key (tx_hash, log_index),  *)
(* INSERT ... ON CONFLICT DO NOTHING.                                      *)

SameKey(r, s) == r.log.tx = s.log.tx /\ r.log.idx = s.log.idx

\* Mutant: the rows reported as inserted include the conflicting ones.
AllRows(table, rows) == rows

\* The rows an insertion really adds (RowsAffected() > 0).
NewRows(table, rows) == {r \in rows : \A s \in table : ~SameKey(r, s)}

\* Mutant: the row at the block rolled back to goes too.
DeletedFromBlock(table, blockNumber) == {r \in table : r.number < blockNumber}
\* Mutant: one block too many is kept.
DeletedAfterNext(table, blockNumber) ==
  {r \in table : r.number <= blockNumber + 1}

\* DeleteAfterBlock
DeletedAfterBlock(table, blockNumber) ==
  {r \in table : r.number <= blockNumber}

-----------------------------------------------------------------------------
(* sync_state: SyncStateRepo *)

\* Mutant: the block before the first one, also when there is none.
CursorBefore(startBlock) == startBlock - 1

\* The last indexed block GetOrCreate stores for a token it does not know.
InitialCursor(startBlock) == IF startBlock > 0 THEN startBlock - 1 ELSE 0

\* Mutant: the cursors are left where they are.
CursorKept(cursor, blockNumber) == cursor

\* RollbackAfterBlock
CursorRolledBack(cursor, blockNumber) ==
  [t \in DOMAIN cursor |->
     IF cursor[t] = NoRow THEN NoRow ELSE Least(cursor[t], blockNumber)]

-----------------------------------------------------------------------------
(* erc20_balances and erc20_allowances: BalanceRepo *)

\* Balances.Add: the new row of a key whose row was row.
Added(row, delta, blockNumber) ==
  [amount |-> IF row = NoRow THEN delta ELSE row.amount + delta,
   block  |-> blockNumber]

\* Balances.Subtract.  The row it inserts for a new key holds delta itself.
Subtracted(row, delta, blockNumber) ==
  [amount |-> IF row = NoRow THEN delta ELSE row.amount - delta,
   block  |-> blockNumber]

Credits(table, k) == {r \in table : r.log.token = k.token /\ r.log.dst = k.holder}
Debits(table, k)  == {r \in table : r.log.token = k.token /\ r.log.src = k.holder}

Total(rows) == SumFunction([r \in rows |-> r.log.val])
MaxBlock(rows) == Max({r.number : r \in rows})

\* RebuildFromTransfer: credits minus debits of all stored transfers.
BalancesRebuilt(balances, transfers) ==
  [k \in DOMAIN balances |->
     LET in  == Credits(transfers, k)
         out == Debits(transfers, k)
     IN  IF in \cup out = {} THEN NoRow
         ELSE [amount |-> Total(in) - Total(out),
               block  |-> MaxBlock(in \cup out)]]

ApprovalsOf(table, k) ==
  {r \in table : /\ r.log.token = k.token
                 /\ r.log.src = k.owner
                 /\ r.log.dst = k.spender}

\* ORDER BY block_number DESC, log_index DESC: r does not come after s.
NotAfter(r, s) ==
  r.number < s.number \/ (r.number = s.number /\ r.log.idx <= s.log.idx)

Latest(rows) == {s \in rows : \A r \in rows : NotAfter(r, s)}

\* The row SetAllowance writes for the latest of some approvals.
AllowanceRow(rows) ==
  LET last == CHOOSE s \in Latest(rows) : TRUE
  IN  [amount |-> last.log.val, block |-> last.number]

\* RebuildAllowancesFromApprovals: SELECT DISTINCT ON the key.
AllowancesRebuilt(allowances, approvals) ==
  [k \in DOMAIN allowances |->
     LET rows == ApprovalsOf(approvals, k)
     IN  IF rows = {} THEN NoRow ELSE AllowanceRow(rows)]

=============================================================================
