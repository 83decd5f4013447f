------------------------------- MODULE Syncer -------------------------------
(***************************************************************************)
(* The indexer process (internal/indexer/syncer.go and reorg.go), the      *)
(* requests of the API process that write the same tables (RegisterToken   *)
(* and UnregisterToken of internal/api/handlers.go), the node and the      *)
(* database, composed.                                                     *)
(*                                                                         *)
(* Every remote call of the indexer is a step of its own: one request to   *)
(* the node, one statement, or one transaction.  Between any two of them   *)
(* the node mines or reorganises, a request to the API runs, a call fails  *)
(* or the process dies.  pc is the call that comes next:                   *)
(*                                                                         *)
(*   down                  no indexer process                              *)
(*   boot get0 create0     bootstrapTokens: Tokens.Upsert, the Get and the *)
(*                         Upsert of GetOrCreate, for one token            *)
(*   idle                  waiting for the ticker, then LatestBlockNumber  *)
(*   walk rollback         handleReorg: FindRollbackBlock, then WithTx     *)
(*   list                  Tokens.ListActive                               *)
(*   get create scan load  syncToken, for the first token of todo; the     *)
(*                         commit is made when all blocks are loaded       *)
(*                                                                         *)
(* Local variables are reset when they are dead.                           *)
(***************************************************************************)
EXTENDS Chain, BatchApplier, BatchSizer

CONSTANTS
  ConfigTokens,       \* tokens of the configuration
  StartBlock,         \* chain.start_block
  Confirmations,      \* chain.confirmations
  ReorgDepth,         \* chain.reorg_depth, 0 when not set
  Request,            \* requests the API serves at a time
  ExecModes,          \* the protocol the driver may speak: only the simple one
                      \* runs an Exec of several statements with parameters
  ReorgMidTick        \* a reorganisation deeper than the confirmations may
                      \* fall into a tick, and not only between two ticks

ASSUME SyncerAssumption ==
  /\ ConfigTokens \subseteq Token
  /\ StartBlock \in Nat /\ Confirmations \in Nat /\ ReorgDepth \in Nat
  /\ ExecModes \subseteq {"simple", "extended"} /\ ReorgMidTick \in BOOLEAN
  /\ NoRow \notin Hash /\ NoRow \notin Nat /\ NoRow \notin [amount : Int, block : Nat]
  /\ StartBlock + MaxHeight + maxBatch < Word

VARIABLES
  \* the tables
  active,      \* the tokens with a row in tokens and is_active set
  cursor, blocks, transfers, approvals, balances, allowances,
  \* the indexer's locals
  pc,
  safe,        \* safeBlock of the tick
  at,          \* n in FindRollbackBlock, then rollbackTo
  mismatched,
  todo,        \* the tokens the loop has not finished with
  from, to,    \* the range of the batch
  logs,        \* rawLogs of the batch
  cache,       \* blockCache: [Height -> hash or NoRow]
  next,        \* the next block loadBlocks asks for
  \* the requests in flight at the API
  req          \* req[r]: [pc, token]

rowVars    == <<transfers, approvals, balances, allowances>>
dbVars     == <<active, cursor, blocks, transfers, approvals, balances, allowances>>
walkVars   == <<at, mismatched>>
batchVars  == <<from, to, logs, cache, next>>
localVars  == <<safe, at, mismatched, todo, from, to, logs, cache, next>>
vars == <<branch, head, active, cursor, blocks, transfers, approvals, balances,
          allowances, pc, safe, at, mismatched, todo, from, to, logs, cache,
          next, sizer, req>>

-----------------------------------------------------------------------------
NoBlocks == [n \in Height |-> NoRow]

\* Tokens are synced in the order of the list: ORDER BY address.
IsNext(t) == t \in todo /\ \A u \in todo : t <= u

\* The default of NewReorgDetector.
depth == IF ReorgDepth = 0 THEN 64 ELSE ReorgDepth

\* Mutant: the walk covers one block less.
LowestCheckedShort(lastIndexed) ==
  IF lastIndexed > depth THEN lastIndexed - depth + 2 ELSE 2

\* start: the lowest block FindRollbackBlock compares.
LowestChecked(lastIndexed) ==
  IF lastIndexed > depth THEN lastIndexed - depth + 1 ELSE 1

\* No locals of a tick are alive.
ClearWalk  == at' = 0 /\ mismatched' = FALSE
ClearBatch == from' = 0 /\ to' = 0 /\ logs' = {} /\ cache' = NoBlocks /\ next' = 0
ClearTick  == safe' = 0 /\ todo' = {} /\ ClearWalk /\ ClearBatch

GoIdle == pc' = "idle" /\ ClearTick

FreeRequest == [pc |-> "free", token |-> NoRow]

Init ==
  /\ ChainInit
  /\ active = {}
  /\ cursor = [t \in Token |-> NoRow]
  /\ blocks = NoBlocks
  /\ transfers = {} /\ approvals = {}
  /\ balances = [k \in BalanceKey(Token) |-> NoRow]
  /\ allowances = [k \in AllowanceKey(Token) |-> NoRow]
  /\ pc = "down"
  /\ safe = 0 /\ at = 0 /\ mismatched = FALSE /\ todo = {}
  /\ from = 0 /\ to = 0 /\ logs = {} /\ cache = NoBlocks /\ next = 0
  /\ SizerInit
  /\ req = [r \in Request |-> FreeRequest]

-----------------------------------------------------------------------------
(* Run and bootstrapTokens *)

Start ==
  /\ pc = "down"
  /\ pc' = "boot"
  /\ todo' = ConfigTokens
  /\ UNCHANGED <<chainVars, dbVars, safe, walkVars, batchVars, sizer, req>>

BootUpsert(t) ==
  /\ pc = "boot" /\ IsNext(t)
  /\ active' = active \cup {t}
  /\ pc' = "get0"
  /\ UNCHANGED <<chainVars, cursor, blocks, rowVars, localVars, sizer, req>>

\* Mutant: the row read is ignored.
BootGetIgnored(t) ==
  /\ pc = "get0" /\ IsNext(t)
  /\ pc' = "create0"
  /\ UNCHANGED <<chainVars, dbVars, localVars, sizer, req>>

BootGet(t) ==
  /\ pc = "get0" /\ IsNext(t)
  /\ IF cursor[t] = NoRow
     THEN pc' = "create0" /\ UNCHANGED todo
     ELSE pc' = "boot" /\ todo' = todo \ {t}
  /\ UNCHANGED <<chainVars, dbVars, safe, walkVars, batchVars, sizer, req>>

BootCreate(t) ==
  /\ pc = "create0" /\ IsNext(t)
  /\ cursor' = [cursor EXCEPT ![t] = InitialCursor(StartBlock)]
  /\ pc' = "boot"
  /\ todo' = todo \ {t}
  /\ UNCHANGED <<chainVars, active, blocks, rowVars, safe, walkVars, batchVars,
                 sizer, req>>

BootDone ==
  /\ pc = "boot" /\ todo = {}
  /\ pc' = "idle"
  /\ UNCHANGED <<chainVars, dbVars, localVars, sizer, req>>

-----------------------------------------------------------------------------
(* syncOnce and handleReorg *)

\* Only the indexer writes indexed_blocks, so that its latest number may as
\* well be read together with the head of the node.
Tick ==
  /\ pc = "idle"
  /\ LatestBlockNumber > Confirmations
  /\ safe' = LatestBlockNumber - Confirmations
  /\ \/ /\ StoredHeights(blocks) = {}
        /\ pc' = "list"
        /\ UNCHANGED at
     \/ /\ \E n \in Height : IsLatestNumber(n, blocks) /\ at' = n
        /\ pc' = "walk"
  /\ UNCHANGED <<chainVars, dbVars, mismatched, todo, batchVars, sizer, req>>

Walking ==
  /\ pc = "walk"
  /\ \E n \in Height : IsLatestNumber(n, blocks) /\ at >= LowestChecked(n)

WalkGap ==
  /\ Walking
  /\ blocks[at] = NoRow
  /\ at' = at - 1
  /\ UNCHANGED <<chainVars, dbVars, pc, safe, mismatched, todo, batchVars, sizer,
                 req>>

WalkMatch ==
  /\ Walking
  /\ blocks[at] # NoRow /\ HasBlock(at) /\ blocks[at] = BlockByNumber(at)
  /\ IF mismatched THEN pc' = "rollback" /\ UNCHANGED walkVars
                   ELSE pc' = "list" /\ ClearWalk
  /\ UNCHANGED <<chainVars, dbVars, safe, todo, batchVars, sizer, req>>

\* Mutant: the difference is not remembered.
WalkMismatchForgotten ==
  /\ Walking
  /\ blocks[at] # NoRow /\ HasBlock(at) /\ blocks[at] # BlockByNumber(at)
  /\ at' = at - 1
  /\ UNCHANGED <<chainVars, dbVars, pc, safe, mismatched, todo, batchVars, sizer,
                 req>>

WalkMismatch ==
  /\ Walking
  /\ blocks[at] # NoRow /\ HasBlock(at) /\ blocks[at] # BlockByNumber(at)
  /\ mismatched' = TRUE
  /\ at' = at - 1
  /\ UNCHANGED <<chainVars, dbVars, pc, safe, todo, batchVars, sizer, req>>

\* The node no longer has a block with this number: an error.
WalkNotFound ==
  /\ Walking
  /\ blocks[at] # NoRow /\ ~HasBlock(at)
  /\ GoIdle
  /\ UNCHANGED <<chainVars, dbVars, sizer, req>>

\* No block left to compare: an error when one differed.
WalkExhausted ==
  /\ pc = "walk"
  /\ \E n \in Height : IsLatestNumber(n, blocks) /\ at < LowestChecked(n)
  /\ IF mismatched THEN GoIdle
     ELSE pc' = "list" /\ ClearWalk /\ UNCHANGED <<safe, todo, batchVars>>
  /\ UNCHANGED <<chainVars, dbVars, sizer, req>>

RolledBack ==
  /\ transfers' = DeletedAfterBlock(transfers, at)
  /\ approvals' = DeletedAfterBlock(approvals, at)
  /\ blocks' = BlocksUpTo(blocks, at)
  /\ balances' = BalancesRebuilt(balances, transfers')
  /\ allowances' = AllowancesRebuilt(allowances, approvals')
  /\ cursor' = CursorRolledBack(cursor, at)

Rollback ==
  /\ pc = "rollback" /\ "simple" \in ExecModes
  /\ RolledBack
  /\ pc' = "list"
  /\ ClearWalk
  /\ UNCHANGED <<chainVars, active, safe, todo, batchVars, sizer, req>>

\* The driver refuses the statements of RebuildFromTransfer; the transaction
\* is rolled back and the tick ends with the error.
RollbackRejected ==
  /\ pc = "rollback" /\ "extended" \in ExecModes
  /\ GoIdle
  /\ UNCHANGED <<chainVars, dbVars, sizer, req>>

ListActive ==
  /\ pc = "list"
  /\ todo' = active
  /\ pc' = "get"
  /\ UNCHANGED <<chainVars, dbVars, safe, walkVars, batchVars, sizer, req>>

EndTick ==
  /\ pc = "get" /\ todo = {}
  /\ GoIdle
  /\ UNCHANGED <<chainVars, dbVars, sizer, req>>

-----------------------------------------------------------------------------
(* syncToken *)

\* The loop goes on with the tokens after t.
TokenDone(t) ==
  /\ pc' = "get"
  /\ todo' = todo \ {t}
  /\ ClearBatch

\* NextRange for a token whose last indexed block is known.
RangeFrom(t, lastIndexed) ==
  IF HasRange(lastIndexed, safe)
  THEN /\ pc' = "scan"
       /\ from' = NextFrom(lastIndexed)
       /\ to' = NextTo(sizer[t].current, lastIndexed, safe)
       /\ UNCHANGED <<todo, logs, cache, next>>
  ELSE TokenDone(t)

GetState(t) ==
  /\ pc = "get" /\ IsNext(t)
  /\ IF cursor[t] = NoRow
     THEN pc' = "create" /\ UNCHANGED <<todo, batchVars>>
     ELSE RangeFrom(t, cursor[t])
  /\ UNCHANGED <<chainVars, dbVars, safe, walkVars, sizer, req>>

CreateState(t) ==
  /\ pc = "create" /\ IsNext(t)
  /\ cursor' = [cursor EXCEPT ![t] = InitialCursor(StartBlock)]
  /\ RangeFrom(t, InitialCursor(StartBlock))
  /\ UNCHANGED <<chainVars, active, blocks, rowVars, safe, walkVars, sizer, req>>

Scan(t) ==
  /\ pc = "scan" /\ IsNext(t)
  /\ logs' = FilterLogs(t, from, to)
  /\ pc' = "load"
  /\ next' = from
  /\ UNCHANGED <<chainVars, dbVars, safe, walkVars, todo, from, to, cache, sizer,
                 req>>

\* loadBlocks: its semaphore lets one request through at a time.
LoadBlock ==
  /\ pc = "load" /\ next <= to
  /\ HasBlock(next)
  /\ cache' = [cache EXCEPT ![next] = BlockByNumber(next)]
  /\ next' = next + 1
  /\ UNCHANGED <<chainVars, dbVars, pc, safe, walkVars, todo, from, to, logs,
                 sizer, req>>

LoadNotFound(t) ==
  /\ pc = "load" /\ IsNext(t) /\ next <= to
  /\ ~HasBlock(next)
  /\ RecordFailure(t)
  /\ TokenDone(t)
  /\ UNCHANGED <<chainVars, dbVars, safe, walkVars, req>>

\* commitBatch
Committed(t) ==
  LET newTransfers == NewRows(transfers, Decoded(logs, "transfer"))
      newApprovals == NewRows(approvals, Decoded(logs, "approval"))
  IN  /\ blocks' = BlocksUpserted(blocks, cache)
      /\ transfers' = transfers \cup newTransfers
      /\ approvals' = approvals \cup newApprovals
      /\ balances' = BalancesApplied(balances, newTransfers)
      /\ allowances' = AllowancesApplied(allowances, newApprovals)
      /\ cursor' = [cursor EXCEPT ![t] = to]

Commit(t) ==
  /\ pc = "load" /\ IsNext(t) /\ next > to
  /\ Committed(t)
  /\ RecordSuccess(t)
  /\ TokenDone(t)
  /\ UNCHANGED <<chainVars, active, safe, walkVars, req>>

-----------------------------------------------------------------------------
(* Failures: a request or a statement that returns an error, in time or    *)
(* after its retries, and the death of the process.  A commit may fail     *)
(* although the database has made it.                                      *)

TickFails ==
  /\ pc \in {"walk", "rollback", "list"}
  /\ GoIdle
  /\ UNCHANGED <<chainVars, dbVars, sizer, req>>

RollbackUnknown ==
  /\ pc = "rollback" /\ "simple" \in ExecModes
  /\ RolledBack
  /\ GoIdle
  /\ UNCHANGED <<chainVars, active, sizer, req>>

\* GetOrCreate fails, which is no failure of a batch.
StateFails(t) ==
  /\ pc \in {"get", "create"} /\ IsNext(t)
  /\ TokenDone(t)
  /\ UNCHANGED <<chainVars, dbVars, safe, walkVars, sizer, req>>

CreateUnknown(t) ==
  /\ pc = "create" /\ IsNext(t)
  /\ cursor' = [cursor EXCEPT ![t] = InitialCursor(StartBlock)]
  /\ TokenDone(t)
  /\ UNCHANGED <<chainVars, active, blocks, rowVars, safe, walkVars, sizer, req>>

\* Scan, loadBlocks or commitBatch fails.
BatchFails(t) ==
  /\ pc \in {"scan", "load"} /\ IsNext(t)
  /\ RecordFailure(t)
  /\ TokenDone(t)
  /\ UNCHANGED <<chainVars, dbVars, safe, walkVars, req>>

CommitUnknown(t) ==
  /\ pc = "load" /\ IsNext(t) /\ next > to
  /\ Committed(t)
  /\ RecordFailure(t)
  /\ TokenDone(t)
  /\ UNCHANGED <<chainVars, active, safe, walkVars, req>>

\* Run returns (bootstrapTokens failed, or the context is cancelled) or the
\* process is killed.
Crash ==
  /\ pc # "down"
  /\ pc' = "down"
  /\ ClearTick
  /\ sizer' = FreshSizer
  /\ UNCHANGED <<chainVars, dbVars, req>>

-----------------------------------------------------------------------------
(* RegisterToken and UnregisterToken, in the API process *)

Register(r, t) ==
  /\ req[r].pc = "free"
  /\ active' = active \cup {t}
  /\ req' = [req EXCEPT ![r] = [pc |-> "get", token |-> t]]
  /\ UNCHANGED <<chainVars, cursor, blocks, rowVars, pc, localVars, sizer>>

RegisterGet(r) ==
  /\ req[r].pc = "get"
  /\ req' = [req EXCEPT ![r] =
               IF cursor[@.token] = NoRow THEN [@ EXCEPT !.pc = "create"]
                                          ELSE FreeRequest]
  /\ UNCHANGED <<chainVars, dbVars, pc, localVars, sizer>>

RegisterCreate(r) ==
  /\ req[r].pc = "create"
  /\ cursor' = [cursor EXCEPT ![req[r].token] = InitialCursor(StartBlock)]
  /\ req' = [req EXCEPT ![r] = FreeRequest]
  /\ UNCHANGED <<chainVars, active, blocks, rowVars, pc, localVars, sizer>>

\* A statement of the request fails, or the API process stops.
RegisterFails(r) ==
  /\ req[r].pc # "free"
  /\ req' = [req EXCEPT ![r] = FreeRequest]
  /\ UNCHANGED <<chainVars, dbVars, pc, localVars, sizer>>

Unregister(t) ==
  /\ active' = active \ {t}
  /\ UNCHANGED <<chainVars, cursor, blocks, rowVars, pc, localVars, sizer, req>>

-----------------------------------------------------------------------------
(* The node.  Between two ticks the chain is reorganised to any depth.     *)
(* During a tick the confirmations protect what the tick relies on: the    *)
(* blocks up to the safe head, and those already indexed, stay - unless    *)
(* ReorgMidTick.                                                           *)

Quiet == pc \in {"down", "boot", "get0", "create0", "idle"}

Protects(n, b, h) == n <= safe \/ n \in StoredHeights(blocks) => KeepsUpTo(n, b, h)

Reorg(b, h) ==
  /\ ReorgMidTick \/ Quiet \/ \A n \in Height : Protects(n, b, h)
  /\ SwitchTo(b, h)

ChainStep ==
  /\ Mine \/ \E b \in Branch, h \in 0..MaxHeight : Reorg(b, h)
  /\ UNCHANGED <<dbVars, pc, localVars, sizer, req>>

-----------------------------------------------------------------------------
\* What the indexer does when every call is answered.
TickStep ==
  \/ Tick \/ WalkGap \/ WalkMatch \/ WalkMismatch \/ WalkNotFound \/ WalkExhausted
  \/ Rollback \/ RollbackRejected \/ ListActive \/ EndTick

TokenStep ==
  \/ LoadBlock
  \/ \E t \in Token :
       GetState(t) \/ CreateState(t) \/ Scan(t) \/ LoadNotFound(t) \/ Commit(t)

BootStep ==
  \/ Start \/ BootDone
  \/ \E t \in Token : BootUpsert(t) \/ BootGet(t) \/ BootCreate(t)

Step == TickStep \/ TokenStep \/ BootStep

Failure ==
  \/ TickFails \/ RollbackUnknown \/ Crash
  \/ \E t \in Token :
       StateFails(t) \/ CreateUnknown(t) \/ BatchFails(t) \/ CommitUnknown(t)

ApiStep ==
  \/ \E r \in Request :
       RegisterGet(r) \/ RegisterCreate(r) \/ RegisterFails(r)
  \/ \E r \in Request, t \in Token : Register(r, t)
  \/ \E t \in Token : Request # {} /\ Unregister(t)

Next == Step \/ Failure \/ ApiStep \/ ChainStep

Spec == Init /\ [][Next]_vars

\* The scheduler of the operating system and the ticker let the indexer run.
FairSpec == Spec /\ WF_vars(Step)

=============================================================================
