---------------------------- MODULE SyncerProofs ----------------------------
(***************************************************************************)
(* Type correctness of Syncer, whatever the node does, and the inductive   *)
(* invariant behind its safety when no reorganisation deeper than the      *)
(* confirmations falls into a tick, with the theorems it yields: for every *)
(* block tree, configuration, set of tokens and number of API requests.    *)
(***************************************************************************)
EXTENDS SyncerInvariant, BatchSizerProofs

-----------------------------------------------------------------------------
(* Types *)

TypeInv == TypeOK /\ SizeInBounds

LEMMA Constants ==
  /\ Token \subseteq Nat /\ ConfigTokens \subseteq Token
  /\ MaxHeight \in Nat /\ StartBlock \in Nat /\ Confirmations \in Nat
  /\ NoRow \notin Hash /\ NoRow \notin Nat
  /\ InitialCursor(StartBlock) \in Nat
BY SyncerAssumption, SizerAssumption, LinkAssumption DEF InitialCursor

LEMMA BlockOnType ==
  ASSUME NEW b \in Branch, NEW n \in Height
  PROVE  BlockOn[b][n] \in Hash
BY DEF Hash

LEMMA LowestCheckedType ==
  ASSUME NEW n \in Height
  PROVE  LowestChecked(n) \in Nat /\ 1 <= LowestChecked(n)
BY SyncerAssumption DEF LowestChecked, depth, Height

\* The rows a scan returns are well typed and of existing blocks.
LEMMA FilterLogsType ==
  ASSUME ChainTypeOK, NEW t \in Token, NEW m \in Nat, NEW n \in Nat
  PROVE  FilterLogs(t, m, n) \subseteq RowSet
<1>1. SUFFICES ASSUME NEW k \in m..n, HasBlock(k),
                      NEW l \in LogsIn[BlockByNumber(k)]
               PROVE  Row(k, BlockByNumber(k), l) \in RowSet
  BY <1>1 DEF FilterLogs
<1>2. k \in Height /\ BlockByNumber(k) \in Hash
  BY <1>1, BlockOnType DEF HasBlock, BlockByNumber, ChainTypeOK
<1>3. l \in Log
  BY <1>2, LogAssumption
<1>. QED
  BY <1>2, <1>3 DEF Row, RowSet

LEMMA TypeInit == Init => TypeInv
<1>. SUFFICES ASSUME Init PROVE TypeInv
  OBVIOUS
<1>1. SizerInv
  BY FreshSizerInv DEF Init, SizerInit
<1>2. /\ branch \in Branch /\ head = 0 /\ 0 \in 0..MaxHeight
      /\ active = {} /\ transfers = {} /\ approvals = {} /\ logs = {} /\ todo = {}
      /\ pc = "down" /\ safe = 0 /\ at = 0 /\ from = 0 /\ to = 0 /\ next = 0
      /\ mismatched = FALSE
  BY Constants DEF Init, ChainInit
<1>3. cursor \in [Token -> Nat \cup {NoRow}] /\ blocks \in Caches /\ cache \in Caches
  BY DEF Init, NoBlocks, Caches
<1>4. req \in [Request -> [pc : {"free", "get", "create"}, token : Token \cup {NoRow}]]
  BY DEF Init, FreeRequest
<1>. QED
  BY <1>1, <1>2, <1>3, <1>4 DEF TypeInv, TypeOK, SizerInv, ChainTypeOK

-----------------------------------------------------------------------------
(* The actions, by what they touch. *)

\* The calls of bootstrapTokens and of the API.
LEMMA TypeBoot ==
  ASSUME TypeInv, BootStep
  PROVE  TypeInv'
<1>. USE Constants DEF TypeInv, TypeOK
<1>1. ASSUME Start \/ BootDone PROVE TypeInv'
  BY <1>1 DEF Start, BootDone, chainVars, dbVars, walkVars, batchVars, localVars,
    ChainTypeOK, Caches, SizerTypeOK, SizeInBounds
<1>2. ASSUME NEW t \in Token, BootUpsert(t) PROVE TypeInv'
  BY <1>2 DEF BootUpsert, chainVars, rowVars, localVars,
    ChainTypeOK, Caches, SizerTypeOK, SizeInBounds
<1>3. ASSUME NEW t \in Token, BootGet(t) PROVE TypeInv'
  BY <1>3 DEF BootGet, chainVars, dbVars, walkVars, batchVars,
    ChainTypeOK, Caches, SizerTypeOK, SizeInBounds
<1>4. ASSUME NEW t \in Token, BootCreate(t) PROVE TypeInv'
  BY <1>4 DEF BootCreate, chainVars, rowVars, walkVars, batchVars,
    ChainTypeOK, Caches, SizerTypeOK, SizeInBounds
<1>. QED
  BY <1>1, <1>2, <1>3, <1>4 DEF BootStep

\* The tables after the transaction of handleReorg.
LEMMA TypeRolledBack ==
  ASSUME TypeOK, RolledBack
  PROVE  /\ cursor' \in [Token -> Nat \cup {NoRow}]
         /\ blocks' \in Caches
         /\ transfers' \subseteq RowSet /\ approvals' \subseteq RowSet
<1>1. at \in Nat
  BY Constants DEF TypeOK
<1>2. cursor' \in [Token -> Nat \cup {NoRow}]
  BY <1>1 DEF RolledBack, TypeOK, CursorRolledBack, Least
<1>3. blocks' \in Caches
  BY DEF RolledBack, TypeOK, BlocksUpTo, Caches
<1>. QED
  BY <1>2, <1>3 DEF RolledBack, TypeOK, DeletedAfterBlock

LEMMA ClearWalkType ==
  ClearWalk => at' \in 0..MaxHeight /\ mismatched' \in BOOLEAN
<1>1. ASSUME ClearWalk PROVE at' \in 0..MaxHeight
  BY <1>1, Constants, SMT DEF ClearWalk
<1>2. ASSUME ClearWalk PROVE mismatched' \in BOOLEAN
  BY <1>2, Zenon DEF ClearWalk
<1>. QED
  BY <1>1, <1>2

LEMMA ClearTickType ==
  ASSUME ClearTick
  PROVE  /\ safe' \in 0..MaxHeight /\ todo' \subseteq Token
         /\ at' \in 0..MaxHeight /\ mismatched' \in BOOLEAN
         /\ from' \in Nat /\ to' \in Nat /\ next' \in Nat
         /\ logs' \subseteq RowSet /\ cache' \in Caches
<1>1. at' \in 0..MaxHeight /\ mismatched' \in BOOLEAN
  BY ClearWalkType DEF ClearTick
<1>. QED
  BY <1>1, Constants DEF ClearTick, ClearBatch, NoBlocks, Caches

\* The tick up to the list of tokens.
LEMMA TypeTick ==
  ASSUME TypeInv, TickStep
  PROVE  TypeInv'
<1>. USE Constants DEF TypeInv, TypeOK
<1>1. ASSUME Tick PROVE TypeInv'
  <2>1. safe' \in 0..MaxHeight /\ at' \in 0..MaxHeight
    BY <1>1 DEF Tick, LatestBlockNumber, ChainTypeOK, Height
  <2>. QED
    BY <1>1, <2>1 DEF Tick, chainVars, dbVars, batchVars,
      ChainTypeOK, Caches, SizerTypeOK, SizeInBounds
<1>2. ASSUME WalkGap \/ WalkMismatch PROVE TypeInv'
  <2>1. Walking /\ at' = at - 1
    BY <1>2 DEF WalkGap, WalkMismatch
  <2>2. at - 1 \in 0..MaxHeight
    BY <2>1, LowestCheckedType DEF Walking
  <2>. QED
    BY <1>2, <2>1, <2>2 DEF WalkGap, WalkMismatch, chainVars, dbVars, batchVars,
      ChainTypeOK, Caches, SizerTypeOK, SizeInBounds
<1>3. ASSUME WalkMatch PROVE TypeInv'
  BY <1>3, ClearWalkType DEF WalkMatch, chainVars, dbVars, walkVars, batchVars,
    ChainTypeOK, Caches, SizerTypeOK, SizeInBounds
<1>4. ASSUME GoIdle, UNCHANGED <<chainVars, dbVars, sizer, req>> PROVE TypeInv'
  BY <1>4, ClearTickType DEF GoIdle, chainVars, dbVars, ChainTypeOK, Caches, SizerTypeOK, SizeInBounds
<1>5. ASSUME WalkExhausted PROVE TypeInv'
  <2>1. CASE mismatched
    BY <1>4, <1>5, <2>1 DEF WalkExhausted
  <2>2. CASE ~mismatched
    BY <1>5, <2>2, ClearWalkType DEF WalkExhausted, chainVars, dbVars, batchVars,
      ChainTypeOK, Caches, SizerTypeOK, SizeInBounds
  <2>. QED
    BY <2>1, <2>2
<1>6. ASSUME ListActive PROVE TypeInv'
  BY <1>6 DEF ListActive, chainVars, dbVars, walkVars, batchVars,
    ChainTypeOK, Caches, SizerTypeOK, SizeInBounds
<1>7. ASSUME Rollback PROVE TypeInv'
  BY <1>7, TypeRolledBack, ClearWalkType DEF Rollback, chainVars, batchVars,
    ChainTypeOK, Caches, SizerTypeOK, SizeInBounds
<1>. QED
  BY <1>1, <1>2, <1>3, <1>4, <1>5, <1>6, <1>7
  DEF TickStep, WalkNotFound, RollbackRejected, EndTick

\* A token that is done with, or the range of one that is not.
LEMMA TokenDoneType ==
  ASSUME TypeOK, NEW t, TokenDone(t)
  PROVE  /\ pc' = "get" /\ todo' \subseteq Token
         /\ from' \in Nat /\ to' \in Nat /\ next' \in Nat
         /\ logs' \subseteq RowSet /\ cache' \in Caches
BY Constants DEF TypeOK, TokenDone, ClearBatch, NoBlocks, Caches

LEMMA RangeFromType ==
  ASSUME TypeInv, NEW t \in Token, NEW n \in Nat, RangeFrom(t, n)
  PROVE  /\ pc' \in {"get", "scan"} /\ todo' \subseteq Token
         /\ from' \in Nat /\ to' \in Nat /\ next' \in Nat
         /\ logs' \subseteq RowSet /\ cache' \in Caches
<1>1. CASE ~HasRange(n, safe)
  BY <1>1, TokenDoneType DEF RangeFrom, TypeInv
<1>2. CASE HasRange(n, safe)
  <2>1. sizer[t].current \in Nat /\ safe \in Nat /\ 1 <= sizer[t].current
    BY Bounds, Constants DEF TypeInv, TypeOK, SizerTypeOK, BatchState, SizeInBounds
  <2>2. NextFrom(n) \in Nat
    BY Bounds DEF NextFrom, Wrap
  <2>3. NextTo(sizer[t].current, n, safe) \in Nat
    BY <2>1, <2>2, Bounds DEF NextTo, Wrap
  <2>. QED
    BY <1>2, <2>2, <2>3 DEF RangeFrom, TypeInv, TypeOK
<1>. QED
  BY <1>1, <1>2

\* The tables after commitBatch.
LEMMA TypeCommitted ==
  ASSUME TypeOK, NEW t \in Token, Committed(t)
  PROVE  /\ cursor' \in [Token -> Nat \cup {NoRow}]
         /\ blocks' \in Caches
         /\ transfers' \subseteq RowSet /\ approvals' \subseteq RowSet
<1>1. cursor' \in [Token -> Nat \cup {NoRow}]
  BY DEF Committed, TypeOK
<1>2. blocks' \in Caches
  BY DEF Committed, TypeOK, BlocksUpserted, Caches
<1>. QED
  BY <1>1, <1>2 DEF Committed, TypeOK, NewRows, Decoded

\* The batches of a tick.
LEMMA TypeToken ==
  ASSUME TypeInv, TokenStep
  PROVE  TypeInv'
<1>. USE Constants DEF TypeInv, TypeOK
<1>1. ASSUME NEW t \in Token, GetState(t) PROVE TypeInv'
  <2>1. CASE cursor[t] = NoRow
    BY <1>1, <2>1 DEF GetState, chainVars, dbVars, walkVars, batchVars,
      ChainTypeOK, Caches, SizerTypeOK, SizeInBounds
  <2>2. CASE cursor[t] # NoRow
    <3>1. cursor[t] \in Nat /\ RangeFrom(t, cursor[t])
      BY <1>1, <2>2 DEF GetState
    <3>. QED
      BY <1>1, <3>1, RangeFromType DEF GetState, chainVars, dbVars, walkVars,
        ChainTypeOK, Caches, SizerTypeOK, SizeInBounds
  <2>. QED
    BY <2>1, <2>2
<1>2. ASSUME NEW t \in Token, CreateState(t) PROVE TypeInv'
  BY <1>2, RangeFromType DEF CreateState, chainVars, rowVars, walkVars,
    ChainTypeOK, Caches, SizerTypeOK, SizeInBounds
<1>3. ASSUME NEW t \in Token, Scan(t) PROVE TypeInv'
  <2>1. logs' \subseteq RowSet
    BY <1>3, FilterLogsType DEF Scan
  <2>. QED
    BY <1>3, <2>1 DEF Scan, chainVars, dbVars, walkVars,
      ChainTypeOK, Caches, SizerTypeOK, SizeInBounds
<1>4. ASSUME LoadBlock PROVE TypeInv'
  <2>1. BlockByNumber(next) \in Hash
    BY <1>4, BlockOnType DEF LoadBlock, HasBlock, BlockByNumber, ChainTypeOK
  <2>2. cache' \in Caches
    <3>1. cache \in [Height -> Hash \cup {NoRow}]
      BY DEF Caches
    <3>. QED
      BY <1>4, <2>1, <3>1 DEF LoadBlock, Caches
  <2>3. next' \in Nat
    BY <1>4 DEF LoadBlock
  <2>. QED
    BY <1>4, <2>2, <2>3 DEF LoadBlock, chainVars, dbVars, walkVars,
      ChainTypeOK, SizerTypeOK, SizeInBounds
<1>5. ASSUME NEW t \in Token, LoadNotFound(t) PROVE TypeInv'
  BY <1>5, TokenDoneType, RecordKeepsInv
  DEF LoadNotFound, chainVars, dbVars, walkVars, ChainTypeOK, Caches, SizerInv
<1>6. ASSUME NEW t \in Token, Commit(t) PROVE TypeInv'
  BY <1>6, TokenDoneType, RecordKeepsInv, TypeCommitted
  DEF Commit, chainVars, walkVars, ChainTypeOK, Caches, SizerInv
<1>. QED
  BY <1>1, <1>2, <1>3, <1>4, <1>5, <1>6 DEF TokenStep

LEMMA CrashedSizer ==
  sizer' = FreshSizer => SizerTypeOK' /\ SizeInBounds'
BY Bounds DEF SizerTypeOK, SizeInBounds, FreshSizer, BatchState, growAfterSuccesses

\* Calls that fail, answers that are lost, and the death of the process.
LEMMA TypeFailure ==
  ASSUME TypeInv, Failure
  PROVE  TypeInv'
<1>. USE Constants DEF TypeInv, TypeOK
<1>1. ASSUME TickFails PROVE TypeInv'
  BY <1>1, ClearTickType DEF TickFails, GoIdle, chainVars, dbVars,
    ChainTypeOK, Caches, SizerTypeOK, SizeInBounds
<1>2. ASSUME RollbackUnknown PROVE TypeInv'
  BY <1>2, ClearTickType, TypeRolledBack DEF RollbackUnknown, GoIdle, chainVars,
    ChainTypeOK, Caches, SizerTypeOK, SizeInBounds
<1>3. ASSUME Crash PROVE TypeInv'
  BY <1>3, ClearTickType, CrashedSizer DEF Crash, chainVars, dbVars,
    ChainTypeOK, Caches
<1>4. ASSUME NEW t \in Token, StateFails(t) PROVE TypeInv'
  BY <1>4, TokenDoneType DEF StateFails, chainVars, dbVars, walkVars,
    ChainTypeOK, Caches, SizerTypeOK, SizeInBounds
<1>5. ASSUME NEW t \in Token, CreateUnknown(t) PROVE TypeInv'
  BY <1>5, TokenDoneType DEF CreateUnknown, chainVars, rowVars, walkVars,
    ChainTypeOK, Caches, SizerTypeOK, SizeInBounds
<1>6. ASSUME NEW t \in Token, BatchFails(t) PROVE TypeInv'
  BY <1>6, TokenDoneType, RecordKeepsInv
  DEF BatchFails, chainVars, dbVars, walkVars, ChainTypeOK, Caches, SizerInv
<1>7. ASSUME NEW t \in Token, CommitUnknown(t) PROVE TypeInv'
  BY <1>7, TokenDoneType, RecordKeepsInv, TypeCommitted
  DEF CommitUnknown, chainVars, walkVars, ChainTypeOK, Caches, SizerInv
<1>. QED
  BY <1>1, <1>2, <1>3, <1>4, <1>5, <1>6, <1>7 DEF Failure

\* The requests at the API and the node.
LEMMA TypeApi ==
  ASSUME TypeInv, ApiStep \/ ChainStep
  PROVE  TypeInv'
<1>. USE Constants DEF TypeInv, TypeOK
<1>1. ASSUME NEW r \in Request, NEW t \in Token, Register(r, t) PROVE TypeInv'
  BY <1>1 DEF Register, chainVars, rowVars, localVars,
    ChainTypeOK, Caches, SizerTypeOK, SizeInBounds
<1>2. ASSUME NEW r \in Request, RegisterGet(r) PROVE TypeInv'
  <2>1. req' \in [Request -> [pc : {"free", "get", "create"},
                              token : Token \cup {NoRow}]]
    BY <1>2 DEF RegisterGet, FreeRequest
  <2>. QED
    BY <1>2, <2>1 DEF RegisterGet, chainVars, dbVars, localVars,
      ChainTypeOK, Caches, SizerTypeOK, SizeInBounds
<1>3. ASSUME NEW r \in Request, RegisterCreate(r) PROVE TypeInv'
  BY <1>3 DEF RegisterCreate, FreeRequest, chainVars, rowVars, localVars,
    ChainTypeOK, Caches, SizerTypeOK, SizeInBounds
<1>4. ASSUME NEW r \in Request, RegisterFails(r) PROVE TypeInv'
  BY <1>4 DEF RegisterFails, FreeRequest, chainVars, dbVars, localVars,
    ChainTypeOK, Caches, SizerTypeOK, SizeInBounds
<1>5. ASSUME NEW t \in Token, Unregister(t) PROVE TypeInv'
  BY <1>5 DEF Unregister, chainVars, rowVars, localVars,
    ChainTypeOK, Caches, SizerTypeOK, SizeInBounds
<1>6. ASSUME ChainStep PROVE TypeInv'
  <2>1. ChainTypeOK'
    BY <1>6 DEF ChainStep, Mine, Reorg, SwitchTo, ChainTypeOK
  <2>. QED
    BY <1>6, <2>1 DEF ChainStep, dbVars, localVars,
      Caches, SizerTypeOK, SizeInBounds
<1>. QED
  BY <1>1, <1>2, <1>3, <1>4, <1>5, <1>6 DEF ApiStep

-----------------------------------------------------------------------------
LEMMA TypeStep == TypeInv /\ [Next]_vars => TypeInv'
<1>1. ASSUME TypeInv, Next PROVE TypeInv'
  BY <1>1, TypeBoot, TypeTick, TypeToken, TypeFailure, TypeApi DEF Next, Step
<1>2. ASSUME TypeInv, UNCHANGED vars PROVE TypeInv'
  BY <1>2 DEF vars, TypeInv, TypeOK, ChainTypeOK, Caches, SizerTypeOK, SizeInBounds
<1>. QED
  BY <1>1, <1>2

(* Every variable keeps its type and every batch size its bounds, in every *)
(* run of the indexer, the API, the node and the failures, reorganisations *)
(* inside a tick included (syncer.go, reorg.go, batch_sizer.go).           *)
THEOREM TypeCorrect == Spec => [](TypeOK /\ SizeInBounds)
<1>1. Init => TypeInv
  BY TypeInit
<1>2. TypeInv /\ [Next]_vars => TypeInv'
  BY TypeStep
<1>3. TypeInv => TypeOK /\ SizeInBounds
  BY DEF TypeInv
<1>. QED
  BY <1>1, <1>2, <1>3, PTL DEF Spec

-----------------------------------------------------------------------------
(* Blocks *)

\* Branches that agree at one height agree below it.
LEMMA AgreeBelow ==
  ASSUME NEW b \in Branch, NEW c \in Branch, NEW n \in Height, NEW m \in Height,
         m <= n, BlockOn[b][n] = BlockOn[c][n]
  PROVE  BlockOn[b][m] = BlockOn[c][m]
<1>1. m \in 1..n
  BY Constants DEF Height
<1>. QED
  BY <1>1, LinkAssumption

LEMMA StoredType ==
  ASSUME TypeOK, NEW n \in StoredHeights(blocks)
  PROVE  n \in Height /\ n \in Nat /\ blocks[n] \in Hash
BY Constants DEF TypeOK, Caches, StoredHeights, Height

\* The indexed blocks below a canonical one are canonical.
LEMMA CanonicalBelow ==
  ASSUME TypeOK, Linked,
         NEW n \in StoredHeights(blocks), IsCanonical(n),
         NEW m \in StoredHeights(blocks), m <= n
  PROVE  IsCanonical(m)
<1>1. PICK b \in Branch : \A k \in StoredHeights(blocks) : blocks[k] = BlockOn[b][k]
  BY DEF Linked
<1>2. m \in Height /\ n \in Height /\ m <= head
  BY StoredType, Constants DEF IsCanonical, HasBlock, TypeOK, ChainTypeOK, Height
<1>3. BlockOn[b][n] = BlockOn[branch][n]
  BY <1>1 DEF IsCanonical, BlockByNumber
<1>4. BlockOn[b][m] = BlockOn[branch][m]
  BY <1>2, <1>3, AgreeBelow DEF TypeOK, ChainTypeOK
<1>. QED
  BY <1>1, <1>2, <1>4 DEF IsCanonical, HasBlock, BlockByNumber

-----------------------------------------------------------------------------
(* The tables *)

LEMMA SameTables ==
  ASSUME TablesInv, UNCHANGED <<cursor, blocks, transfers, approvals>>
  PROVE  TablesInv'
BY DEF TablesInv, Linked, Contiguous, Sound, NoMissingRows, IsIndexed, StoredHeights

\* A cursor set to the block before the first one promises nothing.
LEMMA CursorReset ==
  ASSUME TypeOK, TablesInv, NEW t,
         cursor' = [cursor EXCEPT ![t] = InitialCursor(StartBlock)],
         UNCHANGED <<blocks, transfers, approvals>>
  PROVE  TablesInv'
<1>1. NoMissingRows'
  <2>1. SUFFICES ASSUME NEW u \in Token, cursor'[u] # NoRow,
                        NEW n \in First..cursor'[u]
                 PROVE  IsIndexed(u, n)'
    BY <2>1 DEF NoMissingRows
  <2>2. cursor'[u] = cursor[u] \/ cursor'[u] = InitialCursor(StartBlock)
    BY DEF TypeOK
  <2>3. CASE cursor'[u] = cursor[u]
    BY <2>1, <2>3 DEF TablesInv, NoMissingRows, IsIndexed, StoredHeights
  <2>4. CASE cursor'[u] = InitialCursor(StartBlock)
    BY <2>1, <2>4, Constants DEF First
  <2>. QED
    BY <2>2, <2>3, <2>4
<1>. QED
  BY <1>1 DEF TablesInv, Linked, Contiguous, Sound, StoredHeights

\* The blocks a rollback leaves.
LEMMA RollbackKeepsBlocks ==
  ASSUME TypeOK, RolledBack
  PROVE  /\ \A n : n \in StoredHeights(blocks') <=> n \in StoredHeights(blocks) /\ n <= at
         /\ \A n \in StoredHeights(blocks') : blocks'[n] = blocks[n]
<1>1. at \in Nat
  BY Constants DEF TypeOK
<1>. QED
  BY <1>1, StoredType DEF RolledBack, BlocksUpTo, StoredHeights, TypeOK, Caches

\* The rollback transaction: everything up to the ancestor stays.
LEMMA RollbackKeepsTables ==
  ASSUME TypeOK, TablesInv, RolledBack
  PROVE  TablesInv'
<1>1. at \in Nat
  BY Constants DEF TypeOK
<1>2. \A n : n \in StoredHeights(blocks') <=> n \in StoredHeights(blocks) /\ n <= at
  BY RollbackKeepsBlocks
<1>3. \A n \in StoredHeights(blocks') : blocks'[n] = blocks[n]
  BY RollbackKeepsBlocks
<1>4. Linked'
  BY <1>2, <1>3 DEF TablesInv, Linked
<1>5. Contiguous'
  BY <1>1, <1>2, Constants, StoredType DEF TablesInv, Contiguous, First
<1>6. ASSUME NEW table, NEW kind, table \subseteq RowSet, Sound(table, kind)
      PROVE  \A r \in DeletedAfterBlock(table, at) :
               /\ r.hash = blocks'[r.number]
               /\ r.log \in LogsIn[r.hash]
               /\ r.log.kind = kind
  <2>1. SUFFICES ASSUME NEW r \in DeletedAfterBlock(table, at)
                 PROVE  r.hash = blocks'[r.number]
    BY <1>6, <2>1 DEF Sound, DeletedAfterBlock
  <2>2. r \in RowSet /\ r.number <= at /\ r.hash = blocks[r.number]
    BY <1>6 DEF Sound, DeletedAfterBlock
  <2>3. r.number \in Height /\ r.hash \in Hash
    BY <2>2 DEF RowSet
  <2>4. r.number \in StoredHeights(blocks)
    BY <2>2, <2>3, Constants DEF StoredHeights, TypeOK, Caches
  <2>. QED
    BY <1>2, <1>3, <2>2, <2>4
<1>7. Sound(transfers, "transfer")' /\ Sound(approvals, "approval")'
  BY <1>6 DEF RolledBack, Sound, TypeOK, TablesInv
<1>8. NoMissingRows'
  <2>1. SUFFICES ASSUME NEW u \in Token, cursor'[u] # NoRow,
                        NEW n \in First..cursor'[u]
                 PROVE  IsIndexed(u, n)'
    BY <2>1 DEF NoMissingRows
  <2>2. /\ cursor[u] # NoRow /\ cursor[u] \in Nat
        /\ cursor'[u] \in Nat /\ cursor'[u] <= cursor[u] /\ cursor'[u] <= at
    BY <1>1, <2>1 DEF RolledBack, CursorRolledBack, Least, TypeOK
  <2>3. n \in First..cursor[u] /\ n <= at /\ n \in Nat
    BY <1>1, <2>1, <2>2, Constants DEF First
  <2>4. IsIndexed(u, n)
    BY <2>2, <2>3 DEF TablesInv, NoMissingRows
  <2>5. n \in StoredHeights(blocks') /\ blocks'[n] = blocks[n]
    BY <1>2, <1>3, <2>3, <2>4 DEF IsIndexed
  <2>6. ASSUME NEW l, NEW table, Row(n, blocks[n], l) \in table
        PROVE  Row(n, blocks'[n], l) \in DeletedAfterBlock(table, at)
    BY <2>3, <2>5, <2>6 DEF Row, DeletedAfterBlock
  <2>. QED
    BY <2>4, <2>5, <2>6 DEF IsIndexed, RolledBack
<1>. QED
  BY <1>4, <1>5, <1>7, <1>8 DEF TablesInv

\* The transaction of a batch, of a token that is complete below the range,
\* on top of canonical blocks: the new blocks are canonical, and so are the
\* indexed ones afterwards.
LEMMA CommitKeepsTables ==
  ASSUME TypeOK, TablesInv, SafeInv, CheckedInv, RangeInv, BatchInv,
         NEW t \in Token, IsNext(t), pc = "load", next > to,
         Committed(t), UNCHANGED chainVars
  PROVE  /\ TablesInv'
         /\ \A n \in StoredHeights(blocks') : IsCanonical(n)'
<1>1. /\ from \in Nat /\ to \in Nat /\ safe \in Nat /\ head \in Nat /\ next \in Nat
      /\ 1 <= from /\ from <= to /\ to <= safe /\ safe <= head /\ head <= MaxHeight
      /\ next = to + 1
  BY Constants DEF TypeOK, ChainTypeOK, SafeInv, Quiet, RangeInv, BatchInv
<1>2. \A n \in from..to : n \in Height /\ HasBlock(n) /\ BlockByNumber(n) \in Hash
  BY <1>1, Constants, BlockOnType
  DEF Height, HasBlock, BlockByNumber, TypeOK, ChainTypeOK
<1>3. \A n \in Height : cache[n] = IF n \in from..to THEN BlockByNumber(n) ELSE NoRow
  BY <1>1 DEF BatchInv
<1>4. \A n \in from..to : blocks'[n] = BlockByNumber(n)
  BY <1>2, <1>3, Constants DEF Committed, BlocksUpserted, TypeOK, Caches
<1>5. \A n \in Height : n \notin from..to => blocks'[n] = blocks[n]
  BY <1>3 DEF Committed, BlocksUpserted, TypeOK, Caches
<1>6. \A n : n \in StoredHeights(blocks') <=> n \in StoredHeights(blocks) \/ n \in from..to
  <2>1. /\ StoredHeights(blocks) = {n \in Height : blocks[n] # NoRow}
        /\ StoredHeights(blocks') = {n \in Height : blocks'[n] # NoRow}
    BY DEF Committed, BlocksUpserted, StoredHeights, TypeOK, Caches
  <2>2. \A n \in from..to : n \in Height /\ blocks'[n] # NoRow
    BY <1>2, <1>4, Constants
  <2>. QED
    BY <1>5, <2>1, <2>2
<1>7. \A n \in StoredHeights(blocks') :
        n \in Height /\ HasBlock(n) /\ blocks'[n] = BlockByNumber(n)
  BY <1>2, <1>4, <1>5, <1>6, StoredType DEF CheckedInv, IsCanonical
<1>8. \A n \in StoredHeights(blocks) : blocks'[n] = blocks[n]
  BY <1>4, <1>5, <1>7, <1>6 DEF CheckedInv, IsCanonical
<1>9. \A n \in StoredHeights(blocks') : IsCanonical(n)'
  BY <1>7 DEF IsCanonical, HasBlock, BlockByNumber, chainVars
<1>10. Linked'
  BY <1>7 DEF Linked, BlockByNumber, TypeOK, ChainTypeOK
<1>11. Contiguous'
  <2>1. SUFFICES ASSUME NEW n \in StoredHeights(blocks'), NEW m \in First..n
                 PROVE  m \in StoredHeights(blocks')
    BY <2>1 DEF Contiguous
  <2>2. m \in Nat /\ n \in Nat /\ m <= n /\ First <= m
    BY <1>7, Constants DEF First, Height
  <2>3. CASE n \in StoredHeights(blocks)
    BY <1>6, <2>3 DEF TablesInv, Contiguous
  <2>4. CASE n \in from..to /\ from <= m
    BY <1>1, <1>6, <2>2, <2>4
  <2>5. CASE n \in from..to /\ m < from
    BY <1>1, <1>6, <2>2, <2>5, Constants DEF RangeInv, IsIndexed, First
  <2>. QED
    BY <1>1, <1>6, <2>2, <2>3, <2>4, <2>5
<1>12. logs = FilterLogs(t, from, to)
  BY DEF BatchInv
<1>13. \A r \in logs :
         /\ r.number \in from..to
         /\ r.hash = BlockByNumber(r.number)
         /\ r.log \in LogsIn[r.hash]
  BY <1>12 DEF FilterLogs, Row
<1>14. \A n \in from..to : \A l \in LogsIn[BlockByNumber(n)] :
         l.token = t => Row(n, BlockByNumber(n), l) \in logs
  BY <1>2, <1>12 DEF FilterLogs
<1>15. ASSUME NEW table, NEW kind, table \subseteq RowSet, Sound(table, kind)
       PROVE  LET new == table \cup NewRows(table, Decoded(logs, kind))
              IN  /\ \A r \in new : /\ r.hash = blocks'[r.number]
                                    /\ r.log \in LogsIn[r.hash]
                                    /\ r.log.kind = kind
                  /\ \A n \in from..to : \A l \in LogsIn[BlockByNumber(n)] :
                       l.token = t /\ l.kind = kind =>
                         Row(n, BlockByNumber(n), l) \in new
  <2>1. ASSUME NEW r \in table
        PROVE  /\ r.number \in StoredHeights(blocks)
               /\ r.hash = blocks'[r.number]
    <3>1. r.number \in Height /\ r.hash \in Hash /\ r.hash = blocks[r.number]
      BY <1>15, <2>1 DEF Sound, RowSet
    <3>. QED
      BY <1>8, <3>1, Constants DEF StoredHeights, TypeOK, Caches
  <2>2. ASSUME NEW r \in NewRows(table, Decoded(logs, kind))
        PROVE  /\ r.hash = blocks'[r.number]
               /\ r.log \in LogsIn[r.hash]
               /\ r.log.kind = kind
    BY <1>4, <1>13 DEF NewRows, Decoded
  <2>3. ASSUME NEW n \in from..to, NEW l \in LogsIn[BlockByNumber(n)],
               l.token = t, l.kind = kind,
               Row(n, BlockByNumber(n), l) \notin NewRows(table, Decoded(logs, kind))
        PROVE  Row(n, BlockByNumber(n), l) \in table
    <3>. DEFINE r == Row(n, BlockByNumber(n), l)
    <3>1. r \in Decoded(logs, kind) /\ r.log = l
      BY <1>14, <2>3 DEF Decoded, Row
    <3>2. PICK s \in table : SameKey(r, s)
      BY <2>3, <3>1 DEF NewRows
    <3>3. /\ s = [number |-> s.number, hash |-> s.hash, log |-> s.log]
          /\ s.number \in Height /\ s.log \in LogsIn[s.hash]
      BY <1>15, <3>2 DEF RowSet, Sound
    <3>4. s.hash = BlockByNumber(s.number)
      BY <1>6, <1>7, <2>1, <3>2
    <3>5. s.number = n /\ s.log = l
      BY <1>2, <2>3, <3>1, <3>2, <3>3, <3>4, LogAssumption
      DEF SameKey, BlockByNumber, TypeOK, ChainTypeOK
    <3>. QED
      BY <3>2, <3>3, <3>4, <3>5 DEF Row
  <2>. QED
    BY <1>15, <2>1, <2>2, <2>3 DEF Sound
<1>16. Sound(transfers, "transfer")' /\ Sound(approvals, "approval")'
  BY <1>15 DEF Committed, Sound, TypeOK, TablesInv
<1>17. NoMissingRows'
  <2>1. SUFFICES ASSUME NEW u \in Token, cursor'[u] # NoRow,
                        NEW n \in First..cursor'[u]
                 PROVE  IsIndexed(u, n)'
    BY <2>1 DEF NoMissingRows
  <2>2. ASSUME IsIndexed(u, n)
        PROVE  IsIndexed(u, n)'
    BY <1>6, <1>8, <2>2 DEF IsIndexed, Committed
  <2>3. CASE u # t
    <3>1. cursor'[u] = cursor[u]
      BY <2>3 DEF Committed, TypeOK
    <3>. QED
      BY <2>1, <2>2, <3>1 DEF TablesInv, NoMissingRows
  <2>4. CASE u = t
    <3>1. cursor'[u] = to
      BY <2>4 DEF Committed, TypeOK
    <3>2. n \in Nat /\ First <= n /\ n <= to
      BY <1>1, <2>1, <3>1, Constants DEF First
    <3>3. CASE n < from
      BY <1>1, <2>2, <2>4, <3>2, <3>3, Constants DEF RangeInv, First
    <3>4. CASE from <= n
      <4>1. n \in from..to /\ n \in StoredHeights(blocks')
        BY <1>1, <1>6, <3>2, <3>4
      <4>2. blocks'[n] = BlockByNumber(n)
        BY <1>4, <4>1
      <4>. QED
        BY <1>15, <2>4, <4>1, <4>2 DEF IsIndexed, Committed, TypeOK, TablesInv
    <3>. QED
      BY <1>1, <3>2, <3>3, <3>4
  <2>. QED
    BY <2>3, <2>4
<1>. QED
  BY <1>9, <1>10, <1>11, <1>16, <1>17 DEF TablesInv

-----------------------------------------------------------------------------
(* The tick *)

LEMMA SameTick ==
  ASSUME TickInv,
         UNCHANGED <<branch, head, blocks, transfers, approvals, pc, safe, at,
                     mismatched, todo, from, to, logs, cache, next>>
  PROVE  TickInv'
BY DEF TickInv, SafeInv, Quiet, WalkInv, CheckedInv, RangeInv, BatchInv, IsNext,
       IsLatestNumber, IsIndexed, IsCanonical, HasBlock, BlockByNumber,
       StoredHeights, FilterLogs, NoBlocks

\* Outside a tick nothing is claimed of its locals.
LEMMA QuietTick ==
  ASSUME pc' \in {"down", "boot", "get0", "create0", "idle"}, cache' = NoBlocks
  PROVE  TickInv'
BY DEF TickInv, SafeInv, Quiet, WalkInv, CheckedInv, RangeInv, BatchInv, NoBlocks

\* Between two batches the indexed blocks are canonical.
LEMMA BetweenBatches ==
  ASSUME pc' \in {"list", "get", "create"}, cache' = NoBlocks, SafeInv',
         \A n \in StoredHeights(blocks') : IsCanonical(n)'
  PROVE  TickInv'
BY DEF TickInv, WalkInv, CheckedInv, RangeInv, BatchInv, NoBlocks

LEMMA IdleTick ==
  ASSUME GoIdle
  PROVE  TickInv'
BY QuietTick DEF GoIdle, ClearTick, ClearBatch

LEMMA DoneTick ==
  ASSUME TickInv, ~Quiet, NEW t, TokenDone(t), UNCHANGED <<chainVars, safe>>,
         \A n \in StoredHeights(blocks') : IsCanonical(n)'
  PROVE  TickInv'
<1>1. pc' = "get" /\ cache' = NoBlocks
  BY DEF TokenDone, ClearBatch
<1>2. SafeInv'
  BY DEF TickInv, SafeInv, chainVars
<1>. QED
  BY <1>1, <1>2, BetweenBatches

\* What is canonical stays so while the node does not move.
LEMMA SameCanonical ==
  ASSUME TickInv, UNCHANGED <<chainVars, blocks>>,
         pc \in {"list", "get", "create", "scan", "load"}
  PROVE  \A n \in StoredHeights(blocks') : IsCanonical(n)'
BY DEF TickInv, CheckedInv, chainVars, IsCanonical, HasBlock, BlockByNumber,
       StoredHeights

\* A cursor is at an indexed block or before the first one.
LEMMA CursorBound ==
  ASSUME TypeInv, IInv, NEW t \in Token, cursor[t] # NoRow
  PROVE  /\ cursor[t] \in Nat
         /\ cursor[t] <= MaxHeight \/ cursor[t] <= InitialCursor(StartBlock)
<1>1. cursor[t] \in Nat
  BY DEF TypeInv, TypeOK
<1>2. CASE cursor[t] >= First
  <2>1. cursor[t] \in StoredHeights(blocks)
    BY <1>1, <1>2, Constants DEF First, IsIndexed, IInv, TablesInv, NoMissingRows
  <2>. QED
    BY <1>1, <2>1, StoredType, Constants DEF TypeInv, Height
<1>3. CASE cursor[t] < First
  BY <1>1, <1>3, Constants DEF First
<1>. QED
  BY <1>1, <1>2, <1>3, Constants DEF First

\* The range begins after the cursor it was computed from: nothing wraps.
LEMMA RangeStart ==
  ASSUME TypeInv, NEW t \in Token, NEW last \in Nat,
         RangeFrom(t, last), HasRange(last, safe),
         last <= MaxHeight \/ last <= InitialCursor(StartBlock)
  PROVE  from' = last + 1 /\ to' \in Nat /\ from' <= to' /\ to' <= safe
<1>1. from' = NextFrom(last) /\ to' = NextTo(sizer[t].current, last, safe)
  BY DEF RangeFrom
<1>2. /\ sizer[t].current \in Nat /\ safe \in Nat /\ safe <= MaxHeight
      /\ minBatch <= sizer[t].current /\ sizer[t].current <= maxBatch
  BY Constants DEF TypeInv, TypeOK, SizerTypeOK, BatchState, SizeInBounds
<1>3. last < Word - 1 /\ safe + maxBatch < Word
  <2>1. InitialCursor(StartBlock) <= StartBlock
    BY Constants DEF InitialCursor
  <2>. QED
    BY <1>2, <2>1, Constants, Bounds, SyncerAssumption
<1>. QED
  BY <1>1, <1>2, <1>3, RangeIsSane

\* A range that follows a cursor up to which the token is complete.
LEMMA RangeTick ==
  ASSUME TypeInv, TickInv, pc \in {"get", "create"}, NEW t \in Token, IsNext(t),
         NEW last \in Nat, RangeFrom(t, last),
         last <= MaxHeight \/ last <= InitialCursor(StartBlock),
         \A n \in First..last : IsIndexed(t, n),
         UNCHANGED <<chainVars, safe, blocks, transfers, approvals>>
  PROVE  TickInv'
<1>1. CASE ~HasRange(last, safe)
  BY <1>1, DoneTick, SameCanonical DEF RangeFrom, Quiet
<1>2. CASE HasRange(last, safe)
  <2>1. /\ pc' = "scan" /\ from' = NextFrom(last)
        /\ to' = NextTo(sizer[t].current, last, safe)
        /\ UNCHANGED <<todo, logs, cache, next>>
    BY <1>2 DEF RangeFrom
  <2>4. from' = last + 1 /\ to' \in Nat /\ from' <= to' /\ to' <= safe
    BY <1>2, <2>1, RangeStart
  <2>5. SafeInv' /\ WalkInv'
    BY <2>1 DEF TickInv, SafeInv, WalkInv, Quiet, chainVars
  <2>6. CheckedInv'
    BY SameCanonical DEF CheckedInv
  <2>7. RangeInv'
    <3>1. ASSUME NEW u \in Token, IsNext(u)' PROVE u = t
      BY <2>1, <3>1, Constants DEF IsNext
    <3>2. \A n \in First..(from' - 1) : IsIndexed(t, n)'
      BY <2>4 DEF IsIndexed, StoredHeights
    <3>. QED
      BY <2>1, <2>4, <3>1, <3>2 DEF RangeInv
  <2>8. BatchInv'
    BY <2>1 DEF TickInv, BatchInv, NoBlocks
  <2>. QED
    BY <2>5, <2>6, <2>7, <2>8 DEF TickInv
<1>. QED
  BY <1>1, <1>2

-----------------------------------------------------------------------------
(* The actions, by what they do *)

LEMMA InvInit == Init => IInv
<1>. SUFFICES ASSUME Init PROVE IInv
  OBVIOUS
<1>1. StoredHeights(blocks) = {} /\ transfers = {} /\ approvals = {}
  BY DEF Init, NoBlocks, StoredHeights
<1>2. Branch # {} /\ \A t \in Token : cursor[t] = NoRow
  BY DEF Init, ChainInit
<1>3. TablesInv
  BY <1>1, <1>2 DEF TablesInv, Linked, Contiguous, Sound, NoMissingRows
<1>4. TickInv
  BY DEF Init, TickInv, SafeInv, Quiet, WalkInv, CheckedInv, RangeInv, BatchInv
<1>. QED
  BY <1>3, <1>4 DEF IInv

LEMMA InvBoot ==
  ASSUME TypeInv, IInv, BootStep
  PROVE  IInv'
<1>1. ASSUME Start \/ BootDone PROVE IInv'
  <2>1. TablesInv'
    BY <1>1, SameTables DEF IInv, Start, BootDone, dbVars
  <2>2. TickInv'
    BY <1>1, QuietTick
    DEF IInv, TickInv, BatchInv, Start, BootDone, batchVars, localVars
  <2>. QED
    BY <2>1, <2>2 DEF IInv
<1>2. ASSUME NEW t \in Token, BootUpsert(t) \/ BootGet(t) PROVE IInv'
  <2>1. TablesInv'
    BY <1>2, SameTables DEF IInv, BootUpsert, BootGet, dbVars, rowVars
  <2>2. pc \in {"boot", "get0"} /\ pc' \in {"boot", "get0", "create0"} /\ cache' = cache
    BY <1>2 DEF BootUpsert, BootGet, batchVars, localVars
  <2>3. TickInv'
    BY <2>2, QuietTick DEF IInv, TickInv, BatchInv
  <2>. QED
    BY <2>1, <2>3 DEF IInv
<1>3. ASSUME NEW t \in Token, BootCreate(t) PROVE IInv'
  <2>1. TablesInv'
    BY <1>3, CursorReset DEF IInv, BootCreate, rowVars, TypeInv
  <2>2. TickInv'
    BY <1>3, QuietTick DEF IInv, TickInv, BatchInv, BootCreate, batchVars
  <2>. QED
    BY <2>1, <2>2 DEF IInv
<1>. QED
  BY <1>1, <1>2, <1>3 DEF BootStep

\* Actions that end the tick without touching a table.
LEMMA InvGoIdle ==
  ASSUME IInv, GoIdle, UNCHANGED dbVars
  PROVE  IInv'
BY IdleTick, SameTables DEF IInv, dbVars

\* The walk does not end before it has compared the highest block.
LEMMA NothingExhausted ==
  ASSUME TypeInv, TickInv, WalkExhausted
  PROVE  mismatched
<1>1. SUFFICES ASSUME ~mismatched PROVE FALSE
  OBVIOUS
<1>2. PICK n \in Height : IsLatestNumber(n, blocks) /\ at < LowestChecked(n)
  BY DEF WalkExhausted
<1>3. at \in StoredHeights(blocks) /\ n <= at
  BY <1>1, <1>2 DEF WalkExhausted, TickInv, WalkInv, IsLatestNumber
<1>4. LowestChecked(n) <= n
  BY SyncerAssumption, Constants DEF LowestChecked, depth, Height
<1>. QED
  BY <1>2, <1>3, <1>4, LowestCheckedType, StoredType, Constants DEF TypeInv, Height

\* FindRollbackBlock and the list of tokens.
LEMMA InvWalk ==
  ASSUME TypeInv, IInv, Tick \/ WalkGap \/ WalkMatch \/ WalkMismatch \/ WalkExhausted
  PROVE  IInv'
<1>1. TablesInv'
  BY SameTables, InvGoIdle
  DEF IInv, Tick, WalkGap, WalkMatch, WalkMismatch, WalkExhausted, dbVars
<1>2. ASSUME Tick PROVE TickInv'
  <2>1. safe' <= head' /\ cache' = NoBlocks
    BY <1>2, Constants
    DEF Tick, LatestBlockNumber, chainVars, batchVars, TypeInv, TypeOK, ChainTypeOK,
        IInv, TickInv, BatchInv
  <2>2. CASE StoredHeights(blocks) = {} /\ pc' = "list"
    BY <1>2, <2>1, <2>2, BetweenBatches DEF Tick, dbVars, SafeInv, StoredHeights
  <2>3. CASE pc' = "walk" /\ IsLatestNumber(at', blocks)
    <3>1. WalkInv'
      <4>1. \A n \in StoredHeights(blocks') : n <= at'
        BY <1>2, <2>3 DEF Tick, dbVars, IsLatestNumber, StoredHeights
      <4>2. \A n \in StoredHeights(blocks') : ~(n > at')
        BY <1>2, <2>3, <4>1, StoredType, Constants
        DEF Tick, dbVars, IsLatestNumber, StoredHeights, TypeInv
      <4>. QED
        BY <1>2, <2>3, <4>2 DEF Tick, dbVars, WalkInv, IsLatestNumber, StoredHeights
    <3>. QED
      BY <2>1, <2>3, <3>1 DEF TickInv, SafeInv, CheckedInv, RangeInv, BatchInv, NoBlocks
  <2>. QED
    BY <1>2, <2>2, <2>3 DEF Tick
<1>3. ASSUME WalkGap \/ WalkMismatch PROVE TickInv'
  <2>1. /\ pc = "walk" /\ pc' = "walk" /\ at' = at - 1 /\ at \in Nat
        /\ UNCHANGED <<chainVars, dbVars, safe, batchVars>>
    BY <1>3, Constants DEF WalkGap, WalkMismatch, Walking, TypeInv, TypeOK
  <2>2. at \in StoredHeights(blocks) => HasBlock(at) /\ blocks[at] # BlockByNumber(at)
    BY <1>3 DEF WalkGap, WalkMismatch, StoredHeights
  <2>3. mismatched'
    <3>1. CASE WalkMismatch
      BY <3>1, Zenon DEF WalkMismatch
    <3>2. CASE WalkGap
      <4>1. mismatched
        BY <2>1, <3>2 DEF WalkGap, IInv, TickInv, WalkInv, IsLatestNumber, StoredHeights
      <4>. QED
        BY <3>2, <4>1, Zenon DEF WalkGap
    <3>. QED
      BY <1>3, <3>1, <3>2
  <2>4. ASSUME NEW n \in StoredHeights(blocks), n > at'
        PROVE  HasBlock(n) /\ blocks[n] # BlockByNumber(n)
    <3>1. n > at \/ n = at
      BY <2>1, <2>4, StoredType DEF TypeInv
    <3>. QED
      BY <2>1, <2>2, <3>1 DEF IInv, TickInv, WalkInv
  <2>5. WalkInv'
    BY <2>1, <2>3, <2>4
    DEF WalkInv, HasBlock, BlockByNumber, chainVars, dbVars, StoredHeights
  <2>. QED
    BY <2>1, <2>5
    DEF IInv, TickInv, SafeInv, Quiet, CheckedInv, RangeInv, BatchInv, NoBlocks,
        chainVars, batchVars
<1>4. ASSUME WalkMatch PROVE TickInv'
  <2>1. /\ pc = "walk" /\ at \in StoredHeights(blocks) /\ IsCanonical(at)
        /\ UNCHANGED <<chainVars, dbVars, safe, batchVars>>
    <3>1. pc = "walk" /\ blocks[at] # NoRow /\ IsCanonical(at) /\ at \in Height
      BY <1>4 DEF WalkMatch, Walking, IsCanonical, HasBlock
    <3>2. at \in StoredHeights(blocks)
      BY <3>1 DEF StoredHeights, TypeInv, TypeOK, Caches
    <3>3. UNCHANGED <<chainVars, dbVars, safe, batchVars>>
      BY <1>4 DEF WalkMatch
    <3>. QED
      BY <3>1, <3>2, <3>3
  <2>2. CASE mismatched
    <3>1. pc' = "rollback" /\ UNCHANGED <<at, mismatched>>
      BY <1>4, <2>2 DEF WalkMatch, walkVars
    <3>2. WalkInv'
      BY <2>1, <3>1 DEF IInv, TickInv, WalkInv, IsCanonical, HasBlock, BlockByNumber,
        chainVars, dbVars, StoredHeights
    <3>. QED
      BY <2>1, <3>1, <3>2 DEF IInv, TickInv, SafeInv, Quiet, CheckedInv, RangeInv,
        BatchInv, NoBlocks, chainVars, batchVars
  <2>3. CASE ~mismatched
    <3>1. pc' = "list"
      BY <1>4, <2>3 DEF WalkMatch
    <3>2. \A n \in StoredHeights(blocks) : IsCanonical(n)
      BY <2>1, <2>3, CanonicalBelow
      DEF IInv, TickInv, WalkInv, IsLatestNumber, TypeInv, TablesInv
    <3>3. \A n \in StoredHeights(blocks') : IsCanonical(n)'
      BY <2>1, <3>2 DEF IsCanonical, HasBlock, BlockByNumber, chainVars, dbVars,
        StoredHeights
    <3>4. SafeInv' /\ cache' = NoBlocks
      BY <2>1 DEF IInv, TickInv, SafeInv, Quiet, BatchInv, chainVars, batchVars
    <3>. QED
      BY <3>1, <3>3, <3>4, BetweenBatches
  <2>. QED
    BY <2>2, <2>3
<1>5. ASSUME WalkExhausted PROVE TickInv'
  <2>1. ASSUME mismatched PROVE TickInv'
    <3>1. GoIdle
      BY <1>5, <2>1, Zenon DEF WalkExhausted
    <3>. QED
      BY <3>1, IdleTick
  <2>2. mismatched
    BY <1>5, NothingExhausted DEF IInv
  <2>. QED
    BY <2>1, <2>2
<1>. QED
  BY <1>1, <1>2, <1>3, <1>4, <1>5 DEF IInv

\* The rollback, whether or not its answer arrives.
LEMMA InvRollback ==
  ASSUME TypeInv, IInv, Rollback \/ RollbackUnknown
  PROVE  IInv'
<1>1. RolledBack /\ pc = "rollback" /\ UNCHANGED chainVars
  BY DEF Rollback, RollbackUnknown
<1>2. TablesInv'
  BY <1>1, RollbackKeepsTables DEF IInv, TypeInv
<1>3. ASSUME RollbackUnknown PROVE TickInv'
  BY <1>3, IdleTick DEF RollbackUnknown
<1>4. ASSUME Rollback PROVE TickInv'
  <2>1. pc' = "list" /\ cache' = NoBlocks /\ SafeInv'
    BY <1>1, <1>4 DEF Rollback, batchVars, chainVars, IInv, TickInv, SafeInv, Quiet,
      BatchInv
  <2>2. ASSUME NEW n \in StoredHeights(blocks')
        PROVE  IsCanonical(n)'
    <3>1. n \in StoredHeights(blocks) /\ n <= at /\ blocks'[n] = blocks[n]
      BY <1>1, <2>2, RollbackKeepsBlocks DEF TypeInv
    <3>2. at \in StoredHeights(blocks) /\ IsCanonical(at)
      BY <1>1 DEF IInv, TickInv, WalkInv
    <3>3. IsCanonical(n)
      BY <3>1, <3>2, CanonicalBelow DEF IInv, TablesInv, TypeInv
    <3>. QED
      BY <1>1, <3>1, <3>3 DEF IsCanonical, HasBlock, BlockByNumber, chainVars
  <2>. QED
    BY <2>1, <2>2, BetweenBatches
<1>. QED
  BY <1>2, <1>3, <1>4 DEF IInv

\* Everything a tick does before and after its tokens.
LEMMA InvTick ==
  ASSUME TypeInv, IInv, TickStep \/ TickFails \/ RollbackUnknown
  PROVE  IInv'
<1>1. ASSUME WalkNotFound \/ RollbackRejected \/ EndTick \/ TickFails PROVE IInv'
  BY <1>1, InvGoIdle DEF WalkNotFound, RollbackRejected, EndTick, TickFails
<1>2. ASSUME ListActive PROVE IInv'
  <2>1. TablesInv'
    BY <1>2, SameTables DEF IInv, ListActive, dbVars
  <2>2. \A n \in StoredHeights(blocks') : IsCanonical(n)'
    BY <1>2, SameCanonical DEF IInv, ListActive, dbVars
  <2>3. pc' = "get" /\ cache' = NoBlocks /\ SafeInv'
    BY <1>2 DEF ListActive, batchVars, chainVars, IInv, TickInv, SafeInv, Quiet, BatchInv
  <2>. QED
    BY <2>1, <2>2, <2>3, BetweenBatches DEF IInv
<1>. QED
  BY <1>1, <1>2, InvWalk, InvRollback DEF TickStep

-----------------------------------------------------------------------------
(* syncToken *)

\* The state of a token is read or created, and the range follows it.
LEMMA InvState ==
  ASSUME TypeInv, IInv, NEW t \in Token, GetState(t) \/ CreateState(t)
  PROVE  IInv'
<1>1. /\ pc \in {"get", "create"} /\ IsNext(t)
      /\ UNCHANGED <<chainVars, safe, blocks, transfers, approvals>>
  BY DEF GetState, CreateState, dbVars, rowVars
<1>2. ASSUME GetState(t) PROVE IInv'
  <2>1. TablesInv'
    BY <1>2, SameTables DEF IInv, GetState, dbVars
  <2>2. CASE cursor[t] = NoRow
    <3>1. pc' = "create" /\ cache' = NoBlocks /\ SafeInv'
      BY <1>1, <1>2, <2>2
      DEF GetState, batchVars, chainVars, IInv, TickInv, SafeInv, Quiet, BatchInv
    <3>2. \A n \in StoredHeights(blocks') : IsCanonical(n)'
      BY <1>1, SameCanonical DEF IInv
    <3>. QED
      BY <2>1, <3>1, <3>2, BetweenBatches DEF IInv
  <2>3. CASE cursor[t] # NoRow
    <3>1. RangeFrom(t, cursor[t]) /\ cursor[t] \in Nat
      BY <1>2, <2>3 DEF GetState, TypeInv, TypeOK
    <3>2. \A n \in First..cursor[t] : IsIndexed(t, n)
      BY <2>3 DEF IInv, TablesInv, NoMissingRows
    <3>3. cursor[t] <= MaxHeight \/ cursor[t] <= InitialCursor(StartBlock)
      BY <2>3, CursorBound
    <3>4. TickInv'
      BY <1>1, <3>1, <3>2, <3>3, RangeTick DEF IInv
    <3>. QED
      BY <2>1, <3>4 DEF IInv
  <2>. QED
    BY <2>2, <2>3
<1>3. ASSUME CreateState(t) PROVE IInv'
  <2>1. TablesInv'
    BY <1>1, <1>3, CursorReset DEF IInv, CreateState, TypeInv
  <2>2. InitialCursor(StartBlock) \in Nat /\ First..InitialCursor(StartBlock) = {}
    BY Constants DEF First
  <2>3. TickInv'
    BY <1>1, <1>3, <2>2, RangeTick DEF IInv, CreateState
  <2>. QED
    BY <2>1, <2>3 DEF IInv
<1>. QED
  BY <1>2, <1>3

\* The scan and the loads: what was fetched is what the node has.
LEMMA InvFetch ==
  ASSUME TypeInv, IInv, LoadBlock \/ \E t \in Token : Scan(t)
  PROVE  IInv'
<1>1. /\ pc \in {"scan", "load"} /\ pc' = "load"
      /\ UNCHANGED <<chainVars, dbVars, safe, walkVars, todo, from, to>>
  BY DEF LoadBlock, Scan
<1>2. TablesInv'
  BY <1>1, SameTables DEF IInv, dbVars
<1>3. SafeInv' /\ WalkInv' /\ CheckedInv' /\ RangeInv'
  BY <1>1
  DEF IInv, TickInv, SafeInv, Quiet, WalkInv, CheckedInv, RangeInv, IsNext, IsIndexed,
      IsCanonical, HasBlock, BlockByNumber, StoredHeights, chainVars, dbVars
<1>4. from \in Nat /\ to \in Nat /\ next \in Nat /\ from <= to
  BY <1>1 DEF TypeInv, TypeOK, IInv, TickInv, RangeInv
<1>5. \A n : BlockByNumber(n)' = BlockByNumber(n)
  BY <1>1 DEF BlockByNumber, chainVars
<1>6. ASSUME NEW t \in Token, Scan(t) PROVE BatchInv'
  <2>1. next' = from /\ cache' = NoBlocks /\ logs' = FilterLogs(t, from, to)
    BY <1>6 DEF Scan, IInv, TickInv, BatchInv
  <2>2. ASSUME NEW u \in Token, IsNext(u)' PROVE logs' = FilterLogs(u, from, to)'
    <3>1. u = t
      BY <1>1, <1>6, <2>2, Constants DEF Scan, IsNext
    <3>. QED
      BY <1>1, <2>1, <3>1 DEF FilterLogs, HasBlock, BlockByNumber, chainVars
  <2>3. \A n \in Height : cache'[n] = NoRow /\ n \notin from..(next' - 1)
    BY <1>4, <2>1, Constants DEF NoBlocks, Height
  <2>. QED
    BY <1>1, <1>4, <2>1, <2>2, <2>3 DEF BatchInv
<1>7. ASSUME LoadBlock PROVE BatchInv'
  <2>1. /\ pc = "load" /\ next <= to /\ next' = next + 1 /\ UNCHANGED logs
        /\ cache' = [cache EXCEPT ![next] = BlockByNumber(next)]
    BY <1>7 DEF LoadBlock
  <2>2. from <= next /\ next' <= to' + 1 /\ from' <= next'
    BY <1>1, <1>4, <2>1 DEF IInv, TickInv, BatchInv
  <2>3. ASSUME NEW u \in Token, IsNext(u)' PROVE logs' = FilterLogs(u, from, to)'
    <3>1. logs = FilterLogs(u, from, to)
      BY <1>1, <2>1, <2>3 DEF IsNext, IInv, TickInv, BatchInv
    <3>. QED
      BY <1>1, <2>1, <3>1 DEF FilterLogs, HasBlock, BlockByNumber, chainVars
  <2>4. ASSUME NEW n \in Height
        PROVE  cache'[n] = IF n \in from..(next' - 1) THEN BlockByNumber(n) ELSE NoRow
    <3>1. cache[n] = IF n \in from..(next - 1) THEN BlockByNumber(n) ELSE NoRow
      BY <2>1 DEF IInv, TickInv, BatchInv
    <3>2. cache'[n] = IF n = next THEN BlockByNumber(next) ELSE cache[n]
      BY <2>1 DEF TypeInv, TypeOK, Caches
    <3>3. n \in from..(next' - 1) <=> n = next \/ n \in from..(next - 1)
      BY <1>4, <2>1, <2>2, Constants DEF Height
    <3>. QED
      BY <3>1, <3>2, <3>3
  <2>. QED
    BY <1>1, <1>5, <2>2, <2>3, <2>4 DEF BatchInv
<1>. QED
  BY <1>2, <1>3, <1>6, <1>7 DEF IInv, TickInv

\* The end of a token's part of the tick.
LEMMA InvDone ==
  ASSUME TypeInv, IInv, NEW t \in Token,
         \/ LoadNotFound(t) \/ StateFails(t) \/ BatchFails(t) \/ CreateUnknown(t)
         \/ Commit(t) \/ CommitUnknown(t)
  PROVE  IInv'
<1>1. pc \in {"get", "create", "scan", "load"} /\ IsNext(t)
  BY DEF LoadNotFound, StateFails, BatchFails, CreateUnknown, Commit, CommitUnknown
<1>2. TokenDone(t) /\ UNCHANGED <<chainVars, safe>>
  BY DEF LoadNotFound, StateFails, BatchFails, CreateUnknown, Commit, CommitUnknown
<1>3. ASSUME TablesInv', \A n \in StoredHeights(blocks') : IsCanonical(n)'
      PROVE  IInv'
  BY <1>1, <1>2, <1>3, DoneTick DEF IInv, Quiet
<1>4. ASSUME UNCHANGED blocks
      PROVE  \A n \in StoredHeights(blocks') : IsCanonical(n)'
  BY <1>1, <1>2, <1>4, SameCanonical DEF IInv
<1>5. CASE LoadNotFound(t) \/ StateFails(t) \/ BatchFails(t)
  <2>1. UNCHANGED dbVars
    BY <1>5 DEF LoadNotFound, StateFails, BatchFails
  <2>. QED
    BY <1>3, <1>4, <2>1, SameTables DEF IInv, dbVars
<1>6. CASE CreateUnknown(t)
  BY <1>3, <1>4, <1>6, CursorReset DEF CreateUnknown, rowVars, IInv, TypeInv
<1>7. CASE Commit(t) \/ CommitUnknown(t)
  <2>1. pc = "load" /\ next > to /\ Committed(t)
    BY <1>7 DEF Commit, CommitUnknown
  <2>. QED
    BY <1>1, <1>2, <1>3, <2>1, CommitKeepsTables DEF IInv, TickInv, TypeInv
<1>. QED
  BY <1>5, <1>6, <1>7

-----------------------------------------------------------------------------
(* Crashes, the API and the node *)

LEMMA InvCrash ==
  ASSUME IInv, Crash
  PROVE  IInv'
<1>1. TablesInv'
  BY SameTables DEF IInv, Crash, dbVars
<1>2. TickInv'
  BY QuietTick DEF Crash, ClearTick, ClearBatch
<1>. QED
  BY <1>1, <1>2 DEF IInv

LEMMA InvApi ==
  ASSUME TypeInv, IInv, ApiStep
  PROVE  IInv'
<1>1. UNCHANGED <<branch, head, blocks, transfers, approvals, pc, safe, at,
                  mismatched, todo, from, to, logs, cache, next>>
  BY DEF ApiStep, Register, RegisterGet, RegisterCreate, RegisterFails, Unregister,
    chainVars, dbVars, rowVars, localVars
<1>2. TickInv'
  BY <1>1, SameTick DEF IInv
<1>3. ASSUME NEW r \in Request, RegisterCreate(r) PROVE TablesInv'
  BY <1>1, <1>3, CursorReset DEF RegisterCreate, IInv, TypeInv
<1>4. ASSUME UNCHANGED cursor PROVE TablesInv'
  BY <1>1, <1>4, SameTables DEF IInv
<1>5. UNCHANGED cursor \/ \E r \in Request : RegisterCreate(r)
  BY DEF ApiStep, Register, RegisterGet, RegisterFails, Unregister, dbVars
<1>. QED
  BY <1>2, <1>3, <1>4, <1>5 DEF IInv

\* The node may reorganise at any depth between two ticks; in a tick the
\* confirmations keep what the tick relies on.
LEMMA InvChain ==
  ASSUME TypeInv, IInv, ChainStep, ~ReorgMidTick
  PROVE  IInv'
<1>1. UNCHANGED <<cursor, blocks, transfers, approvals, pc, safe, at, mismatched,
                  todo, from, to, logs, cache, next>>
  BY DEF ChainStep, dbVars, localVars
<1>2. TablesInv'
  BY <1>1, SameTables DEF IInv
<1>3. CASE Quiet
  BY <1>1, <1>2, <1>3, QuietTick DEF Quiet, IInv, TickInv, BatchInv
<1>4. CASE ~Quiet
  <2>1. head \in Nat /\ safe \in Nat /\ safe <= head /\ head <= MaxHeight
    BY <1>4, Constants DEF IInv, TickInv, SafeInv, TypeInv, TypeOK, ChainTypeOK
  <2>2. ASSUME NEW n \in Height, n <= safe \/ n \in StoredHeights(blocks), n <= head
        PROVE  n <= head' /\ BlockOn[branch'][n] = BlockOn[branch][n]
    <3>1. CASE Mine
      BY <2>1, <2>2, <3>1, Constants DEF Mine, Height
    <3>2. ASSUME NEW b \in Branch, NEW h \in 0..MaxHeight, Reorg(b, h)
          PROVE  n <= head' /\ BlockOn[branch'][n] = BlockOn[branch][n]
      <4>1. Protects(n, b, h)
        BY <1>4, <3>2 DEF Reorg
      <4>2. KeepsUpTo(n, b, h)
        BY <2>2, <4>1 DEF Protects
      <4>. QED
        BY <2>2, <3>2, <4>2, Constants DEF KeepsUpTo, Reorg, SwitchTo, Height
    <3>. QED
      BY <3>1, <3>2 DEF ChainStep
  <2>3. ASSUME NEW n \in Height, n <= safe \/ n \in StoredHeights(blocks), HasBlock(n)
        PROVE  HasBlock(n)' /\ BlockByNumber(n)' = BlockByNumber(n)
    BY <2>2, <2>3 DEF HasBlock, BlockByNumber
  <2>4. SafeInv'
    <3>1. safe = 0 \/ safe \in Height
      BY <2>1, Constants DEF Height
    <3>2. head' >= 0
      BY <2>1, Constants DEF ChainStep, Mine, Reorg, SwitchTo
    <3>. QED
      BY <1>1, <2>1, <2>2, <3>1, <3>2 DEF SafeInv
  <2>5. \A n \in StoredHeights(blocks) :
          HasBlock(n) => HasBlock(n)' /\ BlockByNumber(n)' = BlockByNumber(n)
    BY <2>3, StoredType DEF TypeInv
  <2>6. WalkInv' /\ CheckedInv'
    BY <1>1, <2>5
    DEF IInv, TickInv, WalkInv, CheckedInv, IsCanonical, IsLatestNumber, StoredHeights
  <2>7. RangeInv'
    BY <1>1 DEF IInv, TickInv, RangeInv, IsNext, IsIndexed, StoredHeights
  <2>8. BatchInv'
    <3>1. CASE pc # "load"
      BY <1>1, <3>1 DEF IInv, TickInv, BatchInv, NoBlocks
    <3>2. CASE pc = "load"
      <4>1. /\ from \in Nat /\ to \in Nat /\ next \in Nat
            /\ 1 <= from /\ to <= safe /\ next <= to + 1
        BY <3>2, Constants DEF IInv, TickInv, RangeInv, BatchInv, TypeInv, TypeOK
      <4>2. \A n \in from..to : /\ n \in Height /\ HasBlock(n) /\ HasBlock(n)'
                                /\ BlockByNumber(n)' = BlockByNumber(n)
        BY <2>1, <2>3, <4>1, Constants DEF Height, HasBlock
      <4>3. \A n \in from..(next - 1) : n \in from..to
        BY <4>1
      <4>4. ASSUME NEW t PROVE FilterLogs(t, from, to)' = FilterLogs(t, from, to)
        <5>1. /\ {m \in from..to : HasBlock(m)} = from..to
              /\ {m \in from'..to' : HasBlock(m)'} = from..to
          BY <1>1, <4>2
        <5>. QED
          BY <1>1, <4>2, <5>1 DEF FilterLogs
      <4>5. \A n \in Height :
              cache'[n] = IF n \in from..(next - 1) THEN BlockByNumber(n)' ELSE NoRow
        BY <1>1, <3>2, <4>2, <4>3 DEF IInv, TickInv, BatchInv
      <4>. QED
        BY <1>1, <3>2, <4>4, <4>5 DEF IInv, TickInv, BatchInv, IsNext
    <3>. QED
      BY <3>1, <3>2
  <2>. QED
    BY <1>2, <2>4, <2>6, <2>7, <2>8 DEF IInv, TickInv
<1>. QED
  BY <1>3, <1>4

-----------------------------------------------------------------------------
(* Theorems *)

LEMMA InvStep ==
  ASSUME TypeInv, IInv, Next, ~ReorgMidTick
  PROVE  IInv'
<1>1. CASE Step
  BY <1>1, InvBoot, InvTick, InvFetch, InvState, InvDone DEF Step, TokenStep, TickStep
<1>2. CASE Failure
  BY <1>2, InvTick, InvCrash, InvDone DEF Failure
<1>. QED
  BY <1>1, <1>2, InvApi, InvChain DEF Next

LEMMA InvStutter ==
  ASSUME TypeInv, IInv, UNCHANGED vars
  PROVE  IInv'
BY SameTables, SameTick DEF IInv, vars

(* With a node whose confirmations hold during a tick, every state the     *)
(* indexer reaches, through failures, crashes, requests and                *)
(* reorganisations between its ticks, satisfies the inductive invariant.   *)
THEOREM InductiveInvariant == ~ReorgMidTick => (Spec => [](TypeInv /\ IInv))
<1>. SUFFICES ASSUME ~ReorgMidTick PROVE Spec => [](TypeInv /\ IInv)
  OBVIOUS
<1>1. Init => TypeInv /\ IInv
  BY TypeInit, InvInit
<1>2. TypeInv /\ IInv /\ [Next]_vars => TypeInv' /\ IInv'
  BY TypeStep, InvStep, InvStutter
<1>. QED
  BY <1>1, <1>2, PTL DEF Spec

(* At every moment the indexed blocks are consecutive blocks of one        *)
(* branch (commitBatch and handleReorg in syncer.go).                      *)
THEOREM BlocksLinked == ~ReorgMidTick => (Spec => []StoredBlocksLinked)
<1>. SUFFICES ASSUME ~ReorgMidTick PROVE Spec => []StoredBlocksLinked
  OBVIOUS
<1>1. IInv => StoredBlocksLinked
  BY DEF IInv, TablesInv, Linked, Contiguous, StoredBlocksLinked
<1>. QED
  BY <1>1, InductiveInvariant, PTL

(* Every stored event is an event of a block that is indexed now: a        *)
(* rollback leaves nothing of the branch given up (handleReorg,            *)
(* syncer.go:126), and no later batch brings any of it back.               *)
THEOREM RowsMatch == ~ReorgMidTick => (Spec => []RowsMatchBlocks)
<1>. SUFFICES ASSUME ~ReorgMidTick PROVE Spec => []RowsMatchBlocks
  OBVIOUS
<1>1. IInv => RowsMatchBlocks
  BY DEF IInv, TablesInv, Sound, RowsMatchBlocks
<1>. QED
  BY <1>1, InductiveInvariant, PTL

(* No transfer and no approval of a token is missing up to its cursor,     *)
(* although failed batches are repeated, cursors are set back by late      *)
(* requests and rows with the key of an old one are ignored (commitBatch,  *)
(* syncer.go:214, and GetOrCreate, sync_state_repo.go:15).                 *)
THEOREM NothingMissing == ~ReorgMidTick => (Spec => []NoMissingRows)
<1>. SUFFICES ASSUME ~ReorgMidTick PROVE Spec => []NoMissingRows
  OBVIOUS
<1>1. IInv => NoMissingRows
  BY DEF IInv, TablesInv
<1>. QED
  BY <1>1, InductiveInvariant, PTL

\* An answer of FindRollbackBlock is one of its two.
LEMMA AnswerSteps ==
  ASSUME TypeInv, IInv, [Next]_vars, AnswerFound
  PROVE  WalkMatch
<1>1. WalkMatch \/ WalkExhausted
  BY DEF AnswerFound, Next, Step, TickStep, TokenStep, BootStep, Failure, ApiStep,
    ChainStep, Tick, WalkGap, WalkMismatch, WalkNotFound, Rollback, RollbackRejected,
    ListActive, EndTick, GetState, CreateState, Scan, LoadBlock, LoadNotFound, Commit,
    Start, BootDone, BootUpsert, BootGet, BootCreate, TickFails, RollbackUnknown, Crash,
    StateFails, CreateUnknown, BatchFails, CommitUnknown, RegisterGet, RegisterCreate,
    RegisterFails, Register, Unregister, GoIdle, vars
<1>2. ASSUME WalkExhausted PROVE FALSE
  <2>1. mismatched
    BY <1>2, NothingExhausted DEF IInv
  <2>2. GoIdle
    BY <1>2, <2>1, Zenon DEF WalkExhausted
  <2>. QED
    BY <2>2 DEF GoIdle, AnswerFound
<1>. QED
  BY <1>1, <1>2

(* FindRollbackBlock (reorg.go:26) answers with the highest common block,  *)
(* however the chain was reorganised before the tick, and with none only   *)
(* when every indexed block is canonical.                                  *)
THEOREM AncestorFound == ~ReorgMidTick => (Spec => AncestorIsHighest)
<1>. SUFFICES ASSUME ~ReorgMidTick PROVE Spec => AncestorIsHighest
  OBVIOUS
<1>1. ASSUME TypeInv, IInv, [Next]_vars, AnswerFound, NEW n \in StoredHeights(blocks)
      PROVE  IsCanonical(n) <=> (pc' = "rollback" => n <= at')
  <2>1. WalkMatch
    BY <1>1, AnswerSteps
  <2>2. pc = "walk" /\ blocks[at] # NoRow /\ IsCanonical(at) /\ at \in Height
    BY <2>1 DEF WalkMatch, Walking, IsCanonical, HasBlock
  <2>3. at \in StoredHeights(blocks)
    BY <1>1, <2>2 DEF StoredHeights, TypeInv, TypeOK, Caches
  <2>4. n <= at => IsCanonical(n)
    BY <1>1, <2>2, <2>3, CanonicalBelow DEF IInv, TablesInv, TypeInv
  <2>5. ASSUME mismatched PROVE IsCanonical(n) <=> (pc' = "rollback" => n <= at')
    <3>1. pc' = "rollback" /\ at' = at
      BY <2>1, <2>5, Zenon DEF WalkMatch, walkVars
    <3>2. n > at => ~IsCanonical(n)
      BY <1>1, <2>2 DEF IInv, TickInv, WalkInv, IsCanonical
    <3>3. n \in Nat /\ at \in Nat
      BY <1>1, <2>3, StoredType DEF TypeInv
    <3>. QED
      BY <2>4, <3>1, <3>2, <3>3
  <2>6. ASSUME ~mismatched PROVE IsCanonical(n) <=> (pc' = "rollback" => n <= at')
    <3>1. pc' = "list"
      BY <2>1, <2>6 DEF WalkMatch
    <3>2. n <= at
      BY <1>1, <2>2, <2>6 DEF IInv, TickInv, WalkInv, IsLatestNumber
    <3>. QED
      BY <2>4, <3>1, <3>2
  <2>. QED
    BY <2>5, <2>6
<1>2. TypeInv /\ IInv /\ [Next]_vars =>
        [AnswerFound => \A n \in StoredHeights(blocks) :
           IsCanonical(n) <=> (pc' = "rollback" => n <= at')]_vars
  BY <1>1
<1>. QED
  BY <1>2, InductiveInvariant, PTL DEF Spec, AncestorIsHighest

(* A batch is committed on top of the canonical chain: afterwards every    *)
(* indexed block is one the node has, although commitBatch (syncer.go:189) *)
(* compares no hashes.                                                     *)
THEOREM CommitsExtend == ~ReorgMidTick => (Spec => CommitExtendsCanonical)
<1>. SUFFICES ASSUME ~ReorgMidTick PROVE Spec => CommitExtendsCanonical
  OBVIOUS
<1>1. ASSUME TypeInv, IInv, NEW t \in Token, Commit(t) \/ CommitUnknown(t),
             NEW n \in StoredHeights(blocks')
      PROVE  IsCanonical(n)'
  BY <1>1, CommitKeepsTables DEF Commit, CommitUnknown, IInv, TickInv, TypeInv
<1>2. TypeInv /\ IInv /\ [Next]_vars =>
        [(\E t \in Token : Commit(t) \/ CommitUnknown(t)) =>
           \A n \in StoredHeights(blocks') : IsCanonical(n)']_vars
  BY <1>1
<1>. QED
  BY <1>2, InductiveInvariant, PTL DEF Spec, CommitExtendsCanonical

\* Only the rollback transaction takes rows away.
LEMMA RowsKept ==
  ASSUME [Next]_vars, ~Rollback, ~RollbackUnknown
  PROVE  transfers \subseteq transfers' /\ approvals \subseteq approvals'
<1>1. UNCHANGED <<transfers, approvals>> \/ \E t \in Token : Commit(t) \/ CommitUnknown(t)
  BY DEF Next, Step, TickStep, TokenStep, BootStep, Failure, ApiStep, ChainStep, Tick,
    WalkGap, WalkMatch, WalkMismatch, WalkNotFound, WalkExhausted, RollbackRejected,
    ListActive, EndTick, GetState, CreateState, Scan, LoadBlock, LoadNotFound, Start,
    BootDone, BootUpsert, BootGet, BootCreate, TickFails, Crash, StateFails,
    CreateUnknown, BatchFails, RegisterGet, RegisterCreate, RegisterFails, Register,
    Unregister, dbVars, rowVars, vars
<1>2. ASSUME NEW t \in Token, Commit(t) \/ CommitUnknown(t)
      PROVE  transfers \subseteq transfers' /\ approvals \subseteq approvals'
  BY <1>2 DEF Commit, CommitUnknown, Committed
<1>. QED
  BY <1>1, <1>2

(* A rollback deletes no event of a block that is canonical: rows vanish   *)
(* only when the node has given up their blocks (handleReorg,              *)
(* syncer.go:126, with the deletes of the four repositories).              *)
THEOREM OrphansDeleted == ~ReorgMidTick => (Spec => OnlyOrphansDeleted)
<1>. SUFFICES ASSUME ~ReorgMidTick PROVE Spec => OnlyOrphansDeleted
  OBVIOUS
<1>1. ASSUME TypeInv, IInv, [Next]_vars, NEW r \in transfers \cup approvals,
             r \notin transfers' \cup approvals'
      PROVE  ~IsCanonical(r.number)
  <2>1. RolledBack /\ pc = "rollback"
    BY <1>1, RowsKept DEF Rollback, RollbackUnknown
  <2>2. r \in RowSet /\ r.hash = blocks[r.number]
    BY <1>1 DEF IInv, TablesInv, Sound, TypeInv, TypeOK
  <2>3. r.number \in StoredHeights(blocks)
    BY <1>1, <2>2, Constants DEF RowSet, StoredHeights, TypeInv, TypeOK, Caches
  <2>4. ~(r.number <= at)
    BY <1>1, <2>1 DEF RolledBack, DeletedAfterBlock
  <2>5. r.number > at
    BY <1>1, <2>3, <2>4, StoredType, Constants DEF TypeInv, TypeOK
  <2>. QED
    BY <1>1, <2>1, <2>3, <2>5 DEF IInv, TickInv, WalkInv, IsCanonical
<1>2. TypeInv /\ IInv /\ [Next]_vars =>
        [\A r \in transfers \cup approvals :
           r \notin transfers' \cup approvals' => ~IsCanonical(r.number)]_vars
  BY <1>1
<1>. QED
  BY <1>2, InductiveInvariant, PTL DEF Spec, OnlyOrphansDeleted

=============================================================================
