---------------------------- MODULE LedgerProofs ----------------------------
(***************************************************************************)
(* What the steps of the indexer do to its tables, and what follows from   *)
(* it: the heights of the tables fit together whatever the node does; and  *)
(* when no reorganisation deeper than the confirmations falls into a tick, *)
(* the indexer implements Ledger, and its balances and allowances are      *)
(* those of the stored events.  For every block tree, configuration, set   *)
(* of tokens and number of API requests.                                   *)
(***************************************************************************)
EXTENDS SyncerRefinement, SyncerProofs, RecursionProofs

-----------------------------------------------------------------------------
(* The steps, by what they do to the tables *)

Opens(t) ==
  /\ cursor' = [cursor EXCEPT ![t] = InitialCursor(StartBlock)]
  /\ UNCHANGED <<blocks, transfers, approvals>>

LEMMA TableSteps ==
  ASSUME TypeInv, [Next]_vars
  PROVE  \/ UNCHANGED <<blocks, cursor, transfers, approvals>>
         \/ \E t \in Token : Opens(t)
         \/ \E t \in Token : Commit(t) \/ CommitUnknown(t)
         \/ Rollback \/ RollbackUnknown
<1>1. ASSUME NEW t \in Token, BootCreate(t) \/ CreateState(t) \/ CreateUnknown(t)
      PROVE  Opens(t)
  BY <1>1 DEF BootCreate, CreateState, CreateUnknown, Opens, rowVars
<1>2. ASSUME NEW r \in Request, RegisterCreate(r)
      PROVE  Opens(req[r].token)
  BY <1>2 DEF RegisterCreate, Opens, rowVars
<1>3. ASSUME NEW t, t \notin Token, Opens(t)
      PROVE  UNCHANGED <<blocks, cursor, transfers, approvals>>
  BY <1>3 DEF Opens, TypeInv, TypeOK
<1>. QED
  BY <1>1, <1>2, <1>3
  DEF Next, Step, TickStep, TokenStep, BootStep, Failure, ApiStep, ChainStep, Tick,
    WalkGap, WalkMatch, WalkMismatch, WalkNotFound, WalkExhausted, RollbackRejected,
    ListActive, EndTick, GetState, Scan, LoadBlock, LoadNotFound, Start, BootDone,
    BootUpsert, BootGet, TickFails, Crash, StateFails, BatchFails, RegisterGet,
    RegisterFails, Register, Unregister, dbVars, rowVars, vars

LEMMA FromSteps ==
  ASSUME [Next]_vars, pc' \in {"scan", "load"}
  PROVE  \/ pc \in {"scan", "load"} /\ from' = from
         \/ \E t \in Token : GetState(t) \/ CreateState(t)
BY DEF Next, Step, TickStep, TokenStep, BootStep, Failure, ApiStep, ChainStep, Tick,
    WalkGap, WalkMatch, WalkMismatch, WalkNotFound, WalkExhausted, Rollback,
    RollbackUnknown, RollbackRejected, ListActive, EndTick, GoIdle, TokenDone, Scan,
    LoadBlock, LoadNotFound, Commit, CommitUnknown, Start, BootDone, BootUpsert,
    BootGet, BootCreate, TickFails, Crash, StateFails, CreateUnknown, BatchFails,
    RegisterGet, RegisterCreate, RegisterFails, Register, Unregister, localVars,
    batchVars, vars

-----------------------------------------------------------------------------
(* The heights of the tables fit together whatever the node does, also     *)
(* when the chain is reorganised in the middle of a tick.                  *)

LEMMA CoverInit == Init => CoverInv
BY DEF Init, CoverInv, WalkCoversTables, CoverTick, NoBlocks, StoredHeights

\* The steps, by what they do to the locals CoverTick is about.
LEMMA TickSteps ==
  ASSUME [Next]_vars
  PROVE  \/ pc' \notin {"rollback", "scan", "load"} /\ cache' \in {cache, NoBlocks}
            /\ (pc = "load" => cache' = NoBlocks \/ pc' = "load")
         \/ UNCHANGED <<pc, at, from, to, next, logs, cache>>
         \/ pc' = "rollback" /\ at' = at /\ blocks[at] # NoRow
            /\ UNCHANGED <<blocks, cache>> /\ Walking
         \/ \E t \in Token : GetState(t) \/ CreateState(t) \/ Scan(t)
         \/ LoadBlock
BY DEF Next, Step, TickStep, TokenStep, BootStep, Failure, ApiStep, ChainStep, Tick,
    Walking, WalkGap, WalkMatch, WalkMismatch, WalkNotFound, WalkExhausted, Rollback,
    RollbackUnknown, RollbackRejected, ListActive, EndTick, GoIdle, ClearTick,
    ClearBatch, ClearWalk, TokenDone, LoadNotFound, Commit, CommitUnknown, Start,
    BootDone, BootUpsert, BootGet, BootCreate, TickFails, Crash, StateFails,
    CreateUnknown, BatchFails, RegisterGet, RegisterCreate, RegisterFails, Register,
    Unregister, localVars, walkVars, batchVars, dbVars, vars

-----------------------------------------------------------------------------
(* The tables *)

\* A batch adds the heights of its range.
LEMMA CommittedHeights ==
  ASSUME TypeInv, CoverInv, NEW t \in Token, Commit(t) \/ CommitUnknown(t)
  PROVE  /\ from \in Nat /\ to \in Nat /\ 1 <= from /\ from <= to /\ to <= MaxHeight
         /\ \A n : n \in StoredHeights(blocks')
                    <=> n \in StoredHeights(blocks) \/ n \in from..to
<1>1. pc = "load" /\ next > to /\ Committed(t)
  BY DEF Commit, CommitUnknown
<1>2. /\ from \in Nat /\ to \in Nat /\ 1 <= from /\ from <= to /\ to <= MaxHeight
      /\ next = to + 1
  BY <1>1 DEF CoverInv, CoverTick, TypeInv, TypeOK
<1>3. \A n \in from..to : n \in Height
  BY <1>2, Constants DEF Height
<1>4. \A n \in Height : cache[n] # NoRow <=> n \in from..to
  BY <1>1, <1>2 DEF CoverInv, CoverTick
<1>5. blocks' = [n \in Height |-> IF cache[n] # NoRow THEN cache[n] ELSE blocks[n]]
  BY <1>1 DEF Committed, BlocksUpserted, TypeInv, TypeOK, Caches
<1>6. \A n : n \in StoredHeights(blocks) <=> n \in Height /\ blocks[n] # NoRow
  BY DEF StoredHeights, TypeInv, TypeOK, Caches
<1>7. \A n : n \in StoredHeights(blocks') <=> n \in Height /\ blocks'[n] # NoRow
  BY <1>5 DEF StoredHeights
<1>8. \A n : n \in StoredHeights(blocks') <=> n \in StoredHeights(blocks) \/ n \in from..to
  BY <1>3, <1>4, <1>5, <1>6, <1>7
<1>. QED
  BY <1>2, <1>8

\* They follow indexed ones.
LEMMA CoverCommit ==
  ASSUME TypeInv, CoverInv, NEW t \in Token, Commit(t) \/ CommitUnknown(t)
  PROVE  WalkCoversTables'
<1>1. pc = "load" /\ Committed(t)
  BY DEF Commit, CommitUnknown
<1>2. from \in Nat /\ to \in Nat /\ 1 <= from /\ from <= to /\ to <= MaxHeight
  BY CommittedHeights
<1>5. \A n : n \in StoredHeights(blocks') <=> n \in StoredHeights(blocks) \/ n \in from..to
  BY CommittedHeights
<1>6. ASSUME NEW n \in StoredHeights(blocks'), NEW m \in First..n
      PROVE  m \in StoredHeights(blocks')
  <2>1. m \in Nat /\ n \in Nat /\ First <= m /\ m <= n
    BY <1>2, <1>5, <1>6, StoredType, Constants DEF First, TypeInv
  <2>2. CASE n \in StoredHeights(blocks)
    BY <1>5, <1>6, <2>2 DEF CoverInv, WalkCoversTables
  <2>3. CASE n \in from..to /\ m < from
    BY <1>1, <1>2, <1>5, <2>1, <2>3, Constants DEF CoverInv, CoverTick, First
  <2>4. CASE n \in from..to /\ from <= m
    BY <1>2, <1>5, <2>1, <2>4
  <2>. QED
    BY <1>2, <1>5, <2>1, <2>2, <2>3, <2>4
<1>7. ASSUME NEW u \in Token, cursor'[u] # NoRow
      PROVE  cursor'[u] < First \/ cursor'[u] \in StoredHeights(blocks')
  <2>1. cursor' = [cursor EXCEPT ![t] = to] /\ to \in from..to
    BY <1>1, <1>2 DEF Committed
  <2>2. CASE u = t
    BY <1>5, <2>1, <2>2 DEF TypeInv, TypeOK
  <2>3. CASE u # t
    BY <1>5, <1>7, <2>1, <2>3 DEF CoverInv, WalkCoversTables, TypeInv, TypeOK
  <2>. QED
    BY <2>2, <2>3
<1>8. ASSUME NEW r \in transfers' \cup approvals'
      PROVE  r.number \in StoredHeights(blocks')
  <2>1. r \in transfers \cup approvals \/ r \in logs
    BY <1>1 DEF Committed, NewRows, Decoded
  <2>. QED
    BY <1>1, <1>5, <2>1 DEF CoverInv, WalkCoversTables, CoverTick
<1>. QED
  BY <1>6, <1>7, <1>8 DEF WalkCoversTables

\* A rollback cuts the three kinds of tables at the same indexed height.
LEMMA CoverRollback ==
  ASSUME TypeInv, CoverInv, Rollback \/ RollbackUnknown
  PROVE  WalkCoversTables'
<1>1. RolledBack /\ at \in StoredHeights(blocks) /\ at \in Nat
  BY StoredType DEF Rollback, RollbackUnknown, CoverInv, CoverTick, TypeInv
<1>2. \A n : n \in StoredHeights(blocks') <=> n \in StoredHeights(blocks) /\ n <= at
  BY <1>1, RollbackKeepsBlocks DEF TypeInv
<1>3. \A n \in StoredHeights(blocks') : First..n \subseteq StoredHeights(blocks')
  BY <1>1, <1>2, Constants, StoredType DEF CoverInv, WalkCoversTables, First, TypeInv
<1>4. ASSUME NEW u \in Token, cursor'[u] # NoRow
      PROVE  cursor'[u] < First \/ cursor'[u] \in StoredHeights(blocks')
  <2>1. cursor[u] \in Nat /\ cursor'[u] = Least(cursor[u], at)
    BY <1>1, <1>4 DEF RolledBack, CursorRolledBack, TypeInv, TypeOK
  <2>2. cursor[u] < First \/ cursor[u] \in StoredHeights(blocks)
    BY <2>1, Constants DEF CoverInv, WalkCoversTables
  <2>. QED
    BY <1>1, <1>2, <2>1, <2>2, Constants DEF Least, First
<1>5. ASSUME NEW r \in transfers' \cup approvals'
      PROVE  r.number \in StoredHeights(blocks')
  BY <1>1, <1>2, <1>5 DEF RolledBack, DeletedAfterBlock, CoverInv, WalkCoversTables
<1>. QED
  BY <1>3, <1>4, <1>5 DEF WalkCoversTables

LEMMA CoverTables ==
  ASSUME TypeInv, CoverInv, [Next]_vars
  PROVE  WalkCoversTables'
<1>1. CASE UNCHANGED <<blocks, cursor, transfers, approvals>>
  BY <1>1 DEF CoverInv, WalkCoversTables
<1>2. ASSUME NEW t \in Token, Opens(t) PROVE WalkCoversTables'
  <2>1. \A u \in Token : cursor'[u] = cursor[u] \/ cursor'[u] < First
    BY <1>2, Constants DEF Opens, First, TypeInv, TypeOK
  <2>. QED
    BY <1>2, <2>1 DEF Opens, CoverInv, WalkCoversTables
<1>. QED
  BY <1>1, <1>2, CoverCommit, CoverRollback, TableSteps

-----------------------------------------------------------------------------
(* The locals *)

\* Outside a batch the indexed heights may change, inside one they stay.
LEMMA HeightsStay ==
  ASSUME TypeInv, [Next]_vars, UNCHANGED pc
  PROVE  UNCHANGED blocks
<1>1. ~Rollback /\ ~RollbackUnknown
  BY DEF Rollback, RollbackUnknown, GoIdle
<1>2. ASSUME NEW t \in Token PROVE ~Commit(t) /\ ~CommitUnknown(t)
  BY DEF Commit, CommitUnknown, TokenDone
<1>. QED
  BY <1>1, <1>2, TableSteps DEF Opens

\* A cursor is at an indexed block or before the first one.
LEMMA CursorReach ==
  ASSUME TypeInv, CoverInv, NEW t \in Token, cursor[t] # NoRow
  PROVE  /\ cursor[t] \in Nat
         /\ cursor[t] <= MaxHeight \/ cursor[t] <= InitialCursor(StartBlock)
<1>1. cursor[t] \in Nat
  BY DEF TypeInv, TypeOK
<1>2. CASE cursor[t] \in StoredHeights(blocks)
  BY <1>1, <1>2, StoredType, Constants DEF TypeInv, Height
<1>3. CASE cursor[t] < First
  BY <1>1, <1>3, Constants DEF First
<1>. QED
  BY <1>1, <1>2, <1>3 DEF CoverInv, WalkCoversTables

\* The range of a batch follows a cursor the indexed blocks reach.
LEMMA CoverState ==
  ASSUME TypeInv, CoverInv, NEW t \in Token, GetState(t) \/ CreateState(t)
  PROVE  CoverTick'
<1>1. pc \in {"get", "create"} /\ cache = NoBlocks /\ UNCHANGED blocks
  BY DEF GetState, CreateState, CoverInv, CoverTick, dbVars
<1>2. ASSUME pc' # "scan"
      PROVE  CoverTick'
  BY <1>1, <1>2
  DEF GetState, CreateState, RangeFrom, TokenDone, ClearBatch, CoverTick, batchVars
<1>3. ASSUME NEW last \in Nat, RangeFrom(t, last), pc' = "scan",
             last <= MaxHeight \/ last <= InitialCursor(StartBlock),
             First..last \subseteq StoredHeights(blocks)
      PROVE  CoverTick'
  <2>1. HasRange(last, safe)
    BY <1>3 DEF RangeFrom, TokenDone
  <2>2. from' = last + 1 /\ to' \in Nat /\ from' <= to' /\ to' <= safe
    BY <1>3, <2>1, RangeStart
  <2>3. cache' = cache /\ safe <= MaxHeight /\ safe \in Nat
    BY <1>3, <2>1, Constants DEF RangeFrom, TypeInv, TypeOK
  <2>4. First..(from' - 1) \subseteq StoredHeights(blocks')
    BY <1>1, <1>3, <2>2
  <2>. QED
    BY <1>1, <1>3, <2>2, <2>3, <2>4, Constants DEF CoverTick
<1>4. CASE GetState(t) /\ pc' = "scan"
  <2>1. cursor[t] # NoRow /\ RangeFrom(t, cursor[t]) /\ cursor[t] \in Nat
    BY <1>4 DEF GetState, TypeInv, TypeOK
  <2>2. CASE cursor[t] < First
    BY <1>3, <1>4, <2>1, <2>2, Constants DEF First
  <2>3. CASE cursor[t] \in StoredHeights(blocks)
    <3>1. cursor[t] <= MaxHeight
      BY <2>3, StoredType, Constants DEF TypeInv, Height
    <3>. QED
      BY <1>3, <1>4, <2>1, <2>3, <3>1 DEF CoverInv, WalkCoversTables
  <2>. QED
    BY <2>1, <2>2, <2>3 DEF CoverInv, WalkCoversTables
<1>5. CASE CreateState(t) /\ pc' = "scan"
  BY <1>3, <1>5, Constants DEF CreateState, First
<1>. QED
  BY <1>2, <1>4, <1>5

LEMMA CoverFetch ==
  ASSUME TypeInv, CoverInv, LoadBlock \/ \E t \in Token : Scan(t)
  PROVE  CoverTick'
<1>1. /\ pc \in {"scan", "load"} /\ pc' = "load" /\ UNCHANGED <<blocks, from, to>>
      /\ from \in Nat /\ to \in Nat /\ next \in Nat
      /\ 1 <= from /\ from <= to /\ to <= MaxHeight
      /\ First..(from - 1) \subseteq StoredHeights(blocks)
  BY DEF LoadBlock, Scan, dbVars, CoverInv, CoverTick, TypeInv, TypeOK
<1>2. ASSUME NEW t \in Token, Scan(t) PROVE CoverTick'
  <2>1. next' = from /\ cache' = NoBlocks /\ logs' = FilterLogs(t, from, to)
    BY <1>2 DEF Scan, CoverInv, CoverTick
  <2>2. \A r \in logs' : r.number \in from'..to'
    BY <1>1, <2>1 DEF FilterLogs, Row
  <2>3. \A n \in Height : cache'[n] = NoRow /\ n \notin from'..(next' - 1)
    BY <1>1, <2>1, Constants DEF NoBlocks, Height
  <2>. QED
    BY <1>1, <2>1, <2>2, <2>3 DEF CoverTick
<1>3. ASSUME LoadBlock PROVE CoverTick'
  <2>1. /\ pc = "load" /\ next <= to /\ next' = next + 1 /\ UNCHANGED logs
        /\ cache' = [cache EXCEPT ![next] = BlockByNumber(next)] /\ HasBlock(next)
    BY <1>3 DEF LoadBlock
  <2>2. from <= next /\ BlockByNumber(next) # NoRow
    BY <2>1, BlockOnType, Constants
    DEF CoverInv, CoverTick, HasBlock, BlockByNumber, TypeInv, TypeOK, ChainTypeOK
  <2>3. ASSUME NEW n \in Height
        PROVE  cache'[n] # NoRow <=> n \in from'..(next' - 1)
    <3>1. cache[n] # NoRow <=> n \in from..(next - 1)
      BY <2>1 DEF CoverInv, CoverTick
    <3>2. cache'[n] = IF n = next THEN BlockByNumber(next) ELSE cache[n]
      BY <2>1 DEF TypeInv, TypeOK, Caches
    <3>3. n \in from'..(next' - 1) <=> n = next \/ n \in from..(next - 1)
      BY <1>1, <2>1, <2>2, Constants DEF Height
    <3>. QED
      BY <2>2, <3>1, <3>2, <3>3
  <2>4. \A r \in logs' : r.number \in from'..to'
    BY <1>1, <2>1 DEF CoverInv, CoverTick
  <2>5. from' <= next' /\ next' <= to' + 1
    BY <1>1, <2>1, <2>2
  <2>. QED
    BY <1>1, <2>3, <2>4, <2>5 DEF CoverTick
<1>. QED
  BY <1>2, <1>3

LEMMA CoverStep ==
  ASSUME TypeInv, CoverInv, [Next]_vars
  PROVE  CoverInv'
<1>1. CASE /\ pc' \notin {"rollback", "scan", "load"} /\ cache' \in {cache, NoBlocks}
           /\ (pc = "load" => cache' = NoBlocks \/ pc' = "load")
  BY <1>1, CoverTables DEF CoverInv, CoverTick, NoBlocks
<1>2. CASE UNCHANGED <<pc, at, from, to, next, logs, cache>>
  BY <1>2, CoverTables, HeightsStay DEF CoverInv, CoverTick, NoBlocks
<1>3. CASE pc' = "rollback" /\ at' = at /\ blocks[at] # NoRow
           /\ UNCHANGED <<blocks, cache>> /\ Walking
  <2>1. PICK n \in Height : at >= LowestChecked(n)
    BY <1>3 DEF Walking
  <2>2. at \in Height
    BY <2>1, LowestCheckedType, Constants DEF TypeInv, TypeOK, Height
  <2>3. at \in StoredHeights(blocks')
    BY <1>3, <2>2 DEF StoredHeights, TypeInv, TypeOK, Caches
  <2>. QED
    BY <1>3, <2>3, CoverTables DEF Walking, CoverInv, CoverTick, NoBlocks
<1>. QED
  BY <1>1, <1>2, <1>3, TickSteps, CoverTables, CoverState, CoverFetch DEF CoverInv

(* Whatever the node does, also in the middle of a tick: the indexed       *)
(* blocks have no gap, and no cursor and no event lies above them, so that *)
(* LatestNumber (block_repo.go:37) gives FindRollbackBlock a start from    *)
(* which it sees everything that is stored.                                *)
THEOREM WalkCovers == Spec => []WalkCoversTables
<1>1. Init => TypeInv /\ CoverInv
  BY TypeInit, CoverInit
<1>2. TypeInv /\ CoverInv /\ [Next]_vars => TypeInv' /\ CoverInv'
  BY TypeStep, CoverStep
<1>3. CoverInv => WalkCoversTables
  BY DEF CoverInv
<1>. QED
  BY <1>1, <1>2, <1>3, PTL DEF Spec

-----------------------------------------------------------------------------
(* Nothing lies below the first block. *)

LEMMA FromFirstInit == Init => FromFirst
BY DEF Init, FromFirst, NoBlocks, StoredHeights

LEMMA FromFirstStep ==
  ASSUME TypeInv, CoverInv, FromFirst, [Next]_vars
  PROVE  FromFirst'
<1>1. ASSUME NEW t \in Token, cursor'[t] # NoRow
      PROVE  First - 1 <= cursor'[t]
  <2>1. First - 1 = InitialCursor(StartBlock)
    BY Constants DEF First
  <2>2. cursor \in [Token -> Nat \cup {NoRow}]
    BY DEF TypeInv, TypeOK
  <2>3. CASE UNCHANGED cursor
    BY <1>1, <2>3 DEF FromFirst
  <2>4. CASE \E u \in Token : Opens(u)
    BY <1>1, <2>1, <2>2, <2>4, Constants DEF FromFirst, Opens
  <2>5. ASSUME NEW u \in Token, Commit(u) \/ CommitUnknown(u)
        PROVE  First - 1 <= cursor'[t]
    <3>1. First <= from /\ from <= to /\ from \in Nat /\ to \in Nat
      BY <2>5 DEF FromFirst, CoverInv, CoverTick, Commit, CommitUnknown, TypeInv, TypeOK
    <3>2. cursor' = [cursor EXCEPT ![u] = to]
      BY <2>5 DEF Commit, CommitUnknown, Committed
    <3>. QED
      BY <1>1, <2>2, <3>1, <3>2, Constants DEF FromFirst, First
  <2>6. CASE Rollback \/ RollbackUnknown
    <3>1. cursor' = CursorRolledBack(cursor, at) /\ at \in StoredHeights(blocks)
      BY <2>6 DEF Rollback, RollbackUnknown, RolledBack, CoverInv, CoverTick
    <3>2. First <= at /\ at \in Nat
      BY <3>1, StoredType DEF FromFirst, TypeInv
    <3>3. cursor[t] # NoRow /\ cursor'[t] \in {cursor[t], at}
      BY <1>1, <2>2, <3>1 DEF CursorRolledBack, Least
    <3>. QED
      BY <3>2, <3>3, <2>1, Constants DEF FromFirst, First
  <2>. QED
    BY <2>3, <2>4, <2>5, <2>6, TableSteps
<1>2. ASSUME NEW n \in StoredHeights(blocks')
      PROVE  First <= n
  <2>1. CASE UNCHANGED blocks
    BY <1>2, <2>1 DEF FromFirst
  <2>2. ASSUME NEW u \in Token, Commit(u) \/ CommitUnknown(u)
        PROVE  First <= n
    <3>1. First <= from /\ from \in Nat
      BY <2>2 DEF FromFirst, Commit, CommitUnknown, TypeInv, TypeOK
    <3>2. n \in from..to \/ n \in StoredHeights(blocks)
      BY <1>2, <2>2, CommittedHeights
    <3>. QED
      BY <3>1, <3>2, Constants DEF FromFirst, First
  <2>3. CASE Rollback \/ RollbackUnknown
    BY <1>2, <2>3, RollbackKeepsBlocks
    DEF Rollback, RollbackUnknown, FromFirst, TypeInv
  <2>. QED
    BY <2>1, <2>2, <2>3, TableSteps DEF Opens
<1>3. ASSUME pc' \in {"scan", "load"}
      PROVE  First <= from'
  <2>1. CASE pc \in {"scan", "load"} /\ from' = from
    BY <2>1 DEF FromFirst
  <2>2. ASSUME NEW t \in Token, GetState(t) \/ CreateState(t)
        PROVE  First <= from'
    <3>1. ASSUME NEW last \in Nat, First - 1 <= last, RangeFrom(t, last),
                 last <= MaxHeight \/ last <= InitialCursor(StartBlock)
          PROVE  First <= from'
      <4>1. HasRange(last, safe)
        BY <1>3, <3>1 DEF RangeFrom, TokenDone
      <4>2. from' = last + 1
        BY <3>1, <4>1, RangeStart
      <4>. QED
        BY <3>1, <4>2, Constants DEF First
    <3>2. CASE GetState(t)
      BY <1>3, <3>1, <3>2, CursorReach DEF GetState, FromFirst
    <3>3. CASE CreateState(t)
      BY <3>1, <3>3, Constants DEF CreateState, First
    <3>. QED
      BY <2>2, <3>2, <3>3
  <2>. QED
    BY <1>3, <2>1, <2>2, FromSteps
<1>. QED
  BY <1>1, <1>2, <1>3 DEF FromFirst

\* Whatever the node does.
THEOREM FirstInvariant == Spec => [](TypeInv /\ CoverInv /\ FromFirst)
<1>1. Init => TypeInv /\ CoverInv /\ FromFirst
  BY TypeInit, CoverInit, FromFirstInit
<1>2. TypeInv /\ CoverInv /\ FromFirst /\ [Next]_vars
      => TypeInv' /\ CoverInv' /\ FromFirst'
  BY TypeStep, CoverStep, FromFirstStep
<1>. QED
  BY <1>1, <1>2, PTL DEF Spec

-----------------------------------------------------------------------------
(* The cursors *)

LEMMA CursorSteps ==
  ASSUME [Next]_vars
  PROVE  \/ UNCHANGED cursor
         \/ \E t \in Token : BootCreate(t) \/ CreateState(t) \/ CreateUnknown(t)
         \/ \E r \in Request : RegisterCreate(r)
         \/ \E t \in Token : Commit(t) \/ CommitUnknown(t)
         \/ Rollback \/ RollbackUnknown
BY DEF Next, Step, TickStep, TokenStep, BootStep, Failure, ApiStep, ChainStep, Tick,
    WalkGap, WalkMatch, WalkMismatch, WalkNotFound, WalkExhausted, RollbackRejected,
    ListActive, EndTick, GetState, Scan, LoadBlock, LoadNotFound, Start, BootDone,
    BootUpsert, BootGet, TickFails, Crash, StateFails, BatchFails, RegisterGet,
    RegisterFails, Register, Unregister, dbVars, vars

LEMMA CursorTickSteps ==
  ASSUME [Next]_vars
  PROVE  \/ pc' \notin {"create0", "create", "scan", "load"}
         \/ UNCHANGED <<pc, todo, from, cursor>>
         \/ UNCHANGED <<pc, todo, from>> /\ \E r \in Request : RegisterCreate(r)
         \/ \E t \in Token : BootGet(t) \/ GetState(t) \/ CreateState(t) \/ Scan(t)
BY DEF Next, Step, TickStep, TokenStep, BootStep, Failure, ApiStep, ChainStep, Tick,
    WalkGap, WalkMatch, WalkMismatch, WalkNotFound, WalkExhausted, Rollback,
    RollbackUnknown, RollbackRejected, ListActive, EndTick, GoIdle, TokenDone,
    LoadBlock, LoadNotFound, Commit, CommitUnknown, Start, BootDone, BootUpsert,
    BootCreate, TickFails, Crash, StateFails, CreateUnknown, BatchFails, RegisterGet,
    RegisterCreate, RegisterFails, Register, Unregister, localVars, batchVars, dbVars,
    vars

LEMMA OneIsNext ==
  ASSUME TypeInv, NEW t \in Token, NEW u \in Token, IsNext(t), IsNext(u)
  PROVE  t = u
BY Constants DEF IsNext, TypeInv, TypeOK

LEMMA CursorInvStep ==
  ASSUME TypeInv, CoverInv, FromFirst, CursorInv, [Next]_vars
  PROVE  CursorInv'
<1>1. CASE pc' \notin {"create0", "create", "scan", "load"}
  BY <1>1 DEF CursorInv
<1>2. CASE UNCHANGED <<pc, todo, from, cursor>>
  BY <1>2 DEF CursorInv, IsNext
<1>3. ASSUME UNCHANGED <<pc, todo, from>>, NEW r \in Request, RegisterCreate(r)
      PROVE  CursorInv'
  <2>1. \A t \in Token : cursor'[t] \in {cursor[t], InitialCursor(StartBlock)}
    BY <1>3 DEF RegisterCreate, TypeInv, TypeOK
  <2>2. pc \in {"scan", "load"} => InitialCursor(StartBlock) < from
    BY Constants DEF FromFirst, First, TypeInv, TypeOK
  <2>. QED
    BY <1>3, <2>1, <2>2 DEF CursorInv, IsNext
<1>4. ASSUME NEW t \in Token, BootGet(t)
      PROVE  CursorInv'
  BY <1>4, OneIsNext DEF BootGet, CursorInv, IsNext, dbVars
<1>5. ASSUME NEW t \in Token, Scan(t)
      PROVE  CursorInv'
  BY <1>5 DEF Scan, CursorInv, IsNext, dbVars
<1>6. ASSUME NEW t \in Token, GetState(t) \/ CreateState(t)
      PROVE  CursorInv'
  <2>1. IsNext(t)
    BY <1>6 DEF GetState, CreateState
  <2>2. CASE pc' = "create"
    <3>1. cursor'[t] = NoRow /\ UNCHANGED todo
      BY <1>6, <2>2 DEF GetState, CreateState, RangeFrom, TokenDone, dbVars
    <3>2. \A u \in Token : IsNext(u)' => u = t
      BY <2>1, <3>1, OneIsNext DEF IsNext
    <3>. QED
      BY <2>2, <3>1, <3>2 DEF CursorInv
  <2>3. CASE pc' = "scan"
    <3>1. PICK last \in Nat : /\ RangeFrom(t, last) /\ cursor'[t] = last
                              /\ last <= MaxHeight \/ last <= InitialCursor(StartBlock)
      <4>1. CASE GetState(t)
        BY <2>3, <4>1, CursorReach DEF GetState, dbVars
      <4>2. CASE CreateState(t)
        BY <4>2, Constants DEF CreateState, TypeInv, TypeOK
      <4>. QED
        BY <1>6, <4>1, <4>2
    <3>2. HasRange(last, safe) /\ UNCHANGED todo
      BY <2>3, <3>1 DEF RangeFrom, TokenDone
    <3>3. from' = last + 1
      BY <3>1, <3>2, RangeStart
    <3>4. \A u \in Token : IsNext(u)' => u = t
      BY <2>1, <3>2, OneIsNext DEF IsNext
    <3>. QED
      BY <2>3, <3>1, <3>3, <3>4 DEF CursorInv
  <2>4. CASE pc' = "get"
    BY <2>4 DEF CursorInv
  <2>5. pc' \in {"create", "scan", "get"}
    BY <1>6 DEF GetState, CreateState, RangeFrom, TokenDone
  <2>. QED
    BY <2>2, <2>3, <2>4, <2>5
<1>. QED
  BY <1>1, <1>2, <1>3, <1>4, <1>5, <1>6, CursorTickSteps

LEMMA SetBack ==
  ASSUME TypeInv, CoverInv, FromFirst, CursorInv, [Next]_vars,
         NEW t \in Token, cursor[t] # NoRow, cursor'[t] < cursor[t]
  PROVE  \/ pc = "rollback"
         \/ \E r \in Request : req[r] = [pc |-> "create", token |-> t]
<1>1. cursor[t] \in Nat
  BY DEF TypeInv, TypeOK
<1>2. ASSUME UNCHANGED cursor PROVE FALSE
  BY <1>1, <1>2
<1>3. ASSUME NEW u \in Token, BootCreate(u) \/ CreateState(u) \/ CreateUnknown(u)
      PROVE  FALSE
  <2>1. /\ pc \in {"create0", "create"} /\ IsNext(u)
        /\ cursor' = [cursor EXCEPT ![u] = InitialCursor(StartBlock)]
    BY <1>3 DEF BootCreate, CreateState, CreateUnknown
  <2>2. cursor[u] \in {NoRow, InitialCursor(StartBlock)}
    BY <2>1 DEF CursorInv
  <2>3. cursor'[t] = cursor[t]
    BY <2>1, <2>2 DEF TypeInv, TypeOK
  <2>. QED
    BY <1>1, <2>3
<1>4. ASSUME NEW r \in Request, RegisterCreate(r)
      PROVE  req[r] = [pc |-> "create", token |-> t]
  <2>1. req[r].pc = "create" /\ req[r] = [pc |-> req[r].pc, token |-> req[r].token]
    BY <1>4 DEF RegisterCreate, TypeInv, TypeOK
  <2>2. req[r].token = t
    BY <1>1, <1>4 DEF RegisterCreate, TypeInv, TypeOK
  <2>. QED
    BY <2>1, <2>2
<1>5. ASSUME NEW u \in Token, Commit(u) \/ CommitUnknown(u)
      PROVE  FALSE
  <2>1. pc = "load" /\ IsNext(u) /\ cursor' = [cursor EXCEPT ![u] = to]
    BY <1>5 DEF Commit, CommitUnknown, Committed
  <2>2. from \in Nat /\ to \in Nat /\ from <= to
    BY <1>5, CommittedHeights
  <2>3. u = t
    BY <1>1, <2>1 DEF TypeInv, TypeOK
  <2>4. cursor[t] < from /\ cursor'[t] = to
    BY <2>1, <2>3 DEF CursorInv, TypeInv, TypeOK
  <2>. QED
    BY <1>1, <2>2, <2>4
<1>6. CASE Rollback \/ RollbackUnknown
  BY <1>6 DEF Rollback, RollbackUnknown
<1>. QED
  BY <1>2, <1>3, <1>4, <1>5, <1>6, CursorSteps

(* Whatever the node does: a cursor is only set back by a rollback, or by  *)
(* a request of the API that read no cursor before another created it      *)
(* (GetOrCreate, sync_state_repo.go), and never by the indexer, which      *)
(* reads a cursor, waits for the node and writes it (syncer.go:153).       *)
THEOREM CursorsSetBack == Spec => CursorsSetBackOnly
<1>1. Init => CursorInv
  BY DEF Init, CursorInv
<1>2. TypeInv /\ CoverInv /\ FromFirst /\ CursorInv /\ [Next]_vars => CursorInv'
  BY CursorInvStep
<1>3. TypeInv /\ CoverInv /\ FromFirst /\ CursorInv /\ [Next]_vars =>
        [\A t \in Token :
           cursor[t] # NoRow /\ cursor'[t] < cursor[t] =>
             \/ pc = "rollback"
             \/ \E r \in Request : req[r] = [pc |-> "create", token |-> t]]_vars
  BY SetBack
<1>. QED
  BY <1>1, <1>2, <1>3, FirstInvariant, PTL DEF Spec, CursorsSetBackOnly

-----------------------------------------------------------------------------
(* The simulation *)

\* What a committed batch leaves in indexed_blocks.
LEMMA CommittedBlocks ==
  ASSUME TypeInv, IInv, NEW t \in Token, Commit(t) \/ CommitUnknown(t)
  PROVE  /\ IsNext(t) /\ Committed(t) /\ UNCHANGED chainVars
         /\ from \in Height /\ to \in Height /\ from <= to
         /\ \A n \in from..to : n \in Height /\ HasBlock(n)
         /\ blocks' = [n \in Height |->
                        IF n \in from..to THEN BlockByNumber(n) ELSE blocks[n]]
<1>1. /\ pc = "load" /\ IsNext(t) /\ next > to /\ Committed(t) /\ UNCHANGED chainVars
  BY DEF Commit, CommitUnknown
<1>2. /\ from \in Nat /\ to \in Nat /\ safe \in Nat /\ head \in Nat /\ next \in Nat
      /\ 1 <= from /\ from <= to /\ to <= safe /\ safe <= head /\ head <= MaxHeight
      /\ next = to + 1
  BY <1>1, Constants
  DEF TypeInv, TypeOK, ChainTypeOK, IInv, TickInv, SafeInv, Quiet, RangeInv, BatchInv
<1>3. \A n \in from..to : n \in Height /\ HasBlock(n) /\ BlockByNumber(n) \in Hash
  BY <1>2, Constants, BlockOnType
  DEF Height, HasBlock, BlockByNumber, TypeInv, TypeOK, ChainTypeOK
<1>4. \A n \in Height : cache[n] = IF n \in from..to THEN BlockByNumber(n) ELSE NoRow
  BY <1>1, <1>2 DEF IInv, TickInv, BatchInv
<1>5. blocks' = [n \in Height |-> IF cache[n] # NoRow THEN cache[n] ELSE blocks[n]]
  BY <1>1 DEF Committed, BlocksUpserted, TypeInv, TypeOK, Caches
<1>6. \A n \in Height : (IF cache[n] # NoRow THEN cache[n] ELSE blocks[n])
                       = IF n \in from..to THEN BlockByNumber(n) ELSE blocks[n]
  BY <1>3, <1>4, Constants
<1>. QED
  BY <1>1, <1>2, <1>3, <1>5, <1>6, Constants DEF Height

\* The primary key keeps no event of the batch out: a row with the same key
\* is that event itself, since both are of the canonical branch.
LEMMA EveryRowInserted ==
  ASSUME TypeInv, IInv, NEW t \in Token, Commit(t) \/ CommitUnknown(t),
         NEW table, NEW kind, table \subseteq RowSet, Sound(table, kind)
  PROVE  table \cup NewRows(table, Decoded(logs, kind)) = table \cup Decoded(logs, kind)
<1>1. pc = "load" /\ logs = FilterLogs(t, from, to)
  BY DEF Commit, CommitUnknown, IInv, TickInv, BatchInv
<1>2. SUFFICES ASSUME NEW r \in Decoded(logs, kind), NEW s \in table, SameKey(r, s)
               PROVE  r = s
  BY <1>2 DEF NewRows
<1>3. PICK n \in from..to : \E l \in LogsIn[BlockByNumber(n)] :
        r = Row(n, BlockByNumber(n), l)
  BY <1>1 DEF Decoded, FilterLogs
<1>4. PICK l \in LogsIn[BlockByNumber(n)] : r = Row(n, BlockByNumber(n), l)
  BY <1>3
<1>5. n \in Height
  BY CommittedBlocks
<1>6. /\ s = [number |-> s.number, hash |-> s.hash, log |-> s.log]
      /\ s.number \in Height /\ s.hash \in Hash
      /\ s.hash = blocks[s.number] /\ s.log \in LogsIn[s.hash]
  BY DEF RowSet, Sound
<1>7. s.hash = BlockByNumber(s.number)
  BY <1>1, <1>6, Constants
  DEF IInv, TickInv, CheckedInv, IsCanonical, StoredHeights, TypeInv, TypeOK, Caches
<1>8. s.number = n /\ s.log = l
  BY <1>2, <1>4, <1>5, <1>6, <1>7, LogAssumption
  DEF SameKey, Row, BlockByNumber, TypeInv, TypeOK, ChainTypeOK
<1>. QED
  BY <1>4, <1>6, <1>7, <1>8 DEF Row

\* The events of a scan are those of the blocks of its range.
LEMMA ScannedEvents ==
  ASSUME TypeInv, NEW t \in Token, logs = FilterLogs(t, from, to),
         \A n \in from..to : n \in Height /\ HasBlock(n)
  PROVE  Decoded(logs, "transfer") \cup Decoded(logs, "approval")
           = UNION {L!EventsOn(branch, n, t) : n \in from..to}
<1>1. \A n \in from..to : BlockByNumber(n) = BlockOn[branch][n] /\ BlockByNumber(n) \in Hash
  BY BlockOnType DEF BlockByNumber, TypeInv, TypeOK, ChainTypeOK
<1>2. ASSUME NEW r \in Decoded(logs, "transfer") \cup Decoded(logs, "approval")
      PROVE  \E n \in from..to : r \in L!EventsOn(branch, n, t)
  <2>1. PICK n \in from..to : \E l \in LogsIn[BlockByNumber(n)] :
          l.token = t /\ r = Row(n, BlockByNumber(n), l)
    BY <1>2 DEF Decoded, FilterLogs
  <2>2. PICK l \in LogsIn[BlockByNumber(n)] : l.token = t /\ r = Row(n, BlockByNumber(n), l)
    BY <2>1
  <2>3. l.kind # "other"
    BY <1>2, <2>2 DEF Decoded, Row
  <2>. QED
    BY <1>1, <2>2, <2>3 DEF L!EventsOn, Row
<1>3. ASSUME NEW n \in from..to, NEW r \in L!EventsOn(branch, n, t)
      PROVE  r \in Decoded(logs, "transfer") \cup Decoded(logs, "approval")
  <2>1. PICK l \in LogsIn[BlockByNumber(n)] :
          l.token = t /\ l.kind # "other" /\ r = Row(n, BlockByNumber(n), l)
    BY <1>1, <1>3 DEF L!EventsOn, Row
  <2>2. l \in Log
    BY <1>1, <2>1, LogAssumption
  <2>3. l.kind \in {"transfer", "approval"}
    BY <2>1, <2>2, LogAssumption DEF LogKind
  <2>4. r \in logs /\ r.log = l
    BY <2>1 DEF FilterLogs, Row
  <2>. QED
    BY <2>3, <2>4 DEF Decoded
<1>. QED
  BY <1>2, <1>3

LEMMA CommitAppends ==
  ASSUME TypeInv, IInv, FromFirst, NEW t \in Token, Commit(t) \/ CommitUnknown(t)
  PROVE  L!Append(t, branch, from, to)
<1>1. /\ pc = "load" /\ IsNext(t) /\ Committed(t) /\ from <= to /\ from \in Nat
      /\ logs = FilterLogs(t, from, to)
  BY CommittedBlocks, Constants
  DEF Commit, CommitUnknown, IInv, TickInv, BatchInv, Height
<1>2. First <= from
  BY <1>1 DEF FromFirst
<1>3. \A k \in L!Indexed : blocks[k] = BlockOn[branch][k]
  BY <1>1
  DEF L!Indexed, IInv, TickInv, CheckedInv, IsCanonical, BlockByNumber,
      StoredHeights, TypeInv, TypeOK, Caches, Height
<1>4. ASSUME NEW k \in First..(from - 1)
      PROVE  k \in L!Indexed /\ L!EventsOn(branch, k, t) \subseteq transfers \cup approvals
  <2>1. IsIndexed(t, k)
    BY <1>1 DEF IInv, TickInv, RangeInv
  <2>2. k \in L!Indexed
    BY <2>1 DEF IsIndexed, L!Indexed, StoredHeights, TypeInv, TypeOK, Caches, Height
  <2>3. blocks[k] = BlockOn[branch][k] /\ blocks[k] \in Hash
    BY <1>3, <2>1, <2>2, StoredType DEF IsIndexed, TypeInv
  <2>4. \A l \in LogsIn[blocks[k]] : l.kind \in {"transfer", "approval", "other"}
    BY <2>3, LogAssumption DEF LogKind
  <2>. QED
    BY <2>1, <2>2, <2>3, <2>4 DEF IsIndexed, L!EventsOn, Row
<1>5. blocks' = [k \in 1..MaxHeight |->
                   IF k \in from..to THEN BlockOn[branch][k] ELSE blocks[k]]
  BY CommittedBlocks DEF BlockByNumber, Height
<1>6. transfers' \cup approvals'
        = (transfers \cup approvals) \cup UNION {L!EventsOn(branch, k, t) : k \in from..to}
  <2>1. transfers' = transfers \cup Decoded(logs, "transfer")
    BY <1>1, EveryRowInserted DEF Committed, IInv, TablesInv, TypeInv, TypeOK
  <2>2. approvals' = approvals \cup Decoded(logs, "approval")
    BY <1>1, EveryRowInserted DEF Committed, IInv, TablesInv, TypeInv, TypeOK
  <2>. QED
    BY <1>1, <2>1, <2>2, ScannedEvents, CommittedBlocks
<1>7. cursor' = [cursor EXCEPT ![t] = to]
  BY <1>1 DEF Committed
<1>. QED
  BY <1>1, <1>2, <1>3, <1>4, <1>5, <1>6, <1>7 DEF L!Append

LEMMA RollbackTakesBack ==
  ASSUME TypeInv, IInv, Rollback \/ RollbackUnknown
  PROVE  at \in L!Indexed /\ L!TakeBack(at)
<1>1. RolledBack /\ at \in StoredHeights(blocks) /\ at \in Nat
  BY StoredType DEF Rollback, RollbackUnknown, IInv, TickInv, WalkInv, TypeInv
<1>2. at \in L!Indexed
  BY <1>1 DEF L!Indexed, StoredHeights, TypeInv, TypeOK, Caches, Height
<1>3. blocks' = [k \in 1..MaxHeight |-> IF k > at THEN NoRow ELSE blocks[k]]
  BY <1>1 DEF RolledBack, BlocksUpTo, TypeInv, TypeOK, Caches, Height
<1>4. transfers' \cup approvals' = {e \in transfers \cup approvals : e.number <= at}
  BY <1>1 DEF RolledBack, DeletedAfterBlock
<1>5. cursor' = [t \in Token |->
                   IF cursor[t] # NoRow /\ cursor[t] > at THEN at ELSE cursor[t]]
  <2>1. cursor' = [t \in Token |->
                     IF cursor[t] = NoRow THEN NoRow ELSE Least(cursor[t], at)]
    BY <1>1 DEF RolledBack, CursorRolledBack, TypeInv, TypeOK
  <2>2. \A t \in Token :
          (IF cursor[t] = NoRow THEN NoRow ELSE Least(cursor[t], at))
            = IF cursor[t] # NoRow /\ cursor[t] > at THEN at ELSE cursor[t]
    BY <1>1 DEF Least, TypeInv, TypeOK
  <2>. QED
    BY <2>1, <2>2
<1>. QED
  BY <1>2, <1>3, <1>4, <1>5 DEF L!TakeBack

LEMMA StepSimulates ==
  ASSUME TypeInv, IInv, FromFirst, [Next]_vars
  PROVE  [L!Next]_(L!ledger)
<1>1. CASE UNCHANGED <<blocks, cursor, transfers, approvals>>
  BY <1>1 DEF L!ledger
<1>2. ASSUME NEW t \in Token, Opens(t) PROVE L!Next
  <2>1. InitialCursor(StartBlock) = First - 1
    BY Constants DEF First
  <2>. QED
    BY <1>2, <2>1 DEF L!Next, L!Open, Opens
<1>3. ASSUME NEW t \in Token, Commit(t) \/ CommitUnknown(t) PROVE L!Next
  <2>1. L!Append(t, branch, from, to)
    BY <1>3, CommitAppends
  <2>2. branch \in Branch /\ from \in 1..MaxHeight /\ to \in 1..MaxHeight
    BY <1>3, CommittedBlocks DEF TypeInv, TypeOK, ChainTypeOK, Height
  <2>. QED
    BY <2>1, <2>2 DEF L!Next
<1>4. ASSUME Rollback \/ RollbackUnknown PROVE L!Next
  BY <1>4, RollbackTakesBack DEF L!Next
<1>. QED
  BY <1>1, <1>2, <1>3, <1>4, TableSteps

(* The indexer implements the ledger: whatever fails, dies or arrives late *)
(* between the steps of its ticks, the tables change only by creating a    *)
(* cursor, by a whole range of one branch with all events of a token in    *)
(* it, and by going back to a block they hold (syncer.go:153,              *)
(* handlers.go:56).                                                        *)
THEOREM Refinement == ~ReorgMidTick => (Spec => ImplementsLedger)
<1>. SUFFICES ASSUME ~ReorgMidTick PROVE Spec => ImplementsLedger
  OBVIOUS
<1>1. Init => L!Init
  BY DEF Init, NoBlocks, Height, L!Init
<1>2. TypeInv /\ IInv /\ FromFirst /\ [Next]_vars => [L!Next]_(L!ledger)
  BY StepSimulates
<1>. QED
  BY <1>1, <1>2, InductiveInvariant, FirstInvariant, PTL DEF Spec, ImplementsLedger, L!Spec

-----------------------------------------------------------------------------
(* Batches insert above what is stored of their token. *)

LEMMA DerivedSteps ==
  ASSUME [Next]_vars
  PROVE  \/ UNCHANGED <<blocks, transfers, approvals, balances, allowances>>
         \/ \E t \in Token : Commit(t) \/ CommitUnknown(t)
         \/ Rollback \/ RollbackUnknown
BY DEF Next, Step, TickStep, TokenStep, BootStep, Failure, ApiStep, ChainStep, Tick,
    WalkGap, WalkMatch, WalkMismatch, WalkNotFound, WalkExhausted, RollbackRejected,
    ListActive, EndTick, GetState, CreateState, Scan, LoadBlock, LoadNotFound, Start,
    BootDone, BootUpsert, BootGet, BootCreate, TickFails, Crash, StateFails,
    CreateUnknown, BatchFails, RegisterGet, RegisterCreate, RegisterFails, Register,
    Unregister, dbVars, rowVars, vars

\* A commit makes nothing incomplete.
LEMMA CommitKeepsIndexed ==
  ASSUME TypeInv, IInv, NEW t \in Token, Commit(t) \/ CommitUnknown(t),
         NEW u, NEW n, IsIndexed(u, n)
  PROVE  IsIndexed(u, n)'
<1>1. pc = "load" /\ n \in StoredHeights(blocks)
  BY DEF Commit, CommitUnknown, IsIndexed
<1>2. n \in Height /\ blocks[n] = BlockByNumber(n) /\ blocks[n] # NoRow
  BY <1>1, StoredType DEF IInv, TickInv, CheckedInv, IsCanonical, TypeInv, StoredHeights
<1>3. blocks'[n] = blocks[n] /\ n \in StoredHeights(blocks')
  BY <1>2, CommittedBlocks DEF StoredHeights
<1>4. transfers \subseteq transfers' /\ approvals \subseteq approvals'
  BY DEF Commit, CommitUnknown, Committed
<1>. QED
  BY <1>3, <1>4 DEF IsIndexed

\* Nor does a rollback, of what it keeps.
LEMMA RollbackKeepsIndexed ==
  ASSUME TypeInv, IInv, Rollback \/ RollbackUnknown,
         NEW u, NEW n \in Nat, n <= at, IsIndexed(u, n)
  PROVE  IsIndexed(u, n)'
<1>1. RolledBack /\ n \in StoredHeights(blocks)
  BY DEF Rollback, RollbackUnknown, IsIndexed
<1>2. n \in StoredHeights(blocks') /\ blocks'[n] = blocks[n]
  BY <1>1, RollbackKeepsBlocks DEF TypeInv
<1>3. /\ \A l : Row(n, blocks[n], l) \in transfers => Row(n, blocks[n], l) \in transfers'
      /\ \A l : Row(n, blocks[n], l) \in approvals => Row(n, blocks[n], l) \in approvals'
  BY <1>1 DEF RolledBack, DeletedAfterBlock, Row
<1>. QED
  BY <1>2, <1>3 DEF IsIndexed

EventTable(table, kind) ==
  \/ table = transfers /\ kind = "transfer"
  \/ table = approvals /\ kind = "approval"

Inserted(table, kind) == NewRows(table, Decoded(logs, kind))

\* The rows a batch inserts are of its token and its range.
LEMMA InsertedRows ==
  ASSUME TypeInv, IInv, NEW t \in Token, Commit(t) \/ CommitUnknown(t),
         NEW table, NEW kind, NEW r \in Inserted(table, kind)
  PROVE  /\ r \in RowSet /\ r.log.token = t /\ r.log.kind = kind
         /\ r.number \in from..to
         /\ r = Row(r.number, BlockByNumber(r.number), r.log)
         /\ r.log \in LogsIn[BlockByNumber(r.number)]
<1>1. pc = "load" /\ logs = FilterLogs(t, from, to)
  BY DEF Commit, CommitUnknown, IInv, TickInv, BatchInv
<1>2. r \in logs /\ r.log.kind = kind
  BY DEF Inserted, NewRows, Decoded
<1>3. PICK n \in from..to : \E l \in LogsIn[BlockByNumber(n)] :
        l.token = t /\ r = Row(n, BlockByNumber(n), l)
  BY <1>1, <1>2 DEF FilterLogs
<1>4. PICK l \in LogsIn[BlockByNumber(n)] : l.token = t /\ r = Row(n, BlockByNumber(n), l)
  BY <1>3
<1>5. r \in RowSet
  BY <1>2 DEF TypeInv, TypeOK
<1>. QED
  BY <1>2, <1>4, <1>5 DEF Row

LEMMA InsertedAbove ==
  ASSUME TypeInv, IInv, FromFirst, RowsReachBack,
         NEW t \in Token, Commit(t) \/ CommitUnknown(t),
         NEW table, NEW kind, EventTable(table, kind),
         NEW r \in Inserted(table, kind), NEW s \in table, s.log.token = t
  PROVE  s.number < r.number
<1>1. /\ r \in RowSet /\ r.log.token = t /\ r.log.kind = kind /\ r.number \in from..to
      /\ r = Row(r.number, BlockByNumber(r.number), r.log)
      /\ r.log \in LogsIn[BlockByNumber(r.number)]
  BY InsertedRows
<1>2. s \in RowSet /\ s \in transfers \cup approvals
  BY DEF EventTable, TypeInv, TypeOK
<1>3. r.number \in Nat /\ s.number \in Nat /\ First \in Nat
  BY <1>1, <1>2, Constants DEF RowSet, Height, First
<1>4. pc = "load" /\ First <= from /\ from \in Nat
  BY DEF Commit, CommitUnknown, FromFirst, TypeInv, TypeOK
<1>5. SUFFICES ASSUME r.number <= s.number PROVE FALSE
  BY <1>3
<1>6. r.number \in First..s.number
  BY <1>1, <1>3, <1>4, <1>5
<1>7. IsIndexed(t, r.number)
  BY <1>2, <1>6 DEF RowsReachBack
<1>8. blocks[r.number] = BlockByNumber(r.number)
  BY <1>4, <1>7 DEF IsIndexed, IInv, TickInv, CheckedInv, IsCanonical
<1>9. r \in table
  BY <1>1, <1>7, <1>8 DEF IsIndexed, EventTable
<1>10. SameKey(r, r)
  BY DEF SameKey
<1>. QED
  BY <1>9, <1>10 DEF Inserted, NewRows

LEMMA ReachBackStep ==
  ASSUME TypeInv, IInv, IInv', FromFirst, RowsReachBack, [Next]_vars
  PROVE  RowsReachBack'
<1>1. CASE UNCHANGED <<blocks, transfers, approvals, balances, allowances>>
  BY <1>1 DEF RowsReachBack, IsIndexed
<1>2. ASSUME NEW t \in Token, Commit(t) \/ CommitUnknown(t)
      PROVE  RowsReachBack'
  <2>1. SUFFICES ASSUME NEW r \in transfers' \cup approvals',
                        NEW n \in First..r.number
                 PROVE  IsIndexed(r.log.token, n)'
    BY <2>1 DEF RowsReachBack
  <2>2. CASE r \in transfers \cup approvals
    BY <1>2, <2>1, <2>2, CommitKeepsIndexed DEF RowsReachBack
  <2>3. ASSUME NEW table, NEW kind, r \in Inserted(table, kind)
        PROVE  IsIndexed(r.log.token, n)'
    <3>1. r.log.token = t /\ r.number \in from..to /\ r.number \in Nat
      BY <1>2, <2>3, InsertedRows DEF RowSet, Height
    <3>2. cursor'[t] = to /\ to \in Nat
      BY <1>2 DEF Commit, CommitUnknown, Committed, TypeInv, TypeOK
    <3>3. n \in First..cursor'[t]
      BY <2>1, <3>1, <3>2, Constants DEF First
    <3>4. cursor'[t] # NoRow
      BY <3>2, Constants
    <3>5. NoMissingRows'
      BY DEF IInv, TablesInv
    <3>. QED
      BY <3>1, <3>3, <3>4, <3>5 DEF NoMissingRows
  <2>4. \/ r \in transfers \cup approvals
        \/ r \in Inserted(transfers, "transfer")
        \/ r \in Inserted(approvals, "approval")
    BY <1>2, <2>1 DEF Commit, CommitUnknown, Committed, Inserted
  <2>. QED
    BY <2>2, <2>3, <2>4
<1>3. ASSUME Rollback \/ RollbackUnknown
      PROVE  RowsReachBack'
  <2>1. SUFFICES ASSUME NEW r \in transfers' \cup approvals',
                        NEW n \in First..r.number
                 PROVE  IsIndexed(r.log.token, n)'
    BY <2>1 DEF RowsReachBack
  <2>2. r \in transfers \cup approvals /\ r.number <= at
    BY <1>3, <2>1 DEF Rollback, RollbackUnknown, RolledBack, DeletedAfterBlock
  <2>3. r.number \in Nat /\ at \in Nat
    BY <2>2, Constants DEF TypeInv, TypeOK, RowSet, Height
  <2>4. n \in Nat /\ n <= at
    BY <2>1, <2>2, <2>3, Constants DEF First
  <2>5. IsIndexed(r.log.token, n)
    BY <2>1, <2>2 DEF RowsReachBack
  <2>. QED
    BY <1>3, <2>4, <2>5, RollbackKeepsIndexed
<1>. QED
  BY <1>1, <1>2, <1>3, DerivedSteps

-----------------------------------------------------------------------------
(* The allowances *)

\* The latest of some rows are among those that come after the others.
LEMMA LatestAbove ==
  ASSUME NEW A, NEW B, A \subseteq RowSet, B \subseteq RowSet, B # {},
         \A s \in A : \A r \in B : s.number < r.number
  PROVE  Latest(A \cup B) = Latest(B)
<1>1. \A r \in A \cup B : r.number \in Nat
  BY DEF RowSet, Height
<1>2. \A s \in A : \A r \in B : NotAfter(s, r) /\ ~NotAfter(r, s)
  BY <1>1 DEF NotAfter
<1>. QED
  BY <1>2 DEF Latest

LEMMA AllowancesStep ==
  ASSUME TypeInv, IInv, FromFirst, RowsReachBack, AllowancesMatchApprovals, [Next]_vars
  PROVE  AllowancesMatchApprovals'
<1>1. CASE UNCHANGED <<blocks, transfers, approvals, balances, allowances>>
  BY <1>1 DEF AllowancesMatchApprovals
<1>2. CASE Rollback \/ RollbackUnknown
  <2>1. allowances' = AllowancesRebuilt(allowances, approvals')
    BY <1>2 DEF Rollback, RollbackUnknown, RolledBack
  <2>2. DOMAIN allowances' = DOMAIN allowances
    BY <2>1 DEF AllowancesRebuilt
  <2>. QED
    BY <2>1, <2>2 DEF AllowancesMatchApprovals, AllowancesRebuilt
<1>3. ASSUME NEW t \in Token, Commit(t) \/ CommitUnknown(t)
      PROVE  AllowancesMatchApprovals'
  <2>. DEFINE new == Inserted(approvals, "approval")
  <2>1. /\ approvals' = approvals \cup new
        /\ allowances' = AllowancesApplied(allowances, new)
    BY <1>3 DEF Commit, CommitUnknown, Committed, Inserted
  <2>2. new \subseteq RowSet /\ approvals \subseteq RowSet
    BY <1>3, InsertedRows DEF TypeInv, TypeOK
  <2>3. ASSUME NEW s \in approvals, NEW r \in new, s.log.token = r.log.token
        PROVE  s.number < r.number
    <3>1. r.log.token = t /\ EventTable(approvals, "approval")
      BY <1>3, <2>3, InsertedRows DEF EventTable
    <3>. QED
      BY <1>3, <2>3, <3>1, InsertedAbove
  <2>. HIDE DEF new
  <2>4. ASSUME NEW k \in DOMAIN allowances
        PROVE  allowances'[k] = IF ApprovalsOf(approvals', k) = {} THEN NoRow
                                ELSE AllowanceRow(ApprovalsOf(approvals', k))
    <3>. DEFINE A == ApprovalsOf(approvals, k)
                B == ApprovalsOf(new, k)
    <3>1. ApprovalsOf(approvals', k) = A \cup B
      BY <2>1 DEF ApprovalsOf
    <3>2. allowances[k] = IF A = {} THEN NoRow ELSE AllowanceRow(A)
      BY <2>4 DEF AllowancesMatchApprovals, AllowancesRebuilt
    <3>3. allowances'[k] = IF B = {} THEN allowances[k] ELSE AllowanceRow(B)
      BY <2>1, <2>4 DEF AllowancesApplied
    <3>4. /\ A \subseteq RowSet /\ B \subseteq RowSet
          /\ \A s \in A : \A r \in B : s.number < r.number
      BY <2>2, <2>3 DEF ApprovalsOf
    <3>. HIDE DEF A, B
    <3>5. CASE B = {}
      BY <3>1, <3>2, <3>3, <3>5
    <3>6. CASE B # {}
      <4>1. Latest(A \cup B) = Latest(B)
        BY <3>4, <3>6, LatestAbove
      <4>2. AllowanceRow(A \cup B) = AllowanceRow(B)
        BY <4>1 DEF AllowanceRow
      <4>. QED
        BY <3>1, <3>3, <3>6, <4>2
    <3>. QED
      BY <3>5, <3>6
  <2>5. DOMAIN allowances' = DOMAIN allowances
    BY <2>1 DEF AllowancesApplied
  <2>6. allowances' = [k \in DOMAIN allowances' |-> allowances'[k]]
    BY <2>1 DEF AllowancesApplied
  <2>. QED
    BY <2>4, <2>5, <2>6 DEF AllowancesMatchApprovals, AllowancesRebuilt
<1>. QED
  BY <1>1, <1>2, <1>3, DerivedSteps

(* Every allowance is the value of the latest stored approval of its owner *)
(* and spender, although SetAllowance (balance_repo.go:36) overwrites      *)
(* whatever row there is: a batch that repeats blocks inserts, and so      *)
(* overwrites with, nothing that is older than what is stored.             *)
THEOREM AllowancesMatch == ~ReorgMidTick => (Spec => []AllowancesMatchApprovals)
<1>. SUFFICES ASSUME ~ReorgMidTick PROVE Spec => []AllowancesMatchApprovals
  OBVIOUS
<1>1. Init => RowsReachBack /\ AllowancesMatchApprovals
  <2>. SUFFICES ASSUME Init PROVE RowsReachBack /\ AllowancesMatchApprovals
    OBVIOUS
  <2>1. \A k : ApprovalsOf(approvals, k) = {}
    BY DEF Init, ApprovalsOf
  <2>2. AllowancesMatchApprovals
    BY <2>1 DEF Init, AllowancesMatchApprovals, AllowancesRebuilt
  <2>. QED
    BY <2>2 DEF Init, RowsReachBack
<1>2. /\ TypeInv /\ IInv /\ TypeInv' /\ IInv' /\ [Next]_vars
      /\ FromFirst /\ RowsReachBack /\ AllowancesMatchApprovals
      => RowsReachBack' /\ AllowancesMatchApprovals'
  BY ReachBackStep, AllowancesStep
<1>. QED
  BY <1>1, <1>2, InductiveInvariant, FirstInvariant, PTL DEF Spec

-----------------------------------------------------------------------------
(* Totals *)

LEMMA RowValue ==
  ASSUME NEW r \in RowSet
  PROVE  r.log.val \in Int /\ r.log.val \in Nat
BY LogAssumption DEF RowSet

LEMMA TotalUnion ==
  ASSUME NEW A, NEW B, A \subseteq RowSet, B \subseteq RowSet,
         IsFiniteSet(A), IsFiniteSet(B), A \cap B = {}
  PROVE  /\ Total(A) \in Int /\ Total(B) \in Int
         /\ Total(A \cup B) = Total(A) + Total(B)
         /\ A = {} => Total(A) = 0
<1> DEFINE v == [r \in A \cup B |-> r.log.val]
<1>1. \A r \in A \cup B : v[r] \in Int
  BY RowValue
<1>2. ASSUME NEW R, R \subseteq A \cup B, IsFiniteSet(R)
      PROVE  Total(R) = SumFunctionOnSet(v, R)
  <2> DEFINE w == [r \in R |-> r.log.val]
  <2>1. Total(R) = SumFunctionOnSet(w, R)
    BY DEF Total, SumFunction
  <2>2. \A r \in R : v[r] \in Int /\ w[r] = v[r]
    BY <1>1, <1>2
  <2> HIDE DEF v, w
  <2>3. SumFunctionOnSet(w, R) = SumFunctionOnSet(v, R)
    BY <1>2, <2>2, SumSame
  <2> QED BY <2>1, <2>3
<1> HIDE DEF v
<1>3. /\ Total(A) = SumFunctionOnSet(v, A) /\ Total(B) = SumFunctionOnSet(v, B)
      /\ Total(A \cup B) = SumFunctionOnSet(v, A \cup B)
  BY <1>2, FS_Union
<1>4. SumFunctionOnSet(v, A \cup B) = SumFunctionOnSet(v, A) + SumFunctionOnSet(v, B)
  BY <1>1, SumUnion
<1>5. /\ SumFunctionOnSet(v, A) \in Int /\ SumFunctionOnSet(v, {}) = 0
      /\ SumFunctionOnSet(v, B) \in Int
  <2>1. (\A r \in A : v[r] \in Int) /\ \A r \in B : v[r] \in Int
    BY <1>1
  <2> QED BY <2>1, SumStep
<1> QED BY <1>3, <1>4, <1>5

\* The delta of a batch is what it credits less what it debits.
LEMMA DeltaIsNet ==
  ASSUME NEW rows, rows \subseteq RowSet, IsFiniteSet(rows), NEW k
  PROVE  NetDelta(Credits(rows, k) \cup Debits(rows, k), k)
           = Total(Credits(rows, k)) - Total(Debits(rows, k))
<1> DEFINE C == Credits(rows, k)
           D == Debits(rows, k)
           R == C \cup D
           f == [r \in R |-> IF r.log.dst = k.holder THEN r.log.val ELSE 0]
           g == [r \in R |-> IF r.log.src = k.holder THEN r.log.val ELSE 0]
           h == [r \in R |-> (IF r.log.dst = k.holder THEN r.log.val ELSE 0)
                           - (IF r.log.src = k.holder THEN r.log.val ELSE 0)]
           c == [r \in C |-> r.log.val]
           d == [r \in D |-> r.log.val]
<1>1. C \subseteq rows /\ D \subseteq rows /\ R \subseteq rows
  BY DEF Credits, Debits
<1>2. IsFiniteSet(R)
  <2> HIDE DEF R
  <2> QED BY <1>1, FS_Subset
<1>3. \A r \in R : r.log.val \in Int
  <2> HIDE DEF R
  <2> QED BY <1>1, RowValue
<1>4. \A r \in R : f[r] \in Int /\ g[r] \in Int /\ h[r] = f[r] - g[r]
  <2> HIDE DEF R
  <2> QED BY <1>3
<1>5. NetDelta(R, k) = SumFunctionOnSet(h, R)
  BY DEF NetDelta, SumFunction
<1>6. Total(C) = SumFunctionOnSet(c, C) /\ Total(D) = SumFunctionOnSet(d, D)
  BY DEF Total, SumFunction
<1>7. /\ \A r \in C : c[r] \in Int /\ f[r] = c[r]
      /\ \A r \in R \ C : f[r] = 0
  BY <1>3 DEF Credits, Debits
<1>8. /\ \A r \in D : d[r] \in Int /\ g[r] = d[r]
      /\ \A r \in R \ D : g[r] = 0
  BY <1>3 DEF Credits, Debits
<1>9. C \in SUBSET R /\ D \in SUBSET R
  OBVIOUS
<1> HIDE DEF R, f, g, h, c, d
<1>10. SumFunctionOnSet(h, R) = SumFunctionOnSet(f, R) - SumFunctionOnSet(g, R)
  BY <1>2, <1>4, SumDifference
<1>11. SumFunctionOnSet(f, R) = SumFunctionOnSet(c, C)
  BY <1>2, <1>7, <1>9, SumOfPart
<1>12. SumFunctionOnSet(g, R) = SumFunctionOnSet(d, D)
  BY <1>2, <1>8, <1>9, SumOfPart
<1>13. NetDelta(R, k) = Total(C) - Total(D)
  BY <1>5, <1>6, <1>10, <1>11, <1>12
<1> QED BY <1>13 DEF R

\* The highest block of rows, some of which come after all others.
LEMMA MaxBlockAbove ==
  ASSUME NEW A, NEW B, A \subseteq RowSet, B \subseteq RowSet, B # {},
         \A s \in A : \A r \in B : s.number < r.number
  PROVE  MaxBlock(A \cup B) = MaxBlock(B)
<1> DEFINE M == {r.number : r \in A \cup B}
           N == {r.number : r \in B}
<1>1. M \in SUBSET 0..MaxHeight /\ N \in SUBSET 0..MaxHeight /\ M # {} /\ N # {}
  BY Constants DEF RowSet, Height
<1>2. N \subseteq M /\ \A m \in M \ N : \A n \in N : m < n
  OBVIOUS
<1>3. MaxBlock(A \cup B) = Max(M) /\ MaxBlock(B) = Max(N)
  BY DEF MaxBlock
<1> HIDE DEF M, N
<1>4. Max(M) \in M /\ \A n \in M : n <= Max(M)
  BY <1>1, Greatest, Constants
<1>5. Max(N) \in N /\ \A n \in N : n <= Max(N)
  BY <1>1, Greatest, Constants
<1>6. \A n \in M \cup N : n \in Int
  BY <1>1
<1>7. Max(M) = Max(N)
  BY <1>2, <1>4, <1>5, <1>6
<1> QED BY <1>3, <1>7

LEMMA SomeBlock ==
  ASSUME NEW A, A \subseteq RowSet, A # {}
  PROVE  MaxBlock(A) \in Nat
<1> DEFINE M == {r.number : r \in A}
<1>1. M \in SUBSET 0..MaxHeight /\ M # {}
  BY Constants DEF RowSet, Height
<1>2. MaxBlock(A) = Max(M)
  BY DEF MaxBlock
<1> HIDE DEF M
<1>3. Max(M) \in M
  BY <1>1, Greatest, Constants
<1>4. \A n \in M : n \in Nat
  BY <1>1
<1> QED BY <1>2, <1>3, <1>4

\* The logs of the indexed blocks are finitely many.
LEMMA TableFinite ==
  ASSUME NEW b \in Caches, NEW table, table \subseteq RowSet,
         \A r \in table : r.hash = b[r.number] /\ r.log \in LogsIn[r.hash]
  PROVE  IsFiniteSet(table)
<1> DEFINE rows(n, h) == {Row(n, h, l) : l \in LogsIn[h]}
           at_ == [n \in Height |-> IF b[n] \in Hash THEN rows(n, b[n]) ELSE {}]
<1>1. ASSUME NEW n \in Height, NEW h \in Hash
      PROVE  IsFiniteSet(rows(n, h))
  <2> DEFINE f == [l \in LogsIn[h] |-> Row(n, h, l)]
  <2>1. f \in [LogsIn[h] -> {f[l] : l \in LogsIn[h]}]
    OBVIOUS
  <2>2. IsFiniteSet(LogsIn[h])
    BY LogAssumption
  <2>3. rows(n, h) = {f[l] : l \in LogsIn[h]}
    OBVIOUS
  <2> HIDE DEF f
  <2> QED BY <2>1, <2>2, <2>3, ImageFinite
<1>2. \A n \in Height : IsFiniteSet(at_[n])
  <2> HIDE DEF rows
  <2> QED BY <1>1, FS_EmptySet
<1> DEFINE F == {at_[n] : n \in Height}
<1>3. IsFiniteSet(F)
  <2>1. at_ \in [Height -> {at_[n] : n \in Height}]
    OBVIOUS
  <2>2. IsFiniteSet(Height)
    BY Constants, FS_Interval DEF Height
  <2> HIDE DEF at_
  <2> QED BY <2>1, <2>2, ImageFinite
<1>4. IsFiniteSet(UNION F)
  <2>1. \A T \in F : IsFiniteSet(T)
    <3> HIDE DEF at_
    <3> QED BY <1>2
  <2> HIDE DEF F
  <2> QED BY <1>3, <2>1, FS_UNION
<1>5. table \subseteq UNION F
  <2> SUFFICES ASSUME NEW r \in table PROVE \E n \in Height : r \in at_[n]
    OBVIOUS
  <2>1. /\ r = [number |-> r.number, hash |-> r.hash, log |-> r.log]
        /\ r.number \in Height /\ r.hash \in Hash
        /\ r.hash = b[r.number] /\ r.log \in LogsIn[r.hash]
    BY DEF RowSet
  <2>2. r \in rows(r.number, r.hash)
    BY <2>1 DEF Row
  <2> QED BY <2>1, <2>2
<1> HIDE DEF F
<1> QED BY <1>4, <1>5, FS_Subset

-----------------------------------------------------------------------------
(* The balances *)

BalanceRow(table, k) ==
  IF Credits(table, k) \cup Debits(table, k) = {} THEN NoRow
  ELSE [amount |-> Total(Credits(table, k)) - Total(Debits(table, k)),
        block  |-> MaxBlock(Credits(table, k) \cup Debits(table, k))]

AppliedRow(row, inserted, k) ==
  LET rows  == Credits(inserted, k) \cup Debits(inserted, k)
      delta == NetDelta(rows, k)
  IN  IF rows = {} THEN row
      ELSE IF delta >= 0
           THEN Added(row, delta, MaxBlock(rows))
           ELSE Subtracted(row, -delta, MaxBlock(rows))

LEMMA MovesType ==
  ASSUME NEW table, table \subseteq RowSet, IsFiniteSet(table), NEW k
  PROVE  /\ Credits(table, k) \subseteq table /\ Debits(table, k) \subseteq table
         /\ Credits(table, k) \subseteq RowSet /\ Debits(table, k) \subseteq RowSet
         /\ IsFiniteSet(Credits(table, k)) /\ IsFiniteSet(Debits(table, k))
<1>1. Credits(table, k) \subseteq table /\ Debits(table, k) \subseteq table
  BY DEF Credits, Debits
<1>. QED
  BY <1>1, FS_Subset

\* Rows that come after all the others of their token are added to the row
\* of a holder by their net value, provided that the row does not begin with
\* more debits than credits.
LEMMA RowAdded ==
  ASSUME NEW old, NEW new, old \subseteq RowSet, new \subseteq RowSet,
         IsFiniteSet(old), IsFiniteSet(new), NEW k,
         \A s \in old : \A r \in new :
           s.log.token = r.log.token => s.number < r.number,
         Credits(old, k) \cup Debits(old, k) = {} =>
           Total(Debits(new, k)) <= Total(Credits(new, k))
  PROVE  AppliedRow(BalanceRow(old, k), new, k) = BalanceRow(old \cup new, k)
<1>. DEFINE C == Credits(old, k)
            D == Debits(old, k)
            c == Credits(new, k)
            d == Debits(new, k)
            row == BalanceRow(old, k)
            delta == NetDelta(c \cup d, k)
<1>1. /\ C \subseteq RowSet /\ D \subseteq RowSet /\ c \subseteq RowSet /\ d \subseteq RowSet
      /\ IsFiniteSet(C) /\ IsFiniteSet(D) /\ IsFiniteSet(c) /\ IsFiniteSet(d)
  BY MovesType
<1>2. Credits(old \cup new, k) = C \cup c /\ Debits(old \cup new, k) = D \cup d
  BY DEF Credits, Debits
<1>3. \A s \in C \cup D : \A r \in c \cup d : s.number < r.number
  BY DEF Credits, Debits
<1>4. \A r \in RowSet : r.number \in Nat
  BY DEF RowSet, Height
<1>5. C \cap c = {} /\ D \cap d = {}
  BY <1>1, <1>3, <1>4
<1>6. row = IF C \cup D = {} THEN NoRow
            ELSE [amount |-> Total(C) - Total(D), block |-> MaxBlock(C \cup D)]
  BY DEF BalanceRow
<1>7. BalanceRow(old \cup new, k)
        = IF (C \cup c) \cup (D \cup d) = {} THEN NoRow
          ELSE [amount |-> Total(C \cup c) - Total(D \cup d),
                block  |-> MaxBlock((C \cup c) \cup (D \cup d))]
  BY <1>2 DEF BalanceRow
<1>8. AppliedRow(row, new, k)
        = IF c \cup d = {} THEN row
          ELSE IF delta >= 0
               THEN [amount |-> IF row = NoRow THEN delta ELSE row.amount + delta,
                     block  |-> MaxBlock(c \cup d)]
               ELSE [amount |-> IF row = NoRow THEN -delta ELSE row.amount - (-delta),
                     block  |-> MaxBlock(c \cup d)]
  BY DEF AppliedRow, Added, Subtracted
<1>9. delta = Total(c) - Total(d)
  BY DeltaIsNet
<1>10. C \cup D = {} => Total(d) <= Total(c)
  OBVIOUS
<1>. HIDE DEF C, D, c, d, row, delta
<1>11. /\ Total(C) \in Int /\ Total(c) \in Int /\ Total(C \cup c) = Total(C) + Total(c)
       /\ C = {} => Total(C) = 0
  BY <1>1, <1>5, TotalUnion
<1>12. /\ Total(D) \in Int /\ Total(d) \in Int /\ Total(D \cup d) = Total(D) + Total(d)
       /\ D = {} => Total(D) = 0
  BY <1>1, <1>5, TotalUnion
<1>13. CASE c \cup d = {}
  <2>1. C \cup c = C /\ D \cup d = D
    BY <1>13
  <2>. QED
    BY <1>6, <1>7, <1>8, <1>13, <2>1 DEF row
<1>14. CASE c \cup d # {}
  <2>1. MaxBlock((C \cup c) \cup (D \cup d)) = MaxBlock(c \cup d)
    <3>1. (C \cup c) \cup (D \cup d) = (C \cup D) \cup (c \cup d)
      OBVIOUS
    <3>2. MaxBlock((C \cup D) \cup (c \cup d)) = MaxBlock(c \cup d)
      BY <1>1, <1>3, <1>14, MaxBlockAbove
    <3>. QED
      BY <3>1, <3>2
  <2>2. BalanceRow(old \cup new, k)
          = [amount |-> (Total(C) + Total(c)) - (Total(D) + Total(d)),
             block  |-> MaxBlock(c \cup d)]
    BY <1>7, <1>11, <1>12, <1>14, <2>1
  <2>3. CASE C \cup D = {}
    <3>1. row = NoRow /\ delta >= 0
      BY <1>6, <1>9, <1>10, <1>11, <1>12, <2>3
    <3>2. AppliedRow(row, new, k) = [amount |-> delta, block |-> MaxBlock(c \cup d)]
      BY <1>8, <1>14, <3>1
    <3>3. delta = (Total(C) + Total(c)) - (Total(D) + Total(d))
      BY <1>9, <1>11, <1>12, <2>3
    <3>. QED
      BY <2>2, <3>2, <3>3 DEF row
  <2>4. CASE C \cup D # {}
    <3>1. row = [amount |-> Total(C) - Total(D), block |-> MaxBlock(C \cup D)]
      BY <1>6, <2>4
    <3>2. row # NoRow
      <4>1. MaxBlock(C \cup D) \in Nat
        BY <1>1, <2>4, SomeBlock
      <4>2. Total(C) - Total(D) \in Int
        BY <1>11, <1>12
      <4>. QED
        BY <3>1, <4>1, <4>2, SyncerAssumption
    <3>3. row.amount = Total(C) - Total(D)
      BY <3>1
    <3>4. AppliedRow(row, new, k)
            = IF delta >= 0
              THEN [amount |-> row.amount + delta, block |-> MaxBlock(c \cup d)]
              ELSE [amount |-> row.amount - (-delta), block |-> MaxBlock(c \cup d)]
      BY <1>8, <1>14, <3>2
    <3>5. /\ row.amount + delta = (Total(C) + Total(c)) - (Total(D) + Total(d))
          /\ row.amount - (-delta) = (Total(C) + Total(c)) - (Total(D) + Total(d))
      BY <1>9, <1>11, <1>12, <3>3
    <3>. QED
      BY <2>2, <3>4, <3>5 DEF row
  <2>. QED
    BY <2>3, <2>4
<1>. QED
  BY <1>13, <1>14 DEF row

\* What a batch inserts for a holder who had no row yet is all that the
\* branch has of the holder.
LEMMA FirstMoves ==
  ASSUME TypeInv, IInv, TypeInv', IInv', FromFirst, Solvent,
         NEW t \in Token, Commit(t) \/ CommitUnknown(t),
         NEW k \in BalanceKey(Token),
         Credits(transfers, k) \cup Debits(transfers, k) = {}
  PROVE  Total(Debits(Inserted(transfers, "transfer"), k))
           <= Total(Credits(Inserted(transfers, "transfer"), k))
<1>. DEFINE new == Inserted(transfers, "transfer")
            T == TransfersOn(branch, to)
<1>1. /\ pc = "load" /\ pc' = "get" /\ cursor'[t] = to /\ transfers' = transfers \cup new
      /\ UNCHANGED chainVars
  BY DEF Commit, CommitUnknown, TokenDone, Committed, TypeInv, TypeOK, Inserted
<1>2. to \in Height /\ to \in Nat /\ branch \in Branch
  BY CommittedBlocks DEF TypeInv, TypeOK, ChainTypeOK
<1>3. First \in Nat /\ 1 <= First /\ First <= from /\ from \in Nat
  BY <1>1, Constants DEF First, FromFirst, TypeInv, TypeOK
<1>4. new \subseteq T
  <2>. SUFFICES ASSUME NEW r \in new PROVE r \in T
    OBVIOUS
  <2>1. /\ r.log.kind = "transfer" /\ r.number \in from..to
        /\ r = Row(r.number, BlockByNumber(r.number), r.log)
        /\ r.log \in LogsIn[BlockByNumber(r.number)]
    BY InsertedRows
  <2>2. r.number \in Height \cap (First..to)
    <3>1. \A m \in from..to : m \in First..to
      BY <1>2, <1>3
    <3>2. \A m \in First..to : m \in Height
      BY <1>2, <1>3, Constants DEF Height
    <3>. QED
      BY <2>1, <3>1, <3>2
  <2>. QED
    BY <2>1, <2>2 DEF TransfersOn, BlockByNumber
<1>5. \A r \in T : r.log.token = t => r \in transfers'
  <2>. SUFFICES ASSUME NEW m \in First..to, NEW l \in LogsIn[BlockOn[branch][m]],
                       l.kind = "transfer", l.token = t
                PROVE  Row(m, BlockOn[branch][m], l) \in transfers'
    BY DEF TransfersOn, Row
  <2>1. IsIndexed(t, m)'
    <3>1. cursor'[t] # NoRow /\ NoMissingRows'
      BY <1>1, <1>2, Constants DEF IInv, TablesInv
    <3>. QED
      BY <1>1, <3>1 DEF NoMissingRows
  <2>2. blocks'[m] = BlockOn[branch][m]
    <3>1. m \in StoredHeights(blocks') /\ CheckedInv'
      BY <2>1 DEF IsIndexed, IInv, TickInv
    <3>. QED
      BY <1>1, <3>1 DEF CheckedInv, IsCanonical, BlockByNumber, chainVars
  <2>. QED
    BY <2>1, <2>2 DEF IsIndexed
<1>6. \A r \in new : r.log.token = t
  BY InsertedRows
<1>. HIDE DEF T
<1>7. \A r \in transfers : ~(r.log.token = k.token /\ (r.log.dst = k.holder \/ r.log.src = k.holder))
  BY DEF Credits, Debits
<1>8. CASE k.token # t
  <2>1. Credits(new, k) = {} /\ Debits(new, k) = {}
    BY <1>6, <1>8 DEF Credits, Debits
  <2>2. Total({}) \in Int
    BY TotalUnion, FS_EmptySet
  <2>. QED
    BY <2>1, <2>2
<1>9. CASE k.token = t
  <2>1. Credits(new, k) = Credits(T, k)
    BY <1>1, <1>4, <1>5, <1>7, <1>9 DEF Credits
  <2>2. Debits(new, k) = Debits(T, k)
    BY <1>1, <1>4, <1>5, <1>7, <1>9 DEF Debits
  <2>3. Total(Debits(T, k)) <= Total(Credits(T, k))
    BY <1>2 DEF T, Solvent
  <2>. QED
    BY <2>1, <2>2, <2>3
<1>. QED
  BY <1>8, <1>9

LEMMA Rebuilt ==
  BalancesRebuilt(balances, transfers)
    = [k \in DOMAIN balances |-> BalanceRow(transfers, k)]
BY DEF BalancesRebuilt, BalanceRow

LEMMA TransfersFinite ==
  ASSUME TypeInv, IInv
  PROVE  transfers \subseteq RowSet /\ IsFiniteSet(transfers)
<1>1. /\ transfers \subseteq RowSet /\ blocks \in Caches
      /\ \A r \in transfers : r.hash = blocks[r.number] /\ r.log \in LogsIn[r.hash]
  BY DEF TypeInv, TypeOK, IInv, TablesInv, Sound
<1>. QED
  BY <1>1, TableFinite

LEMMA BalancesStep ==
  ASSUME TypeInv, IInv, TypeInv', IInv', FromFirst, Solvent, DerivedInv, [Next]_vars
  PROVE  DOMAIN balances' = BalanceKey(Token) /\ BalancesMatchTransfers'
<1>1. CASE UNCHANGED <<blocks, transfers, approvals, balances, allowances>>
  BY <1>1 DEF DerivedInv, BalancesMatchTransfers
<1>2. CASE Rollback \/ RollbackUnknown
  <2>1. balances' = BalancesRebuilt(balances, transfers')
    BY <1>2 DEF Rollback, RollbackUnknown, RolledBack
  <2>2. DOMAIN balances' = DOMAIN balances
    BY <2>1 DEF BalancesRebuilt
  <2>. QED
    BY <2>1, <2>2 DEF DerivedInv, BalancesMatchTransfers, BalancesRebuilt
<1>3. ASSUME NEW t \in Token, Commit(t) \/ CommitUnknown(t)
      PROVE  DOMAIN balances' = BalanceKey(Token) /\ BalancesMatchTransfers'
  <2>. DEFINE new == Inserted(transfers, "transfer")
  <2>1. /\ transfers' = transfers \cup new
        /\ balances' = BalancesApplied(balances, new)
    BY <1>3 DEF Commit, CommitUnknown, Committed, Inserted
  <2>2. transfers \subseteq RowSet /\ IsFiniteSet(transfers)
    BY TransfersFinite
  <2>3. new \subseteq RowSet /\ IsFiniteSet(new)
    <3>1. /\ transfers' \subseteq RowSet /\ blocks' \in Caches
          /\ \A r \in transfers' : r.hash = blocks'[r.number] /\ r.log \in LogsIn[r.hash]
      BY DEF TypeInv, TypeOK, IInv, TablesInv, Sound
    <3>2. IsFiniteSet(transfers') /\ new \subseteq transfers'
      BY <2>1, <3>1, TableFinite
    <3>. QED
      BY <1>3, <3>2, InsertedRows, FS_Subset
  <2>4. ASSUME NEW s \in transfers, NEW r \in new, s.log.token = r.log.token
        PROVE  s.number < r.number
    <3>1. r.log.token = t /\ EventTable(transfers, "transfer") /\ RowsReachBack
      BY <1>3, <2>4, InsertedRows DEF EventTable, DerivedInv
    <3>. QED
      BY <1>3, <2>4, <3>1, InsertedAbove
  <2>5. ASSUME NEW k \in BalanceKey(Token),
               Credits(transfers, k) \cup Debits(transfers, k) = {}
        PROVE  Total(Debits(new, k)) <= Total(Credits(new, k))
    BY <1>3, <2>5, FirstMoves
  <2>6. balances' = [k \in DOMAIN balances |-> AppliedRow(balances[k], new, k)]
    BY <2>1 DEF BalancesApplied, AppliedRow
  <2>7. DOMAIN balances = BalanceKey(Token) /\ DOMAIN balances' = BalanceKey(Token)
    BY <2>6 DEF DerivedInv
  <2>. HIDE DEF new
  <2>8. ASSUME NEW k \in BalanceKey(Token)
        PROVE  balances'[k] = BalanceRow(transfers', k)
    <3>1. balances[k] = BalanceRow(transfers, k)
      BY <2>7, Rebuilt DEF DerivedInv, BalancesMatchTransfers
    <3>2. AppliedRow(BalanceRow(transfers, k), new, k) = BalanceRow(transfers \cup new, k)
      BY <2>2, <2>3, <2>4, <2>5, RowAdded
    <3>. QED
      BY <2>1, <2>6, <2>7, <3>1, <3>2
  <2>9. balances' = [k \in DOMAIN balances' |-> BalanceRow(transfers', k)]
    BY <2>6, <2>7, <2>8
  <2>10. BalancesRebuilt(balances', transfers')
           = [k \in DOMAIN balances' |-> BalanceRow(transfers', k)]
    BY DEF BalancesRebuilt, BalanceRow
  <2>. QED
    BY <2>7, <2>9, <2>10 DEF BalancesMatchTransfers
<1>. QED
  BY <1>1, <1>2, <1>3, DerivedSteps

(* Every balance is what the stored transfers credit less what they debit, *)
(* also after a batch was committed without the indexer's knowledge, when  *)
(* the cursor is set back and its blocks are read again, and after a       *)
(* rollback (applyBalanceDeltas, RebuildFromTransfer).  Solvent is what a  *)
(* batch needs that gives a holder its first row: Subtract                 *)
(* (balance_repo.go:24) inserts the amount it should take away.            *)
THEOREM BalancesMatch == ~ReorgMidTick /\ Solvent => (Spec => []BalancesMatchTransfers)
<1>. SUFFICES ASSUME ~ReorgMidTick, Solvent PROVE Spec => []BalancesMatchTransfers
  OBVIOUS
<1>1. Init => DerivedInv
  <2>. SUFFICES ASSUME Init PROVE DerivedInv
    OBVIOUS
  <2>1. \A k : Credits(transfers, k) = {} /\ Debits(transfers, k) = {}
    BY DEF Init, Credits, Debits
  <2>2. BalancesMatchTransfers /\ DOMAIN balances = BalanceKey(Token)
    BY <2>1 DEF Init, BalancesMatchTransfers, BalancesRebuilt
  <2>. QED
    BY <2>2 DEF Init, DerivedInv, RowsReachBack
<1>2. /\ TypeInv /\ IInv /\ TypeInv' /\ IInv' /\ [Next]_vars /\ FromFirst /\ DerivedInv
      => DerivedInv'
  BY ReachBackStep, BalancesStep DEF DerivedInv
<1>3. DerivedInv => BalancesMatchTransfers
  BY DEF DerivedInv
<1>. QED
  BY <1>1, <1>2, <1>3, InductiveInvariant, FirstInvariant, PTL DEF Spec

=============================================================================
