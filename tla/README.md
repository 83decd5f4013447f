# erc20-indexer: a TLA+ verification project

The repository indexes ERC-20 events. An *indexer* process polls an Ethereum
node, finds and undoes reorganisations, scans the logs of each active token in
batches and keeps six PostgreSQL tables. An *API* process reads those tables
and writes two of them when a token is registered or unregistered. Nothing but
the database connects the two processes.

This project models the parts that are hard to test: the indexer against a chain
that reorganises, calls that fail, commits whose answer is lost, crashes, and
requests of the API that write at the same time; the goroutines that fetch
blocks under a rate limit; the API with its pool, timeouts and shutdown; and
clients that page through lists that change. It checks them with TLC and proves
their safety properties with TLAPS, for every size of the instances.

## 1. Inventory

| component | state | operations | promises |
|---|---|---|---|
| Syncer (`internal/indexer/syncer.go`) | the locals of a tick | `Run`, `bootstrapTokens`, `syncOnce`, `handleReorg`, `syncToken`, `loadBlocks`, `commitBatch` | the tables are those of one branch, complete up to each cursor, nothing counted twice; it catches up when left alone |
| ReorgDetector (`reorg.go`) | `n`, `mismatched` | `FindRollbackBlock` | the highest common block, or "nothing changed" only when nothing did |
| loadBlocks (`syncer.go`) | goroutines, semaphore, results channel | one load per batch | blocks in order or an error; every goroutine ends; nothing is sent on a closed channel |
| BatchSizer (`batch_sizer.go`) | size and successes per token | `NextRange`, `RecordSuccess`, `RecordFailure` | sizes in bounds; ranges that tile the chain below the safe head |
| BatchApplier, Decoder (`batch_applier.go`, `decoder.go`) | none | `Apply`, `DecodedTransfer`, `DecodedApproval` | balances and allowances follow the rows really inserted |
| Storage (`internal/storage`, `migrations`) | the tables | one method per statement, `WithTx` | keys, idempotent inserts, rebuilds that agree with the increments |
| API (`internal/api`) | requests in flight | `RegisterToken`, `UnregisterToken`, reads, paged lists | what a client was told stays true, with named exceptions; no cursor without a token; every handler returns; pages that skip nothing |
| Chain client (`internal/chain`) | next free slot of each limiter | `LatestBlockNumber`, `BlockByNumber`, `FetchLogs`, `ERC20Metadata`, limiter, backoff | slots an interval apart; bounded attempts and waits |
| Application, commands (`internal/app`, `cmd`) | processes, connection pool | start, shutdown | connections come back; a shutdown that closes the pool under a request leaves no half registration with a cursor; the process ends |
| Configuration, logging, models, address helpers | none | - | - |

Interaction: `syncOnce` calls the node for its head, the database and the node
in turn for the walk of `FindRollbackBlock`, the database for the rollback
transaction and for the list of tokens; then for each token the database
(`GetOrCreate`), the node (logs, then one request per block) and the database
(`commitBatch`, one transaction). Every arrow between these is a point where
something else can happen. The hard behaviours are:

* the node reorganises between any two requests, and nothing compares parent
  hashes or the block hash of a log: consistency rests on the confirmations and
  on `handleReorg` at the start of a tick;
* `indexed_blocks` is shared by tokens that stand at different cursors;
* a commit can succeed while its caller is told, or never lives to hear, that
  it failed - then the batch is scanned again;
* `GetOrCreate` reads and upserts without a lock, in two processes;
* balances and allowances are kept by increments in one place and rebuilt from
  the event tables in another: the two must agree;
* the rollback is the only way forward after a reorganisation, and an error in
  the walk repeats at every tick;
* `loadBlocks` returns at the first error while its launcher goes on fetching,
  beside the walk and the batch of the next tick, which use the same
  `BlockFetcher` and so the same rate limiter;
* a request whose time is up ends with an error while its statement may still be
  made, also after a later request has been answered;
* a shutdown out of time closes the client of the node and then the pool under
  the requests it did not wait for; the pool's `Close` waits without a timeout;
* lists are paged by offset while rows are inserted at their head or deleted.

`PROJECT.json` lists each hazard at its line with the properties that cover it.

## 2. Modules

| module | models | correspondence |
|---|---|---|
| `Chain` | the node as `internal/chain` uses it | a constant block tree `BlockOn[branch][height]`, the canonical `branch` and `head`; `Mine`, `SwitchTo`; the three answers. `LinkAssumption`: a hash determines its ancestors. `LogAssumption`: (tx, log index) is unique on a branch - but the same transaction may sit elsewhere on another one |
| `Storage` | `internal/storage` | one operator per SQL statement, from table to table |
| `BatchApplier` | `batch_applier.go`, `decoder.go` | decoding by the kind of a log; net deltas; latest approvals |
| `BatchSizer` | `batch_sizer.go` | all methods, with Go's arithmetic modulo `Word`; an actions module of its own that `Syncer` uses |
| `SizerHistory` | `batch_sizer.go` by itself | `BatchSizer` with what was recorded of each token since its last failure, and what the sizes and ranges say of it |
| `Syncer` | `syncer.go`, `reorg.go`, the two writing handlers, composed with all of the above | one action per remote call; `pc` is the call that comes next |
| `SyncerInvariant` | - | the inductive invariant `IInv`, what balances and allowances need besides, and the invariants that hold whatever the node does (`CoverInv`, `FromFirst`, `CursorInv`) |
| `Ledger` | what readers of the tables may rely on | an abstract specification without ticks, batches, failures: open a token, append a whole range of one branch, take back to an indexed block |
| `SyncerRefinement` | - | `ImplementsLedger`: `Syncer` under the mapping `events <- transfers \cup approvals` |
| `RateLimiter` | `rate_limiter.go`, `retry.go` | reservations and backoff as functions of moments counted from now |
| `Loader` | `loadBlocks`, `BlockFetcher.BlockByNumber`, `wait`, `sleepBackOff` | one `pc` per worker and one for the walk of `FindRollbackBlock`; the launcher, the caller and the two channels of each load; several loads, one after another |
| `TokenTable` | `token_repo.go` | the statements on `tokens`, with the set of metadata fields that are known |
| `Api` | `handlers.go`, `router.go`, `erc20.go`, `app/api.go`, `cmd/api`, and `bootstrapTokens` as the other writer | one action per call of a request (read, acquire, execute), the pool, the phases of the shutdown |
| `Pages` | `pagination`, the three paged lists | one client's pages of a list of one token, between commits and rollbacks |
| `SyncerProperties`, `LoaderProperties`, `ApiProperties`, `PagesProperties` | - | type invariants, safety, step and liveness properties |
| `LoaderInvariant`, `ApiInvariant`, `PagesInvariant` | - | the inductive invariants of the three |
| `BatchSizerProofs`, `SizerHistoryProofs`, `SyncerProofs`, `LedgerProofs`, `LoaderProofs`, `ApiProofs`, `PagesProofs` | - | the theorems |
| `RecursionProofs` | - | lemmas several of them need: recursive functions exist, sums over finite sets |
| `MCSyncer`, `MCLoader`, `MCApi`, `MCPages` | - | instances for TLC |

What is atomic. A request to the node, a statement, and a transaction are one
step each; everything between two of them is local and belongs to the step of
the call before or after it. Two reads are merged with a neighbour because no
one else writes what they read: the latest number and the stored hash in
`indexed_blocks`. `loadBlocks` starts a goroutine per block, but its semaphore
holds one, so that the requests are made in order, one step each; `Loader`
shows that (`OneBlockAtATime`, `AnswerComplete`) and what the step abstracts.
In `Loader` a step is one channel operation, one critical section of the limiter
or one call; in `Api` one call to the node, to the pool or to the database.

Failures. Every call may fail at any point (`TickFails`, `StateFails`,
`BatchFails`), and every transaction, and the upsert of `GetOrCreate`, may have
taken effect although the caller sees an error (`RollbackUnknown`,
`CommitUnknown`, `CreateUnknown`). `Crash` at any point loses the locals and the
batch sizes. A bootstrap error ends `Run`, so it is a `Crash`. `RecordFailure`
belongs to the action where the code calls it: a failing `GetOrCreate` does not
shrink the batch, a failing scan, load or commit does.

Two constants stand for facts the repository does not decide:

* `ReorgMidTick`. A tick checks the indexed blocks once and then relies on the
  blocks up to `latest - confirmations` until it ends. With `FALSE` the blocks
  up to the safe head, and those already indexed, do not change *during* a tick;
  between two ticks the chain may be reorganised to any depth. With `TRUE`
  nothing is assumed. Under `TRUE` a batch may mix logs and blocks of two
  branches, and `RowsMatchBlocks`, `StoredBlocksLinked`, `NoMissingRows` and
  `BalancesMatchTransfers` do not hold; what survives is `WalkCoversTables` and, as
  long as the indexed blocks are linked, `CatchesUp` (run `catch_up`): the next
  walk starts at or above every height stored. It compares hashes only down to the
  first match, so it need not find such rows.
* `ExecModes`. `RebuildFromTransfer` and `RebuildAllowancesFromApprovals` pass
  two statements and a parameter to one `Exec`. pgx refuses that in its default
  (extended) protocol and accepts it in the simple protocol, which only the DSN
  can select; `configs/config.yaml` does not. `{"simple"}` is a connection on
  which rollbacks work, `{"extended"}` the configuration as it stands; with both,
  each rollback may go either way.

The other modules:

* `Loader`. Time passes in units; the limiter and the timers see moments counted
  from now, and all past ones are one. A timer may fire late, so what is an
  interval apart are the *slots* the limiter gives, not the requests themselves.
  A local is reset where its function returns. The cancelled context ends both
  waits; the slot that was reserved stays reserved. `Walk` is the goroutine of the
  syncer while `FindRollbackBlock` fetches a block (`reorg.go:44`): never beside a
  load it waits for, but beside the launchers of earlier ones; an error of its ends
  the tick, so that no load follows it. What the blocks say is in `Syncer`.
* `Api`. A request that only reads is one SELECT. Its context may end at any
  moment (the client leaves, or the 30 seconds of `middleware.Timeout` pass);
  what runs then may still succeed, or fail, and a failed write may still be made
  by the database later (`late`). After that no answer arrives: the server's
  `WriteTimeout` is 30 seconds too and begins to run no later, so a handler that
  its timeout ended writes to a connection that is past its deadline. `ReadTimeout`
  is over before `Accept`. The history `acked` remembers what the last answer that
  arrived promised of a token, unless two requests wrote it at the same time;
  `since` what else has written the token's row since a request did: a statement
  left behind, or a start of the indexer, whose configuration may name the token
  or not. `server` follows `Shutdown`: the requests
  are waited for, ten seconds at most, then the client of the node is closed
  (reads fail, or still succeed over HTTP), then the pool, which waits for its
  connections. `UnregisterToken` answers 200 for a token that is not in the table
  too.
* `Pages`. PostgreSQL may return equal rows in any order and another one at
  the next page: `PagesOf` is the set of all pages a statement may return. A limit
  above 500 becomes the default 50, so that a client has to advance by the rows
  it received and to read until a page is empty; that is the client modelled.
  `Holders` is sorted by the text of the balance (section 5), hence `TextLess`.
  The balances are not negative, because where a sign sorts is a matter of the
  collation.

Left out on purpose: `chain_id` (there is one), `finalized_block` (every
statement that writes it writes the value of `last_indexed_block`), timestamps,
`parent_hash` (stored, never read); in `Syncer` also the metadata of tokens, which
`Api` has.

## 3. Runs

`MCSyncer` has three branches of height 4: `main`, `late` (forks after 2) and
`early` (forks after 1). Transactions move between blocks, change their log
index and vanish from one branch to another; one block holds two approvals of
the same owner and spender; one log decodes to nothing.

| run | question | bounds |
|---|---|---|
| `sizer` | do sizes follow failures and successes, and ranges the cursor? | 2 tokens, sizes 2..11 (11 is no power of two), 9 successes in a row, all cursors and safe heads up to 14 |
| `one_token` | are all tables sound, complete and counted once? | 1 token, 1 concurrent request, walk of 2 blocks, batches of 1 and 2 |
| `two_tokens` | do tokens at different cursors disturb each other? | 2 tokens, walk of 64, `StartBlock = 2` (so that the walk meets heights without a row) |
| `catch_up` | what survives a reorganisation inside a tick, and does the indexer recover and reach the safe head? | `ReorgMidTick`; branches of height 3 with one event; 1 token known from a request only (so that the indexer may meet it without a cursor), 1 request, walk of 2 blocks, failures and crashes before it is left alone |
| `load_blocks` | do the goroutines of a load end, in order and within the limits? | 2 loads of 2 blocks, interval 1, cap 2; no attempt, 2 attempts with backoff 0 or 1 (the one that panics), 3 attempts with backoff 3 (above the cap) |
| `shared_limiter` | how far ahead may the callers of one limiter reserve? | 2 loads of 2 blocks, a walk of 2 blocks in all, interval 2, 2 attempts with backoff 0 |
| `api` | do answers stay true, is nothing stored in part, do handlers and the process end? | 1 token, 2 requests, 1 metadata field, 1 connection, 1 statement left behind |
| `pages` | what does a reader of a changing list miss? | 3 blocks of up to 2 events, the first of either party, or 3 holders; pages of 1 and 2, largest offset 3, balances 0, 9, 10 |
| `rejected_catch_up` | finding: it never recovers | violation |
| `too_deep` | finding: the "exceeds" error comes one block early | violation |
| `late_start` | finding: a debit is stored as a credit | violation |
| `holders_order` | finding: the holders are sorted as text | violation |

Why the bounds are enough. Four blocks with confirmation depth 1 leave a safe
head of 3: a fork point below two replaced blocks, a batch of two that crosses
it, and a batch of one after a failure. A walk of 2 meets all three outcomes of
`FindRollbackBlock`. Two tokens suffice for a lagging one; the interaction is
only through `indexed_blocks` and the rollback. One request in flight is enough
for the race of `GetOrCreate`, since requests do not read each other's locals.
`one_token` allows both `ExecModes`, so that a refused rollback is among its
failures. `catch_up` has a lower tree, with a branch that has no block in common with the
others, because liveness is dear and reorganisations inside a tick multiply the
states; of the safe head of 2 one or both blocks may be replaced. So it also reaches
states without a common block in reach, from which nothing recovers; the premises of
`CatchesUp` exclude them. Two loads make a launcher in the background and a load
beside it; a third would find the first two in states that are already there. Three
attempts are a wait before and one after a doubling, two blocks a worker that starts
while the last one ends. In `shared_limiter` the launchers of both loads and the
walk wait for slots at the same time, and the bound of `BacklogBounded` is reached.
Two requests and one connection make each wait for the other; the second one also
overwrites what the first was told, while a statement of an earlier one is still to
be made; where several are left behind they come one after another. In `pages` one
offset is below, one at and one above the largest; a list is longer than a page, a
block has two events, and holders may be equal. For the safety properties the proofs
remove the bounds altogether.

Fairness. `FairSpec` assumes weak fairness of `Step`, what the indexer does when
its calls are answered: the scheduler runs the goroutine and the ticker fires
again after each tick. No fairness is assumed of the node, of requests or of
failures. `CatchesUp` says that *if* from some point on there are no more
failures, requests and chain movements, the node's head is not below the
indexed blocks, an indexed block that is still canonical lies within the depth of
the walk (`HasAncestor`) and the indexed blocks are linked (always so without
`ReorgMidTick`), *then* all indexed blocks become and stay canonical and all
active tokens reach the safe head. Each of the last two premises is needed:
without the first TLC finds the tick that fails with the error of `reorg.go:57`
again and again, without the second the orphan below a common block, which no walk
reaches.

* `Loader`: weak fairness of `Work` (the Go scheduler runs some goroutine that can
  run, and the node answers or the request fails) and of `Pass` (time goes on).
  `LoadsEnd` then holds without anyone receiving the results, because the channel
  has room for all of them.
* `Api`: each request's context ends in the end (`middleware.Timeout`), and a call
  returns once its context has ended; the ten seconds of the shutdown pass and
  `main` goes on. No fairness of the node or of the database: `RequestsEnd` and
  `ShutdownEnds` hold with both hanging for ever. That a handler returns is not
  that its client is answered.
* `Pages`: the client goes on asking. None of the indexer: `ReadEnds` only asks
  that the list stays shorter than the largest offset from some point on.

Deadlock is checked in every run but `load_blocks` and `shared_limiter`, where the
loads and the walk come to an end.

## 4. What is proved

For every block tree, configuration, set of tokens and holders and any number
of requests, loads, pages and connections, under the named assumptions of the
modules (`LinkAssumption`, `LogAssumption`, `SizerAssumption`, `BoundAssumption`,
`SyncerAssumption`, `LimiterAssumption`, `LoaderAssumption`, `SettingsAssumption`,
`ApiAssumption`, `RequestAssumption`, `PagesAssumption`; TLC evaluates them in the
runs). Every safety and step property of the passing runs is a theorem:

| theorem | statement | needs `~ReorgMidTick` |
|---|---|---|
| `SizesStayInBounds`, `RangeIsSane` | batch sizes and ranges | - |
| `SizesEarned` | a size is that of the last failure, doubled for each third success since, and capped | - |
| `RangesFollow` | ranges begin after the cursor and have the size of the token, or end at the safe head | - |
| `TypeCorrect` | types, and `SizeInBounds` inside the composition | no |
| `InductiveInvariant` | `TypeInv /\ IInv` in every reachable state | yes |
| `BlocksLinked`, `RowsMatch`, `NothingMissing` | the three table invariants | yes |
| `AncestorFound` | `FindRollbackBlock` answers correctly | yes |
| `CommitsExtend` | a batch goes on top of the canonical chain | yes |
| `OrphansDeleted` | a rollback deletes only what the node gave up | yes |
| `Refinement` | `Spec => ImplementsLedger` | yes |
| `AllowancesMatch` | each allowance is that of the latest stored approval | yes |
| `BalancesMatch` | each balance is what the stored transfers credit less what they debit | yes, and `Solvent` |
| `WalkCovers`, `FirstInvariant` | the indexed blocks begin at the first one, have no gap and reach as far as all that is stored | no |
| `CursorsSetBack` | a cursor goes down only in a rollback or by a late request of the API | no |
| `OneBlock` | a load has one block under way, the last one launched | - |
| `NoSendToClosed` | nothing is left to send when `results` is closed | - |
| `LoadsComplete` | blocks arrive in order, all of them on success | - |
| `ErrorsEarned` | a load fails only when cancelled, or when a block was refused as often as configured | - |
| `SlotSpacing`, `BacklogStays` | slots of the limiter are an interval apart, and at most one for each running load and one for the walk are still to come | - |
| `SleepsStayBounded`, `PanicOnlyWithOne` | the waits of the backoff, and when its random part panics | - |
| `LoaderTyped` | types | - |
| `ApiInductive`, `ApiTyped` | the invariant of the API process, and its types | - |
| `ConnectionsReturn` | no connection is lost, whatever is cut off | - |
| `CursorsOfTokens` | no cursor without its token, wherever a registration is cut off | - |
| `PromisesKept` | what a client was told stays true, but for statements left behind and starts of the indexer | - |
| `MetadataKept` | metadata is lost only to a node that failed or a shutdown that did not wait | - |
| `PagesInductive`, `PagesTyped` | the invariant of a reader of pages, and its types | - |
| `TransfersNotSkipped`, `HoldersSkippedAreTies` | what a reader of a changing list may miss | - |

Each inductive invariant was checked by TLC on the instances of the runs before it
was proved; `IInv` of `Syncer` is among the properties of `one_token`.

**The tables.** The table invariants alone are not inductive: a commit keeps them
only if what it writes fits to what is there. `IInv` adds what a tick has
established so far, call by call (`SyncerInvariant`):

* `SafeInv`: the node still has the blocks up to the safe head;
* `WalkInv`: all blocks above the position of the walk have been found
  different, and at a match the position itself is canonical;
* `CheckedInv`: from the list of tokens on, all indexed blocks are canonical
  - at a match because blocks that agree agree below (`CanonicalBelow`);
* `RangeInv`: the range follows blocks that are complete for its token. It
  speaks of the range and not of the cursor, because a late registration may
  set the cursor back while the batch is under way;
* `BatchInv`: the logs and the blocks fetched so far are what the node has.

The heart is `CommitKeepsTables`: fresh blocks and old ones are canonical, hence
linked; a row that is ignored because its key exists already *is* the same row,
since both are of the canonical branch, where keys are unique. The node's own
steps are `InvChain`, the only place that uses `~ReorgMidTick`.

**Whatever the node does** (`LedgerProofs`). `CoverInv` has not a word about the
chain: a range starts right above blocks that are indexed, and a rollback goes to
an indexed block. That is why `WalkCovers` needs no assumption on when the chain is
reorganised. `FromFirst` adds that nothing is indexed or promised below the first
block, and `CursorInv` that what a tick has read of a cursor still bounds it: while
the indexer is about to create a cursor, or waits for the node with a batch, only a
request of the API can write that cursor, and only the first one. `CursorsSetBack`
follows from the three.

**The refinement.** Each write of the tables is a step of the ledger and every other
step a stutter. `EveryRowInserted` and `ScannedEvents` show that a commit adds
exactly the events of the token in its blocks - the conflict on the primary key
drops only rows that are there already - and `CommittedBlocks` that the blocks below
and in the range are of one branch.

**Allowances and balances.** A batch moves them by the rows it inserts, a rollback
rebuilds them. That the two agree rests on `RowsReachBack`: below a stored event
everything of its token is stored. So, although a late request may set a cursor back
and whole ranges are read again, what is *inserted* comes after all that is stored of
its token (`InsertedAbove`). For the allowances this is the whole argument: the
latest of the new approvals is the latest of all (`LatestAbove`). For the balances
it gives the block of the row (`MaxBlockAbove`); the amount is a matter of sums
(`TotalUnion`, `DeltaIsNet`), for which the tables must be finite: they are, because
a row is a log of an indexed block (`TableFinite`). The sums are the library's
`SumFunction`, a recursive function over subsets; `RecursionProofs` shows that such
functions exist and that a sum does not depend on the order in which it is taken
(`SumStep`), by the least counterexample instead of an induction rule.

`BalancesMatch` needs the hypothesis `Solvent`: on no branch a holder passes on more
than was received since the first block indexed. It is about the token and the start
block. It holds of the tree of `one_token` (`SolventFromTheStart` in `MCSyncer`, which TLC
evaluates), and fails where indexing starts after the mint: that is the finding
`late_start`. Where it is used is `FirstMoves`: what is inserted for a holder without
a row is all the branch has of the holder up to the end of the batch, so its net value
is not negative and `Subtract` does not meet an absent row.

**The batch sizer.** `SizerHistory` carries the size the last failure left and the
successes since. `CountInv` says that the code's counter is their number modulo three
as long as the size can grow; `Doubled` is defined by recursion, and
`DoubledRecursion` shows that it is what its equation says.

**`LoaderProofs`.** `LoadInv` says, for each load: workers start in the order of their
blocks, all but the last launched have released the semaphore, the results
received, in the channel and still to be sent are the blocks in order, and a
closed load has only finished workers. `SlotInv` relates the next free slot to the
last one given. `FetchInv` follows an error from the attempt that made it through the
channel to the outcome of the load (`ErrorInv`), and says that for each slot still
to come a caller waits (`SlotsTaken`). No load has two such workers, and the walk
is one more caller (`WaitingCallers`), which bounds how far the limiter is ahead
(`StepsCount`).

**`ApiProofs`.** `Connections` counts the statements under way with the idle
connections. `Writers` is what makes `AnswersStayTrue` inductive: while a request, or
a second one beside it, may still write a token nothing is promised of it; and the
only writer finds the row it has stored, unless a deactivation left behind came in
between (`ActiveSoFar`). `CreatesKnown` says that who may still make a cursor - a
request at its second or third statement, a statement left behind - has stored the
row, and no statement deletes rows (`RowsRemain`). `UpsertsComplete` says that a
read that was cut off belongs to a request that gets no connection any more;
`NobodyLeft`, that only a shutdown that did not wait closes the client of the node
under a request.

**`PagesProofs`.** `RestIsAhead`: of an event that was there at the start and was not
yet received, at least as many rows come before it as the client asks to skip -
insertions only add to them. `BalancesReached`, for holders: of each balance that
the rows read so far must reach, one holder was read. Both are about all pages the
database may return.

**Only model-checked.** Liveness (`CatchesUp`, `LoadsEnd`, `RequestsEnd`,
`ShutdownEnds`, `ReadEnds`), which the prover cannot reach. The invariants under
`ReorgMidTick` are proved where they hold (`WalkCovers`, `CursorsSetBack`, types); of
the others section 2 says that they do not. The findings are counterexamples of TLC.


## 5. Findings

* `rejected_catch_up` (`balance_repo.go:83`): with the configuration in the
  repository the driver refuses the statements of the rebuild. The first
  reorganisation stops the indexing for good; safety is kept (`one_token`).
* `too_deep` (`reorg.go:57`): the error says the reorganisation *exceeds* the
  depth, but one of exactly the depth also fails, because the walk stops one
  block short of the common one; so does one that replaces every block indexed
  since the start block.
* `late_start` (`balance_repo.go:24`): `Subtract` inserts the debit itself as the
  balance of a holder without a row. With a start block after the token's first
  transfers a holder who pays is credited; the rebuild of the next rollback
  turns the amount negative.

* `holders_order` (`balance_repo.go:63`): `Holders` selects `balance::text` and
  orders by `balance`. In PostgreSQL the bare name means the column of the
  result, which has that very name, so the list is sorted as text: 9 before 10.

What the runs show without contradicting a text of the repository: a token that a
client unregistered is active again after the indexer starts if it is in the
configuration, and one that a client was told of may be turned by a statement of
an earlier request that gave up (the exceptions in `AnswersStayTrue`); a handler
that the timeout of the router ends cannot tell its client, since the server's
`WriteTimeout` is not longer (`api.go:39`, `router.go:13`); a shutdown out of its
ten seconds may store a token with empty metadata, between the closing of the
node's client and of the pool (`MetadataComplete`); metadata already stored is
replaced by empty values when the node does not answer at that moment
(`MetadataComplete` speaks of a node that never failed); with `block_retries: 0`
every load fails without a request (`ErrorIsEarned`); a list longer than the
largest offset never has an empty page, so a client that reads until then never
ends (`ReadEnds`); and a rollback or a change of balances between two pages may hide
rows from a reader (`disturbed`).

## 6. Not modelled

* Routing, DTOs, configuration, logging, model records and address formatting have
  no behaviour of their own. Invalid addresses and bodies are refused before
  anything happens.
* `TransferRepo.Insert`, `ApprovalRepo.Insert` and `DeleteAllowancesAfterBlock` have no
  caller.
* `FetchLogs` has the loop of `BlockByNumber`, a limiter of its own and one caller
  at a time; `Loader` models the one with several callers.
* Rows of a reorganisation inside a tick: nothing compares hashes, so no property of
  their contents holds (section 2).
* Batch sizes near 2^64, whose doubling wraps, are excluded by `SizerAssumption`.
* That `Loader` implements the `LoadBlock` steps of `Syncer` is not stated as a
  refinement: `Syncer` has no goroutines left behind, and `Loader` no chain. The
  link is `AnswerComplete`.
* The pool of the indexer has one user. Its shutdown is a `Crash`.

What could come next: an abstract specification of the fetchers that `Loader`
implements and `Syncer` uses in the place of `LoadBlock`; one of the client of a
list for `Pages`; and lists of two tokens, so that the filter on the token is part
of `Pages`.

## 7. Running

    tlc -config MCOneToken.cfg MCSyncer.tla
    tlapm SyncerProofs.tla
