----------------------------- MODULE BatchSizer -----------------------------
(***************************************************************************)
(* internal/indexer/batch_sizer.go: the adaptive number of blocks a token  *)
(* is scanned by.  A failed batch halves it, three successes in a row      *)
(* double it, always between the configured minimum and maximum.           *)
(*                                                                         *)
(* Go's uint64 arithmetic wraps: every sum and product is taken modulo     *)
(* Word, the number of values of the integer type (2^64 in the program).   *)
(* The mutex of the Go type makes each method one atomic step; the lazy    *)
(* creation of a token's entry (method state) is not observable, so the    *)
(* entries exist from the start.                                           *)
(***************************************************************************)
EXTENDS Integers

CONSTANTS
  Token,         \* the tokens, identified by their address read as a number
  BatchSize,     \* chain.batch_size of the configuration, 0 when not set
  MinBatchSize,  \* chain.min_batch_size of the configuration, 0 when not set
  Word           \* the number of values of the unsigned integer type

\* NewBatchSizer: the effective maximum and minimum.
maxBatch == IF BatchSize = 0 THEN 1000 ELSE BatchSize
minBatch ==
  LET wanted == IF MinBatchSize = 0 THEN 1 ELSE MinBatchSize
  IN  IF wanted > maxBatch THEN maxBatch ELSE wanted

growAfterSuccesses == 3

\* Doubling a size below the maximum does not wrap.
ASSUME SizerAssumption ==
  /\ Token \subseteq Nat
  /\ BatchSize \in Nat
  /\ MinBatchSize \in Nat
  /\ Word \in Nat
  /\ 2 * maxBatch <= Word

VARIABLE sizer   \* sizer[t]: the batchState of token t

Wrap(n) == n % Word

BatchState == [current : Nat, successes : Nat]

-----------------------------------------------------------------------------
(* NextRange: the blocks to scan after lastIndexed, none above safeBlock.  *)

NextFrom(lastIndexed) == Wrap(lastIndexed + 1)

HasRange(lastIndexed, safeBlock) == NextFrom(lastIndexed) <= safeBlock

\* Mutant: the upper end counts size blocks after the first one.
NextToOneMore(size, lastIndexed, safeBlock) ==
  LET to == Wrap(NextFrom(lastIndexed) + size)
  IN  IF to > safeBlock THEN safeBlock ELSE to

\* Mutant: the safe head does not cut the range.
NextToUncut(size, lastIndexed, safeBlock) ==
  Wrap(NextFrom(lastIndexed) + size - 1)

NextTo(size, lastIndexed, safeBlock) ==
  LET to == Wrap(NextFrom(lastIndexed) + size - 1)
  IN  IF to > safeBlock THEN safeBlock ELSE to

-----------------------------------------------------------------------------
(* RecordSuccess and RecordFailure as functions of one token's state.      *)

\* Mutant: the count of successes survives the doubling.
GrownKeepingCount(s) ==
  IF s.current >= maxBatch THEN [current |-> maxBatch, successes |-> 0]
  ELSE IF s.successes + 1 < growAfterSuccesses
       THEN [s EXCEPT !.successes = @ + 1]
       ELSE LET twice == Wrap(s.current * 2)
            IN  [s EXCEPT !.current =
                   IF twice > maxBatch THEN maxBatch ELSE twice]

Grown(s) ==
  IF s.current >= maxBatch THEN [current |-> maxBatch, successes |-> 0]
  ELSE IF s.successes + 1 < growAfterSuccesses
       THEN [s EXCEPT !.successes = @ + 1]
       ELSE LET twice == Wrap(s.current * 2)
            IN  [current   |-> IF twice > maxBatch THEN maxBatch ELSE twice,
                 successes |-> 0]

\* Mutant: no lower limit.
ShrunkToNothing(s) == [current |-> s.current \div 2, successes |-> 0]

Shrunk(s) ==
  LET half == s.current \div 2
  IN  [current |-> IF half < minBatch THEN minBatch ELSE half, successes |-> 0]

-----------------------------------------------------------------------------
FreshSizer == [t \in Token |-> [current |-> maxBatch, successes |-> 0]]

SizerInit == sizer = FreshSizer

RecordSuccess(t) == sizer' = [sizer EXCEPT ![t] = Grown(@)]

RecordFailure(t) == sizer' = [sizer EXCEPT ![t] = Shrunk(@)]

SizerNext == \E t \in Token : RecordSuccess(t) \/ RecordFailure(t)

SizerSpec == SizerInit /\ [][SizerNext]_sizer

-----------------------------------------------------------------------------
SizerTypeOK == sizer \in [Token -> BatchState]

(* A token's batch size never leaves the configured bounds, and a size     *)
(* that may still grow is always fewer than growAfterSuccesses successes   *)
(* away from the next doubling.                                            *)
SizeInBounds ==
  \A t \in Token :
    /\ minBatch <= sizer[t].current /\ sizer[t].current <= maxBatch
    /\ sizer[t].successes < growAfterSuccesses

=============================================================================
