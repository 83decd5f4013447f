---------------------------- MODULE SizerHistory ----------------------------
(***************************************************************************)
(* BatchSizer with what was recorded for each token since its last         *)
(* failure: base[t], the size that failure left, and streak[t], the number *)
(* of successes since.                                                     *)
(***************************************************************************)
EXTENDS BatchSizer

CONSTANTS
  MaxSafe,    \* bound: cursors and safe heads range over 0..MaxSafe
  MaxStreak   \* bound: successes recorded for a token between two failures

VARIABLES base, streak

historyVars == <<sizer, base, streak>>

ASSUME BoundAssumption ==
  /\ MaxSafe \in Nat /\ MaxStreak \in Nat
  /\ MaxSafe + 1 + maxBatch < Word

HistoryInit ==
  /\ SizerInit
  /\ base = [t \in Token |-> maxBatch]
  /\ streak = [t \in Token |-> 0]

Success(t) ==
  /\ streak[t] < MaxStreak
  /\ RecordSuccess(t)
  /\ streak' = [streak EXCEPT ![t] = @ + 1]
  /\ UNCHANGED base

Failure(t) ==
  /\ RecordFailure(t)
  /\ base' = [base EXCEPT ![t] = sizer'[t].current]
  /\ streak' = [streak EXCEPT ![t] = 0]

HistoryNext == \E t \in Token : Success(t) \/ Failure(t)

HistorySpec == HistoryInit /\ [][HistoryNext]_historyVars

-----------------------------------------------------------------------------
\* A size after a number of doublings that nothing caps.
Doubled[n \in Nat] == IF n = 0 THEN 1 ELSE 2 * Doubled[n - 1]

Capped(size) == IF size > maxBatch THEN maxBatch ELSE size

(* The size of a token in closed form, whatever happened before: doubled   *)
(* once for every third success since the last failure, and capped at the  *)
(* maximum (RecordSuccess of batch_sizer.go:49).                           *)
SizeIsEarned ==
  \A t \in Token :
    sizer[t].current = Capped(base[t] * Doubled[streak[t] \div 3])

(* For every cursor and safe head, NextRange (batch_sizer.go:36) hands out *)
(* the block after the cursor, ends at or below the safe head and covers   *)
(* exactly the current size unless the safe head cuts it: ranges never     *)
(* overlap, never leave a gap and are never empty.                         *)
RangeFollowsCursor ==
  \A t \in Token : \A last, safe \in 0..MaxSafe :
    HasRange(last, safe) =>
      LET to == NextTo(sizer[t].current, last, safe)
      IN  /\ last < to /\ to <= safe
          /\ to = safe \/ to - last = sizer[t].current

-----------------------------------------------------------------------------
(* Why the size is earned: three successes in a row are counted down by    *)
(* the successes of batchState, except for a size that cannot grow.        *)
HistoryTypeOK == base \in [Token -> Nat] /\ streak \in [Token -> Nat]

CountInv ==
  \A t \in Token :
    /\ minBatch <= base[t] /\ base[t] <= maxBatch
    /\ sizer[t].current < maxBatch => sizer[t].successes = streak[t] % 3

HistoryInv == HistoryTypeOK /\ CountInv /\ SizeIsEarned

=============================================================================
