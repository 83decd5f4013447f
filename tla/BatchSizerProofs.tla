-------------------------- MODULE BatchSizerProofs --------------------------
(***************************************************************************)
(* The bounds of the batch sizes and the shape of the ranges, for every    *)
(* configuration and every integer width that can hold twice the maximum.  *)
(***************************************************************************)
EXTENDS BatchSizer, TLAPS

\* The arithmetic of a value that fits does not wrap.
LEMMA WrapFits ==
  ASSUME NEW n \in Nat, n < Word
  PROVE  Wrap(n) = n
<1>1. Word \in Nat
  BY SizerAssumption
<1>. QED
  BY <1>1, SMT DEF Wrap

\* The effective bounds of the configuration are positive and ordered.
LEMMA Bounds ==
  /\ maxBatch \in Nat /\ minBatch \in Nat
  /\ 1 <= minBatch /\ minBatch <= maxBatch
  /\ 2 * maxBatch <= Word /\ Word \in Nat
BY SizerAssumption DEF maxBatch, minBatch

\* One token's state, well typed and in bounds.
InBounds(s) ==
  /\ s \in BatchState
  /\ minBatch <= s.current /\ s.current <= maxBatch
  /\ s.successes < growAfterSuccesses

\* RecordSuccess keeps a token's state in bounds.
LEMMA GrownInBounds ==
  ASSUME NEW s, InBounds(s)
  PROVE  InBounds(Grown(s))
<1>1. /\ s = [current |-> s.current, successes |-> s.successes]
      /\ s.current \in Nat /\ s.successes \in Nat
  BY DEF InBounds, BatchState
<1>2. CASE s.current >= maxBatch
  BY <1>2, Bounds DEF Grown, InBounds, BatchState, growAfterSuccesses
<1>3. CASE s.current < maxBatch /\ s.successes + 1 < growAfterSuccesses
  BY <1>1, <1>3, Bounds DEF Grown, InBounds, BatchState, growAfterSuccesses
<1>4. CASE s.current < maxBatch /\ ~(s.successes + 1 < growAfterSuccesses)
  <2>1. s.current * 2 \in Nat /\ s.current * 2 < Word
    BY <1>1, <1>4, Bounds
  <2>2. Wrap(s.current * 2) = s.current * 2
    BY <2>1, WrapFits
  <2>. QED
    BY <1>1, <1>4, <2>1, <2>2, Bounds
    DEF Grown, InBounds, BatchState, growAfterSuccesses
<1>. QED
  BY <1>1, <1>2, <1>3, <1>4, Bounds DEF growAfterSuccesses

\* RecordFailure keeps a token's state in bounds.
LEMMA ShrunkInBounds ==
  ASSUME NEW s, InBounds(s)
  PROVE  InBounds(Shrunk(s))
BY Bounds DEF Shrunk, InBounds, BatchState, growAfterSuccesses

\* A sizer whose tokens are all in bounds.
SizerInv == /\ SizerTypeOK
            /\ SizeInBounds

LEMMA SizerInvUnfolded ==
  SizerInv <=> /\ sizer = [t \in Token |-> sizer[t]]
               /\ \A t \in Token : InBounds(sizer[t])
BY DEF SizerInv, SizerTypeOK, SizeInBounds, InBounds, BatchState

LEMMA FreshSizerInv == sizer = FreshSizer => SizerInv
BY Bounds DEF SizerInv, SizerTypeOK, SizeInBounds, FreshSizer, BatchState,
              growAfterSuccesses

\* Either method keeps the sizer in bounds.
LEMMA RecordKeepsInv ==
  ASSUME SizerInv, NEW t \in Token, RecordSuccess(t) \/ RecordFailure(t)
  PROVE  SizerInv'
<1>1. \A u \in Token : InBounds(sizer[u])
  BY SizerInvUnfolded
<1>2. InBounds(Grown(sizer[t])) /\ InBounds(Shrunk(sizer[t]))
  BY <1>1, GrownInBounds, ShrunkInBounds
<1>3. sizer' = [u \in Token |-> sizer'[u]]
  BY DEF SizerInv, SizerTypeOK, RecordSuccess, RecordFailure
<1>4. \A u \in Token : InBounds(sizer'[u])
  BY <1>1, <1>2 DEF SizerInv, SizerTypeOK, RecordSuccess, RecordFailure
<1>. QED
  BY <1>3, <1>4 DEF SizerInv, SizerTypeOK, SizeInBounds, InBounds, BatchState

-----------------------------------------------------------------------------
(* For every configuration the size of every token stays between the       *)
(* minimum and the maximum, and is fewer than three successes away from    *)
(* the next doubling (batch_sizer.go:49 and :71).                          *)
THEOREM SizesStayInBounds == SizerSpec => [](SizerTypeOK /\ SizeInBounds)
<1>1. SizerInit => SizerInv
  BY FreshSizerInv DEF SizerInit
<1>2. SizerInv /\ [SizerNext]_sizer => SizerInv'
  <2>1. CASE SizerNext
    BY <2>1, RecordKeepsInv DEF SizerNext
  <2>2. CASE UNCHANGED sizer
    BY <2>2 DEF SizerInv, SizerTypeOK, SizeInBounds
  <2>. QED
    BY <2>1, <2>2
<1>3. SizerInv => SizerTypeOK /\ SizeInBounds
  BY DEF SizerInv
<1>. QED
  BY <1>1, <1>2, <1>3, PTL DEF SizerSpec

(* A range of NextRange (batch_sizer.go:36) begins right after the cursor, *)
(* is not empty, ends at or below the safe head and has the size wanted    *)
(* unless the safe head cuts it, whatever size in bounds is used, when     *)
(* nothing wraps.                                                          *)
THEOREM RangeIsSane ==
  ASSUME NEW last \in Nat, NEW safeBlock \in Nat,
         NEW size \in Nat, minBatch <= size, size <= maxBatch,
         last < Word - 1, safeBlock + maxBatch < Word,
         HasRange(last, safeBlock)
  PROVE  /\ NextFrom(last) = last + 1
         /\ NextTo(size, last, safeBlock) \in Nat
         /\ last + 1 <= NextTo(size, last, safeBlock)
         /\ NextTo(size, last, safeBlock) <= safeBlock
         /\ \/ NextTo(size, last, safeBlock) = safeBlock
            \/ NextTo(size, last, safeBlock) - last = size
<1>1. NextFrom(last) = last + 1
  BY WrapFits, Bounds DEF NextFrom
<1>2. last + 1 <= safeBlock
  BY <1>1 DEF HasRange
<1>3. /\ last + 1 + size - 1 \in Nat
      /\ last + 1 + size - 1 < Word
      /\ last + 1 <= last + 1 + size - 1
  BY <1>2, Bounds
<1>4. Wrap(last + 1 + size - 1) = last + 1 + size - 1
  BY <1>3, WrapFits
<1>. QED
  BY <1>1, <1>2, <1>3, <1>4 DEF NextTo

=============================================================================
