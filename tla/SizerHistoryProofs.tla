------------------------- MODULE SizerHistoryProofs -------------------------
(***************************************************************************)
(* What a token's batch size says of what was recorded for it, and that    *)
(* the ranges handed out follow the cursors: for every configuration and   *)
(* every history.                                                          *)
(***************************************************************************)
EXTENDS SizerHistory, BatchSizerProofs, RecursionProofs

-----------------------------------------------------------------------------
(* Doublings *)

LEMMA DoubledRecursion ==
  Doubled = [n \in Nat |-> IF n = 0 THEN 1 ELSE 2 * Doubled[n - 1]]
<1> DEFINE size == [n \in Nat |-> n]
           prev == [n \in Nat |-> IF n = 0 THEN 0 ELSE n - 1]
           leaf == [n \in Nat |-> 1]
           step == [p \in Nat \X Nat |-> 2 * p[2]]
<1>1. /\ size \in [Nat -> Nat] /\ prev \in [Nat -> Nat]
      /\ leaf \in [Nat -> Nat] /\ step \in [Nat \X Nat -> Nat]
  OBVIOUS
<1>2. \A n \in Nat \ {0} : size[prev[n]] < size[n]
  OBVIOUS
<1> HIDE DEF size, prev, leaf, step
<1>3. PICK f \in [Nat -> Nat] : Recurses(f, Nat, {0}, prev, leaf, step)
  <2>1. {0} \in SUBSET Nat
    OBVIOUS
  <2> QED BY <1>1, <1>2, <2>1, Recursion
<1>4. \A n \in Nat : f[n] = IF n = 0 THEN 1 ELSE 2 * f[n - 1]
  <2> SUFFICES ASSUME NEW n \in Nat
               PROVE  f[n] = IF n = 0 THEN 1 ELSE 2 * f[n - 1]
    OBVIOUS
  <2>1. f[n] = IF n \in {0} THEN leaf[n] ELSE step[<<n, f[prev[n]]>>]
    BY <1>3 DEF Recurses
  <2>2. n # 0 => prev[n] = n - 1 /\ n - 1 \in Nat
    BY DEF prev
  <2>3. n # 0 => step[<<n, f[n - 1]>>] = 2 * f[n - 1]
    BY <2>2 DEF step
  <2>4. leaf[n] = 1
    BY DEF leaf
  <2> QED BY <2>1, <2>2, <2>3, <2>4
<1>5. f = [n \in Nat |-> IF n = 0 THEN 1 ELSE 2 * f[n - 1]]
  BY <1>4
<1> QED BY <1>5 DEF Doubled

LEMMA DoubledStep ==
  /\ Doubled[0] = 1
  /\ \A n \in Nat : Doubled[n + 1] = 2 * Doubled[n]
<1> DEFINE f == Doubled
<1>1. f = [n \in Nat |-> IF n = 0 THEN 1 ELSE 2 * f[n - 1]]
  BY DoubledRecursion
<1> HIDE DEF f
<1>2. f[0] = 1 /\ \A n \in Nat : f[n + 1] = 2 * f[n]
  <2>1. \A n \in Nat : n + 1 \in Nat /\ n + 1 # 0 /\ n + 1 - 1 = n
    OBVIOUS
  <2> QED BY <1>1, <2>1
<1> QED BY <1>2 DEF f

LEMMA DoubledType == \A n \in Nat : Doubled[n] \in Nat
<1> DEFINE Good == {n \in Nat : Doubled[n] \in Nat}
<1>1. ASSUME NEW n \in Nat, \A k \in Nat : k < n => k \in Good
      PROVE  n \in Good
  <2>1. CASE n = 0
    BY <2>1, DoubledStep
  <2>2. CASE n # 0
    <3>1. n - 1 \in Nat /\ n - 1 < n /\ n - 1 + 1 = n
      BY <2>2
    <3>2. Doubled[n - 1] \in Nat
      BY <1>1, <3>1
    <3>3. Doubled[n] = 2 * Doubled[n - 1]
      BY <3>1, DoubledStep
    <3> QED BY <3>2, <3>3
  <2> QED BY <2>1, <2>2
<1>2. Good \in SUBSET Nat
  OBVIOUS
<1>3. Good = Nat
  <2> HIDE DEF Good
  <2> QED BY <1>1, <1>2, NatInductionStrong
<1> QED BY <1>3

-----------------------------------------------------------------------------
(* The history *)

LEMMA HistoryConstants ==
  /\ maxBatch \in Nat /\ minBatch \in Nat /\ 1 <= minBatch /\ minBatch <= maxBatch
  /\ Word \in Nat /\ 2 * maxBatch <= Word
  /\ MaxSafe \in Nat /\ MaxSafe + 1 + maxBatch < Word
BY Bounds, BoundAssumption

\* What a size is doubled to, with its factors hidden.
LEMMA Product ==
  ASSUME NEW b \in Nat, NEW n \in Nat
  PROVE  /\ b * Doubled[n] \in Nat
         /\ b * Doubled[n + 1] = 2 * (b * Doubled[n])
<1> DEFINE d == Doubled[n]
<1>1. d \in Nat /\ Doubled[n + 1] = 2 * d
  BY DoubledType, DoubledStep
<1> HIDE DEF d
<1>2. b * d \in Nat /\ b * (2 * d) = 2 * (b * d)
  BY <1>1
<1> QED BY <1>1, <1>2 DEF d

LEMMA Thirds ==
  ASSUME NEW k \in Nat
  PROVE  /\ k \div 3 \in Nat /\ k % 3 \in 0..2
         /\ k % 3 < 2 => (k + 1) \div 3 = k \div 3 /\ (k + 1) % 3 = (k % 3) + 1
         /\ k % 3 = 2 => (k + 1) \div 3 = k \div 3 + 1 /\ (k + 1) % 3 = 0
OBVIOUS

\* One more success of a token whose size is earned.
LEMMA SuccessEarned ==
  ASSUME NEW s, InBounds(s), NEW b \in Nat, NEW k \in Nat,
         s.current = Capped(b * Doubled[k \div 3]),
         s.current < maxBatch => s.successes = k % 3
  PROVE  /\ Grown(s).current = Capped(b * Doubled[(k + 1) \div 3])
         /\ Grown(s).current < maxBatch => Grown(s).successes = (k + 1) % 3
<1> DEFINE p == b * Doubled[k \div 3]
           q == b * Doubled[(k + 1) \div 3]
<1>1. p \in Nat
  BY Thirds, Product
<1>2. q = IF k % 3 = 2 THEN 2 * p ELSE p
  <2>1. k \div 3 \in Nat /\ k % 3 \in 0..2
    BY Thirds
  <2>2. CASE k % 3 = 2
    <3>1. (k + 1) \div 3 = k \div 3 + 1
      BY <2>2, Thirds
    <3>2. b * Doubled[k \div 3 + 1] = 2 * (b * Doubled[k \div 3])
      BY <2>1, Product
    <3> QED BY <3>1, <3>2, <2>2, Zenon
  <2>3. CASE k % 3 < 2
    <3>1. (k + 1) \div 3 = k \div 3 /\ k % 3 # 2
      BY <2>1, <2>3, Thirds
    <3> QED BY <3>1, Zenon
  <2> QED BY <2>1, <2>2, <2>3
<1>3. s.current = Capped(p)
  OBVIOUS
<1>4. /\ s = [current |-> s.current, successes |-> s.successes]
      /\ s.current \in Nat /\ s.successes \in Nat
  BY DEF InBounds, BatchState
<1> HIDE DEF p, q
<1>5. CASE s.current >= maxBatch
  <2>1. Grown(s) = [current |-> maxBatch, successes |-> 0]
    BY <1>5 DEF Grown
  <2>2. Capped(q) = maxBatch
    BY <1>1, <1>2, <1>3, <1>5, HistoryConstants DEF Capped
  <2> QED BY <2>1, <2>2, HistoryConstants DEF q
<1>6. CASE s.current < maxBatch
  <2>1. p = s.current /\ s.successes = k % 3
    BY <1>1, <1>3, <1>6, HistoryConstants DEF Capped
  <2>2. CASE k % 3 < 2
    <3>1. Grown(s) = [s EXCEPT !.successes = @ + 1]
      BY <1>6, <2>1, <2>2, <1>4, HistoryConstants DEF Grown, growAfterSuccesses
    <3>2. Grown(s).current = s.current /\ Grown(s).successes = s.successes + 1
      BY <1>4, <3>1
    <3>3. q = p
      BY <1>2, <2>2
    <3> QED BY <1>3, <2>1, <2>2, <3>2, <3>3, Thirds DEF q
  <2>3. CASE k % 3 = 2
    <3>1. s.current * 2 = 2 * p /\ Wrap(2 * p) = 2 * p
      BY <1>1, <1>6, <2>1, HistoryConstants, WrapFits
    <3>2. Grown(s) = [current |-> Capped(2 * p), successes |-> 0]
      BY <1>4, <1>6, <2>1, <2>3, <3>1, HistoryConstants
      DEF Grown, growAfterSuccesses, Capped
    <3> QED BY <1>2, <2>3, <3>2, Thirds DEF q
  <2> QED BY <2>2, <2>3, Thirds
<1> QED BY <1>4, <1>5, <1>6, HistoryConstants

\* A size in bounds that no success has followed is its own base.
LEMMA FreshEarned ==
  ASSUME NEW b \in Nat, b <= maxBatch
  PROVE  b = Capped(b * Doubled[0 \div 3])
<1>1. Doubled[0 \div 3] = 1
  BY DoubledStep
<1>2. b * Doubled[0 \div 3] = b
  BY <1>1
<1> QED BY <1>2, HistoryConstants DEF Capped

LEMMA HistoryStart == HistoryInit => HistoryInv
<1> SUFFICES ASSUME HistoryInit PROVE HistoryInv
  OBVIOUS
<1>1. HistoryTypeOK
  BY HistoryConstants DEF HistoryInit, HistoryTypeOK
<1>2. ASSUME NEW t \in Token
      PROVE  /\ base[t] = maxBatch /\ streak[t] = 0
             /\ sizer[t].current = maxBatch
  BY DEF HistoryInit, SizerInit, FreshSizer
<1>3. CountInv
  <2> SUFFICES ASSUME NEW t \in Token
               PROVE  /\ minBatch <= base[t] /\ base[t] <= maxBatch
                      /\ ~(sizer[t].current < maxBatch)
    BY DEF CountInv
  <2>1. base[t] = maxBatch /\ sizer[t].current = maxBatch
    BY <1>2
  <2> QED BY <2>1, HistoryConstants
<1>4. SizeIsEarned
  <2>1. maxBatch = Capped(maxBatch * Doubled[0 \div 3])
    BY FreshEarned, HistoryConstants
  <2> QED BY <1>2, <2>1 DEF SizeIsEarned
<1> QED BY <1>1, <1>3, <1>4 DEF HistoryInv

LEMMA HistoryStep ==
  ASSUME SizerInv, HistoryInv, [HistoryNext]_historyVars
  PROVE  HistoryInv'
<1>1. ASSUME NEW t \in Token, Success(t) PROVE HistoryInv'
  <2>1. /\ sizer' = [sizer EXCEPT ![t] = Grown(sizer[t])] /\ sizer \in [Token -> BatchState]
        /\ base' = base /\ base \in [Token -> Nat]
        /\ streak' = [streak EXCEPT ![t] = streak[t] + 1] /\ streak \in [Token -> Nat]
    BY <1>1 DEF Success, RecordSuccess, SizerInv, SizerTypeOK, HistoryInv, HistoryTypeOK
  <2>2. /\ Grown(sizer[t]).current = Capped(base[t] * Doubled[(streak[t] + 1) \div 3])
        /\ Grown(sizer[t]).current < maxBatch =>
             Grown(sizer[t]).successes = (streak[t] + 1) % 3
    <3>1. InBounds(sizer[t])
      BY SizerInvUnfolded
    <3>2. /\ sizer[t].current = Capped(base[t] * Doubled[streak[t] \div 3])
          /\ sizer[t].current < maxBatch => sizer[t].successes = streak[t] % 3
      BY DEF HistoryInv, SizeIsEarned, CountInv
    <3> QED BY <2>1, <3>1, <3>2, SuccessEarned
  <2>3. HistoryTypeOK'
    BY <2>1 DEF HistoryTypeOK
  <2>4. ASSUME NEW u \in Token
        PROVE  /\ minBatch <= base'[u] /\ base'[u] <= maxBatch
               /\ sizer'[u].current < maxBatch => sizer'[u].successes = streak'[u] % 3
               /\ sizer'[u].current = Capped(base'[u] * Doubled[streak'[u] \div 3])
    <3>1. CASE u = t
      BY <2>1, <2>2, <3>1 DEF HistoryInv, CountInv
    <3>2. CASE u # t
      BY <2>1, <3>2 DEF HistoryInv, CountInv, SizeIsEarned
    <3> QED BY <3>1, <3>2
  <2> QED BY <2>3, <2>4 DEF HistoryInv, CountInv, SizeIsEarned
<1>2. ASSUME NEW t \in Token, Failure(t) PROVE HistoryInv'
  <2>1. /\ sizer' = [sizer EXCEPT ![t] = Shrunk(sizer[t])] /\ sizer \in [Token -> BatchState]
        /\ streak' = [streak EXCEPT ![t] = 0] /\ streak \in [Token -> Nat]
    BY <1>2 DEF Failure, RecordFailure, SizerInv, SizerTypeOK, HistoryInv, HistoryTypeOK
  <2>2. base' = [base EXCEPT ![t] = Shrunk(sizer[t]).current] /\ base \in [Token -> Nat]
    BY <1>2, <2>1 DEF Failure, HistoryInv, HistoryTypeOK
  <2>3. InBounds(Shrunk(sizer[t]))
    BY SizerInvUnfolded, ShrunkInBounds
  <2>4. Shrunk(sizer[t]).current \in Nat /\ Shrunk(sizer[t]).successes = 0
    BY <2>3 DEF InBounds, BatchState, Shrunk
  <2>5. HistoryTypeOK'
    BY <2>1, <2>2, <2>4 DEF HistoryTypeOK
  <2>6. ASSUME NEW u \in Token
        PROVE  /\ minBatch <= base'[u] /\ base'[u] <= maxBatch
               /\ sizer'[u].current < maxBatch => sizer'[u].successes = streak'[u] % 3
               /\ sizer'[u].current = Capped(base'[u] * Doubled[streak'[u] \div 3])
    <3>1. CASE u = t
      <4>1. /\ base'[u] = Shrunk(sizer[t]).current /\ streak'[u] = 0
            /\ sizer'[u] = Shrunk(sizer[t])
        BY <2>1, <2>2, <3>1
      <4>2. minBatch <= base'[u] /\ base'[u] <= maxBatch /\ base'[u] \in Nat
        BY <2>3, <2>4, <4>1 DEF InBounds
      <4>3. base'[u] = Capped(base'[u] * Doubled[0 \div 3])
        BY <4>2, FreshEarned
      <4> QED BY <2>4, <4>1, <4>2, <4>3
    <3>2. CASE u # t
      BY <2>1, <2>2, <3>2 DEF HistoryInv, CountInv, SizeIsEarned
    <3> QED BY <3>1, <3>2
  <2> QED BY <2>5, <2>6 DEF HistoryInv, CountInv, SizeIsEarned
<1>3. ASSUME UNCHANGED historyVars PROVE HistoryInv'
  BY <1>3 DEF historyVars, HistoryInv, HistoryTypeOK, CountInv, SizeIsEarned
<1> QED BY <1>1, <1>2, <1>3 DEF HistoryNext

LEMMA HistorySizer ==
  /\ HistoryInit => SizerInv
  /\ SizerInv /\ [HistoryNext]_historyVars => SizerInv'
<1>1. HistoryInit => SizerInv
  BY FreshSizerInv DEF HistoryInit, SizerInit
<1>2. ASSUME SizerInv, HistoryNext PROVE SizerInv'
  BY <1>2, RecordKeepsInv DEF HistoryNext, Success, Failure
<1>3. ASSUME SizerInv, UNCHANGED historyVars PROVE SizerInv'
  BY <1>3 DEF historyVars, SizerInv, SizerTypeOK, SizeInBounds
<1> QED BY <1>1, <1>2, <1>3

(* The size of every token is what its last failure left, doubled once for *)
(* every third success since and capped at the maximum, for every          *)
(* configuration and history (batch_sizer.go:49 and :71).                  *)
THEOREM SizesEarned == HistorySpec => []SizeIsEarned
<1>1. HistoryInit => SizerInv /\ HistoryInv
  BY HistorySizer, HistoryStart
<1>2. SizerInv /\ HistoryInv /\ [HistoryNext]_historyVars => SizerInv' /\ HistoryInv'
  BY HistorySizer, HistoryStep
<1>3. HistoryInv => SizeIsEarned
  BY DEF HistoryInv
<1> QED BY <1>1, <1>2, <1>3, PTL DEF HistorySpec

(* For every cursor and safe head of the program's integers the range      *)
(* handed out follows the cursor, ends at or below the safe head, and has  *)
(* the token's size unless the safe head cuts it (NextRange,               *)
(* batch_sizer.go:36).                                                     *)
THEOREM RangesFollow == HistorySpec => []RangeFollowsCursor
<1>1. HistoryInit => SizerInv
  BY HistorySizer
<1>2. SizerInv /\ [HistoryNext]_historyVars => SizerInv'
  BY HistorySizer
<1>3. SizerInv => RangeFollowsCursor
  <2> SUFFICES ASSUME SizerInv, NEW t \in Token, NEW last \in 0..MaxSafe,
                      NEW safe \in 0..MaxSafe, HasRange(last, safe)
               PROVE  LET to == NextTo(sizer[t].current, last, safe)
                      IN  /\ last < to /\ to <= safe
                          /\ to = safe \/ to - last = sizer[t].current
    BY DEF RangeFollowsCursor
  <2>1. InBounds(sizer[t])
    BY SizerInvUnfolded
  <2>2. /\ sizer[t].current \in Nat
        /\ minBatch <= sizer[t].current /\ sizer[t].current <= maxBatch
        /\ last \in Nat /\ safe \in Nat
        /\ last < Word - 1 /\ safe + maxBatch < Word
    BY <2>1, HistoryConstants DEF InBounds, BatchState
  <2> QED BY <2>2, RangeIsSane
<1> QED BY <1>1, <1>2, <1>3, PTL DEF HistorySpec

=============================================================================
