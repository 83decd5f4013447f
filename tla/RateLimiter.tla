----------------------------- MODULE RateLimiter -----------------------------
(***************************************************************************)
(* internal/chain/rate_limiter.go and retry.go: when a request may be      *)
(* sent, and how long a failed one waits for its next attempt.             *)
(*                                                                         *)
(* Moments are counted from now: a positive one is still to come.  All     *)
(* that passed are alike to the limiter and are kept as Past.              *)
(***************************************************************************)
EXTENDS Integers

CONSTANTS
  Interval,   \* the limiter's interval; no limiter when 0
  MaxBackoff  \* maxBackoff

ASSUME LimiterAssumption == Interval \in Nat /\ MaxBackoff \in Nat /\ MaxBackoff > 1

Past == -1

-----------------------------------------------------------------------------
(* reserveWait, under the limiter's mutex *)

\* The slot of a caller.
Slot(nextRequest) == IF nextRequest < 0 THEN 0 ELSE nextRequest

\* Mutant: callers that come early all get the same slot.
NextAfterSame(nextRequest) ==
  IF nextRequest < 0 THEN Interval ELSE nextRequest

\* nextRequest after the reservation.
NextAfter(nextRequest) ==
  IF nextRequest < 0 THEN Interval ELSE nextRequest + Interval

\* Mutant: a moment long past is not like any other.
SoonerForever(moment) == moment - 1

\* One unit of time passes.
Sooner(moment) == IF moment > Past THEN moment - 1 ELSE Past

-----------------------------------------------------------------------------
(* sleepBackOff *)

\* Mutant: the doubled wait is not capped.
Uncapped(base, attempt) == base * 2^attempt

\* base doubled attempt times; the cap is looked at after each doubling.
Doubled(base, attempt) ==
  LET wait[i \in 0..attempt] ==
        IF i = 0 THEN base
        ELSE IF wait[i - 1] * 2 >= MaxBackoff THEN MaxBackoff ELSE wait[i - 1] * 2
  IN  wait[attempt]

\* Mutant: the random part is up to a quarter of the wait.
JittersOfQuarter(wait) == wait \div 4

\* The random part is one of this many values: Int63n panics when there are
\* none.
Jitters(wait) == wait \div 2

\* The waits between an attempt and the next one.
Backoffs(base, attempt) ==
  LET wait == Doubled(base, attempt)
  IN  wait..(wait + Jitters(wait) - 1)

=============================================================================
