-------------------------- MODULE LoaderProperties --------------------------
(***************************************************************************)
(* What loadBlocks and its fetcher promise the batch, the node and the     *)
(* process, also while a load that failed still runs in the background.    *)
(***************************************************************************)
EXTENDS Loader

TypeOK ==
  /\ <<retries, retryBackoff>> \in Settings
  /\ cancelled \in BOOLEAN /\ panicked \in BOOLEAN
  /\ nextRequest \in Int /\ Past <= nextRequest
  /\ lastSlot \in Int /\ -Interval <= lastSlot
  /\ pc \in [Caller -> {"none", "start", "timer", "request", "sleep", "returned",
                        "release", "exit", "finished"}]
  /\ attempt \in [Caller -> Nat] /\ left \in [Caller -> Nat]
  /\ answer \in [Caller -> {"none", "ok", "error"}]
  /\ reads \in 0..Reads /\ load \in 0..Loads
  /\ launched \in [Load -> 0..Count]
  /\ sem \in [Load -> Nat]
  /\ results \in [Load -> Seq([number : Block, answer : {"ok", "error"}])]
  /\ closed \in [Load -> BOOLEAN]
  /\ got \in [Load -> Seq(Block)]
  /\ outcome \in [Load -> {"none", "loading", "ok", "error"}]

-----------------------------------------------------------------------------
(* Safety *)

\* A worker between the launcher's sem <- and its own <-sem.
Holds(w) == pc[w] \in {"start", "timer", "request", "sleep", "returned", "release"}

(* A load has at most one block under way, whichever of the two deferred   *)
(* calls of the last worker has run (syncer.go:257, 261): the worker that  *)
(* holds the token is the last one launched.                               *)
OneBlockAtATime ==
  \A w \in Worker : Holds(w) => w[2] = launched[w[1]] /\ sem[w[1]] = 1

(* Nothing is sent to a closed channel, which would panic: when the        *)
(* launcher closes results every worker of the load was started and has    *)
(* sent (syncer.go:266), also when the caller returned long ago.           *)
NoSendAfterClose ==
  \A w \in Worker : closed[w[1]] => pc[w] \in {"release", "exit", "finished"}

(* The caller gets the blocks in the order of their numbers, and a load    *)
(* that succeeds has all of them, with no goroutine of it left running     *)
(* (syncer.go:270).                                                        *)
AnswerComplete ==
  \A k \in Load :
    /\ \A i \in 1..Len(got[k]) : got[k][i] = i
    /\ outcome[k] = "ok" => Len(got[k]) = Count /\ closed[k]

(* A load fails only because the context was cancelled or because one of   *)
(* its blocks was refused as often as configured (blocks.go:32, the loop   *)
(* over the attempts) - also when that number is zero and no request was   *)
(* ever made.                                                              *)
ErrorIsEarned ==
  \A k \in Load : outcome[k] = "error" =>
    \/ cancelled
    \/ \E n \in Block : /\ answer[<<k, n>>] = "error"
                        /\ retries \in {0, attempt[<<k, n>>] + 1}

(* Each load, also one left in the background, reserves one slot at a      *)
(* time, and so does the walk, which shares the fetcher (syncer.go:40,     *)
(* reorg.go:44): the limiter (rate_limiter.go:39) never gets further ahead *)
(* than an interval for each load that runs, one for the walk while it     *)
(* reads a block, and one for the request before.                          *)
BacklogBounded ==
  ~cancelled =>
    nextRequest <= Interval * (1 + Cardinality({k \in Load : Running(k)})
                                 + IF WalkReads THEN 1 ELSE 0)

(* A wait between two attempts is at most one and a half times maxBackoff, *)
(* or the configured backoff where that is longer, which is not capped     *)
(* before the first retry (retry.go:16).                                   *)
SleepBounded ==
  \A w \in Caller : pc[w] = "sleep" =>
    2 * left[w] < 3 * (IF retryBackoff > MaxBackoff THEN retryBackoff ELSE MaxBackoff)

(* The only configured backoff with which the random part of the wait has  *)
(* no value to choose from, so that Int63n panics, is one nanosecond       *)
(* (retry.go:23), and only when an attempt is repeated.                    *)
PanicNeedsOne == panicked => retryBackoff = 1 /\ retries > 1

-----------------------------------------------------------------------------
(* Steps *)

(* The slots the limiter gives are at least an interval apart, whichever   *)
(* loads or walks ask and whether or not the callers before came late or   *)
(* were cancelled (rate_limiter.go:39).  A timer that fires late may still *)
(* bring two requests closer together.                                     *)
SlotsApart ==
  [][\A w \in Caller : Reserve(w) /\ Interval > 0 => lastSlot' - lastSlot >= Interval]_vars

-----------------------------------------------------------------------------
(* Liveness *)

(* Every load that is begun returns, and its launcher and workers end too, *)
(* even when nobody receives the results any more (syncer.go:252, 259).    *)
LoadsEnd ==
  \A k \in Load :
    outcome[k] # "none" ~> panicked \/ (closed[k] /\ outcome[k] # "loading")

=============================================================================
