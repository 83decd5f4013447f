------------------------------- MODULE Loader -------------------------------
(***************************************************************************)
(* Syncer.loadBlocks (internal/indexer/syncer.go:241) with the             *)
(* BlockFetcher and its RateLimiter (internal/chain): the goroutines that  *)
(* fetch the blocks of one batch after another.  The walk of the ticks     *)
(* (FindRollbackBlock, reorg.go:27) reads its blocks with the same         *)
(* fetcher, in Run's own goroutine; what it makes of them is Syncer's.     *)
(*                                                                         *)
(* Each load has a launcher that starts one worker a block, as sem lets    *)
(* it, waits for all of them and closes results.  The caller receives the  *)
(* results and returns at the first error, while the launcher of that load *)
(* goes on in the background: it then shares the limiter and the node with *)
(* the next walk and the load of the next batch.                           *)
(*                                                                         *)
(* pc[w] of worker w = <<load, block>>, and of Walk up to returned:        *)
(*   none               not started                                        *)
(*   start              at the head of the loop over the attempts          *)
(*   timer              waiting for its slot in RateLimiter.wait           *)
(*   request            BlockByNumber is under way                         *)
(*   sleep              in sleepBackOff                                    *)
(*   returned           BlockByNumber has returned: a worker is about to   *)
(*                      send answer[w] to results                          *)
(*   release exit       the two deferred calls: <-sem, then wg.Done        *)
(*   finished                                                              *)
(* A local variable is reset where its function returns.                   *)
(***************************************************************************)
EXTENDS RateLimiter, Sequences, FiniteSets

CONSTANTS
  Loads,     \* bound: the calls of loadBlocks, one after another
  Count,     \* to - from + 1, the blocks of a load
  Reads,     \* bound: the blocks read by walks
  Settings   \* the configurations: <<attempts, backoff>>, with a negative
             \* number of attempts as 0

ASSUME LoaderAssumption == Loads \in Nat /\ Count \in Nat \ {0} /\ Reads \in Nat

ASSUME SettingsAssumption == Settings \subseteq Nat \X Nat

Load == 1..Loads
Block == 1..Count
Worker == Load \X Block

\* The walk, and all who call BlockByNumber.
Walk == <<0, 0>>
Caller == Worker \cup {Walk}

VARIABLES
  \* the configuration: chosen at the start, then fixed
  retries, retryBackoff,
  cancelled,    \* the context of Run
  panicked,     \* the process is dead
  nextRequest,  \* of the limiter, counted from now
  lastSlot,     \* history: the latest slot given, counted from now, or when
                \* it is longer ago than the interval that long ago
  \* the workers and the walk
  pc, attempt,
  left,         \* the time left on the timer of timer and sleep
  answer,       \* "none", "ok" or "error"
  reads,        \* how many blocks walks have asked for
  \* the loads
  load,         \* the last load begun, 0 at first
  launched,     \* how many workers the launcher has started
  sem,          \* the number of tokens in sem
  results,      \* the channel: [number, answer]
  closed,
  got,          \* the blocks the caller has received
  outcome       \* "none", "loading", "ok" or "error"

configVars == <<retries, retryBackoff>>
limitVars  == <<nextRequest, lastSlot>>
chanVars   == <<launched, sem, results, closed>>
callVars   == <<reads, load, got, outcome>>
vars == <<retries, retryBackoff, cancelled, panicked, nextRequest, lastSlot, pc,
          attempt, left, answer, reads, load, launched, sem, results, closed, got, outcome>>

-----------------------------------------------------------------------------
Init ==
  /\ \E config \in Settings : retries = config[1] /\ retryBackoff = config[2]
  /\ cancelled = FALSE /\ panicked = FALSE
  /\ nextRequest = Past /\ lastSlot = -Interval
  /\ pc = [w \in Caller |-> "none"]
  /\ attempt = [w \in Caller |-> 0]
  /\ left = [w \in Caller |-> 0]
  /\ answer = [w \in Caller |-> "none"]
  /\ reads = 0 /\ load = 0
  /\ launched = [k \in Load |-> 0]
  /\ sem = [k \in Load |-> 0]
  /\ results = [k \in Load |-> <<>>]
  /\ closed = [k \in Load |-> FALSE]
  /\ got = [k \in Load |-> <<>>]
  /\ outcome = [k \in Load |-> "none"]

\* A load has been begun and its launcher has not ended.
Running(k) == outcome[k] # "none" /\ ~closed[k]

-----------------------------------------------------------------------------
(* Run's goroutine: the walk, and the caller of loadBlocks *)

\* The walk is inside BlockByNumber.
WalkReads == pc[Walk] \in {"start", "timer", "request", "sleep"}

\* The next block the walk of this tick looks at, or the first of a new tick.
BeginRead ==
  /\ reads < Reads
  /\ ~WalkReads /\ \A k \in Load : outcome[k] # "loading"
  /\ reads' = reads + 1
  /\ pc' = [pc EXCEPT ![Walk] = "start"]
  /\ attempt' = [attempt EXCEPT ![Walk] = 0]
  /\ answer' = [answer EXCEPT ![Walk] = "none"]
  /\ UNCHANGED <<configVars, cancelled, panicked, limitVars, left, load, got, outcome,
                 chanVars>>

\* An error ends the walk and its tick; the next tick begins with the walk.
BeginLoad ==
  /\ load < Loads
  /\ ~WalkReads /\ answer[Walk] # "error"
  /\ \A k \in Load : outcome[k] # "loading"
  /\ load' = load + 1
  /\ outcome' = [outcome EXCEPT ![load + 1] = "loading"]
  /\ UNCHANGED <<configVars, cancelled, panicked, limitVars, pc, attempt, left,
                 answer, chanVars, reads, got>>

\* Mutant: an error does not end the load.
ReceiveAll(k) ==
  /\ outcome[k] = "loading" /\ results[k] # <<>>
  /\ LET r == Head(results[k])
     IN  IF r.answer = "ok" THEN got' = [got EXCEPT ![k] = Append(@, r.number)]
                            ELSE UNCHANGED got
  /\ results' = [results EXCEPT ![k] = Tail(@)]
  /\ UNCHANGED <<configVars, cancelled, panicked, limitVars, pc, attempt, left,
                 answer, reads, load, outcome, launched, sem, closed>>

Receive(k) ==
  /\ outcome[k] = "loading" /\ results[k] # <<>>
  /\ LET r == Head(results[k])
     IN  IF r.answer = "ok"
         THEN got' = [got EXCEPT ![k] = Append(@, r.number)] /\ UNCHANGED outcome
         ELSE outcome' = [outcome EXCEPT ![k] = "error"] /\ UNCHANGED got
  /\ results' = [results EXCEPT ![k] = Tail(@)]
  /\ UNCHANGED <<configVars, cancelled, panicked, limitVars, pc, attempt, left,
                 answer, reads, load, launched, sem, closed>>

\* The loop over results ends when the channel is closed and empty.
Return(k) ==
  /\ outcome[k] = "loading" /\ results[k] = <<>> /\ closed[k]
  /\ outcome' = [outcome EXCEPT ![k] = "ok"]
  /\ UNCHANGED <<configVars, cancelled, panicked, limitVars, pc, attempt, left,
                 answer, reads, load, chanVars, got>>

-----------------------------------------------------------------------------
(* The launcher *)

\* Mutant: room for two tokens.
SemRoomForTwo(k) == sem[k] < 2

\* sem is a channel with room for one token.
SemHasRoom(k) == sem[k] < 1

Launch(k) ==
  /\ Running(k) /\ launched[k] < Count
  /\ SemHasRoom(k)
  /\ sem' = [sem EXCEPT ![k] = @ + 1]
  /\ launched' = [launched EXCEPT ![k] = @ + 1]
  /\ pc' = [pc EXCEPT ![<<k, launched[k] + 1>>] = "start"]
  /\ UNCHANGED <<configVars, cancelled, panicked, limitVars, attempt, left, answer,
                 callVars, results, closed>>

\* Mutant: wg.Add is called by the worker, which may not have begun.
AllBegunDone(k) == \A n \in 1..launched[k] : pc[<<k, n>>] \in {"start", "finished"}

\* wg.Wait: all the workers that were started have called wg.Done.
AllDone(k) == \A n \in 1..launched[k] : pc[<<k, n>>] = "finished"

Close(k) ==
  /\ Running(k) /\ launched[k] = Count
  /\ AllDone(k)
  /\ closed' = [closed EXCEPT ![k] = TRUE]
  /\ UNCHANGED <<configVars, cancelled, panicked, limitVars, pc, attempt, left,
                 answer, callVars, launched, sem, results>>

-----------------------------------------------------------------------------
(* BlockFetcher.BlockByNumber, called by a worker or the walk *)

Goto(w, place) == pc' = [pc EXCEPT ![w] = place]

Fails(w) ==
  /\ Goto(w, "returned")
  /\ answer' = [answer EXCEPT ![w] = "error"]

\* No attempt is left at the head of the loop only when there never was one.
NoAttempt(w) ==
  /\ pc[w] = "start" /\ attempt[w] >= retries
  /\ Fails(w)
  /\ UNCHANGED <<configVars, cancelled, panicked, limitVars, attempt, left, callVars,
                 chanVars>>

\* RateLimiter.wait: a slot, and a timer unless the slot is now.
Reserve(w) ==
  /\ pc[w] = "start" /\ attempt[w] < retries
  /\ IF Interval = 0
     THEN Goto(w, "request") /\ UNCHANGED <<limitVars, left>>
     ELSE /\ nextRequest' = NextAfter(nextRequest)
          /\ lastSlot' = Slot(nextRequest)
          /\ left' = [left EXCEPT ![w] = Slot(nextRequest)]
          /\ Goto(w, IF Slot(nextRequest) > 0 THEN "timer" ELSE "request")
  /\ UNCHANGED <<configVars, cancelled, panicked, attempt, answer, callVars, chanVars>>

SlotComes(w) ==
  /\ pc[w] = "timer" /\ left[w] = 0
  /\ Goto(w, "request")
  /\ UNCHANGED <<configVars, cancelled, panicked, limitVars, attempt, left, answer,
                 callVars, chanVars>>

\* The context ends either wait; the slot reserved stays reserved.
WaitCancelled(w) ==
  /\ pc[w] \in {"timer", "sleep"} /\ cancelled
  /\ Fails(w)
  /\ left' = [left EXCEPT ![w] = 0]
  /\ attempt' = [attempt EXCEPT ![w] = 0]
  /\ UNCHANGED <<configVars, cancelled, panicked, limitVars, callVars, chanVars>>

Answered(w) ==
  /\ pc[w] = "request"
  /\ Goto(w, "returned")
  /\ answer' = [answer EXCEPT ![w] = "ok"]
  /\ attempt' = [attempt EXCEPT ![w] = 0]
  /\ UNCHANGED <<configVars, cancelled, panicked, limitVars, left, callVars, chanVars>>

\* Mutant: one attempt fewer is the last.
LastButOne(a) == a = retries - 2

IsLast(a) == a = retries - 1

\* The node, the connection or the cancelled context answers with an error.
LastFailed(w) ==
  /\ pc[w] = "request" /\ IsLast(attempt[w])
  /\ Fails(w)
  /\ UNCHANGED <<configVars, cancelled, panicked, limitVars, attempt, left, callVars,
                 chanVars>>

NextAttempt(w) ==
  /\ Goto(w, "start")
  /\ attempt' = [attempt EXCEPT ![w] = @ + 1]

FailedNoBackoff(w) ==
  /\ pc[w] = "request" /\ ~IsLast(attempt[w]) /\ retryBackoff = 0
  /\ NextAttempt(w)
  /\ UNCHANGED <<configVars, cancelled, panicked, limitVars, left, answer, callVars,
                 chanVars>>

FailedBackoff(w) ==
  /\ pc[w] = "request" /\ ~IsLast(attempt[w]) /\ retryBackoff > 0
  /\ \E wait \in Backoffs(retryBackoff, attempt[w]) :
       left' = [left EXCEPT ![w] = wait]
  /\ Goto(w, "sleep")
  /\ UNCHANGED <<configVars, cancelled, panicked, limitVars, attempt, answer,
                 callVars, chanVars>>

\* rand.Int63n(0)
FailedPanic(w) ==
  /\ pc[w] = "request" /\ ~IsLast(attempt[w]) /\ retryBackoff > 0
  /\ Backoffs(retryBackoff, attempt[w]) = {}
  /\ panicked' = TRUE
  /\ UNCHANGED <<configVars, cancelled, limitVars, pc, attempt, left, answer,
                 callVars, chanVars>>

Wakes(w) ==
  /\ pc[w] = "sleep" /\ left[w] = 0
  /\ NextAttempt(w)
  /\ UNCHANGED <<configVars, cancelled, panicked, limitVars, left, answer, callVars,
                 chanVars>>

-----------------------------------------------------------------------------
(* A worker after BlockByNumber *)

\* results is a channel with room for all the results of the load.
ResultsHaveRoom(k) == Len(results[k]) < Count

Send(w) ==
  /\ pc[w] = "returned" /\ ResultsHaveRoom(w[1])
  /\ results' = [results EXCEPT ![w[1]] =
                   Append(@, [number |-> w[2], answer |-> answer[w]])]
  /\ Goto(w, "release")
  /\ UNCHANGED <<configVars, cancelled, panicked, limitVars, attempt, left, answer,
                 callVars, launched, sem, closed>>

\* Mutant: the token is given back by a worker that succeeds only.
ReleaseOnSuccess(w) ==
  /\ pc[w] = "release" /\ sem[w[1]] > 0
  /\ sem' = [sem EXCEPT ![w[1]] = IF answer[w] = "ok" THEN @ - 1 ELSE @]
  /\ Goto(w, "exit")
  /\ UNCHANGED <<configVars, cancelled, panicked, limitVars, attempt, left, answer,
                 callVars, launched, results, closed>>

Release(w) ==
  /\ pc[w] = "release" /\ sem[w[1]] > 0
  /\ sem' = [sem EXCEPT ![w[1]] = @ - 1]
  /\ Goto(w, "exit")
  /\ UNCHANGED <<configVars, cancelled, panicked, limitVars, attempt, left, answer,
                 callVars, launched, results, closed>>

Exit(w) ==
  /\ pc[w] = "exit"
  /\ Goto(w, "finished")
  /\ UNCHANGED <<configVars, cancelled, panicked, limitVars, attempt, left, answer,
                 callVars, chanVars>>

-----------------------------------------------------------------------------
(* Time, and the end of the process *)

\* A timer fires when its time has passed, or later.
Pass ==
  /\ nextRequest' = Sooner(nextRequest)
  /\ lastSlot' = IF lastSlot > -Interval THEN lastSlot - 1 ELSE lastSlot
  /\ left' = [w \in Caller |-> IF left[w] > 0 THEN left[w] - 1 ELSE 0]
  /\ UNCHANGED <<configVars, cancelled, panicked, pc, attempt, answer, callVars,
                 chanVars>>

Cancel ==
  /\ ~cancelled
  /\ cancelled' = TRUE
  /\ UNCHANGED <<configVars, panicked, limitVars, pc, attempt, left, answer,
                 callVars, chanVars>>

-----------------------------------------------------------------------------
FetchStep(w) ==
  \/ NoAttempt(w) \/ Reserve(w) \/ SlotComes(w) \/ WaitCancelled(w) \/ Answered(w)
  \/ LastFailed(w) \/ FailedNoBackoff(w) \/ FailedBackoff(w) \/ FailedPanic(w)
  \/ Wakes(w)

WorkerStep(w) == Send(w) \/ Release(w) \/ Exit(w)

Work ==
  /\ ~panicked
  /\ \/ \E k \in Load : Receive(k) \/ Return(k) \/ Launch(k) \/ Close(k)
     \/ \E w \in Caller : FetchStep(w)
     \/ \E w \in Worker : WorkerStep(w)

Next ==
  \/ Work
  \/ ~panicked /\ (BeginRead \/ BeginLoad \/ Pass \/ Cancel)

Spec == Init /\ [][Next]_vars

\* The scheduler runs the goroutines, the node answers each request in time or
\* with an error, and time passes.  A walk or a batch need not begin.
FairSpec == Spec /\ WF_vars(Work) /\ WF_vars(~panicked /\ Pass)

=============================================================================
