--------------------------- MODULE LoaderInvariant ---------------------------
(***************************************************************************)
(* The inductive invariants behind the properties of Loader that hold for  *)
(* every number of loads, blocks and attempts.                             *)
(***************************************************************************)
EXTENDS LoaderProperties

\* What a worker sends.
Sendable == [number : Block, answer : {"ok", "error"}]

\* The part of the type invariant the proofs need: nothing of the timers.
LoadType ==
  /\ pc \in [Caller -> {"none", "start", "timer", "request", "sleep", "returned",
                        "release", "exit", "finished"}]
  /\ answer \in [Caller -> {"none", "ok", "error"}]
  /\ reads \in 0..Reads /\ load \in 0..Loads
  /\ launched \in [Load -> 0..Count]
  /\ sem \in [Load -> Nat]
  /\ results \in [Load -> Seq(Sendable)]
  /\ closed \in [Load -> BOOLEAN]
  /\ got \in [Load -> Seq(Block)]
  /\ outcome \in [Load -> {"none", "loading", "ok", "error"}]

\* A load not begun has left no trace, and there is one after the last begun.
Unbegun ==
  /\ \A k \in Load : k > load => outcome[k] = "none"
  /\ \A k \in Load : outcome[k] = "none" =>
       launched[k] = 0 /\ ~closed[k] /\ results[k] = <<>> /\ got[k] = <<>>

\* The workers started are those with the numbers up to launched.
StartedInOrder ==
  \A w \in Worker : pc[w] = "none" <=> w[2] > launched[w[1]]

ClosedAtEnd ==
  \A k \in Load : closed[k] =>
    /\ launched[k] = Count
    /\ \A n \in Block : pc[<<k, n>>] = "finished"

AnswerKnown == \A w \in Worker : pc[w] = "returned" => answer[w] # "none"

HasSent(w) == pc[w] \in {"release", "exit", "finished"}

\* How many answers of load k were received or wait in the channel.
SentCount(k) == Len(got[k]) + Len(results[k])

\* While the caller receives, the answers of the workers that have sent are
\* those received and then those in the channel, in the order of the blocks.
AnswersInOrder ==
  \A k \in Load : outcome[k] \in {"none", "loading"} =>
    /\ SentCount(k) <= launched[k]
    /\ \A i \in 1..Len(results[k]) : results[k][i].number = Len(got[k]) + i
    /\ \A n \in Block : HasSent(<<k, n>>) <=> n <= SentCount(k)

LoadInv ==
  /\ LoadType /\ Unbegun /\ StartedInOrder /\ OneBlockAtATime /\ ClosedAtEnd
  /\ AnswerKnown /\ AnswersInOrder /\ AnswerComplete

\* The limiter's next slot is an interval after the latest one it gave.
SlotInv ==
  /\ nextRequest \in Int /\ nextRequest >= Past
  /\ lastSlot \in Int
  /\ Interval > 0 =>
       lastSlot = (IF nextRequest < 0 THEN 0 ELSE nextRequest) - Interval

\* The rest of the type invariant.
TimerType ==
  /\ <<retries, retryBackoff>> \in Settings
  /\ cancelled \in BOOLEAN /\ panicked \in BOOLEAN
  /\ nextRequest \in Int /\ Past <= nextRequest
  /\ lastSlot \in Int /\ -Interval <= lastSlot
  /\ attempt \in [Caller -> Nat] /\ left \in [Caller -> Nat]

\* A caller begins with its first attempt, and asks the node, or waits to, only
\* while an attempt is left.
AttemptsLeft ==
  \A w \in Caller :
    /\ pc[w] = "none" => attempt[w] = 0
    /\ pc[w] = "start" => attempt[w] < retries \/ (attempt[w] = 0 /\ retries = 0)
    /\ pc[w] \in {"timer", "request"} => attempt[w] < retries
    /\ pc[w] = "sleep" => attempt[w] + 1 < retries

\* BlockByNumber returned an error to the worker.
Failed(w) == answer[w] = "error" /\ pc[w] \in {"returned", "release", "exit", "finished"}

ErrorsCounted ==
  \A w \in Worker : Failed(w) => cancelled \/ retries \in {0, attempt[w] + 1}

\* The errors in the channel, and the one that ended a load, are the workers'.
ErrorsSent ==
  \A k \in Load : \A i \in 1..Len(results[k]) :
    results[k][i].answer = "error" => Failed(<<k, results[k][i].number>>)

ErrorsReceived ==
  \A k \in Load : outcome[k] = "error" => \E n \in Block : Failed(<<k, n>>)

ErrorInv == AttemptsLeft /\ ErrorsCounted /\ ErrorsSent /\ ErrorsReceived

\* The slots still to come that a worker or the walk waits for.
Waiting == {left[w] : w \in {v \in Caller : pc[v] = "timer" /\ left[v] > 0}}

\* Unless the context ended some wait, a caller waits for each of the slots
\* that were given and are still to come: they are an interval apart.
SlotsTaken ==
  ~cancelled =>
    /\ Interval = 0 => nextRequest = Past
    /\ \A moment \in Waiting \cup {nextRequest} :
         moment > Interval => moment - Interval \in Waiting

FetchInv == TimerType /\ ErrorInv /\ SlotsTaken /\ SleepBounded /\ PanicNeedsOne

=============================================================================
