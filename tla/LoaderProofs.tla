---------------------------- MODULE LoaderProofs ----------------------------
(***************************************************************************)
(* What holds of Loader for every number of loads, blocks and attempts and *)
(* every interval, machine-checked.                                        *)
(***************************************************************************)
EXTENDS LoaderInvariant, RecursionProofs

\* The places of a caller whose BlockByNumber has not returned.
Fetching == {"start", "timer", "request", "sleep"}

\* A step of caller w inside BlockByNumber, as the load sees it.
Fetches(w) ==
  /\ pc[w] \in Fetching
  /\ \/ \E p \in Fetching : Goto(w, p) /\ UNCHANGED answer
     \/ \E a \in {"ok", "error"} :
          Goto(w, "returned") /\ answer' = [answer EXCEPT ![w] = a]
  /\ UNCHANGED <<callVars, chanVars>>

loadVars == <<pc, answer, callVars, chanVars>>

\* A step of a caller.
CallerStep(w) == FetchStep(w) \/ (w \in Worker /\ WorkerStep(w))

\* The walk is no worker.
LEMMA Callers == Worker \subseteq Caller /\ Walk \in Caller /\ Walk \notin Worker
BY DEF Caller, Worker, Load, Walk

\* The steps that are neither a worker's nor inside BlockByNumber.
LoadStep ==
  \/ \E k \in Load : Receive(k) \/ Return(k) \/ Launch(k) \/ Close(k)
  \/ BeginRead \/ BeginLoad \/ Pass \/ Cancel \/ UNCHANGED vars

LEMMA StepKinds ==
  ASSUME [Next]_vars
  PROVE  LoadStep \/ \E w \in Caller : CallerStep(w)
BY Callers DEF Next, Work, LoadStep, CallerStep

-----------------------------------------------------------------------------
(* Sequences *)

\* The first element of a sequence and the rest.
LEMMA HeadAndTail ==
  ASSUME NEW S, NEW s \in Seq(S), s # <<>>
  PROVE  /\ Len(s) \in Nat \ {0} /\ Head(s) \in S /\ Head(s) = s[1]
         /\ Tail(s) \in Seq(S) /\ Len(Tail(s)) = Len(s) - 1
         /\ \A i \in 1..Len(Tail(s)) : Tail(s)[i] = s[i + 1]
  OBVIOUS

\* An element more at the end.
LEMMA Appended ==
  ASSUME NEW S, NEW s \in Seq(S), NEW e \in S
  PROVE  /\ Append(s, e) \in Seq(S) /\ Len(Append(s, e)) = Len(s) + 1
         /\ \A i \in 1..Len(s) : Append(s, e)[i] = s[i]
         /\ Append(s, e)[Len(s) + 1] = e
  OBVIOUS

-----------------------------------------------------------------------------
(* The invariant of the loads *)

\* Nothing is begun in the initial states.
LEMMA LoadInvInit == Init => LoadInv
<1> SUFFICES ASSUME Init PROVE LoadInv
  OBVIOUS
<1> USE LoaderAssumption, Callers DEF Init, Load, Block, Worker
<1>1. LoadType
  BY DEF LoadType
<1>2. Unbegun /\ StartedInOrder /\ OneBlockAtATime /\ ClosedAtEnd /\ AnswerKnown
  BY DEF Unbegun, StartedInOrder, OneBlockAtATime, ClosedAtEnd, AnswerKnown, Holds
<1>3. AnswersInOrder
  <2>1. \A k \in Load, n \in Block : pc[<<k, n>>] = "none"
    OBVIOUS
  <2> QED BY <2>1 DEF AnswersInOrder, SentCount, HasSent
<1>4. AnswerComplete
  BY DEF AnswerComplete
<1> QED BY <1>1, <1>2, <1>3, <1>4 DEF LoadInv

\* The steps that change nothing the invariant speaks of.
LEMMA LoadFrame == ASSUME LoadInv, UNCHANGED loadVars PROVE LoadInv'
<1> USE DEF LoadInv, loadVars, callVars, chanVars
<1>1. LoadType'
  BY DEF LoadType
<1>2. Unbegun' /\ StartedInOrder' /\ OneBlockAtATime'
  BY DEF Unbegun, StartedInOrder, OneBlockAtATime, Holds
<1>3. ClosedAtEnd' /\ AnswerKnown'
  BY DEF ClosedAtEnd, AnswerKnown
<1>4. AnswersInOrder' /\ AnswerComplete'
  BY DEF AnswersInOrder, AnswerComplete, SentCount, HasSent
<1> QED BY <1>1, <1>2, <1>3, <1>4

\* A load is begun.
LEMMA BeginStep == ASSUME LoadInv, BeginLoad PROVE LoadInv'
<1> USE LoaderAssumption DEF LoadInv, BeginLoad, Load, chanVars
<1>1. load + 1 \in Load /\ outcome[load + 1] = "none"
  BY DEF LoadType, Unbegun
<1>2. LoadType'
  <2>1. load' \in 0..Loads
    BY <1>1 DEF LoadType
  <2>2. outcome' \in [Load -> {"none", "loading", "ok", "error"}]
    BY <1>1 DEF LoadType
  <2> QED BY <2>1, <2>2 DEF LoadType
<1>3. Unbegun'
  <2>1. \A k \in Load : outcome'[k] = IF k = load + 1 THEN "loading" ELSE outcome[k]
    BY <1>1 DEF LoadType
  <2>2. load \in Nat
    BY DEF LoadType
  <2> QED BY <2>1, <2>2 DEF Unbegun
<1>4. StartedInOrder' /\ OneBlockAtATime' /\ ClosedAtEnd' /\ AnswerKnown'
  BY DEF StartedInOrder, OneBlockAtATime, ClosedAtEnd, AnswerKnown, Holds
<1>5. AnswersInOrder'
  BY <1>1 DEF LoadType, AnswersInOrder, SentCount, HasSent
<1>6. AnswerComplete'
  BY <1>1 DEF LoadType, AnswerComplete
<1> QED BY <1>2, <1>3, <1>4, <1>5, <1>6

\* The walk asks for a block.
LEMMA ReadStep == ASSUME LoadInv, BeginRead PROVE LoadInv'
<1> USE Callers DEF LoadInv, BeginRead, chanVars
<1>1. LoadType'
  BY LoaderAssumption DEF LoadType
<1>2. \A w \in Worker : pc'[w] = pc[w] /\ answer'[w] = answer[w]
  BY DEF LoadType
<1>3. \A k \in Load, n \in Block : pc'[<<k, n>>] = pc[<<k, n>>]
  BY <1>2 DEF Worker
<1>4. Unbegun' /\ StartedInOrder' /\ OneBlockAtATime'
  BY <1>2 DEF Unbegun, StartedInOrder, OneBlockAtATime, Holds
<1>5. ClosedAtEnd' /\ AnswerKnown'
  BY <1>2, <1>3 DEF ClosedAtEnd, AnswerKnown
<1>6. AnswersInOrder' /\ AnswerComplete'
  BY <1>3 DEF AnswersInOrder, AnswerComplete, SentCount, HasSent
<1> QED BY <1>1, <1>4, <1>5, <1>6

\* The caller receives an answer.
LEMMA ReceiveStep == ASSUME LoadInv, NEW k \in Load, Receive(k) PROVE LoadInv'
<1> DEFINE r == Head(results[k])
<1> USE DEF LoadInv, Receive
<1>1. /\ results[k] \in Seq(Sendable)
      /\ results[k] # <<>> /\ Len(results[k]) \in Nat \ {0}
      /\ r \in Sendable /\ r = results[k][1]
      /\ Tail(results[k]) \in Seq(Sendable)
      /\ Len(Tail(results[k])) = Len(results[k]) - 1
      /\ \A i \in 1..Len(Tail(results[k])) : Tail(results[k])[i] = results[k][i + 1]
  BY HeadAndTail DEF LoadType
<1>2. got[k] \in Seq(Block) /\ Len(got[k]) \in Nat
  BY DEF LoadType
<1>3. r.number = Len(got[k]) + 1
  BY <1>1, <1>2 DEF AnswersInOrder
<1>4. /\ Append(got[k], r.number) \in Seq(Block)
      /\ Len(Append(got[k], r.number)) = Len(got[k]) + 1
      /\ \A i \in 1..Len(got[k]) : Append(got[k], r.number)[i] = got[k][i]
      /\ Append(got[k], r.number)[Len(got[k]) + 1] = r.number
  <2>1. r.number \in Block
    BY <1>1 DEF Sendable
  <2> QED BY <2>1, <1>2, Appended
<1>5. LoadType'
  BY <1>1, <1>4 DEF LoadType
<1>6. Unbegun'
  BY DEF LoadType, Unbegun
<1>7. StartedInOrder' /\ OneBlockAtATime' /\ ClosedAtEnd' /\ AnswerKnown'
  BY DEF StartedInOrder, OneBlockAtATime, ClosedAtEnd, AnswerKnown, Holds
<1>8. AnswersInOrder'
  <2> SUFFICES ASSUME NEW j \in Load, outcome'[j] \in {"none", "loading"}
               PROVE  /\ SentCount(j)' <= launched[j]
                      /\ \A i \in 1..Len(results'[j]) :
                           results'[j][i].number = Len(got'[j]) + i
                      /\ \A n \in Block : HasSent(<<j, n>>) <=> n <= SentCount(j)'
    BY DEF AnswersInOrder, HasSent
  <2>1. CASE j # k
    BY <2>1 DEF LoadType, AnswersInOrder, SentCount
  <2>2. CASE j = k
    <3>1. r.answer = "ok"
      BY <2>2 DEF LoadType
    <3>2. /\ got'[k] = Append(got[k], r.number) /\ results'[k] = Tail(results[k])
          /\ outcome[k] = "loading" /\ launched' = launched
      BY <3>1 DEF LoadType
    <3>3. Len(got'[k]) = Len(got[k]) + 1 /\ Len(results'[k]) = Len(results[k]) - 1
      BY <3>2, <1>1, <1>4
    <3>4. SentCount(k)' = SentCount(k)
      <4> DEFINE g == Len(got[k])
                 l == Len(results[k])
      <4>1. SentCount(k)' = (g + 1) + (l - 1)
        BY <3>3 DEF SentCount
      <4>2. SentCount(k) = g + l
        BY DEF SentCount
      <4>3. g \in Nat /\ l \in Nat
        BY <1>1, <1>2
      <4> HIDE DEF g, l
      <4> QED BY <4>1, <4>2, <4>3
    <3>5. \A i \in 1..Len(results'[k]) : results'[k][i].number = Len(got'[k]) + i
      <4>1. \A i \in 1..Len(results[k]) : results[k][i].number = Len(got[k]) + i
        BY <3>2 DEF AnswersInOrder
      <4> TAKE i \in 1..Len(results'[k])
      <4>2. i + 1 \in 1..Len(results[k]) /\ results'[k][i] = results[k][i + 1]
        BY <1>1, <3>2, <3>3
      <4> QED BY <4>1, <4>2, <3>3, <1>2
    <3> QED BY <2>2, <3>2, <3>4, <3>5 DEF AnswersInOrder
  <2> QED BY <2>1, <2>2
<1>9. AnswerComplete'
  <2>1. \A j \in Load : outcome'[j] = "ok" => outcome[j] = "ok" /\ j # k
    BY DEF LoadType
  <2>2. \A j \in Load : j # k => got'[j] = got[j]
    BY DEF LoadType
  <2>3. got'[k] = got[k] \/ got'[k] = Append(got[k], r.number)
    BY DEF LoadType
  <2>4. \A i \in 1..Len(got'[k]) : got'[k][i] = i
    <3>1. \A i \in 1..Len(got[k]) : got[k][i] = i
      BY DEF AnswerComplete
    <3>2. CASE got'[k] = Append(got[k], r.number)
      BY <3>1, <3>2, <1>2, <1>3, <1>4
    <3> QED BY <2>3, <3>1, <3>2
  <2> QED BY <2>1, <2>2, <2>4 DEF AnswerComplete
<1> QED BY <1>5, <1>6, <1>7, <1>8, <1>9

\* The caller returns what it has received: all of the blocks.
LEMMA ReturnStep == ASSUME LoadInv, NEW k \in Load, Return(k) PROVE LoadInv'
<1> USE LoaderAssumption DEF LoadInv, Return, chanVars
<1>1. LoadType' /\ Unbegun'
  BY DEF LoadType, Unbegun
<1>2. StartedInOrder' /\ OneBlockAtATime' /\ ClosedAtEnd' /\ AnswerKnown'
  BY DEF StartedInOrder, OneBlockAtATime, ClosedAtEnd, AnswerKnown, Holds
<1>3. AnswersInOrder'
  BY DEF LoadType, AnswersInOrder, SentCount, HasSent
<1>4. Len(got[k]) = Count
  <2>1. Len(got[k]) \in Nat /\ Len(results[k]) = 0 /\ launched[k] = Count
    BY DEF LoadType, ClosedAtEnd
  <2>2. Count \in Block /\ HasSent(<<k, Count>>)
    BY DEF Block, ClosedAtEnd, HasSent
  <2>3. SentCount(k) = Len(got[k])
    BY <2>1 DEF SentCount
  <2>4. SentCount(k) <= Count /\ Count <= SentCount(k)
    BY <2>1, <2>2 DEF AnswersInOrder
  <2> QED BY <2>1, <2>3, <2>4
<1>5. AnswerComplete'
  BY <1>4 DEF LoadType, AnswerComplete
<1> QED BY <1>1, <1>2, <1>3, <1>5

-----------------------------------------------------------------------------
\* The launcher starts the next worker: no other holds the token.
LEMMA LaunchStep == ASSUME LoadInv, NEW k \in Load, Launch(k) PROVE LoadInv'
<1> DEFINE n == launched[k] + 1
           w == <<k, n>>
<1> USE LoaderAssumption, Callers DEF LoadInv, Launch, Running, SemHasRoom, callVars
<1>1. /\ n \in Block /\ w \in Worker /\ pc[w] = "none" /\ ~closed[k]
      /\ sem[k] = 0 /\ outcome[k] # "none"
  BY DEF LoadType, Block, Worker, StartedInOrder
<1>2. LoadType'
  BY <1>1 DEF LoadType, Block
<1>3. Unbegun'
  BY <1>1 DEF LoadType, Unbegun
<1>4. StartedInOrder'
  BY <1>1 DEF LoadType, StartedInOrder, Worker, Block
<1>5. OneBlockAtATime'
  <2> SUFFICES ASSUME NEW v \in Worker, Holds(v)'
               PROVE  v[2] = launched'[v[1]] /\ sem'[v[1]] = 1
    BY DEF OneBlockAtATime
  <2>1. CASE v = w
    BY <2>1, <1>1 DEF LoadType
  <2>2. CASE v # w
    <3>1. Holds(v) /\ v[1] \in Load
      BY <2>2, <1>1 DEF LoadType, Holds, Worker
    <3>2. v[1] # k
      BY <3>1, <1>1 DEF OneBlockAtATime
    <3> QED BY <3>1, <3>2, <1>1 DEF LoadType, OneBlockAtATime
  <2> QED BY <2>1, <2>2
<1>6. ClosedAtEnd' /\ AnswerKnown'
  BY <1>1 DEF LoadType, ClosedAtEnd, AnswerKnown, Worker
<1>7. AnswersInOrder'
  <2>1. \A v \in Worker : HasSent(v)' <=> HasSent(v)
    BY <1>1 DEF LoadType, HasSent
  <2>2. \A l \in Load, m \in Block : HasSent(<<l, m>>)' <=> HasSent(<<l, m>>)
    BY <2>1 DEF Worker
  <2>3. \A l \in Load : SentCount(l) <= launched[l] => SentCount(l) <= launched'[l]
    BY DEF LoadType, SentCount
  <2>4. \A l \in Load : SentCount(l)' = SentCount(l)
    BY DEF SentCount
  <2>5. outcome' = outcome /\ results' = results /\ got' = got
    OBVIOUS
  <2> QED BY <2>2, <2>3, <2>4, <2>5 DEF AnswersInOrder
<1>8. AnswerComplete'
  BY DEF AnswerComplete
<1> QED BY <1>2, <1>3, <1>4, <1>5, <1>6, <1>7, <1>8

\* The launcher closes results: every worker has finished.
LEMMA CloseStep == ASSUME LoadInv, NEW k \in Load, Close(k) PROVE LoadInv'
<1> USE LoaderAssumption DEF LoadInv, Close, Running, AllDone, callVars
<1>1. LoadType' /\ Unbegun'
  BY DEF LoadType, Unbegun
<1>2. StartedInOrder' /\ OneBlockAtATime' /\ AnswerKnown'
  BY DEF StartedInOrder, OneBlockAtATime, AnswerKnown, Holds
<1>3. ClosedAtEnd'
  BY DEF LoadType, ClosedAtEnd, Block
<1>4. AnswersInOrder' /\ AnswerComplete'
  BY DEF LoadType, AnswersInOrder, SentCount, HasSent, AnswerComplete
<1> QED BY <1>1, <1>2, <1>3, <1>4

-----------------------------------------------------------------------------
\* A caller is inside BlockByNumber or has just returned from it.
LEMMA FetchesStep == ASSUME LoadInv, NEW w \in Caller, Fetches(w) PROVE LoadInv'
<1> USE Callers DEF LoadInv, Fetches, Fetching, Goto, callVars, chanVars
<1>1. LoadType'
  BY DEF LoadType
<1>2. Unbegun'
  BY DEF Unbegun
<1>3. StartedInOrder' /\ AnswerKnown'
  BY DEF LoadType, StartedInOrder, AnswerKnown
<1>4. OneBlockAtATime'
  BY DEF LoadType, OneBlockAtATime, Holds
<1>5. ClosedAtEnd'
  <2> SUFFICES ASSUME NEW k \in Load, closed[k], NEW n \in Block
               PROVE  pc'[<<k, n>>] = "finished"
    BY DEF ClosedAtEnd
  <2>1. pc[<<k, n>>] = "finished" /\ <<k, n>> \in Worker
    BY DEF ClosedAtEnd, Worker
  <2> QED BY <2>1 DEF LoadType
<1>6. AnswersInOrder'
  <2>1. \A k \in Load, n \in Block : HasSent(<<k, n>>)' <=> HasSent(<<k, n>>)
    <3> TAKE k \in Load, n \in Block
    <3>1. <<k, n>> \in Worker
      BY DEF Worker
    <3> QED BY <3>1 DEF LoadType, HasSent
  <2> QED BY <2>1 DEF AnswersInOrder, SentCount
<1>7. AnswerComplete'
  BY DEF AnswerComplete
<1> QED BY <1>1, <1>2, <1>3, <1>4, <1>5, <1>6, <1>7

\* A worker sends its answer: those of the blocks before were sent already.
LEMMA SendStep == ASSUME LoadInv, NEW w \in Worker, Send(w) PROVE LoadInv'
<1> USE LoaderAssumption, Callers DEF LoadInv
<1>1. PICK k \in Load, n \in Block : w = <<k, n>>
  BY DEF Worker
<1> DEFINE r == [number |-> n, answer |-> answer[w]]
<1>2. /\ pc[w] = "returned" /\ pc' = [pc EXCEPT ![w] = "release"]
      /\ results' = [results EXCEPT ![k] = Append(@, r)]
      /\ UNCHANGED <<answer, reads, load, got, outcome, launched, sem, closed>>
  BY <1>1 DEF Send, Goto, callVars
<1>3. /\ results[k] \in Seq(Sendable) /\ Len(results[k]) \in Nat
      /\ got[k] \in Seq(Block) /\ Len(got[k]) \in Nat /\ launched[k] \in 0..Count
  BY DEF LoadType
<1>4. r \in Sendable
  <2>1. answer[w] \in {"ok", "error"}
    BY <1>2 DEF LoadType, AnswerKnown
  <2> QED BY <2>1 DEF Sendable
<1> HIDE DEF r
<1>5. /\ Append(results[k], r) \in Seq(Sendable)
      /\ Len(Append(results[k], r)) = Len(results[k]) + 1
      /\ \A i \in 1..Len(results[k]) : Append(results[k], r)[i] = results[k][i]
      /\ Append(results[k], r)[Len(results[k]) + 1] = r
  BY <1>3, <1>4, Appended
<1>6. n = launched[k] /\ ~closed[k] /\ outcome[k] # "none"
  BY <1>1, <1>2, <1>3 DEF OneBlockAtATime, Holds, ClosedAtEnd, Unbegun, Block
<1>7. LoadType'
  BY <1>2, <1>5 DEF LoadType
<1>8. Unbegun'
  BY <1>2, <1>6 DEF LoadType, Unbegun
<1>9. StartedInOrder' /\ AnswerKnown' /\ OneBlockAtATime'
  BY <1>2 DEF LoadType, StartedInOrder, AnswerKnown, OneBlockAtATime, Holds
<1>10. ClosedAtEnd'
  BY <1>1, <1>2, <1>6 DEF LoadType, ClosedAtEnd
<1>11. AnswersInOrder'
  <2> SUFFICES ASSUME NEW j \in Load, outcome[j] \in {"none", "loading"}
               PROVE  /\ SentCount(j)' <= launched[j]
                      /\ \A i \in 1..Len(results'[j]) :
                           results'[j][i].number = Len(got[j]) + i
                      /\ \A m \in Block : HasSent(<<j, m>>)' <=> m <= SentCount(j)'
    BY <1>2 DEF AnswersInOrder
  <2>1. \A m \in Block : <<j, m>> # w => (HasSent(<<j, m>>)' <=> HasSent(<<j, m>>))
    BY <1>2 DEF LoadType, HasSent, Worker
  <2>2. CASE j # k
    <3>1. results'[j] = results[j] /\ got'[j] = got[j]
      BY <2>2, <1>2 DEF LoadType
    <3> QED BY <2>1, <2>2, <3>1, <1>1 DEF AnswersInOrder, SentCount
  <2>3. CASE j = k
    <3>1. results'[k] = Append(results[k], r) /\ got'[k] = got[k]
      BY <1>2 DEF LoadType
    <3>2. SentCount(k) \in Nat /\ SentCount(k)' = SentCount(k) + 1
      <4> DEFINE g == Len(got[k])
                 l == Len(results[k])
      <4>1. Len(results'[k]) = l + 1 /\ Len(got'[k]) = g
        BY <3>1, <1>5
      <4>2. SentCount(k)' = g + (l + 1)
        BY <4>1 DEF SentCount
      <4>3. g \in Nat /\ l \in Nat
        BY <1>3
      <4>4. SentCount(k) = g + l
        BY DEF SentCount
      <4> HIDE DEF g, l
      <4> QED BY <4>2, <4>3, <4>4
    <3>3. \A m \in Block : HasSent(<<k, m>>) <=> m <= SentCount(k)
      BY <2>3 DEF AnswersInOrder
    <3>4. SentCount(k) = n - 1
      <4>1. ~(n <= SentCount(k))
        BY <3>3, <1>1, <1>2 DEF HasSent
      <4>2. ASSUME n > 1 PROVE n - 1 <= SentCount(k)
        <5>1. n - 1 \in Block /\ <<k, n - 1>> \in Worker
          BY <4>2 DEF Block, Worker
        <5>2. pc[<<k, n - 1>>] # "none" /\ ~Holds(<<k, n - 1>>)
          BY <5>1, <1>6, <1>3 DEF StartedInOrder, OneBlockAtATime, Block
        <5>3. HasSent(<<k, n - 1>>)
          BY <5>1, <5>2 DEF LoadType, Holds, HasSent
        <5> QED BY <5>1, <5>3, <3>3
      <4> QED BY <4>1, <4>2, <3>2 DEF Block
    <3>5. SentCount(k)' <= launched[k]
      BY <3>2, <3>4, <1>6, <1>3
    <3>6. \A i \in 1..Len(results'[k]) : results'[k][i].number = Len(got[k]) + i
      <4>1. Len(got[k]) + Len(results[k]) = n - 1
        BY <3>4 DEF SentCount
      <4>2. \A i \in 1..Len(results[k]) : results[k][i].number = Len(got[k]) + i
        BY <2>3 DEF AnswersInOrder
      <4>3. r.number = n
        BY DEF r
      <4> TAKE i \in 1..Len(results'[k])
      <4>4. CASE i = Len(results[k]) + 1
        <5>1. results'[k][i] = r
          BY <4>4, <3>1, <1>5
        <5>2. Len(got[k]) + i = n
          <6> DEFINE g == Len(got[k])
                     l == Len(results[k])
          <6>1. g + l = n - 1 /\ i = l + 1
            BY <4>1, <4>4
          <6>2. g \in Nat /\ l \in Nat
            BY <1>3
          <6>3. n \in Nat
            BY DEF Block
          <6> HIDE DEF g, l
          <6>4. g + i = n
            BY <6>1, <6>2, <6>3
          <6> QED BY <6>4 DEF g
        <5> QED BY <5>1, <5>2, <4>3
      <4>5. CASE i # Len(results[k]) + 1
        <5>1. i \in 1..Len(results[k]) /\ results'[k][i] = results[k][i]
          BY <4>5, <3>1, <1>3, <1>5
        <5> QED BY <5>1, <4>2
      <4> QED BY <4>4, <4>5
    <3>7. \A m \in Block : HasSent(<<k, m>>)' <=> m <= SentCount(k)'
      <4> TAKE m \in Block
      <4>1. CASE m = n
        <5>1. HasSent(<<k, m>>)'
          BY <4>1, <1>1, <1>2 DEF LoadType, HasSent
        <5>2. m <= SentCount(k)'
          BY <4>1, <3>2, <3>4 DEF Block
        <5> QED BY <5>1, <5>2
      <4>2. CASE m # n
        <5>1. HasSent(<<k, m>>)' <=> m <= SentCount(k)
          BY <4>2, <2>1, <2>3, <3>3, <1>1
        <5>2. m <= SentCount(k) <=> m <= SentCount(k)'
          BY <4>2, <3>2, <3>4 DEF Block
        <5> QED BY <5>1, <5>2
      <4> QED BY <4>1, <4>2
    <3> QED BY <2>3, <3>5, <3>6, <3>7
  <2> QED BY <2>2, <2>3
<1>12. AnswerComplete'
  BY <1>2 DEF AnswerComplete
<1> QED BY <1>7, <1>8, <1>9, <1>10, <1>11, <1>12

\* A worker gives the token back: no other worker of its load holds it.
LEMMA ReleaseStep == ASSUME LoadInv, NEW w \in Worker, Release(w) PROVE LoadInv'
<1> USE LoaderAssumption, Callers DEF LoadInv, Release, Goto, callVars
<1>1. w[1] \in Load /\ w[2] \in Block /\ w = <<w[1], w[2]>> /\ pc[w] = "release"
  BY DEF Worker
<1>2. w[2] = launched[w[1]] /\ sem[w[1]] = 1
  BY <1>1 DEF OneBlockAtATime, Holds
<1>3. LoadType' /\ Unbegun'
  BY <1>1, <1>2 DEF LoadType, Unbegun
<1>4. StartedInOrder' /\ AnswerKnown'
  BY <1>1 DEF LoadType, StartedInOrder, AnswerKnown
<1>5. OneBlockAtATime'
  <2> SUFFICES ASSUME NEW v \in Worker, Holds(v)'
               PROVE  v[2] = launched[v[1]] /\ sem'[v[1]] = 1
    BY DEF OneBlockAtATime
  <2>1. v # w /\ Holds(v) /\ v = <<v[1], v[2]>> /\ v[1] \in Load
    BY <1>1 DEF LoadType, Holds, Worker
  <2>2. v[1] # w[1]
    BY <2>1, <1>1, <1>2 DEF OneBlockAtATime
  <2> QED BY <2>1, <2>2 DEF LoadType, OneBlockAtATime
<1>6. ClosedAtEnd'
  BY <1>1 DEF LoadType, ClosedAtEnd
<1>7. AnswersInOrder'
  <2>1. \A k \in Load, n \in Block : HasSent(<<k, n>>)' <=> HasSent(<<k, n>>)
    BY <1>1 DEF LoadType, HasSent, Worker
  <2> QED BY <2>1 DEF AnswersInOrder, SentCount
<1>8. AnswerComplete'
  BY DEF AnswerComplete
<1> QED BY <1>3, <1>4, <1>5, <1>6, <1>7, <1>8

\* A worker ends.
LEMMA ExitStep == ASSUME LoadInv, NEW w \in Worker, Exit(w) PROVE LoadInv'
<1> USE Callers DEF LoadInv, Exit, Goto, callVars, chanVars
<1>1. LoadType' /\ Unbegun'
  BY DEF LoadType, Unbegun
<1>2. StartedInOrder' /\ AnswerKnown' /\ OneBlockAtATime'
  BY DEF LoadType, StartedInOrder, AnswerKnown, OneBlockAtATime, Holds
<1>3. ClosedAtEnd'
  BY DEF LoadType, ClosedAtEnd, Worker
<1>4. AnswersInOrder'
  <2>1. \A k \in Load, n \in Block : HasSent(<<k, n>>)' <=> HasSent(<<k, n>>)
    BY DEF LoadType, HasSent, Worker
  <2> QED BY <2>1 DEF AnswersInOrder, SentCount
<1>5. AnswerComplete'
  BY DEF AnswerComplete
<1> QED BY <1>1, <1>2, <1>3, <1>4, <1>5

-----------------------------------------------------------------------------
\* Every step preserves the invariant of the loads.
LEMMA LoadInvNext == LoadInv /\ [Next]_vars => LoadInv'
<1> SUFFICES ASSUME LoadInv, [Next]_vars PROVE LoadInv'
  OBVIOUS
<1>1. CASE UNCHANGED vars
  BY <1>1, LoadFrame DEF vars, loadVars, callVars, chanVars
<1>2. CASE Pass \/ Cancel
  BY <1>2, LoadFrame DEF Pass, Cancel, loadVars
<1>3. CASE BeginRead \/ BeginLoad
  BY <1>3, ReadStep, BeginStep
<1>4. ASSUME NEW k \in Load, Receive(k) \/ Return(k) \/ Launch(k) \/ Close(k)
      PROVE  LoadInv'
  BY <1>4, ReceiveStep, ReturnStep, LaunchStep, CloseStep
<1>5. ASSUME NEW w \in Caller, CallerStep(w) PROVE LoadInv'
  <2>1. CASE NoAttempt(w) \/ LastFailed(w) \/ WaitCancelled(w)
    <3>1. Fetches(w)
      BY <2>1 DEF NoAttempt, LastFailed, WaitCancelled, Fails, Fetches, Fetching
    <3> QED BY <3>1, FetchesStep
  <2>2. CASE Reserve(w) \/ SlotComes(w)
    <3>1. Fetches(w)
      BY <2>2 DEF Reserve, SlotComes, Fetches, Fetching
    <3> QED BY <3>1, FetchesStep
  <2>3. CASE Answered(w)
    <3>1. Fetches(w)
      BY <2>3 DEF Answered, Fetches, Fetching
    <3> QED BY <3>1, FetchesStep
  <2>4. CASE FailedNoBackoff(w) \/ FailedBackoff(w) \/ Wakes(w)
    <3>1. Fetches(w)
      BY <2>4 DEF FailedNoBackoff, FailedBackoff, Wakes, NextAttempt, Fetches, Fetching
    <3> QED BY <3>1, FetchesStep
  <2>5. CASE FailedPanic(w)
    BY <2>5, LoadFrame DEF FailedPanic, loadVars
  <2>6. CASE w \in Worker /\ WorkerStep(w)
    BY <2>6, SendStep, ReleaseStep, ExitStep DEF WorkerStep
  <2> QED BY <1>5, <2>1, <2>2, <2>3, <2>4, <2>5, <2>6 DEF CallerStep, FetchStep
<1> QED BY <1>1, <1>2, <1>3, <1>4, <1>5, StepKinds DEF LoadStep

\* The invariant of the loads.
LEMMA LoadsInvariant == Spec => []LoadInv
  BY LoadInvInit, LoadInvNext, PTL DEF Spec

(* A load has at most one block under way (syncer.go:257).                 *)
THEOREM OneBlock == Spec => []OneBlockAtATime
<1>1. LoadInv => OneBlockAtATime
  BY DEF LoadInv
<1> QED BY <1>1, LoadsInvariant, PTL

(* Nothing is ever sent to a closed results channel (syncer.go:266), by    *)
(* however many loads left in the background.                              *)
THEOREM NoSendToClosed == Spec => []NoSendAfterClose
<1>1. LoadInv => NoSendAfterClose
  BY DEF LoadInv, ClosedAtEnd, NoSendAfterClose, Worker
<1> QED BY <1>1, LoadsInvariant, PTL

(* A load that succeeds has every block, received in order (syncer.go:270).*)
THEOREM LoadsComplete == Spec => []AnswerComplete
<1>1. LoadInv => AnswerComplete
  BY DEF LoadInv
<1> QED BY <1>1, LoadsInvariant, PTL

-----------------------------------------------------------------------------
(* The limiter *)

\* The limiter has given no slot in the initial states.
LEMMA SlotInvInit == Init => SlotInv
  BY LimiterAssumption DEF Init, SlotInv, Past

\* A reservation, and time, keep the latest slot an interval before the next.
LEMMA SlotInvNext == SlotInv /\ [Next]_vars => SlotInv'
<1> SUFFICES ASSUME SlotInv, [Next]_vars PROVE SlotInv'
  OBVIOUS
<1> USE LimiterAssumption
<1>1. CASE UNCHANGED limitVars
  BY <1>1 DEF limitVars, SlotInv
<1>2. CASE Pass
  BY <1>2 DEF Pass, SlotInv, Sooner, Past
<1>3. ASSUME NEW w \in Caller, Reserve(w) PROVE SlotInv'
  BY <1>3 DEF Reserve, SlotInv, Slot, NextAfter, Past, limitVars
<1>4. CASE UNCHANGED vars \/ BeginRead \/ BeginLoad \/ Cancel
  BY <1>1, <1>4 DEF vars, BeginRead, BeginLoad, Cancel, limitVars
<1>5. ASSUME NEW k \in Load, Receive(k) \/ Return(k) \/ Launch(k) \/ Close(k)
      PROVE  SlotInv'
  BY <1>1, <1>5 DEF Receive, Return, Launch, Close
<1>6. ASSUME NEW w \in Caller, CallerStep(w) PROVE SlotInv'
  <2>1. CASE NoAttempt(w) \/ SlotComes(w) \/ WaitCancelled(w) \/ Answered(w) \/ LastFailed(w)
    BY <1>1, <2>1 DEF NoAttempt, SlotComes, WaitCancelled, Answered, LastFailed
  <2>2. CASE FailedNoBackoff(w) \/ FailedBackoff(w) \/ FailedPanic(w) \/ Wakes(w)
    BY <1>1, <2>2 DEF FailedNoBackoff, FailedBackoff, FailedPanic, Wakes
  <2>3. CASE Send(w) \/ Release(w) \/ Exit(w)
    BY <1>1, <2>3 DEF Send, Release, Exit
  <2> QED BY <1>3, <1>6, <2>1, <2>2, <2>3 DEF CallerStep, FetchStep, WorkerStep
<1> QED BY <1>2, <1>4, <1>5, <1>6, StepKinds DEF LoadStep

(* The slots given are at least an interval apart (rate_limiter.go:39).    *)
THEOREM SlotSpacing == Spec => SlotsApart
<1>1. SlotInv /\ [Next]_vars =>
        [\A w \in Caller : Reserve(w) /\ Interval > 0 => lastSlot' - lastSlot >= Interval]_vars
  BY LimiterAssumption DEF Reserve, SlotInv, Slot, Past
<1> QED BY <1>1, SlotInvInit, SlotInvNext, PTL DEF Spec, SlotsApart

-----------------------------------------------------------------------------
(* The waits between the attempts *)

\* Doubled is the last of the waits that follow one another.
LEMMA DoubledWaits ==
  ASSUME NEW base \in Nat, NEW a \in Nat
  PROVE  \E wait \in [0..a -> Nat] :
           /\ wait[0] = base
           /\ \A i \in 1..a : wait[i] = IF wait[i - 1] * 2 >= MaxBackoff THEN MaxBackoff
                                        ELSE wait[i - 1] * 2
           /\ Doubled(base, a) = wait[a]
<1> USE LimiterAssumption
<1> DEFINE size == [i \in 0..a |-> i]
           prev == [i \in 0..a |-> IF i = 0 THEN 0 ELSE i - 1]
           leaf == [i \in 0..a |-> base]
           step == [p \in (0..a) \X Nat |->
                      IF p[2] * 2 >= MaxBackoff THEN MaxBackoff ELSE p[2] * 2]
           Waits(w) == w = [i \in 0..a |->
                              IF i = 0 THEN base
                              ELSE IF w[i - 1] * 2 >= MaxBackoff THEN MaxBackoff
                                                                 ELSE w[i - 1] * 2]
<1>1. /\ size \in [0..a -> Nat] /\ prev \in [0..a -> 0..a] /\ {0} \in SUBSET (0..a)
      /\ \A i \in (0..a) \ {0} : size[prev[i]] < size[i]
  OBVIOUS
<1>2. leaf \in [0..a -> Nat] /\ step \in [(0..a) \X Nat -> Nat]
  OBVIOUS
<1>3. /\ \A i \in (0..a) \ {0} : prev[i] = i - 1
      /\ \A i \in 0..a, n \in Nat :
           step[<<i, n>>] = IF n * 2 >= MaxBackoff THEN MaxBackoff ELSE n * 2
      /\ leaf[0] = base
  OBVIOUS
<1> HIDE DEF size, prev, leaf, step
<1>4. PICK f \in [0..a -> Nat] : Recurses(f, 0..a, {0}, prev, leaf, step)
  BY <1>1, <1>2, Recursion
<1>5. ASSUME NEW i \in 0..a
      PROVE  f[i] = IF i = 0 THEN base
                    ELSE IF f[i - 1] * 2 >= MaxBackoff THEN MaxBackoff ELSE f[i - 1] * 2
  <2>1. f[i] = IF i \in {0} THEN leaf[i] ELSE step[<<i, f[prev[i]]>>]
    BY <1>4 DEF Recurses
  <2>2. i # 0 => f[prev[i]] = f[i - 1] /\ f[i - 1] \in Nat
    BY <1>3
  <2> QED BY <1>3, <2>1, <2>2
<1>6. Waits(f)
  BY <1>5
<1> DEFINE w == CHOOSE w : Waits(w)
<1>7. Waits(w)
  <2> HIDE DEF Waits
  <2> QED BY <1>6
<1>8. Doubled(base, a) = w[a]
  BY DEF Doubled
<1> HIDE DEF w
<1>9. /\ w[0] = base
      /\ \A i \in 1..a : w[i] = IF w[i - 1] * 2 >= MaxBackoff THEN MaxBackoff
                                ELSE w[i - 1] * 2
  BY <1>7
<1>10. w \in [0..a -> Nat]
  <2> DEFINE Good == {i \in Nat : i <= a => w[i] \in Nat}
  <2>1. ASSUME NEW i \in Nat, \A k \in Nat : k < i => k \in Good
        PROVE  i \in Good
    <3>1. i # 0 => i - 1 \in Good
      BY <2>1
    <3>2. i # 0 /\ i <= a => w[i - 1] \in Nat
      BY <3>1
    <3>3. CASE i = 0
      BY <1>9, <3>3
    <3>4. CASE i # 0 /\ i <= a
      <4>1. i \in 1..a
        BY <3>4
      <4>2. w[i] = IF w[i - 1] * 2 >= MaxBackoff THEN MaxBackoff ELSE w[i - 1] * 2
        BY <1>9, <4>1
      <4> QED BY <3>2, <3>4, <4>2
    <3> QED BY <3>3, <3>4
  <2>2. Good \in SUBSET Nat
    OBVIOUS
  <2>3. Good = Nat
    <3> HIDE DEF Good
    <3> QED BY <2>1, <2>2, NatInductionStrong
  <2>4. \A i \in 0..a : w[i] \in Nat
    BY <2>3
  <2>5. DOMAIN w = 0..a /\ w = [i \in DOMAIN w |-> w[i]]
    BY <1>7
  <2> QED BY <2>4, <2>5
<1> QED BY <1>8, <1>9, <1>10

\* The wait is never above the cap once it was doubled, and one unit only when
\* it was not.
LEMMA DoubledBounds ==
  ASSUME NEW base \in Nat, base > 0, NEW a \in Nat
  PROVE  /\ Doubled(base, a) \in Nat
         /\ Doubled(base, a) <= IF base > MaxBackoff THEN base ELSE MaxBackoff
         /\ Doubled(base, a) <= 1 => base = 1
<1> USE LimiterAssumption
<1>1. PICK wait \in [0..a -> Nat] :
           /\ wait[0] = base
           /\ \A i \in 1..a : wait[i] = IF wait[i - 1] * 2 >= MaxBackoff THEN MaxBackoff
                                        ELSE wait[i - 1] * 2
           /\ Doubled(base, a) = wait[a]
  BY DoubledWaits
<1> DEFINE Good == {i \in Nat : i <= a =>
                      /\ wait[i] <= IF base > MaxBackoff THEN base ELSE MaxBackoff
                      /\ wait[i] > 0
                      /\ wait[i] = 1 => base = 1}
<1>2. ASSUME NEW i \in Nat, \A k \in Nat : k < i => k \in Good
      PROVE  i \in Good
  <2>1. i # 0 => i - 1 \in Good
    BY <1>2
  <2>2. CASE i = 0
    BY <1>1, <2>2
  <2>3. CASE i # 0 /\ i <= a
    <3>1. wait[i - 1] \in Nat /\ wait[i - 1] > 0
      BY <2>1, <2>3
    <3>2. wait[i] = IF wait[i - 1] * 2 >= MaxBackoff THEN MaxBackoff ELSE wait[i - 1] * 2
      BY <1>1, <2>3
    <3> QED BY <3>1, <3>2
  <2> QED BY <2>2, <2>3
<1>3. Good \in SUBSET Nat
  OBVIOUS
<1>4. Good = Nat
  <2> HIDE DEF Good
  <2> QED BY <1>2, <1>3, NatInductionStrong
<1>5. a \in Good
  BY <1>4
<1> QED BY <1>1, <1>5

\* The waits between an attempt and the next, none only for the shortest one.
LEMMA BackoffBounds ==
  ASSUME NEW base \in Nat, base > 0, NEW a \in Nat
  PROVE  /\ \A wait \in Backoffs(base, a) :
              wait \in Nat /\ 2 * wait < 3 * (IF base > MaxBackoff THEN base ELSE MaxBackoff)
         /\ Backoffs(base, a) = {} => base = 1
<1> DEFINE d == Doubled(base, a)
<1>1. /\ d \in Nat /\ d <= IF base > MaxBackoff THEN base ELSE MaxBackoff
      /\ d <= 1 => base = 1
  BY DoubledBounds
<1>2. Backoffs(base, a) = d..(d + (d \div 2) - 1)
  BY DEF Backoffs, Jitters
<1> HIDE DEF d
<1>3. d > 1 => d \in d..(d + (d \div 2) - 1)
  BY <1>1
<1>4. ASSUME NEW wait \in d..(d + (d \div 2) - 1)
      PROVE  wait \in Nat /\ 2 * wait < 3 * d
  BY <1>1, <1>4
<1> QED BY <1>1, <1>2, <1>3, <1>4, LimiterAssumption

-----------------------------------------------------------------------------
(* Attempts and errors *)

LEMMA TimerTypeInit == Init => TimerType
<1> SUFFICES ASSUME Init PROVE TimerType
  OBVIOUS
<1>1. <<retries, retryBackoff>> \in Settings
  <2>1. PICK config \in Settings : retries = config[1] /\ retryBackoff = config[2]
    BY DEF Init
  <2>2. config = <<config[1], config[2]>>
    BY SettingsAssumption
  <2> QED BY <2>1, <2>2
<1>2. attempt \in [Caller -> Nat] /\ left \in [Caller -> Nat]
  BY DEF Init
<1>3. nextRequest \in Int /\ Past <= nextRequest /\ lastSlot \in Int /\ -Interval <= lastSlot
  BY LimiterAssumption DEF Init, Past
<1> QED BY <1>1, <1>2, <1>3 DEF Init, TimerType

LEMMA SettingsType ==
  ASSUME TimerType
  PROVE  retries \in Nat /\ retryBackoff \in Nat
BY SettingsAssumption DEF TimerType

LEMMA TimerTypeNext ==
  ASSUME TimerType, [Next]_vars
  PROVE  TimerType'
<1> USE LimiterAssumption
<1>1. CASE UNCHANGED <<configVars, cancelled, panicked, limitVars, attempt, left>>
  BY <1>1 DEF TimerType, configVars, limitVars
<1>2. CASE LoadStep
  <2>1. CASE Pass
    <3>1. nextRequest' \in Int /\ Past <= nextRequest' /\ lastSlot' \in Int /\ -Interval <= lastSlot'
      BY <2>1 DEF Pass, TimerType, Sooner, Past
    <3>2. left' \in [Caller -> Nat]
      BY <2>1 DEF Pass, TimerType
    <3> QED BY <2>1, <3>1, <3>2 DEF Pass, TimerType, configVars
  <2>2. CASE Cancel
    BY <2>2 DEF Cancel, TimerType, configVars, limitVars
  <2>3. CASE BeginLoad \/ UNCHANGED vars
    BY <1>1, <2>3 DEF BeginLoad, vars, configVars, limitVars
  <2>5. CASE BeginRead
    <3>1. attempt' \in [Caller -> Nat]
      BY <2>5, Callers DEF BeginRead, TimerType
    <3> QED BY <2>5, <3>1 DEF BeginRead, TimerType, configVars, limitVars
  <2>4. ASSUME NEW k \in Load, Receive(k) \/ Return(k) \/ Launch(k) \/ Close(k)
        PROVE  TimerType'
    BY <1>1, <2>4 DEF Receive, Return, Launch, Close
  <2> QED BY <1>2, <2>1, <2>2, <2>3, <2>4, <2>5 DEF LoadStep
<1>3. ASSUME NEW w \in Caller, CallerStep(w) PROVE TimerType'
  <2>1. CASE NoAttempt(w) \/ SlotComes(w) \/ LastFailed(w) \/ Send(w) \/ Release(w) \/ Exit(w)
    BY <1>1, <2>1 DEF NoAttempt, SlotComes, LastFailed, Send, Release, Exit
  <2>2. CASE Reserve(w)
    <3>1. CASE Interval = 0
      BY <1>1, <2>2, <3>1 DEF Reserve
    <3>2. CASE Interval # 0
      <4>1. Slot(nextRequest) \in Nat /\ NextAfter(nextRequest) \in Nat
        BY DEF TimerType, Slot, NextAfter, Past
      <4> QED BY <2>2, <3>2, <4>1 DEF Reserve, TimerType, configVars, Past
    <3> QED BY <3>1, <3>2
  <2>3. CASE WaitCancelled(w) \/ Answered(w)
    BY <2>3 DEF WaitCancelled, Answered, TimerType, configVars, limitVars
  <2>4. CASE FailedNoBackoff(w) \/ Wakes(w)
    BY <2>4 DEF FailedNoBackoff, Wakes, NextAttempt, TimerType, configVars, limitVars
  <2>5. CASE FailedBackoff(w)
    <3>1. retryBackoff \in Nat /\ retryBackoff > 0 /\ attempt[w] \in Nat
      BY <2>5, SettingsType DEF FailedBackoff, TimerType
    <3>2. PICK wait \in Backoffs(retryBackoff, attempt[w]) : left' = [left EXCEPT ![w] = wait]
      BY <2>5 DEF FailedBackoff
    <3>3. wait \in Nat
      BY <3>1, <3>2, BackoffBounds
    <3> QED BY <2>5, <3>2, <3>3 DEF FailedBackoff, TimerType, configVars, limitVars
  <2>6. CASE FailedPanic(w)
    BY <2>6 DEF FailedPanic, TimerType, configVars, limitVars
  <2> QED BY <1>3, <2>1, <2>2, <2>3, <2>4, <2>5, <2>6 DEF CallerStep, FetchStep, WorkerStep
<1> QED BY <1>2, <1>3, StepKinds

\* The worker that is launched was not before.
LEMMA LaunchedWorker ==
  ASSUME LoadInv, NEW k \in Load, Launch(k)
  PROVE  /\ <<k, launched[k] + 1>> \in Worker /\ <<k, launched[k] + 1>> \in Caller
         /\ pc[<<k, launched[k] + 1>>] = "none"
<1>1. <<k, launched[k] + 1>> \in Worker
  BY LoaderAssumption DEF LoadInv, Launch, LoadType, Block, Worker
<1>2. launched[k] \in Nat
  BY LoaderAssumption DEF LoadInv, LoadType
<1> QED BY <1>1, <1>2, Callers DEF LoadInv, StartedInOrder

LEMMA AttemptsLeftNext ==
  ASSUME LoadInv, TimerType, AttemptsLeft, [Next]_vars
  PROVE  AttemptsLeft'
<1>0. retries \in Nat /\ retryBackoff \in Nat
  BY SettingsType
<1> USE <1>0, Callers DEF LoadInv, LoadType, TimerType, AttemptsLeft, configVars
<1>1. CASE UNCHANGED <<configVars, pc, attempt>>
  BY <1>1
<1>2. CASE LoadStep
  <2>1. CASE BeginLoad \/ Pass \/ Cancel \/ UNCHANGED vars
    BY <1>1, <2>1 DEF BeginLoad, Pass, Cancel, vars
  <2>4. CASE BeginRead
    <3>1. /\ pc'[Walk] = "start" /\ attempt'[Walk] = 0 /\ retries' = retries
          /\ \A v \in Caller : v # Walk => pc'[v] = pc[v] /\ attempt'[v] = attempt[v]
      BY <2>4 DEF BeginRead
    <3>2. 0 < retries \/ retries = 0
      OBVIOUS
    <3> QED BY <3>1, <3>2
  <2>2. ASSUME NEW k \in Load, Receive(k) \/ Return(k) \/ Close(k) PROVE AttemptsLeft'
    BY <1>1, <2>2 DEF Receive, Return, Close
  <2>3. ASSUME NEW k \in Load, Launch(k) PROVE AttemptsLeft'
    <3>1. <<k, launched[k] + 1>> \in Caller /\ pc[<<k, launched[k] + 1>>] = "none"
      BY <2>3, LaunchedWorker
    <3>2. attempt[<<k, launched[k] + 1>>] = 0
      BY <3>1
    <3>3. /\ pc' = [pc EXCEPT ![<<k, launched[k] + 1>>] = "start"]
          /\ attempt' = attempt /\ retries' = retries
      BY <2>3 DEF Launch
    <3>4. ASSUME NEW v \in Caller, v # <<k, launched[k] + 1>> PROVE pc'[v] = pc[v]
      BY <3>3, <3>4
    <3>5. pc'[<<k, launched[k] + 1>>] = "start"
      BY <3>1, <3>3
    <3>6. 0 < retries \/ retries = 0
      OBVIOUS
    <3>7. ASSUME NEW v \in Caller
          PROVE  /\ attempt'[v] = attempt[v] /\ retries' = retries
                 /\ pc'[v] = pc[v] \/ (pc'[v] = "start" /\ attempt'[v] = 0)
      BY <3>2, <3>3, <3>4, <3>5
    <3> QED BY <3>6, <3>7
  <2> QED BY <1>2, <2>1, <2>2, <2>3, <2>4 DEF LoadStep
<1>3. ASSUME NEW w \in Caller, CallerStep(w) PROVE AttemptsLeft'
  <2>1. CASE NoAttempt(w) \/ LastFailed(w) \/ WaitCancelled(w)
    BY <2>1 DEF NoAttempt, LastFailed, WaitCancelled, Fails, Goto
  <2>2. CASE Answered(w) \/ Send(w) \/ Release(w) \/ Exit(w)
    BY <2>2 DEF Answered, Send, Release, Exit, Goto
  <2>3. CASE Reserve(w)
    BY <2>3 DEF Reserve, Goto
  <2>4. CASE SlotComes(w)
    BY <2>4 DEF SlotComes, Goto
  <2>5. CASE FailedNoBackoff(w) \/ FailedBackoff(w)
    <3>1. attempt[w] + 1 < retries
      BY <2>5 DEF FailedNoBackoff, FailedBackoff, IsLast
    <3>2. CASE FailedNoBackoff(w)
      BY <3>1, <3>2 DEF FailedNoBackoff, NextAttempt, Goto
    <3>3. CASE FailedBackoff(w)
      BY <3>1, <3>3 DEF FailedBackoff, Goto
    <3> QED BY <2>5, <3>2, <3>3
  <2>6. CASE FailedPanic(w)
    BY <1>1, <2>6 DEF FailedPanic
  <2>7. CASE Wakes(w)
    BY <2>7 DEF Wakes, NextAttempt, Goto
  <2> QED BY <1>3, <2>1, <2>2, <2>3, <2>4, <2>5, <2>6, <2>7 DEF CallerStep, FetchStep, WorkerStep
<1> QED BY <1>2, <1>3, StepKinds

\* A worker whose BlockByNumber returned an error keeps it, with the number of
\* its attempts.
LEMMA FailedStays ==
  ASSUME LoadInv, TimerType, [Next]_vars
  PROVE  \A v \in Worker : Failed(v) => Failed(v)' /\ attempt'[v] = attempt[v]
<1> SUFFICES ASSUME NEW v \in Worker, Failed(v)
             PROVE  Failed(v)' /\ attempt'[v] = attempt[v]
  OBVIOUS
<1> USE Callers DEF LoadInv, LoadType, TimerType, Failed
<1>1. CASE UNCHANGED <<pc, answer, attempt>>
  BY <1>1
<1>2. CASE LoadStep
  <2>1. CASE BeginLoad \/ Pass \/ Cancel \/ UNCHANGED vars
    BY <1>1, <2>1 DEF BeginLoad, Pass, Cancel, vars
  <2>4. CASE BeginRead
    BY <2>4 DEF BeginRead
  <2>2. ASSUME NEW k \in Load, Receive(k) \/ Return(k) \/ Close(k)
        PROVE  Failed(v)' /\ attempt'[v] = attempt[v]
    BY <1>1, <2>2 DEF Receive, Return, Close
  <2>3. ASSUME NEW k \in Load, Launch(k) PROVE Failed(v)' /\ attempt'[v] = attempt[v]
    <3>1. <<k, launched[k] + 1>> \in Worker /\ pc[<<k, launched[k] + 1>>] = "none"
      BY <2>3, LaunchedWorker
    <3> QED BY <2>3, <3>1 DEF Launch
  <2> QED BY <1>2, <2>1, <2>2, <2>3, <2>4 DEF LoadStep
<1>3. ASSUME NEW w \in Caller, CallerStep(w)
      PROVE  Failed(v)' /\ attempt'[v] = attempt[v]
  <2>1. CASE NoAttempt(w) \/ LastFailed(w) \/ WaitCancelled(w)
    BY <2>1 DEF NoAttempt, LastFailed, WaitCancelled, Fails, Goto
  <2>2. CASE Answered(w) \/ Send(w) \/ Release(w) \/ Exit(w)
    BY <2>2 DEF Answered, Send, Release, Exit, Goto
  <2>3. CASE Reserve(w)
    BY <2>3 DEF Reserve, Goto
  <2>4. CASE SlotComes(w)
    BY <2>4 DEF SlotComes, Goto
  <2>5. CASE FailedNoBackoff(w) \/ FailedBackoff(w)
    BY <2>5 DEF FailedNoBackoff, FailedBackoff, NextAttempt, Goto
  <2>6. CASE FailedPanic(w)
    BY <1>1, <2>6 DEF FailedPanic
  <2>7. CASE Wakes(w)
    BY <2>7 DEF Wakes, NextAttempt, Goto
  <2> QED BY <1>3, <2>1, <2>2, <2>3, <2>4, <2>5, <2>6, <2>7 DEF CallerStep, FetchStep, WorkerStep
<1> QED BY <1>2, <1>3, StepKinds

LEMMA ErrorsCountedNext ==
  ASSUME LoadInv, TimerType, AttemptsLeft, ErrorsCounted, [Next]_vars
  PROVE  ErrorsCounted'
<1> SUFFICES ASSUME NEW v \in Worker, Failed(v)'
             PROVE  cancelled' \/ retries' \in {0, attempt'[v] + 1}
  BY DEF ErrorsCounted
<1>1. (cancelled => cancelled') /\ retries' = retries
  <2>1. CASE LoadStep
    <3>1. ASSUME NEW k \in Load, Receive(k) \/ Return(k) \/ Launch(k) \/ Close(k)
          PROVE  (cancelled => cancelled') /\ retries' = retries
      BY <3>1 DEF Receive, Return, Launch, Close, configVars
    <3>2. CASE BeginRead \/ BeginLoad \/ Pass \/ Cancel \/ UNCHANGED vars
      BY <3>2 DEF BeginRead, BeginLoad, Pass, Cancel, vars, configVars
    <3> QED BY <2>1, <3>1, <3>2 DEF LoadStep
  <2>2. ASSUME NEW w \in Caller, CallerStep(w) PROVE (cancelled => cancelled') /\ retries' = retries
    BY <2>2 DEF CallerStep, FetchStep, WorkerStep, NoAttempt, Reserve, SlotComes, WaitCancelled, Answered, LastFailed,
                FailedNoBackoff, FailedBackoff, FailedPanic, Wakes, Send, Release, Exit, configVars
  <2> QED BY <2>1, <2>2, StepKinds
<1>2. CASE Failed(v)
  BY <1>1, <1>2, FailedStays DEF ErrorsCounted
<1>3. CASE ~Failed(v)
  <2> USE SettingsType, Callers DEF LoadInv, LoadType, TimerType, AttemptsLeft, Failed
  <2>1. CASE UNCHANGED <<pc, answer>>
    BY <1>3, <2>1
  <2>2. CASE LoadStep
    <3>1. CASE BeginLoad \/ Pass \/ Cancel \/ UNCHANGED vars
      BY <2>1, <3>1 DEF BeginLoad, Pass, Cancel, vars
    <3>4. CASE BeginRead
      BY <1>3, <3>4 DEF BeginRead
    <3>2. ASSUME NEW k \in Load, Receive(k) \/ Return(k) \/ Close(k)
          PROVE  cancelled' \/ retries' \in {0, attempt'[v] + 1}
      BY <2>1, <3>2 DEF Receive, Return, Close
    <3>3. ASSUME NEW k \in Load, Launch(k)
          PROVE  cancelled' \/ retries' \in {0, attempt'[v] + 1}
      BY <1>3, <3>3 DEF Launch
    <3> QED BY <2>2, <3>1, <3>2, <3>3, <3>4 DEF LoadStep
  <2>3. ASSUME NEW w \in Caller, CallerStep(w)
        PROVE  cancelled' \/ retries' \in {0, attempt'[v] + 1}
    <3>1. CASE NoAttempt(w) \/ LastFailed(w)
      BY <1>1, <1>3, <3>1 DEF NoAttempt, LastFailed, IsLast, Fails, Goto
    <3>2. CASE WaitCancelled(w)
      BY <1>1, <3>2 DEF WaitCancelled
    <3>3. CASE Answered(w) \/ Send(w) \/ Release(w) \/ Exit(w)
      BY <1>3, <3>3 DEF Answered, Send, Release, Exit, Goto
    <3>4. CASE Reserve(w)
      BY <1>3, <3>4 DEF Reserve, Goto
    <3>5. CASE SlotComes(w)
      BY <1>3, <3>5 DEF SlotComes, Goto
    <3>6. CASE FailedNoBackoff(w) \/ FailedBackoff(w) \/ Wakes(w)
      BY <1>3, <3>6 DEF FailedNoBackoff, FailedBackoff, Wakes, NextAttempt, Goto
    <3>7. CASE FailedPanic(w)
      BY <2>1, <3>7 DEF FailedPanic
    <3> QED BY <2>3, <3>1, <3>2, <3>3, <3>4, <3>5, <3>6, <3>7 DEF CallerStep, FetchStep, WorkerStep
  <2> QED BY <2>2, <2>3, StepKinds
<1> QED BY <1>2, <1>3

\* The same, of the state after the step and a worker given in this one.
FailedAfter(v) ==
  answer'[v] = "error" /\ pc'[v] \in {"returned", "release", "exit", "finished"}

LEMMA FailedRemains ==
  ASSUME LoadInv, TimerType, [Next]_vars
  PROVE  \A v \in Worker : Failed(v) => FailedAfter(v)
BY FailedStays DEF Failed, FailedAfter

LEMMA ErrorsSentNext ==
  ASSUME LoadInv, TimerType, ErrorsSent, [Next]_vars
  PROVE  ErrorsSent'
<1>1. /\ results \in [Load -> Seq(Sendable)]
      /\ \A k \in Load, n \in Block : <<k, n>> \in Worker
  BY DEF LoadInv, LoadType, Worker
<1>2. ASSUME NEW k \in Load, NEW i \in 1..Len(results[k]), results[k][i].answer = "error"
      PROVE  FailedAfter(<<k, results[k][i].number>>)
  <2>1. results[k][i] \in Sendable
    BY <1>1
  <2>2. <<k, results[k][i].number>> \in Worker
    BY <1>1, <2>1 DEF Sendable
  <2>3. Failed(<<k, results[k][i].number>>)
    BY <1>2 DEF ErrorsSent
  <2> QED BY <2>2, <2>3, FailedRemains
<1>3. CASE results' = results
  BY <1>2, <1>3 DEF ErrorsSent, Failed, FailedAfter
<1>4. ASSUME NEW k \in Load, Receive(k) PROVE ErrorsSent'
  <2>1. results' = [results EXCEPT ![k] = Tail(@)] /\ results[k] # <<>>
    BY <1>4 DEF Receive
  <2>2. /\ Len(Tail(results[k])) = Len(results[k]) - 1
        /\ \A i \in 1..Len(Tail(results[k])) : Tail(results[k])[i] = results[k][i + 1]
        /\ Len(results[k]) \in Nat
    BY <1>1, <2>1, HeadAndTail
  <2>3. ASSUME NEW j \in Load, NEW i \in 1..Len(results'[j]), results'[j][i].answer = "error"
        PROVE  FailedAfter(<<j, results'[j][i].number>>)
    <3>1. CASE j = k
      <4>1. i + 1 \in 1..Len(results[k]) /\ results'[j][i] = results[k][i + 1]
        BY <1>1, <2>1, <2>2, <2>3, <3>1
      <4>2. FailedAfter(<<k, results[k][i + 1].number>>)
        BY <1>2, <2>3, <4>1
      <4> QED BY <3>1, <4>1, <4>2
    <3>2. CASE j # k
      <4>1. results'[j] = results[j]
        BY <1>1, <2>1, <3>2
      <4> QED BY <1>2, <2>3, <4>1
    <3> QED BY <3>1, <3>2
  <2> QED BY <2>3 DEF ErrorsSent, Failed, FailedAfter
<1>5. ASSUME NEW w \in Worker, Send(w) PROVE ErrorsSent'
  <2> DEFINE r == [number |-> w[2], answer |-> answer[w]]
  <2>1. /\ w[1] \in Load /\ w[2] \in Block /\ w = <<w[1], w[2]>> /\ pc[w] = "returned"
        /\ results' = [results EXCEPT ![w[1]] = Append(@, r)]
    BY <1>5 DEF Send, Worker
  <2>2. r \in Sendable
    <3>1. answer[w] \in {"ok", "error"}
      BY <2>1, Callers DEF LoadInv, LoadType, AnswerKnown
    <3> QED BY <2>1, <3>1 DEF Sendable
  <2>3. r.number = w[2] /\ r.answer = answer[w]
    OBVIOUS
  <2> HIDE DEF r
  <2>4. /\ Len(Append(results[w[1]], r)) = Len(results[w[1]]) + 1
        /\ \A i \in 1..Len(results[w[1]]) : Append(results[w[1]], r)[i] = results[w[1]][i]
        /\ Append(results[w[1]], r)[Len(results[w[1]]) + 1] = r
        /\ Len(results[w[1]]) \in Nat
    BY <1>1, <2>1, <2>2, Appended
  <2>5. ASSUME NEW j \in Load, NEW i \in 1..Len(results'[j]), results'[j][i].answer = "error"
        PROVE  FailedAfter(<<j, results'[j][i].number>>)
    <3>1. CASE j = w[1]
      <4>1. results'[j] = Append(results[w[1]], r)
        BY <1>1, <2>1, <3>1
      <4>2. CASE i = Len(results[w[1]]) + 1
        <5>1. results'[j][i] = r
          BY <2>4, <4>1, <4>2
        <5>2. Failed(w)
          BY <2>1, <2>3, <2>5, <5>1 DEF Failed
        <5>3. FailedAfter(w)
          BY <5>2, FailedRemains
        <5>4. <<j, results'[j][i].number>> = w
          BY <2>1, <2>3, <3>1, <5>1
        <5> QED BY <5>3, <5>4
      <4>3. CASE i # Len(results[w[1]]) + 1
        <5>1. i \in 1..Len(results[j]) /\ results'[j][i] = results[j][i]
          BY <2>4, <3>1, <4>1, <4>3
        <5> QED BY <1>2, <2>5, <5>1
      <4> QED BY <4>2, <4>3
    <3>2. CASE j # w[1]
      <4>1. results'[j] = results[j]
        BY <1>1, <2>1, <3>2
      <4> QED BY <1>2, <2>5, <4>1
    <3> QED BY <3>1, <3>2
  <2> QED BY <2>5 DEF ErrorsSent, Failed, FailedAfter
<1>6. CASE LoadStep
  <2>1. CASE BeginRead \/ BeginLoad \/ Pass \/ Cancel \/ UNCHANGED vars
    BY <1>3, <2>1 DEF BeginRead, BeginLoad, Pass, Cancel, vars, chanVars
  <2>2. ASSUME NEW k \in Load, Return(k) \/ Launch(k) \/ Close(k) PROVE ErrorsSent'
    BY <1>3, <2>2 DEF Return, Launch, Close, chanVars
  <2> QED BY <1>4, <1>6, <2>1, <2>2 DEF LoadStep
<1>7. ASSUME NEW w \in Caller, CallerStep(w) PROVE ErrorsSent'
  <2>1. CASE ~Send(w)
    <3>1. results' = results
      BY <1>7, <2>1 DEF CallerStep, FetchStep, WorkerStep, NoAttempt, Reserve, SlotComes, WaitCancelled, Answered,
                        LastFailed, FailedNoBackoff, FailedBackoff, FailedPanic, Wakes,
                        Release, Exit, chanVars
    <3> QED BY <1>3, <3>1
  <2>2. CASE Send(w)
    <3>1. w \in Worker
      BY <1>7, <2>2 DEF CallerStep, FetchStep, NoAttempt, Reserve, SlotComes, WaitCancelled,
                        Answered, LastFailed, FailedNoBackoff, FailedBackoff, FailedPanic,
                        Wakes, Send
    <3> QED BY <1>5, <2>2, <3>1
  <2> QED BY <2>1, <2>2
<1> QED BY <1>6, <1>7, StepKinds

LEMMA ErrorsReceivedNext ==
  ASSUME LoadInv, TimerType, ErrorsSent, ErrorsReceived, [Next]_vars
  PROVE  ErrorsReceived'
<1>1. /\ outcome \in [Load -> {"none", "loading", "ok", "error"}]
      /\ results \in [Load -> Seq(Sendable)]
      /\ \A k \in Load, n \in Block : <<k, n>> \in Worker
  BY DEF LoadInv, LoadType, Worker
<1>2. ASSUME NEW k \in Load, outcome[k] = "error" PROVE \E n \in Block : FailedAfter(<<k, n>>)
  <2>1. PICK n \in Block : Failed(<<k, n>>)
    BY <1>2 DEF ErrorsReceived
  <2>2. FailedAfter(<<k, n>>)
    BY <1>1, <2>1, FailedRemains
  <2> QED BY <2>2
<1>3. CASE outcome' = outcome
  BY <1>2, <1>3 DEF ErrorsReceived, Failed, FailedAfter
<1>4. CASE BeginLoad \/ \E k \in Load : Return(k)
  <2>1. \A j \in Load : outcome'[j] = "error" => outcome[j] = "error"
    BY <1>1, <1>4 DEF BeginLoad, Return
  <2> QED BY <1>2, <2>1 DEF ErrorsReceived, Failed, FailedAfter
<1>5. ASSUME NEW k \in Load, Receive(k) PROVE ErrorsReceived'
  <2>1. \A j \in Load : j # k => outcome'[j] = outcome[j]
    BY <1>1, <1>5 DEF Receive
  <2>2. ASSUME outcome'[k] = "error" PROVE \E n \in Block : FailedAfter(<<k, n>>)
    <3>1. /\ results[k] # <<>> /\ results[k] \in Seq(Sendable)
          /\ Head(results[k]).answer # "ok"
      BY <1>1, <1>5, <2>2 DEF Receive
    <3>2. Head(results[k]) = results[k][1] /\ Head(results[k]) \in Sendable /\ 1 \in 1..Len(results[k])
      BY <3>1, HeadAndTail
    <3>3. results[k][1].answer = "error" /\ results[k][1].number \in Block
      BY <3>1, <3>2 DEF Sendable
    <3>4. Failed(<<k, results[k][1].number>>)
      BY <3>2, <3>3 DEF ErrorsSent
    <3>5. FailedAfter(<<k, results[k][1].number>>)
      BY <1>1, <3>3, <3>4, FailedRemains
    <3> QED BY <3>3, <3>5
  <2> QED BY <1>2, <2>1, <2>2 DEF ErrorsReceived, Failed, FailedAfter
<1>6. CASE LoadStep
  <2>1. CASE BeginRead \/ Pass \/ Cancel \/ UNCHANGED vars
    BY <1>3, <2>1 DEF BeginRead, Pass, Cancel, vars, callVars
  <2>2. ASSUME NEW k \in Load, Launch(k) \/ Close(k) PROVE ErrorsReceived'
    BY <1>3, <2>2 DEF Launch, Close, callVars
  <2> QED BY <1>4, <1>5, <1>6, <2>1, <2>2 DEF LoadStep
<1>7. ASSUME NEW w \in Caller, CallerStep(w) PROVE ErrorsReceived'
  <2>1. outcome' = outcome
    BY <1>7 DEF CallerStep, FetchStep, WorkerStep, NoAttempt, Reserve, SlotComes, WaitCancelled, Answered,
                LastFailed, FailedNoBackoff, FailedBackoff, FailedPanic, Wakes,
                Send, Release, Exit, callVars
  <2> QED BY <1>3, <2>1
<1> QED BY <1>6, <1>7, StepKinds

-----------------------------------------------------------------------------
(* Waits *)

\* The callers that wait for a slot are the same as before.
LEMMA WaitingSame ==
  ASSUME \A v \in Caller : (pc'[v] = "timer" /\ left'[v] > 0) <=> (pc[v] = "timer" /\ left[v] > 0),
         \A v \in Caller : pc[v] = "timer" /\ left[v] > 0 => left'[v] = left[v]
  PROVE  Waiting' = Waiting
BY DEF Waiting

LEMMA SlotsTakenFrame ==
  ASSUME SlotsTaken, UNCHANGED <<cancelled, nextRequest>>,
         \A v \in Caller : (pc'[v] = "timer" /\ left'[v] > 0) <=> (pc[v] = "timer" /\ left[v] > 0),
         \A v \in Caller : pc[v] = "timer" /\ left[v] > 0 => left'[v] = left[v]
  PROVE  SlotsTaken'
<1>1. Waiting' = Waiting
  BY WaitingSame
<1> QED BY <1>1 DEF SlotsTaken

LEMMA SlotsTakenReserve ==
  ASSUME LoadInv, TimerType, SlotsTaken, NEW w \in Caller, Reserve(w)
  PROVE  SlotsTaken'
<1> SUFFICES ASSUME ~cancelled PROVE SlotsTaken'
  BY DEF Reserve, SlotsTaken
<1>0. /\ Interval \in Nat /\ nextRequest \in Int /\ left \in [Caller -> Nat]
      /\ pc[w] = "start" /\ cancelled' = cancelled /\ w \in DOMAIN pc
      /\ pc \in [Caller -> {"none", "start", "timer", "request", "sleep", "returned",
                            "release", "exit", "finished"}]
  BY LimiterAssumption DEF TimerType, LoadInv, LoadType, Reserve
<1>1. CASE Interval = 0
  <2>1. nextRequest' = nextRequest /\ left' = left /\ pc' = [pc EXCEPT ![w] = "request"]
    BY <1>1 DEF Reserve, limitVars, Goto
  <2>2. \A v \in Caller : pc'[v] = "timer" <=> pc[v] = "timer"
    BY <1>0, <2>1
  <2> QED BY <1>0, <2>1, <2>2, SlotsTakenFrame
<1>2. CASE Interval # 0
  <2>1. /\ nextRequest' = NextAfter(nextRequest)
        /\ left' = [left EXCEPT ![w] = Slot(nextRequest)]
        /\ pc' = [pc EXCEPT ![w] = IF Slot(nextRequest) > 0 THEN "timer" ELSE "request"]
    BY <1>2 DEF Reserve, Goto
  <2>2. \A v \in Caller : v # w => pc'[v] = pc[v] /\ left'[v] = left[v]
    BY <1>0, <2>1
  <2>3. Waiting \subseteq Waiting'
    BY <1>0, <2>2 DEF Waiting
  <2>4. CASE nextRequest <= 0
    <3>1. nextRequest' = Interval
      BY <1>0, <2>1, <2>4 DEF NextAfter
    <3>2. pc'[w] = "request"
      BY <1>0, <2>1, <2>4 DEF Slot
    <3>3. Waiting' = Waiting
      BY <1>0, <2>2, <3>2, WaitingSame
    <3> QED BY <1>0, <1>2, <3>1, <3>3 DEF SlotsTaken
  <2>5. CASE nextRequest > 0
    <3>1. nextRequest' = nextRequest + Interval
      BY <1>0, <2>1, <2>5 DEF NextAfter
    <3>2. pc'[w] = "timer" /\ left'[w] = nextRequest
      BY <1>0, <2>1, <2>5 DEF Slot
    <3>3. nextRequest \in Waiting'
      BY <2>5, <3>2 DEF Waiting
    <3>4. \A moment \in Waiting' : moment \in Waiting \cup {nextRequest}
      BY <1>0, <2>2, <3>2 DEF Waiting
    <3>5. \A moment \in Waiting \cup {nextRequest} : moment > Interval => moment - Interval \in Waiting
      BY DEF SlotsTaken
    <3>6. nextRequest' - Interval = nextRequest
      BY <1>0, <3>1
    <3> QED BY <1>0, <1>2, <2>3, <3>3, <3>4, <3>5, <3>6 DEF SlotsTaken
  <2> QED BY <1>0, <2>4, <2>5
<1> QED BY <1>1, <1>2

LEMMA SlotsTakenPass ==
  ASSUME LoadInv, TimerType, SlotsTaken, Pass
  PROVE  SlotsTaken'
<1> SUFFICES ASSUME ~cancelled PROVE SlotsTaken'
  BY DEF Pass, SlotsTaken
<1>0. /\ Interval \in Nat /\ nextRequest \in Int /\ nextRequest >= Past /\ left \in [Caller -> Nat]
      /\ pc' = pc /\ cancelled' = cancelled /\ nextRequest' = Sooner(nextRequest)
      /\ left' = [w \in Caller |-> IF left[w] > 0 THEN left[w] - 1 ELSE 0]
  BY LimiterAssumption DEF TimerType, Pass
<1>1. \A moment \in Waiting : moment \in Nat
  BY <1>0 DEF Waiting
<1>2. \A moment \in Waiting : moment > 1 => moment - 1 \in Waiting'
  <2> TAKE moment \in Waiting
  <2>1. PICK v \in Caller : pc[v] = "timer" /\ left[v] > 0 /\ left[v] = moment
    BY DEF Waiting
  <2>2. moment > 1 => pc'[v] = "timer" /\ left'[v] > 0 /\ left'[v] = moment - 1
    BY <1>0, <2>1
  <2> QED BY <2>2 DEF Waiting
<1>3. \A moment \in Waiting' : moment \in Nat /\ moment > 0 /\ moment + 1 \in Waiting
  <2> TAKE moment \in Waiting'
  <2>1. PICK v \in Caller : pc'[v] = "timer" /\ left'[v] > 0 /\ left'[v] = moment
    BY DEF Waiting
  <2>2. pc[v] = "timer" /\ left[v] > 0 /\ left[v] = moment + 1 /\ moment \in Nat
    BY <1>0, <2>1
  <2> QED BY <2>1, <2>2 DEF Waiting
<1>4. ASSUME NEW moment \in Waiting' \cup {nextRequest'}, moment > Interval
      PROVE  moment - Interval \in Waiting'
  <2>1. moment \in Nat /\ moment + 1 \in Waiting \cup {nextRequest}
    BY <1>0, <1>3, <1>4 DEF Sooner, Past
  <2>2. (moment + 1) - Interval \in Waiting
    <3>1. moment + 1 > Interval
      BY <1>0, <1>4, <2>1
    <3> QED BY <2>1, <3>1 DEF SlotsTaken
  <2>3. ((moment + 1) - Interval) - 1 \in Waiting'
    BY <1>0, <1>2, <1>4, <2>1, <2>2
  <2>4. ((moment + 1) - Interval) - 1 = moment - Interval
    BY <1>0, <2>1
  <2> QED BY <2>3, <2>4
<1>5. Interval = 0 => nextRequest' = Past
  BY <1>0 DEF SlotsTaken, Sooner, Past
<1> QED BY <1>4, <1>5 DEF SlotsTaken

LEMMA SlotsTakenNext ==
  ASSUME LoadInv, TimerType, SlotsTaken, [Next]_vars
  PROVE  SlotsTaken'
<1>1. /\ pc \in [Caller -> {"none", "start", "timer", "request", "sleep", "returned",
                            "release", "exit", "finished"}]
      /\ left \in [Caller -> Nat]
  BY DEF LoadInv, LoadType, TimerType
<1>2. CASE UNCHANGED <<cancelled, nextRequest, pc, left>>
  BY <1>2, SlotsTakenFrame
<1>3. ASSUME NEW w \in Caller, NEW place, place # "timer", pc[w] = "timer" => left[w] = 0,
             UNCHANGED <<cancelled, nextRequest>>, pc' = [pc EXCEPT ![w] = place],
             left' = left \/ \E n \in Nat : left' = [left EXCEPT ![w] = n]
      PROVE  SlotsTaken'
  <2>1. \A v \in Caller : v # w => pc'[v] = pc[v] /\ left'[v] = left[v]
    BY <1>1, <1>3
  <2>2. pc'[w] # "timer"
    BY <1>1, <1>3
  <2>3. ~(pc[w] = "timer" /\ left[w] > 0)
    BY <1>1, <1>3
  <2> QED BY <1>3, <2>1, <2>2, <2>3, SlotsTakenFrame
<1>4. CASE LoadStep
  <2>1. CASE Pass
    BY <2>1, SlotsTakenPass
  <2>2. CASE Cancel
    BY <2>2 DEF Cancel, SlotsTaken
  <2>3. CASE BeginLoad \/ UNCHANGED vars
    BY <1>2, <2>3 DEF BeginLoad, vars, limitVars
  <2>6. CASE BeginRead
    <3>1. Walk \in Caller /\ pc[Walk] # "timer"
      BY <2>6, Callers DEF BeginRead, WalkReads
    <3>2. pc' = [pc EXCEPT ![Walk] = "start"] /\ left' = left /\ UNCHANGED <<cancelled, nextRequest>>
      BY <2>6 DEF BeginRead, limitVars
    <3> QED BY <1>3, <3>1, <3>2
  <2>4. ASSUME NEW k \in Load, Receive(k) \/ Return(k) \/ Close(k) PROVE SlotsTaken'
    BY <1>2, <2>4 DEF Receive, Return, Close, limitVars
  <2>5. ASSUME NEW k \in Load, Launch(k) PROVE SlotsTaken'
    <3>1. <<k, launched[k] + 1>> \in Caller /\ pc[<<k, launched[k] + 1>>] = "none"
      BY <2>5, LaunchedWorker
    <3>2. /\ pc' = [pc EXCEPT ![<<k, launched[k] + 1>>] = "start"] /\ left' = left
          /\ UNCHANGED <<cancelled, nextRequest>>
      BY <2>5 DEF Launch, limitVars
    <3> QED BY <1>3, <3>1, <3>2
  <2> QED BY <1>4, <2>1, <2>2, <2>3, <2>4, <2>5, <2>6 DEF LoadStep
<1>5. ASSUME NEW w \in Caller, CallerStep(w) PROVE SlotsTaken'
  <2>1. CASE NoAttempt(w)
    BY <1>3, <2>1 DEF NoAttempt, Fails, Goto, limitVars
  <2>2. CASE Reserve(w)
    BY <2>2, SlotsTakenReserve
  <2>3. CASE SlotComes(w)
    BY <1>3, <2>3 DEF SlotComes, Goto, limitVars
  <2>4. CASE WaitCancelled(w)
    BY <2>4 DEF WaitCancelled, SlotsTaken
  <2>5. CASE Answered(w)
    BY <1>3, <2>5 DEF Answered, Goto, limitVars
  <2>6. CASE LastFailed(w)
    BY <1>3, <2>6 DEF LastFailed, Fails, Goto, limitVars
  <2>7. CASE FailedNoBackoff(w)
    BY <1>3, <2>7 DEF FailedNoBackoff, NextAttempt, Goto, limitVars
  <2>8. CASE FailedBackoff(w)
    <3>1. retryBackoff \in Nat /\ retryBackoff > 0 /\ attempt[w] \in Nat
      BY <2>8, SettingsType DEF FailedBackoff, TimerType
    <3>2. PICK wait \in Backoffs(retryBackoff, attempt[w]) : left' = [left EXCEPT ![w] = wait]
      BY <2>8 DEF FailedBackoff
    <3>3. wait \in Nat
      BY <3>1, <3>2, BackoffBounds
    <3> QED BY <1>3, <2>8, <3>2, <3>3 DEF FailedBackoff, Goto, limitVars
  <2>9. CASE FailedPanic(w)
    BY <1>2, <2>9 DEF FailedPanic, limitVars
  <2>10. CASE Wakes(w)
    BY <1>3, <2>10 DEF Wakes, NextAttempt, Goto, limitVars
  <2>11. CASE Send(w)
    BY <1>3, <2>11 DEF Send, Goto, limitVars
  <2>12. CASE Release(w)
    BY <1>3, <2>12 DEF Release, Goto, limitVars
  <2>13. CASE Exit(w)
    BY <1>3, <2>13 DEF Exit, Goto, limitVars
  <2> QED BY <1>5, <2>1, <2>2, <2>3, <2>4, <2>5, <2>6, <2>7, <2>8, <2>9, <2>10, <2>11,
             <2>12, <2>13 DEF CallerStep, FetchStep, WorkerStep
<1> QED BY <1>4, <1>5, StepKinds

\* A caller that sleeps after the step slept before it, not shorter, or has
\* just begun to.
LEMMA SleepBoundedNext ==
  ASSUME LoadInv, TimerType, SleepBounded, [Next]_vars
  PROVE  SleepBounded'
<1> DEFINE Cap == IF retryBackoff > MaxBackoff THEN retryBackoff ELSE MaxBackoff
<1>1. /\ pc \in [Caller -> {"none", "start", "timer", "request", "sleep", "returned",
                            "release", "exit", "finished"}]
      /\ left \in [Caller -> Nat] /\ Cap \in Nat
  BY SettingsType, LimiterAssumption DEF LoadInv, LoadType, TimerType
<1>2. ASSUME retryBackoff' = retryBackoff,
             \A v \in Caller : pc'[v] = "sleep" =>
               (pc[v] = "sleep" /\ left'[v] \in 0..left[v]) \/ 2 * left'[v] < 3 * Cap
      PROVE  SleepBounded'
  <2> SUFFICES ASSUME NEW v \in Caller, pc'[v] = "sleep" PROVE 2 * left'[v] < 3 * Cap
    BY <1>2 DEF SleepBounded
  <2>1. CASE pc[v] = "sleep" /\ left'[v] \in 0..left[v]
    <3>1. 2 * left[v] < 3 * Cap
      BY <2>1 DEF SleepBounded
    <3> HIDE DEF Cap
    <3> QED BY <1>1, <2>1, <3>1
  <2> QED BY <1>2, <2>1
<1> HIDE DEF Cap
<1>3. CASE UNCHANGED <<retryBackoff, pc, left>>
  BY <1>1, <1>2, <1>3
<1>4. ASSUME NEW w \in Caller, NEW place, place # "sleep",
             retryBackoff' = retryBackoff, pc' = [pc EXCEPT ![w] = place],
             left' = left \/ \E n \in Nat : left' = [left EXCEPT ![w] = n]
      PROVE  SleepBounded'
  <2>1. \A v \in Caller : v # w => pc'[v] = pc[v] /\ left'[v] = left[v]
    BY <1>1, <1>4
  <2>2. pc'[w] # "sleep"
    BY <1>1, <1>4
  <2>3. \A v \in Caller : left[v] \in 0..left[v]
    BY <1>1
  <2> QED BY <1>2, <1>4, <2>1, <2>2, <2>3
<1>5. CASE LoadStep
  <2>1. CASE Pass
    <3>1. retryBackoff' = retryBackoff /\ pc' = pc
      BY <2>1 DEF Pass, configVars
    <3>2. \A v \in Caller : left'[v] \in 0..left[v]
      BY <1>1, <2>1 DEF Pass
    <3> QED BY <1>2, <3>1, <3>2
  <2>2. CASE BeginLoad \/ Cancel \/ UNCHANGED vars
    BY <1>3, <2>2 DEF BeginLoad, Cancel, vars, configVars
  <2>5. CASE BeginRead
    <3>1. Walk \in Caller
      BY Callers
    <3>2. /\ pc' = [pc EXCEPT ![Walk] = "start"] /\ left' = left
          /\ retryBackoff' = retryBackoff
      BY <2>5 DEF BeginRead, configVars
    <3> QED BY <1>4, <3>1, <3>2
  <2>3. ASSUME NEW k \in Load, Receive(k) \/ Return(k) \/ Close(k) PROVE SleepBounded'
    BY <1>3, <2>3 DEF Receive, Return, Close, configVars
  <2>4. ASSUME NEW k \in Load, Launch(k) PROVE SleepBounded'
    <3>1. <<k, launched[k] + 1>> \in Caller
      BY <2>4, LaunchedWorker
    <3>2. /\ pc' = [pc EXCEPT ![<<k, launched[k] + 1>>] = "start"] /\ left' = left
          /\ retryBackoff' = retryBackoff
      BY <2>4 DEF Launch, configVars
    <3> QED BY <1>4, <3>1, <3>2
  <2> QED BY <1>5, <2>1, <2>2, <2>3, <2>4, <2>5 DEF LoadStep
<1>6. ASSUME NEW w \in Caller, CallerStep(w) PROVE SleepBounded'
  <2>1. CASE NoAttempt(w)
    BY <1>4, <2>1 DEF NoAttempt, Fails, Goto, configVars
  <2>2. CASE Reserve(w)
    <3>1. retryBackoff' = retryBackoff
      BY <2>2 DEF Reserve, configVars
    <3>2. CASE Interval = 0
      BY <1>4, <2>2, <3>1, <3>2 DEF Reserve, Goto
    <3>3. CASE Interval # 0
      <4>1. Slot(nextRequest) \in Nat
        BY DEF TimerType, Slot, Past
      <4>2. left' = [left EXCEPT ![w] = Slot(nextRequest)]
        BY <2>2, <3>3 DEF Reserve
      <4>3. PICK place \in {"timer", "request"} : pc' = [pc EXCEPT ![w] = place]
        BY <2>2, <3>3 DEF Reserve, Goto
      <4> QED BY <1>4, <3>1, <4>1, <4>2, <4>3
    <3> QED BY <3>2, <3>3
  <2>3. CASE SlotComes(w)
    BY <1>4, <2>3 DEF SlotComes, Goto, configVars
  <2>4. CASE WaitCancelled(w)
    BY <1>4, <2>4 DEF WaitCancelled, Fails, Goto, configVars
  <2>5. CASE Answered(w)
    BY <1>4, <2>5 DEF Answered, Goto, configVars
  <2>6. CASE LastFailed(w)
    BY <1>4, <2>6 DEF LastFailed, Fails, Goto, configVars
  <2>7. CASE FailedNoBackoff(w)
    BY <1>4, <2>7 DEF FailedNoBackoff, NextAttempt, Goto, configVars
  <2>8. CASE FailedBackoff(w)
    <3>1. retryBackoff \in Nat /\ retryBackoff > 0 /\ attempt[w] \in Nat
      BY <2>8, SettingsType DEF FailedBackoff, TimerType
    <3>2. PICK wait \in Backoffs(retryBackoff, attempt[w]) : left' = [left EXCEPT ![w] = wait]
      BY <2>8 DEF FailedBackoff
    <3>3. 2 * wait < 3 * Cap
      BY <3>1, <3>2, BackoffBounds DEF Cap
    <3>4. pc' = [pc EXCEPT ![w] = "sleep"] /\ retryBackoff' = retryBackoff
      BY <2>8 DEF FailedBackoff, Goto, configVars
    <3>5. left'[w] = wait /\ \A v \in Caller : v # w => pc'[v] = pc[v] /\ left'[v] = left[v]
      BY <1>1, <3>2, <3>4
    <3>6. \A v \in Caller : left[v] \in 0..left[v]
      BY <1>1
    <3> QED BY <1>2, <3>3, <3>4, <3>5, <3>6
  <2>9. CASE FailedPanic(w)
    BY <1>3, <2>9 DEF FailedPanic, configVars
  <2>10. CASE Wakes(w)
    BY <1>4, <2>10 DEF Wakes, NextAttempt, Goto, configVars
  <2>11. CASE Send(w)
    BY <1>4, <2>11 DEF Send, Goto, configVars
  <2>12. CASE Release(w)
    BY <1>4, <2>12 DEF Release, Goto, configVars
  <2>13. CASE Exit(w)
    BY <1>4, <2>13 DEF Exit, Goto, configVars
  <2> QED BY <1>6, <2>1, <2>2, <2>3, <2>4, <2>5, <2>6, <2>7, <2>8, <2>9, <2>10, <2>11,
             <2>12, <2>13 DEF CallerStep, FetchStep, WorkerStep
<1> QED BY <1>5, <1>6, StepKinds

LEMMA PanicNeedsOneNext ==
  ASSUME LoadInv, TimerType, AttemptsLeft, PanicNeedsOne, [Next]_vars
  PROVE  PanicNeedsOne'
<1>1. CASE UNCHANGED <<configVars, panicked>>
  BY <1>1 DEF configVars, PanicNeedsOne
<1>2. CASE LoadStep
  <2>1. CASE BeginRead \/ BeginLoad \/ Pass \/ Cancel \/ UNCHANGED vars
    BY <1>1, <2>1 DEF BeginRead, BeginLoad, Pass, Cancel, vars, configVars
  <2>2. ASSUME NEW k \in Load, Receive(k) \/ Return(k) \/ Launch(k) \/ Close(k)
        PROVE  PanicNeedsOne'
    BY <1>1, <2>2 DEF Receive, Return, Launch, Close
  <2> QED BY <1>2, <2>1, <2>2 DEF LoadStep
<1>3. ASSUME NEW w \in Caller, CallerStep(w) PROVE PanicNeedsOne'
  <2>1. CASE FailedPanic(w)
    <3>1. /\ retryBackoff \in Nat /\ retryBackoff > 0 /\ attempt[w] \in Nat /\ retries \in Nat
          /\ attempt[w] < retries /\ ~IsLast(attempt[w])
      BY <2>1, SettingsType DEF FailedPanic, TimerType, AttemptsLeft
    <3>2. retryBackoff = 1
      BY <2>1, <3>1, BackoffBounds DEF FailedPanic
    <3>3. retries > 1
      BY <3>1 DEF IsLast
    <3> QED BY <2>1, <3>2, <3>3 DEF FailedPanic, configVars, PanicNeedsOne
  <2>2. CASE ~FailedPanic(w)
    BY <1>1, <1>3, <2>2
       DEF CallerStep, FetchStep, WorkerStep, NoAttempt, Reserve, SlotComes, WaitCancelled, Answered, LastFailed,
           FailedNoBackoff, FailedBackoff, Wakes, Send, Release, Exit
  <2> QED BY <2>1, <2>2
<1> QED BY <1>2, <1>3, StepKinds

LEMMA FetchInvInit == Init => FetchInv
<1> SUFFICES ASSUME Init PROVE FetchInv
  OBVIOUS
<1>1. TimerType
  BY TimerTypeInit
<1>2. ErrorInv
  <2>1. retries \in Nat
    BY <1>1, SettingsType
  <2> QED BY <2>1 DEF Init, ErrorInv, AttemptsLeft, ErrorsCounted, ErrorsSent, ErrorsReceived, Failed
<1>3. SlotsTaken
  <2>1. Waiting = {}
    BY DEF Init, Waiting
  <2>2. nextRequest = Past
    BY DEF Init
  <2> QED BY <2>1, <2>2, LimiterAssumption DEF SlotsTaken, Past
<1>4. SleepBounded /\ PanicNeedsOne
  BY DEF Init, SleepBounded, PanicNeedsOne
<1> QED BY <1>1, <1>2, <1>3, <1>4 DEF FetchInv

LEMMA FetchInvNext == LoadInv /\ FetchInv /\ [Next]_vars => FetchInv'
<1> SUFFICES ASSUME LoadInv, FetchInv, [Next]_vars PROVE FetchInv'
  OBVIOUS
<1> USE DEF FetchInv, ErrorInv
<1>1. TimerType'
  BY TimerTypeNext
<1>2. AttemptsLeft' /\ ErrorsCounted'
  BY AttemptsLeftNext, ErrorsCountedNext
<1>3. ErrorsSent' /\ ErrorsReceived'
  BY ErrorsSentNext, ErrorsReceivedNext
<1>4. SlotsTaken' /\ SleepBounded' /\ PanicNeedsOne'
  BY SlotsTakenNext, SleepBoundedNext, PanicNeedsOneNext
<1> QED BY <1>1, <1>2, <1>3, <1>4

-----------------------------------------------------------------------------
(* The backlog of the limiter *)

\* A moment that is reached in steps of an interval, each of them one of a set
\* of moments, is no further away than the set has steps.
LEMMA StepsCount ==
  ASSUME NEW W \in SUBSET Nat, IsFiniteSet(W), NEW size \in Nat \ {0}, NEW n \in Int,
         \A x \in W \cup {n} : x > size => x - size \in W
  PROVE  n <= size * (1 + Cardinality(W))
<1> DEFINE Below(x) == {s \in W : s < x}
           Good == {x \in Nat : x \in W \cup {n} => x <= size * (1 + Cardinality(Below(x)))}
<1>1. \A x : IsFiniteSet(Below(x)) /\ Cardinality(Below(x)) \in Nat
  BY FS_Subset, FS_CardinalityType
<1>2. ASSUME NEW x \in Nat, \A k \in Nat : k < x => k \in Good
      PROVE  x \in Good
  <2> SUFFICES ASSUME x \in W \cup {n} PROVE x <= size * (1 + Cardinality(Below(x)))
    OBVIOUS
  <2>1. CASE x <= size
    <3> DEFINE b == Cardinality(Below(x))
    <3>1. b \in Nat
      BY <1>1
    <3> HIDE DEF b
    <3>2. size * (1 + b) = size + size * b /\ size * b >= 0
      BY <3>1
    <3>3. x <= size * (1 + b)
      BY <2>1, <3>1, <3>2
    <3> QED BY <3>3 DEF b
  <2>2. CASE x > size
    <3> DEFINE y == x - size
    <3>1. y \in W /\ y \in Nat /\ y < x /\ x = y + size
      BY <2>2
    <3> HIDE DEF y
    <3>2. y <= size * (1 + Cardinality(Below(y)))
      <4>1. y \in Good
        BY <1>2, <3>1
      <4> QED BY <3>1, <4>1
    <3>3. Cardinality(Below(y)) + 1 <= Cardinality(Below(x))
      <4>1. Below(y) \cup {y} \subseteq Below(x) /\ y \notin Below(y)
        <5>1. \A s \in W : s < y => s < x
          BY <3>1
        <5>2. ~(y < y)
          BY <3>1
        <5> QED BY <3>1, <5>1, <5>2
      <4> DEFINE lower == Below(y)
      <4>2. IsFiniteSet(lower) /\ y \notin lower
        BY <1>1, <4>1
      <4>3. IsFiniteSet(lower \cup {y}) /\ Cardinality(lower \cup {y}) = Cardinality(lower) + 1
        <5> HIDE DEF lower
        <5> QED BY <4>2, FS_AddElement
      <4>4. Cardinality(Below(y) \cup {y}) <= Cardinality(Below(x))
        BY <1>1, <4>1, FS_Subset
      <4> QED BY <4>3, <4>4
    <3> DEFINE b == Cardinality(Below(y))
               c == Cardinality(Below(x)) - (b + 1)
    <3>4. b \in Nat /\ c \in Nat /\ Cardinality(Below(x)) = b + 1 + c
      BY <1>1, <3>3
    <3>5. y <= size * (1 + b)
      BY <3>2
    <3>6. x = y + size
      BY <3>1
    <3> HIDE DEF b, c
    <3>7. size * (1 + (b + 1 + c)) = size * (1 + b) + size + size * c /\ size * c >= 0
      BY <3>4
    <3>8. size * (1 + b) \in Nat /\ size * c \in Nat /\ y \in Nat
      BY <3>1, <3>4
    <3>9. x <= size * (1 + (b + 1 + c))
      BY <3>5, <3>6, <3>7, <3>8
    <3> QED BY <3>4, <3>9
  <2> QED BY <2>1, <2>2
<1>3. Good \in SUBSET Nat
  OBVIOUS
<1>4. Good = Nat
  <2> HIDE DEF Good
  <2> QED BY <1>2, <1>3, NatInductionStrong
<1>5. CASE n < 0
  <2> DEFINE b == Cardinality(W)
  <2>1. b \in Nat
    BY FS_CardinalityType
  <2> HIDE DEF b
  <2>2. size * (1 + b) >= 0
    BY <2>1
  <2>3. n <= size * (1 + b)
    BY <1>5, <2>1, <2>2
  <2> QED BY <2>3 DEF b
<1>6. CASE n >= 0
  <2>1. n <= size * (1 + Cardinality(Below(n)))
    BY <1>4, <1>6
  <2> DEFINE b == Cardinality(Below(n))
             c == Cardinality(W) - b
  <2>2. b \in Nat /\ c \in Nat /\ Cardinality(W) = b + c
    <3>1. Below(n) \subseteq W
      OBVIOUS
    <3>2. Cardinality(Below(n)) <= Cardinality(W) /\ Cardinality(W) \in Nat
      BY <3>1, FS_Subset, FS_CardinalityType
    <3> QED BY <1>1, <3>2
  <2>3. n <= size * (1 + b)
    BY <2>1
  <2> HIDE DEF b, c
  <2>4. size * (1 + (b + c)) = size * (1 + b) + size * c /\ size * c >= 0
    BY <2>2
  <2>5. n <= size * (1 + (b + c))
    BY <2>2, <2>3, <2>4
  <2> QED BY <2>2, <2>5
<1> QED BY <1>5, <1>6

\* No two workers of one load wait for a slot, and only those of a load that
\* runs; besides them only the walk, while it reads a block.
LEMMA WaitingCallers ==
  ASSUME LoadInv, TimerType
  PROVE  /\ IsFiniteSet(Waiting) /\ Waiting \in SUBSET Nat
         /\ Cardinality({k \in Load : Running(k)}) \in Nat
         /\ Cardinality(Waiting) <= Cardinality({k \in Load : Running(k)})
                                    + IF WalkReads THEN 1 ELSE 0
<1> DEFINE Runs == {k \in Load : Running(k)}
           Busy == IF WalkReads THEN Runs \cup {0} ELSE Runs
           At(v, moment) == pc[v] = "timer" /\ left[v] > 0 /\ left[v] = moment
           caller == [moment \in Waiting |-> CHOOSE v \in Caller : At(v, moment)]
           loadOf == [moment \in Waiting |-> caller[moment][1]]
<1>1. IsFiniteSet(Runs) /\ 0 \notin Runs
  <2>1. IsFiniteSet(1..Loads)
    BY LoaderAssumption, FS_Interval
  <2>2. Runs \subseteq 1..Loads /\ 0 \notin 1..Loads
    BY LoaderAssumption DEF Load
  <2>3. 0 \notin Runs
    BY <2>2
  <2> HIDE DEF Runs
  <2> QED BY <2>1, <2>2, <2>3, FS_Subset
<1>2. /\ IsFiniteSet(Busy) /\ Cardinality(Runs) \in Nat
      /\ Cardinality(Busy) = Cardinality(Runs) + IF WalkReads THEN 1 ELSE 0
  <2> HIDE DEF Runs
  <2>1. Cardinality(Runs) \in Nat
    BY <1>1, FS_CardinalityType
  <2>2. CASE WalkReads
    BY <1>1, <2>1, <2>2, FS_AddElement
  <2>3. CASE ~WalkReads
    BY <1>1, <2>1, <2>3
  <2> QED BY <2>2, <2>3
<1>3. \A moment \in Waiting : caller[moment] \in Caller /\ At(caller[moment], moment)
  <2> SUFFICES ASSUME NEW moment \in Waiting
               PROVE  caller[moment] \in Caller /\ At(caller[moment], moment)
    OBVIOUS
  <2>1. \E v \in Caller : At(v, moment)
    BY DEF Waiting
  <2> HIDE DEF At
  <2> QED BY <2>1
<1> HIDE DEF caller
<1>4. ASSUME NEW v \in Worker, pc[v] = "timer"
      PROVE  v[1] \in Runs /\ v[1] # 0 /\ v[2] = launched[v[1]]
  <2>1. v[1] \in Load /\ v[2] \in Block /\ v = <<v[1], v[2]>>
    BY DEF Worker
  <2>2. v[2] = launched[v[1]]
    BY <1>4 DEF LoadInv, OneBlockAtATime, Holds
  <2>3. ~closed[v[1]]
    BY <1>4, <2>1 DEF LoadInv, ClosedAtEnd
  <2>4. outcome[v[1]] # "none"
    BY <2>1, <2>2 DEF LoadInv, Unbegun, Block
  <2> QED BY <2>1, <2>2, <2>3, <2>4 DEF Running, Load
<1>5. ASSUME NEW v \in Caller, pc[v] = "timer"
      PROVE  v[1] \in Busy /\ (v = Walk <=> v[1] = 0) /\ (v \in Worker \/ v = Walk)
  <2>1. CASE v = Walk
    BY <1>5, <2>1 DEF WalkReads, Walk
  <2>2. CASE v \in Worker
    BY <1>4, <1>5, <2>2 DEF Walk
  <2> QED BY <2>1, <2>2 DEF Caller
<1>6. loadOf \in [Waiting -> Busy]
  <2> HIDE DEF Busy
  <2> QED BY <1>3, <1>5
<1>7. \A s, t \in Waiting : loadOf[s] = loadOf[t] => s = t
  <2> SUFFICES ASSUME NEW s \in Waiting, NEW t \in Waiting, loadOf[s] = loadOf[t]
               PROVE  s = t
    OBVIOUS
  <2>1. caller[s][1] = caller[t][1]
    OBVIOUS
  <2>2. /\ caller[s] \in Caller /\ pc[caller[s]] = "timer" /\ left[caller[s]] = s
        /\ caller[t] \in Caller /\ pc[caller[t]] = "timer" /\ left[caller[t]] = t
    BY <1>3
  <2>3. CASE caller[s] = Walk
    <3>1. caller[t] = Walk
      BY <1>5, <2>1, <2>2, <2>3
    <3> QED BY <2>2, <2>3, <3>1
  <2>4. CASE caller[s] # Walk
    <3>1. caller[s] \in Worker /\ caller[t] \in Worker
      BY <1>5, <2>1, <2>2, <2>4
    <3>2. caller[s][2] = caller[t][2]
      BY <1>4, <2>1, <2>2, <3>1
    <3>3. caller[s] = caller[t]
      BY <2>1, <3>1, <3>2 DEF Worker
    <3> QED BY <2>2, <3>3
  <2> QED BY <2>3, <2>4
<1>8. loadOf \in Injection(Waiting, Busy)
  <2> HIDE DEF loadOf, Busy
  <2> QED BY <1>6, <1>7 DEF Injection, IsInjective
<1>9. IsFiniteSet(Waiting) /\ Cardinality(Waiting) <= Cardinality(Busy)
  <2> HIDE DEF loadOf, Busy
  <2> QED BY <1>2, <1>8, FS_Injection
<1>10. Waiting \in SUBSET Nat
  BY DEF Waiting, TimerType
<1> QED BY <1>2, <1>9, <1>10

LEMMA BacklogFollows ==
  ASSUME LoadInv, TimerType, SlotsTaken
  PROVE  BacklogBounded
<1> DEFINE r == Cardinality({k \in Load : Running(k)})
           b == r + IF WalkReads THEN 1 ELSE 0
           c == Cardinality(Waiting)
<1> SUFFICES ASSUME ~cancelled PROVE nextRequest <= Interval * (1 + b)
  BY WaitingCallers DEF BacklogBounded
<1>1. c \in Nat /\ b \in Nat /\ c <= b
  BY WaitingCallers, FS_CardinalityType
<1> HIDE DEF b
<1>2. nextRequest \in Int /\ Interval \in Nat
  BY LimiterAssumption DEF TimerType
<1>3. CASE Interval = 0
  <2>1. nextRequest = Past
    BY <1>3 DEF SlotsTaken
  <2> QED BY <1>1, <1>3, <2>1 DEF Past
<1>4. CASE Interval # 0
  <2>1. nextRequest <= Interval * (1 + c)
    <3>1. \A moment \in Waiting \cup {nextRequest} : moment > Interval => moment - Interval \in Waiting
      BY DEF SlotsTaken
    <3>2. IsFiniteSet(Waiting) /\ Waiting \in SUBSET Nat /\ Interval \in Nat \ {0}
      BY <1>2, <1>4, WaitingCallers
    <3> QED BY <1>2, <3>1, <3>2, StepsCount
  <2> DEFINE d == b - c
  <2>2. d \in Nat /\ b = c + d
    BY <1>1
  <2> HIDE DEF c, d
  <2>3. Interval * (1 + (c + d)) = Interval * (1 + c) + Interval * d /\ Interval * d >= 0
    BY <1>1, <1>2, <2>2
  <2> QED BY <1>1, <1>2, <2>1, <2>2, <2>3
<1> QED BY <1>3, <1>4

-----------------------------------------------------------------------------
\* Attempts, errors, slots and waits are as the invariant says.
LEMMA FetchInvariant == Spec => [](LoadInv /\ FetchInv)
<1>1. Init => LoadInv /\ FetchInv
  BY LoadInvInit, FetchInvInit
<1>2. (LoadInv /\ FetchInv) /\ [Next]_vars => (LoadInv /\ FetchInv)'
  BY LoadInvNext, FetchInvNext
<1> QED BY <1>1, <1>2, PTL DEF Spec

(* All variables of the loads, the workers and the limiter have their      *)
(* types.                                                                  *)
THEOREM LoaderTyped == Spec => []TypeOK
<1>1. LoadInv /\ FetchInv => TypeOK
  BY DEF LoadInv, LoadType, FetchInv, TimerType, TypeOK, Sendable
<1> QED BY <1>1, FetchInvariant, PTL

(* A load fails only when the context ended or one of its blocks was       *)
(* refused as often as configured (blocks.go:32): the error in the channel *)
(* is that of a worker, and keeps its number of attempts.                  *)
THEOREM ErrorsEarned == Spec => []ErrorIsEarned
<1>1. LoadInv /\ FetchInv => ErrorIsEarned
  BY DEF FetchInv, ErrorInv, ErrorsReceived, ErrorsCounted, Failed, ErrorIsEarned, Worker
<1> QED BY <1>1, FetchInvariant, PTL

(* The limiter is never further ahead than one interval for each load that *)
(* runs, one for the walk while it reads a block (reorg.go:44) and one for *)
(* the request before (rate_limiter.go:39): for each slot still to come    *)
(* there is a caller that waits for it, and no load has two.               *)
THEOREM BacklogStays == Spec => []BacklogBounded
<1>1. LoadInv /\ FetchInv => BacklogBounded
  BY BacklogFollows DEF FetchInv
<1> QED BY <1>1, FetchInvariant, PTL

(* However often the wait between two attempts was doubled, it stays below *)
(* one and a half times the cap or the configured backoff (retry.go:16).   *)
THEOREM SleepsStayBounded == Spec => []SleepBounded
<1>1. LoadInv /\ FetchInv => SleepBounded
  BY DEF FetchInv
<1> QED BY <1>1, FetchInvariant, PTL

(* Int63n panics only with a backoff of one nanosecond (retry.go:23), for  *)
(* every cap and every number of attempts.                                 *)
THEOREM PanicOnlyWithOne == Spec => []PanicNeedsOne
<1>1. LoadInv /\ FetchInv => PanicNeedsOne
  BY DEF FetchInv
<1> QED BY <1>1, FetchInvariant, PTL

=============================================================================
