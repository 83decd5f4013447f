------------------------------- MODULE Ledger -------------------------------
(***************************************************************************)
(* What the indexer promises to the readers of its tables, with no ticks,  *)
(* batches, requests, failures or crashes in it: a ledger of one branch    *)
(* that only ever grows by whole ranges of blocks, together with a token's *)
(* events in them, or is taken back to one of its own blocks.              *)
(***************************************************************************)
EXTENDS Integers

CONSTANTS
  Branch, MaxHeight, BlockOn, LogsIn,  \* the block tree, as in Chain
  Token,
  NoRow,
  First      \* the first block ever indexed

VARIABLES
  blocks,  \* the block indexed at each height, or NoRow
  events,  \* the transfers and approvals: [number, hash, log]
  cursor   \* how far each token is known to be complete, or NoRow

ledger == <<blocks, events, cursor>>

Indexed == {n \in 1..MaxHeight : blocks[n] # NoRow}

\* The events of token t in block n of branch b.
EventsOn(b, n, t) ==
  {[number |-> n, hash |-> BlockOn[b][n], log |-> l] :
     l \in {k \in LogsIn[BlockOn[b][n]] : k.token = t /\ k.kind # "other"}}

Init ==
  /\ blocks = [n \in 1..MaxHeight |-> NoRow]
  /\ events = {}
  /\ cursor = [t \in Token |-> NoRow]

\* A token begins, or begins again.
Open(t) ==
  /\ cursor' = [cursor EXCEPT ![t] = First - 1]
  /\ UNCHANGED <<blocks, events>>

\* The blocks m..n of a branch are added that all the indexed blocks are of,
\* with each event of a token of which nothing is missing below them.
Append(t, b, m, n) ==
  /\ First <= m /\ m <= n
  /\ \A k \in Indexed : blocks[k] = BlockOn[b][k]
  /\ \A k \in First..(m - 1) : k \in Indexed /\ EventsOn(b, k, t) \subseteq events
  /\ blocks' = [k \in 1..MaxHeight |-> IF k \in m..n THEN BlockOn[b][k] ELSE blocks[k]]
  /\ events' = events \cup UNION {EventsOn(b, k, t) : k \in m..n}
  /\ cursor' = [cursor EXCEPT ![t] = n]

\* Everything above an indexed block is forgotten.
TakeBack(n) ==
  /\ blocks' = [k \in 1..MaxHeight |-> IF k > n THEN NoRow ELSE blocks[k]]
  /\ events' = {e \in events : e.number <= n}
  /\ cursor' = [t \in Token |->
                  IF cursor[t] # NoRow /\ cursor[t] > n THEN n ELSE cursor[t]]

Next ==
  \/ \E t \in Token : Open(t)
  \/ \E t \in Token, b \in Branch, m, n \in 1..MaxHeight : Append(t, b, m, n)
  \/ \E n \in Indexed : TakeBack(n)

Spec == Init /\ [][Next]_ledger

=============================================================================
