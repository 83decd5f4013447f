-------------------------------- MODULE Chain --------------------------------
(***************************************************************************)
(* The Ethereum node behind internal/chain, as the indexer sees it: a head *)
(* that grows, and a canonical branch that a reorganisation replaces.      *)
(*                                                                         *)
(* The block tree is a constant.  BlockOn[b][n] is the hash of block n on  *)
(* branch b; because a hash commits to the parent, two branches that agree *)
(* at one height agree at every height below.  LogsIn[h] holds the ERC-20  *)
(* logs of block h.  A chain may switch back to a branch it left.          *)
(***************************************************************************)
EXTENDS Integers, FiniteSets

CONSTANTS
  Branch,     \* the branches of the block tree
  MaxHeight,  \* bound: the height no head exceeds
  BlockOn,    \* BlockOn[b][n]: the hash of block n on branch b
  Log,        \* the logs: [token, kind, tx, idx, src, dst, val]
  LogsIn      \* LogsIn[h]: the logs of the block with hash h

Height == 1..MaxHeight
Hash == {BlockOn[b][n] : b \in Branch, n \in Height}

\* What a log decodes to: an event, or nothing (a topic count other than 3).
LogKind == {"transfer", "approval", "other"}

\* Blocks are linked by their hashes.
ASSUME LinkAssumption ==
  /\ MaxHeight \in Nat
  /\ BlockOn \in [Branch -> [Height -> Hash]]
  /\ \A b, c \in Branch : \A m, n \in Height :
       BlockOn[b][m] = BlockOn[c][n] =>
         m = n /\ \A k \in 1..m : BlockOn[b][k] = BlockOn[c][k]

\* A block has finitely many logs.  On one branch a transaction is in one block,
\* and the index of a log is its own in that block.
ASSUME LogAssumption ==
  /\ LogsIn \in [Hash -> SUBSET Log]
  /\ \A h \in Hash : IsFiniteSet(LogsIn[h])
  /\ \A l \in Log : l.kind \in LogKind /\ l.val \in Nat
  /\ \A b \in Branch : \A m, n \in Height :
       \A k \in LogsIn[BlockOn[b][m]], l \in LogsIn[BlockOn[b][n]] :
         k.tx = l.tx /\ k.idx = l.idx => m = n /\ k = l

VARIABLES
  branch,  \* the canonical branch
  head     \* the number of the latest block

chainVars == <<branch, head>>

ChainTypeOK == branch \in Branch /\ head \in 0..MaxHeight

ChainInit == branch \in Branch /\ head = 0

-----------------------------------------------------------------------------
Mine ==
  /\ head < MaxHeight
  /\ head' = head + 1
  /\ UNCHANGED branch

\* The node turns to head h of branch b.
SwitchTo(b, h) == branch' = b /\ head' = h

\* The switch leaves the blocks 1..n that the node has as they are.
KeepsUpTo(n, b, h) ==
  \A m \in Height : m <= n /\ m <= head =>
    m <= h /\ BlockOn[b][m] = BlockOn[branch][m]

-----------------------------------------------------------------------------
(* The answers to the three requests of the indexer.  Each is one request: *)
(* all of an answer comes from one state of the node.                      *)

\* ethclient.BlockNumber
LatestBlockNumber == head

\* ethclient.BlockByNumber(n): answered with block n when there is one.
HasBlock(n) == n \in Height /\ n <= head
BlockByNumber(n) == BlockOn[branch][n]

Row(n, h, l) == [number |-> n, hash |-> h, log |-> l]

\* ethclient.FilterLogs with token t's address and both topics.
FilterLogs(t, from, to) ==
  UNION {{Row(n, BlockByNumber(n), l) :
            l \in {k \in LogsIn[BlockByNumber(n)] : k.token = t}} :
         n \in {m \in from..to : HasBlock(m)}}

=============================================================================
