------------------------------ MODULE MCSyncer ------------------------------
(***************************************************************************)
(* Syncer on a small block tree.                                           *)
(*                                                                         *)
(*   height        1    2    3    4                                        *)
(*   "main"        1    2    3    4                                        *)
(*   "late"        1    2   13   14       forks after 2                    *)
(*   "early"       1   22   23   24       forks after 1                    *)
(*                                                                         *)
(* A hash is the number of its block plus ten times its branch.            *)
(***************************************************************************)
EXTENDS SyncerRefinement, TLC

CONSTANTS a, b, r1, r2   \* two holders, two requests

MCBranch == {"main", "late", "early"}
MCMaxHeight == 4
MCBlockOn ==
  "main"  :> <<1, 2, 3, 4>> @@
  "late"  :> <<1, 2, 13, 14>> @@
  "early" :> <<1, 22, 23, 24>>
MCHolder == {a, b}

\* A lower tree, with a branch that has no block in common with the others.
LowBranch == {"main", "early", "first"}
LowMaxHeight == 3
LowBlockOn ==
  "main"  :> <<1, 2, 3>> @@
  "early" :> <<1, 22, 23>> @@
  "first" :> <<31, 32, 33>>

Mint == 0

Event(token, kind, tx, idx, src, dst, val) ==
  [token |-> token, kind |-> kind, tx |-> tx, idx |-> idx,
   src |-> src, dst |-> dst, val |-> val]

\* One token: what one block holds.  tx3 moves to another place in the block
\* when block 3 is replaced, tx4 from block 4 to block 3; tx2 is lost on
\* branch "early" with its block.
mint1     == Event(1, "transfer", "tx1", 0, Mint, a, 5)
pay2      == Event(1, "transfer", "tx2", 0, a, b, 2)
approve2  == Event(1, "approval", "tx2", 1, a, b, 7)
approve3  == Event(1, "approval", "tx3", 0, a, b, 1)
again3    == Event(1, "approval", "tx3", 1, a, b, 4)
pay3      == Event(1, "transfer", "tx3", 2, a, b, 1)
again3late == Event(1, "approval", "tx3", 0, a, b, 4)
pay3late  == Event(1, "transfer", "tx3", 1, a, b, 1)
nft4      == Event(1, "other", "tx4", 0, a, b, 0)
back4     == Event(1, "transfer", "tx5", 1, b, a, 1)

OneTokenLog ==
  {mint1, pay2, approve2, approve3, again3, pay3, again3late, pay3late, nft4, back4}

OneTokenLogsIn ==
  1  :> {mint1} @@ 2 :> {pay2, approve2} @@
  3  :> {approve3, again3, pay3} @@ 4 :> {nft4, back4} @@
  13 :> {again3late, pay3late} @@ 14 :> {nft4} @@
  22 :> {} @@ 23 :> {pay2, approve2} @@ 24 :> {approve3, again3, pay3}

\* The lower tree: one event, which moves to another block or is lost.
LowLogsIn ==
  [h \in {1, 2, 3, 22, 23, 31, 32, 33} |-> IF h \in {2, 23} THEN {mint1} ELSE {}]

\* Two tokens: token 2 has events of its own and one in a common transaction.
other1  == Event(2, "transfer", "tx1", 1, Mint, b, 3)
other2  == Event(2, "approval", "tx6", 2, b, a, 2)
other3  == Event(2, "transfer", "tx7", 3, b, a, 1)

TwoTokenLog == OneTokenLog \cup {other1, other2, other3}
TwoTokenLogsIn ==
  1  :> {mint1, other1} @@ 2 :> {pay2, other2} @@
  3  :> {approve3, pay3, other3} @@ 4 :> {back4} @@
  13 :> {pay3late} @@ 14 :> {other3} @@
  22 :> {other2} @@ 23 :> {other3} @@ 24 :> {approve3}

\* What BalancesMatch assumes holds of the first tree, indexed from its start.
ASSUME SolventFromTheStart == LogsIn = OneTokenLogsIn /\ StartBlock = 0 => Solvent

=============================================================================
