---------------------------- MODULE BatchApplier ----------------------------
(***************************************************************************)
(* internal/indexer/batch_applier.go and decoder.go: a batch of logs       *)
(* decoded into events, the events inserted into their tables, and the     *)
(* balances and allowances moved by the rows that were really inserted.    *)
(***************************************************************************)
EXTENDS Storage

\* Decoder and Syncer.decodeLogs: the logs that decode to an event of a kind.
Decoded(rows, kind) == {r \in rows : r.log.kind = kind}

-----------------------------------------------------------------------------
(* applyBalanceDeltas: one signed delta for each holder of the batch, the  *)
(* zero address left out, applied with Add or, when negative, Subtract.    *)

NetDelta(rows, k) ==
  SumFunction([r \in rows |-> (IF r.log.dst = k.holder THEN r.log.val ELSE 0)
                            - (IF r.log.src = k.holder THEN r.log.val ELSE 0)])

BalancesApplied(balances, inserted) ==
  [k \in DOMAIN balances |->
     LET rows  == Credits(inserted, k) \cup Debits(inserted, k)
         delta == NetDelta(rows, k)
     IN  IF rows = {} THEN balances[k]
         ELSE IF delta >= 0
              THEN Added(balances[k], delta, MaxBlock(rows))
              ELSE Subtracted(balances[k], -delta, MaxBlock(rows))]

-----------------------------------------------------------------------------
(* applyAllowances: for each owner and spender the approval of the highest *)
(* block, and in it of the highest log index, overwrites the allowance.    *)

\* Mutant: any approval of the batch may be the one kept.
AllowancesAppliedAny(allowances, inserted) ==
  [k \in DOMAIN allowances |->
     LET rows == ApprovalsOf(inserted, k)
         some == CHOOSE s \in rows : \A r \in rows : NotAfter(s, r)
     IN  IF rows = {} THEN allowances[k]
         ELSE [amount |-> some.log.val, block |-> some.number]]

AllowancesApplied(allowances, inserted) ==
  [k \in DOMAIN allowances |->
     LET rows == ApprovalsOf(inserted, k)
     IN  IF rows = {} THEN allowances[k] ELSE AllowanceRow(rows)]

=============================================================================
