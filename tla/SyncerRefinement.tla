-------------------------- MODULE SyncerRefinement --------------------------
(***************************************************************************)
(* The indexer as an implementation of Ledger.  The indexed blocks and the *)
(* cursors are those of the tables, the events the rows of the two event   *)
(* tables; ticks, requests, failures and the chain are invisible.          *)
(***************************************************************************)
EXTENDS SyncerInvariant

L == INSTANCE Ledger WITH events <- transfers \cup approvals

(* Whatever fails, dies or arrives late, the tables change only as those   *)
(* of a ledger do: every step of the indexer or the API (syncer.go:153,    *)
(* handlers.go:56) creates a cursor, appends a whole range of one branch   *)
(* with all events of a token, takes the ledger back to one of its blocks, *)
(* or changes nothing.  In particular no event is lost by the primary key  *)
(* (ON CONFLICT DO NOTHING) and no batch goes on top of another branch.    *)
ImplementsLedger == L!Spec

=============================================================================
