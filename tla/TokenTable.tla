----------------------------- MODULE TokenTable -----------------------------
(***************************************************************************)
(* The table tokens (internal/storage/token_repo.go) and the metadata that *)
(* ERC20Metadata (internal/chain/erc20.go) reads for it.                   *)
(*                                                                         *)
(*   tokens   [token -> [meta, active] or NoRow]                           *)
(*                                                                         *)
(* meta is the set of the fields known; a field that could not be read is  *)
(* stored with its empty value.                                            *)
(***************************************************************************)
CONSTANTS
  NoRow,   \* no row with this key
  Field    \* what is read of a token: name, symbol, decimals, total supply

\* Mutant: the conflicting row keeps its is_active.
UpsertedInactive(tokens, t, known) ==
  [tokens EXCEPT ![t] =
     [meta |-> known, active |-> IF tokens[t] = NoRow THEN TRUE ELSE tokens[t].active]]

\* Upsert of an active token: every column of a conflicting row is replaced.
Upserted(tokens, t, known) ==
  [tokens EXCEPT ![t] = [meta |-> known, active |-> TRUE]]

\* SetActive(false), an UPDATE: it does not make a row.
Deactivated(tokens, t) ==
  [tokens EXCEPT ![t] = IF @ = NoRow THEN NoRow ELSE [@ EXCEPT !.active = FALSE]]

IsActive(tokens, t) == tokens[t] # NoRow /\ tokens[t].active

=============================================================================
