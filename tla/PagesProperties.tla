--------------------------- MODULE PagesProperties ---------------------------
(***************************************************************************)
(* What a client may rely on that pages through a list while the indexer   *)
(* writes it.                                                              *)
(***************************************************************************)
EXTENDS Pages

TypeOK ==
  /\ list \in {"events", "holders"} /\ filter \in Party \cup {AnyParty}
  /\ limit \in Limits /\ top \in 0..MaxHeight
  /\ events \subseteq [number : 1..top, idx : {l.idx : l \in BlockLog}, party : Party]
  /\ balances \in [Holder -> Amounts]
  /\ state \in {"begin", "reading", "done"} /\ offset \in 0..(MaxOffset + MaxLimit)
  /\ disturbed \in BOOLEAN

(* A client that pages through the events of a token while batches are     *)
(* committed misses none of those that were there when it began, although  *)
(* it may get some twice - unless a rollback came in between, or the list  *)
(* goes beyond the largest offset (transfer_repo.go:36, handlers.go:232).  *)
NothingSkipped ==
  list = "events" /\ state = "done" /\ ~disturbed => atStart \subseteq received

(* Paging through the holders is reliable only while no balance changes,   *)
(* and even then only for holders whose balance no other has: the order of *)
(* equal ones may differ from page to page, so that one comes twice in the *)
(* place of another (balance_repo.go:63).                                  *)
OnlyTiesSkipped ==
  list = "holders" /\ state = "done" /\ ~disturbed =>
    /\ count = Cardinality(atStart)
    /\ \A r \in atStart \ received :
         \E s \in received : s # r /\ s.balance = r.balance

(* The holders come with the largest balances first, as the statement says *)
(* of the NUMERIC column (balance_repo.go:63).                             *)
RichestFirst ==
  list = "holders" /\ ~disturbed =>
    \A r \in received, s \in atStart \ received : r.balance >= s.balance

(* A client that asks until a page is empty comes to an end, also while    *)
(* the indexer goes on - once the list has no more rows than the largest   *)
(* offset.  A longer one has no empty page: from there on each page is the *)
(* last one again (handlers.go:232).                                       *)
ReadEnds ==
  <>[](Cardinality(Selected) <= MaxOffset) => (state = "reading" ~> state = "done")

=============================================================================
