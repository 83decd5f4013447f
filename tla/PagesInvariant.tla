--------------------------- MODULE PagesInvariant ---------------------------
(***************************************************************************)
(* The inductive invariant behind the safety properties of                 *)
(* PagesProperties: what a client that has read some of the pages may rely *)
(* on.                                                                     *)
(***************************************************************************)
EXTENDS PagesProperties

\* There are finitely many events, each with a place of its own.
EventsPlaced ==
  /\ IsFiniteSet(events)
  /\ \A r, s \in events : r.number = s.number /\ r.idx = s.idx => r = s

\* The rows that come before r whatever the database decides.
Ahead(r) == {s \in Selected : Before(s, r)}

\* A client that has not begun has read nothing, and nothing disturbed it.
NothingRead ==
  state = "begin" => offset = 0 /\ count = 0 /\ received = {} /\ ~disturbed

\* What a client has not read of what was there at the start is still to
\* come: as many rows are ahead of it as the client asks to skip.
RestIsAhead ==
  list = "events" /\ state = "reading" /\ ~disturbed =>
    /\ atStart \subseteq Selected
    /\ \A s \in atStart \ received : Cardinality(Ahead(s)) >= offset

\* Of each balance that the rows read so far must reach, one holder was read.
BalancesReached ==
  list = "holders" /\ state = "reading" /\ ~disturbed =>
    /\ atStart = Selected
    /\ count = offset /\ count <= Cardinality(atStart)
    /\ \A r \in atStart : Cardinality(Ahead(r)) < count =>
         \E s \in received : s.balance = r.balance

IInv ==
  /\ TypeOK /\ EventsPlaced /\ NothingRead
  /\ NothingSkipped /\ RestIsAhead
  /\ OnlyTiesSkipped /\ BalancesReached

=============================================================================
