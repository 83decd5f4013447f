-------------------------------- MODULE Pages --------------------------------
(***************************************************************************)
(* The paged lists of the API (ListTransfers, ListApprovals and            *)
(* ListHolders of internal/api/handlers.go with the List and Holders       *)
(* statements of internal/storage), read by one client page by page while  *)
(* the indexer commits batches and rolls back.                             *)
(*                                                                         *)
(* Both tables are those of one token.  The client asks again with its     *)
(* offset moved by the rows it received, until a page is empty.            *)
(***************************************************************************)
EXTENDS Integers, Sequences, FiniteSetsExt

CONSTANTS
  Holder,
  Amounts,       \* the balances followed, 0 among them (no debts: where a
                 \* sign sorts depends on the collation)
  MaxHeight,     \* bound: the last block
  BlockLog,      \* the events a block may hold: [idx, party]
  Party,         \* who a filter may ask for
  AnyParty,      \* no filter
  Limits,        \* the limits asked for; what Atoi refuses is 0
  DefaultLimit, MaxLimit, MaxOffset   \* 50, 500 and 10000 in pagination

ASSUME PagesAssumption ==
  /\ 0 \in Amounts /\ Amounts \subseteq Nat /\ IsFiniteSet(Holder)
  /\ IsFiniteSet(BlockLog) /\ BlockLog \subseteq [idx : Nat, party : Party]
  /\ MaxHeight \in Nat /\ Limits \subseteq Int
  /\ AnyParty \notin Party
  /\ DefaultLimit \in 1..MaxLimit /\ MaxLimit \in Nat /\ MaxOffset \in Nat

VARIABLES
  \* what the client reads, chosen at the start
  list,         \* "events" or "holders"; the other table is not followed
  filter, limit,
  \* the tables
  top,          \* the last indexed block
  events,       \* rows [number, idx, party]
  balances,     \* [Holder -> Amounts]
  \* the client
  state,        \* "begin", "reading" or "done"
  offset,       \* the next one it asks for
  \* history
  disturbed,    \* since it began: a rollback of the events, any change of
                \* balances, or an offset that pagination cuts.  What follows
                \* is kept only until then
  atStart,      \* the rows of the list when it began
  received,     \* all rows of its pages
  count         \* how many rows, counting a row again that came again

readVars  == <<list, filter, limit>>
tableVars == <<top, events, balances>>
histVars  == <<disturbed, atStart, received, count>>
vars == <<list, filter, limit, top, events, balances, state, offset, disturbed,
          atStart, received, count>>

Least(m, n) == IF m < n THEN m ELSE n

-----------------------------------------------------------------------------
(* pagination *)

LimitOf(asked) == IF asked <= 0 \/ asked > MaxLimit THEN DefaultLimit ELSE asked

\* Mutant: an offset that is too large begins again.
OffsetOfAgain(asked) == IF asked > MaxOffset THEN 0 ELSE asked

OffsetOf(asked) ==
  IF asked < 0 THEN 0 ELSE IF asked > MaxOffset THEN MaxOffset ELSE asked

-----------------------------------------------------------------------------
(* The statements *)

\* Mutant: without the log index the events of a block are in no order.
ByBlock(r, s) == r.number > s.number

\* ORDER BY block_number DESC, log_index DESC
NewerEvent(r, s) == r.number > s.number \/ (r.number = s.number /\ r.idx > s.idx)

\* The digits of a number.
Text[n \in Nat] == IF n < 10 THEN <<n>> ELSE Append(Text[n \div 10], n % 10)

\* Digit by digit, the shorter one first.
TextLess(t, u) ==
  \E i \in 1..Len(u) :
    /\ \A j \in 1..(i - 1) : j <= Len(t) /\ t[j] = u[j]
    /\ i > Len(t) \/ t[i] < u[i]

\* Mutant: the order is forgotten.
AnyHolder(r, s) == FALSE

\* ORDER BY balance DESC: the name is taken for the column of the result, and
\* that is balance::text.
RicherHolder(r, s) == TextLess(Text[s.balance], Text[r.balance])

MatchesFilter(r) == filter = AnyParty \/ r.party = filter

\* balance <> 0
HolderRows ==
  {[holder |-> h, balance |-> balances[h]] : h \in {g \in Holder : balances[g] # 0}}

\* The rows the WHERE selects.
Selected == IF list = "events" THEN {r \in events : MatchesFilter(r)} ELSE HolderRows

Before(r, s) == IF list = "events" THEN NewerEvent(r, s) ELSE RicherHolder(r, s)

\* first may be the first n of rows: the order decides, and the database where
\* it does not.
MayBeFirst(first, rows, n) ==
  /\ Cardinality(first) = Least(n, Cardinality(rows))
  /\ \A r \in first, s \in rows \ first : ~Before(s, r)

\* The pages the statement may return: LIMIT and OFFSET are counted in the
\* order of this one execution.
PagesOf(rows, from, size) ==
  UNION {{page \in SUBSET (rows \ skipped) : MayBeFirst(page, rows \ skipped, size)} :
           skipped \in {first \in SUBSET rows : MayBeFirst(first, rows, from)}}

-----------------------------------------------------------------------------
Init ==
  /\ list \in {"events", "holders"}
  /\ filter \in (IF list = "events" THEN Party \cup {AnyParty} ELSE {AnyParty})
  /\ limit \in Limits
  /\ top = 0 /\ events = {}
  /\ balances \in (IF list = "holders" THEN [Holder -> Amounts] ELSE [Holder -> {0}])
  /\ state = "begin" /\ offset = 0
  /\ disturbed = FALSE /\ atStart = {} /\ received = {} /\ count = 0

\* The read is not what the properties speak of any more.
Disturb == disturbed' = TRUE /\ atStart' = {} /\ received' = {} /\ count' = 0

DisturbIf(condition) == IF condition THEN Disturb ELSE UNCHANGED histVars

(* The client *)

Begin ==
  /\ state = "begin"
  /\ state' = "reading"
  /\ atStart' = Selected
  /\ UNCHANGED <<readVars, tableVars, offset, received, count, disturbed>>

\* All offsets above MaxOffset are alike.
Ask ==
  /\ state = "reading"
  /\ \E page \in PagesOf(Selected, OffsetOf(offset), LimitOf(limit)) :
       /\ state' = IF page = {} THEN "done" ELSE "reading"
       /\ offset' = Least(offset + Cardinality(page), MaxOffset + MaxLimit)
       /\ IF disturbed \/ offset > MaxOffset THEN Disturb
          ELSE /\ received' = received \cup page
               /\ count' = count + Cardinality(page)
               /\ UNCHANGED <<disturbed, atStart>>
  /\ UNCHANGED <<readVars, tableVars>>

(* The indexer.  A batch of several blocks is as good as one after another. *)

\* A log index is the place of an event in its block.
InOneBlock(logs) == \A l, m \in logs : l.idx = m.idx => l = m

Commit ==
  /\ list = "events" /\ top < MaxHeight
  /\ top' = top + 1
  /\ \E logs \in SUBSET BlockLog :
       /\ InOneBlock(logs)
       /\ events' = events \cup {[number |-> top', idx |-> l.idx, party |-> l.party] : l \in logs}
  /\ UNCHANGED <<readVars, balances, state, offset, histVars>>

\* Mutant: the first block above stays.
EventsUpToNext(blockNumber) == {r \in events : r.number <= blockNumber + 1}

\* DeleteAfterBlock
EventsUpTo(blockNumber) == {r \in events : r.number <= blockNumber}

Rollback(blockNumber) ==
  /\ list = "events" /\ blockNumber < top
  /\ top' = blockNumber
  /\ events' = EventsUpTo(blockNumber)
  /\ DisturbIf(state = "reading")
  /\ UNCHANGED <<readVars, balances, state, offset>>

\* A batch or a rebuild changes the balance of some holder.
ChangeBalance(h, amount) ==
  /\ list = "holders" /\ amount # balances[h]
  /\ balances' = [balances EXCEPT ![h] = amount]
  /\ DisturbIf(state = "reading")
  /\ UNCHANGED <<readVars, top, events, state, offset>>

Next ==
  \/ Begin \/ Ask \/ Commit
  \/ \E n \in 0..MaxHeight : Rollback(n)
  \/ \E h \in Holder, a \in Amounts : ChangeBalance(h, a)

Spec == Init /\ [][Next]_vars

\* The client goes on asking, and is answered.
FairSpec == Spec /\ WF_vars(Ask)

=============================================================================
