---------------------------- MODULE ApiInvariant ----------------------------
(***************************************************************************)
(* The inductive invariant behind the safety properties of ApiProperties:  *)
(* each of its parts says what must be true between the steps of a request *)
(* for one of the properties to hold at its end.                           *)
(***************************************************************************)
EXTENDS ApiProperties

Executing == {r \in Request : req[r].pc = "execute"}

\* The statements that a request of a kind makes.
StmtsOf ==
  [register   |-> {"upsert", "get", "create"},
   unregister |-> {"deactivate"},
   select     |-> {"select"}]

\* An open request is about a token, and at a statement of its kind.
RequestShape ==
  \A r \in Request : Open(r) =>
    /\ req[r].token \in Token /\ req[r].kind \in DOMAIN StmtsOf
    /\ req[r].stmt \in StmtsOf[req[r].kind]
    /\ req[r].pc = "read" => req[r].stmt = "upsert"

\* Without a process there is no open request.
ProcessShape == server = "exited" => \A r \in Request : ~Open(r)

\* A pool whose process is gone is as the next process makes it.
Connections ==
  ConnectionsAccounted /\ (server = "exited" => idle = PoolSize)

\* A token that a request being served may still write is not promised to
\* anyone: one request may hold it open, and with a second one nothing is
\* known.
Writers ==
  /\ \A r \in Request : Writes(r) => acked[req[r].token] \in {"open", "unknown"}
  /\ \A r, s \in Request :
       Writes(r) /\ Writes(s) /\ r # s /\ req[r].token = req[s].token =>
         acked[req[r].token] = "unknown"

\* The only writer of a token that has stored its row finds it active at its
\* next statements, unless a deactivation left behind came in between.
ActiveSoFar ==
  \A r \in Request :
    /\ Writes(r) /\ req[r].stmt \in {"get", "create"}
    /\ acked[req[r].token] = "open"
    => IsActive(tokens, req[r].token) \/ "deactivate" \in since[req[r].token]

\* Who may make a cursor has stored the row, which nothing deletes.
CreatesKnown ==
  /\ \A r \in Request : Open(r) /\ req[r].stmt \in {"get", "create"} =>
       tokens[req[r].token] # NoRow
  /\ \A l \in late : l.stmt = "create" => tokens[l.token] # NoRow

\* A shutdown that waited has nobody left to serve.
NobodyLeft ==
  ~timedOut /\ server \in {"closing", "waiting"} => \A r \in Request : ~Open(r)

\* A statement that stores metadata has all of it, unless the node failed or
\* the client was closed: a read that was cut off is of a request that gets no
\* connection any more.
UpsertsComplete ==
  ~nodeFailed /\ ~timedOut =>
    /\ \A r \in Request : req[r].stmt = "upsert" =>
         /\ req[r].pc = "execute" => req[r].known = Field
         /\ req[r].pc = "acquire" /\ ~req[r].done => req[r].known = Field
    /\ \A l \in late : l.stmt = "upsert" => l.known = Field

AnswerInv == AnswersStayTrue /\ Writers /\ ActiveSoFar

CursorInv == CursorNeedsToken /\ CreatesKnown

MetadataInv == MetadataComplete /\ UpsertsComplete

IInv ==
  /\ TypeOK /\ RequestShape /\ ProcessShape /\ NobodyLeft
  /\ Connections
  /\ AnswerInv /\ CursorInv /\ MetadataInv

=============================================================================
