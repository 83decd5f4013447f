--------------------------- MODULE ApiProperties ---------------------------
(***************************************************************************)
(* What the API promises its clients and whoever stops it.                 *)
(***************************************************************************)
EXTENDS Api

Row == [meta : SUBSET Field, active : BOOLEAN]

Stmt == {"none", "upsert", "get", "create", "deactivate", "select"}

TypeOK ==
  /\ tokens \in [Token -> Row \cup {NoRow}]
  /\ states \subseteq Token
  /\ late \subseteq [stmt : Stmt, token : Token, known : SUBSET Field]
  /\ server \in {"serving", "draining", "closing", "waiting", "exited"}
  /\ idle \in 0..PoolSize
  /\ req \in [Request ->
       [pc : {"free", "read", "acquire", "execute"},
        kind : {"none", "register", "unregister", "select"},
        token : Token \cup {NoRow}, stmt : Stmt, known : SUBSET Field, done : BOOLEAN]]
  /\ acked \in [Token -> {"unknown", "open", "active", "inactive"}]
  /\ since \in [Token -> SUBSET {"upsert", "deactivate", "start"}]
  /\ nodeFailed \in BOOLEAN /\ timedOut \in BOOLEAN

-----------------------------------------------------------------------------
(* Safety *)

(* What the API told a client of a token stays true until the next request *)
(* writes it, with two exceptions, which the client does not see.  A       *)
(* statement of an earlier request that gave up may still be made, even    *)
(* after the answer (handlers.go:85, handlers.go:111): a deactivation left *)
(* behind undoes a registration, an upsert left behind undoes an           *)
(* unregistration.  And the start of the indexer makes a token of the      *)
(* configuration active again (syncer.go:84).  Nothing else undoes it, and *)
(* nothing at all takes the cursor of a registered token.                  *)
AnswersStayTrue ==
  \A t \in Token :
    /\ acked[t] = "active" =>
         t \in states /\ (IsActive(tokens, t) \/ "deactivate" \in since[t])
    /\ acked[t] = "inactive" =>
         ~IsActive(tokens, t) \/ since[t] \cap {"upsert", "start"} # {}

(* Wherever a registration is cut off - its time is up, the shutdown runs  *)
(* out of time and closes the pool under it, the process dies, a statement *)
(* is made after its request gave up - no cursor is left without the row   *)
(* of its token (handlers.go:85, 89; the table has no foreign key,         *)
(* 001_init.sql:81).                                                       *)
CursorNeedsToken == states \subseteq {t \in Token : tokens[t] # NoRow}

(* Metadata is lost only to a node that failed, or to a shutdown that did  *)
(* not wait: it closes the client of the node and then the pool (api.go:54,*)
(* 55) under the requests still served, and one of them may store in       *)
(* between.  A read that ends with its request, because the client went    *)
(* away or the time was up, leaves empty values and no error (erc20.go:37),*)
(* but they are never stored.                                              *)
MetadataComplete ==
  ~nodeFailed /\ ~timedOut =>
    \A t \in Token : tokens[t] # NoRow => tokens[t].meta = Field

(* Every connection that is taken is used by a statement: none is lost by  *)
(* a request that fails or is cut off.  So db.Close, which waits for all   *)
(* of them (api.go:55), waits for the statements under way and for nothing *)
(* else; a request between two statements is not waited for.               *)
ConnectionsAccounted ==
  server # "exited" =>
    idle + Cardinality({r \in Request : req[r].pc = "execute"}) = PoolSize

-----------------------------------------------------------------------------
(* Liveness *)

(* Every handler returns in the end, by a node and a database that may     *)
(* hang for ever, unless its process dies first (router.go:13).  That is   *)
(* not an answer: the server's WriteTimeout (api.go:39) ends no later than *)
(* the context, so what a handler writes that its timeout ended is not     *)
(* delivered.                                                              *)
RequestsEnd == \A r \in Request : Open(r) ~> ~Open(r)

(* Once told to stop the process ends, although db.Close has no timeout    *)
(* (main.go:43, api.go:55).                                                *)
ShutdownEnds == server = "draining" ~> server = "exited"

=============================================================================
