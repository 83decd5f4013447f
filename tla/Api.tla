-------------------------------- MODULE Api --------------------------------
(***************************************************************************)
(* The API process (cmd/api, internal/app/api.go, internal/api) with its   *)
(* requests, its connection pool and its shutdown, and bootstrapTokens of  *)
(* the indexer process, which writes the same table tokens.                *)
(*                                                                         *)
(* A request reads the metadata (RegisterToken only) and then makes one    *)
(* statement after another; for each it takes a connection of the pool and *)
(* gives it back.  req[r].pc:                                              *)
(*   free              no request                                          *)
(*   read              ERC20Metadata is under way                          *)
(*   acquire execute   waiting for a connection; the statement stmt runs   *)
(*                                                                         *)
(* server:                                                                 *)
(*   serving           ListenAndServe                                      *)
(*   draining          httpServer.Shutdown waits for the requests          *)
(*   closing           the client of the node is closed, the pool not yet  *)
(*   waiting           db.Close waits for the connections                  *)
(*   exited            no process                                          *)
(***************************************************************************)
EXTENDS TokenTable, Integers, FiniteSets

CONSTANTS
  Token,
  Request,    \* the requests served at a time
  PoolSize,   \* the connections of the API's pool
  MaxLate     \* bound: statements left behind by requests

ASSUME ApiAssumption ==
  /\ PoolSize \in Nat \ {0} /\ MaxLate \in Nat
  /\ \A w \in [meta : SUBSET Field, active : BOOLEAN] : w # NoRow

\* net/http has no limit for them, but at no time are there more than it has
\* accepted.
ASSUME RequestAssumption == IsFiniteSet(Request)

VARIABLES
  tokens,
  states,        \* the tokens with a row in sync_state
  late,          \* statements whose request gave up, still with the database
  server,
  idle,          \* the connections of the pool not in use
  req,           \* req[r]: [pc, kind, token, stmt, known, done]; known: the
                 \* metadata read, done: its context has ended
  \* history
  acked,         \* what the answer to the last request that writes a token
                 \* promised, "active" or "inactive"; "open" while there is no
                 \* answer, "unknown" when it was an error, did not arrive, or
                 \* another request could write the token meanwhile
  since,         \* what else has written the token since a request last did,
                 \* kept while acked is not "unknown"
  nodeFailed,    \* the node has failed to answer a read of metadata
  timedOut       \* a shutdown has not waited for all requests

dbVars    == <<tokens, states, late>>
causeVars == <<nodeFailed, timedOut>>
histVars  == <<acked, since, causeVars>>
vars == <<dbVars, server, idle, req, histVars>>

FreeRequest ==
  [pc |-> "free", kind |-> "none", token |-> NoRow, stmt |-> "none",
   known |-> {}, done |-> FALSE]

Init ==
  /\ tokens = [t \in Token |-> NoRow] /\ states = {} /\ late = {}
  /\ server = "serving"
  /\ idle = PoolSize
  /\ req = [r \in Request |-> FreeRequest]
  /\ acked = [t \in Token |-> "unknown"] /\ since = [t \in Token |-> {}]
  /\ nodeFailed = FALSE /\ timedOut = FALSE

Open(r) == req[r].pc # "free"

Writes(r) == Open(r) /\ req[r].kind \in {"register", "unregister"}

-----------------------------------------------------------------------------
(* The requests *)

\* Mutant: a registration makes the cursor before the row of the token.
FirstStepState(kind, t) ==
  [pc |-> IF kind = "register" THEN "read" ELSE "acquire",
   kind |-> kind, token |-> t,
   stmt |-> IF kind = "unregister" THEN "deactivate"
            ELSE IF kind = "register" THEN "get" ELSE "select",
   known |-> {}, done |-> FALSE]

FirstStep(kind, t) ==
  [pc |-> IF kind = "register" THEN "read" ELSE "acquire",
   kind |-> kind, token |-> t,
   stmt |-> IF kind = "unregister" THEN "deactivate"
            ELSE IF kind = "register" THEN "upsert" ELSE "select",
   known |-> {}, done |-> FALSE]

\* No other request that is being served writes token t.
Untouched(t) == \A r \in Request : Writes(r) => req[r].token # t

\* A request that was read in time (ReadTimeout) and passes the checks of its
\* handler.  All the handlers that only read make one SELECT; Health none.
Accept(r, kind, t) ==
  /\ server = "serving" /\ req[r].pc = "free"
  /\ req' = [req EXCEPT ![r] = FirstStep(kind, t)]
  /\ acked' = IF kind = "select" THEN acked
              ELSE [acked EXCEPT ![t] = IF Untouched(t) THEN "open" ELSE "unknown"]
  /\ since' = IF kind = "select" THEN since ELSE [since EXCEPT ![t] = {}]
  /\ UNCHANGED <<dbVars, server, idle, causeVars>>

\* The answer is a success and promises that the token is promise.  Once the
\* context has ended it does not arrive: the client is gone, or WriteTimeout,
\* which began to run before middleware.Timeout, has passed as well.
Promise(r, promise) ==
  acked' = [acked EXCEPT ![req[r].token] =
              IF @ = "open" /\ ~req[r].done THEN promise ELSE "unknown"]

\* The answer is an error, if it arrives.
Breaks(r) ==
  acked' = IF Writes(r) THEN [acked EXCEPT ![req[r].token] = "unknown"] ELSE acked

\* The client goes away, or the 30 seconds of middleware.Timeout have passed,
\* and with them those of the server's WriteTimeout.
ContextEnds(r) ==
  /\ Open(r) /\ ~req[r].done
  /\ req' = [req EXCEPT ![r].done = TRUE]
  /\ UNCHANGED <<dbVars, server, idle, histVars>>

ClientOpen == server \in {"serving", "draining"}
PoolOpen   == server \in {"serving", "draining", "closing"}

\* ERC20Metadata: the reads that fail, at the node or in a client that is
\* closed, leave their fields empty, and there is no error.
ReadMetadata(r) ==
  /\ req[r].pc = "read" /\ ~req[r].done
  /\ \E known \in SUBSET Field :
       /\ req' = [req EXCEPT ![r].pc = "acquire", ![r].known = known]
       /\ nodeFailed' = (nodeFailed \/ (ClientOpen /\ known # Field))
  /\ UNCHANGED <<dbVars, server, idle, acked, since, timedOut>>

\* The context has ended or ends before the last read, and so do the reads.
ReadCutOff(r) ==
  /\ req[r].pc = "read"
  /\ \E known \in SUBSET Field :
       req' = [req EXCEPT ![r].pc = "acquire", ![r].known = known, ![r].done = TRUE]
  /\ UNCHANGED <<dbVars, server, idle, histVars>>

\* Mutant: the pool makes as many connections as it is asked for.
MayAcquireMore(r) == PoolOpen /\ ~req[r].done

\* Mutant: the statements are not bound to the context.
MayAcquireAlways(r) == PoolOpen /\ idle > 0

MayAcquire(r) == PoolOpen /\ idle > 0 /\ ~req[r].done

Acquire(r) ==
  /\ req[r].pc = "acquire" /\ MayAcquire(r)
  /\ idle' = idle - 1
  /\ req' = [req EXCEPT ![r].pc = "execute"]
  /\ UNCHANGED <<dbVars, server, histVars>>

AcquireFails(r) ==
  /\ req[r].pc = "acquire"
  /\ req[r].done \/ ~PoolOpen
  /\ req' = [req EXCEPT ![r] = FreeRequest]
  /\ Breaks(r)
  /\ UNCHANGED <<dbVars, server, idle, since, causeVars>>

Succeeds(r) == req' = [req EXCEPT ![r] = FreeRequest]
GoesOn(r, stmt) ==
  req' = [req EXCEPT ![r].pc = "acquire", ![r].stmt = stmt, ![r].known = {}]

Runs(r, stmt) == req[r].pc = "execute" /\ req[r].stmt = stmt

\* Mutant: the connection of a statement is not given back.
ConnectionKept == UNCHANGED idle

ConnectionBack == idle' = idle + 1

UpsertToken(r) ==
  /\ Runs(r, "upsert")
  /\ tokens' = Upserted(tokens, req[r].token, req[r].known)
  /\ since' = [since EXCEPT ![req[r].token] = {}]
  /\ GoesOn(r, "get")
  /\ ConnectionBack
  /\ UNCHANGED <<states, late, server, acked, causeVars>>

\* GetOrCreate: Get, then Upsert when there was no row.
GetState(r) ==
  /\ Runs(r, "get")
  /\ IF req[r].token \in states THEN Succeeds(r) /\ Promise(r, "active")
                                ELSE GoesOn(r, "create") /\ UNCHANGED acked
  /\ ConnectionBack
  /\ UNCHANGED <<dbVars, server, since, causeVars>>

CreateState(r) ==
  /\ Runs(r, "create")
  /\ states' = states \cup {req[r].token}
  /\ Succeeds(r) /\ Promise(r, "active")
  /\ ConnectionBack
  /\ UNCHANGED <<tokens, late, server, since, causeVars>>

\* Also of a token without a row: the answer is 200 either way.
SetInactive(r) ==
  /\ Runs(r, "deactivate")
  /\ tokens' = Deactivated(tokens, req[r].token)
  /\ since' = [since EXCEPT ![req[r].token] = {}]
  /\ Succeeds(r) /\ Promise(r, "inactive")
  /\ ConnectionBack
  /\ UNCHANGED <<states, late, server, causeVars>>

Select(r) ==
  /\ Runs(r, "select")
  /\ Succeeds(r)
  /\ ConnectionBack
  /\ UNCHANGED <<dbVars, server, histVars>>

Stores(r) == Writes(r) /\ req[r].stmt # "get"

Statement(r) ==
  [stmt |-> req[r].stmt, token |-> req[r].token, known |-> req[r].known]

\* The statement fails, for the database or because the context has ended.
\* In the second case the database may still make it after the answer, which
\* is of no consequence for a SELECT.
ExecuteFails(r) ==
  /\ req[r].pc = "execute"
  /\ req' = [req EXCEPT ![r] = FreeRequest]
  /\ \/ UNCHANGED late
     \/ /\ Stores(r) /\ Cardinality(late) < MaxLate
        /\ late' = late \cup {Statement(r)}
  /\ Breaks(r)
  /\ ConnectionBack
  /\ UNCHANGED <<tokens, states, server, since, causeVars>>

-----------------------------------------------------------------------------
(* What the database still makes of statements left behind *)

\* The history keeps what is written under an answer that is given or to come.
WrittenBy(t, source) ==
  since' = IF acked[t] = "unknown" THEN since
           ELSE [since EXCEPT ![t] = @ \cup source]

LateStatement(l) ==
  /\ l \in late
  /\ late' = late \ {l}
  /\ tokens' = CASE l.stmt = "upsert"     -> Upserted(tokens, l.token, l.known)
                 [] l.stmt = "deactivate" -> Deactivated(tokens, l.token)
                 [] OTHER                 -> tokens
  /\ states' = IF l.stmt = "create" THEN states \cup {l.token} ELSE states
  /\ WrittenBy(l.token, {"upsert", "deactivate"} \cap {l.stmt})
  /\ UNCHANGED <<server, idle, req, acked, causeVars>>

LateLost(l) ==
  /\ l \in late
  /\ late' = late \ {l}
  /\ UNCHANGED <<tokens, states, server, idle, req, histVars>>

-----------------------------------------------------------------------------
(* The process: main and APIServer.Shutdown *)

Signal ==
  /\ server = "serving"
  /\ server' = "draining"
  /\ UNCHANGED <<dbVars, idle, req, histVars>>

\* httpServer.Shutdown returns, and the client of the node is closed.
Drained ==
  /\ server = "draining" /\ \A r \in Request : ~Open(r)
  /\ server' = "closing"
  /\ UNCHANGED <<dbVars, idle, req, histVars>>

\* The same after the 10 seconds of shutdownCtx, whatever is being served; no
\* request is told.
DrainTimeout ==
  /\ server = "draining" /\ \E r \in Request : Open(r)
  /\ server' = "closing" /\ timedOut' = TRUE
  /\ UNCHANGED <<dbVars, idle, req, acked, since, nodeFailed>>

\* db.Close gives no connection any more.
ClosePool ==
  /\ server = "closing"
  /\ server' = "waiting"
  /\ UNCHANGED <<dbVars, idle, req, histVars>>

\* The requests that are open are lost with their process.
NoRequests == [r \in Request |-> FreeRequest]

Forgotten == [t \in Token |-> IF acked[t] = "open" THEN "unknown" ELSE acked[t]]

\* db.Close returns when all connections are back; then main returns.
PoolClosed == server = "waiting" /\ idle = PoolSize

Exit ==
  /\ PoolClosed
  /\ server' = "exited"
  /\ req' = NoRequests /\ acked' = Forgotten
  /\ UNCHANGED <<dbVars, idle, since, causeVars>>

Crash ==
  /\ server # "exited"
  /\ server' = "exited"
  /\ \E cut \in SUBSET {Statement(r) : r \in {s \in Request : Stores(s) /\ req[s].pc = "execute"}} :
       Cardinality(late \cup cut) <= MaxLate /\ late' = late \cup cut
  /\ req' = NoRequests /\ acked' = Forgotten /\ idle' = PoolSize
  /\ UNCHANGED <<tokens, states, since, causeVars>>

\* A new process with a new pool.
Restart ==
  /\ server = "exited"
  /\ server' = "serving"
  /\ UNCHANGED <<dbVars, idle, req, histVars>>

-----------------------------------------------------------------------------
(* The indexer, at each of its starts, for the tokens of the configuration *)
(* it then has, which may be any (bootstrapTokens, see Syncer): the         *)
(* metadata is read and stored at once, empty where it could not be read.  *)

IndexerUpsert(t) ==
  /\ \E known \in SUBSET Field :
       /\ tokens' = Upserted(tokens, t, known)
       /\ nodeFailed' = (nodeFailed \/ known # Field)
  /\ WrittenBy(t, {"start"})
  /\ UNCHANGED <<states, late, server, idle, req, acked, timedOut>>

\* GetOrCreate.
IndexerEnsure(t) ==
  /\ tokens[t] # NoRow
  /\ states' = states \cup {t}
  /\ UNCHANGED <<tokens, late, server, idle, req, histVars>>

-----------------------------------------------------------------------------
RequestStep(r) ==
  \/ \E kind \in {"register", "unregister", "select"}, t \in Token : Accept(r, kind, t)
  \/ ContextEnds(r) \/ ReadMetadata(r) \/ ReadCutOff(r)
  \/ Acquire(r) \/ AcquireFails(r)
  \/ UpsertToken(r) \/ GetState(r) \/ CreateState(r) \/ SetInactive(r) \/ Select(r)
  \/ ExecuteFails(r)

ProcessStep ==
  Signal \/ Drained \/ DrainTimeout \/ ClosePool \/ Exit \/ Crash \/ Restart

IndexerStep == \E t \in Token : IndexerUpsert(t) \/ IndexerEnsure(t)

Next ==
  \/ \E r \in Request : RequestStep(r)
  \/ \E l \in late : LateStatement(l) \/ LateLost(l)
  \/ ProcessStep \/ IndexerStep

Spec == Init /\ [][Next]_vars

\* Mutant: the calls to the node are not bound to the request.
GivesUpLater(r) ==
  req[r].done /\ (AcquireFails(r) \/ ExecuteFails(r))

\* Once its context has ended every call of a request returns.
GivesUp(r) ==
  req[r].done /\ (ReadCutOff(r) \/ AcquireFails(r) \/ ExecuteFails(r))

\* The 30 seconds of a request and the 10 of the shutdown pass, calls end with
\* their context, and the shutdown goes on.  Neither the node nor the database
\* need ever answer.
FairSpec ==
  /\ Spec
  /\ \A r \in Request : WF_vars(ContextEnds(r) \/ GivesUp(r))
  /\ WF_vars(Drained \/ DrainTimeout \/ ClosePool \/ Exit)

=============================================================================
