----------------------------- MODULE ApiProofs -----------------------------
(***************************************************************************)
(* What holds of Api for every set of tokens and requests, every size of   *)
(* the pool and every number of statements left behind, machine-checked.   *)
(***************************************************************************)
EXTENDS ApiInvariant, FiniteSetTheorems, TLAPS

ReqType ==
  [pc : {"free", "read", "acquire", "execute"},
   kind : {"none", "register", "unregister", "select"},
   token : Token \cup {NoRow}, stmt : Stmt, known : SUBSET Field, done : BOOLEAN]

-----------------------------------------------------------------------------
(* The connections *)

\* The requests with a statement under way can be counted.
LEMMA ExecutingFinite ==
  /\ IsFiniteSet(Executing) /\ Cardinality(Executing) \in Nat
  /\ \A r \in Executing : Cardinality(Executing) >= 1
<1>1. Executing \in SUBSET Request
  BY DEF Executing
<1>2. IsFiniteSet(Executing)
  BY <1>1, RequestAssumption, FS_Subset
<1>3. Cardinality(Executing) \in Nat
  BY <1>2, FS_CardinalityType
<1>4. \A r \in Executing : Cardinality(Executing) # 0
  BY <1>2, FS_EmptySet
<1> QED BY <1>2, <1>3, <1>4

\* What is left when a request is at another place.
LEMMA PlaceChanges ==
  ASSUME req \in [Request -> ReqType], NEW r \in Request, NEW q,
         req' = [req EXCEPT ![r] = q]
  PROVE  Executing' = IF q.pc = "execute" THEN Executing \cup {r} ELSE Executing \ {r}
BY DEF Executing

\* A request that takes no connection and gives none back.
LEMMA SamePlace ==
  ASSUME req \in [Request -> ReqType], NEW r \in Request, NEW q,
         req' = [req EXCEPT ![r] = q],
         q.pc = "execute" <=> req[r].pc = "execute"
  PROVE  Executing' = Executing
BY PlaceChanges DEF Executing

\* The connections of the initial states.
LEMMA ConnectionsInit == Init => Connections /\ idle \in 0..PoolSize
<1> SUFFICES ASSUME Init PROVE Connections /\ idle \in 0..PoolSize
  OBVIOUS
<1>1. Executing = {}
  BY DEF Init, Executing, FreeRequest
<1> QED
  BY <1>1, FS_EmptySet, ApiAssumption
  DEF Init, Connections, ConnectionsAccounted, Executing


\* A step that leaves the statements under way and the pool as they are, in a
\* process that goes on.
LEMMA ConnectionsFrame ==
  ASSUME TypeOK, Connections, Executing' = Executing, idle' = idle,
         server' = server \/ (server # "exited" /\ server' # "exited")
  PROVE  Connections' /\ idle' \in 0..PoolSize
BY DEF TypeOK, Connections, ConnectionsAccounted, Executing

\* A statement that ends gives back its connection, whatever becomes of it.
LEMMA StatementEnds ==
  ASSUME TypeOK, Connections, ProcessShape, NEW r \in Request, NEW q,
         req[r].pc = "execute", q.pc # "execute",
         req' = [req EXCEPT ![r] = q], ConnectionBack, UNCHANGED server
  PROVE  Connections' /\ idle' \in 0..PoolSize
<1>1. r \in Executing /\ Executing' = Executing \ {r}
  BY PlaceChanges DEF Executing, TypeOK, ReqType
<1>2. Cardinality(Executing') = Cardinality(Executing) - 1
  BY <1>1, ExecutingFinite, FS_RemoveElement
<1>3. server # "exited"
  BY DEF ProcessShape, Open
<1>4. idle \in 0..PoolSize /\ idle + Cardinality(Executing) = PoolSize
  BY <1>3 DEF TypeOK, Connections, ConnectionsAccounted, Executing
<1>5. idle' + Cardinality(Executing') = PoolSize /\ idle' \in 0..PoolSize
  BY <1>1, <1>2, <1>4, ExecutingFinite, ApiAssumption DEF ConnectionBack
<1> QED BY <1>3, <1>5 DEF Connections, ConnectionsAccounted, Executing

\* No step of a request loses a connection or makes one.
LEMMA ConnectionsRequest ==
  ASSUME TypeOK, Connections, ProcessShape, NEW r \in Request, RequestStep(r)
  PROVE  Connections' /\ idle' \in 0..PoolSize
<1> USE DEF FreeRequest
<1>0. req \in [Request -> ReqType]
  BY DEF TypeOK, ReqType
<1>1. ASSUME NEW kind \in {"register", "unregister", "select"}, NEW t \in Token,
             Accept(r, kind, t)
      PROVE  Connections' /\ idle' \in 0..PoolSize
  <2>1. Executing' = Executing
    BY <1>0, <1>1, SamePlace DEF Accept, FirstStep
  <2> QED BY <1>1, <2>1, ConnectionsFrame DEF Accept
<1>2. CASE ContextEnds(r)
  <2>1. Executing' = Executing
    BY <1>0, <1>2 DEF ContextEnds, Executing, ReqType
  <2> QED BY <1>2, <2>1, ConnectionsFrame DEF ContextEnds
<1>3. CASE ReadMetadata(r)
  <2>1. PICK known \in SUBSET Field :
          req' = [req EXCEPT ![r].pc = "acquire", ![r].known = known]
    BY <1>3 DEF ReadMetadata
  <2>2. Executing' = Executing
    BY <1>0, <1>3, <2>1 DEF ReadMetadata, Executing, ReqType
  <2> QED BY <1>3, <2>2, ConnectionsFrame DEF ReadMetadata
<1>4. CASE ReadCutOff(r)
  <2>1. PICK known \in SUBSET Field :
          req' = [req EXCEPT ![r].pc = "acquire", ![r].known = known, ![r].done = TRUE]
    BY <1>4 DEF ReadCutOff
  <2>2. Executing' = Executing
    BY <1>0, <1>4, <2>1 DEF ReadCutOff, Executing, ReqType
  <2> QED BY <1>4, <2>2, ConnectionsFrame DEF ReadCutOff
<1>5. CASE Acquire(r)
  <2> DEFINE q == [req[r] EXCEPT !.pc = "execute"]
  <2>1. Executing' = Executing \cup {r} /\ r \notin Executing
    BY <1>0, <1>5 DEF Acquire, Executing, ReqType
  <2>2. Cardinality(Executing') = Cardinality(Executing) + 1
    BY <2>1, ExecutingFinite, FS_AddElement
  <2>3. server # "exited" /\ server' = server /\ idle > 0 /\ idle' = idle - 1
    BY <1>5 DEF Acquire, MayAcquire, PoolOpen
  <2>4. idle \in 0..PoolSize /\ idle + Cardinality(Executing) = PoolSize
    BY <2>3 DEF TypeOK, Connections, ConnectionsAccounted, Executing
  <2>5. idle' + Cardinality(Executing') = PoolSize /\ idle' \in 0..PoolSize
    BY <2>2, <2>3, <2>4, ExecutingFinite, ApiAssumption
  <2> QED BY <2>3, <2>5 DEF Connections, ConnectionsAccounted, Executing
<1>6. CASE AcquireFails(r)
  <2>1. Executing' = Executing
    BY <1>0, <1>6, SamePlace DEF AcquireFails
  <2> QED BY <1>6, <2>1, ConnectionsFrame DEF AcquireFails
<1>7. ASSUME req[r].pc = "execute", NEW stmt, GoesOn(r, stmt),
             ConnectionBack, UNCHANGED server
      PROVE  Connections' /\ idle' \in 0..PoolSize
  <2> DEFINE q == [req[r] EXCEPT !.pc = "acquire", !.stmt = stmt, !.known = {}]
  <2>1. req' = [req EXCEPT ![r] = q] /\ q.pc = "acquire"
    BY <1>0, <1>7 DEF GoesOn, ReqType
  <2> QED BY <1>7, <2>1, StatementEnds
<1>8. ASSUME req[r].pc = "execute", Succeeds(r), ConnectionBack, UNCHANGED server
      PROVE  Connections' /\ idle' \in 0..PoolSize
  BY <1>8, StatementEnds DEF Succeeds
<1>9. CASE UpsertToken(r)
  BY <1>7, <1>9 DEF UpsertToken, Runs
<1>10. CASE GetState(r)
  BY <1>7, <1>8, <1>10 DEF GetState, Runs
<1>11. CASE CreateState(r) \/ SetInactive(r) \/ Select(r)
  BY <1>8, <1>11 DEF CreateState, SetInactive, Select, Runs
<1>12. CASE ExecuteFails(r)
  BY <1>8, <1>12 DEF ExecuteFails, Succeeds
<1> QED BY <1>1, <1>2, <1>3, <1>5, <1>6, <1>9, <1>10, <1>11, <1>12, <1>4
       DEF RequestStep

\* Nor does any other step.
LEMMA ConnectionsNext ==
  ASSUME TypeOK, Connections, ProcessShape, [Next]_vars
  PROVE  Connections' /\ idle' \in 0..PoolSize
<1> USE DEF histVars, causeVars, dbVars
<1>1. ASSUME NEW r \in Request, RequestStep(r)
      PROVE  Connections' /\ idle' \in 0..PoolSize
  BY <1>1, ConnectionsRequest
<1>2. ASSUME UNCHANGED <<server, idle, req>>
      PROVE  Connections' /\ idle' \in 0..PoolSize
  BY <1>2, ConnectionsFrame DEF Executing
<1>3. ASSUME NEW l \in late, LateStatement(l) \/ LateLost(l)
      PROVE  Connections' /\ idle' \in 0..PoolSize
  BY <1>2, <1>3 DEF LateStatement, LateLost
<1>4. CASE IndexerStep
  BY <1>2, <1>4 DEF IndexerStep, IndexerUpsert, IndexerEnsure
<1>5. CASE UNCHANGED vars
  BY <1>2, <1>5 DEF vars
<1>6. CASE ProcessStep
  <2>1. CASE Signal \/ Drained \/ DrainTimeout \/ ClosePool
    BY <2>1, ConnectionsFrame DEF Signal, Drained, DrainTimeout, ClosePool, Executing
  <2>2. CASE Exit \/ Crash
    BY <2>2, ApiAssumption
    DEF Exit, Crash, PoolClosed, Connections, ConnectionsAccounted
  <2>3. CASE Restart
    <3>1. Executing' = {}
      BY <2>3 DEF Restart, Executing, ProcessShape, Open
    <3>2. idle' = PoolSize
      BY <2>3 DEF Restart, Connections
    <3>3. Cardinality(Executing') = 0 /\ PoolSize \in Nat
      BY <3>1, FS_EmptySet, ApiAssumption
    <3> QED
      BY <3>2, <3>3
      DEF Connections, ConnectionsAccounted, Executing
  <2> QED BY <1>6, <2>1, <2>2, <2>3 DEF ProcessStep
<1> QED BY <1>1, <1>3, <1>4, <1>5, <1>6 DEF Next

-----------------------------------------------------------------------------
(* Types and shapes *)

\* What a request may be, together with its kind and the process.
Typed == TypeOK /\ RequestShape /\ ProcessShape

LEMMA TypedInit == Init => TypeOK /\ RequestShape /\ ProcessShape /\ NobodyLeft
<1> SUFFICES ASSUME Init
             PROVE TypeOK /\ RequestShape /\ ProcessShape /\ NobodyLeft
  OBVIOUS
<1> USE DEF Init, FreeRequest
<1>1. TypeOK
  BY ConnectionsInit, ApiAssumption DEF TypeOK, Stmt, Row
<1> QED BY <1>1 DEF RequestShape, ProcessShape, NobodyLeft, Open

\* The statements of a request.
LEMMA Kinds ==
  /\ DOMAIN StmtsOf = {"register", "unregister", "select"}
  /\ StmtsOf["register"] = {"upsert", "get", "create"}
  /\ StmtsOf["unregister"] = {"deactivate"} /\ StmtsOf["select"] = {"select"}
BY DEF StmtsOf

\* One request steps on as another request that may be; the server goes on.
LEMMA RequestBecomes ==
  ASSUME Typed, NEW r \in Request, NEW q \in ReqType,
         req' = [req EXCEPT ![r] = q], UNCHANGED <<server, timedOut>>,
         Open(r) \/ server = "serving",
         q.pc # "free" =>
           /\ q.token \in Token /\ q.kind \in DOMAIN StmtsOf
           /\ q.stmt \in StmtsOf[q.kind]
           /\ q.pc = "read" => q.stmt = "upsert"
  PROVE  RequestShape' /\ ProcessShape' /\ (NobodyLeft => NobodyLeft')
         /\ req' \in [Request -> ReqType]
<1> USE DEF Typed, Open
<1>1. req \in [Request -> ReqType]
  BY DEF TypeOK, ReqType
<1>2. req' \in [Request -> ReqType]
  BY <1>1
<1>3. RequestShape'
  BY <1>1 DEF RequestShape
<1>4. ProcessShape'
  BY <1>1 DEF ProcessShape
<1>5. NobodyLeft => NobodyLeft'
  BY <1>1 DEF NobodyLeft
<1> QED BY <1>2, <1>3, <1>4, <1>5

\* Every step of a request leaves it at a statement of its kind.
LEMMA TypedRequest ==
  ASSUME Typed, NEW r \in Request, RequestStep(r)
  PROVE  RequestShape' /\ ProcessShape' /\ (NobodyLeft => NobodyLeft')
         /\ req' \in [Request -> ReqType]
<1> USE DEF histVars, causeVars
<1> DEFINE Goal == RequestShape' /\ ProcessShape' /\ (NobodyLeft => NobodyLeft')
                   /\ req' \in [Request -> ReqType]
<1> SUFFICES Goal
  OBVIOUS
<1> HIDE DEF Goal
<1>0. req[r] \in ReqType /\ req \in [Request -> ReqType]
  BY DEF Typed, TypeOK, ReqType
<1>1. Open(r) => /\ req[r].token \in Token /\ req[r].kind \in DOMAIN StmtsOf
                 /\ req[r].stmt \in StmtsOf[req[r].kind]
                 /\ req[r].pc = "read" => req[r].stmt = "upsert"
  BY DEF Typed, RequestShape
<1>2. ASSUME req' = [req EXCEPT ![r] = FreeRequest], Open(r), UNCHANGED <<server, timedOut>>
      PROVE  Goal
  <2>1. FreeRequest \in ReqType /\ FreeRequest.pc = "free"
    BY DEF FreeRequest, ReqType, Stmt
  <2> QED BY <1>2, <2>1, RequestBecomes DEF Goal
<1>3. ASSUME NEW kind \in {"register", "unregister", "select"}, NEW t \in Token,
             Accept(r, kind, t)
      PROVE  Goal
  <2> DEFINE q == FirstStep(kind, t)
  <2>1. q \in ReqType /\ q.kind = kind /\ q.token = t /\ q.pc \in {"read", "acquire"}
        /\ q.stmt = IF kind = "unregister" THEN "deactivate"
                    ELSE IF kind = "register" THEN "upsert" ELSE "select"
    BY DEF FirstStep, ReqType, Stmt
  <2>2. q.stmt \in StmtsOf[q.kind] /\ (q.pc = "read" => q.stmt = "upsert")
    BY <2>1, Kinds DEF FirstStep
  <2> QED BY <1>3, <2>1, <2>2, RequestBecomes, Kinds DEF Accept, Goal
<1>4. ASSUME Open(r), UNCHANGED <<server, timedOut>>,
             NEW pc \in {"read", "acquire", "execute"}, NEW known \in SUBSET Field,
             NEW done \in BOOLEAN, NEW stmt \in StmtsOf[req[r].kind],
             pc = "read" => stmt = "upsert",
             req' = [req EXCEPT ![r] = [req[r] EXCEPT !.pc = pc, !.stmt = stmt,
                                                     !.known = known, !.done = done]]
      PROVE  Goal
  <2> DEFINE q == [req[r] EXCEPT !.pc = pc, !.stmt = stmt, !.known = known, !.done = done]
  <2>1. stmt \in Stmt
    BY <1>1, <1>4, Kinds DEF Stmt
  <2>2. q \in ReqType /\ q.pc = pc /\ q.stmt = stmt
        /\ q.kind = req[r].kind /\ q.token = req[r].token
    BY <1>0, <2>1 DEF ReqType
  <2> HIDE DEF q
  <2>3. req' = [req EXCEPT ![r] = q]
    BY <1>4 DEF q
  <2> QED BY <1>1, <1>4, <2>2, <2>3, RequestBecomes DEF Goal
<1>5. CASE ContextEnds(r)
  <2>1. req' = [req EXCEPT ![r] = [req[r] EXCEPT !.pc = req[r].pc, !.stmt = req[r].stmt,
                             !.known = req[r].known, !.done = TRUE]]
    BY <1>0, <1>5 DEF ContextEnds, ReqType
  <2>2. req[r].pc \in {"read", "acquire", "execute"} /\ req[r].known \in SUBSET Field
    BY <1>0, <1>5 DEF ContextEnds, Open, ReqType
  <2> QED BY <1>1, <1>4, <1>5, <2>1, <2>2 DEF ContextEnds
<1>6. CASE ReadMetadata(r)
  <2>1. PICK known \in SUBSET Field :
          req' = [req EXCEPT ![r].pc = "acquire", ![r].known = known]
    BY <1>6 DEF ReadMetadata
  <2>2. req' = [req EXCEPT ![r] = [req[r] EXCEPT !.pc = "acquire", !.stmt = req[r].stmt,
                             !.known = known, !.done = req[r].done]]
    BY <1>0, <2>1 DEF ReqType
  <2>3. Open(r) /\ req[r].done \in BOOLEAN
    BY <1>0, <1>6 DEF ReadMetadata, Open, ReqType
  <2> QED BY <1>1, <1>4, <1>6, <2>2, <2>3 DEF ReadMetadata
<1>7. CASE ReadCutOff(r)
  <2>1. PICK known \in SUBSET Field :
          req' = [req EXCEPT ![r].pc = "acquire", ![r].known = known, ![r].done = TRUE]
    BY <1>7 DEF ReadCutOff
  <2>2. req' = [req EXCEPT ![r] = [req[r] EXCEPT !.pc = "acquire", !.stmt = req[r].stmt,
                             !.known = known, !.done = TRUE]]
    BY <1>0, <2>1 DEF ReqType
  <2>3. Open(r)
    BY <1>7 DEF ReadCutOff, Open
  <2> QED BY <1>1, <1>4, <1>7, <2>2, <2>3 DEF ReadCutOff
<1>8. CASE Acquire(r)
  <2>1. req' = [req EXCEPT ![r] = [req[r] EXCEPT !.pc = "execute", !.stmt = req[r].stmt,
                             !.known = req[r].known, !.done = req[r].done]]
    BY <1>0, <1>8 DEF Acquire, ReqType
  <2>2. Open(r) /\ req[r].done \in BOOLEAN /\ req[r].known \in SUBSET Field
    BY <1>0, <1>8 DEF Acquire, Open, ReqType
  <2> QED BY <1>1, <1>4, <1>8, <2>1, <2>2 DEF Acquire
<1>9. CASE AcquireFails(r)
  BY <1>2, <1>9 DEF AcquireFails, Open
<1>10. ASSUME req[r].pc = "execute", UNCHANGED <<server, timedOut>>,
              NEW stmt \in StmtsOf[req[r].kind], GoesOn(r, stmt)
       PROVE  Goal
  <2>1. req' = [req EXCEPT ![r] = [req[r] EXCEPT !.pc = "acquire", !.stmt = stmt,
                             !.known = {}, !.done = req[r].done]]
    BY <1>0, <1>10 DEF GoesOn, ReqType
  <2>2. Open(r) /\ req[r].done \in BOOLEAN
    BY <1>0, <1>10 DEF Open, ReqType
  <2> QED BY <1>4, <1>10, <2>1, <2>2
<1>11. ASSUME req[r].pc = "execute", UNCHANGED <<server, timedOut>>, Succeeds(r)
       PROVE  Goal
  BY <1>2, <1>11 DEF Succeeds, Open
<1>12. Open(r) /\ req[r].stmt \in {"upsert", "get", "create"} => req[r].kind = "register"
  BY <1>1, Kinds
<1>13. CASE UpsertToken(r)
  BY <1>10, <1>12, <1>13, Kinds DEF UpsertToken, Runs, Open
<1>14. CASE GetState(r)
  BY <1>10, <1>11, <1>12, <1>14, Kinds DEF GetState, Runs, Open
<1>15. CASE CreateState(r) \/ SetInactive(r) \/ Select(r)
  BY <1>11, <1>15 DEF CreateState, SetInactive, Select, Runs
<1>16. CASE ExecuteFails(r)
  BY <1>11, <1>16 DEF ExecuteFails, Succeeds
<1> QED
  BY <1>3, <1>5, <1>6, <1>7, <1>8, <1>9, <1>13, <1>14, <1>15, <1>16 DEF RequestStep

\* The rows of the table stay rows; what a statement says of other tokens is
\* what was there.
LEMMA UpsertedRow ==
  ASSUME tokens \in [Token -> Row \cup {NoRow}],
         NEW t \in Token, NEW known \in SUBSET Field
  PROVE  /\ Upserted(tokens, t, known) \in [Token -> Row \cup {NoRow}]
         /\ Upserted(tokens, t, known)[t].meta = known
         /\ IsActive(Upserted(tokens, t, known), t)
         /\ \A u \in Token \ {t} : Upserted(tokens, t, known)[u] = tokens[u]
<1> DEFINE w == [meta |-> known, active |-> TRUE]
<1>1. w \in Row /\ w.meta = known /\ w.active
  BY DEF Row
<1>2. w # NoRow
  BY <1>1, ApiAssumption DEF Row
<1>3. Upserted(tokens, t, known) = [tokens EXCEPT ![t] = w]
  BY DEF Upserted
<1> HIDE DEF w
<1> QED BY <1>1, <1>2, <1>3 DEF IsActive

LEMMA DeactivatedRow ==
  ASSUME tokens \in [Token -> Row \cup {NoRow}], NEW t \in Token
  PROVE  /\ Deactivated(tokens, t) \in [Token -> Row \cup {NoRow}]
         /\ tokens[t] = NoRow => Deactivated(tokens, t)[t] = NoRow
         /\ tokens[t] # NoRow => /\ Deactivated(tokens, t)[t].meta = tokens[t].meta
                                 /\ ~Deactivated(tokens, t)[t].active
         /\ \A u \in Token \ {t} : Deactivated(tokens, t)[u] = tokens[u]
<1>1. ASSUME NEW w \in Row
      PROVE  /\ [w EXCEPT !.active = FALSE] \in Row
             /\ [w EXCEPT !.active = FALSE].meta = w.meta
             /\ [w EXCEPT !.active = FALSE].active = FALSE
  BY DEF Row
<1>2. tokens[t] # NoRow => tokens[t] \in Row
  OBVIOUS
<1> QED BY <1>1, <1>2 DEF Deactivated

\* The state besides the requests and the pool.
RestTyped ==
  /\ tokens \in [Token -> Row \cup {NoRow}]
  /\ states \subseteq Token
  /\ late \subseteq [stmt : Stmt, token : Token, known : SUBSET Field]
  /\ server \in {"serving", "draining", "closing", "waiting", "exited"}
  /\ acked \in [Token -> {"unknown", "open", "active", "inactive"}]
  /\ since \in [Token -> SUBSET {"upsert", "deactivate", "start"}]
  /\ nodeFailed \in BOOLEAN /\ timedOut \in BOOLEAN

LEMMA TypeParts ==
  TypeOK <=> RestTyped /\ idle \in 0..PoolSize /\ req \in [Request -> ReqType]
BY DEF TypeOK, RestTyped, ReqType

\* What a request stores is of the types declared.
LEMMA RestTypedRequest ==
  ASSUME Typed, NEW r \in Request, RequestStep(r)
  PROVE  RestTyped'
<1> DEFINE Ack == {"unknown", "open", "active", "inactive"}
<1>0. /\ RestTyped /\ req[r] \in ReqType
      /\ Open(r) => req[r].token \in Token
  BY TypeParts DEF Typed, RequestShape
<1> USE DEF RestTyped, dbVars, histVars, causeVars
<1>1. ASSUME NEW kind \in {"register", "unregister", "select"}, NEW t \in Token,
             Accept(r, kind, t)
      PROVE  RestTyped'
  <2>1. acked' \in [Token -> Ack]
    BY <1>0, <1>1 DEF Accept
  <2>2. since' \in [Token -> SUBSET {"upsert", "deactivate", "start"}]
    BY <1>0, <1>1 DEF Accept
  <2> QED BY <1>0, <1>1, <2>1, <2>2 DEF Accept
<1>2. CASE ContextEnds(r) \/ ReadCutOff(r) \/ Acquire(r)
  BY <1>0, <1>2 DEF ContextEnds, ReadCutOff, Acquire
<1>3. CASE ReadMetadata(r)
  BY <1>0, <1>3 DEF ReadMetadata
<1>4. ASSUME Open(r), Breaks(r) \/ \E promise \in Ack : Promise(r, promise)
      PROVE  acked' \in [Token -> Ack]
  BY <1>0, <1>4 DEF Breaks, Promise
<1>5. CASE AcquireFails(r)
  BY <1>0, <1>4, <1>5 DEF AcquireFails, Open
<1>6. CASE UpsertToken(r)
  <2>1. req[r].token \in Token /\ req[r].known \in SUBSET Field
    BY <1>0, <1>6 DEF UpsertToken, Runs, Open, ReqType
  <2> QED BY <1>0, <1>6, <2>1, UpsertedRow DEF UpsertToken
<1>7. CASE GetState(r)
  BY <1>0, <1>4, <1>7 DEF GetState, Runs, Open
<1>8. CASE CreateState(r)
  <2>1. Open(r) /\ Promise(r, "active") /\ "active" \in Ack
    BY <1>8 DEF CreateState, Runs, Open
  <2>2. acked' \in [Token -> Ack]
    BY <1>4, <2>1
  <2> QED BY <1>0, <1>8, <2>1, <2>2 DEF CreateState
<1>9. CASE SetInactive(r)
  <2>1. Open(r) /\ Promise(r, "inactive") /\ "inactive" \in Ack
    BY <1>9 DEF SetInactive, Runs, Open
  <2>2. acked' \in [Token -> Ack]
    BY <1>4, <2>1
  <2> QED BY <1>0, <1>9, <2>1, <2>2, DeactivatedRow DEF SetInactive
<1>10. CASE Select(r)
  BY <1>0, <1>10 DEF Select
<1>11. CASE ExecuteFails(r)
  <2>1. Statement(r) \in [stmt : Stmt, token : Token, known : SUBSET Field]
    BY <1>0, <1>11 DEF ExecuteFails, Open, Statement, ReqType
  <2>2. late' \subseteq [stmt : Stmt, token : Token, known : SUBSET Field]
    BY <1>0, <1>11, <2>1 DEF ExecuteFails
  <2>3. acked' \in [Token -> Ack]
    BY <1>4, <1>11 DEF ExecuteFails, Open
  <2> QED BY <1>0, <1>11, <2>2, <2>3 DEF ExecuteFails
<1> QED
  BY <1>1, <1>2, <1>3, <1>5, <1>6, <1>7, <1>8, <1>9, <1>10, <1>11 DEF RequestStep

\* What a process leaves that is gone.
LEMMA ProcessGone ==
  ASSUME Typed
  PROVE  /\ NoRequests \in [Request -> ReqType]
         /\ \A r \in Request : NoRequests[r].pc = "free"
         /\ Forgotten \in [Token -> {"unknown", "open", "active", "inactive"}]
<1>1. FreeRequest \in ReqType /\ FreeRequest.pc = "free"
  BY DEF FreeRequest, ReqType, Stmt
<1>2. Forgotten \in [Token -> {"unknown", "open", "active", "inactive"}]
  BY DEF Forgotten, Typed, TypeOK
<1> QED BY <1>1, <1>2 DEF NoRequests

\* The steps of the process.
LEMMA TypedProcess ==
  ASSUME Typed, ProcessStep
  PROVE  RestTyped' /\ RequestShape' /\ ProcessShape' /\ (NobodyLeft => NobodyLeft')
         /\ req' \in [Request -> ReqType]
<1>0. RestTyped /\ req \in [Request -> ReqType]
  BY TypeParts DEF Typed
<1> USE DEF dbVars, histVars, causeVars
<1>1. CASE Signal \/ Drained \/ DrainTimeout \/ ClosePool
  <2>1. RestTyped' /\ req' = req
    BY <1>0, <1>1 DEF RestTyped, Signal, Drained, DrainTimeout, ClosePool
  <2>2. RequestShape' /\ ProcessShape'
    BY <1>1, <2>1 DEF Signal, Drained, DrainTimeout, ClosePool, Typed, RequestShape, ProcessShape, Open
  <2>3. NobodyLeft => NobodyLeft'
    BY <1>1, <2>1 DEF Signal, Drained, DrainTimeout, ClosePool, NobodyLeft, Open
  <2> QED BY <1>0, <2>1, <2>2, <2>3
<1>2. CASE Exit
  <2>1. RestTyped'
    BY <1>0, <1>2, ProcessGone DEF RestTyped, Exit
  <2>2. server' = "exited" /\ req' = NoRequests
    BY <1>2 DEF Exit, PoolClosed
  <2>3. RequestShape' /\ ProcessShape'
    BY <2>2, ProcessGone DEF RequestShape, ProcessShape, Open
  <2> QED BY <2>1, <2>2, <2>3, ProcessGone DEF NobodyLeft
<1>3. CASE Crash
  <2>1. /\ server' = "exited" /\ req' = NoRequests /\ acked' = Forgotten
        /\ UNCHANGED <<tokens, states, since, causeVars>>
    BY <1>3 DEF Crash
  <2>2. \A s \in Request : Stores(s) =>
          Statement(s) \in [stmt : Stmt, token : Token, known : SUBSET Field]
    BY <1>0 DEF Stores, Writes, Statement, ReqType, Typed, RequestShape
  <2>3. late' \subseteq [stmt : Stmt, token : Token, known : SUBSET Field]
    <3>1. PICK cut \in SUBSET {Statement(r) : r \in {s \in Request : Stores(s) /\ req[s].pc = "execute"}} :
            late' = late \cup cut
      BY <1>3 DEF Crash
    <3> QED BY <1>0, <2>2, <3>1 DEF RestTyped
  <2>4. RestTyped'
    BY <1>0, <2>1, <2>3, ProcessGone DEF RestTyped
  <2>5. RequestShape' /\ ProcessShape' /\ NobodyLeft'
    BY <2>1, ProcessGone DEF RequestShape, ProcessShape, NobodyLeft, Open
  <2> QED BY <2>1, <2>4, <2>5, ProcessGone
<1>4. CASE Restart
  <2>1. RestTyped'
    BY <1>0, <1>4 DEF RestTyped, Restart
  <2>2. RequestShape' /\ ProcessShape' /\ NobodyLeft'
    BY <1>4 DEF Restart, Typed, RequestShape, ProcessShape, NobodyLeft, Open
  <2> QED BY <1>0, <1>4, <2>1, <2>2 DEF Restart
<1> QED BY <1>1, <1>2, <1>3, <1>4 DEF ProcessStep

\* The steps of the database alone and of the indexer.
LEMMA RestTypedOutside ==
  ASSUME Typed, IndexerStep \/ \E l \in late : LateStatement(l) \/ LateLost(l)
  PROVE  RestTyped'
<1>0. RestTyped
  BY TypeParts DEF Typed
<1> USE DEF dbVars, histVars, causeVars
<1>1. ASSUME NEW l \in late, LateStatement(l)
      PROVE  RestTyped'
  <2>1. l.token \in Token /\ l.known \in SUBSET Field
    BY <1>0 DEF RestTyped
  <2>2. tokens' \in [Token -> Row \cup {NoRow}]
    BY <1>0, <1>1, <2>1, UpsertedRow, DeactivatedRow DEF RestTyped, LateStatement
  <2>3. states' \subseteq Token
    BY <1>0, <1>1, <2>1 DEF RestTyped, LateStatement
  <2>4. since' \in [Token -> SUBSET {"upsert", "deactivate", "start"}]
    BY <1>0, <1>1 DEF RestTyped, LateStatement, WrittenBy
  <2> QED BY <1>0, <1>1, <2>2, <2>3, <2>4 DEF RestTyped, LateStatement
<1>2. ASSUME NEW l \in late, LateLost(l)
      PROVE  RestTyped'
  BY <1>0, <1>2 DEF RestTyped, LateLost
<1>3. ASSUME NEW t \in Token, IndexerUpsert(t)
      PROVE  RestTyped'
  <2>1. PICK known \in SUBSET Field : tokens' = Upserted(tokens, t, known)
    BY <1>3 DEF IndexerUpsert
  <2>2. tokens' \in [Token -> Row \cup {NoRow}]
    BY <1>0, <2>1, UpsertedRow DEF RestTyped
  <2>3. nodeFailed' \in BOOLEAN
    BY <1>0, <1>3 DEF IndexerUpsert, RestTyped
  <2>4. since' \in [Token -> SUBSET {"upsert", "deactivate", "start"}]
    BY <1>0, <1>3 DEF RestTyped, IndexerUpsert, WrittenBy
  <2> QED BY <1>0, <1>3, <2>2, <2>3, <2>4 DEF RestTyped, IndexerUpsert
<1>4. ASSUME NEW t \in Token, IndexerEnsure(t)
      PROVE  RestTyped'
  BY <1>0, <1>4 DEF RestTyped, IndexerEnsure
<1> QED BY <1>1, <1>2, <1>3, <1>4 DEF IndexerStep

\* The steps that no request and no process sees.
LEMMA UnseenStep ==
  ASSUME Typed, UNCHANGED <<req, server, timedOut>>
  PROVE  RequestShape' /\ ProcessShape' /\ (NobodyLeft => NobodyLeft')
         /\ req' \in [Request -> ReqType]
BY TypeParts DEF Typed, RequestShape, ProcessShape, NobodyLeft, Open

\* Every step keeps the types, the shapes and the connections.
LEMMA TypedNext ==
  ASSUME Typed, Connections, [Next]_vars
  PROVE  Typed' /\ Connections' /\ (NobodyLeft => NobodyLeft')
<1>1. Connections' /\ idle' \in 0..PoolSize
  BY ConnectionsNext DEF Typed
<1>2. RestTyped' /\ RequestShape' /\ ProcessShape' /\ (NobodyLeft => NobodyLeft')
      /\ req' \in [Request -> ReqType]
  <2>1. ASSUME NEW r \in Request, RequestStep(r)
        PROVE  RestTyped' /\ RequestShape' /\ ProcessShape'
               /\ (NobodyLeft => NobodyLeft') /\ req' \in [Request -> ReqType]
    BY <2>1, TypedRequest, RestTypedRequest
  <2>2. CASE ProcessStep
    BY <2>2, TypedProcess
  <2>3. CASE IndexerStep \/ \E l \in late : LateStatement(l) \/ LateLost(l)
    <3>1. UNCHANGED <<req, server, timedOut>>
      BY <2>3
      DEF IndexerStep, IndexerUpsert, IndexerEnsure, LateStatement, LateLost,
          histVars, causeVars
    <3> QED BY <2>3, <3>1, UnseenStep, RestTypedOutside
  <2>4. CASE UNCHANGED vars
    <3>1. RestTyped'
      BY <2>4, TypeParts DEF Typed, RestTyped, vars, dbVars, histVars, causeVars
    <3> QED BY <2>4, <3>1, UnseenStep DEF vars, histVars, causeVars
  <2> QED BY <2>1, <2>2, <2>3, <2>4 DEF Next
<1>3. TypeOK'
  BY <1>1, <1>2 DEF RestTyped, TypeOK, ReqType
<1> QED BY <1>1, <1>2, <1>3 DEF Typed

-----------------------------------------------------------------------------
(* What is promised of a token *)

LEMMA AnswerInit == Init => AnswerInv
BY DEF Init, AnswerInv, AnswersStayTrue, Writers, ActiveSoFar, Writes, Open, FreeRequest

\* Steps that change neither what is stored nor what is promised, and make
\* nobody a writer or bring a writer further.
LEMMA AnswerFrame ==
  ASSUME AnswerInv, UNCHANGED <<tokens, states, acked, since>>,
         \A s \in Request : Writes(s)' =>
           Writes(s) /\ req'[s].token = req[s].token /\ req'[s].stmt = req[s].stmt
  PROVE  AnswerInv'
<1> USE DEF AnswerInv
<1>1. AnswersStayTrue'
  BY DEF AnswersStayTrue, IsActive
<1>2. Writers'
  BY DEF Writers
<1>3. ActiveSoFar'
  BY DEF ActiveSoFar, IsActive
<1> QED BY <1>1, <1>2, <1>3

\* One request is answered with a promise, or with an error, and is gone.
\* Only its own token may have changed.
LEMMA AnswerGiven ==
  ASSUME Typed, AnswerInv, NEW r \in Request, Open(r), Writes(r), Succeeds(r),
         NEW t, t = req[r].token, NEW promise \in {"active", "inactive"},
         Promise(r, promise), states \subseteq states',
         \A u \in Token \ {t} : tokens'[u] = tokens[u] /\ since'[u] = since[u],
         acked[t] = "open" =>
           IF promise = "active"
           THEN t \in states' /\ (IsActive(tokens', t) \/ "deactivate" \in since'[t])
           ELSE ~IsActive(tokens', t)
  PROVE  AnswerInv'
<1>1. t \in Token /\ acked \in [Token -> {"unknown", "open", "active", "inactive"}]
  BY DEF Typed, RequestShape, TypeOK
<1>2. /\ \A u \in Token \ {t} : acked'[u] = acked[u]
      /\ acked'[t] = IF acked[t] = "open" /\ ~req[r].done THEN promise ELSE "unknown"
  BY <1>1 DEF Promise
<1>3. acked[t] \in {"open", "unknown"}
  BY DEF AnswerInv, Writers
<1>4. \A s \in Request : Writes(s)' =>
        /\ Writes(s) /\ s # r /\ req'[s] = req[s] /\ req[s].token \in Token
  BY DEF Succeeds, Writes, Open, FreeRequest, Typed, RequestShape, TypeOK
<1>5. acked[t] = "open" => \A s \in Request : Writes(s)' => req[s].token # t
  BY <1>4 DEF AnswerInv, Writers
<1>7. AnswersStayTrue'
  BY <1>1, <1>2, <1>3 DEF AnswerInv, AnswersStayTrue, IsActive
<1>8. Writers'
  BY <1>2, <1>3, <1>4, <1>5 DEF AnswerInv, Writers
<1>9. ActiveSoFar'
  BY <1>1, <1>2, <1>3, <1>4, <1>5 DEF AnswerInv, ActiveSoFar, IsActive
<1> QED BY <1>7, <1>8, <1>9 DEF AnswerInv

\* One request is answered with an error.
LEMMA AnswerBroken ==
  ASSUME Typed, AnswerInv, NEW r \in Request, Open(r), Succeeds(r), Breaks(r),
         UNCHANGED <<tokens, states, since>>
  PROVE  AnswerInv'
<1>1. req[r].token \in Token /\ acked \in [Token -> {"unknown", "open", "active", "inactive"}]
  BY DEF Typed, RequestShape, TypeOK
<1>2. \A u \in Token : acked'[u] = IF Writes(r) /\ u = req[r].token THEN "unknown"
                                                                    ELSE acked[u]
  BY <1>1 DEF Breaks
<1>3. \A s \in Request : Writes(s)' =>
        /\ Writes(s) /\ req'[s] = req[s] /\ req[s].token \in Token
  BY DEF Succeeds, Writes, Open, FreeRequest, Typed, RequestShape, TypeOK
<1>4. AnswersStayTrue'
  BY <1>2 DEF AnswerInv, AnswersStayTrue, IsActive
<1>5. Writers'
  BY <1>1, <1>2, <1>3 DEF AnswerInv, Writers
<1>6. ActiveSoFar'
  BY <1>2, <1>3 DEF AnswerInv, ActiveSoFar, IsActive
<1> QED BY <1>4, <1>5, <1>6 DEF AnswerInv

\* A token that is taken over from nobody is open from then on; what another
\* request may still write is unknown.
LEMMA AnswerAccept ==
  ASSUME Typed, AnswerInv, NEW r \in Request,
         NEW kind \in {"register", "unregister", "select"}, NEW t \in Token,
         Accept(r, kind, t)
  PROVE  AnswerInv'
<1>1. /\ req' = [req EXCEPT ![r] = FirstStep(kind, t)] /\ req[r].pc = "free"
      /\ acked' = IF kind = "select" THEN acked
                  ELSE [acked EXCEPT ![t] = IF Untouched(t) THEN "open" ELSE "unknown"]
      /\ since' = IF kind = "select" THEN since ELSE [since EXCEPT ![t] = {}]
      /\ UNCHANGED <<tokens, states>>
  BY DEF Accept, dbVars
<1>2. acked \in [Token -> {"unknown", "open", "active", "inactive"}]
      /\ req \in [Request -> ReqType]
  BY DEF Typed, TypeOK, ReqType
<1>3. /\ \A s \in Request \ {r} : req'[s] = req[s]
      /\ req'[r].token = t /\ req'[r].kind = kind
      /\ req'[r].stmt \notin {"get", "create"}
  BY <1>1, <1>2 DEF FirstStep
<1>4. CASE kind = "select"
  BY <1>1, <1>3, <1>4, AnswerFrame DEF Writes, Open
<1>5. CASE kind # "select"
  <2>1. \A u \in Token : acked'[u] = IF u # t THEN acked[u]
                                     ELSE IF Untouched(t) THEN "open" ELSE "unknown"
    BY <1>1, <1>2, <1>5
  <2>6. \A u \in Token \ {t} : since'[u] = since[u]
    BY <1>1, <1>5 DEF Typed, TypeOK
  <2>2. \A s \in Request \ {r} : Writes(s)' =>
          Writes(s) /\ req'[s] = req[s] /\ req[s].token \in Token
    BY <1>3 DEF Writes, Open, Typed, RequestShape
  <2>3. AnswersStayTrue'
    BY <1>1, <2>1, <2>6 DEF AnswerInv, AnswersStayTrue, IsActive
  <2>4. Writers'
    BY <1>1, <1>3, <2>1, <2>2 DEF AnswerInv, Writers, Untouched
  <2>5. ActiveSoFar'
    BY <1>1, <1>3, <2>1, <2>2, <2>6 DEF AnswerInv, ActiveSoFar, IsActive, Untouched
  <2> QED BY <2>3, <2>4, <2>5 DEF AnswerInv
<1> QED BY <1>4, <1>5

\* No step of a request takes back what was promised.
LEMMA AnswerRequest ==
  ASSUME Typed, AnswerInv, NEW r \in Request, RequestStep(r)
  PROVE  AnswerInv'
<1> USE DEF dbVars, histVars, causeVars
<1>0. /\ req \in [Request -> ReqType] /\ tokens \in [Token -> Row \cup {NoRow}]
      /\ acked \in [Token -> {"unknown", "open", "active", "inactive"}]
      /\ since \in [Token -> SUBSET {"upsert", "deactivate", "start"}]
      /\ Open(r) => req[r].token \in Token
  BY DEF Typed, TypeOK, ReqType, RequestShape
<1>1. Open(r) =>
        /\ req[r].stmt \in {"upsert", "get", "create"} => req[r].kind = "register"
        /\ req[r].stmt = "deactivate" => req[r].kind = "unregister"
        /\ req[r].stmt = "select" => req[r].kind = "select"
  BY Kinds DEF Typed, RequestShape
<1>2. ASSUME NEW kind \in {"register", "unregister", "select"}, NEW t \in Token,
             Accept(r, kind, t)
      PROVE  AnswerInv'
  BY <1>2, AnswerAccept
<1>3. CASE ContextEnds(r) \/ ReadMetadata(r) \/ ReadCutOff(r) \/ Acquire(r)
  <2> DEFINE Same == \A s \in Request : Writes(s)' =>
        Writes(s) /\ req'[s].token = req[s].token /\ req'[s].stmt = req[s].stmt
  <2>1. ContextEnds(r) => Same
    BY <1>0 DEF ContextEnds, Writes, Open, ReqType
  <2>2. ReadMetadata(r) => Same
    BY <1>0 DEF ReadMetadata, Writes, Open, ReqType
  <2>3. ReadCutOff(r) => Same
    BY <1>0 DEF ReadCutOff, Writes, Open, ReqType
  <2>4. Acquire(r) => Same
    BY <1>0 DEF Acquire, Writes, Open, ReqType
  <2>5. Same
    BY <1>3, <2>1, <2>2, <2>3, <2>4
  <2> QED
    BY <1>3, <2>5, AnswerFrame DEF ContextEnds, ReadMetadata, ReadCutOff, Acquire
<1>4. CASE AcquireFails(r)
  BY <1>4, AnswerBroken DEF AcquireFails, Open, Succeeds
<1>5. CASE UpsertToken(r)
  <2>1. Open(r) /\ Writes(r)
    BY <1>1, <1>5 DEF UpsertToken, Runs, Open, Writes
  <2> DEFINE t == req[r].token
  <2>2. t \in Token /\ acked[t] \in {"open", "unknown"}
    BY <1>0, <2>1 DEF AnswerInv, Writers
  <2>3. IsActive(tokens', t) /\ \A u \in Token \ {t} : tokens'[u] = tokens[u]
    <3>1. req[r].known \in SUBSET Field
      BY <1>0 DEF ReqType
    <3>2. tokens' = Upserted(tokens, t, req[r].known)
      BY <1>5 DEF UpsertToken
    <3> QED BY <1>0, <2>2, <3>1, <3>2, UpsertedRow DEF IsActive
  <2>4. \A s \in Request :
          /\ Writes(s)' => Writes(s) /\ req'[s].token = req[s].token
          /\ s # r => req'[s] = req[s]
    BY <1>0, <1>5 DEF UpsertToken, GoesOn, Writes, Open, Runs, ReqType
  <2>5. /\ UNCHANGED <<states, acked>>
        /\ \A u \in Token \ {t} : since'[u] = since[u]
    BY <1>0, <1>5, <2>2 DEF UpsertToken
  <2> HIDE DEF t
  <2>6. AnswersStayTrue'
    BY <2>2, <2>3, <2>5 DEF AnswerInv, AnswersStayTrue, IsActive
  <2>7. Writers'
    BY <2>4, <2>5 DEF AnswerInv, Writers
  <2>8. ActiveSoFar'
    <3> SUFFICES ASSUME NEW s \in Request, Writes(s)',
                        req'[s].stmt \in {"get", "create"}, acked'[req'[s].token] = "open"
                 PROVE  \/ IsActive(tokens', req'[s].token)
                        \/ "deactivate" \in since'[req'[s].token]
      BY DEF ActiveSoFar
    <3>1. Writes(s) /\ req'[s].token = req[s].token /\ acked[req[s].token] = "open"
      BY <2>4, <2>5
    <3>2. CASE s = r
      BY <2>3, <3>1, <3>2 DEF t
    <3>3. CASE s # r
      <4>1. req[s].token # t /\ req[s].token \in Token
        BY <2>1, <3>1, <3>3 DEF t, AnswerInv, Writers, Typed, RequestShape, Writes
      <4> QED BY <2>3, <2>4, <2>5, <3>1, <3>3, <4>1 DEF AnswerInv, ActiveSoFar, IsActive
    <3> QED BY <3>2, <3>3
  <2> QED BY <2>6, <2>7, <2>8 DEF AnswerInv
<1>6. CASE GetState(r)
  <2>1. Open(r) /\ Writes(r) /\ req[r].stmt = "get"
    BY <1>1, <1>6 DEF GetState, Runs, Open, Writes
  <2>2. acked[req[r].token] = "open" =>
          IsActive(tokens, req[r].token) \/ "deactivate" \in since[req[r].token]
    BY <2>1 DEF AnswerInv, ActiveSoFar
  <2>3. CASE req[r].token \in states
    BY <1>6, <2>1, <2>2, <2>3, AnswerGiven DEF GetState
  <2>4. CASE req[r].token \notin states
    <3>1. GoesOn(r, "create") /\ UNCHANGED <<tokens, states, acked, since>>
      BY <1>6, <2>4 DEF GetState
    <3>2. \A s \in Request :
            /\ Writes(s)' => Writes(s) /\ req'[s].token = req[s].token
            /\ s # r => req'[s] = req[s]
      BY <1>0, <2>1, <3>1 DEF GoesOn, Writes, Open, ReqType
    <3>3. AnswersStayTrue' /\ Writers'
      BY <3>1, <3>2 DEF AnswerInv, AnswersStayTrue, Writers, IsActive
    <3>4. ActiveSoFar'
      BY <2>1, <2>2, <3>1, <3>2 DEF AnswerInv, ActiveSoFar, IsActive
    <3> QED BY <3>3, <3>4 DEF AnswerInv
  <2> QED BY <2>3, <2>4
<1>7. CASE CreateState(r)
  <2>1. Open(r) /\ Writes(r) /\ req[r].stmt = "create"
    BY <1>1, <1>7 DEF CreateState, Runs, Open, Writes
  <2>2. acked[req[r].token] = "open" =>
          IsActive(tokens, req[r].token) \/ "deactivate" \in since[req[r].token]
    BY <2>1 DEF AnswerInv, ActiveSoFar
  <2> QED BY <1>7, <2>1, <2>2, AnswerGiven DEF CreateState
<1>8. CASE SetInactive(r)
  <2>1. Open(r) /\ Writes(r)
    BY <1>1, <1>8 DEF SetInactive, Runs, Open, Writes
  <2>2. /\ ~IsActive(tokens', req[r].token)
        /\ \A u \in Token \ {req[r].token} : tokens'[u] = tokens[u] /\ since'[u] = since[u]
    BY <1>0, <1>8, <2>1, DeactivatedRow DEF SetInactive, IsActive
  <2> QED BY <1>8, <2>1, <2>2, AnswerGiven DEF SetInactive
<1>9. CASE Select(r)
  <2>1. \A s \in Request : Writes(s)' => Writes(s) /\ req'[s] = req[s]
    BY <1>9 DEF Select, Succeeds, Writes, Open, FreeRequest, Typed, TypeOK
  <2> QED BY <1>9, <2>1, AnswerFrame DEF Select
<1>10. CASE ExecuteFails(r)
  BY <1>10, AnswerBroken DEF ExecuteFails, Open, Succeeds
<1> QED
  BY <1>2, <1>3, <1>4, <1>5, <1>6, <1>7, <1>8, <1>9, <1>10 DEF RequestStep

\* What the database makes of a statement left behind undoes what was promised
\* of its token, and the history says so.
LEMMA AnswerLate ==
  ASSUME Typed, AnswerInv, NEW l \in late, LateStatement(l) \/ LateLost(l)
  PROVE  AnswerInv'
<1> USE DEF histVars, causeVars
<1> DEFINE t == l.token
<1>0. /\ t \in Token /\ l.known \in SUBSET Field
      /\ tokens \in [Token -> Row \cup {NoRow}]
      /\ since \in [Token -> SUBSET {"upsert", "deactivate", "start"}]
  BY DEF Typed, TypeOK
<1> HIDE DEF t
<1>1. CASE LateLost(l)
  BY <1>1, AnswerFrame DEF LateLost, Writes, Open
<1>2. CASE LateStatement(l)
  <2>1. /\ UNCHANGED <<req, acked>> /\ states \subseteq states'
        /\ since' = IF acked[t] = "unknown" THEN since
                    ELSE [since EXCEPT ![t] = @ \cup ({"upsert", "deactivate"} \cap {l.stmt})]
    BY <1>2 DEF LateStatement, WrittenBy, t
  <2>2. \/ tokens' = Upserted(tokens, t, l.known) /\ l.stmt = "upsert"
        \/ tokens' = Deactivated(tokens, t) /\ l.stmt = "deactivate"
        \/ tokens' = tokens
    BY <1>2 DEF LateStatement, t
  <2>3. \A u \in Token : since[u] \subseteq since'[u]
    BY <1>0, <2>1
  <2>4. \A u \in Token \ {t} : tokens'[u] = tokens[u]
    BY <1>0, <2>2, UpsertedRow, DeactivatedRow
  <2>5. acked[t] # "unknown" =>
        /\ IsActive(tokens', t) => IsActive(tokens, t) \/ "upsert" \in since'[t]
        /\ IsActive(tokens, t) => IsActive(tokens', t) \/ "deactivate" \in since'[t]
    <3>1. CASE tokens' = Upserted(tokens, t, l.known) /\ l.stmt = "upsert"
      BY <1>0, <2>1, <3>1, UpsertedRow
    <3>2. CASE tokens' = Deactivated(tokens, t) /\ l.stmt = "deactivate"
      BY <1>0, <2>1, <3>2, DeactivatedRow DEF IsActive
    <3>3. CASE tokens' = tokens
      BY <3>3 DEF IsActive
    <3> QED BY <2>2, <3>1, <3>2, <3>3
  <2>6. AnswersStayTrue'
    BY <2>1, <2>3, <2>4, <2>5 DEF AnswerInv, AnswersStayTrue, IsActive
  <2>7. Writers'
    BY <2>1 DEF AnswerInv, Writers, Writes, Open
  <2>8. ActiveSoFar'
    <3>1. \A u \in Token : acked[u] # "unknown" /\ (IsActive(tokens, u) \/ "deactivate" \in since[u]) =>
            IsActive(tokens', u) \/ "deactivate" \in since'[u]
      BY <2>3, <2>4, <2>5 DEF IsActive
    <3>2. \A s \in Request : Writes(s)' => Writes(s) /\ req[s].token \in Token
      BY <2>1 DEF Writes, Open, Typed, RequestShape
    <3> QED BY <2>1, <3>1, <3>2 DEF AnswerInv, ActiveSoFar
  <2> QED BY <2>6, <2>7, <2>8 DEF AnswerInv
<1> QED BY <1>1, <1>2

\* A process that goes forgets who was waiting for an answer.
LEMMA AnswerProcess ==
  ASSUME Typed, AnswerInv, ProcessStep
  PROVE  AnswerInv'
<1> USE DEF dbVars, histVars, causeVars
<1>1. CASE Signal \/ Drained \/ DrainTimeout \/ ClosePool
  BY <1>1, AnswerFrame DEF Signal, Drained, DrainTimeout, ClosePool, Writes, Open
<1>2. CASE Restart
  BY <1>2, AnswerFrame DEF Restart, Writes, Open
<1>3. CASE Exit \/ Crash
  <2>1. /\ req' = NoRequests /\ acked' = Forgotten
        /\ UNCHANGED <<tokens, states, since>>
    BY <1>3 DEF Exit, Crash
  <2>2. \A r \in Request : ~Writes(r)'
    BY <2>1, ProcessGone DEF Writes, Open
  <2>3. \A u \in Token : acked'[u] = IF acked[u] = "open" THEN "unknown" ELSE acked[u]
    BY <2>1 DEF Forgotten
  <2>4. AnswersStayTrue'
    BY <2>1, <2>3 DEF AnswerInv, AnswersStayTrue, IsActive
  <2> QED BY <2>2, <2>4 DEF AnswerInv, Writers, ActiveSoFar
<1> QED BY <1>1, <1>2, <1>3 DEF ProcessStep

\* The indexer makes a token active, and the history says so.
LEMMA AnswerIndexer ==
  ASSUME Typed, AnswerInv, IndexerStep
  PROVE  AnswerInv'
<1> USE DEF dbVars, histVars, causeVars
<1>1. PICK t \in Token : IndexerUpsert(t) \/ IndexerEnsure(t)
  BY DEF IndexerStep
<1>2. CASE IndexerUpsert(t)
  <2>1. PICK known \in SUBSET Field : tokens' = Upserted(tokens, t, known)
    BY <1>2 DEF IndexerUpsert
  <2>2. \A u \in Token \ {t} : tokens'[u] = tokens[u] /\ since'[u] = since[u]
    BY <1>2, <2>1, UpsertedRow DEF IndexerUpsert, WrittenBy, Typed, TypeOK
  <2>3. IsActive(tokens', t)
    BY <2>1, UpsertedRow DEF Typed, TypeOK, IsActive
  <2>4. /\ acked[t] # "unknown" => "start" \in since'[t]
        /\ UNCHANGED <<states, req, acked>>
    BY <1>2 DEF IndexerUpsert, WrittenBy, Typed, TypeOK
  <2>5. AnswersStayTrue'
    BY <2>2, <2>3, <2>4 DEF AnswerInv, AnswersStayTrue, IsActive
  <2>6. Writers'
    BY <2>4 DEF AnswerInv, Writers, Writes, Open
  <2>7. ActiveSoFar'
    BY <2>2, <2>3, <2>4
    DEF AnswerInv, ActiveSoFar, IsActive, Writes, Open, Typed, RequestShape
  <2> QED BY <2>5, <2>6, <2>7 DEF AnswerInv
<1>3. CASE IndexerEnsure(t)
  <2>1. states \subseteq states' /\ UNCHANGED <<tokens, req, acked, since>>
    BY <1>3 DEF IndexerEnsure
  <2>2. AnswersStayTrue' /\ ActiveSoFar'
    BY <2>1 DEF AnswerInv, AnswersStayTrue, ActiveSoFar, IsActive, Writes, Open
  <2>3. Writers'
    BY <2>1 DEF AnswerInv, Writers, Writes, Open
  <2> QED BY <2>2, <2>3 DEF AnswerInv
<1> QED BY <1>1, <1>2, <1>3

LEMMA AnswerNext ==
  ASSUME Typed, AnswerInv, [Next]_vars
  PROVE  AnswerInv'
<1>1. CASE UNCHANGED vars
  BY <1>1, AnswerFrame DEF vars, dbVars, histVars, Writes, Open
<1> QED
  BY <1>1, AnswerRequest, AnswerLate, AnswerProcess, AnswerIndexer DEF Next

-----------------------------------------------------------------------------
(* Cursors and rows *)

\* What every step does, and what keeps the invariant when it does.
RowsStay == \A t \in Token : tokens[t] # NoRow => tokens'[t] # NoRow

\* After a step that takes no row away, the invariant holds when new cursors,
\* new makers of cursors and new statements left behind have their rows.
LEMMA CursorStep ==
  ASSUME Typed, CursorInv, RowsStay,
         \A t \in states' \ states : t \in Token /\ tokens[t] # NoRow,
         \A s \in Request : Open(s)' /\ req'[s].stmt \in {"get", "create"} =>
           \/ Open(s) /\ req'[s].token = req[s].token /\ req[s].stmt \in {"get", "create"}
           \/ tokens'[req'[s].token] # NoRow,
         \A l \in late' \ late : l.stmt = "create" =>
           l.token \in Token /\ tokens[l.token] # NoRow
  PROVE  CursorInv'
<1>1. CursorNeedsToken'
  BY DEF CursorInv, CursorNeedsToken, RowsStay, Typed, TypeOK
<1>2. ASSUME NEW s \in Request, Open(s)', req'[s].stmt \in {"get", "create"}
      PROVE  tokens'[req'[s].token] # NoRow
  BY <1>2 DEF CursorInv, CreatesKnown, RowsStay, Typed, RequestShape
<1>3. ASSUME NEW l \in late', l.stmt = "create"
      PROVE  tokens'[l.token] # NoRow
  BY <1>3 DEF CursorInv, CreatesKnown, RowsStay, Typed, TypeOK
<1> QED BY <1>1, <1>2, <1>3 DEF CursorInv, CreatesKnown

\* No statement deletes a row.
LEMMA RowsRemain ==
  ASSUME Typed, [Next]_vars
  PROVE  RowsStay
<1> USE DEF histVars, causeVars, dbVars
<1>0. tokens \in [Token -> Row \cup {NoRow}]
  BY DEF Typed, TypeOK
<1>1. ASSUME NEW t \in Token, NEW known \in SUBSET Field,
             tokens' \in {tokens, Upserted(tokens, t, known), Deactivated(tokens, t)}
      PROVE  RowsStay
  <2>1. CASE tokens' = Upserted(tokens, t, known)
    BY <1>0, <2>1, UpsertedRow DEF RowsStay, IsActive
  <2>2. CASE tokens' = Deactivated(tokens, t)
    <3>1. \A w \in Row : w # NoRow
      BY ApiAssumption DEF Row
    <3>2. tokens[t] # NoRow => [tokens[t] EXCEPT !.active = FALSE] \in Row
      BY <1>0 DEF Row
    <3> QED BY <1>0, <2>2, <3>1, <3>2 DEF RowsStay, Deactivated
  <2> QED BY <1>1, <2>1, <2>2 DEF RowsStay
<1>2. ASSUME NEW r \in Request, RequestStep(r)
      PROVE  RowsStay
  <2>1. CASE UNCHANGED tokens
    BY <2>1 DEF RowsStay
  <2>2. CASE UpsertToken(r) \/ SetInactive(r)
    <3>1. req[r].token \in Token /\ req[r].known \in SUBSET Field
      BY <2>2 DEF UpsertToken, SetInactive, Runs, Open, Typed, TypeOK, RequestShape
    <3> QED BY <1>1, <2>2, <3>1 DEF UpsertToken, SetInactive
  <2>3. UNCHANGED tokens \/ UpsertToken(r) \/ SetInactive(r)
    BY <1>2
    DEF RequestStep, Accept, ContextEnds, ReadMetadata, ReadCutOff, Acquire,
        AcquireFails, GetState, CreateState, Select, ExecuteFails
  <2> QED BY <2>1, <2>2, <2>3
<1>3. ASSUME NEW l \in late, LateStatement(l) \/ LateLost(l)
      PROVE  RowsStay
  <2>1. l.token \in Token /\ l.known \in SUBSET Field
    BY DEF Typed, TypeOK
  <2> QED BY <1>1, <1>3, <2>1 DEF LateStatement, LateLost
<1>4. ASSUME NEW t \in Token, IndexerUpsert(t)
      PROVE  RowsStay
  BY <1>1, <1>4 DEF IndexerUpsert
<1>5. CASE UNCHANGED tokens
  BY <1>5 DEF RowsStay
<1>6. ASSUME NEW t \in Token, IndexerEnsure(t)
      PROVE  RowsStay
  BY <1>5, <1>6 DEF IndexerEnsure
<1>7. CASE ProcessStep \/ UNCHANGED vars
  BY <1>5, <1>7
  DEF ProcessStep, Signal, Drained, DrainTimeout, ClosePool, Exit, Crash, Restart, vars
<1> QED BY <1>2, <1>3, <1>4, <1>6, <1>7 DEF Next, IndexerStep

\* A cursor is made only by who knows of a row.
LEMMA CursorNext ==
  ASSUME Typed, CursorInv, [Next]_vars
  PROVE  CursorInv'
<1> USE DEF histVars, causeVars, dbVars
<1>0. RowsStay /\ req \in [Request -> ReqType]
  BY RowsRemain DEF Typed, TypeOK, ReqType
<1>1. ASSUME NEW r \in Request, RequestStep(r)
      PROVE  CursorInv'
  <2>0. Open(r) => req[r].token \in Token
    BY DEF Typed, RequestShape
  <2>1. CASE UpsertToken(r)
    <3>1. req[r].known \in SUBSET Field /\ Open(r)
      BY <1>0, <2>1 DEF UpsertToken, Runs, Open, ReqType
    <3>2. tokens'[req[r].token] # NoRow
      BY <2>0, <2>1, <3>1, UpsertedRow DEF UpsertToken, Typed, TypeOK, IsActive
    <3>3. \A s \in Request : /\ s # r => req'[s] = req[s]
                             /\ req'[s].token = req[s].token
      BY <1>0, <2>1 DEF UpsertToken, GoesOn, ReqType
    <3>4. \A s \in Request : Open(s)' /\ req'[s].stmt \in {"get", "create"} =>
            \/ Open(s) /\ req'[s].token = req[s].token /\ req[s].stmt \in {"get", "create"}
            \/ tokens'[req'[s].token] # NoRow
      BY <3>2, <3>3 DEF Open
    <3>5. states' = states /\ late' = late
      BY <2>1 DEF UpsertToken
    <3> QED BY <1>0, <3>4, <3>5, CursorStep
  <2>2. CASE CreateState(r)
    <3>1. Open(r) /\ req[r].stmt = "create" /\ states' = states \cup {req[r].token}
          /\ late' = late /\ req' = [req EXCEPT ![r] = FreeRequest]
      BY <2>2 DEF CreateState, Runs, Open, Succeeds
    <3>2. tokens[req[r].token] # NoRow
      BY <3>1 DEF CursorInv, CreatesKnown
    <3>3. \A s \in Request : Open(s)' => s # r /\ req'[s] = req[s] /\ Open(s)
      BY <1>0, <3>1 DEF Open, FreeRequest
    <3> QED BY <1>0, <2>0, <3>1, <3>2, <3>3, CursorStep
  <2>3. CASE ExecuteFails(r)
    <3>1. Open(r) /\ states' = states /\ req' = [req EXCEPT ![r] = FreeRequest]
          /\ late' \subseteq late \cup {Statement(r)}
      BY <2>3 DEF ExecuteFails, Open
    <3>2. Statement(r).stmt = "create" =>
            Statement(r).token \in Token /\ tokens[Statement(r).token] # NoRow
      BY <2>0, <3>1 DEF CursorInv, CreatesKnown, Statement
    <3>3. \A s \in Request : Open(s)' => s # r /\ req'[s] = req[s] /\ Open(s)
      BY <1>0, <3>1 DEF Open, FreeRequest
    <3> QED BY <1>0, <3>1, <3>2, <3>3, CursorStep
  <2>4. ASSUME states' = states, late' = late,
               \A s \in Request \ {r} : req'[s] = req[s],
               \/ req'[r].pc = "free" \/ req'[r].stmt \notin {"get", "create"}
               \/ /\ Open(r) /\ req'[r].token = req[r].token
                  /\ req[r].stmt \in {"get", "create"}
        PROVE  CursorInv'
    BY <1>0, <2>4, CursorStep DEF Open
  <2>5. ASSUME NEW kind \in {"register", "unregister", "select"}, NEW t \in Token,
               Accept(r, kind, t)
        PROVE  CursorInv'
    BY <1>0, <2>4, <2>5 DEF Accept, FirstStep
  <2>6. CASE ContextEnds(r)
    BY <1>0, <2>4, <2>6 DEF ContextEnds, ReqType
  <2>7. CASE ReadMetadata(r)
    BY <1>0, <2>4, <2>7 DEF ReadMetadata, Open, ReqType
  <2>8. CASE ReadCutOff(r)
    BY <1>0, <2>4, <2>8 DEF ReadCutOff, Open, ReqType
  <2>9. CASE Acquire(r)
    BY <1>0, <2>4, <2>9 DEF Acquire, Open, ReqType
  <2>10. CASE AcquireFails(r)
    BY <1>0, <2>4, <2>10 DEF AcquireFails, FreeRequest
  <2>11. CASE GetState(r)
    BY <1>0, <2>4, <2>11 DEF GetState, Succeeds, GoesOn, Runs, Open, FreeRequest, ReqType
  <2>12. CASE SetInactive(r) \/ Select(r)
    BY <1>0, <2>4, <2>12 DEF SetInactive, Select, Succeeds, FreeRequest
  <2> QED
    BY <1>1, <2>1, <2>2, <2>3, <2>5, <2>6, <2>7, <2>8, <2>9, <2>10, <2>11, <2>12
    DEF RequestStep
<1>2. ASSUME NEW l \in late, LateStatement(l) \/ LateLost(l)
      PROVE  CursorInv'
  <2>1. /\ late' \subseteq late /\ req' = req
        /\ states' = states \/ (l.stmt = "create" /\ states' = states \cup {l.token})
    BY <1>2 DEF LateStatement, LateLost
  <2>2. l.token \in Token /\ (l.stmt = "create" => tokens[l.token] # NoRow)
    BY DEF CursorInv, CreatesKnown, Typed, TypeOK
  <2> QED BY <1>0, <2>1, <2>2, CursorStep DEF Open
<1>3. ASSUME NEW t \in Token, IndexerUpsert(t) \/ IndexerEnsure(t)
      PROVE  CursorInv'
  BY <1>0, <1>3, CursorStep DEF IndexerUpsert, IndexerEnsure, Open
<1>4. CASE Signal \/ Drained \/ DrainTimeout \/ ClosePool \/ UNCHANGED vars
  <2>1. UNCHANGED <<states, late, req>>
    BY <1>4 DEF Signal, Drained, DrainTimeout, ClosePool, vars
  <2> QED BY <1>0, <2>1, CursorStep DEF Open
<1>5. CASE Exit \/ Crash \/ Restart
  <2>1. states' = states /\ \A s \in Request : ~Open(s)'
    BY <1>5, ProcessGone DEF Exit, Crash, Restart, Open, Typed, ProcessShape
  <2>2. \A l \in late' \ late : l.stmt = "create" =>
          l.token \in Token /\ tokens[l.token] # NoRow
    <3>1. CASE Exit \/ Restart
      BY <3>1 DEF Exit, Restart
    <3>2. CASE Crash
      <4>1. PICK cut \in SUBSET {Statement(r) : r \in {s \in Request : Stores(s) /\ req[s].pc = "execute"}} :
              late' = late \cup cut
        BY <3>2 DEF Crash
      <4>2. \A s \in Request : Stores(s) /\ Statement(s).stmt = "create" =>
              Statement(s).token \in Token /\ tokens[Statement(s).token] # NoRow
        BY DEF Statement, Stores, Writes, CursorInv, CreatesKnown, Typed, RequestShape
      <4> QED BY <4>1, <4>2
    <3> QED BY <1>5, <3>1, <3>2
  <2> QED BY <1>0, <2>1, <2>2, CursorStep
<1> QED BY <1>1, <1>2, <1>3, <1>4, <1>5 DEF Next, ProcessStep, IndexerStep

-----------------------------------------------------------------------------
(* The metadata stored *)

\* Rows that are complete stay complete when complete metadata is stored.
LEMMA CompleteRows ==
  ASSUME Typed, \A t \in Token : tokens[t] # NoRow => tokens[t].meta = Field,
         NEW u \in Token,
         tokens' \in {tokens, Upserted(tokens, u, Field), Deactivated(tokens, u)}
  PROVE  \A t \in Token : tokens'[t] # NoRow => tokens'[t].meta = Field
<1>1. tokens \in [Token -> Row \cup {NoRow}] /\ Field \in SUBSET Field
  BY DEF Typed, TypeOK
<1>2. CASE tokens' = Upserted(tokens, u, Field)
  BY <1>1, <1>2, UpsertedRow
<1>3. CASE tokens' = Deactivated(tokens, u)
  BY <1>1, <1>3, DeactivatedRow
<1> QED BY <1>2, <1>3

\* Steps that store nothing, after which no request is closer to storing
\* metadata that is not complete.
LEMMA MetadataFrame ==
  ASSUME MetadataInv, UNCHANGED <<tokens, late, nodeFailed, timedOut>>,
         NEW r, \A s \in Request \ {r} : req'[s] = req[s],
         r \in Request /\ req'[r].stmt = "upsert" =>
           \/ req'[r].known = Field
           \/ req'[r].pc \notin {"acquire", "execute"}
           \/ req'[r].pc = "acquire" /\ req'[r].done
  PROVE  MetadataInv'
BY DEF MetadataInv, MetadataComplete, UpsertsComplete

\* A request whose metadata is not complete is cut off and stores nothing.
LEMMA MetadataRequest ==
  ASSUME Typed, NobodyLeft, MetadataInv, NEW r \in Request, RequestStep(r)
  PROVE  MetadataInv'
<1> USE DEF dbVars, histVars, causeVars
<1>0. req \in [Request -> ReqType] /\ (Open(r) => req[r].token \in Token)
  BY DEF Typed, TypeOK, ReqType, RequestShape
<1>1. CASE nodeFailed \/ timedOut
  <2>1. CASE ReadMetadata(r)
    BY <1>1, <2>1 DEF ReadMetadata, MetadataInv, MetadataComplete, UpsertsComplete
  <2>2. CASE ~ReadMetadata(r)
    <3>1. UNCHANGED causeVars
      BY <2>2
      DEF RequestStep, Accept, ContextEnds, ReadCutOff, Acquire, AcquireFails,
          UpsertToken, GetState, CreateState, SetInactive, Select, ExecuteFails
    <3>2. nodeFailed' \/ timedOut'
      BY <1>1, <3>1
    <3> QED BY <3>2 DEF MetadataInv, MetadataComplete, UpsertsComplete
  <2> QED BY <2>1, <2>2
<1> SUFFICES ASSUME ~nodeFailed, ~timedOut PROVE MetadataInv'
  BY <1>1
<1>2. /\ req[r].stmt = "upsert" =>
           /\ req[r].pc = "execute" => req[r].known = Field
           /\ req[r].pc = "acquire" /\ ~req[r].done => req[r].known = Field
      /\ \A l \in late : l.stmt = "upsert" => l.known = Field
  BY DEF MetadataInv, UpsertsComplete
<1>3. ASSUME req' = [req EXCEPT ![r] = FreeRequest],
             UNCHANGED <<tokens, late, nodeFailed, timedOut>>
      PROVE  MetadataInv'
  BY <1>0, <1>3, MetadataFrame DEF FreeRequest
<1>4. ASSUME NEW kind \in {"register", "unregister", "select"}, NEW t \in Token,
             Accept(r, kind, t)
      PROVE  MetadataInv'
  <2>1. /\ \A s \in Request \ {r} : req'[s] = req[s]
        /\ req'[r].stmt = "upsert" => req'[r].pc = "read"
    BY <1>0, <1>4 DEF Accept, FirstStep
  <2> QED BY <1>4, <2>1, MetadataFrame DEF Accept
<1>5. CASE ContextEnds(r)
  <2>1. /\ \A s \in Request \ {r} : req'[s] = req[s]
        /\ req'[r].stmt = req[r].stmt /\ req'[r].known = req[r].known
        /\ req'[r].pc = req[r].pc /\ req'[r].done /\ req[r].pc \in {"read", "acquire", "execute"}
    BY <1>0, <1>5 DEF ContextEnds, Open, ReqType
  <2> QED BY <1>2, <1>5, <2>1, MetadataFrame DEF ContextEnds
<1>6. CASE ReadMetadata(r)
  <2>1. PICK known \in SUBSET Field :
          /\ req' = [req EXCEPT ![r].pc = "acquire", ![r].known = known]
          /\ nodeFailed' = (nodeFailed \/ (ClientOpen /\ known # Field))
    BY <1>6 DEF ReadMetadata
  <2>2. /\ \A s \in Request \ {r} : req'[s] = req[s]
        /\ req'[r].known = known
    BY <1>0, <2>1 DEF ReqType
  <2>3. CASE known = Field
    <3>1. nodeFailed' = nodeFailed
      BY <2>1, <2>3 DEF Typed, TypeOK
    <3> QED BY <1>6, <2>2, <2>3, <3>1, MetadataFrame DEF ReadMetadata
  <2>4. CASE known # Field
    <3>1. server # "exited"
      BY <1>6 DEF ReadMetadata, Typed, ProcessShape, Open
    <3>2. server \notin {"closing", "waiting"}
      BY <1>6 DEF ReadMetadata, NobodyLeft, Open
    <3>3. ClientOpen
      BY <3>1, <3>2 DEF ClientOpen, Typed, TypeOK
    <3> QED BY <2>1, <2>4, <3>3 DEF MetadataInv, MetadataComplete, UpsertsComplete
  <2> QED BY <2>3, <2>4
<1>7. CASE ReadCutOff(r)
  <2>1. PICK known \in SUBSET Field :
          req' = [req EXCEPT ![r].pc = "acquire", ![r].known = known, ![r].done = TRUE]
    BY <1>7 DEF ReadCutOff
  <2>2. /\ \A s \in Request \ {r} : req'[s] = req[s]
        /\ req'[r].pc = "acquire" /\ req'[r].done
    BY <1>0, <2>1 DEF ReqType
  <2> QED BY <1>7, <2>2, MetadataFrame DEF ReadCutOff
<1>8. CASE Acquire(r)
  <2>1. /\ \A s \in Request \ {r} : req'[s] = req[s]
        /\ req'[r].stmt = req[r].stmt /\ req'[r].known = req[r].known
    BY <1>0, <1>8 DEF Acquire, ReqType
  <2>2. req[r].stmt = "upsert" => req[r].known = Field
    BY <1>2, <1>8 DEF Acquire, MayAcquire
  <2> QED BY <1>8, <2>1, <2>2, MetadataFrame DEF Acquire
<1>9. CASE AcquireFails(r)
  BY <1>3, <1>9 DEF AcquireFails
<1>10. CASE UpsertToken(r)
  <2>1. /\ tokens' = Upserted(tokens, req[r].token, Field)
        /\ req[r].token \in Token
    BY <1>0, <1>2, <1>10 DEF UpsertToken, Runs, Open
  <2>2. MetadataComplete'
    BY <2>1, CompleteRows DEF MetadataInv, MetadataComplete
  <2>3. /\ \A s \in Request \ {r} : req'[s] = req[s]
        /\ req'[r].stmt = "get"
    BY <1>0, <1>10 DEF UpsertToken, GoesOn, ReqType
  <2>4. UpsertsComplete'
    BY <1>10, <2>3 DEF UpsertToken, MetadataInv, UpsertsComplete
  <2> QED BY <2>2, <2>4 DEF MetadataInv
<1>11. CASE GetState(r)
  <2>1. CASE Succeeds(r)
    BY <1>3, <1>11, <2>1 DEF GetState, Succeeds
  <2>2. CASE GoesOn(r, "create")
    <3>1. /\ \A s \in Request \ {r} : req'[s] = req[s]
          /\ req'[r].stmt = "create"
      BY <1>0, <2>2 DEF GoesOn, ReqType
    <3> QED BY <1>11, <3>1, MetadataFrame DEF GetState
  <2> QED BY <1>11, <2>1, <2>2 DEF GetState
<1>12. CASE CreateState(r) \/ Select(r)
  BY <1>3, <1>12 DEF CreateState, Select, Succeeds
<1>13. CASE SetInactive(r)
  <2>1. /\ tokens' = Deactivated(tokens, req[r].token)
        /\ req[r].token \in Token
    BY <1>0, <1>13 DEF SetInactive, Runs, Open
  <2>2. MetadataComplete'
    BY <2>1, CompleteRows DEF MetadataInv, MetadataComplete
  <2>3. UpsertsComplete'
    BY <1>0, <1>13
    DEF SetInactive, Succeeds, FreeRequest, MetadataInv, UpsertsComplete
  <2> QED BY <2>2, <2>3 DEF MetadataInv
<1>14. CASE ExecuteFails(r)
  <2>1. Statement(r).stmt = "upsert" => Statement(r).known = Field
    BY <1>2, <1>14 DEF ExecuteFails, Statement
  <2>2. \A l \in late' : l.stmt = "upsert" => l.known = Field
    BY <1>2, <1>14, <2>1 DEF ExecuteFails
  <2>3. MetadataComplete'
    BY <1>14 DEF ExecuteFails, MetadataInv, MetadataComplete
  <2>4. UpsertsComplete'
    BY <1>0, <1>14, <2>2
    DEF ExecuteFails, FreeRequest, MetadataInv, UpsertsComplete
  <2> QED BY <2>3, <2>4 DEF MetadataInv
<1> QED
  BY <1>4, <1>5, <1>6, <1>7, <1>8, <1>9, <1>10, <1>11, <1>12, <1>13, <1>14
  DEF RequestStep

LEMMA MetadataNext ==
  ASSUME Typed, NobodyLeft, MetadataInv, [Next]_vars
  PROVE  MetadataInv'
<1> USE DEF dbVars, histVars, causeVars
<1>1. ASSUME NEW l \in late, LateStatement(l) \/ LateLost(l)
      PROVE  MetadataInv'
  <2>1. CASE nodeFailed \/ timedOut
    BY <1>1, <2>1
    DEF LateStatement, LateLost, MetadataInv, MetadataComplete, UpsertsComplete
  <2>2. CASE ~nodeFailed /\ ~timedOut
    <3>1. l.token \in Token /\ (l.stmt = "upsert" => l.known = Field)
      BY <2>2 DEF MetadataInv, UpsertsComplete, Typed, TypeOK
    <3>2. \/ tokens' = Upserted(tokens, l.token, Field)
          \/ tokens' = Deactivated(tokens, l.token)
          \/ tokens' = tokens
      BY <1>1, <3>1 DEF LateStatement, LateLost
    <3>3. \A t \in Token : tokens'[t] # NoRow => tokens'[t].meta = Field
      BY <2>2, <3>1, <3>2, CompleteRows DEF MetadataInv, MetadataComplete
    <3>4. late' \subseteq late /\ req' = req
      BY <1>1 DEF LateStatement, LateLost
    <3> QED
      BY <2>2, <3>3, <3>4 DEF MetadataInv, MetadataComplete, UpsertsComplete
  <2> QED BY <2>1, <2>2
<1>2. CASE Signal \/ Drained \/ DrainTimeout \/ ClosePool \/ UNCHANGED vars
  BY <1>2
  DEF Signal, Drained, DrainTimeout, ClosePool, vars, MetadataInv, MetadataComplete, UpsertsComplete
<1>3. CASE Exit \/ Crash \/ Restart
  <2>1. UNCHANGED <<tokens, nodeFailed, timedOut>>
    BY <1>3 DEF Exit, Crash, Restart
  <2>2. \A r \in Request : req'[r].pc \notin {"acquire", "execute"}
    BY <1>3, ProcessGone DEF Exit, Crash, Restart, Typed, ProcessShape, Open
  <2>3. ~nodeFailed /\ ~timedOut => \A l \in late' : l.stmt = "upsert" => l.known = Field
    <3>1. CASE Exit \/ Restart
      BY <3>1 DEF Exit, Restart, MetadataInv, UpsertsComplete
    <3>2. CASE Crash
      <4>1. PICK cut \in SUBSET {Statement(r) : r \in {s \in Request : Stores(s) /\ req[s].pc = "execute"}} :
              late' = late \cup cut
        BY <3>2 DEF Crash
      <4>2. \A s \in Request : ~nodeFailed /\ ~timedOut /\ req[s].pc = "execute" =>
              (Statement(s).stmt = "upsert" => Statement(s).known = Field)
        BY DEF Statement, MetadataInv, UpsertsComplete
      <4> QED BY <4>1, <4>2 DEF MetadataInv, UpsertsComplete
    <3> QED BY <1>3, <3>1, <3>2
  <2> QED BY <2>1, <2>2, <2>3 DEF MetadataInv, MetadataComplete, UpsertsComplete
<1>4. ASSUME NEW t \in Token, IndexerUpsert(t)
      PROVE  MetadataInv'
  <2>1. PICK known \in SUBSET Field :
          /\ tokens' = Upserted(tokens, t, known)
          /\ nodeFailed' = (nodeFailed \/ known # Field)
    BY <1>4 DEF IndexerUpsert
  <2>2. CASE nodeFailed' \/ timedOut'
    BY <2>2 DEF MetadataInv, MetadataComplete, UpsertsComplete
  <2>3. CASE ~nodeFailed' /\ ~timedOut'
    <3>1. ~nodeFailed /\ ~timedOut /\ tokens' = Upserted(tokens, t, Field)
      BY <1>4, <2>1, <2>3 DEF IndexerUpsert
    <3>2. MetadataComplete'
      BY <3>1, CompleteRows DEF MetadataInv, MetadataComplete
    <3> QED BY <1>4, <3>1, <3>2 DEF IndexerUpsert, MetadataInv, UpsertsComplete
  <2> QED BY <2>2, <2>3
<1>5. ASSUME NEW t \in Token, IndexerEnsure(t)
      PROVE  MetadataInv'
  BY <1>5 DEF IndexerEnsure, MetadataInv, MetadataComplete, UpsertsComplete
<1> QED
  BY <1>1, <1>2, <1>3, <1>4, <1>5, MetadataRequest DEF Next, ProcessStep, IndexerStep

-----------------------------------------------------------------------------
(* The theorems *)

\* The inductive invariant: what must be true between the steps of a request,
\* of the process and of the indexer for the promises of the API to hold.
THEOREM ApiInductive == Spec => []IInv
<1>1. Init => IInv
  <2>1. Init => MetadataInv
    BY DEF Init, MetadataInv, MetadataComplete, UpsertsComplete, FreeRequest
  <2>2. Init => CursorInv
    BY DEF Init, CursorInv, CursorNeedsToken, CreatesKnown, Open, FreeRequest
  <2> QED BY <2>1, <2>2, TypedInit, ConnectionsInit, AnswerInit DEF IInv
<1>2. IInv /\ [Next]_vars => IInv'
  BY TypedNext, AnswerNext, CursorNext, MetadataNext DEF IInv, Typed
<1> QED BY <1>1, <1>2, PTL DEF Spec

\* Every state of the API is of the types declared (TypeOK), with the
\* connections counted that its pool may make (api.go:33).
THEOREM ApiTyped == Spec => []TypeOK
<1>1. IInv => TypeOK
  BY DEF IInv
<1> QED BY <1>1, ApiInductive, PTL

\* No connection is lost by a request that fails or is cut off, so db.Close
\* waits only for statements under way (api.go:55), for every size of the pool
\* and every number of requests.
THEOREM ConnectionsReturn == Spec => []ConnectionsAccounted
<1>1. IInv => ConnectionsAccounted
  BY DEF IInv, Connections
<1> QED BY <1>1, ApiInductive, PTL

\* Nowhere that a registration may be cut off (handlers.go:85, 89) - by its
\* time, a shutdown (api.go:52), a crash - nor by a statement that the database
\* makes after its request gave up is a cursor left without its token, for any
\* number of clients, statements left behind, crashes and starts.
THEOREM CursorsOfTokens == Spec => []CursorNeedsToken
<1>1. IInv => CursorNeedsToken
  BY DEF IInv, CursorInv
<1> QED BY <1>1, ApiInductive, PTL

\* What a client was told of a token stays true until a request writes it
\* again, unless a statement of an earlier request that gave up is made after
\* all (handlers.go:85, 111) or the indexer starts with the token in its
\* configuration (syncer.go:84) - for any number of clients, of statements left
\* behind, of crashes and of starts.  The cursor of a token that was registered
\* stays in any case.
THEOREM PromisesKept == Spec => []AnswersStayTrue
<1>1. IInv => AnswersStayTrue
  BY DEF IInv, AnswerInv
<1> QED BY <1>1, ApiInductive, PTL

\* Empty metadata is stored only when the node failed or a shutdown did not
\* wait for its requests (api.go:54): what a client that went away left half
\* read is never stored (erc20.go:37, handlers.go:75), neither by its request
\* nor by a statement it left behind.
THEOREM MetadataKept == Spec => []MetadataComplete
<1>1. IInv => MetadataComplete
  BY DEF IInv, MetadataInv
<1> QED BY <1>1, ApiInductive, PTL

=============================================================================
