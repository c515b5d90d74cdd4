----------------------------- MODULE ConsoleProofs -----------------------------
(***************************************************************************)
(* Proofs about Console, for every set of requests, inputs and databases,  *)
(* every kind of resource and any number of changes and faults.            *)
(***************************************************************************)
EXTENDS Console, FiniteSetTheorems, TLAPS

USE InputsAssumption, DatabasesAssumption

Stores == Databases \cup {File}

\* The database that request r is to run on.
Where(r) == IF kind = "postgresql" THEN conn[r] ELSE File

MayWrite(r) ==
    /\ req[r].confirmed /\ "db:query:write" \in Permissions(req[r].role)
    /\ ~isReadOnlyDatabaseQuery(req[r].statement)

\* The gap of SQLite: a PRAGMA that is taken for reading and changes the file.
Slips(r) ==
    /\ kind = "sqliteFile" /\ req[r].statement = "pragmaCall"
    /\ "db:data:read" \in Permissions(req[r].role)

\* Until it runs a request has done nothing, and it has no answer before its end.
Untouched(r) ==
    /\ pc[r] \in {"idle", "handler", "console"} =>
          /\ result[r] = "none" /\ atServer[r] = "none"
          /\ \A d \in Stores : r \notin changedBy[d]
    /\ pc[r] # "done" => answer[r] = "none"

\* A statement at the server passed the guard of PostgreSQL, for the connection
\* that the request read; once committed it has changed what it changes there.
ServerInv(r) ==
    /\ atServer[r] # "none" =>
          kind = "postgresql" /\ conn[r] \in Databases /\ Allowed(req[r])
    /\ atServer[r] = "committed" /\ PostgresChanges(req[r].statement) => r \in changedBy[conn[r]]

ChangeInv(r) ==
    \A d \in Stores : r \in changedBy[d] => (MayWrite(r) \/ Slips(r)) /\ d = Where(r)

\* A request that was turned away, or answered by a contract, never comes to run.
AnswerInv(r) ==
    /\ answer[r] = "ok" /\ req[r].op \in {"query", "command"} => r \in auditLogs
    /\ result[r] = "changed" /\ req[r].statement = "write" =>
          kind = "sqliteMemory" \/ (Where(r) \in Stores /\ r \in changedBy[Where(r)])
    /\ result[r] = "contract" \/ answer[r] \in {"refused", "notFound"} =>
          /\ atServer[r] = "none"
          /\ \A d \in Stores : r \notin changedBy[d]

RequestInv(r) == Untouched(r) /\ ServerInv(r) /\ ChangeInv(r) /\ AnswerInv(r)

IInv == TypeOK /\ \A r \in Requests : RequestInv(r)

\* The initial state satisfies the inductive invariant.
LEMMA InitIInv == Init => IInv
<1> SUFFICES ASSUME Init PROVE IInv
  OBVIOUS
<1>1. TypeOK
  <2>1. exists \in BOOLEAN
    BY Zenon DEF Init
  <2>2. QED
    BY <2>1 DEF Init, TypeOK
<1>2. QED
  BY <1>1 DEF Init, IInv, RequestInv, Untouched, ServerInv, ChangeInv, AnswerInv, Stores

\* What the guards of the console let pass and is no read may write and was
\* confirmed.  PostgreSQL and SQLite share the guard.
LEMMA GuardedWrite ==
  ASSUME TypeOK, NEW r \in Requests, Allowed(req[r]),
         kind \in {"postgresql", "sqliteFile", "sqliteMemory"},
         ~isReadOnlyDatabaseQuery(req[r].statement)
  PROVE  MayWrite(r)
<1>1. req[r].op \notin {"browse", "view"}
  BY DEF TypeOK, Idle, isReadOnlyDatabaseQuery
<1>2. guardDatabaseQuery(req[r])
  <2>1. CASE kind = "postgresql"
    BY <1>1, <2>1 DEF Allowed
  <2>2. CASE kind \in {"sqliteFile", "sqliteMemory"}
    BY <1>1, <2>2 DEF Allowed
  <2>3. QED
    BY <2>1, <2>2
<1>3. QED
  BY <1>2 DEF guardDatabaseQuery, Guarded, MayWrite

\* What SQLite lets through as a call of a PRAGMA may at least read data.
LEMMA GuardedRead ==
  ASSUME TypeOK, NEW r \in Requests, Allowed(req[r]), kind = "sqliteFile",
         req[r].statement = "pragmaCall"
  PROVE  Slips(r)
<1>1. req[r].op \notin {"browse", "view"}
  BY DEF TypeOK, Idle
<1>2. guardDatabaseQuery(req[r])
  BY <1>1 DEF Allowed
<1>3. QED
  BY <1>2 DEF guardDatabaseQuery, Guarded, isReadOnlyDatabaseQuery, Slips

\* A request keeps its part of the invariant while others step.
LEMMA RequestKept ==
  ASSUME NEW r \in Requests, RequestInv(r), UNCHANGED kind,
         req'[r] = req[r], pc'[r] = pc[r], conn'[r] = conn[r], answer'[r] = answer[r],
         result'[r] = result[r], atServer'[r] = atServer[r],
         \A d \in Stores : r \in changedBy'[d] <=> r \in changedBy[d],
         r \in auditLogs => r \in auditLogs'
  PROVE  RequestInv(r)'
<1>1. /\ Where(r)' = Where(r) /\ (Allowed(req[r])' <=> Allowed(req[r]))
      /\ (MayWrite(r)' <=> MayWrite(r)) /\ (Slips(r)' <=> Slips(r))
  BY DEF Where, Allowed, MayWrite, Slips
<1>2. Untouched(r)'
  BY DEF RequestInv, Untouched
<1>3. ServerInv(r)'
  BY <1>1 DEF RequestInv, ServerInv, Stores
<1>4. ChangeInv(r)'
  BY <1>1 DEF RequestInv, ChangeInv
<1>5. AnswerInv(r)'
  BY <1>1 DEF RequestInv, AnswerInv
<1>6. QED
  BY <1>2, <1>3, <1>4, <1>5 DEF RequestInv

\* A step of request r alone.
Alone(r) ==
    /\ kind' = kind
    /\ \A s \in Requests \ {r} :
          /\ req'[s] = req[s] /\ pc'[s] = pc[s] /\ conn'[s] = conn[s]
          /\ answer'[s] = answer[s] /\ result'[s] = result[s] /\ atServer'[s] = atServer[s]
          /\ \A d \in Stores : s \in changedBy'[d] <=> s \in changedBy[d]
          /\ s \in auditLogs => s \in auditLogs'

\* A step of one request is left to show its own part of the invariant.
LEMMA AloneKeeps ==
  ASSUME IInv, NEW r \in Requests, Alone(r), TypeOK', RequestInv(r)'
  PROVE  IInv'
<1>1. ASSUME NEW s \in Requests \ {r} PROVE RequestInv(s)'
  BY <1>1, RequestKept DEF IInv, Alone
<1>2. QED
  BY <1>1 DEF IInv

\* The route keeps the invariant: nothing has happened yet.
LEMMA HandleIInv ==
  ASSUME IInv, NEW r \in Requests, handle(r)
  PROVE  IInv'
<1>1. TypeOK /\ RequestInv(r) /\ pc[r] = "idle"
  BY DEF IInv, handle
<1>2. UNCHANGED <<kind, exists, secret, conn, result, atServer, changedBy, auditLogs>>
  BY DEF handle
<1>3. \E input \in Inputs : req' = [req EXCEPT ![r] = input]
  BY DEF handle
<1>4. /\ pc' \in [Requests -> {"idle", "handler", "console", "executing", "audit", "done"}]
      /\ \A s \in Requests \ {r} : pc'[s] = pc[s]
  BY <1>1 DEF handle, Tell, TypeOK
<1>5. /\ answer' \in [Requests -> {"none", "ok", "refused", "notFound", "failed", "timedOut", "lost"}]
      /\ \A s \in Requests \ {r} : answer'[s] = answer[s]
  BY <1>1 DEF handle, Tell, TypeOK
<1>6. \/ answer'[r] = "none" /\ pc'[r] = "handler"
      \/ answer'[r] \in {"refused", "notFound"} /\ pc'[r] = "done"
  BY <1>1 DEF handle, Tell, TypeOK, RequestInv, Untouched
<1>7. req' \in [Requests -> Inputs \cup {Idle}] /\ \A s \in Requests \ {r} : req'[s] = req[s]
  BY <1>1, <1>3 DEF TypeOK
<1>8. TypeOK'
  BY <1>1, <1>2, <1>4, <1>5, <1>7 DEF TypeOK
<1>9. Alone(r)
  BY <1>2, <1>4, <1>5, <1>7 DEF Alone
<1>10. RequestInv(r)'
  BY <1>1, <1>2, <1>6 DEF RequestInv, Untouched, ServerInv, ChangeInv, AnswerInv
<1>11. QED
  BY <1>8, <1>9, <1>10, AloneKeeps

\* Reading the connection keeps the invariant.
LEMMA ResourceIInv ==
  ASSUME IInv, NEW r \in Requests, resourceForConsole(r)
  PROVE  IInv'
<1>1. TypeOK /\ RequestInv(r) /\ pc[r] = "handler"
  BY DEF IInv, resourceForConsole
<1>2. UNCHANGED <<kind, exists, secret, req, result, atServer, changedBy, auditLogs>>
  BY DEF resourceForConsole
<1>3. /\ pc' \in [Requests -> {"idle", "handler", "console", "executing", "audit", "done"}]
      /\ \A s \in Requests \ {r} : pc'[s] = pc[s]
  BY <1>1 DEF resourceForConsole, Tell, TypeOK
<1>4. /\ answer' \in [Requests -> {"none", "ok", "refused", "notFound", "failed", "timedOut", "lost"}]
      /\ \A s \in Requests \ {r} : answer'[s] = answer[s]
  BY <1>1 DEF resourceForConsole, Tell, TypeOK
<1>5. /\ conn' \in [Requests -> Databases \cup {None, "contract"}]
      /\ \A s \in Requests \ {r} : conn'[s] = conn[s]
  BY <1>1 DEF resourceForConsole, TypeOK
<1>6. \/ answer'[r] = "none" /\ pc'[r] = "console"
      \/ answer'[r] = "notFound" /\ pc'[r] = "done"
  BY <1>1 DEF resourceForConsole, Tell, TypeOK, RequestInv, Untouched
<1>7. TypeOK'
  BY <1>1, <1>2, <1>3, <1>4, <1>5 DEF TypeOK
<1>8. Alone(r)
  BY <1>2, <1>3, <1>4, <1>5 DEF Alone
<1>9. RequestInv(r)'
  BY <1>1, <1>2, <1>6 DEF RequestInv, Untouched, ServerInv, ChangeInv, AnswerInv
<1>10. QED
  BY <1>7, <1>8, <1>9, AloneKeeps

\* A refusal keeps the invariant: nothing was run.
LEMMA RefusedIInv ==
  ASSUME IInv, NEW r \in Requests, refused(r)
  PROVE  IInv'
<1>1. TypeOK /\ RequestInv(r) /\ pc[r] = "console"
  BY DEF IInv, refused
<1>2. UNCHANGED <<kind, exists, secret, req, conn, result, atServer, changedBy, auditLogs>>
  BY DEF refused
<1>3. /\ pc' = [pc EXCEPT ![r] = "done"]
      /\ answer' = [answer EXCEPT ![r] = "refused"]
  BY DEF refused, Tell
<1>4. TypeOK'
  BY <1>1, <1>2, <1>3 DEF TypeOK
<1>5. Alone(r)
  BY <1>1, <1>2, <1>3 DEF Alone, TypeOK
<1>6. pc'[r] = "done" /\ answer'[r] = "refused"
  BY <1>1, <1>3 DEF TypeOK
<1>7. RequestInv(r)'
  BY <1>1, <1>2, <1>6 DEF RequestInv, Untouched, ServerInv, ChangeInv, AnswerInv
<1>8. QED
  BY <1>4, <1>5, <1>7, AloneKeeps

\* How a run ends: with its result, waiting for the audit log or answered.
LEMMA Finished ==
  ASSUME TypeOK, NEW r \in Requests, NEW res \in {"rows", "changed", "contract"}, Finish(r, res)
  PROVE  /\ pc' \in [Requests -> {"idle", "handler", "console", "executing", "audit", "done"}]
         /\ answer' \in [Requests -> {"none", "ok", "refused", "notFound", "failed", "timedOut",
                                      "lost"}]
         /\ result' \in [Requests -> {"none", "rows", "changed", "contract"}]
         /\ \A s \in Requests \ {r} :
               pc'[s] = pc[s] /\ answer'[s] = answer[s] /\ result'[s] = result[s]
         /\ result'[r] = res
         /\ \/ pc'[r] = "audit" /\ answer'[r] = answer[r]
            \/ pc'[r] = "done" /\ answer'[r] = "ok" /\ req[r].op \notin {"query", "command"}
<1>1. CASE req[r].op \in {"query", "command"}
  BY <1>1 DEF Finish, TypeOK
<1>2. CASE req[r].op \notin {"query", "command"}
  BY <1>2 DEF Finish, Tell, TypeOK
<1>3. QED
  BY <1>1, <1>2

\* The same for a run that ends at once with an answer.
LEMMA Told ==
  ASSUME TypeOK, NEW r \in Requests, NEW a \in {"ok", "failed", "timedOut"}, Tell(r, a)
  PROVE  /\ pc' \in [Requests -> {"idle", "handler", "console", "executing", "audit", "done"}]
         /\ answer' \in [Requests -> {"none", "ok", "refused", "notFound", "failed", "timedOut",
                                      "lost"}]
         /\ \A s \in Requests \ {r} : pc'[s] = pc[s] /\ answer'[s] = answer[s]
         /\ pc'[r] = "done" /\ answer'[r] = a
BY DEF Tell, TypeOK

\* Where a statement changes a database, only its own request is added there.
LEMMA ChangedBy ==
  ASSUME TypeOK, NEW r \in Requests, NEW d \in Stores, Changed(d, r)
  PROVE  /\ changedBy' \in [Stores -> SUBSET Requests]
         /\ \A s \in Requests \ {r} : \A e \in Stores : s \in changedBy'[e] <=> s \in changedBy[e]
         /\ r \in changedBy'[d]
         /\ \A e \in Stores \ {d} : changedBy'[e] = changedBy[e]
BY DEF Changed, TypeOK, Stores

\* A run on SQLite keeps the invariant: only what the guard let pass changes the
\* file, and the run is over within the step.
LEMMA SqliteIInv ==
  ASSUME IInv, NEW r \in Requests, runSqlite(r)
  PROVE  IInv'
<1>1. TypeOK /\ RequestInv(r)
  BY DEF IInv
<1>2. /\ pc[r] = "console" /\ Allowed(req[r]) /\ kind \in {"sqliteFile", "sqliteMemory"}
      /\ UNCHANGED <<kind, exists, secret, req, conn, atServer, auditLogs>>
  BY DEF runSqlite, Runs
<1>3. /\ Where(r) = File /\ Where(r)' = File /\ MayWrite(r)' = MayWrite(r)
      /\ (Slips(r)' <=> Slips(r)) /\ Where(r) \in Stores
  BY <1>2 DEF Where, MayWrite, Slips, Stores
<1>4. /\ result[r] = "none" /\ atServer[r] = "none" /\ answer[r] = "none"
      /\ \A d \in Stores : r \notin changedBy[d]
  BY <1>1, <1>2 DEF RequestInv, Untouched
<1>5. CASE Tell(r, "failed") /\ UNCHANGED <<result, changedBy>>
  <2>1. /\ pc' \in [Requests -> {"idle", "handler", "console", "executing", "audit", "done"}]
        /\ answer' \in [Requests -> {"none", "ok", "refused", "notFound", "failed", "timedOut",
                                     "lost"}]
        /\ \A s \in Requests \ {r} : pc'[s] = pc[s] /\ answer'[s] = answer[s]
        /\ pc'[r] = "done" /\ answer'[r] = "failed"
    BY <1>1, <1>5, Told
  <2>2. TypeOK'
    BY <1>1, <1>2, <1>5, <2>1 DEF TypeOK
  <2>3. Alone(r)
    BY <1>2, <1>5, <2>1 DEF Alone
  <2>4. RequestInv(r)'
    BY <1>2, <1>4, <1>5, <2>1 DEF RequestInv, Untouched, ServerInv, ChangeInv, AnswerInv
  <2>5. QED
    BY <2>2, <2>3, <2>4, AloneKeeps
<1>6. CASE /\ Finish(r, IF req[r].statement = "write" THEN "changed" ELSE "rows")
           /\ IF SqliteChanges(req[r].statement) /\ kind = "sqliteFile"
              THEN Changed(File, r) ELSE UNCHANGED changedBy
  <2>1. PICK res \in {"rows", "changed"} :
            Finish(r, res) /\ (res = "changed" => req[r].statement = "write")
    BY <1>6
  <2>2. /\ pc' \in [Requests -> {"idle", "handler", "console", "executing", "audit", "done"}]
        /\ answer' \in [Requests -> {"none", "ok", "refused", "notFound", "failed", "timedOut",
                                     "lost"}]
        /\ result' \in [Requests -> {"none", "rows", "changed", "contract"}]
        /\ \A s \in Requests \ {r} :
              pc'[s] = pc[s] /\ answer'[s] = answer[s] /\ result'[s] = result[s]
        /\ result'[r] = res
        /\ \/ pc'[r] = "audit" /\ answer'[r] = answer[r]
           \/ pc'[r] = "done" /\ answer'[r] = "ok" /\ req[r].op \notin {"query", "command"}
    BY <1>1, <2>1, Finished
  <2>3. /\ changedBy' \in [Stores -> SUBSET Requests]
        /\ \A s \in Requests \ {r} : \A e \in Stores : s \in changedBy'[e] <=> s \in changedBy[e]
        /\ \A e \in Stores : r \in changedBy'[e] =>
              /\ e = File
              /\ \/ ~isReadOnlyDatabaseQuery(req[r].statement)
                 \/ req[r].statement = "pragmaCall" /\ kind = "sqliteFile"
        /\ req[r].statement = "write" => kind = "sqliteMemory" \/ r \in changedBy'[File]
    <3>1. CASE SqliteChanges(req[r].statement) /\ kind = "sqliteFile"
      <4>1. Changed(File, r) /\ File \in Stores
        BY <1>6, <3>1 DEF Stores
      <4>2. ~isReadOnlyDatabaseQuery(req[r].statement) \/ req[r].statement = "pragmaCall"
        BY <3>1 DEF SqliteChanges, isReadOnlyDatabaseQuery
      <4>3. QED
        BY <1>1, <1>4, <3>1, <4>1, <4>2, ChangedBy
    <3>2. CASE ~(SqliteChanges(req[r].statement) /\ kind = "sqliteFile")
      BY <1>1, <1>2, <1>4, <1>6, <3>2 DEF TypeOK, Stores, SqliteChanges
    <3>3. QED
      BY <3>1, <3>2
  <2>4. TypeOK'
    BY <1>1, <1>2, <2>2, <2>3 DEF TypeOK, Stores
  <2>5. Alone(r)
    BY <1>2, <2>2, <2>3 DEF Alone
  <2>6. /\ ~isReadOnlyDatabaseQuery(req[r].statement) => MayWrite(r)
        /\ req[r].statement = "pragmaCall" /\ kind = "sqliteFile" => Slips(r)
    BY <1>1, <1>2, GuardedWrite, GuardedRead
  <2>7. Untouched(r)' /\ ServerInv(r)'
    BY <1>2, <1>4, <2>2 DEF Untouched, ServerInv
  <2>8. ChangeInv(r)'
    BY <1>3, <2>3, <2>6 DEF ChangeInv
  <2>9. AnswerInv(r)'
    BY <1>2, <1>3, <1>4, <2>2, <2>3 DEF AnswerInv
  <2>10. QED
    BY <2>4, <2>5, <2>7, <2>8, <2>9, AloneKeeps DEF RequestInv
<1>7. CASE /\ req[r].statement = "write" /\ kind = "sqliteFile"
           /\ Tell(r, "failed") /\ Changed(File, r) /\ UNCHANGED result
  <2>1. /\ pc' \in [Requests -> {"idle", "handler", "console", "executing", "audit", "done"}]
        /\ answer' \in [Requests -> {"none", "ok", "refused", "notFound", "failed", "timedOut",
                                     "lost"}]
        /\ \A s \in Requests \ {r} : pc'[s] = pc[s] /\ answer'[s] = answer[s]
        /\ pc'[r] = "done" /\ answer'[r] = "failed"
    BY <1>1, <1>7, Told
  <2>2. /\ changedBy' \in [Stores -> SUBSET Requests]
        /\ \A s \in Requests \ {r} : \A e \in Stores : s \in changedBy'[e] <=> s \in changedBy[e]
        /\ \A e \in Stores : r \in changedBy'[e] => e = File
    BY <1>1, <1>3, <1>4, <1>7, ChangedBy
  <2>3. TypeOK'
    BY <1>1, <1>2, <1>7, <2>1, <2>2 DEF TypeOK, Stores
  <2>4. Alone(r)
    BY <1>2, <1>7, <2>1, <2>2 DEF Alone
  <2>5. MayWrite(r)
    BY <1>1, <1>2, <1>7, GuardedWrite DEF isReadOnlyDatabaseQuery
  <2>6. Untouched(r)' /\ ServerInv(r)'
    BY <1>2, <1>4, <2>1 DEF Untouched, ServerInv
  <2>7. ChangeInv(r)'
    BY <1>3, <2>2, <2>5 DEF ChangeInv
  <2>8. AnswerInv(r)'
    BY <1>2, <1>4, <1>7, <2>1 DEF AnswerInv
  <2>9. QED
    BY <2>3, <2>4, <2>6, <2>7, <2>8, AloneKeeps DEF RequestInv
<1>8. QED
  BY <1>5, <1>6, <1>7 DEF runSqlite

\* A contract keeps the invariant: it runs nothing.
LEMMA ContractIInv ==
  ASSUME IInv, NEW r \in Requests, runContract(r)
  PROVE  IInv'
<1>1. TypeOK /\ RequestInv(r) /\ pc[r] = "console" /\ Finish(r, "contract")
  BY DEF IInv, runContract, Runs
<1>2. UNCHANGED <<kind, exists, secret, req, conn, atServer, changedBy, auditLogs>>
  BY DEF runContract
<1>3. /\ pc' \in [Requests -> {"idle", "handler", "console", "executing", "audit", "done"}]
      /\ answer' \in [Requests -> {"none", "ok", "refused", "notFound", "failed", "timedOut",
                                   "lost"}]
      /\ result' \in [Requests -> {"none", "rows", "changed", "contract"}]
      /\ \A s \in Requests \ {r} :
            pc'[s] = pc[s] /\ answer'[s] = answer[s] /\ result'[s] = result[s]
      /\ result'[r] = "contract"
      /\ \/ pc'[r] = "audit" /\ answer'[r] = answer[r]
         \/ pc'[r] = "done" /\ answer'[r] = "ok" /\ req[r].op \notin {"query", "command"}
  BY <1>1, Finished
<1>4. TypeOK'
  BY <1>1, <1>2, <1>3 DEF TypeOK
<1>5. Alone(r)
  BY <1>2, <1>3 DEF Alone
<1>6. RequestInv(r)'
  BY <1>1, <1>2, <1>3 DEF RequestInv, Untouched, ServerInv, ChangeInv, AnswerInv
<1>7. QED
  BY <1>4, <1>5, <1>6, AloneKeeps

\* Handing a statement to PostgreSQL keeps the invariant: the guard let it pass.
LEMMA PostgresIInv ==
  ASSUME IInv, NEW r \in Requests, runPostgres(r)
  PROVE  IInv'
<1>1. TypeOK /\ RequestInv(r)
  BY DEF IInv
<1>2. /\ pc[r] = "console" /\ Allowed(req[r]) /\ kind = "postgresql" /\ conn[r] \in Databases
      /\ pc' = [pc EXCEPT ![r] = "executing"]
      /\ atServer' = [atServer EXCEPT ![r] = "sent"]
      /\ UNCHANGED <<kind, exists, secret, req, conn, answer, result, changedBy, auditLogs>>
  BY DEF runPostgres, Runs, Executes
<1>3. TypeOK'
  BY <1>1, <1>2 DEF TypeOK
<1>4. Alone(r)
  BY <1>1, <1>2 DEF Alone, TypeOK
<1>5. pc'[r] = "executing" /\ atServer'[r] = "sent"
  BY <1>1, <1>2 DEF TypeOK
<1>6. Allowed(req[r])'
  BY <1>2 DEF Allowed
<1>7. /\ result[r] = "none" /\ answer[r] = "none"
      /\ \A d \in Stores : r \notin changedBy[d]
  BY <1>1, <1>2 DEF RequestInv, Untouched
<1>8. RequestInv(r)'
  BY <1>2, <1>5, <1>6, <1>7 DEF RequestInv, Untouched, ServerInv, ChangeInv, AnswerInv
<1>9. QED
  BY <1>3, <1>4, <1>8, AloneKeeps

\* The end of a statement keeps the invariant, however late it comes: what
\* changes a database outside a READ ONLY transaction is no read, so the guard
\* had seen a confirmed write.
LEMMA EndsIInv ==
  ASSUME IInv, NEW r \in Requests, databaseEnds(r)
  PROVE  IInv'
<1>1. TypeOK /\ RequestInv(r)
  BY DEF IInv
<1>2. /\ atServer[r] = "sent"
      /\ UNCHANGED <<kind, exists, secret, req, pc, conn, answer, result, auditLogs>>
  BY DEF databaseEnds
<1>3. /\ kind = "postgresql" /\ conn[r] \in Databases /\ conn[r] \in Stores
      /\ Allowed(req[r]) /\ Allowed(req[r])'
  BY <1>1, <1>2 DEF RequestInv, ServerInv, Stores, Allowed
<1>4. /\ Where(r) = conn[r] /\ Where(r)' = conn[r] /\ MayWrite(r)' = MayWrite(r)
      /\ (Slips(r)' <=> Slips(r))
  BY <1>2, <1>3 DEF Where, MayWrite, Slips
<1>5. /\ pc[r] \notin {"idle", "handler", "console"}
      /\ result[r] # "contract" /\ answer[r] \notin {"refused", "notFound"}
  BY <1>1, <1>2 DEF RequestInv, Untouched, AnswerInv
<1>6. CASE atServer' = [atServer EXCEPT ![r] = "failed"] /\ UNCHANGED changedBy
  <2>1. TypeOK'
    BY <1>1, <1>2, <1>6 DEF TypeOK
  <2>2. Alone(r) /\ atServer'[r] = "failed"
    BY <1>1, <1>2, <1>6 DEF Alone, TypeOK
  <2>3. Untouched(r)' /\ ServerInv(r)'
    BY <1>1, <1>2, <1>3, <1>5, <2>2 DEF RequestInv, Untouched, ServerInv
  <2>4. ChangeInv(r)' /\ AnswerInv(r)'
    BY <1>1, <1>2, <1>4, <1>5, <1>6 DEF RequestInv, ChangeInv, AnswerInv
  <2>5. QED
    BY <2>1, <2>2, <2>3, <2>4, AloneKeeps DEF RequestInv
<1>7. CASE /\ ~PostgresFails(req[r].statement)
           /\ ~(queryPostgresReadOnly(r) /\ PostgresChanges(req[r].statement))
           /\ atServer' = [atServer EXCEPT ![r] = "committed"]
           /\ IF PostgresChanges(req[r].statement) THEN Changed(conn[r], r) ELSE UNCHANGED changedBy
  <2>1. /\ changedBy' \in [Stores -> SUBSET Requests]
        /\ \A s \in Requests \ {r} : \A e \in Stores : s \in changedBy'[e] <=> s \in changedBy[e]
        /\ \A e \in Stores : r \in changedBy[e] => r \in changedBy'[e]
        /\ \A e \in Stores : r \in changedBy'[e] =>
              \/ r \in changedBy[e]
              \/ e = conn[r] /\ ~isReadOnlyDatabaseQuery(req[r].statement)
        /\ PostgresChanges(req[r].statement) => r \in changedBy'[conn[r]]
    <3>1. CASE PostgresChanges(req[r].statement)
      <4>1. Changed(conn[r], r)
        BY <1>7, <3>1
      <4>2. ~isReadOnlyDatabaseQuery(req[r].statement)
        BY <1>7, <3>1 DEF queryPostgresReadOnly
      <4>3. /\ changedBy' \in [Stores -> SUBSET Requests]
            /\ \A s \in Requests \ {r} : \A e \in Stores :
                  s \in changedBy'[e] <=> s \in changedBy[e]
            /\ r \in changedBy'[conn[r]]
            /\ \A e \in Stores \ {conn[r]} : changedBy'[e] = changedBy[e]
        BY <1>1, <1>3, <4>1, ChangedBy
      <4>4. \A e \in Stores : r \in changedBy[e] => r \in changedBy'[e]
        BY <4>3
      <4>5. \A e \in Stores : r \in changedBy'[e] => r \in changedBy[e] \/ e = conn[r]
        BY <4>3
      <4>6. QED
        BY <4>2, <4>3, <4>4, <4>5
    <3>2. CASE ~PostgresChanges(req[r].statement)
      <4>1. changedBy' = changedBy
        BY <1>7, <3>2
      <4>2. changedBy \in [Stores -> SUBSET Requests]
        BY <1>1 DEF TypeOK, Stores
      <4>3. changedBy' \in [Stores -> SUBSET Requests]
        BY <4>1, <4>2
      <4>4. QED
        BY <3>2, <4>1, <4>3
    <3>3. QED
      BY <3>1, <3>2
  <2>2. TypeOK'
    BY <1>1, <1>2, <1>7, <2>1 DEF TypeOK, Stores
  <2>3. Alone(r) /\ atServer'[r] = "committed"
    BY <1>1, <1>2, <1>7, <2>1 DEF Alone, TypeOK
  <2>4. ~isReadOnlyDatabaseQuery(req[r].statement) => MayWrite(r)
    BY <1>1, <1>3, GuardedWrite
  <2>5. Untouched(r)' /\ ServerInv(r)'
    BY <1>1, <1>2, <1>3, <1>5, <2>1, <2>3 DEF RequestInv, Untouched, ServerInv
  <2>6. ChangeInv(r)'
    BY <1>1, <1>4, <2>1, <2>4 DEF RequestInv, ChangeInv
  <2>7. AnswerInv(r)'
    BY <1>1, <1>2, <1>3, <1>4, <1>5, <2>1 DEF RequestInv, AnswerInv
  <2>8. QED
    BY <2>2, <2>3, <2>5, <2>6, <2>7, AloneKeeps DEF RequestInv
<1>8. QED
  BY <1>6, <1>7 DEF databaseEnds

\* A statement that settles in time keeps the invariant: "changed" is reported of
\* a committed statement.
LEMMA SettlesIInv ==
  ASSUME IInv, NEW r \in Requests, settles(r)
  PROVE  IInv'
<1>1. TypeOK /\ RequestInv(r) /\ pc[r] = "executing"
  BY DEF IInv, settles
<1>2. UNCHANGED <<kind, exists, secret, req, conn, atServer, changedBy, auditLogs>>
  BY DEF settles
<1>3. atServer[r] \in {"committed", "failed"}
  BY DEF settles
<1>4. /\ kind = "postgresql" /\ conn[r] \in Stores
      /\ (Allowed(req[r])' <=> Allowed(req[r]))
  BY <1>1, <1>2, <1>3 DEF RequestInv, ServerInv, Stores, Allowed
<1>5. /\ Where(r) = conn[r] /\ Where(r)' = conn[r] /\ MayWrite(r)' = MayWrite(r)
      /\ (Slips(r)' <=> Slips(r))
  BY <1>2, <1>4 DEF Where, MayWrite, Slips
<1>6. CASE atServer[r] \in {"committed", "failed"} /\ Tell(r, "failed") /\ UNCHANGED result
  <2>1. /\ pc' \in [Requests -> {"idle", "handler", "console", "executing", "audit", "done"}]
        /\ answer' \in [Requests -> {"none", "ok", "refused", "notFound", "failed", "timedOut",
                                     "lost"}]
        /\ \A s \in Requests \ {r} : pc'[s] = pc[s] /\ answer'[s] = answer[s]
        /\ pc'[r] = "done" /\ answer'[r] = "failed"
    BY <1>1, <1>6, Told
  <2>2. TypeOK'
    BY <1>1, <1>2, <1>6, <2>1 DEF TypeOK
  <2>3. Alone(r)
    BY <1>2, <1>6, <2>1 DEF Alone
  <2>4. RequestInv(r)'
    BY <1>1, <1>2, <1>4, <1>5, <1>6, <2>1 DEF RequestInv, Untouched, ServerInv, ChangeInv, AnswerInv
  <2>5. QED
    BY <2>2, <2>3, <2>4, AloneKeeps
<1>7. CASE /\ atServer[r] = "committed"
           /\ Finish(r, IF isReadOnlyDatabaseQuery(req[r].statement) THEN "rows" ELSE "changed")
  <2>1. PICK res \in {"rows", "changed"} : Finish(r, res)
    BY <1>7
  <2>2. /\ pc' \in [Requests -> {"idle", "handler", "console", "executing", "audit", "done"}]
        /\ answer' \in [Requests -> {"none", "ok", "refused", "notFound", "failed", "timedOut",
                                     "lost"}]
        /\ result' \in [Requests -> {"none", "rows", "changed", "contract"}]
        /\ \A s \in Requests \ {r} :
              pc'[s] = pc[s] /\ answer'[s] = answer[s] /\ result'[s] = result[s]
        /\ result'[r] = res
        /\ \/ pc'[r] = "audit" /\ answer'[r] = answer[r]
           \/ pc'[r] = "done" /\ answer'[r] = "ok" /\ req[r].op \notin {"query", "command"}
    BY <1>1, <2>1, Finished
  <2>3. TypeOK'
    BY <1>1, <1>2, <2>2 DEF TypeOK
  <2>4. Alone(r)
    BY <1>2, <2>2 DEF Alone
  <2>5. req[r].statement = "write" => r \in changedBy[conn[r]]
    BY <1>1, <1>7 DEF RequestInv, ServerInv, PostgresChanges
  <2>6. Untouched(r)' /\ ServerInv(r)' /\ ChangeInv(r)'
    BY <1>1, <1>2, <1>4, <1>5, <2>2 DEF RequestInv, Untouched, ServerInv, ChangeInv
  <2>7. AnswerInv(r)'
    BY <1>1, <1>2, <1>4, <1>5, <2>2, <2>5 DEF RequestInv, Untouched, AnswerInv
  <2>8. QED
    BY <2>3, <2>4, <2>6, <2>7, AloneKeeps DEF RequestInv
<1>8. QED
  BY <1>6, <1>7 DEF settles

\* A timer that gives up on a statement keeps the invariant.
LEMMA TimeoutIInv ==
  ASSUME IInv, NEW r \in Requests, withTimeout(r)
  PROVE  IInv'
<1>1. TypeOK /\ RequestInv(r) /\ pc[r] = "executing" /\ Tell(r, "timedOut")
  BY DEF IInv, withTimeout
<1>2. UNCHANGED <<kind, exists, secret, req, conn, result, atServer, changedBy, auditLogs>>
  BY DEF withTimeout
<1>3. /\ pc' \in [Requests -> {"idle", "handler", "console", "executing", "audit", "done"}]
      /\ answer' \in [Requests -> {"none", "ok", "refused", "notFound", "failed", "timedOut",
                                   "lost"}]
      /\ \A s \in Requests \ {r} : pc'[s] = pc[s] /\ answer'[s] = answer[s]
      /\ pc'[r] = "done" /\ answer'[r] = "timedOut"
  BY <1>1, Told
<1>4. TypeOK'
  BY <1>1, <1>2, <1>3 DEF TypeOK
<1>5. Alone(r)
  BY <1>2, <1>3 DEF Alone
<1>6. /\ Where(r)' = Where(r) /\ MayWrite(r)' = MayWrite(r) /\ (Slips(r)' <=> Slips(r))
      /\ (Allowed(req[r])' <=> Allowed(req[r]))
  BY <1>2 DEF Where, MayWrite, Slips, Allowed
<1>7. RequestInv(r)'
  BY <1>1, <1>2, <1>3, <1>6 DEF RequestInv, Untouched, ServerInv, ChangeInv, AnswerInv
<1>8. QED
  BY <1>4, <1>5, <1>7, AloneKeeps

\* The audit log keeps the invariant: "ok" is answered after its row is written.
LEMMA AuditIInv ==
  ASSUME IInv, NEW r \in Requests, audit(r)
  PROVE  IInv'
<1>1. TypeOK /\ RequestInv(r) /\ pc[r] = "audit"
  BY DEF IInv, audit
<1>2. UNCHANGED <<kind, exists, secret, req, conn, result, atServer, changedBy>>
  BY DEF audit
<1>3. PICK a \in {"ok", "failed"} :
          /\ Tell(r, a)
          /\ a = "ok" => auditLogs' = auditLogs \cup {r}
          /\ a = "failed" => auditLogs' = auditLogs
  BY DEF audit
<1>4. /\ pc' \in [Requests -> {"idle", "handler", "console", "executing", "audit", "done"}]
      /\ answer' \in [Requests -> {"none", "ok", "refused", "notFound", "failed", "timedOut",
                                   "lost"}]
      /\ \A s \in Requests \ {r} : pc'[s] = pc[s] /\ answer'[s] = answer[s]
      /\ pc'[r] = "done" /\ answer'[r] = a
  BY <1>1, <1>3, Told
<1>5. auditLogs \subseteq auditLogs' /\ auditLogs' \subseteq Requests
  BY <1>1, <1>3 DEF TypeOK
<1>6. TypeOK'
  BY <1>1, <1>2, <1>4, <1>5 DEF TypeOK
<1>7. Alone(r)
  BY <1>2, <1>4, <1>5 DEF Alone
<1>8. /\ Where(r)' = Where(r) /\ MayWrite(r)' = MayWrite(r) /\ (Slips(r)' <=> Slips(r))
      /\ (Allowed(req[r])' <=> Allowed(req[r]))
  BY <1>2 DEF Where, MayWrite, Slips, Allowed
<1>9. RequestInv(r)'
  BY <1>1, <1>2, <1>3, <1>4, <1>5, <1>8 DEF RequestInv, Untouched, ServerInv, ChangeInv, AnswerInv
<1>10. QED
  BY <1>6, <1>7, <1>9, AloneKeeps

\* The death of the process keeps the invariant: nobody is told anything.
LEMMA CrashIInv ==
  ASSUME IInv, crash
  PROVE  IInv'
<1>1. TypeOK /\ UNCHANGED <<kind, exists, secret, req, conn, result, atServer, changedBy, auditLogs>>
  BY DEF IInv, crash
<1>2. /\ pc' \in [Requests -> {"idle", "handler", "console", "executing", "audit", "done"}]
      /\ answer' \in [Requests -> {"none", "ok", "refused", "notFound", "failed", "timedOut",
                                   "lost"}]
  BY <1>1 DEF crash, TypeOK
<1>3. TypeOK'
  BY <1>1, <1>2 DEF TypeOK
<1>4. ASSUME NEW r \in Requests PROVE RequestInv(r)'
  <2>1. RequestInv(r)
    BY DEF IInv
  <2>2. \/ pc'[r] = pc[r] /\ answer'[r] = answer[r]
        \/ pc'[r] = "done" /\ answer'[r] = "lost"
    BY DEF crash
  <2>3. /\ Where(r)' = Where(r) /\ MayWrite(r)' = MayWrite(r) /\ (Slips(r)' <=> Slips(r))
        /\ (Allowed(req[r])' <=> Allowed(req[r]))
    BY <1>1 DEF Where, MayWrite, Slips, Allowed
  <2>4. QED
    BY <1>1, <2>1, <2>2, <2>3 DEF RequestInv, Untouched, ServerInv, ChangeInv, AnswerInv
<1>5. QED
  BY <1>3, <1>4 DEF IInv

\* Provisioning and deleting the resource keep the invariant: a request goes on
\* with the connection it read.
LEMMA ResourceChangesIInv ==
  ASSUME IInv, provision \/ delete
  PROVE  IInv'
<1>1. TypeOK /\ UNCHANGED <<kind, req, pc, conn, answer, result, atServer, changedBy, auditLogs>>
  BY DEF IInv, provision, delete
<1>2. secret' \in Databases \cup {None, "contract"}
  BY DEF provision, delete
<1>3. exists' \in BOOLEAN
  BY <1>1, Zenon DEF provision, delete, TypeOK
<1>4. TypeOK'
  BY <1>1, <1>2, <1>3 DEF TypeOK
<1>5. ASSUME NEW r \in Requests PROVE RequestInv(r)'
  BY <1>1, RequestKept DEF IInv
<1>6. QED
  BY <1>4, <1>5 DEF IInv

\* Every step keeps the inductive invariant.
LEMMA StepIInv == IInv /\ [Next]_vars => IInv'
<1> SUFFICES ASSUME IInv, [Next]_vars PROVE IInv'
  OBVIOUS
<1>1. CASE \E r \in Requests : handle(r) \/ resourceForConsole(r) \/ refused(r)
  BY <1>1, HandleIInv, ResourceIInv, RefusedIInv
<1>2. CASE \E r \in Requests : runSqlite(r) \/ runContract(r) \/ runPostgres(r)
  BY <1>2, SqliteIInv, ContractIInv, PostgresIInv
<1>3. CASE \E r \in Requests : databaseEnds(r) \/ settles(r) \/ withTimeout(r) \/ audit(r)
  BY <1>3, EndsIInv, SettlesIInv, TimeoutIInv, AuditIInv
<1>4. CASE crash \/ provision \/ delete
  BY <1>4, CrashIInv, ResourceChangesIInv
<1>5. CASE UNCHANGED vars
  <2>1. TypeOK'
    BY <1>5 DEF IInv, vars, TypeOK
  <2>2. ASSUME NEW r \in Requests PROVE RequestInv(r)'
    BY <1>5, RequestKept DEF IInv, vars
  <2>3. QED
    BY <2>1, <2>2 DEF IInv
<1>6. QED
  BY <1>1, <1>2, <1>3, <1>4, <1>5 DEF Next

\* The inductive invariant holds in every reachable state.
LEMMA Invariance == Spec => []IInv
BY InitIInv, StepIInv, PTL DEF Spec

\* Whoever changed a database through the console had confirmed a write and had
\* the permission, or had called a PRAGMA on a SQLite file, which is taken for
\* reading; and changed the database whose connection it had opened.  Elsewhere
\* guardDatabaseQuery and the READ ONLY transaction cover for each other, also
\* when the statement ends after its timer, a crash or the deletion of its
\* resource.
THEOREM WritesAreAllowed == Spec => []ChangesWereAllowed
<1>1. IInv => ChangesWereAllowed
  BY DEF IInv, ChangesWereAllowed, HasChanged, RequestInv, ChangeInv, MayWrite, Slips, Where, Stores
<1>2. QED
  BY <1>1, Invariance, PTL

\* What the console answers is what happened, and stays so.
THEOREM AnswersHold == Spec => []AnswersAreTrue
<1>1. ASSUME IInv, NEW r \in Requests
      PROVE  /\ answer[r] = "ok" /\ req[r].op \in {"query", "command"} => r \in auditLogs
             /\ answer[r] = "ok" /\ result[r] = "changed" /\ req[r].statement = "write" =>
                   kind = "sqliteMemory" \/ Cardinality(HasChanged(r)) = 1
             /\ result[r] = "contract" \/ answer[r] \in {"refused", "notFound"} =>
                   HasChanged(r) = {}
             /\ HasChanged(r) # {} /\ r \notin auditLogs =>
                   answer[r] \in {"none", "failed", "timedOut", "lost"}
  <2>1. TypeOK /\ RequestInv(r)
    BY <1>1 DEF IInv
  <2>2. answer[r] = "ok" /\ req[r].op \in {"query", "command"} => r \in auditLogs
    BY <2>1 DEF RequestInv, AnswerInv
  <2>3. ASSUME result[r] = "changed", req[r].statement = "write", kind # "sqliteMemory"
        PROVE  Cardinality(HasChanged(r)) = 1
    <3>1. Where(r) \in Stores /\ r \in changedBy[Where(r)]
      BY <2>1, <2>3 DEF RequestInv, AnswerInv
    <3>2. HasChanged(r) = {Where(r)}
      BY <2>1, <3>1 DEF RequestInv, ChangeInv, HasChanged, Stores
    <3>3. QED
      BY <3>2, FS_Singleton
  <2>4. result[r] = "contract" \/ answer[r] \in {"refused", "notFound"} => HasChanged(r) = {}
    BY <2>1 DEF RequestInv, AnswerInv, HasChanged, Stores
  <2>5. ASSUME HasChanged(r) # {} PROVE req[r].op \in {"query", "command"}
    <3>1. ~isReadOnlyDatabaseQuery(req[r].statement) \/ req[r].statement = "pragmaCall"
      BY <2>1, <2>5 DEF RequestInv, ChangeInv, MayWrite, Slips, HasChanged, Stores
    <3>2. req[r] \in Inputs \cup {Idle}
      BY <2>1 DEF TypeOK
    <3>3. QED
      BY <3>1, <3>2 DEF Idle, isReadOnlyDatabaseQuery
  <2>6. answer[r] \in {"none", "ok", "refused", "notFound", "failed", "timedOut", "lost"}
    BY <2>1 DEF TypeOK
  <2>7. QED
    BY <2>2, <2>3, <2>4, <2>5, <2>6
<1>2. IInv => AnswersAreTrue
  BY <1>1 DEF AnswersAreTrue
<1>3. QED
  BY <1>2, Invariance, PTL
================================================================================
