-------------------------------- MODULE Console --------------------------------
(***************************************************************************)
(* The database console.  A request passes the permission of its route,    *)
(* looks the resource up, reads the sealed connection of its provider,     *)
(* passes the guard of its engine and runs: on a SQLite file, on a live    *)
(* PostgreSQL database, or against a contract that executes nothing.  Only *)
(* then is it written to the audit log.  Between these steps others        *)
(* provision or delete the resource, a statement outlives the timer that   *)
(* gave up on it, the audit log fails, the process dies.                   *)
(*                                                                         *)
(* A statement is known by its class, a database by who changed it.        *)
(* Row limits, result trimming and masking, which cut what is shown, and   *)
(* the projects of the resources (module ApiServer) are left out.          *)
(***************************************************************************)
EXTENDS Integers, FiniteSets

CONSTANTS
    Requests,     \* requests to the console
    Inputs,       \* what a request may be: records [op, role, statement, confirmed]
    Databases,    \* databases a provider may hand out
    Kinds,        \* kinds of resources to look at
    MaxChanges,   \* bound on provisioning and deletion
    MaxFaults,    \* bound on failures of audit log, process and disconnecting
    None

VARIABLES
    kind,       \* the engine of the resource, and where a SQLite database lives
    exists,     \* the row of the resource
    secret,     \* its provider connection: None, "contract" or a live database
    req,        \* the input of each request
    pc, conn,   \* where a request is, and the connection it read
    answer, result,
    atServer,   \* the statement at the server: "none", "sent", "committed", "failed"
    changedBy,  \* who changed each database
    auditLogs,  \* whose run is in the audit log
    changes, faults

vars == <<kind, exists, secret, req, pc, conn, answer, result, atServer, changedBy, auditLogs,
          changes, faults>>

Ops == {"query", "command", "browse", "view", "table"}
Statements == {"select", "selectCalling", "locking", "write", "selectThen", "pragma",
               "pragmaSet", "pragmaCall", "attach", "empty"}
AllKinds == {"postgresql", "sqliteFile", "sqliteMemory", "mysql", "redis"}

\* A file of SQLite is the resource's own database.
File == "file"

\* Only queries and commands carry a statement of the caller's: a table is read
\* with a SELECT over its quoted name, views and browsing ask the catalogue.
ASSUME InputsAssumption ==
    \A input \in Inputs :
        /\ input.op \in Ops /\ input.statement \in Statements
        /\ input.op \notin {"query", "command"} => input.statement = "select"
ASSUME DatabasesAssumption == Databases \cap {None, "contract", File} = {}

--------------------------------------------------------------------------------
(***************************************************************************)
(* Guards                                                                  *)
(***************************************************************************)

\* The permissions of a role that concern the console, with those they imply.
Permissions(role) ==
    CASE role = "dbAdmin"    -> {"db:schema:read", "db:data:read", "db:query:write"}
      [] role = "maintainer" -> {"db:schema:read", "db:data:read"}
      [] role = "developer"  -> {"db:schema:read"}
      [] OTHER               -> {}

RoutePermission(op) ==
    CASE op = "command" -> "db:query:write"
      [] op = "view"    -> "db:schema:read"
      [] OTHER          -> "db:data:read"

\* One SELECT without FOR UPDATE or INTO, a PRAGMA without a "=".  A SELECT may
\* still call a function that writes, and a PRAGMA that is called rather than
\* assigned may change the file: PRAGMA user_version(5), PRAGMA optimize.
isReadOnlyDatabaseQuery(s) == s \in {"select", "selectCalling", "pragma", "pragmaCall"}

\* A reading verb, and no writing verb anywhere; PRAGMA is not among them.
isProviderReadOnly(s) == s \in {"select", "selectCalling"}

Guarded(input, readOnly) ==
    /\ input.statement # "empty"
    /\ readOnly => "db:data:read" \in Permissions(input.role)
    /\ ~readOnly => "db:query:write" \in Permissions(input.role) /\ input.confirmed

guardDatabaseQuery(input) == Guarded(input, isReadOnlyDatabaseQuery(input.statement))
guardProviderCommand(input) == Guarded(input, isProviderReadOnly(input.statement))

\* The guards a statement passes for each engine, and SQLite's own list.  Views
\* and browsing have no statement of the caller's.
assertSqliteStatementAllowed(input) == input.statement # "attach"
Allowed(input) ==
    CASE input.op \in {"browse", "view"} -> TRUE
      [] kind = "postgresql" -> guardDatabaseQuery(input)
      [] kind \in {"sqliteFile", "sqliteMemory"} ->
             guardDatabaseQuery(input) /\ assertSqliteStatementAllowed(input)
      [] kind = "mysql" -> guardProviderCommand(input) /\ guardDatabaseQuery(input)
      [] OTHER -> guardProviderCommand(input)

\* What statements do where they run; a "write" commits what it writes.  Of a text
\* that starts with SELECT or PRAGMA SQLite prepares the first statement, and
\* answers with rows.
SqliteFails(s) == s = "locking"
SqliteChanges(s) == s \in {"write", "pragmaSet", "pragmaCall"}
PostgresFails(s) == s \in {"selectThen", "pragma", "pragmaSet", "pragmaCall", "attach"}
PostgresChanges(s) == s \in {"write", "selectCalling"}

--------------------------------------------------------------------------------
Idle == [op |-> "query", role |-> None, statement |-> "empty", confirmed |-> FALSE]

TypeOK ==
    /\ kind \in Kinds /\ exists \in BOOLEAN
    /\ secret \in Databases \cup {None, "contract"}
    /\ req \in [Requests -> Inputs \cup {Idle}]
    /\ pc \in [Requests -> {"idle", "handler", "console", "executing", "audit", "done"}]
    /\ conn \in [Requests -> Databases \cup {None, "contract"}]
    /\ answer \in [Requests -> {"none", "ok", "refused", "notFound", "failed", "timedOut", "lost"}]
    /\ result \in [Requests -> {"none", "rows", "changed", "contract"}]
    /\ atServer \in [Requests -> {"none", "sent", "committed", "failed"}]
    /\ changedBy \in [Databases \cup {File} -> SUBSET Requests]
    /\ auditLogs \subseteq Requests

Init ==
    /\ kind \in Kinds /\ exists = TRUE
    /\ secret \in Databases \cup {None, "contract"}
    /\ req = [r \in Requests |-> Idle]
    /\ pc = [r \in Requests |-> "idle"]
    /\ conn = [r \in Requests |-> None]
    /\ answer = [r \in Requests |-> "none"]
    /\ result = [r \in Requests |-> "none"]
    /\ atServer = [r \in Requests |-> "none"]
    /\ changedBy = [d \in Databases \cup {File} |-> {}]
    /\ auditLogs = {}
    /\ changes = 0 /\ faults = 0

\* The request ends with an answer.
Tell(r, a) ==
    /\ pc' = [pc EXCEPT ![r] = "done"]
    /\ answer' = [answer EXCEPT ![r] = a]

\* Queries and commands go to the audit log first, views and browsing do not.
Finish(r, res) ==
    /\ result' = [result EXCEPT ![r] = res]
    /\ IF req[r].op \in {"query", "command"}
       THEN pc' = [pc EXCEPT ![r] = "audit"] /\ UNCHANGED answer
       ELSE Tell(r, "ok")

Changed(d, r) == changedBy' = [changedBy EXCEPT ![d] = @ \cup {r}]

--------------------------------------------------------------------------------
(***************************************************************************)
(* A request                                                               *)
(***************************************************************************)

\* The route: permission, then the resource.
handle(r) ==
    /\ pc[r] = "idle"
    /\ \E input \in Inputs :
          /\ req' = [req EXCEPT ![r] = input]
          /\ \/ /\ RoutePermission(input.op) \notin Permissions(input.role)
                /\ Tell(r, "refused")
             \/ /\ RoutePermission(input.op) \in Permissions(input.role) /\ ~exists
                /\ Tell(r, "notFound")
             \/ /\ RoutePermission(input.op) \in Permissions(input.role) /\ exists
                /\ pc' = [pc EXCEPT ![r] = "handler"] /\ UNCHANGED answer
    /\ UNCHANGED <<kind, exists, secret, conn, result, atServer, changedBy, auditLogs, changes,
                   faults>>

\* runResourceConsoleQuery and its sisters look the resource up again, then
\* resourceForConsole opens the sealed connection.
resourceForConsole(r) ==
    /\ pc[r] = "handler"
    /\ \/ ~exists /\ Tell(r, "notFound") /\ UNCHANGED conn
       \/ /\ exists
          /\ pc' = [pc EXCEPT ![r] = "console"]
          /\ conn' = [conn EXCEPT ![r] = secret]
          /\ UNCHANGED answer
    /\ UNCHANGED <<kind, exists, secret, req, result, atServer, changedBy, auditLogs, changes,
                   faults>>

Runs(r) == pc[r] = "console" /\ Allowed(req[r])
Executes(r) == kind = "postgresql" /\ conn[r] \in Databases

\* throwGuard
refused(r) ==
    /\ pc[r] = "console" /\ ~Allowed(req[r])
    /\ Tell(r, "refused")
    /\ UNCHANGED <<kind, exists, secret, req, conn, result, atServer, changedBy, auditLogs,
                   changes, faults>>

\* runSqlite: opened, run and closed without giving way.  A database in memory
\* goes with it.  A writing text of several statements may stop part-way (db.exec).
runSqlite(r) ==
    /\ Runs(r) /\ kind \in {"sqliteFile", "sqliteMemory"}
    /\ \/ /\ ~SqliteFails(req[r].statement)
          /\ Finish(r, IF req[r].statement = "write" THEN "changed" ELSE "rows")
          /\ IF SqliteChanges(req[r].statement) /\ kind = "sqliteFile"
             THEN Changed(File, r) ELSE UNCHANGED changedBy
       \/ Tell(r, "failed") /\ UNCHANGED <<result, changedBy>>
       \/ /\ req[r].statement = "write" /\ kind = "sqliteFile"
          /\ Tell(r, "failed") /\ Changed(File, r) /\ UNCHANGED result
    /\ UNCHANGED <<kind, exists, secret, req, conn, atServer, auditLogs, changes, faults>>

\* The contracts answer from the desired state; PostgreSQL without a live
\* connection says that it needs one.
runContract(r) ==
    /\ Runs(r) /\ kind \notin {"sqliteFile", "sqliteMemory"} /\ ~Executes(r)
    /\ Finish(r, "contract")
    /\ UNCHANGED <<kind, exists, secret, req, conn, atServer, changedBy, auditLogs, changes, faults>>

\* runPostgres hands the statement over.
runPostgres(r) ==
    /\ Runs(r) /\ Executes(r)
    /\ pc' = [pc EXCEPT ![r] = "executing"]
    /\ atServer' = [atServer EXCEPT ![r] = "sent"]
    /\ UNCHANGED <<kind, exists, secret, req, conn, answer, result, changedBy, auditLogs, changes,
                   faults>>

\* Variant: read-only statements run like the others.
queryPostgresReadOnlyNot(r) == FALSE

\* queryPostgresReadOnly: these run in a READ ONLY transaction.
queryPostgresReadOnly(r) == isReadOnlyDatabaseQuery(req[r].statement)

\* The server ends the statement, whether or not anybody waits for it; it refuses
\* to write in a READ ONLY transaction.
databaseEnds(r) ==
    /\ atServer[r] = "sent"
    /\ \/ /\ ~PostgresFails(req[r].statement)
          /\ ~(queryPostgresReadOnly(r) /\ PostgresChanges(req[r].statement))
          /\ atServer' = [atServer EXCEPT ![r] = "committed"]
          /\ IF PostgresChanges(req[r].statement) THEN Changed(conn[r], r) ELSE UNCHANGED changedBy
       \/ /\ atServer' = [atServer EXCEPT ![r] = "failed"]
          /\ UNCHANGED changedBy
    /\ UNCHANGED <<kind, exists, secret, req, pc, conn, answer, result, auditLogs, changes, faults>>

\* The promise of the statement settles first.  After a commit the $disconnect of
\* the finally block may still fail, and turns the answer into an error.
settles(r) ==
    /\ pc[r] = "executing"
    /\ \/ /\ atServer[r] = "committed"
          /\ Finish(r, IF isReadOnlyDatabaseQuery(req[r].statement) THEN "rows" ELSE "changed")
          /\ UNCHANGED faults
       \/ atServer[r] = "failed" /\ Tell(r, "failed") /\ UNCHANGED <<result, faults>>
       \/ /\ atServer[r] = "committed" /\ faults < MaxFaults /\ faults' = faults + 1
          /\ Tell(r, "failed") /\ UNCHANGED result
    /\ UNCHANGED <<kind, exists, secret, req, conn, atServer, changedBy, auditLogs, changes>>

\* Variant: the statement is let go and reported as done.
withTimeoutIgnored(r) ==
    /\ pc[r] = "executing"
    /\ Finish(r, IF isReadOnlyDatabaseQuery(req[r].statement) THEN "rows" ELSE "changed")
    /\ UNCHANGED <<kind, exists, secret, req, conn, atServer, changedBy, auditLogs, changes, faults>>

\* withTimeout: the timer rejects first; nobody cancels the statement.
withTimeout(r) ==
    /\ pc[r] = "executing"
    /\ Tell(r, "timedOut")
    /\ UNCHANGED <<kind, exists, secret, req, conn, result, atServer, changedBy, auditLogs,
                   changes, faults>>

\* The row of the audit log, then the answer.
audit(r) ==
    /\ pc[r] = "audit"
    /\ \/ auditLogs' = auditLogs \cup {r} /\ Tell(r, "ok") /\ UNCHANGED faults
       \/ /\ faults < MaxFaults /\ faults' = faults + 1
          /\ Tell(r, "failed") /\ UNCHANGED auditLogs
    /\ UNCHANGED <<kind, exists, secret, req, conn, result, atServer, changedBy, changes>>

--------------------------------------------------------------------------------
(***************************************************************************)
(* Meanwhile                                                               *)
(***************************************************************************)

\* The process dies; its callers are left without an answer, its statements go on.
crash ==
    /\ faults < MaxFaults /\ faults' = faults + 1
    /\ LET busy == {r \in Requests : pc[r] \notin {"idle", "done"}}
       IN /\ busy # {}
          /\ pc' = [r \in Requests |-> IF r \in busy THEN "done" ELSE pc[r]]
          /\ answer' = [r \in Requests |-> IF r \in busy THEN "lost" ELSE answer[r]]
    /\ UNCHANGED <<kind, exists, secret, req, conn, result, atServer, changedBy, auditLogs, changes>>

\* Provisioning replaces the connection, deletion takes row and secrets.
provision ==
    /\ exists /\ changes < MaxChanges /\ changes' = changes + 1
    /\ secret' \in (Databases \cup {"contract"}) \ {secret}
    /\ UNCHANGED <<kind, exists, req, pc, conn, answer, result, atServer, changedBy, auditLogs,
                   faults>>
delete ==
    /\ exists /\ changes < MaxChanges /\ changes' = changes + 1
    /\ exists' = FALSE /\ secret' = None
    /\ UNCHANGED <<kind, req, pc, conn, answer, result, atServer, changedBy, auditLogs, faults>>

Next ==
    \/ \E r \in Requests :
          \/ handle(r) \/ resourceForConsole(r) \/ refused(r)
          \/ runSqlite(r) \/ runContract(r) \/ runPostgres(r)
          \/ databaseEnds(r) \/ settles(r) \/ withTimeout(r) \/ audit(r)
    \/ crash \/ provision \/ delete

Spec == Init /\ [][Next]_vars

--------------------------------------------------------------------------------
(***************************************************************************)
(* Properties                                                              *)
(***************************************************************************)
HasChanged(r) == {d \in Databases \cup {File} : r \in changedBy[d]}

\* Whoever changed a database, however late the database ran the statement, had confirmed it
\* and may write, or used the gap of SQLite: a PRAGMA that changes the file by being called is
\* taken for reading (security.ts:402), so that whoever may read data may run it.  And the
\* database changed was the one whose connection the request had opened (db-console.ts:11,
\* :185, :343).
ChangesWereAllowed ==
    TypeOK /\ \A r \in Requests : \A d \in HasChanged(r) :
        /\ \/ /\ req[r].confirmed /\ "db:query:write" \in Permissions(req[r].role)
              /\ ~isReadOnlyDatabaseQuery(req[r].statement)
           \/ /\ kind = "sqliteFile" /\ req[r].statement = "pragmaCall"
              /\ "db:data:read" \in Permissions(req[r].role)
        /\ d = IF kind = "postgresql" THEN conn[r] ELSE File

\* What is answered is what happened, and stays so: a write reported as made was made, in one
\* database, and is in the audit log; a contract, a refusal or a missing resource means that
\* nothing was or will be changed; a change missing from the log was answered, if at all, with
\* an error.  Databases in memory, gone before the answer is given, are the exception.
AnswersAreTrue ==
    \A r \in Requests :
        /\ answer[r] = "ok" /\ req[r].op \in {"query", "command"} => r \in auditLogs
        /\ answer[r] = "ok" /\ result[r] = "changed" /\ req[r].statement = "write" =>
              kind = "sqliteMemory" \/ Cardinality(HasChanged(r)) = 1
        /\ result[r] = "contract" \/ answer[r] \in {"refused", "notFound"} => HasChanged(r) = {}
        /\ HasChanged(r) # {} /\ r \notin auditLogs =>
              answer[r] \in {"none", "failed", "timedOut", "lost"}
================================================================================
