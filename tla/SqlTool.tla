------------------------------ MODULE SqlTool ------------------------------
(***************************************************************************)
(* The sql and db tools on the pools of the database registry:             *)
(* tools/tool_sql.go, tool_db*.go, the introspection of sqlq/catalog.go    *)
(* and dbconn.BeginReadOnly, one handler goroutine per request, under the  *)
(* context that RunRemote hands them.  The databases are changed by others *)
(* meanwhile.                                                              *)
(*                                                                         *)
(* What a statement means is the subject of module Sqlq: here a query reads*)
(* one column of its FROM table, and the rows of that table, numbered from *)
(* 1, stand for the rows it selects.  database/sql, the drivers and the    *)
(* databases are external.  Every statement reads the database as it is    *)
(* when it is executed: BeginTx asks for no isolation level, and           *)
(* PostgreSQL's default gives each statement a snapshot of its own.        *)
(***************************************************************************)
EXTENDS Integers, Sequences, FiniteSets

CONSTANTS
  Handlers,      \* requests, each served by a goroutine of its own
  Requests,      \* what the client of each handler may ask, see ReqOK
  Aliases,       \* the aliases of the registry
  Lower,         \* strings.ToLower on the aliases clients may write
  Postgres,      \* the aliases whose engine is PostgreSQL
  MaxOpenConns,  \* connections of one pool
  DefaultLimit,  \* sqlDefaultLimit
  MaxLimit,      \* sqlMaxLimit
  MaxOutput,     \* the number of rows, names or columns that fit --max-output
  Tables,        \* table names
  Contents,      \* what a table may hold, Absent included
  InitialDB,     \* the databases at the start
  MaxChanges     \* bound on the changes others make to the databases

\* A table that does not exist has no columns.
Absent == [cols |-> {}, rows |-> 0]

\* q.Limit = nil.
NoLimit == -1

ReqOK(r) ==
  /\ r.tool \in {"sql", "db-tables", "db-schema", "db-list"}
  /\ r.db \in DOMAIN Lower
  /\ r.valid \in BOOLEAN
  /\ r.limit \in Nat \cup {NoLimit}
  /\ r.tables \in Seq(Tables)
  /\ r.tool \in {"sql", "db-schema"} => r.tables # << >>

ASSUME PoolAssumption ==
  /\ MaxOpenConns \in Nat \ {0}
  /\ IsFiniteSet(Handlers)
  /\ Postgres \subseteq Aliases
  /\ \A h \in Handlers : \A r \in Requests[h] : ReqOK(r)

ASSUME LimitAssumption ==
  /\ DefaultLimit \in Nat
  /\ MaxLimit \in Nat
  /\ DefaultLimit <= MaxLimit
  /\ MaxOutput \in Nat

ASSUME ContentAssumption ==
  /\ InitialDB \in [Aliases -> [Tables -> Contents]]
  /\ Absent \in Contents
  /\ IsFiniteSet(Tables)
  /\ \A c \in Contents : IsFiniteSet(c.cols) /\ c.rows \in Nat

VARIABLES
  timeout,  \* whether --timeout is positive
  down,     \* whether the context of the server is cancelled
  db,       \* the content of every database
  changes,  \* how often it was changed
  pc,       \* where each handler is
  req,      \* its request
  ended,    \* whether its own context (deadline, deferred cancel) is over
  tx,       \* its transaction: "none", "open" (it has a connection), "done"
  todo,     \* the statements it has still to run
  rows,     \* the open result set
  known,    \* tableSet of Resolve
  cols,     \* the columns bound so far
  answer,   \* its Result or error
  seen      \* history: the contents of its database since BeginTx

ctxVars == <<timeout, down>>
dbVars == <<db, changes>>
vars == <<ctxVars, dbVars, pc, req, ended, tx, todo, rows, known, cols, answer, seen>>

NoAnswer == [ok |-> FALSE, why |-> "", data |-> {}, truncated |-> FALSE]
Failure(w) == [NoAnswer EXCEPT !.why = w]

Init ==
  /\ timeout \in BOOLEAN
  /\ down = FALSE
  /\ db = InitialDB
  /\ changes = 0
  /\ pc = [h \in Handlers |-> "idle"]
  /\ req \in {q \in [Handlers -> UNION {Requests[h] : h \in Handlers}] :
                \A h \in Handlers : q[h] \in Requests[h]}
  /\ ended = [h \in Handlers |-> FALSE]
  /\ tx = [h \in Handlers |-> "none"]
  /\ todo = [h \in Handlers |-> << >>]
  /\ rows = [h \in Handlers |-> {}]
  /\ known = [h \in Handlers |-> {}]
  /\ cols = [h \in Handlers |-> {}]
  /\ answer = [h \in Handlers |-> NoAnswer]
  /\ seen = [h \in Handlers |-> {}]

-----------------------------------------------------------------------------
(***************************************************************************)
(* Contexts, pools, statements.                                            *)
(***************************************************************************)

CtxDone(h) == ended[h] \/ down

\* The alias that dbLookup finds.
Alias(h) == Lower[req[h].db]

DbLookup(r) == Aliases # {} /\ Lower[r.db] \in Aliases

\* The handlers whose connection is out of the pool of alias a.
InUse(a) == {h \in Handlers : tx[h] = "open" /\ Alias(h) = a}

MutantApplyRowLimit(l) ==
  IF l = NoLimit THEN [limit |-> DefaultLimit, imposed |-> TRUE]
  ELSE [limit |-> IF l > MaxLimit THEN MaxLimit ELSE l, imposed |-> FALSE]

\* The effective row limit, and whether the server imposed it.
ApplyRowLimit(l) ==
  IF l = NoLimit THEN [limit |-> DefaultLimit, imposed |-> TRUE]
  ELSE IF l > MaxLimit THEN [limit |-> MaxLimit, imposed |-> TRUE]
  ELSE [limit |-> l, imposed |-> FALSE]

ListTables == [op |-> "tables"]
DescribeTable(t) == [op |-> "describe", table |-> t]
Query == [op |-> "query"]

\* The statements that the request r takes, in their order: Resolve lists the
\* tables and describes each table of the query, all before the query itself.
Statements(r) ==
  CASE r.tool = "db-tables" -> <<ListTables>>
    [] r.tool = "db-schema" -> <<DescribeTable(r.tables[1])>>
    [] r.tool = "sql" ->
         <<ListTables>> \o [i \in 1..Len(r.tables) |-> DescribeTable(r.tables[i])]
                        \o <<Query>>
    [] OTHER -> << >>

TableNames(d) == {t \in Tables : d[t].cols # {}}

\* The database accepts the query: its tables exist, and one has its column.
Accepts(d, r) ==
  /\ \A i \in 1..Len(r.tables) : r.tables[i] \in TableNames(d)
  /\ \E i \in 1..Len(r.tables) : r.column \in d[r.tables[i]].cols

\* The rows of the query; the builder leaves LIMIT 0 out of the statement.
Selected(d, r) ==
  LET lim == ApplyRowLimit(r.limit).limit
      n == d[r.tables[1]].rows
  IN 1..(IF lim > 0 /\ lim < n THEN lim ELSE n)

ResultOf(s, d, r) ==
  CASE s.op = "tables" -> TableNames(d)
    [] s.op = "describe" -> d[s.table].cols
    [] s.op = "query" -> Selected(d, r)

-----------------------------------------------------------------------------
(***************************************************************************)
(* Steps of a handler.                                                     *)
(***************************************************************************)

\* The handler returns a: rows.Close and tx.Rollback are deferred, and so is
\* the cancel of RunRemote where there is a timeout. Its local state is gone.
Return(h, a) ==
  /\ pc' = [pc EXCEPT ![h] = "returned"]
  /\ answer' = [answer EXCEPT ![h] = a]
  /\ todo' = [todo EXCEPT ![h] = << >>]
  /\ rows' = [rows EXCEPT ![h] = {}]
  /\ known' = [known EXCEPT ![h] = {}]
  /\ cols' = [cols EXCEPT ![h] = {}]
  /\ tx' = [tx EXCEPT ![h] = IF @ = "open" THEN "done" ELSE @]
  /\ ended' = [ended EXCEPT ![h] = @ \/ timeout]
  /\ UNCHANGED <<ctxVars, dbVars, req, seen>>

\* capOutput: as much of the rendered text as fits.
CapOutput(data) ==
  IF Cardinality(data) <= MaxOutput THEN data
  ELSE CHOOSE d \in SUBSET data : Cardinality(d) = MaxOutput

Result(data, rowTrunc) ==
  [ok |-> TRUE, why |-> "", data |-> CapOutput(data),
   truncated |-> rowTrunc \/ Cardinality(data) > MaxOutput]

\* db-list answers from the registry.
DbListAnswers(h) ==
  /\ req[h].tool = "db-list"
  /\ Return(h, Result(Aliases, FALSE))

\* RunRemote calls Remote. Arguments that do not decode, a query that does not
\* parse, a name that is no identifier and an unknown alias are refused without a
\* connection.
Start(h) ==
  LET r == req[h] IN
  /\ pc[h] = "idle"
  /\ \/ r.valid /\ DbListAnswers(h)
     \/ /\ ~r.valid \/ (r.tool # "db-list" /\ ~DbLookup(r))
        /\ Return(h, Failure("refused"))
     \/ /\ r.valid
        /\ r.tool # "db-list"
        /\ DbLookup(r)
        /\ pc' = [pc EXCEPT ![h] = "begin"]
        /\ todo' = [todo EXCEPT ![h] = Statements(r)]
        /\ UNCHANGED <<ctxVars, dbVars, req, ended, tx, rows, known, cols, answer, seen>>

\* BeginTx gets a connection, an idle or a new one.
Begin(h) ==
  /\ pc[h] = "begin"
  /\ ~CtxDone(h)
  /\ Cardinality(InUse(Alias(h))) < MaxOpenConns
  /\ tx' = [tx EXCEPT ![h] = "open"]
  /\ seen' = [seen EXCEPT ![h] = {db[Alias(h)]}]
  /\ pc' = [pc EXCEPT ![h] = IF timeout /\ Alias(h) \in Postgres THEN "setlocal" ELSE "exec"]
  /\ UNCHANGED <<ctxVars, dbVars, req, ended, todo, rows, known, cols, answer>>

\* SET LOCAL statement_timeout.
SetLocal(h) ==
  /\ pc[h] = "setlocal"
  /\ tx[h] = "open"
  /\ pc' = [pc EXCEPT ![h] = "exec"]
  /\ UNCHANGED <<ctxVars, dbVars, req, ended, tx, todo, rows, known, cols, answer, seen>>

MutantSetLocalFails(h) ==
  /\ pc[h] = "setlocal"
  /\ pc' = [pc EXCEPT ![h] = "returned"]
  /\ answer' = [answer EXCEPT ![h] = Failure("database")]
  /\ ended' = [ended EXCEPT ![h] = TRUE]
  /\ UNCHANGED <<ctxVars, dbVars, req, tx, todo, rows, known, cols, seen>>

\* SET LOCAL fails: BeginReadOnly rolls the transaction back, for the caller
\* has not got it.
SetLocalFails(h) ==
  /\ pc[h] = "setlocal"
  /\ Return(h, Failure("database"))

MutantExecute(h) ==
  LET s == Head(todo[h])
      d == db[Alias(h)]
  IN
  /\ pc[h] = "exec"
  /\ tx[h] = "open"
  /\ s.op = "query" => Accepts(d, req[h])
  /\ s.op # "query" => Cardinality(InUse(Alias(h))) < MaxOpenConns
  /\ rows' = [rows EXCEPT ![h] = ResultOf(s, d, req[h])]
  /\ pc' = [pc EXCEPT ![h] = "scan"]
  /\ UNCHANGED <<ctxVars, dbVars, req, ended, tx, todo, known, cols, answer, seen>>

\* QueryContext of the next statement, on the connection of the transaction: the
\* database executes it, or refuses a query that no longer fits its tables.
Execute(h) ==
  LET s == Head(todo[h])
      d == db[Alias(h)]
  IN
  /\ pc[h] = "exec"
  /\ tx[h] = "open"
  /\ \/ /\ s.op = "query" => Accepts(d, req[h])
        /\ rows' = [rows EXCEPT ![h] = ResultOf(s, d, req[h])]
        /\ pc' = [pc EXCEPT ![h] = "scan"]
        /\ UNCHANGED <<ctxVars, dbVars, req, ended, tx, todo, known, cols, answer, seen>>
     \/ /\ s.op = "query"
        /\ ~Accepts(d, req[h])
        /\ Return(h, Failure("database"))

\* BeginTx or QueryContext fails: the database is gone, or the transaction over.
StatementFails(h) ==
  /\ pc[h] \in {"begin", "exec"}
  /\ Return(h, Failure("database"))

\* What the loop over rows.Next can have read when it ends, with rows.Err: all
\* rows, if no one has closed them, or some, and an error.
Iterations(h) ==
  {[data |-> d, err |-> TRUE] : d \in SUBSET rows[h]}
    \cup (IF tx[h] = "open" THEN {[data |-> rows[h], err |-> FALSE]} ELSE {})

MutantRowsErr(it) == FALSE

\* The check of rows.Err behind each of the three loops.
RowsErr(it) == it.err

\* The next table that Resolve binds, if any.
NextBind(rest) == IF rest # << >> /\ Head(rest).op = "describe" THEN {Head(rest).table} ELSE {}

\* Resolve goes on to the next statement, unless a table or the column of the
\* query is not in what the catalog has told.
Proceed(h, tableSet, bound) ==
  LET rest == Tail(todo[h]) IN
  \/ /\ ~(NextBind(rest) \subseteq tableSet)
     /\ Return(h, Failure("unknown table"))
  \/ /\ rest = <<Query>>
     /\ req[h].column \notin bound
     /\ Return(h, Failure("unknown column"))
  \/ /\ NextBind(rest) \subseteq tableSet
     /\ rest = <<Query>> => req[h].column \in bound
     /\ known' = [known EXCEPT ![h] = tableSet]
     /\ cols' = [cols EXCEPT ![h] = bound]
     /\ todo' = [todo EXCEPT ![h] = rest]
     /\ rows' = [rows EXCEPT ![h] = {}]
     /\ pc' = [pc EXCEPT ![h] = "exec"]
     /\ UNCHANGED <<ctxVars, dbVars, req, ended, tx, answer, seen>>

\* rowTrunc of the sql tool.
RowTrunc(r, data) ==
  LET lim == ApplyRowLimit(r.limit) IN lim.imposed /\ Cardinality(data) >= lim.limit

\* The end of db-tables: an empty database has an empty list.
DbTablesAnswers(h, data) ==
  /\ req[h].tool = "db-tables"
  /\ Return(h, Result(data, FALSE))

\* The end of db-schema: a table without columns is none.
DbSchemaAnswers(h, data) ==
  /\ req[h].tool = "db-schema"
  /\ Return(h, IF data = {} THEN Failure("unknown table") ELSE Result(data, FALSE))

\* The sql tool behind a statement of Resolve, and behind the query.
SqlGoesOn(h, data) ==
  LET op == Head(todo[h]).op IN
  /\ req[h].tool = "sql"
  /\ \/ op = "tables" /\ Proceed(h, data, {})
     \/ op = "describe" /\ Proceed(h, known[h], cols[h] \cup data)
     \/ op = "query" /\ Return(h, Result(data, RowTrunc(req[h], data)))

\* The handler has read data and goes on by its tool.
Read(h, data) ==
  \/ DbTablesAnswers(h, data)
  \/ DbSchemaAnswers(h, data)
  \/ SqlGoesOn(h, data)

\* The loop over the rows of a statement: scanRows, ListTables, DescribeTable.
Scan(h) ==
  /\ pc[h] = "scan"
  /\ \E it \in Iterations(h) :
       \/ RowsErr(it) /\ Return(h, Failure("database"))
       \/ ~RowsErr(it) /\ Read(h, it.data)

\* A wait for a connection or for the database ends with the context.
Interrupted(h) ==
  /\ pc[h] \in {"begin", "setlocal", "exec", "scan"}
  /\ CtxDone(h)
  /\ Return(h, Failure("context"))

-----------------------------------------------------------------------------
(***************************************************************************)
(* Steps of others.                                                        *)
(***************************************************************************)

\* The deadline of RunRemote passes.
Expire(h) ==
  /\ timeout
  /\ pc[h] \notin {"idle", "returned"}
  /\ ~ended[h]
  /\ ended' = [ended EXCEPT ![h] = TRUE]
  /\ UNCHANGED <<ctxVars, dbVars, pc, req, tx, todo, rows, known, cols, answer, seen>>

\* The server shuts down.
Shutdown ==
  /\ ~down
  /\ down' = TRUE
  /\ UNCHANGED <<timeout, dbVars, pc, req, ended, tx, todo, rows, known, cols, answer, seen>>

\* database/sql rolls a transaction back by itself when its context is over.
AwaitDone(h) ==
  /\ tx[h] = "open"
  /\ CtxDone(h)
  /\ tx' = [tx EXCEPT ![h] = "done"]
  /\ UNCHANGED <<ctxVars, dbVars, pc, req, ended, todo, rows, known, cols, answer, seen>>

\* Others create, drop, alter or fill a table.
HostChanges ==
  /\ changes < MaxChanges
  /\ \E a \in Aliases, t \in Tables, c \in Contents :
       /\ c # db[a][t]
       /\ db' = [db EXCEPT ![a][t] = c]
       /\ seen' = [h \in Handlers |->
                     IF h \in InUse(a) THEN seen[h] \cup {db'[a]} ELSE seen[h]]
  /\ changes' = changes + 1
  /\ UNCHANGED <<ctxVars, pc, req, ended, tx, todo, rows, known, cols, answer>>

\* The database answers.
DatabaseStep(h) ==
  \/ Begin(h)
  \/ SetLocal(h)
  \/ Execute(h)
  \/ Scan(h)

HandlerStep(h) ==
  \/ Start(h)
  \/ DatabaseStep(h)
  \/ SetLocalFails(h)
  \/ StatementFails(h)
  \/ Interrupted(h)
  \/ Expire(h)
  \/ AwaitDone(h)

AllReturned ==
  /\ \A h \in Handlers : pc[h] = "returned"
  /\ UNCHANGED vars

Next ==
  \/ \E h \in Handlers : HandlerStep(h)
  \/ Shutdown
  \/ HostChanges
  \/ AllReturned

Spec == Init /\ [][Next]_vars

(***************************************************************************)
(* Timers fire and goroutines that can run do.  A database owes an answer  *)
(* only if there is no timeout: with one it may stay silent for ever, and  *)
(* the drivers return when the context is over.                            *)
(***************************************************************************)
Fairness ==
  \A h \in Handlers :
    /\ WF_vars(Interrupted(h))
    /\ WF_vars(Expire(h))
    /\ WF_vars(AwaitDone(h))
    /\ WF_vars(~timeout /\ DatabaseStep(h))

FairSpec == Spec /\ Fairness

-----------------------------------------------------------------------------
(***************************************************************************)
(* Properties.                                                             *)
(***************************************************************************)

\* The handlers, their contexts and transactions, and the databases keep their types.
TypeOK ==
  /\ timeout \in BOOLEAN
  /\ down \in BOOLEAN
  /\ db \in [Aliases -> [Tables -> Contents]]
  /\ changes \in Nat
  /\ pc \in [Handlers -> {"idle", "begin", "setlocal", "exec", "scan", "returned"}]
  /\ \A h \in Handlers : req[h] \in Requests[h]
  /\ ended \in [Handlers -> BOOLEAN]
  /\ tx \in [Handlers -> {"none", "open", "done"}]

\* A connection is away from its pool only while a handler that has begun and not
\* returned uses it, also when SET LOCAL fails behind a successful BeginTx
\* (dbconn.go:78-95), and the pool never hands out more than it has.
ConnectionsReturned ==
  /\ \A h \in Handlers : tx[h] = "open" => pc[h] \in {"setlocal", "exec", "scan"}
  /\ \A a \in Aliases : Cardinality(InUse(a)) <= MaxOpenConns

\* What the client asked of a database with content d: all there is, or as many
\* rows as it wanted itself.
Wanted(r, limit, d) ==
  CASE r.tool = "db-tables" -> TableNames(d)
    [] r.tool = "db-schema" -> d[r.tables[1]].cols
    [] r.tool = "sql" ->
         {i \in 1..d[r.tables[1]].rows : limit = NoLimit \/ i <= limit}

\* The answer a to the request r is true of a database with that history of contents.
TrueOf(a, r, history) ==
  /\ a.ok /\ r.tool # "db-list" =>
       \E d \in history :
         /\ a.data \subseteq Wanted(r, NoLimit, d)
         /\ Wanted(r, r.limit, d) \subseteq a.data \/ a.truncated
  /\ a.why = "unknown table" =>
       \E i \in 1..Len(r.tables) : \E d \in history : r.tables[i] \notin TableNames(d)
  /\ a.why = "unknown column" =>
       \A i \in 1..Len(r.tables) : \E d \in history : r.column \notin d[r.tables[i]].cols

\* A result is true of the database as it was at one moment of the transaction:
\* it invents nothing, and without the truncation mark nothing that was asked for
\* is missing, whatever was cancelled or failed halfway (tool_sql.go:97-144,
\* tool_db.go:37-61, catalog.go:349-437). "unknown table" and "unknown column"
\* are said only of what was missing at some moment.
AnswersTrue == \A h \in Handlers : TrueOf(answer[h], req[h], seen[h])

\* Every request comes to an end: with a timeout even if the database never
\* answers, without one if it does, also when more handlers than connections
\* are at work (dbconn.go:165).
HandlersReturn ==
  \A h \in Handlers : pc[h] = "begin" ~> pc[h] = "returned"
=============================================================================
