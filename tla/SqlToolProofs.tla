--------------------------- MODULE SqlToolProofs ---------------------------
(***************************************************************************)
(* Proofs about the connections of the sql and db tools, for any number of *)
(* handlers, databases and connections, any requests and any content.      *)
(* PoolInv is inductive: only BeginTx takes a connection, and only for a   *)
(* handler that has none; every other step keeps the connections in use or *)
(* gives some back.                                                        *)
(***************************************************************************)
EXTENDS SqlTool, FunctionTheorems, FiniteSetTheorems, SequenceTheorems, TLAPS

-----------------------------------------------------------------------------
(***************************************************************************)
(* The inductive invariants.                                               *)
(***************************************************************************)

\* The inductive invariant behind ConnectionsReturned.
PoolInv == TypeOK /\ ConnectionsReturned

\* The statements before the k-th are done: the tables known are those of one
\* moment, and the columns bound include those that every described table had at
\* some moment.
Progress(h, k) ==
  LET all == Statements(req[h]) IN
  /\ todo[h] = SubSeq(all, k, Len(all))
  /\ k > 1 => \E d \in seen[h] : known[h] = TableNames(d)
  /\ \A i \in 1..(k - 2) : \E d \in seen[h] : d[req[h].tables[i]].cols \subseteq cols[h]

\* The inductive invariant behind AnswersTrue, on top of PoolInv: while a handler
\* has a transaction, the database is in its history, and an open result set is
\* that of its statement at a moment of the history.
TruthInv(h) ==
  /\ seen[h] \subseteq [Tables -> Contents]
  /\ tx[h] = "open" => db[Alias(h)] \in seen[h]
  /\ pc[h] # "returned" => answer[h] = NoAnswer
  /\ pc[h] \in {"begin", "setlocal", "exec", "scan"} =>
       req[h].tool # "db-list" /\ Alias(h) \in Aliases
  /\ pc[h] \in {"begin", "setlocal"} => todo[h] = Statements(req[h])
  /\ pc[h] \in {"exec", "scan"} => \E k \in 1..Len(Statements(req[h])) : Progress(h, k)
  /\ pc[h] = "scan" => \E d \in seen[h] : rows[h] = ResultOf(Head(todo[h]), d, req[h])
  /\ TrueOf(answer[h], req[h], seen[h])

\* Every handler has its own part of the state.
HandlerState ==
  /\ DOMAIN todo = Handlers /\ DOMAIN rows = Handlers /\ DOMAIN known = Handlers
  /\ DOMAIN cols = Handlers /\ DOMAIN answer = Handlers /\ DOMAIN seen = Handlers

HistoryInv == PoolInv /\ HandlerState /\ \A h \in Handlers : TruthInv(h)

-----------------------------------------------------------------------------
\* The handlers that use a pool are finitely many.
LEMMA InUseFinite ==
  ASSUME NEW a
  PROVE  IsFiniteSet(InUse(a)) /\ Cardinality(InUse(a)) \in Nat
<1>1. InUse(a) \in SUBSET Handlers
  BY DEF InUse
<1>2. IsFiniteSet(InUse(a))
  BY <1>1, PoolAssumption, FS_Subset
<1> QED
  BY <1>2, FS_CardinalityType

\* A step that opens no transaction, and lets no handler return with an open one,
\* keeps every pool within its bound.
LEMMA ShrinkStep ==
  ASSUME ConnectionsReturned, req' = req,
         \A h \in Handlers : tx'[h] = "open" =>
           tx[h] = "open" /\ pc'[h] \in {"setlocal", "exec", "scan"}
  PROVE  ConnectionsReturned'
<1>1. ASSUME NEW a \in Aliases
      PROVE  Cardinality(InUse(a)') <= MaxOpenConns
  <2>1. InUse(a)' \in SUBSET InUse(a)
    BY DEF InUse, Alias
  <2>2. Cardinality(InUse(a)') <= Cardinality(InUse(a))
    BY <2>1, InUseFinite, FS_Subset
  <2>3. IsFiniteSet(InUse(a)') /\ Cardinality(InUse(a)') \in Nat
    BY <2>1, InUseFinite, FS_Subset, FS_CardinalityType
  <2> QED
    BY <2>2, <2>3, InUseFinite, PoolAssumption DEF ConnectionsReturned
<1> QED
  BY <1>1 DEF ConnectionsReturned

\* A handler that returns gives its connection back, whatever it answers.
LEMMA ReturnStep ==
  ASSUME PoolInv, NEW h \in Handlers, NEW a, Return(h, a)
  PROVE  PoolInv'
<1>1. TypeOK'
  BY DEF PoolInv, TypeOK, Return, ctxVars, dbVars
<1>2. \A g \in Handlers : tx'[g] = "open" =>
        tx[g] = "open" /\ pc'[g] \in {"setlocal", "exec", "scan"}
  BY DEF PoolInv, TypeOK, ConnectionsReturned, Return
<1> QED
  BY <1>1, <1>2, ShrinkStep DEF PoolInv, Return

\* A step of handler h that leaves its transaction alone and ends before the return.
LEMMA MoveStep ==
  ASSUME PoolInv, NEW h \in Handlers, NEW where \in {"setlocal", "exec", "scan"},
         pc' = [pc EXCEPT ![h] = where],
         UNCHANGED <<ctxVars, dbVars, req, ended, tx>>
  PROVE  PoolInv'
<1>1. TypeOK'
  BY DEF PoolInv, TypeOK, ctxVars, dbVars
<1>2. \A g \in Handlers : tx'[g] = "open" =>
        tx[g] = "open" /\ pc'[g] \in {"setlocal", "exec", "scan"}
  BY DEF PoolInv, TypeOK, ConnectionsReturned
<1> QED
  BY <1>1, <1>2, ShrinkStep DEF PoolInv

\* BeginTx takes one connection, when there is one, for a handler without any.
LEMMA BeginStep ==
  ASSUME PoolInv, NEW h \in Handlers, Begin(h)
  PROVE  PoolInv'
<1>1. TypeOK'
  BY DEF PoolInv, TypeOK, Begin, ctxVars, dbVars
<1>2. \A g \in Handlers : tx'[g] = "open" => pc'[g] \in {"setlocal", "exec", "scan"}
  BY DEF PoolInv, TypeOK, ConnectionsReturned, Begin
<1>3. ASSUME NEW a \in Aliases
      PROVE  Cardinality(InUse(a)') <= MaxOpenConns
  <2>1. CASE a = Alias(h)
    <3>1. InUse(a)' = InUse(a) \cup {h}
      BY <2>1 DEF PoolInv, TypeOK, InUse, Alias, Begin
    <3>2. h \notin InUse(a)
      BY DEF PoolInv, ConnectionsReturned, InUse, Begin
    <3>3. Cardinality(InUse(a)') = Cardinality(InUse(a)) + 1
      BY <3>1, <3>2, InUseFinite, FS_AddElement
    <3>4. Cardinality(InUse(a)) < MaxOpenConns
      BY <2>1 DEF Begin
    <3> QED
      BY <3>3, <3>4, InUseFinite, PoolAssumption
  <2>2. CASE a # Alias(h)
    <3>1. InUse(a)' = InUse(a)
      BY <2>2 DEF PoolInv, TypeOK, InUse, Alias, Begin
    <3> QED
      BY <3>1 DEF PoolInv, ConnectionsReturned
  <2> QED
    BY <2>1, <2>2
<1> QED
  BY <1>1, <1>2, <1>3 DEF PoolInv, ConnectionsReturned

\* Resolve goes on or the handler returns.
LEMMA ReadStep ==
  ASSUME PoolInv, NEW h \in Handlers, NEW data, Read(h, data)
  PROVE  PoolInv'
<1>1. ASSUME NEW tableSet, NEW bound, Proceed(h, tableSet, bound)
      PROVE  PoolInv'
  <2>1. CASE \E a : Return(h, a)
    BY <2>1, ReturnStep
  <2>2. CASE /\ pc' = [pc EXCEPT ![h] = "exec"]
             /\ UNCHANGED <<ctxVars, dbVars, req, ended, tx, answer, seen>>
    BY <2>2, MoveStep
  <2> QED
    BY <1>1, <2>1, <2>2 DEF Proceed
<1>2. CASE \E a : Return(h, a)
  BY <1>2, ReturnStep
<1> QED
  BY <1>1, <1>2 DEF Read, DbTablesAnswers, DbSchemaAnswers, SqlGoesOn

\* The steps of others: a deadline, the shutdown, a rollback by database/sql, a
\* change of a database.
LEMMA OtherStep ==
  ASSUME PoolInv,
         \/ \E h \in Handlers : Expire(h) \/ AwaitDone(h)
         \/ Shutdown \/ HostChanges \/ UNCHANGED vars
  PROVE  PoolInv'
<1>1. TypeOK'
  <2>1. CASE \E h \in Handlers : Expire(h) \/ AwaitDone(h)
    BY <2>1 DEF PoolInv, TypeOK, Expire, AwaitDone, ctxVars, dbVars
  <2>2. CASE Shutdown \/ UNCHANGED vars
    BY <2>2 DEF PoolInv, TypeOK, Shutdown, vars, ctxVars, dbVars
  <2>3. CASE HostChanges
    BY <2>3 DEF PoolInv, TypeOK, HostChanges, ctxVars
  <2> QED
    BY <2>1, <2>2, <2>3
<1>2. req' = req
  BY DEF Expire, AwaitDone, Shutdown, HostChanges, vars
<1>3. \A g \in Handlers : tx'[g] = "open" =>
        tx[g] = "open" /\ pc'[g] \in {"setlocal", "exec", "scan"}
  <2>1. CASE \E h \in Handlers : Expire(h) \/ AwaitDone(h)
    BY <2>1 DEF PoolInv, TypeOK, ConnectionsReturned, Expire, AwaitDone
  <2>2. CASE Shutdown \/ HostChanges \/ UNCHANGED vars
    BY <2>2 DEF PoolInv, ConnectionsReturned, Shutdown, HostChanges, vars
  <2> QED
    BY <2>1, <2>2
<1> QED
  BY <1>1, <1>2, <1>3, ShrinkStep DEF PoolInv

\* The initial states satisfy the invariant.
LEMMA PoolInit == Init => PoolInv
<1> SUFFICES ASSUME Init PROVE PoolInv
  OBVIOUS
<1>1. TypeOK
  BY ContentAssumption DEF Init, TypeOK
<1>2. \A h \in Handlers : tx[h] # "open"
  BY DEF Init
<1>3. ASSUME NEW a \in Aliases
      PROVE  Cardinality(InUse(a)) <= MaxOpenConns
  <2>1. InUse(a) = {}
    BY <1>2 DEF InUse
  <2> QED
    BY <2>1, FS_EmptySet, PoolAssumption
<1> QED
  BY <1>1, <1>2, <1>3 DEF PoolInv, ConnectionsReturned

\* Every step keeps the invariant.
LEMMA PoolNext == PoolInv /\ [Next]_vars => PoolInv'
<1> SUFFICES ASSUME PoolInv, [Next]_vars PROVE PoolInv'
  OBVIOUS
<1>1. ASSUME NEW h \in Handlers, HandlerStep(h)
      PROVE  PoolInv'
  <2>1. CASE Start(h)
    <3>1. CASE \E a : Return(h, a)
      BY <3>1, ReturnStep
    <3>2. CASE /\ pc[h] = "idle"
               /\ pc' = [pc EXCEPT ![h] = "begin"]
               /\ UNCHANGED <<ctxVars, dbVars, req, ended, tx, rows, known, cols, answer, seen>>
      <4>1. TypeOK'
        BY <3>2 DEF PoolInv, TypeOK, ctxVars, dbVars
      <4>2. \A g \in Handlers : tx'[g] = "open" =>
              tx[g] = "open" /\ pc'[g] \in {"setlocal", "exec", "scan"}
        BY <3>2 DEF PoolInv, TypeOK, ConnectionsReturned
      <4> QED
        BY <3>2, <4>1, <4>2, ShrinkStep DEF PoolInv
    <3> QED
      BY <2>1, <3>1, <3>2 DEF Start, DbListAnswers
  <2>2. CASE Begin(h)
    BY <2>2, BeginStep
  <2>3. CASE SetLocal(h)
    BY <2>3, MoveStep DEF SetLocal
  <2>4. CASE Execute(h)
    <3>1. CASE \E a : Return(h, a)
      BY <3>1, ReturnStep
    <3>2. CASE /\ pc' = [pc EXCEPT ![h] = "scan"]
               /\ UNCHANGED <<ctxVars, dbVars, req, ended, tx, todo, known, cols, answer, seen>>
      BY <3>2, MoveStep
    <3> QED
      BY <2>4, <3>1, <3>2 DEF Execute
  <2>5. CASE Scan(h)
    <3>1. CASE \E a : Return(h, a)
      BY <3>1, ReturnStep
    <3>2. CASE \E data : Read(h, data)
      BY <3>2, ReadStep
    <3> QED
      BY <2>5, <3>1, <3>2 DEF Scan
  <2>6. CASE SetLocalFails(h) \/ StatementFails(h) \/ Interrupted(h)
    BY <2>6, ReturnStep DEF SetLocalFails, StatementFails, Interrupted
  <2>7. CASE Expire(h) \/ AwaitDone(h)
    BY <2>7, OtherStep
  <2> QED
    BY <1>1, <2>1, <2>2, <2>3, <2>4, <2>5, <2>6, <2>7 DEF HandlerStep, DatabaseStep
<1>2. CASE Shutdown \/ HostChanges \/ UNCHANGED vars
  BY <1>2, OtherStep
<1> QED
  BY <1>1, <1>2 DEF Next, AllReturned

\* The handlers, their contexts and transactions, and the databases keep their types.
THEOREM SqlTypeCorrect == Spec => []TypeOK
<1>1. PoolInv => TypeOK
  BY DEF PoolInv
<1> QED
  BY PoolInit, PoolNext, <1>1, PTL DEF Spec

\* A connection is away from its pool only while a handler between BeginTx and its
\* return uses it, however the request ends, and no pool gives out more than it has
\* (dbconn.go:78-95, 156-169).
THEOREM ConnectionsReturn == Spec => []ConnectionsReturned
<1>1. PoolInv => ConnectionsReturned
  BY DEF PoolInv
<1> QED
  BY PoolInit, PoolNext, <1>1, PTL DEF Spec

-----------------------------------------------------------------------------
(***************************************************************************)
(* The answers.  HistoryInv is inductive: a result set is that of its      *)
(* statement on a content that the handler's database had, what Resolve    *)
(* remembers of it was true then, and the history of the contents only     *)
(* grows.                                                                  *)
(***************************************************************************)

\* A finite set has subsets of every smaller size.
LEMMA SubsetOfSize ==
  ASSUME NEW S, IsFiniteSet(S), NEW k \in Nat, k <= Cardinality(S)
  PROVE  \E T \in SUBSET S : Cardinality(T) = k
<1>1. PICK f : f \in Bijection(1..Cardinality(S), S)
  BY FS_CardinalityType DEF ExistsBijection
<1> DEFINE T == {f[i] : i \in 1..k}
           g == [i \in 1..k |-> f[i]]
<1>2. Cardinality(S) \in Nat
  BY FS_CardinalityType
<1>3. T \in SUBSET S
  BY <1>1, <1>2 DEF Bijection, Injection
<1>4. g \in Bijection(1..k, T)
  BY <1>1, <1>2 DEF Bijection, Injection, Surjection, IsInjective
<1>5. Cardinality(T) = k
  BY <1>4, FS_CountingElements DEF ExistsBijection
<1> QED
  BY <1>3, <1>5

\* What capOutput keeps was there, and a result that lost something is marked.
LEMMA ResultHonest ==
  ASSUME NEW data, IsFiniteSet(data), NEW trunc \in BOOLEAN
  PROVE  /\ Result(data, trunc).data \subseteq data
         /\ data \subseteq Result(data, trunc).data \/ Result(data, trunc).truncated
         /\ trunc => Result(data, trunc).truncated
         /\ Result(data, trunc).why = ""
<1>1. Cardinality(data) \in Nat
  BY FS_CardinalityType
<1>2. CASE Cardinality(data) <= MaxOutput
  BY <1>2 DEF Result, CapOutput
<1>3. CASE ~(Cardinality(data) <= MaxOutput)
  <2>1. Cardinality(data) > MaxOutput /\ MaxOutput \in Nat
    BY <1>1, <1>3, LimitAssumption
  <2>2. \E T \in SUBSET data : Cardinality(T) = MaxOutput
    BY <1>1, <2>1, SubsetOfSize
  <2>3. CapOutput(data) \in SUBSET data
    BY <1>3, <2>2 DEF CapOutput
  <2> QED
    BY <2>1, <2>3 DEF Result
<1> QED
  BY <1>2, <1>3

\* The statements of a request, one by one.
LEMMA SqlStatements ==
  ASSUME NEW r, ReqOK(r), r.tool = "sql"
  PROVE  /\ Len(r.tables) \in Nat \ {0}
         /\ \A i \in 1..Len(r.tables) : r.tables[i] \in Tables
         /\ Statements(r) \in Seq({ListTables, Query} \cup {DescribeTable(t) : t \in Tables})
         /\ Len(Statements(r)) = Len(r.tables) + 2
         /\ Statements(r)[1] = ListTables
         /\ \A i \in 1..Len(r.tables) : Statements(r)[i + 1] = DescribeTable(r.tables[i])
         /\ Statements(r)[Len(r.tables) + 2] = Query
<1> DEFINE n == Len(r.tables)
           mid == [i \in 1..n |-> DescribeTable(r.tables[i])]
           All == {ListTables, Query} \cup {DescribeTable(t) : t \in Tables}
<1>1. n \in Nat \ {0} /\ \A i \in 1..n : r.tables[i] \in Tables
  BY DEF ReqOK
<1>2. mid \in Seq(All) /\ Len(mid) = n
  BY <1>1
<1>3. Statements(r) = <<ListTables>> \o mid \o <<Query>>
  BY DEF Statements
<1> HIDE DEF mid
<1>4. <<ListTables>> \in Seq(All) /\ <<Query>> \in Seq(All)
  OBVIOUS
<1> DEFINE front == <<ListTables>> \o mid
<1>5. /\ front \in Seq(All)
      /\ Len(front) = n + 1
      /\ front[1] = ListTables
      /\ \A i \in 1..n : front[i + 1] = mid[i]
  BY <1>1, <1>2, <1>4
<1>6. Statements(r) = front \o <<Query>>
  BY <1>3
<1> HIDE DEF front
<1>7. /\ Statements(r) \in Seq(All)
      /\ Len(Statements(r)) = n + 2
      /\ \A i \in 1..(n + 1) : Statements(r)[i] = front[i]
      /\ Statements(r)[n + 2] = Query
  <2> HIDE DEF n, All
  <2>1. /\ front \o <<Query>> \in Seq(All)
        /\ Len(front \o <<Query>>) = n + 2
    BY <1>1, <1>4, <1>5
  <2>2. \A i \in 1..(n + 1) : (front \o <<Query>>)[i] = front[i]
    BY <1>1, <1>4, <1>5
  <2>3. (front \o <<Query>>)[n + 2] = Query
    BY <1>1, <1>4, <1>5
  <2> QED
    BY <1>6, <2>1, <2>2, <2>3
<1>8. \A i \in 1..n : Statements(r)[i + 1] = DescribeTable(r.tables[i])
  <2> SUFFICES ASSUME NEW i \in 1..n PROVE Statements(r)[i + 1] = DescribeTable(r.tables[i])
    OBVIOUS
  <2>1. i + 1 \in 1..(n + 1)
    BY <1>1
  <2>2. Statements(r)[i + 1] = mid[i]
    BY <2>1, <1>5, <1>7
  <2> QED
    BY <2>2 DEF mid
<1>9. Statements(r)[1] = ListTables
  BY <1>1, <1>5, <1>7
<1> QED
  BY <1>1, <1>7, <1>8, <1>9

\* The requests are well-formed, and so are the contents in a history.
LEMMA Typing ==
  ASSUME HistoryInv, NEW h \in Handlers
  PROVE  /\ ReqOK(req[h])
         /\ TruthInv(h)
         /\ \A d \in seen[h], t \in Tables : IsFiniteSet(d[t].cols) /\ d[t].rows \in Nat
         /\ \A d \in seen[h] : IsFiniteSet(TableNames(d))
<1>1. ReqOK(req[h]) /\ TruthInv(h)
  BY PoolAssumption DEF HistoryInv, PoolInv, TypeOK
<1>2. \A d \in seen[h], t \in Tables : d[t] \in Contents
  BY <1>1 DEF TruthInv
<1>3. ASSUME NEW d \in seen[h] PROVE IsFiniteSet(TableNames(d))
  <2>1. TableNames(d) \in SUBSET Tables
    BY DEF TableNames
  <2> QED
    BY <2>1, ContentAssumption, FS_Subset
<1> QED
  BY <1>1, <1>2, <1>3, ContentAssumption

\* What does not touch a handler keeps its part of the invariant, though the history
\* of its database may grow.
LEMMA KeepTruth ==
  ASSUME NEW h \in Handlers, TruthInv(h), req' = req,
         pc'[h] = pc[h], todo'[h] = todo[h], rows'[h] = rows[h], known'[h] = known[h],
         cols'[h] = cols[h], answer'[h] = answer[h],
         seen[h] \subseteq seen'[h], seen'[h] \subseteq [Tables -> Contents],
         tx'[h] = "open" => db'[Alias(h)] \in seen'[h]
  PROVE  TruthInv(h)'
<1>1. Alias(h)' = Alias(h)
  BY DEF Alias
<1>2. \A k : Progress(h, k) => Progress(h, k)'
  BY DEF Progress
<1>3. TrueOf(answer[h], req[h], seen[h]) => TrueOf(answer'[h], req'[h], seen'[h])
  BY DEF TrueOf
<1> QED
  BY <1>1, <1>2, <1>3 DEF TruthInv

\* A step of one handler has only that handler to answer for.
LEMMA OneHandler ==
  ASSUME HistoryInv, NEW h \in Handlers, PoolInv', HandlerState', TruthInv(h)',
         db' = db, req' = req,
         \A g \in Handlers \ {h} :
           /\ pc'[g] = pc[g] /\ todo'[g] = todo[g] /\ rows'[g] = rows[g]
           /\ known'[g] = known[g] /\ cols'[g] = cols[g] /\ answer'[g] = answer[g]
           /\ seen'[g] = seen[g] /\ (tx'[g] = "open" => tx[g] = "open")
  PROVE  HistoryInv'
<1>1. ASSUME NEW g \in Handlers \ {h} PROVE TruthInv(g)'
  <2>1. TruthInv(g)
    BY DEF HistoryInv
  <2>2. seen'[g] \subseteq [Tables -> Contents] /\ (tx'[g] = "open" => db'[Alias(g)] \in seen'[g])
    BY <2>1 DEF TruthInv
  <2> QED
    BY <2>1, <2>2, KeepTruth
<1> QED
  BY <1>1 DEF HistoryInv

\* A handler may return every answer that is true of its history.
LEMMA ReturnTruth ==
  ASSUME HistoryInv, NEW h \in Handlers, NEW a, Return(h, a), TrueOf(a, req[h], seen[h])
  PROVE  HistoryInv'
<1>1. PoolInv'
  BY ReturnStep DEF HistoryInv
<1>2. HandlerState'
  BY DEF HistoryInv, HandlerState, Return
<1>3. /\ pc'[h] = "returned" /\ answer'[h] = a /\ tx'[h] # "open"
      /\ seen' = seen /\ req' = req /\ db' = db
  BY DEF HistoryInv, PoolInv, TypeOK, HandlerState, Return, dbVars
<1>4. TruthInv(h)'
  BY <1>3 DEF HistoryInv, TruthInv
<1>5. \A g \in Handlers \ {h} :
        /\ pc'[g] = pc[g] /\ todo'[g] = todo[g] /\ rows'[g] = rows[g]
        /\ known'[g] = known[g] /\ cols'[g] = cols[g] /\ answer'[g] = answer[g]
        /\ seen'[g] = seen[g] /\ (tx'[g] = "open" => tx[g] = "open")
  BY DEF HistoryInv, PoolInv, TypeOK, HandlerState, Return
<1> QED
  BY <1>1, <1>2, <1>3, <1>4, <1>5, OneHandler

\* The errors that say nothing of the content, and no answer, are always true.
LEMMA FailureTrue ==
  ASSUME NEW w, w \notin {"unknown table", "unknown column"}, NEW r, NEW history
  PROVE  TrueOf(Failure(w), r, history) /\ TrueOf(NoAnswer, r, history)
BY DEF TrueOf, Failure, NoAnswer

\* Where a handler stands in its statements.
LEMMA Standing ==
  ASSUME NEW h \in Handlers, NEW T, Statements(req[h]) \in Seq(T),
         NEW k \in 1..Len(Statements(req[h])), Progress(h, k)
  PROVE  /\ Head(todo[h]) = Statements(req[h])[k]
         /\ Tail(todo[h]) = SubSeq(Statements(req[h]), k + 1, Len(Statements(req[h])))
BY HeadTailOfSubSeq DEF Progress

\* The rows of a query are rows of its table, and where the server's own limit may
\* have cut them off rowTrunc says so.
LEMMA LimitHonest ==
  ASSUME NEW r, r.limit \in Nat \cup {NoLimit}, NEW d, d[r.tables[1]].rows \in Nat
  PROVE  /\ Selected(d, r) \subseteq 1..d[r.tables[1]].rows
         /\ IsFiniteSet(Selected(d, r))
         /\ RowTrunc(r, Selected(d, r)) \in BOOLEAN
         /\ \/ {i \in 1..d[r.tables[1]].rows : r.limit = NoLimit \/ i <= r.limit}
                 \subseteq Selected(d, r)
            \/ RowTrunc(r, Selected(d, r))
<1> DEFINE n == d[r.tables[1]].rows
           lim == ApplyRowLimit(r.limit)
           m == IF lim.limit > 0 /\ lim.limit < n THEN lim.limit ELSE n
           trunc == lim.imposed /\ m >= lim.limit
           wanted == {i \in 1..n : r.limit = NoLimit \/ i <= r.limit}
<1>1. /\ n \in Nat /\ lim.limit \in Nat
      /\ ~lim.imposed => r.limit = lim.limit /\ r.limit # NoLimit
  BY LimitAssumption DEF ApplyRowLimit, NoLimit
<1>2. Selected(d, r) = 1..m /\ m \in Nat
  BY <1>1 DEF Selected
<1>3. \/ m = n
      \/ m = lim.limit /\ m < n
  BY <1>1
<1>4. RowTrunc(r, 1..m) = (lim.imposed /\ Cardinality(1..m) >= lim.limit)
  BY DEF RowTrunc
<1> HIDE DEF lim, m
<1>5. IsFiniteSet(1..m) /\ Cardinality(1..m) = m
  BY <1>2, FS_Interval
<1>6. RowTrunc(r, 1..m) = trunc
  BY <1>4, <1>5
<1>7. 1..m \subseteq 1..n
  BY <1>1, <1>2, <1>3
<1>8. wanted \subseteq 1..m \/ trunc
  <2>1. CASE m = n
    BY <2>1
  <2>2. CASE m = lim.limit /\ ~lim.imposed
    <3>1. m = r.limit /\ r.limit # NoLimit
      BY <1>1, <2>2
    <3>2. \A i \in 1..n : i <= m => i \in 1..m
      BY <1>1, <1>2
    <3> QED
      BY <3>1, <3>2
  <2>3. CASE m = lim.limit /\ lim.imposed
    <3>1. m >= lim.limit
      BY <1>2, <2>3
    <3> QED
      BY <2>3, <3>1
  <2> QED
    BY <1>3, <2>1, <2>2, <2>3
<1>9. trunc \in BOOLEAN
  OBVIOUS
<1> HIDE DEF n, trunc, wanted
<1>10. /\ Selected(d, r) \subseteq 1..n
       /\ IsFiniteSet(Selected(d, r))
       /\ RowTrunc(r, Selected(d, r)) \in BOOLEAN
       /\ wanted \subseteq Selected(d, r) \/ RowTrunc(r, Selected(d, r))
  BY <1>2, <1>5, <1>6, <1>7, <1>8, <1>9
<1> QED
  BY <1>10 DEF n, wanted

\* The answer of a single statement that read data off the content d.
LEMMA ResultTrue ==
  ASSUME NEW r, NEW history, NEW d \in history, NEW data, IsFiniteSet(data),
         NEW trunc \in BOOLEAN, data \subseteq Wanted(r, NoLimit, d),
         Wanted(r, r.limit, d) \subseteq data \/ trunc
  PROVE  TrueOf(Result(data, trunc), r, history)
<1> DEFINE a == Result(data, trunc)
<1>1. /\ a.data \subseteq data
      /\ data \subseteq a.data \/ a.truncated
      /\ trunc => a.truncated
      /\ a.why = ""
  BY ResultHonest
<1> HIDE DEF a
<1>2. a.data \subseteq Wanted(r, NoLimit, d)
  BY <1>1
<1>3. Wanted(r, r.limit, d) \subseteq a.data \/ a.truncated
  BY <1>1
<1>4. TrueOf(a, r, history)
  BY <1>1, <1>2, <1>3 DEF TrueOf
<1> QED
  BY <1>4 DEF a

\* db-tables answers with the tables of a moment.
LEMMA DbTablesTrue ==
  ASSUME HistoryInv, NEW h \in Handlers, pc[h] = "scan", DbTablesAnswers(h, rows[h])
  PROVE  HistoryInv'
<1>1. /\ ReqOK(req[h]) /\ TruthInv(h) /\ req[h].tool = "db-tables"
      /\ Statements(req[h]) = <<ListTables>>
  BY Typing DEF DbTablesAnswers, Statements
<1>2. PICK k \in 1..Len(Statements(req[h])) : Progress(h, k)
  BY <1>1 DEF TruthInv
<1>3. Head(todo[h]) = ListTables
  <2>1. <<ListTables>> \in Seq({ListTables}) /\ k = 1
    BY <1>1
  <2>2. Head(todo[h]) = Statements(req[h])[k]
    BY <1>1, <1>2, <2>1, Standing
  <2> QED
    BY <1>1, <2>1, <2>2
<1>4. PICK d \in seen[h] : rows[h] = TableNames(d)
  BY <1>1, <1>3 DEF TruthInv, ResultOf, ListTables
<1>5. IsFiniteSet(rows[h])
  BY <1>4, Typing
<1>6. TrueOf(Result(rows[h], FALSE), req[h], seen[h])
  BY <1>1, <1>4, <1>5, ResultTrue DEF Wanted
<1> QED
  BY <1>6, ReturnTruth DEF DbTablesAnswers

\* db-schema answers with the columns of a moment, and calls a table without any unknown.
LEMMA DbSchemaTrue ==
  ASSUME HistoryInv, NEW h \in Handlers, pc[h] = "scan", DbSchemaAnswers(h, rows[h])
  PROVE  HistoryInv'
<1> DEFINE t == req[h].tables[1]
<1>1. /\ ReqOK(req[h]) /\ TruthInv(h) /\ req[h].tool = "db-schema"
      /\ Statements(req[h]) = <<DescribeTable(t)>>
  BY Typing DEF DbSchemaAnswers, Statements
<1>2. Len(req[h].tables) \in Nat \ {0} /\ t \in Tables
  BY <1>1 DEF ReqOK
<1>3. PICK k \in 1..Len(Statements(req[h])) : Progress(h, k)
  BY <1>1 DEF TruthInv
<1>4. Head(todo[h]) = DescribeTable(t)
  <2>1. <<DescribeTable(t)>> \in Seq({DescribeTable(t)}) /\ k = 1
    BY <1>1
  <2>2. Head(todo[h]) = Statements(req[h])[k]
    BY <1>1, <1>3, <2>1, Standing
  <2> QED
    BY <1>1, <2>1, <2>2
<1>5. PICK d \in seen[h] : rows[h] = d[t].cols
  BY <1>1, <1>4 DEF TruthInv, ResultOf, DescribeTable
<1>6. CASE rows[h] = {}
  <2>1. t \notin TableNames(d)
    BY <1>5, <1>6 DEF TableNames
  <2>2. 1 \in 1..Len(req[h].tables)
    BY <1>2
  <2>3. TrueOf(Failure("unknown table"), req[h], seen[h])
    BY <2>1, <2>2 DEF TrueOf, Failure, NoAnswer
  <2> QED
    BY <1>6, <2>3, ReturnTruth DEF DbSchemaAnswers
<1>7. CASE rows[h] # {}
  <2>1. IsFiniteSet(rows[h])
    BY <1>2, <1>5, Typing
  <2>2. TrueOf(Result(rows[h], FALSE), req[h], seen[h])
    BY <1>1, <1>5, <2>1, ResultTrue DEF Wanted
  <2> QED
    BY <1>7, <2>2, ReturnTruth DEF DbSchemaAnswers
<1> QED
  BY <1>6, <1>7

\* The query of the sql tool answers with the rows of a moment.
LEMMA QueryTrue ==
  ASSUME HistoryInv, NEW h \in Handlers, req[h].tool = "sql", NEW d \in seen[h],
         rows[h] = Selected(d, req[h]), Return(h, Result(rows[h], RowTrunc(req[h], rows[h])))
  PROVE  HistoryInv'
<1> DEFINE r == req[h]
<1>1. /\ ReqOK(r) /\ r.limit \in Nat \cup {NoLimit}
      /\ r.tables[1] \in Tables /\ d[r.tables[1]].rows \in Nat
  BY Typing, SqlStatements DEF ReqOK
<1>2. /\ rows[h] \subseteq Wanted(r, NoLimit, d)
      /\ Wanted(r, r.limit, d) \subseteq rows[h] \/ RowTrunc(r, rows[h])
      /\ IsFiniteSet(rows[h]) /\ RowTrunc(r, rows[h]) \in BOOLEAN
  BY <1>1, LimitHonest DEF Wanted
<1>3. TrueOf(Result(rows[h], RowTrunc(r, rows[h])), r, seen[h])
  BY <1>2, ResultTrue
<1> QED
  BY <1>3, ReturnTruth

\* Resolve goes on behind the k-th statement of a query: what it takes for the known
\* tables are those of one moment, the columns it has bound are all of every table
\* described so far at some moment, and so is what it calls unknown.
LEMMA ProceedTrue ==
  ASSUME HistoryInv, NEW h \in Handlers, req[h].tool = "sql", tx[h] = "open",
         NEW k \in 1..(Len(req[h].tables) + 1), Progress(h, k),
         NEW tableSet, NEW bound, Proceed(h, tableSet, bound),
         \E d \in seen[h] : tableSet = TableNames(d),
         \A i \in 1..(k - 1) : \E d \in seen[h] : d[req[h].tables[i]].cols \subseteq bound
  PROVE  HistoryInv'
<1> DEFINE r == req[h]
           n == Len(r.tables)
           all == Statements(r)
           rest == Tail(todo[h])
<1>1. /\ n \in Nat \ {0} /\ \A i \in 1..n : r.tables[i] \in Tables
      /\ all \in Seq({ListTables, Query} \cup {DescribeTable(t) : t \in Tables})
      /\ Len(all) = n + 2
      /\ \A i \in 1..n : all[i + 1] = DescribeTable(r.tables[i])
      /\ all[n + 2] = Query
  BY Typing, SqlStatements
<1>2. ReqOK(r) /\ TruthInv(h)
  BY Typing
<1> HIDE DEF r, n, all
<1>3. k \in 1..Len(all) /\ k + 1 \in 1..Len(all) /\ k \in Nat
  BY <1>1 DEF n, r
<1>4. rest = SubSeq(all, k + 1, Len(all))
  BY <1>1, <1>3, Standing DEF all, r
<1>5. /\ rest # << >> /\ Head(rest) = all[k + 1]
      /\ Len(rest) = n + 2 - k
  <2>1. Len(all) \in (k + 1)..Len(all)
    BY <1>3
  <2>2. Head(SubSeq(all, k + 1, Len(all))) = all[k + 1]
    BY <1>1, <1>3, <2>1, HeadTailOfSubSeq
  <2>3. Len(SubSeq(all, k + 1, Len(all))) = n + 2 - k
    BY <1>1, <1>3
  <2>4. n + 2 - k > 0
    BY <1>1, <1>3
  <2> HIDE DEF rest
  <2>5. Len(rest) > 0
    BY <1>4, <2>3, <2>4
  <2>6. rest # << >>
    BY <2>5
  <2> QED
    BY <1>4, <2>2, <2>3, <2>6
<1> HIDE DEF rest
<1>6. k \in 1..n => NextBind(rest) = {r.tables[k]}
  <2>1. k \in 1..n => Head(rest) = DescribeTable(r.tables[k])
    BY <1>1, <1>5
  <2> QED
    BY <1>5, <2>1 DEF NextBind, DescribeTable
<1>7. k = n + 1 => NextBind(rest) = {}
  BY <1>1, <1>5 DEF NextBind, Query
<1>8. k \in 1..n \/ k = n + 1
  BY <1>1, <1>3 DEF n, r
<1>9. CASE ~(NextBind(rest) \subseteq tableSet) /\ Return(h, Failure("unknown table"))
  <2>1. k \in 1..n /\ r.tables[k] \notin tableSet
    BY <1>6, <1>7, <1>8, <1>9
  <2>2. TrueOf(Failure("unknown table"), r, seen[h])
    BY <2>1 DEF TrueOf, Failure, NoAnswer, n
  <2> QED
    BY <1>9, <2>2, ReturnTruth DEF r
<1>10. CASE rest = <<Query>> /\ r.column \notin bound /\ Return(h, Failure("unknown column"))
  <2>1. k - 1 = n
    <3>1. Len(rest) = 1
      BY <1>10
    <3>2. n \in Nat /\ k \in Nat /\ n + 2 - k = 1
      BY <1>1, <1>3, <1>5, <3>1
    <3> QED
      BY <3>2
  <2>2. \A i \in 1..n : \E d \in seen[h] : r.column \notin d[r.tables[i]].cols
    BY <2>1, <1>10 DEF r
  <2>3. TrueOf(Failure("unknown column"), r, seen[h])
    BY <2>2 DEF TrueOf, Failure, NoAnswer, n
  <2> QED
    BY <1>10, <2>3, ReturnTruth DEF r
<1>11. CASE /\ known' = [known EXCEPT ![h] = tableSet]
            /\ cols' = [cols EXCEPT ![h] = bound]
            /\ todo' = [todo EXCEPT ![h] = rest]
            /\ rows' = [rows EXCEPT ![h] = {}]
            /\ pc' = [pc EXCEPT ![h] = "exec"]
            /\ UNCHANGED <<ctxVars, dbVars, req, ended, tx, answer, seen>>
  <2>1. PoolInv'
    BY <1>11, MoveStep DEF HistoryInv
  <2>2. HandlerState'
    BY <1>11 DEF HistoryInv, HandlerState
  <2>3. /\ known'[h] = tableSet /\ cols'[h] = bound /\ todo'[h] = rest /\ pc'[h] = "exec"
        /\ seen' = seen /\ req' = req /\ db' = db /\ answer' = answer /\ tx' = tx
    BY <1>11 DEF HistoryInv, HandlerState, PoolInv, TypeOK, dbVars
  <2>4. Progress(h, k + 1)'
    BY <2>3, <1>3, <1>4 DEF Progress, all, r
  <2>5. TruthInv(h)'
    <3>1. pc[h] \in {"exec", "scan", "setlocal"}
      BY DEF HistoryInv, PoolInv, ConnectionsReturned
    <3>2. k + 1 \in 1..Len(Statements(req'[h]))
      BY <1>3, <2>3 DEF all, r
    <3>3. \E j \in 1..Len(Statements(req'[h])) : Progress(h, j)'
      BY <2>4, <3>2
    <3> QED
      BY <1>2, <2>3, <3>1, <3>3 DEF TruthInv, Alias
  <2>6. \A g \in Handlers \ {h} :
          /\ pc'[g] = pc[g] /\ todo'[g] = todo[g] /\ rows'[g] = rows[g]
          /\ known'[g] = known[g] /\ cols'[g] = cols[g] /\ answer'[g] = answer[g]
          /\ seen'[g] = seen[g] /\ (tx'[g] = "open" => tx[g] = "open")
    BY <1>11 DEF HistoryInv, PoolInv, TypeOK, HandlerState
  <2> QED
    BY <2>1, <2>2, <2>3, <2>5, <2>6, OneHandler
<1> QED
  BY <1>9, <1>10, <1>11 DEF Proceed, rest, r

\* The sql tool goes on behind a result set that it has read to its end.
LEMMA SqlTrue ==
  ASSUME HistoryInv, NEW h \in Handlers, pc[h] = "scan", tx[h] = "open",
         SqlGoesOn(h, rows[h])
  PROVE  HistoryInv'
<1> DEFINE r == req[h]
           n == Len(r.tables)
           all == Statements(r)
<1>1. r.tool = "sql" /\ ReqOK(r) /\ TruthInv(h)
  BY Typing DEF SqlGoesOn
<1>2. /\ n \in Nat \ {0}
      /\ all \in Seq({ListTables, Query} \cup {DescribeTable(t) : t \in Tables})
      /\ Len(all) = n + 2
      /\ all[1] = ListTables
      /\ \A i \in 1..n : all[i + 1] = DescribeTable(r.tables[i])
      /\ all[n + 2] = Query
  BY <1>1, SqlStatements
<1>3. PICK k \in 1..Len(all) : Progress(h, k)
  BY <1>1 DEF TruthInv
<1>4. Head(todo[h]) = all[k]
  BY <1>2, <1>3, Standing
<1>5. PICK d \in seen[h] : rows[h] = ResultOf(Head(todo[h]), d, r)
  BY <1>1 DEF TruthInv
<1> HIDE DEF r, n, all
<1>6. CASE k = 1
  <2>1. Head(todo[h]) = ListTables
    BY <1>2, <1>4, <1>6
  <2>2. rows[h] = TableNames(d) /\ Head(todo[h]).op = "tables"
    BY <1>5, <2>1 DEF ResultOf, ListTables
  <2>3. Proceed(h, rows[h], {})
    BY <2>2 DEF SqlGoesOn
  <2>4. k \in 1..(n + 1) /\ 1..(k - 1) = {}
    BY <1>2, <1>6
  <2> QED
    BY <1>1, <1>3, <2>2, <2>3, <2>4, ProceedTrue DEF r, n
<1>7. CASE k \in 2..(n + 1)
  <2>1. k - 1 \in 1..n /\ k = (k - 1) + 1 /\ k > 1
    BY <1>2, <1>7
  <2>2. Head(todo[h]) = DescribeTable(r.tables[k - 1])
    BY <1>2, <1>4, <2>1
  <2>3. rows[h] = d[r.tables[k - 1]].cols /\ Head(todo[h]).op = "describe"
    BY <1>5, <2>2 DEF ResultOf, DescribeTable
  <2>4. Proceed(h, known[h], cols[h] \cup rows[h])
    BY <2>3 DEF SqlGoesOn
  <2>5. k \in 1..(n + 1)
    BY <1>2, <1>7
  <2>6. \E e \in seen[h] : known[h] = TableNames(e)
    BY <1>3, <2>1 DEF Progress
  <2>7. ASSUME NEW i \in 1..(k - 1)
        PROVE  \E e \in seen[h] : e[r.tables[i]].cols \subseteq cols[h] \cup rows[h]
    <3>1. CASE i = k - 1
      BY <2>3, <3>1
    <3>2. CASE i # k - 1
      <4>1. i \in 1..(k - 2)
        BY <1>2, <1>7, <3>2
      <4> QED
        BY <1>3, <4>1 DEF Progress, r
    <3> QED
      BY <3>1, <3>2
  <2> QED
    BY <1>1, <1>3, <2>4, <2>5, <2>6, <2>7, ProceedTrue DEF r, n
<1>8. CASE k = n + 2
  <2>1. Head(todo[h]) = Query
    BY <1>2, <1>4, <1>8
  <2>2. rows[h] = Selected(d, r) /\ Head(todo[h]).op = "query"
    BY <1>5, <2>1 DEF ResultOf, Query
  <2>3. Return(h, Result(rows[h], RowTrunc(r, rows[h])))
    BY <2>2 DEF SqlGoesOn, r
  <2> QED
    BY <1>1, <2>2, <2>3, QueryTrue DEF r
<1> QED
  <2>1. k = 1 \/ k \in 2..(n + 1) \/ k = n + 2
    BY <1>2, <1>3
  <2> QED
    BY <2>1, <1>6, <1>7, <1>8

\* The loop over the rows of a statement: what it has read without an error is all of
\* the result set.
LEMMA ScanTrue ==
  ASSUME HistoryInv, NEW h \in Handlers, Scan(h)
  PROVE  HistoryInv'
<1>1. PICK it \in Iterations(h) :
        \/ RowsErr(it) /\ Return(h, Failure("database"))
        \/ ~RowsErr(it) /\ Read(h, it.data)
  BY DEF Scan
<1>2. CASE RowsErr(it) /\ Return(h, Failure("database"))
  BY <1>2, FailureTrue, ReturnTruth
<1>3. CASE ~RowsErr(it) /\ Read(h, it.data)
  <2>1. tx[h] = "open" /\ it.data = rows[h]
    BY <1>3 DEF Iterations, RowsErr
  <2>2. pc[h] = "scan" /\ Read(h, rows[h])
    BY <1>3, <2>1 DEF Scan
  <2> QED
    BY <2>1, <2>2, DbTablesTrue, DbSchemaTrue, SqlTrue DEF Read
<1> QED
  BY <1>1, <1>2, <1>3

\* A statement reads the database as it is, which is in the history.
LEMMA ExecuteTrue ==
  ASSUME HistoryInv, NEW h \in Handlers, Execute(h)
  PROVE  HistoryInv'
<1>1. CASE Return(h, Failure("database"))
  BY <1>1, FailureTrue, ReturnTruth
<1>2. CASE /\ rows' = [rows EXCEPT ![h] = ResultOf(Head(todo[h]), db[Alias(h)], req[h])]
           /\ pc' = [pc EXCEPT ![h] = "scan"]
           /\ UNCHANGED <<ctxVars, dbVars, req, ended, tx, todo, known, cols, answer, seen>>
  <2>1. PoolInv'
    BY <1>2, MoveStep DEF HistoryInv
  <2>2. HandlerState'
    BY <1>2 DEF HistoryInv, HandlerState
  <2>3. /\ rows'[h] = ResultOf(Head(todo[h]), db[Alias(h)], req[h]) /\ pc'[h] = "scan"
        /\ seen' = seen /\ req' = req /\ db' = db /\ answer' = answer /\ tx' = tx
        /\ todo' = todo /\ known' = known /\ cols' = cols
    BY <1>2 DEF HistoryInv, HandlerState, PoolInv, TypeOK, dbVars
  <2>4. pc[h] = "exec" /\ tx[h] = "open" /\ TruthInv(h)
    BY Typing DEF Execute
  <2>5. \A k : Progress(h, k) => Progress(h, k)'
    BY <2>3 DEF Progress
  <2>6. TruthInv(h)'
    BY <2>3, <2>4, <2>5 DEF TruthInv, Alias
  <2>7. \A g \in Handlers \ {h} :
          /\ pc'[g] = pc[g] /\ todo'[g] = todo[g] /\ rows'[g] = rows[g]
          /\ known'[g] = known[g] /\ cols'[g] = cols[g] /\ answer'[g] = answer[g]
          /\ seen'[g] = seen[g] /\ (tx'[g] = "open" => tx[g] = "open")
    BY <1>2 DEF HistoryInv, PoolInv, TypeOK, HandlerState
  <2> QED
    BY <2>1, <2>2, <2>3, <2>6, <2>7, OneHandler
<1> QED
  BY <1>1, <1>2 DEF Execute

\* A request that reaches a database has a first statement.
LEMMA FirstStatement ==
  ASSUME NEW r, ReqOK(r), r.tool # "db-list"
  PROVE  /\ 1 \in 1..Len(Statements(r))
         /\ SubSeq(Statements(r), 1, Len(Statements(r))) = Statements(r)
<1>1. CASE r.tool = "sql"
  <2>1. /\ Statements(r) \in Seq({ListTables, Query} \cup {DescribeTable(t) : t \in Tables})
        /\ Len(r.tables) \in Nat /\ Len(Statements(r)) = Len(r.tables) + 2
    BY <1>1, SqlStatements
  <2> QED
    BY <2>1, SubSeqFull
<1>2. CASE r.tool \in {"db-tables", "db-schema"}
  <2>1. PICK s : Statements(r) = <<s>>
    BY <1>2 DEF Statements
  <2>2. <<s>> \in Seq({s}) /\ Len(<<s>>) = 1
    OBVIOUS
  <2>3. SubSeq(<<s>>, 1, Len(<<s>>)) = <<s>>
    BY <2>2, SubSeqFull
  <2>4. 1 \in 1..Len(<<s>>)
    BY <2>2
  <2> QED
    BY <2>1, <2>3, <2>4
<1> QED
  BY <1>1, <1>2 DEF ReqOK

\* The handler calls its tool, and begins.
LEMMA StartTrue ==
  ASSUME HistoryInv, NEW h \in Handlers, Start(h)
  PROVE  HistoryInv'
<1>1. CASE DbListAnswers(h)
  <2>1. TrueOf(Result(Aliases, FALSE), req[h], seen[h])
    BY <1>1 DEF DbListAnswers, TrueOf, Result
  <2> QED
    BY <1>1, <2>1, ReturnTruth DEF DbListAnswers
<1>2. CASE Return(h, Failure("refused"))
  BY <1>2, FailureTrue, ReturnTruth
<1>3. CASE /\ req[h].tool # "db-list"
           /\ DbLookup(req[h])
           /\ pc' = [pc EXCEPT ![h] = "begin"]
           /\ todo' = [todo EXCEPT ![h] = Statements(req[h])]
           /\ UNCHANGED <<ctxVars, dbVars, req, ended, tx, rows, known, cols, answer, seen>>
  <2>1. PoolInv'
    BY PoolNext DEF HistoryInv, Next, HandlerStep
  <2>2. HandlerState'
    BY <1>3 DEF HistoryInv, HandlerState
  <2>3. /\ todo'[h] = Statements(req[h]) /\ pc'[h] = "begin" /\ pc[h] = "idle"
        /\ seen' = seen /\ req' = req /\ db' = db /\ answer' = answer /\ tx' = tx
    BY <1>3 DEF HistoryInv, HandlerState, PoolInv, TypeOK, dbVars, Start
  <2>4. TruthInv(h)'
    <3>1. /\ TruthInv(h) /\ pc[h] # "returned" /\ Alias(h) \in Aliases
          /\ pc'[h] = "begin" /\ req'[h].tool # "db-list" /\ todo'[h] = Statements(req'[h])
      BY <1>3, <2>3, Typing DEF Alias, DbLookup
    <3>2. TrueOf(answer'[h], req'[h], seen'[h])
      BY <2>3, <3>1 DEF TruthInv
    <3> QED
      BY <2>3, <3>1, <3>2 DEF TruthInv, Alias
  <2>5. \A g \in Handlers \ {h} :
          /\ pc'[g] = pc[g] /\ todo'[g] = todo[g] /\ rows'[g] = rows[g]
          /\ known'[g] = known[g] /\ cols'[g] = cols[g] /\ answer'[g] = answer[g]
          /\ seen'[g] = seen[g] /\ (tx'[g] = "open" => tx[g] = "open")
    BY <1>3 DEF HistoryInv, PoolInv, TypeOK, HandlerState
  <2> QED
    BY <2>1, <2>2, <2>3, <2>4, <2>5, OneHandler
<1> QED
  BY <1>1, <1>2, <1>3 DEF Start

\* BeginTx, where the history starts, and SET LOCAL.
LEMMA BeginTrue ==
  ASSUME HistoryInv, NEW h \in Handlers, Begin(h) \/ SetLocal(h)
  PROVE  HistoryInv'
<1>1. PoolInv'
  BY PoolNext DEF HistoryInv, Next, HandlerStep, DatabaseStep
<1>2. HandlerState'
  BY DEF HistoryInv, HandlerState, Begin, SetLocal
<1>3. /\ pc[h] \in {"begin", "setlocal"} /\ pc'[h] \in {"setlocal", "exec"}
      /\ req' = req /\ db' = db /\ answer' = answer /\ todo' = todo
      /\ known' = known /\ cols' = cols /\ rows' = rows
  BY DEF HistoryInv, PoolInv, TypeOK, dbVars, Begin, SetLocal
<1>4. /\ TruthInv(h) /\ ReqOK(req[h]) /\ todo[h] = Statements(req[h])
      /\ req[h].tool # "db-list" /\ Alias(h) \in Aliases /\ answer[h] = NoAnswer
  BY <1>3, Typing DEF TruthInv
<1>5. seen'[h] \subseteq [Tables -> Contents] /\ (tx'[h] = "open" => db'[Alias(h)] \in seen'[h])
  <2>1. CASE Begin(h)
    BY <2>1, <1>3, <1>4 DEF HistoryInv, HandlerState, PoolInv, TypeOK, Begin
  <2>2. CASE SetLocal(h)
    BY <2>2, <1>3, <1>4 DEF SetLocal, TruthInv
  <2> QED
    BY <2>1, <2>2
<1>6. Progress(h, 1)' /\ 1 \in 1..Len(Statements(req[h]))
  BY <1>3, <1>4, FirstStatement DEF Progress
<1>7. TrueOf(answer'[h], req'[h], seen'[h])
  <2>1. TrueOf(NoAnswer, req'[h], seen'[h])
    BY FailureTrue, "" \notin {"unknown table", "unknown column"}
  <2> QED
    BY <1>3, <1>4, <2>1
<1>8. TruthInv(h)'
  BY <1>3, <1>4, <1>5, <1>6, <1>7 DEF TruthInv, Alias
<1>9. \A g \in Handlers \ {h} :
        /\ pc'[g] = pc[g] /\ todo'[g] = todo[g] /\ rows'[g] = rows[g]
        /\ known'[g] = known[g] /\ cols'[g] = cols[g] /\ answer'[g] = answer[g]
        /\ seen'[g] = seen[g] /\ (tx'[g] = "open" => tx[g] = "open")
  BY DEF HistoryInv, PoolInv, TypeOK, HandlerState, Begin, SetLocal
<1> QED
  BY <1>1, <1>2, <1>3, <1>8, <1>9, OneHandler

\* The steps of others let the history of a database grow, or leave it.
LEMMA OthersTrue ==
  ASSUME HistoryInv,
         \/ \E h \in Handlers : Expire(h) \/ AwaitDone(h)
         \/ Shutdown \/ HostChanges \/ UNCHANGED vars
  PROVE  HistoryInv'
<1>1. PoolInv'
  BY OtherStep DEF HistoryInv
<1>2. /\ UNCHANGED <<pc, req, todo, rows, known, cols, answer>>
      /\ \A g \in Handlers : tx'[g] = "open" => tx[g] = "open"
  <2>1. CASE \E h \in Handlers : Expire(h) \/ AwaitDone(h)
    BY <2>1 DEF HistoryInv, PoolInv, TypeOK, Expire, AwaitDone
  <2>2. CASE Shutdown \/ HostChanges \/ UNCHANGED vars
    BY <2>2 DEF Shutdown, HostChanges, vars
  <2> QED
    BY <2>1, <2>2
<1>3. CASE ~HostChanges
  <2>1. seen' = seen /\ db' = db
    BY <1>3 DEF Expire, AwaitDone, Shutdown, vars, dbVars
  <2>2. HandlerState'
    BY <1>2, <2>1 DEF HistoryInv, HandlerState
  <2>3. ASSUME NEW g \in Handlers PROVE TruthInv(g)'
    <3>1. TruthInv(g)
      BY DEF HistoryInv
    <3>2. seen'[g] \subseteq [Tables -> Contents] /\ (tx'[g] = "open" => db'[Alias(g)] \in seen'[g])
      BY <1>2, <2>1, <3>1 DEF TruthInv
    <3> QED
      BY <1>2, <2>1, <3>1, <3>2, KeepTruth
  <2> QED
    BY <1>1, <2>2, <2>3 DEF HistoryInv
<1>4. CASE HostChanges
  <2>1. PICK a \in Aliases, t \in Tables, c \in Contents :
          /\ db' = [db EXCEPT ![a][t] = c]
          /\ seen' = [h \in Handlers |->
                        IF h \in InUse(a) THEN seen[h] \cup {db'[a]} ELSE seen[h]]
    BY <1>4 DEF HostChanges
  <2>2. HandlerState'
    BY <1>2, <2>1 DEF HistoryInv, HandlerState
  <2>3. db'[a] \in [Tables -> Contents] /\ \A b \in Aliases \ {a} : db'[b] = db[b]
    BY <2>1 DEF HistoryInv, PoolInv, TypeOK
  <2>4. ASSUME NEW g \in Handlers PROVE TruthInv(g)'
    <3>1. TruthInv(g) /\ (tx[g] = "open" => Alias(g) \in Aliases)
      BY DEF HistoryInv, TruthInv, PoolInv, ConnectionsReturned
    <3>2. seen[g] \subseteq seen'[g] /\ seen'[g] \subseteq [Tables -> Contents]
      BY <2>1, <2>3, <3>1 DEF TruthInv
    <3>3. tx'[g] = "open" => db'[Alias(g)] \in seen'[g]
      BY <1>2, <2>1, <2>3, <3>1 DEF TruthInv, InUse
    <3> QED
      BY <1>2, <3>1, <3>2, <3>3, KeepTruth
  <2> QED
    BY <1>1, <2>2, <2>4 DEF HistoryInv
<1> QED
  BY <1>3, <1>4

\* A result is true of the database as it was at one moment of the transaction: it
\* invents nothing, and without the truncation mark nothing that was asked for is
\* missing, whatever else happened to the database, the context and the connection
\* between the statements (tool_sql.go:97-144, tool_db.go:37-61, catalog.go:349-437).
\* "unknown table" and "unknown column" are said only of what was missing at some moment.
THEOREM AnswersAreTrue == Spec => []AnswersTrue
<1>1. Init => HistoryInv
  <2> SUFFICES ASSUME Init PROVE HistoryInv
    OBVIOUS
  <2>1. PoolInv
    BY PoolInit
  <2>2. HandlerState
    BY DEF Init, HandlerState
  <2>3. ASSUME NEW h \in Handlers PROVE TruthInv(h)
    BY DEF Init, TruthInv, TrueOf, NoAnswer
  <2> QED
    BY <2>1, <2>2, <2>3 DEF HistoryInv
<1>2. HistoryInv /\ [Next]_vars => HistoryInv'
  <2> SUFFICES ASSUME HistoryInv, [Next]_vars PROVE HistoryInv'
    OBVIOUS
  <2>1. ASSUME NEW h \in Handlers, HandlerStep(h)
        PROVE  HistoryInv'
    <3>1. CASE SetLocalFails(h) \/ StatementFails(h) \/ Interrupted(h)
      BY <3>1, FailureTrue, ReturnTruth DEF SetLocalFails, StatementFails, Interrupted
    <3> QED
      BY <2>1, <3>1, StartTrue, BeginTrue, ExecuteTrue, ScanTrue, OthersTrue
      DEF HandlerStep, DatabaseStep
  <2>2. CASE Shutdown \/ HostChanges \/ UNCHANGED vars
    BY <2>2, OthersTrue
  <2> QED
    BY <2>1, <2>2 DEF Next, AllReturned
<1>3. HistoryInv => AnswersTrue
  BY DEF HistoryInv, TruthInv, AnswersTrue
<1> QED
  BY <1>1, <1>2, <1>3, PTL DEF Spec
=============================================================================
