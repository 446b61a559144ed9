-------------------------------- MODULE Sqlq --------------------------------
(***************************************************************************)
(* The query language of the sql tool (internal/sqlq): the parser          *)
(* (parser.go), the row limit the sql tool imposes, the resolution of      *)
(* names against the catalog (catalog.go) and the translation to the query *)
(* builder (translate.go), in the order in which sqlTool.Remote            *)
(* (internal/tools/tool_sql.go) calls them.                                *)
(*                                                                         *)
(* A query is a sequence of tokens, which a client writes phrase after     *)
(* phrase; the characters of a token are the lexer's business.  The parser *)
(* is a function of the tokens, a parse function of the position at which  *)
(* it starts.  Identifiers are strings and Lower folds their case.         *)
(***************************************************************************)
EXTENDS Conditions, SequencesExt

CONSTANTS
  Clients,  \* by name, [start, phrases, max]: how a client's queries begin, the phrases they
            \* go on with, sequences of tokens [kind, text], and the bound on their length
  SqlDefaultLimit,  \* the row limit of a query without one
  SqlMaxLimit,      \* the largest row limit
  Schema,   \* the catalog, in the order of ListTables: [name, cols]
  Lower,    \* strings.ToLower, on the names of the queries and of Schema
  Numbers   \* the values of the columns, but for NULL

ASSUME SqlqAssumption ==
  /\ Numbers \subseteq Int
  /\ \A c \in DOMAIN Clients : Clients[c].max \in Nat
  /\ SqlDefaultLimit \in Nat \ {0} /\ SqlMaxLimit \in Nat /\ SqlDefaultLimit <= SqlMaxLimit

VARIABLES
  client,  \* who writes the query
  toks,    \* the tokens of the query
  stage,   \* how far the query has come
  q        \* the Query, or None

vars == <<client, toks, stage, q>>

None == [none |-> TRUE]

Tok(i) == IF i \in DOMAIN toks THEN toks[i] ELSE [kind |-> "EOF", text |-> ""]
isKeyword(i, kw) == Tok(i).kind = "kw" /\ Tok(i).text = kw

\* A parse function returns a node and the position behind it, or fails at a
\* position; Then goes on with what succeeded.
Ok(node, pos) == [ok |-> TRUE, node |-> node, pos |-> pos]
Err(pos) == [ok |-> FALSE, node |-> None, pos |-> pos]
Then(r, next(_)) == IF r.ok THEN next(r) ELSE r

expect(pos, kind) == IF Tok(pos).kind = kind THEN Ok(Tok(pos).text, pos + 1) ELSE Err(pos)
expectKeyword(pos, kw) == IF isKeyword(pos, kw) THEN Ok(kw, pos + 1) ELSE Err(pos)

-----------------------------------------------------------------------------
(***************************************************************************)
(* Values, columns and lists.                                              *)
(***************************************************************************)

Value(kind, go) == [kind |-> kind, go |-> go]

parseValue(pos) ==
  LET t == Tok(pos)
  IN  CASE t.kind = "string" -> Ok(Value("string", t.text), pos + 1)
        [] t.kind = "number" -> Ok(Value("number", t.text), pos + 1)
        [] isKeyword(pos, "TRUE") -> Ok(Value("bool", 1), pos + 1)
        [] isKeyword(pos, "FALSE") -> Ok(Value("bool", 0), pos + 1)
        [] isKeyword(pos, "NULL") -> Ok(Value("null", Null), pos + 1)
        [] OTHER -> Err(pos)

Column(table, name) == [table |-> table, name |-> name]

parseColumn(pos) ==
  Then(expect(pos, "ident"), LAMBDA first :
    IF Tok(first.pos).kind # "." THEN Ok(Column("", first.node), first.pos)
    ELSE Then(expect(first.pos + 1, "ident"), LAMBDA second :
           Ok(Column(first.node, second.node), second.pos)))

\* "[AS alias]", with "" for none.
OptionalAlias(pos) ==
  IF isKeyword(pos, "AS") THEN expect(pos + 1, "ident") ELSE Ok("", pos)

SelectItem(agg, star, col, alias) ==
  [agg |-> agg, star |-> star, col |-> col, alias |-> alias]

aggFuncs == {"COUNT", "SUM", "AVG", "MIN", "MAX"}

\* The aggregate's argument: a column, or "*" for COUNT alone.
AggArgument(pos, agg) ==
  IF Tok(pos).kind # "*" THEN parseColumn(pos)
  ELSE IF agg = "COUNT" THEN Ok(Column("", "*"), pos + 1) ELSE Err(pos)

parseSelectItem(pos) ==
  LET agg == IF Tok(pos).kind = "kw" /\ Tok(pos).text \in aggFuncs THEN Tok(pos).text ELSE ""
      call == Then(expect(pos + 1, "("), LAMBDA paren :
              Then(AggArgument(paren.pos, agg), LAMBDA arg :
              Then(expect(arg.pos, ")"), LAMBDA close : Ok(arg.node, close.pos))))
  IN  Then(IF agg = "" THEN parseColumn(pos) ELSE call, LAMBDA col :
      Then(OptionalAlias(col.pos), LAMBDA alias :
        Ok(SelectItem(agg, col.node.name = "*", col.node, alias.node), alias.pos)))

OrderItem(pos) ==
  Then(parseColumn(pos), LAMBDA col :
    IF isKeyword(col.pos, "DESC") \/ isKeyword(col.pos, "ASC")
      THEN Ok([col |-> col.node, desc |-> isKeyword(col.pos, "DESC")], col.pos + 1)
      ELSE Ok([col |-> col.node, desc |-> FALSE], col.pos))

Item(what, pos) ==
  CASE what = "select" -> parseSelectItem(pos)
    [] what = "column" -> parseColumn(pos)
    [] what = "order" -> OrderItem(pos)
    [] what = "value" -> parseValue(pos)

RECURSIVE parseList(_, _)

\* One or more items with commas in between.
parseList(what, pos) ==
  Then(Item(what, pos), LAMBDA item :
    IF Tok(item.pos).kind # "," THEN Ok(<<item.node>>, item.pos)
    ELSE Then(parseList(what, item.pos + 1), LAMBDA rest :
           Ok(<<item.node>> \o rest.node, rest.pos)))

-----------------------------------------------------------------------------
(***************************************************************************)
(* Conditions.                                                             *)
(***************************************************************************)

Logical(op, left, right) == [cond |-> op, left |-> left, right |-> right]
Not(c) == [cond |-> "NOT", of |-> c]

parsePredicate(pos) ==
  Then(parseColumn(pos), LAMBDA c :
    LET p == c.pos
        pred(cond, r, args) == Ok(Predicate(cond, c.node, args), r.pos)
    IN  CASE Tok(p).kind = "op" /\ Tok(p + 1).kind = "ident" ->
               Then(parseColumn(p + 1), LAMBDA r : pred(Tok(p).text, r, <<ColumnOperand(r.node)>>))
          [] Tok(p).kind = "op" /\ Tok(p + 1).kind # "ident" ->
               Then(parseValue(p + 1), LAMBDA r : pred(Tok(p).text, r, <<r.node>>))
          [] isKeyword(p, "IN") ->
               Then(expect(p + 1, "("), LAMBDA open :
               Then(parseList("value", open.pos), LAMBDA vals :
               Then(expect(vals.pos, ")"), LAMBDA close : pred("IN", close, vals.node))))
          [] isKeyword(p, "LIKE") ->
               Then(parseValue(p + 1), LAMBDA r :
                 IF r.node.kind = "string" THEN pred("LIKE", r, <<r.node>>) ELSE Err(p + 1))
          [] isKeyword(p, "IS") /\ isKeyword(p + 1, "NOT") ->
               Then(expectKeyword(p + 2, "NULL"), LAMBDA r : pred("IS NOT NULL", r, <<>>))
          [] isKeyword(p, "IS") /\ ~isKeyword(p + 1, "NOT") ->
               Then(expectKeyword(p + 1, "NULL"), LAMBDA r : pred("IS NULL", r, <<>>))
          [] isKeyword(p, "BETWEEN") ->
               Then(parseValue(p + 1), LAMBDA low :
               Then(expectKeyword(low.pos, "AND"), LAMBDA and :
               Then(parseValue(and.pos), LAMBDA high :
                 pred("BETWEEN", high, <<low.node, high.node>>))))
          [] OTHER -> Err(p))

RECURSIVE parseCondition(_)

parseFactor(pos) ==
  IF Tok(pos).kind # "(" THEN parsePredicate(pos)
  ELSE Then(parseCondition(pos + 1), LAMBDA c :
       Then(expect(c.pos, ")"), LAMBDA close : Ok(c.node, close.pos)))

MutantParseNotFactor(pos) ==
  IF isKeyword(pos, "NOT")
    THEN Then(parseCondition(pos + 1), LAMBDA c : Ok(Not(c.node), c.pos))
    ELSE parseFactor(pos)

parseNotFactor(pos) ==
  IF isKeyword(pos, "NOT")
    THEN Then(parseFactor(pos + 1), LAMBDA c : Ok(Not(c.node), c.pos))
    ELSE parseFactor(pos)

RECURSIVE AndRest(_)

\* The loop of parseAndTerm, with what it has so far.
AndRest(left) ==
  IF ~isKeyword(left.pos, "AND") THEN left
  ELSE Then(parseNotFactor(left.pos + 1), LAMBDA right :
         AndRest(Ok(Logical("AND", left.node, right.node), right.pos)))

parseAndTerm(pos) == Then(parseNotFactor(pos), AndRest)

RECURSIVE OrRest(_)

\* The loop of parseCondition.
OrRest(left) ==
  IF ~isKeyword(left.pos, "OR") THEN left
  ELSE Then(parseAndTerm(left.pos + 1), LAMBDA right :
         OrRest(Ok(Logical("OR", left.node, right.node), right.pos)))

MutantParseCondition(pos) ==
  Then(parseNotFactor(pos), LAMBDA left :
    IF ~(isKeyword(left.pos, "AND") \/ isKeyword(left.pos, "OR")) THEN left
    ELSE Then(parseCondition(left.pos + 1), LAMBDA right :
           Ok(Logical(Tok(left.pos).text, left.node, right.node), right.pos)))

parseCondition(pos) == Then(parseAndTerm(pos), OrRest)

-----------------------------------------------------------------------------
(***************************************************************************)
(* The query.  A clause takes the query so far and adds its part.          *)
(***************************************************************************)

NoLimit == -1

EmptyQuery ==
  [star |-> FALSE, cols |-> <<>>, from |-> None, joins |-> <<>>, where |-> None,
   group |-> <<>>, order |-> <<>>, limit |-> NoLimit, offset |-> NoLimit]

SelectClause(r) ==
  Then(expectKeyword(r.pos, "SELECT"), LAMBDA kw :
    IF Tok(kw.pos).kind = "*" THEN Ok([r.node EXCEPT !.star = TRUE], kw.pos + 1)
    ELSE Then(parseList("select", kw.pos), LAMBDA items :
           Ok([r.node EXCEPT !.cols = items.node], items.pos)))

\* A table and its alias, with AS or without.
parseTableRef(pos) ==
  Then(expect(pos, "ident"), LAMBDA name :
  Then(IF Tok(name.pos).kind = "ident" THEN expect(name.pos, "ident") ELSE OptionalAlias(name.pos),
       LAMBDA alias : Ok([name |-> name.node, alias |-> alias.node], alias.pos)))

FromClause(r) ==
  Then(expectKeyword(r.pos, "FROM"), LAMBDA kw :
  Then(parseTableRef(kw.pos), LAMBDA ref : Ok([r.node EXCEPT !.from = ref.node], ref.pos)))

\* The words of a join up to JOIN: its type and the position behind.
JoinWords(pos) ==
  LET type == IF Tok(pos).text \in {"LEFT", "RIGHT"} THEN Tok(pos).text ELSE "INNER"
      words == IF isKeyword(pos, "JOIN") THEN 0
               ELSE IF type # "INNER" /\ isKeyword(pos + 1, "OUTER") THEN 2 ELSE 1
  IN  Then(expectKeyword(pos + words, "JOIN"), LAMBDA kw : Ok(type, kw.pos))

parseJoin(pos) ==
  Then(JoinWords(pos), LAMBDA type :
  Then(parseTableRef(type.pos), LAMBDA ref :
  Then(expectKeyword(ref.pos, "ON"), LAMBDA on :
  Then(parseCondition(on.pos), LAMBDA c :
    Ok([type |-> type.node, table |-> ref.node, on |-> c.node], c.pos)))))

atJoinStart(pos) == \E kw \in {"JOIN", "INNER", "LEFT", "RIGHT"} : isKeyword(pos, kw)

RECURSIVE JoinClauses(_)

JoinClauses(r) ==
  IF ~atJoinStart(r.pos) THEN r
  ELSE Then(parseJoin(r.pos), LAMBDA j :
         JoinClauses(Ok([r.node EXCEPT !.joins = Append(@, j.node)], j.pos)))

WhereClause(r) ==
  IF ~isKeyword(r.pos, "WHERE") THEN r
  ELSE Then(parseCondition(r.pos + 1), LAMBDA c : Ok([r.node EXCEPT !.where = c.node], c.pos))

GroupClause(r) ==
  IF ~isKeyword(r.pos, "GROUP") THEN r
  ELSE Then(expectKeyword(r.pos + 1, "BY"), LAMBDA by :
       Then(parseList("column", by.pos), LAMBDA cols :
         Ok([r.node EXCEPT !.group = cols.node], cols.pos)))

OrderClause(r) ==
  IF ~isKeyword(r.pos, "ORDER") THEN r
  ELSE Then(expectKeyword(r.pos + 1, "BY"), LAMBDA by :
       Then(parseList("order", by.pos), LAMBDA items :
         Ok([r.node EXCEPT !.order = items.node], items.pos)))

parseNonNegInt(pos) ==
  Then(expect(pos, "number"), LAMBDA n : IF n.node < 0 THEN Err(pos) ELSE n)

LimitClause(r) ==
  IF ~isKeyword(r.pos, "LIMIT") THEN r
  ELSE Then(parseNonNegInt(r.pos + 1), LAMBDA n :
         IF ~isKeyword(n.pos, "OFFSET") THEN Ok([r.node EXCEPT !.limit = n.node], n.pos)
         ELSE Then(parseNonNegInt(n.pos + 1), LAMBDA m :
                Ok([r.node EXCEPT !.limit = n.node, !.offset = m.node], m.pos)))

parseQuery ==
  Then(Then(Then(Then(Then(Then(SelectClause(Ok(EmptyQuery, 1)), FromClause), JoinClauses),
       WhereClause), GroupClause), OrderClause), LimitClause)

\* Parse: the query, with nothing behind it.
ParseQuery == Then(parseQuery, LAMBDA r : IF r.pos = Len(toks) + 1 THEN r ELSE Err(r.pos))

\* The query with its effective row limit.
applyRowLimit(query) ==
  [query EXCEPT !.limit = IF @ = NoLimit THEN SqlDefaultLimit
                          ELSE IF @ > SqlMaxLimit THEN SqlMaxLimit ELSE @]

-----------------------------------------------------------------------------
(***************************************************************************)
(* Resolve.  A scope is the sequence of bindings [name, cols], and the     *)
(* output aliases of the select list.                                      *)
(***************************************************************************)

\* The places of a name in a sequence of names, without regard to case.
Places(names, n) == {i \in DOMAIN names : Lower[names[i]] = Lower[n]}

TableNames == [i \in DOMAIN Schema |-> Schema[i].name]
BindingNames(scope) == [i \in DOMAIN scope |-> scope[i].name]

\* The table as the catalog spells it, the first of several that differ in case
\* only, joins the scope under its alias or its name.
bind(scope, ref) ==
  LET found == Places(TableNames, ref.name)
      table == Schema[Min(found)]
      name == IF ref.alias # "" THEN ref.alias ELSE table.name
  IN  IF found = {} THEN Err(0)
      ELSE IF Places(BindingNames(scope), name) # {} THEN Err(0)
      ELSE Ok([scope |-> Append(scope, [name |-> name, cols |-> table.cols]),
               ref |-> [ref EXCEPT !.name = table.name]], 0)

MutantResolveCol(sc, col, allowAlias) ==
  LET holders == {i \in DOMAIN sc.scope :
                    /\ col.table # "" => Lower[sc.scope[i].name] = Lower[col.table]
                    /\ Places(sc.scope[i].cols, col.name) # {}}
      b == sc.scope[Min(holders)]
  IN  IF holders = {} THEN Err(0)
      ELSE Ok(Column(b.name, b.cols[Min(Places(b.cols, col.name))]), 0)

\* A qualified column is one of its binding; a bare name is an output alias, where
\* those are allowed, or the column of the only binding that has it.
resolveCol(sc, col, allowAlias) ==
  LET aliases == Places(sc.aliases, col.name)
      holders == {i \in DOMAIN sc.scope :
                    /\ col.table # "" => Lower[sc.scope[i].name] = Lower[col.table]
                    /\ Places(sc.scope[i].cols, col.name) # {}}
      b == sc.scope[Min(holders)]
  IN  CASE col.table = "" /\ allowAlias /\ aliases # {} -> Ok(Column("", sc.aliases[Max(aliases)]), 0)
        [] Cardinality(holders) # 1 -> Err(0)
        [] OTHER -> Ok(Column(b.name, b.cols[Min(Places(b.cols, col.name))]), 0)

RECURSIVE rewriteCondition(_, _)

rewriteCondition(sc, c) ==
  CASE c.cond \in {"AND", "OR"} ->
         Then(rewriteCondition(sc, c.left), LAMBDA left :
         Then(rewriteCondition(sc, c.right), LAMBDA right : Ok(Logical(c.cond, left.node, right.node), 0)))
    [] c.cond = "NOT" -> Then(rewriteCondition(sc, c.of), LAMBDA of : Ok(Not(of.node), 0))
    [] OTHER ->
         Then(resolveCol(sc, c.col, FALSE), LAMBDA col :
           IF c.args = <<>> \/ c.args[1].kind # "column" THEN Ok([c EXCEPT !.col = col.node], 0)
           ELSE Then(resolveCol(sc, c.args[1].col, FALSE), LAMBDA right :
                  Ok(Predicate(c.cond, col.node, <<ColumnOperand(right.node)>>), 0)))

\* A resolved part, for the places in a query: what is to be resolved, and how.
Part(sc, what, x) ==
  CASE what = "select" ->
         IF x.star THEN Ok(x, 0)
         ELSE Then(resolveCol(sc, x.col, FALSE), LAMBDA c : Ok([x EXCEPT !.col = c.node], 0))
    [] what = "join" -> Then(rewriteCondition(sc, x.on), LAMBDA c : Ok([x EXCEPT !.on = c.node], 0))
    [] what = "group" -> resolveCol(sc, x, TRUE)
    [] what = "order" -> Then(resolveCol(sc, x.col, TRUE), LAMBDA c : Ok([x EXCEPT !.col = c.node], 0))

\* All parts, or an error if one fails.
Parts(sc, what, xs) ==
  LET rs == [i \in DOMAIN xs |-> Part(sc, what, xs[i])]
  IN  IF \A i \in DOMAIN rs : rs[i].ok THEN Ok([i \in DOMAIN rs |-> rs[i].node], 0) ELSE Err(0)

\* FROM and the joined tables are bound first, from left to right.
BindAll(query) ==
  LET refs == <<query.from>> \o [i \in DOMAIN query.joins |-> query.joins[i].table]
      step(r, ref) ==
        Then(r, LAMBDA acc : Then(bind(acc.node.scope, ref), LAMBDA b :
          Ok([scope |-> b.node.scope, refs |-> Append(acc.node.refs, b.node.ref)], 0)))
  IN  FoldLeft(step, Ok([scope |-> <<>>, refs |-> <<>>], 0), refs)

OutputAliases(query) ==
  SelectSeq([i \in DOMAIN query.cols |-> query.cols[i].alias], LAMBDA a : a # "")

ResolveQuery(query) ==
  Then(BindAll(query), LAMBDA b :
    LET sc == [scope |-> b.node.scope, aliases |-> OutputAliases(query)]
        joins == [i \in DOMAIN query.joins |-> [query.joins[i] EXCEPT !.table = b.node.refs[i + 1]]]
    IN  Then(Parts(sc, "select", query.cols), LAMBDA cols :
        Then(Parts(sc, "join", joins), LAMBDA js :
        Then(IF query.where = None THEN Ok(None, 0) ELSE rewriteCondition(sc, query.where), LAMBDA where :
        Then(Parts(sc, "group", query.group), LAMBDA group :
        Then(Parts(sc, "order", query.order), LAMBDA order :
          Ok([query EXCEPT !.from = b.node.refs[1], !.cols = cols.node, !.joins = js.node,
                           !.where = where.node, !.group = group.node, !.order = order.node], 0)))))))

-----------------------------------------------------------------------------
(***************************************************************************)
(* Translate.  The conditions become expressions of the query builder; the *)
(* predicates are the subject of module Conditions.                        *)
(***************************************************************************)

RECURSIVE MutantBuildCond(_, _)

MutantBuildCond(c, negate) ==
  CASE c.cond \in {"AND", "OR"} ->
         Logical(c.cond, MutantBuildCond(c.left, negate), MutantBuildCond(c.right, negate))
    [] c.cond = "NOT" -> MutantBuildCond(c.of, ~negate)
    [] OTHER -> buildPredicate(c, negate)

RECURSIVE buildCond(_, _)

\* The negation is pushed down to the predicates by De Morgan's laws.
buildCond(c, negate) ==
  CASE c.cond \in {"AND", "OR"} ->
         Logical(buildOp(c.cond, negate), buildCond(c.left, negate), buildCond(c.right, negate))
    [] c.cond = "NOT" -> buildCond(c.of, ~negate)
    [] OTHER -> buildPredicate(c, negate)

\* The builder's (goqu) Limit: a limit of 0 takes the LIMIT clause away.
BuilderLimit(n) == IF n > 0 THEN n ELSE NoLimit

TranslateQuery(query) ==
  [query EXCEPT !.limit = BuilderLimit(@),
                !.where = IF @ = None THEN None ELSE buildCond(@, FALSE),
                !.joins = [i \in DOMAIN @ |-> [@[i] EXCEPT !.on = buildCond(@, FALSE)]]]

-----------------------------------------------------------------------------
(***************************************************************************)
(* The way of a query through the sql tool.                                *)
(***************************************************************************)

Init ==
  /\ client \in DOMAIN Clients
  /\ toks = Clients[client].start
  /\ stage = "written"
  /\ q = None

\* The client writes one more phrase.  Behind a token at which the parser fails
\* there is nothing more to learn.
Write(phrase) ==
  /\ stage = "written"
  /\ Len(toks) + Len(phrase) <= Clients[client].max
  /\ ParseQuery.ok \/ ParseQuery.pos = Len(toks) + 1
  /\ toks' = toks \o phrase
  /\ UNCHANGED <<client, stage, q>>

Parse ==
  /\ stage = "written"
  /\ stage' = IF ParseQuery.ok THEN "parsed" ELSE "syntax error"
  /\ q' = IF ParseQuery.ok THEN applyRowLimit(ParseQuery.node) ELSE None
  /\ UNCHANGED <<client, toks>>

Resolve ==
  /\ stage = "parsed"
  /\ stage' = IF ResolveQuery(q).ok THEN "resolved" ELSE "unresolved"
  /\ q' = ResolveQuery(q).node
  /\ UNCHANGED <<client, toks>>

Translate ==
  /\ stage = "resolved"
  /\ stage' = "translated"
  /\ q' = TranslateQuery(q)
  /\ UNCHANGED <<client, toks>>

Next ==
  \/ \E phrase \in Clients[client].phrases : Write(phrase)
  \/ Parse
  \/ Resolve
  \/ Translate

Spec == Init /\ [][Next]_vars

-----------------------------------------------------------------------------
(***************************************************************************)
(* The reference: what a query means, read off its tokens without a parse  *)
(* tree.  A condition is a range lo..hi of positions, split at its last    *)
(* operator of lowest precedence.                                          *)
(***************************************************************************)

ClauseWords ==
  {"FROM", "JOIN", "INNER", "LEFT", "RIGHT", "ON", "WHERE", "GROUP", "ORDER", "LIMIT", "OFFSET"}

ClauseStarts == {i \in DOMAIN toks : toks[i].kind = "kw" /\ toks[i].text \in ClauseWords}

\* The last position of the clause that begins at i.
ClauseEnd(i) == Min({j \in ClauseStarts : j > i} \cup {Len(toks) + 1}) - 1

\* The positions of the tables, and of their aliases.
TablePos == {i \in DOMAIN toks : isKeyword(i - 1, "FROM") \/ isKeyword(i - 1, "JOIN")}

\* The name a table is given, by AS or without, or its own.
TableAlias(i) ==
  IF Tok(i + 1).kind = "ident" THEN {i + 1} ELSE IF isKeyword(i + 1, "AS") THEN {i + 2} ELSE {}

Binding(i) ==
  LET table == Schema[Min(Places(TableNames, toks[i].text))]
  IN  [name |-> IF TableAlias(i) = {} THEN table.name ELSE Tok(Min(TableAlias(i))).text,
       cols |-> table.cols]

\* The positions where a reference to a column begins.
ColumnPos ==
  {i \in DOMAIN toks : toks[i].kind = "ident" /\ Tok(i - 1).kind # "." /\ ~isKeyword(i - 1, "AS")}
    \ UNION {{i} \cup TableAlias(i) : i \in TablePos}

Qualified(i) == Tok(i + 1).kind = "."

\* The columns a reference may mean, each with the name of its binding.
Meanings(i) ==
  LET name == IF Qualified(i) THEN Tok(i + 2).text ELSE toks[i].text
      having == {b \in {Binding(t) : t \in TablePos} :
                   /\ Qualified(i) => Lower[b.name] = Lower[toks[i].text]
                   /\ Places(b.cols, name) # {}}
  IN  {Column(b.name, b.cols[Min(Places(b.cols, name))]) : b \in having}

\* The output aliases written, by position.
AliasPos == {i \in DOMAIN toks : isKeyword(i - 1, "AS") /\ \A t \in TablePos : i < t}

\* Behind GROUP or ORDER a bare name may be an alias, the last one so spelled.
AliasMeant(i) ==
  {a \in AliasPos : /\ \E j \in 1..i : isKeyword(j, "GROUP") \/ isKeyword(j, "ORDER")
                    /\ ~Qualified(i) /\ Lower[toks[a].text] = Lower[toks[i].text]}

RefColumn(i) ==
  IF AliasMeant(i) # {} THEN Column("", toks[Max(AliasMeant(i))].text)
  ELSE CHOOSE c \in Meanings(i) : TRUE

\* Every table is known and has a name of its own, and every reference has one meaning.
Resolvable ==
  /\ \A i \in TablePos : Places(TableNames, toks[i].text) # {}
  /\ \A i, j \in TablePos : i # j => Lower[Binding(i).name] # Lower[Binding(j).name]
  /\ \A i \in ColumnPos : AliasMeant(i) # {} \/ Cardinality(Meanings(i)) = 1

\* The operators kw of a condition that stand outside parentheses and are not the
\* AND of a BETWEEN.
TopLevel(lo, hi, kw) ==
  {i \in lo..hi :
     /\ isKeyword(i, kw)
     /\ ~(i - 2 >= lo /\ isKeyword(i - 2, "BETWEEN"))
     /\ Cardinality({j \in lo..i : Tok(j).kind = "("}) = Cardinality({j \in lo..i : Tok(j).kind = ")"})}

\* The column at lo ends in front of this position.
Behind(lo) == IF Qualified(lo) THEN lo + 3 ELSE lo + 1

IsValue(i) ==
  Tok(i).kind \in {"string", "number"} \/ (Tok(i).kind = "kw" /\ Tok(i).text \in {"TRUE", "FALSE", "NULL"})

Literal(i) ==
  CASE Tok(i).kind \in {"string", "number"} -> Tok(i).text
    [] isKeyword(i, "TRUE") -> 1
    [] isKeyword(i, "FALSE") -> 0
    [] isKeyword(i, "NULL") -> Null

IsColumn(lo, hi) ==
  /\ Tok(lo).kind = "ident"
  /\ hi = lo \/ (hi = lo + 2 /\ Qualified(lo) /\ Tok(hi).kind = "ident")

PredicateWF(lo, hi) ==
  LET p == Behind(lo)
  IN  /\ p <= hi /\ IsColumn(lo, p - 1)
      /\ \/ Tok(p).kind = "op" /\ (IsColumn(p + 1, hi) \/ (hi = p + 1 /\ IsValue(hi)))
         \/ /\ isKeyword(p, "IN") /\ Tok(p + 1).kind = "(" /\ Tok(hi).kind = ")" /\ (hi - p) % 2 = 1
            /\ hi > p + 1
            /\ \A j \in (p + 2)..(hi - 1) : IF (j - p) % 2 = 0 THEN IsValue(j) ELSE Tok(j).kind = ","
         \/ isKeyword(p, "LIKE") /\ hi = p + 1 /\ Tok(hi).kind = "string"
         \/ isKeyword(p, "IS") /\ hi = p + 1 /\ isKeyword(hi, "NULL")
         \/ isKeyword(p, "IS") /\ hi = p + 2 /\ isKeyword(p + 1, "NOT") /\ isKeyword(hi, "NULL")
         \/ /\ isKeyword(p, "BETWEEN") /\ hi = p + 3
            /\ IsValue(p + 1) /\ isKeyword(p + 2, "AND") /\ IsValue(hi)

RECURSIVE ConditionWF(_, _)

ConditionWF(lo, hi) ==
  LET ors == TopLevel(lo, hi, "OR")
      ands == TopLevel(lo, hi, "AND")
      at == Max(IF ors # {} THEN ors ELSE ands)
  IN  IF ors \cup ands # {} THEN ConditionWF(lo, at - 1) /\ ConditionWF(at + 1, hi)
      ELSE IF isKeyword(lo, "NOT") THEN ~isKeyword(lo + 1, "NOT") /\ ConditionWF(lo + 1, hi)
      ELSE IF Tok(lo).kind = "(" THEN Tok(hi).kind = ")" /\ ConditionWF(lo + 1, hi - 1)
      ELSE PredicateWF(lo, hi)

\* A comparison with NULL, TRUE or FALSE by =, != or <> is the builder's test with IS.
PredicateMeans(lo, hi, row) ==
  LET p == Behind(lo)
      x == row[RefColumn(lo)]
      y == IF IsValue(p + 1) THEN Literal(p + 1) ELSE row[RefColumn(p + 1)]
      is == Tok(p + 1).kind = "kw" /\ Tok(p).text \in {"=", "!=", "<>"}
  IN  CASE Tok(p).kind = "op" /\ is -> Truth((x = y) = (Tok(p).text = "="))
        [] Tok(p).kind = "op" /\ ~is -> Rel3(Tok(p).text, x, y)
        [] isKeyword(p, "IN") ->
             Max({Rel3("=", x, Literal(j)) : j \in {j \in (p + 2)..(hi - 1) : IsValue(j)}})
        [] isKeyword(p, "LIKE") -> Rel3("=", x, Literal(hi))
        [] isKeyword(p, "IS") -> Truth((x = Null) # isKeyword(p + 1, "NOT"))
        [] isKeyword(p, "BETWEEN") -> And3(Rel3(">=", x, Literal(p + 1)), Rel3("<=", x, Literal(hi)))

RECURSIVE Means(_, _, _)

Means(lo, hi, row) ==
  LET ors == TopLevel(lo, hi, "OR")
      ands == TopLevel(lo, hi, "AND")
  IN  IF ors # {} THEN Or3(Means(lo, Max(ors) - 1, row), Means(Max(ors) + 1, hi, row))
      ELSE IF ands # {} THEN And3(Means(lo, Max(ands) - 1, row), Means(Max(ands) + 1, hi, row))
      ELSE IF isKeyword(lo, "NOT") THEN Not3(Means(lo + 1, hi, row))
      ELSE IF Tok(lo).kind = "(" THEN Means(lo + 1, hi - 1, row)
      ELSE PredicateMeans(lo, hi, row)

-----------------------------------------------------------------------------
(***************************************************************************)
(* What the database makes of an expression of the builder.                *)
(***************************************************************************)

RECURSIVE Eval(_, _)

Eval(e, row) ==
  IF e.cond \in {"AND", "OR"} THEN Connect(e.cond, Eval(e.left, row), Eval(e.right, row))
  ELSE PredicateValue(e, row)

-----------------------------------------------------------------------------
(***************************************************************************)
(* Properties.                                                             *)
(***************************************************************************)

\* The rows of the joined tables.
Rows ==
  LET cells == UNION {{Column(Binding(t).name, Binding(t).cols[k]) : k \in DOMAIN Binding(t).cols} : t \in TablePos}
  IN  [cells -> Numbers \cup {Null}]

\* What is sent to the database means what the client wrote: every condition, of a
\* join or of WHERE, has on every row the truth value its tokens have by precedence,
\* parentheses and three-valued logic, although NOT is gone from it and every name
\* has been replaced (parser.go:353-411, catalog.go:250-310, translate.go:157-263).
QueryMeans ==
  stage = "translated" =>
    LET starts == SetToSortSeq({i \in ClauseStarts : toks[i].text \in {"ON", "WHERE"}}, <)
        conds == [i \in DOMAIN q.joins |-> q.joins[i].on] \o (IF q.where = None THEN <<>> ELSE <<q.where>>)
    IN  /\ Len(conds) = Len(starts)
        /\ \A k \in DOMAIN conds : \A row \in Rows :
             Eval(conds[k], row) = Means(starts[k] + 1, ClauseEnd(starts[k]), row)

\* The parser takes exactly the conditions of the grammar: a WHERE clause is refused
\* only if it is none of them, and taken only if it is one (parser.go:14-16).
ParsesExactly ==
  \A i \in ClauseStarts :
    (toks[i].text = "WHERE" /\ i < Len(Clients[client].start) + 1 /\ ClauseEnd(i) = Len(toks)) =>
      /\ stage = "parsed" => ConditionWF(i + 1, Len(toks))
      /\ stage = "syntax error" => ~ConditionWF(i + 1, Len(toks))

\* "sqlMaxLimit is the hard cap on the row limit regardless of the query's own
\* LIMIT" (tool_sql.go:77): every statement sent to the database has a row limit
\* that is not above it.
LimitCapped == stage = "translated" => q.limit # NoLimit /\ q.limit <= SqlMaxLimit

\* The columns of the select list, of GROUP BY and of ORDER BY, in this order.
ListedColumns ==
  LET plain == SelectSeq(q.cols, LAMBDA c : ~c.star)
  IN  [i \in DOMAIN plain |-> plain[i].col] \o q.group \o [i \in DOMAIN q.order |-> q.order[i].col]

ListedPos ==
  {i \in ColumnPos : \A j \in ClauseStarts : toks[j].text \in {"ON", "WHERE"} => ~(i \in j..ClauseEnd(j))}

\* A query is resolved exactly if every name in it has one meaning, and then every
\* listed column is that meaning in the catalog's spelling, or the output alias
\* (catalog.go:48-52, 203-206).
ResolvedExactly ==
  /\ stage = "unresolved" => ~Resolvable
  /\ stage \in {"resolved", "translated"} =>
       LET pos == SetToSortSeq(ListedPos, <)
       IN  Resolvable /\ ListedColumns = [k \in DOMAIN pos |-> RefColumn(pos[k])]
=============================================================================
