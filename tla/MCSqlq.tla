------------------------------- MODULE MCSqlq -------------------------------
(***************************************************************************)
(* The query language for TLC: two tables that share a column name but for *)
(* its case, and six clients, each of which explores a part of the        *)
(* grammar.                                                                *)
(***************************************************************************)
EXTENDS Sqlq

Kw(w) == [kind |-> "kw", text |-> w]
Id(n) == [kind |-> "ident", text |-> n]
Num(n) == [kind |-> "number", text |-> n]
Str(n) == [kind |-> "string", text |-> n]
Op(o) == [kind |-> "op", text |-> o]
Sign(p) == [kind |-> p, text |-> p]

MCSchema == <<[name |-> "T", cols |-> <<"a", "B">>], [name |-> "u", cols |-> <<"A">>]>>

MCLower == [n \in {"a", "A", "b", "B", "t", "T", "u", "x", "X"} |->
  CASE n \in {"a", "A"} -> "a"
    [] n \in {"b", "B"} -> "b"
    [] n \in {"t", "T"} -> "t"
    [] n \in {"x", "X"} -> "x"
    [] OTHER -> n]

Select == <<Kw("SELECT")>>
FromT == <<Kw("FROM"), Id("t")>>
WhereT == Select \o <<Sign("*")>> \o FromT \o <<Kw("WHERE")>>
Qual(t, n) == <<Id(t), Sign("."), Id(n)>>

Singles(tokens) == {<<t>> : t \in tokens}

\* Conditions written token by token.
Tokens ==
  [start |-> WhereT,
   phrases |-> Singles({Id("a"), Id("b"), Num(1), Op("="), Op(">="), Kw("AND"), Kw("OR"),
                        Kw("NOT"), Kw("NULL"), Sign("("), Sign(")")}),
   max |-> 12]

\* Nested conditions, written predicate by predicate.
Nesting ==
  [start |-> WhereT,
   phrases |-> Singles({Kw("AND"), Kw("OR"), Kw("NOT"), Sign("("), Sign(")")})
               \cup {<<Id("a"), Op("="), Num(1)>>, <<Id("b"), Op("<"), Id("a")>>},
   max |-> 17]

\* All predicates on a column, below NOT.
Predicates ==
  [start |-> WhereT \o <<Kw("NOT"), Id("a")>>,
   phrases |-> Singles({Kw("IN"), Kw("LIKE"), Kw("IS"), Kw("BETWEEN"), Kw("AND"), Kw("NOT"),
                        Kw("NULL"), Kw("TRUE"), Kw("FALSE"), Num(0), Num(1), Str(1), Sign(","), Sign("("),
                        Sign(")"), Op("="), Op("!="), Op("<>"), Op("<"), Op("<="), Op(">"), Op(">=")}),
   max |-> 13]

\* Joins, with tables under their own names and under aliases.
Joins ==
  [start |-> Select \o <<Sign("*")>> \o FromT,
   phrases |-> {<<Id("x")>>, <<Kw("AS"), Id("u")>>, <<Kw("JOIN"), Id("u")>>,
                <<Kw("LEFT"), Kw("OUTER"), Kw("JOIN"), Id("T"), Id("X")>>,
                <<Kw("INNER"), Kw("JOIN"), Id("x")>>, <<Kw("ON")>>, <<Kw("WHERE")>>, <<Op("=")>>,
                <<Id("a")>>, <<Id("b")>>, Qual("u", "a"), Qual("x", "b")},
   max |-> 17]

\* Select lists.
Lists ==
  [start |-> Select,
   phrases |-> {<<Id("a")>>, <<Id("b")>>, Qual("t", "A"), <<Kw("COUNT"), Sign("("), Sign("*"), Sign(")")>>,
                <<Kw("SUM"), Sign("("), Id("a"), Sign(")")>>, <<Kw("MAX"), Sign("("), Sign("*")>>,
                <<Sign("*")>>, <<Sign(",")>>, <<Kw("AS"), Id("X")>>, <<Id("x")>>, FromT,
                <<Kw("ORDER"), Kw("BY")>>},
   max |-> 12]

\* Grouping, sorting and limits, on joined tables.
Sorting ==
  [start |-> Select \o <<Id("b"), Kw("AS"), Id("X")>> \o FromT
             \o <<Kw("RIGHT"), Kw("JOIN"), Id("u"), Kw("ON"), Id("b"), Op("="), Num(1)>>,
   phrases |-> {<<Kw("GROUP"), Kw("BY")>>, <<Kw("ORDER"), Kw("BY")>>, <<Id("a")>>, <<Id("b")>>,
                <<Id("x")>>, Qual("t", "A"), <<Sign(",")>>, <<Kw("DESC")>>, <<Kw("LIMIT"), Num(1)>>,
                <<Kw("LIMIT"), Num(-1)>>, <<Kw("OFFSET"), Num(0)>>},
   max |-> 20]

\* Queries with any row limit.
Limits ==
  [start |-> Select \o <<Sign("*")>> \o FromT,
   phrases |-> {<<Kw("LIMIT")>>} \cup Singles({Num(n) : n \in 0..4}),
   max |-> 6]

LimitClients == [limits |-> Limits]

MCClients ==
  [tokens |-> Tokens, nesting |-> Nesting, predicates |-> Predicates, joins |-> Joins, lists |-> Lists,
   sorting |-> Sorting]
=============================================================================
