----------------------------- MODULE MCSqlTool -----------------------------
(***************************************************************************)
(* One PostgreSQL database, queries with every kind of limit, a join, and  *)
(* requests that are refused.                                              *)
(***************************************************************************)
EXTENDS SqlTool, TLC

Req(tool, alias, valid, tables, limit) ==
  [tool |-> tool, db |-> alias, valid |-> valid, tables |-> tables,
   column |-> "k", limit |-> limit]

AllRequests ==
  {Req("sql", "app", TRUE, <<"t">>, l) : l \in {NoLimit, 0, 2, 3}}
    \cup {Req("sql", "APP", TRUE, <<"t", "u">>, NoLimit),
          Req("db-tables", "app", TRUE, << >>, NoLimit),
          Req("db-schema", "app", TRUE, <<"u">>, NoLimit),
          Req("db-list", "app", TRUE, << >>, NoLimit),
          Req("sql", "other", TRUE, <<"t">>, NoLimit),
          Req("sql", "app", FALSE, <<"t">>, NoLimit)}

\* The second client competes for the connection with a join or a listing.
CONSTANTS h1, h2

MCRequests ==
  h1 :> AllRequests
    @@ h2 :> {Req("sql", "APP", TRUE, <<"t", "u">>, NoLimit),
              Req("db-schema", "app", TRUE, <<"u">>, NoLimit)}

MCLower == "app" :> "app" @@ "APP" :> "app" @@ "other" :> "other"

Table(c, n) == [cols |-> c, rows |-> n]

MCContents == {Absent, Table({"k"}, 1), Table({"k", "l"}, 3), Table({"l"}, 0)}

MCInitialDB == [a \in {"app"} |-> [t \in {"t", "u"} |->
  IF t = "t" THEN Table({"k"}, 1) ELSE Table({"l"}, 0)]]
=============================================================================
