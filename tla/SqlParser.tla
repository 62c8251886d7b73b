------------------------------ MODULE SqlParser ------------------------------
(***************************************************************************)
(* The recursive descent parser (sql/parser.py) over the tokens of one     *)
(* statement.  A token is a string that says what it is; the last one is   *)
(* the end of the text.  Source is a set of syntax trees: one of them is   *)
(* written down as SQL text would be, with the fewest parentheses that its *)
(* operators need, and parsed.                                             *)
(***************************************************************************)
EXTENDS SqlSyntax, FiniteSets, SequencesExt

CONSTANTS Source      \* statements as syntax trees

VARIABLES meant, tokens
vars == <<meant, tokens>>

Ident == {"a", "b", "t", "u", "n"}
Number == {"1", "2"}
AddOps == {"+", "-"}
MulOps == {"*", "/", "%"}

\* A parser gives the node and the position behind it, or fails (SQLError).
Done(node, i) == [ok |-> TRUE, node |-> node, at |-> i]
Fail == [ok |-> FALSE, node |-> Nothing, at |-> 1]
At(i, t) == tokens[i] = t
\* The next parser goes on from r; what has failed stays failed.
Then(r, Next2(_, _)) == IF r.ok THEN Next2(r.node, r.at) ELSE Fail
Expect(i, t, r) == IF At(i, t) THEN r ELSE Fail
IdentAt(i) == IF tokens[i] \in Ident THEN Done(tokens[i], i + 1) ELSE Fail
NumberAt(i) == IF tokens[i] \in Number THEN Done(tokens[i], i + 1) ELSE Fail
\* An optional clause: P behind the word t, or the node that stands for nothing.
Clause(t, P(_), none, i) == IF At(i, t) THEN P(i + 1) ELSE Done(none, i)
\* One or more of P with commas between them; and such a list in parentheses.
ListOf(P(_), i) ==
  LET items[j \in DOMAIN tokens] ==
        Then(P(j), LAMBDA x, k :
          IF At(k, ",") THEN Then(items[k + 1], LAMBDA xs, m : Done(<<x>> \o xs, m))
                        ELSE Done(<<x>>, k))
  IN items[i]
Parenthesized(P(_), i) ==
  Expect(i, "(", Then(ListOf(P, i + 1), LAMBDA xs, j : Expect(j, ")", Done(xs, j + 1))))

-----------------------------------------------------------------------------
(* Expressions: levels 1 OR, 2 AND, 3 NOT, 4 comparison, 5 sum, 6 product, *)
(* 7 sign, 8 primary.                                                      *)

RECURSIVE Level(_, _), Rest(_, _, _), Compare(_, _), Whens(_, _)
Expr(i) == Level(1, i)

OpsOf(n) == CASE n = 1 -> {"OR"} [] n = 2 -> {"AND"} [] n = 5 -> AddOps [] n = 6 -> MulOps

\* Mutant: the operators of a level group to the right.
RestRight(n, left, i) ==
  IF tokens[i] \in OpsOf(n) /\ ~(At(i, "*") /\ At(i + 1, "FROM"))
  THEN Then(Level(n, i + 1), LAMBDA right, j : Done(BinOp(tokens[i], left, right), j))
  ELSE Done(left, i)

\* The operators of a level group to the left; a star before FROM is none.
Rest(n, left, i) ==
  IF tokens[i] \in OpsOf(n) /\ ~(At(i, "*") /\ At(i + 1, "FROM"))
  THEN Then(Level(n + 1, i + 1), LAMBDA right, j : Rest(n, BinOp(tokens[i], left, right), j))
  ELSE Done(left, i)

\* IN, BETWEEN and LIKE, after a NOT or not.
Membership(left, i, neg) ==
  CASE At(i, "IN") -> Then(Parenthesized(Expr, i + 1), LAMBDA vs, j : Done(InList(left, vs, neg), j))
    [] At(i, "BETWEEN") ->
         Then(Level(5, i + 1), LAMBDA lo, j :
           Expect(j, "AND", Then(Level(5, j + 1), LAMBDA hi, k : Done(Between(left, lo, hi, neg), k))))
    [] At(i, "LIKE") -> Then(Level(5, i + 1), LAMBDA p, j : Done(Like(left, p, neg), j))

Compare(left, i) ==
  CASE At(i, "IS") -> LET neg == At(i + 1, "NOT")
                          j == IF neg THEN i + 2 ELSE i + 1
                      IN Expect(j, "NULL", Done(IsNull(left, neg), j + 1))
    [] tokens[i] \in {"IN", "BETWEEN", "LIKE"} -> Membership(left, i, FALSE)
    [] At(i, "NOT") /\ tokens[i + 1] \in {"IN", "BETWEEN", "LIKE"} -> Membership(left, i + 1, TRUE)
    [] tokens[i] \in Comparison ->
         Then(Level(5, i + 1), LAMBDA right, j : Done(BinOp(tokens[i], left, right), j))
    [] OTHER -> Done(left, i)

Function(i) ==
  LET dist == At(i + 1, "DISTINCT")
      j == IF dist THEN i + 2 ELSE i + 1
  IN IF At(j, "(") /\ At(j + 1, "*")
     THEN Expect(j + 2, ")", Done(FuncCall(tokens[i], <<Star>>, dist), j + 3))
     ELSE Then(Parenthesized(Expr, j), LAMBDA es, k : Done(FuncCall(tokens[i], es, dist), k))

Whens(ws, i) ==
  CASE At(i, "WHEN") ->
         Then(Expr(i + 1), LAMBDA c, j :
           Expect(j, "THEN", Then(Expr(j + 1), LAMBDA r, k : Whens(Append(ws, <<c, r>>), k))))
    [] At(i, "ELSE") ->
         Then(Expr(i + 1), LAMBDA e, j : Expect(j, "END", Done(CaseWhen(ws, e), j + 1)))
    [] OTHER -> Expect(i, "END", Done(CaseWhen(ws, Nothing), i + 1))

Coalesced(i) == Then(Parenthesized(Expr, i), LAMBDA es, j : Done(Coalesce(es), j))

Primary(i) ==
  CASE tokens[i] \in Number \cup {"NULL"} -> Done(Literal(tokens[i]), i + 1)
    [] At(i, "CASE") -> Whens(<<>>, i + 1)
    [] At(i, "COALESCE") -> Coalesced(i + 1)
    [] tokens[i] \in Aggregate \/ (tokens[i] \in Ident /\ At(i + 1, "(")) -> Function(i)
    [] tokens[i] \in Ident /\ ~At(i + 1, "(") -> Done(Column(tokens[i]), i + 1)
    [] At(i, "(") -> Then(Expr(i + 1), LAMBDA e, j : Expect(j, ")", Done(e, j + 1)))
    [] At(i, "*") -> Done(Star, i + 1)
    [] OTHER -> Fail

Sign(i) ==
  IF tokens[i] \in AddOps
  THEN Then(Level(7, i + 1), LAMBDA e, j : Done(UnaryOp(tokens[i], e), j))
  ELSE Primary(i)

Level(n, i) ==
  CASE n = 3 -> IF At(i, "NOT")
                THEN Then(Level(3, i + 1), LAMBDA e, j : Done(UnaryOp("NOT", e), j))
                ELSE Level(4, i)
    [] n = 4 -> Then(Level(5, i), Compare)
    [] n = 7 -> Sign(i)
    [] OTHER -> Then(Level(n + 1, i), LAMBDA left, j : Rest(n, left, j))

-----------------------------------------------------------------------------
(* Statements.                                                             *)

\* A name behind AS, or without it; "" for none.
AliasAt(i) == IF At(i, "AS") THEN IdentAt(i + 1)
              ELSE IF tokens[i] \in Ident THEN IdentAt(i) ELSE Done("", i)

SelectColumn(i) ==
  IF At(i, "*") THEN Done(Star, i + 1)
  ELSE Then(Expr(i), LAMBDA e, j :
         Then(AliasAt(j), LAMBDA n, k : Done(IF n = "" THEN e ELSE Alias(e, n), k)))

TableRef(i) ==
  Then(IdentAt(i), LAMBDA t, j : Then(AliasAt(j), LAMBDA n, k : Done(<<t, n>>, k)))

JoinWord == {"JOIN", "INNER", "LEFT", "RIGHT"}

\* The condition of a join is left = right, each side of it an expression.
JoinOn(type, ref, i) ==
  Expect(i, "ON", Then(Expr(i + 1), LAMBDA l, j :
    Expect(j, "=", Then(Expr(j + 1), LAMBDA r, k : Done(Join(type, ref, l, r), k)))))

JoinAt(i) ==
  LET type == IF At(i, "JOIN") THEN "INNER" ELSE tokens[i]
      outer == tokens[i] \in {"LEFT", "RIGHT"} /\ At(i + 1, "OUTER")
      j == CASE At(i, "JOIN") -> i [] outer -> i + 2 [] OTHER -> i + 1
  IN Expect(j, "JOIN", Then(TableRef(j + 1), LAMBDA ref, k : JoinOn(type, ref, k)))

Joins(i) ==
  LET more[j \in DOMAIN tokens] ==
        IF tokens[j] \in JoinWord
        THEN Then(JoinAt(j), LAMBDA x, k : Then(more[k], LAMBDA xs, m : Done(<<x>> \o xs, m)))
        ELSE Done(<<>>, j)
  IN more[i]

OrderItem(i) ==
  Then(Expr(i), LAMBDA e, j :
    Done(OrderBy(e, At(j, "DESC")), IF tokens[j] \in {"ASC", "DESC"} THEN j + 1 ELSE j))

\* GROUP BY and ORDER BY: a list behind two words.
ListBy(t, P(_), i) == Clause(t, LAMBDA j : Expect(j, "BY", ListOf(P, j + 1)), <<>>, i)

SelectTail(i) == \* HAVING, ORDER BY, LIMIT and OFFSET
  Then(Clause("HAVING", Expr, Nothing, i), LAMBDA h, j :
    Then(ListBy("ORDER", OrderItem, j), LAMBDA o, k :
      Then(Clause("LIMIT", NumberAt, "", k), LAMBDA l, m :
        Then(Clause("OFFSET", NumberAt, "", m), LAMBDA f, q : Done(<<h, o, l, f>>, q)))))

SelectStatement(i) ==
  LET dist == At(i, "DISTINCT")
  IN Then(ListOf(SelectColumn, IF dist THEN i + 1 ELSE i), LAMBDA cols, j :
       Then(Clause("FROM", TableRef, <<"", "">>, j), LAMBDA from, k :
         Then(Joins(k), LAMBDA joins, m :
           Then(Clause("WHERE", Expr, Nothing, m), LAMBDA w, q :
             Then(ListBy("GROUP", IdentAt, q), LAMBDA g, r :
               Then(SelectTail(r), LAMBDA t, z :
                 Done(Select(dist, cols, from, joins, w, g, t), z)))))))

InsertStatement(i) ==
  Expect(i, "INTO", Then(IdentAt(i + 1), LAMBDA t, j :
    Then(IF At(j, "(") THEN Parenthesized(IdentAt, j) ELSE Done(<<>>, j), LAMBDA cols, k :
      Expect(k, "VALUES",
        Then(ListOf(LAMBDA m : Parenthesized(Expr, m), k + 1), LAMBDA rows, q :
          Done(Insert(t, cols, rows), q))))))

Assignment(i) ==
  Then(IdentAt(i), LAMBDA c, j :
    Expect(j, "=", Then(Expr(j + 1), LAMBDA e, k : Done(<<c, e>>, k))))

UpdateStatement(i) ==
  Then(IdentAt(i), LAMBDA t, j :
    Expect(j, "SET", Then(ListOf(Assignment, j + 1), LAMBDA as, k :
      Then(Clause("WHERE", Expr, Nothing, k), LAMBDA w, m : Done(Update(t, as, w), m)))))

DeleteStatement(i) ==
  Expect(i, "FROM", Then(IdentAt(i + 1), LAMBDA t, j :
    Then(Clause("WHERE", Expr, Nothing, j), LAMBDA w, k : Done(Delete(t, w), k))))

ColumnDef(i) == Then(IdentAt(i), LAMBDA c, j : Then(IdentAt(j), LAMBDA ty, k : Done(<<c, ty>>, k)))

CreateStatement(i) ==
  CASE At(i, "TABLE") ->
         Then(IdentAt(i + 1), LAMBDA t, j :
           Then(IF At(j, "(") THEN Parenthesized(ColumnDef, j) ELSE Done(<<>>, j), LAMBDA cs, k :
             Done(CreateTable(t, cs), k)))
    [] At(i, "INDEX") ->
         Then(IdentAt(i + 1), LAMBDA n, j :
           Expect(j, "ON", Then(IdentAt(j + 1), LAMBDA t, k :
             Expect(k, "(", Then(IdentAt(k + 1), LAMBDA f, m :
               Expect(m, ")", Done(CreateIndex(n, t, f), m + 1)))))))
    [] OTHER -> Fail

DropStatement(i) ==
  IF tokens[i] \in {"TABLE", "INDEX"}
  THEN Then(IdentAt(i + 1), LAMBDA n, j : Done(Drop(tokens[i], n), j))
  ELSE Fail

Parse ==
  CASE At(1, "SELECT") -> SelectStatement(2)
    [] At(1, "INSERT") -> InsertStatement(2)
    [] At(1, "UPDATE") -> UpdateStatement(2)
    [] At(1, "DELETE") -> DeleteStatement(2)
    [] At(1, "CREATE") -> CreateStatement(2)
    [] At(1, "DROP") -> DropStatement(2)
    [] OTHER -> Fail

-----------------------------------------------------------------------------
(* The text that is meant by a syntax tree: the words of an expression,    *)
(* in parentheses if its operator binds less than its place asks for.      *)

RECURSIVE Text(_, _)
LevelOf(e) ==
  CASE e.node = "bin" -> (CHOOSE n \in {1, 2, 4, 5, 6} : e.op \in IF n = 4 THEN Comparison ELSE OpsOf(n))
    [] e.node = "un" -> IF e.op = "NOT" THEN 3 ELSE 7
    [] e.node \in {"in", "like", "between", "isnull"} -> 4
    [] OTHER -> 8

Commas(texts) == IF texts = <<>> THEN <<>>
                 ELSE Head(texts) \o FoldLeft(LAMBDA s, t : s \o <<",">> \o t, <<>>, Tail(texts))
Words(ws, t) == IF t = <<>> THEN <<>> ELSE ws \o t
Texts(es) == Commas([i \in DOMAIN es |-> Text(es[i], 1)])
In(es) == <<"(">> \o Texts(es) \o <<")">>
Not(e) == IF e.negate THEN <<"NOT">> ELSE <<>>

Bare(e) ==
  CASE e.node = "lit" -> <<e.val>>
    [] e.node = "col" -> <<e.name>>
    [] e.node = "star" -> <<"*">>
    [] e.node = "bin" -> LET n == LevelOf(e)
                         IN Text(e.left, IF n = 4 THEN 5 ELSE n) \o <<e.op>> \o Text(e.right, n + 1)
    [] e.node = "un" -> <<e.op>> \o Text(e.expr, LevelOf(e))
    [] e.node = "in" -> Text(e.expr, 5) \o Not(e) \o <<"IN">> \o In(e.items)
    [] e.node = "like" -> Text(e.expr, 5) \o Not(e) \o <<"LIKE">> \o Text(e.pattern, 5)
    [] e.node = "between" -> Text(e.expr, 5) \o Not(e) \o <<"BETWEEN">> \o Text(e.low, 5)
                               \o <<"AND">> \o Text(e.high, 5)
    [] e.node = "isnull" -> Text(e.expr, 5) \o <<"IS">> \o Not(e) \o <<"NULL">>
    [] e.node = "fn" -> <<e.fn>> \o In(e.args)
    [] e.node = "coalesce" -> <<"COALESCE">> \o In(e.args)
    [] e.node = "case" ->
         <<"CASE">> \o FoldLeft(LAMBDA s, w : s \o <<"WHEN">> \o Text(w[1], 1) \o <<"THEN">> \o Text(w[2], 1),
                                <<>>, e.whens)
           \o (IF e.else = Nothing THEN <<>> ELSE <<"ELSE">> \o Text(e.else, 1)) \o <<"END">>
    [] e.node = "alias" -> Text(e.expr, 1) \o <<"AS", e.name>>

Text(e, n) == IF LevelOf(e) >= n THEN Bare(e) ELSE <<"(">> \o Bare(e) \o <<")">>

OptText(w, e) == IF e = Nothing THEN <<>> ELSE <<w>> \o Text(e, 1)
OptName(w, n) == IF n = "" THEN <<>> ELSE <<w, n>>
Names(ns) == Commas([i \in DOMAIN ns |-> <<ns[i]>>])
Ref(ref) == <<ref[1]>> \o OptName("AS", ref[2])

SelectText(s) ==
  <<"SELECT">> \o (IF s.distinct THEN <<"DISTINCT">> ELSE <<>>) \o Texts(s.columns)
    \o (IF s.from[1] = "" THEN <<>> ELSE <<"FROM">> \o Ref(s.from))
    \o FoldLeft(LAMBDA t, j : t \o (IF j.type = "INNER" THEN <<>> ELSE <<j.type, "OUTER">>) \o <<"JOIN">>
                  \o Ref(j.ref) \o <<"ON">> \o Text(j.left, 5) \o <<"=">> \o Text(j.right, 5), <<>>, s.joins)
    \o OptText("WHERE", s.where) \o Words(<<"GROUP", "BY">>, Names(s.group_by)) \o OptText("HAVING", s.having)
    \o Words(<<"ORDER", "BY">>, Commas([i \in DOMAIN s.order_by |->
                  Text(s.order_by[i].expr, 1) \o (IF s.order_by[i].desc THEN <<"DESC">> ELSE <<>>)]))
    \o OptName("LIMIT", s.limit) \o OptName("OFFSET", s.offset)

Listed(ns) == IF ns = <<>> THEN <<>> ELSE <<"(">> \o ns \o <<")">>
StatementText(s) ==
  CASE s.node = "select" -> SelectText(s)
    [] s.node = "insert" -> <<"INSERT", "INTO", s.table>> \o Listed(Names(s.columns)) \o <<"VALUES">>
                              \o Commas([i \in DOMAIN s.rows |-> In(s.rows[i])])
    [] s.node = "update" -> <<"UPDATE", s.table, "SET">>
                              \o Commas([i \in DOMAIN s.assignments |->
                                           <<s.assignments[i][1], "=">> \o Text(s.assignments[i][2], 1)])
                              \o OptText("WHERE", s.where)
    [] s.node = "delete" -> <<"DELETE", "FROM", s.table>> \o OptText("WHERE", s.where)
    [] s.node = "create table" -> <<"CREATE", "TABLE", s.table>>
                                    \o Listed(Commas([i \in DOMAIN s.columns |-> s.columns[i]]))
    [] s.node = "create index" -> <<"CREATE", "INDEX", s.name, "ON", s.table, "(", s.field, ")">>
    [] s.node = "drop" -> <<"DROP", s.what, s.name>>

-----------------------------------------------------------------------------
Init == meant = Nothing /\ tokens = <<"">>

Submit == /\ meant = Nothing
          /\ meant' \in Source
          /\ tokens' = Append(StatementText(meant'), "")

Next == Submit

Spec == Init /\ [][Next]_vars

\* The parser gives back the statement whose text it was given, to the last
\* token: operators bind as in SQL, also after NOT, in BETWEEN and in CASE.
ParsesWhatWasMeant ==
  meant # Nothing => Parse = Done(meant, Len(tokens))

\* Every join of the grammar can be written (README.md:40, "Standard INNER,
\* LEFT, and RIGHT JOIN implementations").
JoinsParse == meant # Nothing => Parse.ok
=============================================================================
