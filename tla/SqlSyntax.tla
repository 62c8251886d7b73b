------------------------------ MODULE SqlSyntax ------------------------------
(***************************************************************************)
(* The syntax trees of the SQL front end (sql/parser.py): expressions and  *)
(* statements, as records with a field "node".                             *)
(***************************************************************************)
EXTENDS Integers, Sequences

Nothing == [node |-> "none"]
Literal(v) == [node |-> "lit", val |-> v]
Column(n) == [node |-> "col", name |-> n]
Star == [node |-> "star"]
BinOp(op, l, r) == [node |-> "bin", op |-> op, left |-> l, right |-> r]
UnaryOp(op, e) == [node |-> "un", op |-> op, expr |-> e]
InList(e, vs, neg) == [node |-> "in", expr |-> e, items |-> vs, negate |-> neg]
Like(e, p, neg) == [node |-> "like", expr |-> e, pattern |-> p, negate |-> neg]
Between(e, lo, hi, neg) == [node |-> "between", expr |-> e, low |-> lo, high |-> hi, negate |-> neg]
IsNull(e, neg) == [node |-> "isnull", expr |-> e, negate |-> neg]
FuncCall(f, args, dist) == [node |-> "fn", fn |-> f, args |-> args, distinct |-> dist]
CaseWhen(whens, else) == [node |-> "case", whens |-> whens, else |-> else]
Coalesce(args) == [node |-> "coalesce", args |-> args]
Alias(e, n) == [node |-> "alias", expr |-> e, name |-> n]
OrderBy(e, desc) == [node |-> "order", expr |-> e, desc |-> desc]
Join(type, ref, l, r) == [type |-> type, ref |-> ref, left |-> l, right |-> r]
\* The tail of a SELECT is <<HAVING, ORDER BY, LIMIT, OFFSET>>.
Select(dist, cols, from, joins, where, group, tail) ==
  [node |-> "select", distinct |-> dist, columns |-> cols, from |-> from, joins |-> joins,
   where |-> where, group_by |-> group, having |-> tail[1], order_by |-> tail[2],
   limit |-> tail[3], offset |-> tail[4]]
Insert(t, cols, rows) == [node |-> "insert", table |-> t, columns |-> cols, rows |-> rows]
Update(t, as, where) == [node |-> "update", table |-> t, assignments |-> as, where |-> where]
Delete(t, where) == [node |-> "delete", table |-> t, where |-> where]
CreateTable(t, cols) == [node |-> "create table", table |-> t, columns |-> cols]
CreateIndex(n, t, f) == [node |-> "create index", name |-> n, table |-> t, field |-> f]
Drop(what, n) == [node |-> "drop", what |-> what, name |-> n]

Comparison == {"=", "!=", "<", ">", "<=", ">="}
Aggregate == {"COUNT", "SUM", "MIN", "MAX"}
=============================================================================
