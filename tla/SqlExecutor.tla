---------------------------- MODULE SqlExecutor ----------------------------
(***************************************************************************)
(* sql/executor.py over one table: the evaluation of expressions, the      *)
(* pipeline of a SELECT, and clients whose INSERT, UPDATE and DELETE write *)
(* their records one call after the other, each call under the core's lock.*)
(*                                                                         *)
(* A missing field and NULL read alike.  True and False are 1 and 0, which *)
(* Python takes them for.  Texts, LIKE, AVG and "/" are left out, and so   *)
(* are joins, which the parser never lets through.                         *)
(***************************************************************************)
EXTENDS SqlSyntax, FiniteSets, SequencesExt, TLC

CONSTANTS Null, Client,
          Field,        \* the columns of the table
          Tables,       \* what the table can have at the start
          Statement,    \* what the clients execute
          MaxStarts,    \* bound on the statements that are started
          Condition     \* conditions the properties select rows by

VARIABLES exists,
          table,    \* the rows in the order of their insertion, with their ids
          nextId, started,
          job       \* job[c]: the statement c is executing

vars == <<exists, table, nextId, started, job>>

-----------------------------------------------------------------------------
(* Expressions over a row, a function from names to values.                *)

Bool(b) == IF b THEN 1 ELSE 0
True(v) == v \notin {0, Null}
OrZero(v) == IF v = Null THEN 0 ELSE v
OrOne(v) == IF v \in {0, Null} THEN 1 ELSE v

\* Mutant: NULL is at least and at most everything.
ApplyOpNullEqual(l, op, r) ==
  CASE op = "=" -> Bool(l = r)
    [] op = "!=" -> Bool(l # r)
    [] op = "<" -> Bool(OrZero(l) < OrZero(r))
    [] op = ">" -> Bool(OrZero(l) > OrZero(r))
    [] op = "<=" -> Bool(OrZero(l) <= OrZero(r))
    [] op = ">=" -> Bool(OrZero(l) >= OrZero(r))
    [] op = "+" -> OrZero(l) + OrZero(r)
    [] op = "-" -> OrZero(l) - OrZero(r)
    [] op = "*" -> OrZero(l) * OrZero(r)
    [] op = "%" -> OrZero(l) % OrOne(r)

ApplyOp(l, op, r) ==
  CASE op = "=" -> Bool(l = r)
    [] op = "!=" -> Bool(l # r)
    [] op \in Comparison \ {"=", "!="} ->
         Bool(/\ l # Null /\ r # Null
              /\ CASE op = "<" -> l < r [] op = ">" -> l > r [] op = "<=" -> l <= r [] op = ">=" -> l >= r)
    [] op = "+" -> OrZero(l) + OrZero(r)
    [] op = "-" -> OrZero(l) - OrZero(r)
    [] op = "*" -> OrZero(l) * OrZero(r)
    [] op = "%" -> OrZero(l) % OrOne(r)

RECURSIVE Eval(_, _)

NonNull(e, rows) == SelectSeq([i \in DOMAIN rows |-> Eval(e, rows[i])], LAMBDA v : v # Null)
Sum(vs) == FoldLeft(LAMBDA x, y : x + y, 0, vs)

\* _eval_aggregate: a function over the rows, else the first row's value.
Agg(f, rows) ==
  CASE f.node # "fn" -> IF rows = <<>> THEN Null ELSE Eval(f, rows[1])
    [] f.node = "fn" /\ f.args[1] = Star -> Len(rows)
    [] OTHER ->
         LET all == NonNull(f.args[1], rows)
             vs == IF f.distinct THEN SetToSeq(ToSet(all)) ELSE all
         IN CASE f.fn = "COUNT" -> Len(vs)
              [] vs = <<>> -> Null
              [] f.fn = "SUM" -> Sum(vs)
              [] f.fn = "MIN" -> CHOOSE v \in ToSet(vs) : \A w \in ToSet(vs) : v <= w
              [] f.fn = "MAX" -> CHOOSE v \in ToSet(vs) : \A w \in ToSet(vs) : v >= w

FirstOr(vs, none) == IF vs = <<>> THEN none ELSE vs[1]

Eval(e, row) ==
  LET V(x) == Eval(x, row)
      Negated(b) == Bool(b # e.negate)
  IN CASE e.node = "lit" -> e.val
       [] e.node = "col" -> IF e.name \in DOMAIN row THEN row[e.name] ELSE Null
       [] e.node = "bin" /\ e.op = "AND" -> Bool(True(V(e.left)) /\ True(V(e.right)))
       [] e.node = "bin" /\ e.op = "OR" -> Bool(True(V(e.left)) \/ True(V(e.right)))
       [] e.node = "bin" /\ e.op \notin {"AND", "OR"} -> ApplyOp(V(e.left), e.op, V(e.right))
       [] e.node = "un" /\ e.op = "NOT" -> Bool(~True(V(e.expr)))
       [] e.node = "un" /\ e.op = "-" -> IF V(e.expr) = Null THEN Null ELSE -V(e.expr)
       [] e.node = "in" -> Negated(\E i \in DOMAIN e.items : V(e.items[i]) = V(e.expr))
       [] e.node = "between" -> IF Null \in {V(e.expr), V(e.low), V(e.high)} THEN 0
                                ELSE Negated(V(e.low) <= V(e.expr) /\ V(e.expr) <= V(e.high))
       [] e.node = "isnull" -> Negated(V(e.expr) = Null)
       [] e.node = "fn" -> Agg(e, <<row>>)
       [] e.node = "coalesce" -> FirstOr(SelectSeq([i \in DOMAIN e.args |-> V(e.args[i])],
                                                   LAMBDA v : v # Null), Null)
       [] e.node = "case" -> LET w == SelectSeq(e.whens, LAMBDA x : True(V(x[1])))
                             IN CASE w # <<>> -> V(w[1][2])
                                  [] w = <<>> /\ e.else # Nothing -> V(e.else)
                                  [] OTHER -> Null
       [] OTHER -> Null

-----------------------------------------------------------------------------
(* SELECT.                                                                 *)

Matching(where, rows) == IF where = Nothing THEN rows ELSE SelectSeq(rows, LAMBDA r : True(Eval(where, r)))

NameOf(c) ==
  CASE c.node = "alias" -> c.name [] c.node = "col" -> c.name [] c.node = "fn" -> c.fn
    [] c.node = "case" -> "case" [] c.node = "coalesce" -> "coalesce" [] c.node = "bin" -> "expr"
    [] OTHER -> "col"

Body(c) == IF c.node = "alias" THEN c.expr ELSE c

ProjectRow(row, cols) ==
  FoldLeft(LAMBDA out, c : IF c = Star THEN out @@ row ELSE (NameOf(c) :> Eval(Body(c), row)) @@ out,
           <<>>, cols)

Distinct(s) == FoldLeft(LAMBDA seen, r : IF Contains(seen, r) THEN seen ELSE Append(seen, r), <<>>, s)

\* _sort_key: NULL is behind everything.
KeyLess(u, v) == \/ u # Null /\ v = Null
                 \/ u # Null /\ v # Null /\ u < v

\* list.sort with its promise to keep the order of what is equal, "reverse"
\* included.
Sorted(s, Key(_), desc) ==
  LET Before(x, y) == IF desc THEN KeyLess(Key(y), Key(x)) ELSE KeyLess(Key(x), Key(y))
      Place(i) == Cardinality({j \in DOMAIN s : Before(s[j], s[i]) \/ (~Before(s[i], s[j]) /\ j <= i)})
  IN [k \in DOMAIN s |-> s[CHOOSE i \in DOMAIN s : Place(i) = k]]

\* Mutant: the first key is sorted by first.
SortByFirst(s, orders) ==
  FoldLeft(LAMBDA rows, o : Sorted(rows, LAMBDA r : Eval(o.expr, r), o.desc), s, orders)

\* The last key first: the sorts are stable.
SortBy(s, orders) ==
  FoldRight(LAMBDA o, rows : Sorted(rows, LAMBDA r : Eval(o.expr, r), o.desc), orders, s)

\* Mutant: LIMIT is applied before OFFSET.
PageLimitFirst(s, limit, offset) ==
  LET first == IF limit = Nothing THEN s ELSE SubSeq(s, 1, IF limit.val < Len(s) THEN limit.val ELSE Len(s))
  IN SubSeq(first, offset + 1, Len(first))

Page(s, limit, offset) ==
  LET rest == SubSeq(s, offset + 1, Len(s))
  IN IF limit = Nothing THEN rest ELSE SubSeq(rest, 1, IF limit.val < Len(rest) THEN limit.val ELSE Len(rest))

\* Mutant: rows are grouped by the first column only.
GroupsFirst(group, rows) ==
  LET keys == Distinct([i \in DOMAIN rows |-> Eval(Column(group[1]), rows[i])])
  IN [k \in DOMAIN keys |-> SelectSeq(rows, LAMBDA r : Eval(Column(group[1]), r) = keys[k])]

Groups(group, rows) ==
  LET KeyOf(r) == [i \in DOMAIN group |-> Eval(Column(group[i]), r)]
      keys == Distinct([i \in DOMAIN rows |-> KeyOf(rows[i])])
  IN IF group = <<>> THEN <<rows>>
     ELSE [k \in DOMAIN keys |-> SelectSeq(rows, LAMBDA r : KeyOf(r) = keys[k])]

\* One row of an aggregate query: the columns it is grouped by, then the
\* aliases, functions and columns selected.
GroupRow(s, rows) ==
  FoldLeft(LAMBDA out, c : IF c.node \in {"alias", "fn", "col"} THEN (NameOf(c) :> Agg(Body(c), rows)) @@ out
                           ELSE out,
           FoldLeft(LAMBDA out, g : (g :> Eval(Column(g), rows[1])) @@ out, <<>>, s.group_by), s.columns)

Raised == <<"IndexError">>

\* Only a bare column is sorted by, and OFFSET is not looked at.
ExecuteAggregate(s, rows) ==
  IF rows = <<>> /\ s.group_by = <<>> /\ \E i \in DOMAIN s.columns : s.columns[i].node = "col"
  THEN Raised  \* group_rows[0]
  ELSE
  LET groups == Groups(s.group_by, rows)
      outs == Matching(s.having, [k \in DOMAIN groups |-> GroupRow(s, groups[k])])
  IN Page(SortBy(outs, SelectSeq(s.order_by, LAMBDA o : o.expr.node = "col")), s.limit, 0)

HasAggregate(cols) == \E i \in DOMAIN cols : cols[i].node = "fn" /\ cols[i].fn \in Aggregate

ExecuteSelect(s, all) ==
  LET rows == Matching(s.where, all)
      projected == [i \in DOMAIN rows |-> ProjectRow(rows[i], s.columns)]
      distinct == IF s.distinct THEN Distinct(projected) ELSE projected
  IN IF s.group_by # <<>> \/ HasAggregate(s.columns) THEN ExecuteAggregate(s, rows)
     ELSE Page(SortBy(distinct, s.order_by), s.limit, s.offset)

-----------------------------------------------------------------------------
(* Statements that write.  They read the table at once (or raise, when a   *)
(* writer is at it, with nothing done) and write later, row by row.        *)

Ids(t) == {t[i].id : i \in DOMAIN t}
DataOf(t, id) == t[CHOOSE i \in DOMAIN t : t[i].id = id].data
Rows(t) == [i \in DOMAIN t |-> t[i].data]

Idle == [phase |-> "idle", touched |-> {}]

\* eval_literal: what is not a literal is stored as NULL.
Stored(e) == IF e.node = "lit" THEN e.val ELSE Null

Assigned(s, data) == FoldLeft(LAMBDA d, as : [d EXCEPT ![as[1]] = Stored(as[2])], data, s.assignments)
NewData(s, values) ==
  [f \in Field |-> IF \E i \in DOMAIN values : s.columns[i] = f
                   THEN Stored(values[CHOOSE i \in DOMAIN values : s.columns[i] = f]) ELSE Null]

Init == /\ exists = TRUE
        /\ table \in Tables
        /\ nextId = Len(table) + 1
        /\ started = 0
        /\ job = [c \in Client |-> Idle]

\* Others see that c has written the row (history for the properties).
Touch(c, ids) == [d \in Client |-> IF d # c /\ job[d] # Idle THEN [job[d] EXCEPT !.touched = @ \cup ids] ELSE job[d]]
Working(s, todo) == [phase |-> IF todo = <<>> THEN "done" ELSE "run", stmt |-> s, todo |-> todo,
                     wrote |-> <<>>, before |-> table, touched |-> {}]

StartInsert(c, s) ==
  /\ s.node = "insert"
  /\ job[c] = Idle
  /\ exists' = TRUE
  /\ job' = [job EXCEPT ![c] = Working(s, s.rows)]
  /\ UNCHANGED <<table, nextId>>

\* A table that does not exist is an error.
StartWrite(c, s) ==
  /\ s.node \in {"update", "delete"}
  /\ job[c] = Idle
  /\ exists
  /\ LET matched == SelectSeq(table, LAMBDA r : s.where = Nothing \/ True(Eval(s.where, r.data)))
     IN job' = [job EXCEPT ![c] = Working(s, [i \in DOMAIN matched |-> matched[i].id])]
  /\ UNCHANGED <<exists, table, nextId>>

Wrote(c, id) ==
  job' = [Touch(c, {id}) EXCEPT ![c] = [job[c] EXCEPT !.todo = Tail(@), !.wrote = Append(@, id),
                                          !.phase = IF Len(job[c].todo) = 1 THEN "done" ELSE "run"]]

InsertRow(c) ==
  /\ job[c].phase = "run" /\ job[c].stmt.node = "insert"
  /\ table' = Append(table, [id |-> nextId, data |-> NewData(job[c].stmt, Head(job[c].todo))])
  /\ nextId' = nextId + 1
  /\ exists' = TRUE
  /\ Wrote(c, nextId)
  /\ UNCHANGED started

\* Mutant: a row that is gone is stored again.
UpdateRowAnyway(c) ==
  /\ job[c].phase = "run" /\ job[c].stmt.node = "update"
  /\ LET id == Head(job[c].todo)
         s == job[c].stmt
     IN /\ Wrote(c, id)
        /\ table' = IF id \in Ids(table)
                    THEN [i \in DOMAIN table |-> IF table[i].id = id THEN [table[i] EXCEPT !.data = Assigned(s, @)]
                                                 ELSE table[i]]
                    ELSE Append(table, [id |-> id, data |-> Assigned(s, DataOf(job[c].before, id))])
  /\ UNCHANGED <<exists, nextId, started>>

\* What is gone is not updated, what has changed is updated all the same.
UpdateRow(c) ==
  /\ job[c].phase = "run" /\ job[c].stmt.node = "update"
  /\ LET id == Head(job[c].todo)
     IN /\ Wrote(c, id)
        /\ table' = [i \in DOMAIN table |-> IF table[i].id = id
                                            THEN [table[i] EXCEPT !.data = Assigned(job[c].stmt, @)] ELSE table[i]]
  /\ UNCHANGED <<exists, nextId, started>>

\* Mutant: the loop ends at a row that is already gone.
DeleteRowOrStop(c) ==
  /\ job[c].phase = "run" /\ job[c].stmt.node = "delete"
  /\ LET id == Head(job[c].todo)
     IN IF id \in Ids(table)
        THEN Wrote(c, id) /\ table' = SelectSeq(table, LAMBDA r : r.id # id)
        ELSE job' = [job EXCEPT ![c].phase = "done", ![c].todo = <<>>] /\ table' = table
  /\ UNCHANGED <<exists, nextId, started>>

DeleteRow(c) ==
  /\ job[c].phase = "run" /\ job[c].stmt.node = "delete"
  /\ Wrote(c, Head(job[c].todo))
  /\ table' = SelectSeq(table, LAMBDA r : r.id # Head(job[c].todo))
  /\ UNCHANGED <<exists, nextId, started>>

Return(c) ==
  /\ job[c].phase = "done"
  /\ job' = [job EXCEPT ![c] = Idle]
  /\ UNCHANGED <<exists, table, nextId, started>>

ExecuteCreateTable(c, s) ==
  /\ s.node = "create table"
  /\ job[c] = Idle
  /\ exists' = TRUE
  /\ UNCHANGED <<table, nextId, job>>

ExecuteDropTable(c, s) ==
  /\ s.node = "drop"
  /\ job[c] = Idle
  /\ exists' = FALSE
  /\ table' = <<>>
  /\ job' = Touch(c, Ids(table))
  /\ UNCHANGED nextId

Start(c, s) == /\ started < MaxStarts
               /\ started' = started + 1
               /\ \/ StartInsert(c, s) \/ StartWrite(c, s)
                  \/ ExecuteCreateTable(c, s) \/ ExecuteDropTable(c, s)
Write(c) == InsertRow(c) \/ UpdateRow(c) \/ DeleteRow(c)

Next == \E c \in Client : Write(c) \/ Return(c) \/ \E s \in Statement : Start(c, s)

Spec == Init /\ [][Next]_vars

-----------------------------------------------------------------------------
(* Properties.                                                             *)

Quiet == \A c \in Client : job[c] = Idle
Column1 == CHOOSE f \in Field : TRUE
SelectRows(cols, where, group, having, orders, limit, offset) ==
  ExecuteSelect(Select(FALSE, cols, <<"t", "">>, <<>>, where, group, <<having, orders, limit, offset>>), Rows(table))

\* A statement that writes has done exactly what it said to the rows that no
\* other statement wrote meanwhile, also when rows of its own were taken away.
StatementExact ==
  \A c \in Client : job[c].phase = "done" =>
    LET j == job[c]
        Left(id) == id \in Ids(table)
        Was(id) == DataOf(j.before, id)
        Hit(id) == j.stmt.where = Nothing \/ True(Eval(j.stmt.where, Was(id)))
    IN CASE j.stmt.node = "insert" ->
              /\ Len(j.wrote) = Len(j.stmt.rows)
              /\ \A i \in DOMAIN j.wrote : j.wrote[i] \notin j.touched =>
                   /\ Left(j.wrote[i])
                   /\ DataOf(table, j.wrote[i]) = NewData(j.stmt, j.stmt.rows[i])
         [] OTHER -> \A id \in Ids(j.before) \ j.touched :
              IF j.stmt.node = "delete" /\ Hit(id) THEN ~Left(id)
              ELSE /\ Left(id)
                   /\ DataOf(table, id) = IF Hit(id) THEN Assigned(j.stmt, Was(id)) ELSE Was(id)

\* Rows appear by INSERT only: an UPDATE that comes after the DELETE of its
\* row does not bring it back, nor does it rebuild a table that was dropped.
OnlyInsertsAdd ==
  [][\A id \in Ids(table') \ Ids(table) : id = nextId /\ nextId' = nextId + 1]_vars

\* ORDER BY orders by its first key, then the second, and leaves the rest in
\* the order of the table, although it sorts by one key after the other.
OrderIsLexicographic ==
  Quiet => \A f, g \in Field, d1, d2 \in BOOLEAN :
    LET rows == Rows(table)
        Less(desc, x, y) == IF desc THEN KeyLess(y, x) ELSE KeyLess(x, y)
        Lex(r, s) == Less(d1, r[f], s[f]) \/ (r[f] = s[f] /\ Less(d2, r[g], s[g]))
        Place(i) == Cardinality({j \in DOMAIN rows : Lex(rows[j], rows[i]) \/ (~Lex(rows[i], rows[j]) /\ j <= i)})
    IN SelectRows(<<Star>>, Nothing, <<>>, Nothing, <<OrderBy(Column(f), d1), OrderBy(Column(g), d2)>>, Nothing, 0)
         = [k \in DOMAIN rows |-> rows[CHOOSE i \in DOMAIN rows : Place(i) = k]]

\* The pages of a query, LIMIT n OFFSET k * n, are the whole of it.
PagesTile ==
  Quiet => \A where \in Condition, n \in 1..2 :
    LET Paged(limit, k) == SelectRows(<<Star>>, where, <<>>, Nothing, <<OrderBy(Column(Column1), TRUE)>>, limit, k)
    IN Paged(Nothing, 0) = FlattenSeq([k \in 1..(Len(table) + 1) |-> Paged(Literal(n), (k - 1) * n)])

\* Each row that WHERE lets through counts in exactly one group, the one of
\* its key; HAVING on a count keeps the groups with that many rows.
GroupsPartition ==
  Quiet => \A where \in Condition, group \in {<<f, g>> : f, g \in Field} \cup {<<f>> : f \in Field} :
    LET rows == Matching(where, Rows(table))
        Key(r) == [i \in DOMAIN group |-> r[group[i]]]
        Out(having) == SelectRows(<<Alias(FuncCall("COUNT", <<Star>>, FALSE), "n")>>, where, group, having, <<>>, Nothing, 0)
        Size(r) == Cardinality({i \in DOMAIN rows : Key(rows[i]) = Key(r)})
        AllOf(outs, P(_)) ==
          \A i \in DOMAIN rows : P(rows[i]) =>
            Cardinality({k \in DOMAIN outs : Key(outs[k]) = Key(rows[i]) /\ outs[k]["n"] = Size(rows[i])}) = 1
    IN /\ AllOf(Out(Nothing), LAMBDA r : TRUE)
       /\ Sum([k \in DOMAIN Out(Nothing) |-> Out(Nothing)[k]["n"]]) = Len(rows)
       /\ AllOf(Out(BinOp(">", Column("n"), Literal(1))), LAMBDA r : Size(r) > 1)
       /\ \A k \in DOMAIN Out(BinOp(">", Column("n"), Literal(1))) :
            Out(BinOp(">", Column("n"), Literal(1)))[k]["n"] > 1

\* Forms of SQL that mean the same select the same rows, those with NULL too:
\* BETWEEN and two comparisons, IN and a row of equalities, COALESCE and CASE.
FormsAgree ==
  Quiet => \A f, g \in Field, i \in DOMAIN table :
    LET a == Column(f)
        b == Column(g)
        Same(e1, e2) == Eval(e1, table[i].data) = Eval(e2, table[i].data)
    IN /\ Same(Between(a, Literal(1), b, FALSE), BinOp("AND", BinOp(">=", a, Literal(1)), BinOp("<=", a, b)))
       /\ Same(InList(a, <<Literal(1), b>>, FALSE), BinOp("OR", BinOp("=", a, Literal(1)), BinOp("=", a, b)))
       /\ Same(InList(a, <<Literal(1), b>>, TRUE), BinOp("AND", BinOp("!=", a, Literal(1)), BinOp("!=", a, b)))
       /\ Same(Coalesce(<<a, b>>), CaseWhen(<< <<IsNull(a, TRUE), a>> >>, b))
       /\ Same(UnaryOp("NOT", BinOp("OR", a, b)), BinOp("AND", UnaryOp("NOT", a), UnaryOp("NOT", b)))
       /\ Same(UnaryOp("NOT", BinOp("<", a, b)), BinOp("OR", BinOp(">=", a, b),
                                                          BinOp("OR", IsNull(a, FALSE), IsNull(b, FALSE))))
=============================================================================
