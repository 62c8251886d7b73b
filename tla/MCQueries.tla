------------------------------ MODULE MCQueries ------------------------------
(***************************************************************************)
(* Small instances of the parts that answer queries: the SQL parser, the   *)
(* executor reading any table of up to three rows and two clients writing  *)
(* to smaller ones, joins, the query builder, the index for vectors, and   *)
(* the bytes of records.  A behaviour runs the part it has drawn at the    *)
(* start.                                                                  *)
(***************************************************************************)
EXTENDS SqlSyntax, TLC

CONSTANTS Null, None, c1, c2

VARIABLES part,
          meant, tokens,                        \* parser
          exists, table, nextId, started, job,  \* select, write
          users, orders, items, rows, step,     \* join
          source, records, calls,               \* builder
          index, churned,                       \* vectors
          value, data                           \* codec
parserVars == <<meant, tokens>>
executorVars == <<exists, table, nextId, started, job>>
joinVars == <<users, orders, items, rows, step>>
builderVars == <<source, records, calls>>
vectorVars == <<index, churned>>
codecVars == <<value, data>>

UpTo(n, S) == UNION {[1..k -> S] : k \in 0..n}
Numbered(s, R(_, _)) == [i \in DOMAIN s |-> R(i, s[i])]

\* The statements whose texts are parsed.
A == Column("a")
B == Column("b")
One == Literal("1")
Operand == {A, One, BinOp("OR", A, One), BinOp("AND", A, One), UnaryOp("NOT", A), BinOp("=", A, One),
            InList(A, <<One, B>>, FALSE), Between(A, One, B, TRUE), Like(A, B, TRUE), IsNull(A, TRUE),
            BinOp("-", A, One), BinOp("*", A, One), UnaryOp("-", A), FuncCall("COUNT", <<Star>>, FALSE),
            CaseWhen(<< <<A, One>>, <<B, One>> >>, B), Coalesce(<<A, B>>)}
Expression ==
  {BinOp(op, l, r) : op \in {"OR", "AND", "=", "<", "+", "-", "*"}, l, r \in Operand}
    \cup {UnaryOp(op, e) : op \in {"NOT", "-"}, e \in Operand}
    \cup {InList(e, <<f, e>>, neg) : e, f \in Operand, neg \in BOOLEAN}
    \cup {Like(e, f, neg) : e, f \in Operand, neg \in BOOLEAN}
    \cup {Between(A, e, f, neg) : e, f \in Operand, neg \in BOOLEAN}
    \cup {IsNull(e, neg) : e \in Operand, neg \in BOOLEAN}
    \cup {CaseWhen(<< <<e, f>> >>, g) : e, f \in Operand, g \in {Nothing, A}}
    \cup {FuncCall(fn, <<e, f>>, FALSE) : fn \in {"n", "SUM"}, e, f \in Operand}

NoTail == <<Nothing, <<>>, "", "">>
Selects ==
  {Select(FALSE, <<e, Alias(e, "n")>>, <<"t", "">>, <<>>, e, <<>>, NoTail) : e \in Expression}
    \cup {Select(dist, cols, from, <<>>, where, group, <<having, order, limit, offset>>) :
            dist \in BOOLEAN, cols \in {<<Star>>, <<A, BinOp("*", A, One)>>},
            from \in {<<"t", "">>, <<"t", "u">>}, where \in {Nothing, IsNull(A, TRUE)},
            group \in {<<>>, <<"a", "b">>}, having \in {Nothing, BinOp("<", A, One)},
            order \in {<<>>, <<OrderBy(A, TRUE), OrderBy(BinOp("+", A, One), FALSE)>>},
            limit, offset \in {"", "1"}}
    \cup {Select(FALSE, <<One, A>>, <<"", "">>, <<>>, Nothing, <<>>, NoTail)}
Writes ==
  {Insert("t", cols, vals) : cols \in {<<>>, <<"a", "b">>}, vals \in {<< <<One, A>> >>, << <<One>>, <<A>> >>}}
    \cup {Update("t", as, w) : as \in {<< <<"a", One>> >>, << <<"a", IsNull(A, TRUE)>>, <<"b", A>> >>},
                               w \in {Nothing} \cup Operand}
    \cup {Delete("t", w) : w \in {Nothing} \cup Operand}
    \cup {CreateTable("t", <<>>), CreateTable("t", << <<"a", "n">>, <<"b", "n">> >>), CreateIndex("n", "t", "a"),
          Drop("TABLE", "t"), Drop("INDEX", "n")}
Statement == Selects \cup Writes

Parser == INSTANCE SqlParser WITH Source <- Statement

\* Statements that join two tables, on columns of one or two names.
JoinStatement ==
  {Select(FALSE, <<Column("a")>>, <<"t", "">>, <<Join(type, <<"u", "">>, Column(f), Column(g))>>,
          Nothing, <<>>, NoTail) : type \in {"INNER", "LEFT", "RIGHT"}, f, g \in {"a", "b"}}

Joins == INSTANCE SqlParser WITH Source <- JoinStatement

Ab == {"a", "b"}
Data(V) == [Ab -> V]
TableOf(s) == Numbered(s, LAMBDA i, d : [id |-> i, data |-> d])
AnyTable == {TableOf(s) : s \in UpTo(3, Data({Null, 0, 2}))}
SmallTable == {TableOf(s) : s \in {<<>>, <<"a" :> 1 @@ "b" :> 0, "a" :> 2 @@ "b" :> Null>>}}
Is(f, v) == BinOp("=", Column(f), Literal(v))
Write == {Insert("t", <<"a", "b">>, << <<Literal(1), Literal(2)>>, <<Literal(2), Is("a", 1)>> >>),
          Update("t", << <<"a", Literal(1)>>, <<"b", Literal(3)>> >>, Is("a", 2)),
          Update("t", << <<"a", Literal(2)>> >>, Nothing),
          Delete("t", Is("a", 1)), CreateTable("t", <<>>), Drop("TABLE", "t")}
Exec == INSTANCE SqlExecutor WITH
  Client <- {c1, c2}, Field <- Ab, Tables <- AnyTable \cup SmallTable, Statement <- Write, MaxStarts <- 3,
  Condition <- {Nothing, UnaryOp("NOT", Is("a", 0)), BinOp("<", Column("a"), Column("b"))}

Record(V, W) == {"key" :> v @@ "ref" :> w : v \in V, w \in W}
Collection(n, V, W) == {Numbered(s, LAMBDA i, r : "id" :> i @@ r) : s \in UpTo(n, Record(V, W))}
Joined == INSTANCE JoinEngine WITH
  Users <- Collection(2, {Null, 1, 2}, {Null}), Orders <- Collection(2, {Null, 1}, {Null, 1, 2}),
  Items <- {Numbered(s, LAMBDA i, v : "id" :> i @@ "key" :> Null @@ "ref" :> v) : s \in {<<>>, <<Null>>, <<1>>, <<1, 1>>}}

Builder == INSTANCE QueryBuilder WITH
  Field <- Ab, Value <- {0, 1}, MaxCalls <- 3,
  Contents <- {TableOf(s) : s \in {<<"a" :> 1 @@ "b" :> 0, "a" :> 0 @@ "b" :> 1, "a" :> 1 @@ "b" :> 1>>,
                                   <<"a" :> 1 @@ "b" :> Null, "a" :> 0 @@ "b" :> 1, "a" :> Null @@ "b" :> 0>>}}

Edges == UNION {{8 ^ w + k, 8 ^ w \div 2 + k} : w \in {0, 1, 2, 4, 8}, k \in -2..1}
Ints == {[int |-> n] : n \in Edges \cup {-n : n \in Edges}}
Texts == {[i \in 1..n |-> i % 8] : n \in {0, 1, 3, 4, 5, 7, 8, 15, 16, 17, 63, 64, 65}}
Plain == Ints \cup {[const |-> c] : c \in 0..2} \cup UNION {{[str |-> s], [bytes |-> s], [other |-> s]} : s \in Texts}
EncodedValues ==
  Plain \cup {[list |-> [i \in DOMAIN s |-> [int |-> s[i]]]] : s \in Texts}
        \cup {[dict |-> << <<[str |-> s], v>>, <<[int |-> 1], [list |-> <<v, v>>]>> >>] : s \in Texts, v \in Plain}

\* Points on a line; six nodes, so that full lists lose links also in layer 0.
Vectors == INSTANCE VectorIndex WITH
  NoId <- None, M <- 2, EfConstruction <- 4, EfSearch <- 6, MaxChurn <- 1,
  Places <- << {<<0, 1>>}, {<<1, 0>>, <<10, 0>>}, {<<2, 0>>}, {<<3, 0>>, <<3, 1>>}, {<<4, 1>>}, {<<5, 1>>} >>

\* Integers and lengths around every threshold of a byte with 8 values.
Codec == INSTANCE BinaryCodec WITH Base <- 8, Values <- EncodedValues

Parts == /\ IF part = "parser" THEN Parser!Init
            ELSE IF part = "join texts" THEN Joins!Init ELSE meant = Nothing /\ tokens = <<>>
         /\ IF part \in {"select", "write"}
            THEN Exec!Init /\ (part = "write" => table \in SmallTable)
            ELSE exists = TRUE /\ table = <<>> /\ nextId = 1 /\ started = 0 /\ job = [c \in {c1, c2} |-> Exec!Idle]
         /\ IF part = "join" THEN Joined!Init
            ELSE users = <<>> /\ orders = <<>> /\ items = <<>> /\ rows = <<>> /\ step = <<>>
         /\ IF part = "builder" THEN Builder!Init ELSE source = <<>> /\ records = <<>> /\ calls = <<>>
         /\ Vectors!Init
         /\ IF part = "codec" THEN Codec!Init ELSE value = <<>> /\ data = <<>>

Init == part \in {"parser", "select", "write", "join", "builder", "vectors", "codec"} /\ Parts

Next ==
  /\ UNCHANGED part
  /\ \/ part = "parser" /\ Parser!Next /\ UNCHANGED <<executorVars, joinVars, builderVars, vectorVars, codecVars>>
     \/ part = "write" /\ Exec!Next /\ UNCHANGED <<parserVars, joinVars, builderVars, vectorVars, codecVars>>
     \/ part = "join" /\ Joined!Next /\ UNCHANGED <<parserVars, executorVars, builderVars, vectorVars, codecVars>>
     \/ part = "builder" /\ Builder!Next /\ UNCHANGED <<parserVars, executorVars, joinVars, vectorVars, codecVars>>
     \/ part = "vectors" /\ Vectors!Next /\ UNCHANGED <<parserVars, executorVars, joinVars, builderVars, codecVars>>
     \/ part = "codec" /\ Codec!Next /\ UNCHANGED <<parserVars, executorVars, joinVars, builderVars, vectorVars>>

vars == <<part, parserVars, executorVars, joinVars, builderVars, vectorVars, codecVars>>
Spec == Init /\ [][Next]_vars

\* The parser with the statements that join tables.
JoinInit == part = "join texts" /\ Parts
JoinNext == /\ Joins!Next
            /\ UNCHANGED <<part, executorVars, joinVars, builderVars, vectorVars, codecVars>>
JoinSpec == JoinInit /\ [][JoinNext]_vars

-----------------------------------------------------------------------------
\* What was written is read back: a statement from its text, to its end, and a value from
\* its bytes.
ReadsBack == Parser!ParsesWhatWasMeant /\ (part = "codec" => Codec!RoundTrip)

\* A statement does what it says to the rows no other statement wrote, and no statement
\* but INSERT makes a row, whatever the others have deleted meanwhile.
StatementExact == []Exec!StatementExact /\ Exec!OnlyInsertsAdd

\* A query is its definition by sets, in SQL (sorted key by key, cut in pages, grouped,
\* in all forms that mean the same), as joins and their chains, and as chained calls.
QueriesAreDefined ==
  /\ part = "select" => /\ Exec!OrderIsLexicographic /\ Exec!PagesTile
                        /\ Exec!GroupsPartition /\ Exec!FormsAgree
  /\ Joined!JoinPairs /\ Joined!ChainComposes /\ Joined!LeftRowsStay /\ Joined!GroupTotals
  /\ Builder!WhereAndOrderCommute /\ Builder!OrderIsStable

\* A vector search begins at the top and finds the nearest of what the links lead to; its
\* lists keep to their bound, and links go both ways except out of full lists.
VectorsAreFound ==
  /\ Vectors!SearchFindsReachable /\ Vectors!EntryIsTop
  /\ Vectors!ListsBounded /\ Vectors!OneWayOnlyFromFullLists
\* Every join of the grammar can be written (README.md:40, "Standard INNER, LEFT, and
\* RIGHT JOIN implementations").
JoinsParse == Joins!JoinsParse
=============================================================================
