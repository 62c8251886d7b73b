----------------------------- MODULE JoinEngine -----------------------------
(***************************************************************************)
(* join/engine.py: joins of collections in memory, chains of joins, and    *)
(* the JoinQuery over their rows.  Three collections are joined:           *)
(*   users (key)  <-  orders (ref, key)  <-  items (ref)                   *)
(* A record is its id and the fields key and ref, Null for a missing one.  *)
(* A row maps the names that are joined to what they hold: one record,     *)
(* None, or a list of records.                                             *)
(***************************************************************************)
EXTENDS Integers, Sequences, FiniteSets, SequencesExt, TLC

CONSTANTS Null,
          Users, Orders, Items   \* what the collections can contain

VARIABLES users, orders, items,
          rows,   \* the rows of the JoinQuery
          step    \* how they came about: <<>>, then the types of the joins
vars == <<users, orders, items, rows, step>>

One(r) == [list |-> FALSE, items |-> <<r>>]
NoRecord == [list |-> FALSE, items |-> <<>>]
List(rs) == [list |-> TRUE, items |-> rs]

\* Mutant: a missing key matches a missing key.
UnderNone(records, field, v) == SelectSeq(records, LAMBDA r : r[field] = v)

\* The records of an index under a key; None is no key.
Under(records, field, v) == SelectSeq(records, LAMBDA r : r[field] # Null /\ r[field] = v)

-----------------------------------------------------------------------------
(* join() and chains of it.                                                *)

\* The rows of left with all that match each of them, and for a right join
\* the rest of the right side.
JoinRows(left, right, leftName, alias, leftKey, rightKey, type) ==
  LET Row(l, rs) == leftName :> l @@ alias :> List(rs)
      Matches(l) == Under(right, rightKey, l[leftKey])
      kept == IF type = "left" THEN left ELSE SelectSeq(left, LAMBDA l : Matches(l) # <<>>)
      matched == UNION {ToSet(Matches(left[i])) : i \in DOMAIN left}
      rest == IF type = "right" THEN SelectSeq(right, LAMBDA r : r \notin matched) ELSE <<>>
  IN [i \in DOMAIN kept |-> Row(One(kept[i]), Matches(kept[i]))]
       \o [i \in DOMAIN rest |-> Row(NoRecord, <<rest[i]>>)]

\* The keys a row has under a name.
ExtractKeys(row, name, field) ==
  IF name \in DOMAIN row THEN {r[field] : r \in ToSet(row[name].items)} \ {Null} ELSE {}

\* Mutant: a record is listed once for every key that leads to it.
MatchesPerKey(records, field, row, name, key) ==
  FlattenSeq([i \in DOMAIN row[name].items |-> Under(records, field, row[name].items[i][key])])

\* The records that some key of the row leads to, each of them once (in an
\* order that no property looks at: the code goes through a set of keys).
ChainMatches(records, field, row, name, key) ==
  SelectSeq(records, LAMBDA r : r[field] # Null /\ r[field] \in ExtractKeys(row, name, key))

\* Mutant: the rows without a match are dropped for every type.
ChainAlwaysInner(left, records, name, leftKey, rightKey, type, alias) ==
  LET Enriched(row) == alias :> List(ChainMatches(records, rightKey, row, name, leftKey)) @@ row
  IN SelectSeq([i \in DOMAIN left |-> Enriched(left[i])], LAMBDA row : row[alias].items # <<>>)

\* Only "inner" drops rows; "right" does what "left" does.
ChainJoin(left, records, name, leftKey, rightKey, type, alias) ==
  LET Enriched(row) == alias :> List(ChainMatches(records, rightKey, row, name, leftKey)) @@ row
  IN SelectSeq([i \in DOMAIN left |-> Enriched(left[i])],
               LAMBDA row : type = "inner" => row[alias].items # <<>>)

-----------------------------------------------------------------------------
(* JoinQuery.                                                              *)

\* A path: the values that are meant, for a list all of them ("name[].field")
\* or its first ("name.field").
GetPath(row, name, field, array) ==
  IF name \notin DOMAIN row \/ row[name].items = <<>> THEN <<>>
  ELSE [i \in IF array THEN DOMAIN row[name].items ELSE {1} |-> row[name].items[i][field]]

Numbers(vs) == SelectSeq(vs, LAMBDA v : v # Null)
Sum(vs) == FoldLeft(LAMBDA x, y : x + y, 0, vs)

AggregateSum(rs, name, field, array) ==
  Sum(Numbers(FlattenSeq([i \in DOMAIN rs |-> GetPath(rs[i], name, field, array)])))

\* Mutant: the rows whose key is missing have no group.
GroupsOfKeys(rs, name, field) ==
  LET Key(r) == GetPath(r, name, field, FALSE)
      keys == {Key(rs[i]) : i \in DOMAIN rs} \ {<<>>, <<Null>>}
  IN [k \in keys |-> SelectSeq(rs, LAMBDA r : Key(r) = k)]

\* group_by: the rows of each key; those without one share the group of None.
GroupBy(rs, name, field) ==
  LET Key(r) == LET v == GetPath(r, name, field, FALSE) IN IF v = <<>> THEN <<Null>> ELSE v
      keys == {Key(rs[i]) : i \in DOMAIN rs}
  IN [k \in keys |-> SelectSeq(rs, LAMBDA r : Key(r) = k)]

-----------------------------------------------------------------------------
Init == /\ users \in Users /\ orders \in Orders /\ items \in Items
        /\ rows = <<>>
        /\ step = <<>>

Join(type) ==
  /\ step = <<>>
  /\ rows' = JoinRows(users, orders, "users", "orders", "key", "ref", type)
  /\ step' = <<type>>
  /\ UNCHANGED <<users, orders, items>>

Chain(type) ==
  /\ Len(step) = 1
  /\ rows' = ChainJoin(rows, items, "orders", "key", "ref", type, "items")
  /\ step' = Append(step, type)
  /\ UNCHANGED <<users, orders, items>>

Next == \E type \in {"left", "inner", "right"} : Join(type) \/ Chain(type)

Spec == Init /\ [][Next]_vars

-----------------------------------------------------------------------------
(* Properties.                                                             *)

Pairs(rs, n1, n2) ==
  UNION {{<<p, q>> : p \in ToSet(rs[i][n1].items), q \in ToSet(rs[i][n2].items)} : i \in DOMAIN rs}
Related(s, t, f, g) == {<<p, q>> \in ToSet(s) \X ToSet(t) : p[f] # Null /\ p[f] = q[g]}
Once(rs, n, r) == Cardinality({i \in DOMAIN rs : r \in ToSet(rs[i][n].items)}) = 1

\* A join lists the pairs with equal keys and no others; a left join has every
\* left record in one row and a right join every right record, with nothing
\* on the other side if it has no partner; an inner join has no such rows.
JoinPairs ==
  Len(step) = 1 =>
    LET rel == Related(users, orders, "key", "ref")
        empty == {i \in DOMAIN rows : rows[i]["users"].items = <<>> \/ rows[i]["orders"].items = <<>>}
    IN /\ Pairs(rows, "users", "orders") = rel
       /\ \A i \in DOMAIN rows : IsInjective(rows[i]["orders"].items)
       /\ step[1] = "left" => \A u \in ToSet(users) : Once(rows, "users", u)
       /\ step[1] = "right" => \A o \in ToSet(orders) : (\E u \in ToSet(users) : <<u, o>> \in rel) \/ Once(rows, "orders", o)
       /\ step[1] = "inner" => empty = {}
       /\ step[1] = "right" => \A i \in empty : rows[i]["users"].items = <<>>

\* A chain of joins is their composition: a user is in a row with the items
\* that one of the user's orders leads to, each of them once.
ChainComposes ==
  Len(step) = 2 =>
    /\ Pairs(rows, "users", "items") =
         {<<u, i>> \in ToSet(users) \X ToSet(items) : \E o \in ToSet(orders) :
            <<u, o>> \in Related(users, orders, "key", "ref") /\ <<o, i>> \in Related(orders, items, "key", "ref")}
    /\ \A i \in DOMAIN rows : IsInjective(rows[i]["items"].items)

\* Joins after a left join lose none of its rows, unless they are inner.
LeftRowsStay ==
  Len(step) = 2 /\ step[1] = "left" /\ step[2] # "inner" => \A u \in ToSet(users) : Once(rows, "users", u)

\* Groups count every row once, and their sums add up to the sum of all rows.
GroupTotals ==
  LET groups == GroupBy(rows, "users", "key")
      keys == SetToSeq(DOMAIN groups)
  IN step # <<>> =>
       /\ Sum([k \in DOMAIN keys |-> Len(groups[keys[k]])]) = Len(rows)
       /\ Sum([k \in DOMAIN keys |-> AggregateSum(groups[keys[k]], "orders", "key", TRUE)])
            = AggregateSum(rows, "orders", "key", TRUE)
=============================================================================
