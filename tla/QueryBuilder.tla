---------------------------- MODULE QueryBuilder ----------------------------
(***************************************************************************)
(* query/builder.py: the chainable Query over the records of a collection. *)
(* Each call replaces the list of records that the query is left with.     *)
(* A record has an id and the fields of its data; Null is a missing one.   *)
(***************************************************************************)
EXTENDS Integers, Sequences, FiniteSets, SequencesExt

CONSTANTS Null, Field, Value,
          Contents,   \* what the collection can contain
          MaxCalls    \* bound on the calls of a chain

VARIABLES source,     \* the records the query was made from
          records,    \* those it is left with
          calls       \* the calls of the chain
vars == <<source, records, calls>>

Get(r, f) == IF f \in DOMAIN r.data THEN r.data[f] ELSE Null

Op == {"eq", "ne", "gt", "lte", "exists"}
\* None is never greater or smaller, and comparing with it is False.
Compare(v, op, target) ==
  CASE op = "eq" -> v = target
    [] op = "ne" -> v # target
    [] op = "gt" -> v # Null /\ v > target
    [] op = "lte" -> v # Null /\ v <= target
    [] op = "exists" -> (v # Null) = (target # 0)

Kept(rs, c) == SelectSeq(rs, LAMBDA r : Compare(Get(r, c.field), c.op, c.value))

KeyLess(u, v) == (u # Null /\ v = Null) \/ (u # Null /\ v # Null /\ u < v)

\* Mutant: the records are reversed after the sort.
OrderedReversed(rs, c) ==
  LET Place(i) == Cardinality({j \in DOMAIN rs : \/ KeyLess(Get(rs[j], c.field), Get(rs[i], c.field))
                                                 \/ Get(rs[j], c.field) = Get(rs[i], c.field) /\ j <= i})
      up == [k \in DOMAIN rs |-> rs[CHOOSE i \in DOMAIN rs : Place(i) = k]]
  IN IF c.desc THEN Reverse(up) ELSE up

\* list.sort: equal keys keep their order, with reverse=True too.
Ordered(rs, c) ==
  LET Less(r, s) == IF c.desc THEN KeyLess(Get(s, c.field), Get(r, c.field))
                              ELSE KeyLess(Get(r, c.field), Get(s, c.field))
      Place(i) == Cardinality({j \in DOMAIN rs : Less(rs[j], rs[i]) \/ (~Less(rs[i], rs[j]) /\ j <= i)})
  IN [k \in DOMAIN rs |-> rs[CHOOSE i \in DOMAIN rs : Place(i) = k]]

\* limit(0) is no limit.
Limited(rs, n) == IF n > 0 /\ n < Len(rs) THEN SubSeq(rs, 1, n) ELSE rs
Skipped(rs, n) == SubSeq(rs, n + 1, Len(rs))
Selected(rs, fs) == [i \in DOMAIN rs |-> [rs[i] EXCEPT !.data = [f \in fs |-> Get(rs[i], f)]]]

Applied(rs, c) ==
  CASE c.call = "where" -> Kept(rs, c)
    [] c.call = "order_by" -> Ordered(rs, c)
    [] c.call = "limit" -> Limited(rs, c.n)
    [] c.call = "skip" -> Skipped(rs, c.n)
    [] c.call = "select" -> Selected(rs, c.fields)

-----------------------------------------------------------------------------
Init == /\ source \in Contents
        /\ records = source
        /\ calls = <<>>

\* Mutant: a filter starts over from the collection.
CallFresh(c) == /\ Len(calls) < MaxCalls
                /\ records' = Applied(IF c.call = "where" THEN source ELSE records, c)
                /\ calls' = Append(calls, c)
                /\ UNCHANGED source

Call(c) == /\ Len(calls) < MaxCalls
           /\ records' = Applied(records, c)
           /\ calls' = Append(calls, c)
           /\ UNCHANGED source

Where == \E f \in Field, op \in Op, v \in Value : Call([call |-> "where", field |-> f, op |-> op, value |-> v])
OrderBy == \E f \in Field, d \in BOOLEAN : Call([call |-> "order_by", field |-> f, desc |-> d])
Limit == \E n \in 0..2 : Call([call |-> "limit", n |-> n])
Skip == \E n \in 0..2 : Call([call |-> "skip", n |-> n])
Select == \E f \in Field : Call([call |-> "select", fields |-> {f}])

Next == Where \/ OrderBy \/ Limit \/ Skip \/ Select

Spec == Init /\ [][Next]_vars

-----------------------------------------------------------------------------
(* Properties.                                                             *)

Calls(kinds) == SelectSeq(calls, LAMBDA c : c.call \in kinds)

\* Filters and orders commute: however where and order_by are mixed, the query
\* holds what all filters keep, in the order of the last order_by, ties as the
\* one before it left them.
WhereAndOrderCommute ==
  calls = Calls({"where", "order_by"}) =>
    records = FoldLeft(Applied, source, Calls({"where"}) \o Calls({"order_by"}))

\* The order of a chain without select is the lexicographic one of its
\* order_by calls from the last to the first, then that of the collection.
OrderIsStable ==
  calls = Calls({"order_by"}) =>
    \A i, j \in DOMAIN records : i < j =>
      LET x == records[i]
          y == records[j]
          Less(c, r, s) == IF c.desc THEN KeyLess(Get(s, c.field), Get(r, c.field))
                                     ELSE KeyLess(Get(r, c.field), Get(s, c.field))
          differ == {k \in DOMAIN calls : Get(x, calls[k].field) # Get(y, calls[k].field)}
      IN IF differ = {} THEN x.id < y.id
         ELSE Less(calls[CHOOSE k \in differ : \A m \in differ : m <= k], x, y)
=============================================================================
