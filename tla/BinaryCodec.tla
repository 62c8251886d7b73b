----------------------------- MODULE BinaryCodec -----------------------------
(***************************************************************************)
(* The bytes of a record in the snapshot and the log                       *)
(* (storage/binary/codec.py).  A byte has Base values instead of 256, and  *)
(* the thresholds of the code, written in terms of Base, have small values *)
(* too.  A value is a record with one field, which names its type; a text  *)
(* is a sequence of bytes; a dict is the sequence of its items.  Floats    *)
(* are left out.                                                           *)
(***************************************************************************)
EXTENDS Integers, SequencesExt

CONSTANTS Base,          \* a multiple of 8
          Values

VARIABLES value, data    \* what is encoded, and its bytes or Failed
vars == <<value, data>>

Failed == <<-1>>
NullTag == 0
False == 1
True == 2
Int8 == 3
Int16 == 4
Int32 == 5
Int64 == 6
Uint8 == 7
Uint16 == 8
Uint32 == 9
Str == 12
Bytes == 13
List == 14
Dict == 15
Is(v, type) == DOMAIN v = {type}

Half == Base \div 2         \* 0x80, 0x40 and 0x20
Quarter == Base \div 4
Eighth == Base \div 8

\* struct.pack and unpack, big-endian.
Pack(n, width) == [i \in 1..width |-> (n \div Base ^ (width - i)) % Base]
Unsigned(s) == FoldLeft(LAMBDA n, b : n * Base + b, 0, s)
Signed(s) == IF s[1] < Half THEN Unsigned(s) ELSE Unsigned(s) - Base ^ Len(s)

\* Mutant: one length too many is written in one byte.
PackLenLong(n) ==
  CASE n <= Half -> <<n>>
    [] n \in Half + 1..Quarter * Base - 1 -> <<Half + n \div Base, n % Base>>
    [] n \in Quarter * Base..Eighth * Base ^ 2 - 1 -> <<Half + Quarter + n \div Base ^ 2>> \o Pack(n, 2)
    [] OTHER -> <<Half + Quarter + Eighth>> \o Pack(n, 4)

PackLen(n) ==
  CASE n \in 0..Half - 1 -> <<n>>
    [] n \in Half..Quarter * Base - 1 -> <<Half + n \div Base, n % Base>>
    [] n \in Quarter * Base..Eighth * Base ^ 2 - 1 -> <<Half + Quarter + n \div Base ^ 2>> \o Pack(n, 2)
    [] OTHER -> <<Half + Quarter + Eighth>> \o Pack(n, 4)

\* A length and where it ends.
UnpackLen(d, off) ==
  LET b == d[off]
  IN CASE b < Half -> <<b, off + 1>>
       [] b \in Half..Half + Quarter - 1 -> <<(b % Quarter) * Base + d[off + 1], off + 2>>
       [] b \in Half + Quarter..Half + Quarter + Eighth - 1 ->
            <<Unsigned(<<b % Eighth, d[off + 1], d[off + 2]>>), off + 3>>
       [] OTHER -> <<Unsigned(SubSeq(d, off + 1, off + 4)), off + 5>>

\* struct.pack(">q") raises for the other integers.
Fits(n) == n \in -(Half * Base ^ 7)..Half * Base ^ 7 - 1

EncodeInt(n) ==
  LET half(w) == Half * Base ^ (w - 1)
  IN CASE n \in 0..Base - 1 -> <<Uint8>> \o Pack(n, 1)
       [] n \in Base..Base ^ 2 - 1 -> <<Uint16>> \o Pack(n, 2)
       [] n \in Base ^ 2..Base ^ 4 - 1 -> <<Uint32>> \o Pack(n, 4)
       [] n \in -half(1)..-1 -> <<Int8>> \o Pack(n, 1)
       [] n \in -half(2)..-half(1) - 1 -> <<Int16>> \o Pack(n, 2)
       [] n \in -half(4)..-half(2) - 1 -> <<Int32>> \o Pack(n, 4)
       [] OTHER -> <<Int64>> \o Pack(n, 8)

\* str(k) of a key; the digits 0..Base - 1 are enough here.
Text(k) == IF Is(k, "int") THEN <<k.int>> ELSE k.str
Counted(s) == PackLen(Len(s)) \o s

\* An exception of an element is one of the whole.
RECURSIVE Encodable(_)
Encodable(v) ==
  CASE Is(v, "int") -> Fits(v.int)
    [] Is(v, "list") -> \A i \in DOMAIN v.list : Encodable(v.list[i])
    [] Is(v, "dict") -> \A i \in DOMAIN v.dict : Encodable(v.dict[i][2])
    [] OTHER -> TRUE

RECURSIVE Enc(_)
Enc(v) ==
  CASE Is(v, "const") -> <<v.const>>
    [] Is(v, "int") -> EncodeInt(v.int)
    [] Is(v, "str") -> <<Str>> \o Counted(v.str)
    [] Is(v, "bytes") -> <<Bytes>> \o Counted(v.bytes)
    [] Is(v, "list") -> <<List>> \o PackLen(Len(v.list)) \o FlattenSeq([i \in DOMAIN v.list |-> Enc(v.list[i])])
    [] Is(v, "dict") -> <<Dict>> \o PackLen(Len(v.dict))
                          \o FlattenSeq([i \in DOMAIN v.dict |-> Counted(Text(v.dict[i][1])) \o Enc(v.dict[i][2])])
    [] Is(v, "other") -> <<Str>> \o Counted(v.other)     \* _enc(str(obj))

\* out[key] = val: a key that comes again keeps its place.
Put(pairs, key, val) ==
  IF \E i \in DOMAIN pairs : pairs[i][1] = key
  THEN [i \in DOMAIN pairs |-> IF pairs[i][1] = key THEN <<key, val>> ELSE pairs[i]]
  ELSE Append(pairs, <<key, val>>)

\* The value that starts at off and where it ends.
RECURSIVE Dec(_, _)
Dec(d, off) ==
  LET tag == d[off]
      o == off + 1
      Fixed(w, N(_)) == <<[int |-> N(SubSeq(d, o, o + w - 1))], o + w>>
      len == UnpackLen(d, o)
      Slice(from, n) == SubSeq(d, from, from + n - 1)
      item[i \in 0..len[1]] ==   \* the first i items and where they end
        IF i = 0 THEN << <<>>, len[2]>>
        ELSE LET before == item[i - 1] v == Dec(d, before[2]) IN <<Append(before[1], v[1]), v[2]>>
      pair[i \in 0..len[1]] ==
        IF i = 0 THEN << <<>>, len[2]>>
        ELSE LET before == pair[i - 1]
                 k == UnpackLen(d, before[2])
                 v == Dec(d, k[2] + k[1])
             IN <<Put(before[1], [str |-> Slice(k[2], k[1])], v[1]), v[2]>>
  IN CASE tag \in {NullTag, False, True} -> <<[const |-> tag], o>>
       [] tag = Uint8 -> Fixed(1, Unsigned) [] tag = Uint16 -> Fixed(2, Unsigned)
       [] tag = Uint32 -> Fixed(4, Unsigned)
       [] tag = Int8 -> Fixed(1, Signed) [] tag = Int16 -> Fixed(2, Signed)
       [] tag = Int32 -> Fixed(4, Signed) [] tag = Int64 -> Fixed(8, Signed)
       [] tag = Str -> <<[str |-> Slice(len[2], len[1])], len[2] + len[1]>>
       [] tag = Bytes -> <<[bytes |-> Slice(len[2], len[1])], len[2] + len[1]>>
       [] tag = List -> <<[list |-> item[len[1]][1]], item[len[1]][2]>>
       [] tag = Dict -> <<[dict |-> pair[len[1]][1]], pair[len[1]][2]>>

Init == value \in Values /\ data = <<>>
Encode == /\ data = <<>>
          /\ data' = IF Encodable(value) THEN Enc(value) ELSE Failed
          /\ UNCHANGED value
Next == Encode
Spec == Init /\ [][Next]_vars

-----------------------------------------------------------------------------
\* What is left of a value: keys and objects of other types become texts.
RECURSIVE Plain(_)
Plain(v) ==
  CASE Is(v, "other") -> [str |-> v.other]
    [] Is(v, "list") -> [list |-> [i \in DOMAIN v.list |-> Plain(v.list[i])]]
    [] Is(v, "dict") -> [dict |-> [i \in DOMAIN v.dict |-> <<[str |-> Text(v.dict[i][1])], Plain(v.dict[i][2])>>]]
    [] OTHER -> v
RECURSIVE KeysDiffer(_)
KeysDiffer(v) ==
  CASE Is(v, "list") -> \A i \in DOMAIN v.list : KeysDiffer(v.list[i])
    [] Is(v, "dict") -> /\ \A i, j \in DOMAIN v.dict : i # j => Text(v.dict[i][1]) # Text(v.dict[j][1])
                        /\ \A i \in DOMAIN v.dict : KeysDiffer(v.dict[i][2])
    [] OTHER -> TRUE

\* What is decoded is what was encoded, whatever bytes come behind it, for integers and
\* lengths on both sides of every boundary and nested lists and dicts, unless two keys of
\* a dict have one text; and decoding ends where the next value begins.
RoundTrip ==
  data \notin {<<>>, Failed} =>
    \A rest \in {<<>>, <<0>>, <<Base - 1, Base - 1>>} :
      LET back == Dec(data \o rest, 1)
      IN back[2] = Len(data) + 1 /\ (KeysDiffer(value) => back[1] = Plain(value))
=============================================================================
