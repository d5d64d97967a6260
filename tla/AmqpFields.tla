------------------------------ MODULE AmqpFields ------------------------------
(***************************************************************************)
(* The field tables of qamqp: what writeField() and serialize() put on the *)
(* wire for a QVariant and what readField() and deserialize() make of it.  *)
(*                                                                         *)
(* A QVariant is a record with its type and its value; strings are         *)
(* sequences of bytes; a table is a set of pairs of a name and a value,    *)
(* written in some order.  An unsigned number is the signed one of the     *)
(* same bits.  Floating point values are left out.                         *)
(***************************************************************************)
EXTENDS Integers, SequencesExt, FiniteSetsExt, TLC, Bytes

Variant(type, v) == [type |-> type, v |-> v]
Invalid == Variant("invalid", 0)

\* The letters of the AMQP field types.
Letter == [t |-> 116, b |-> 98, B |-> 66, U |-> 85, u |-> 117, I |-> 73, i |-> 105,
           L |-> 76, l |-> 108, D |-> 68, s |-> 115, S |-> 83, A |-> 65, T |-> 84,
           F |-> 70, V |-> 86]

\* The field type that writeField() picks for a QVariant, "" for none.  The casts
\* qint8(0xFF), qint16(0xFFFF) and qint16(0xFFFFFFFF) are all -1.
Picked(x) ==
    CASE x.type = "Bool" -> "t"
      [] x.type \in {"String", "ByteArray"} -> "S"
      [] x.type = "Int" -> LET i == IF x.v < 0 THEN -x.v ELSE x.v
                           IN IF i <= -1 THEN "b" ELSE ""
      [] x.type = "UInt" -> IF x.v <= -1 THEN "B" ELSE ""
      [] x.type = "LongLong" -> "L"
      [] x.type = "ULongLong" -> "l"
      [] x.type = "DateTime" -> "T"
      [] x.type = "Hash" -> "F"
      [] x.type = "List" -> "A"
      [] OTHER -> ""

RECURSIVE WriteTyped(_, _), WriteField(_), Serialize(_), ReadField(_, _),
          ReadItems(_, _), ReadPairs(_, _)

\* writeField() of a given type, without the letter.
WriteTyped(t, v) ==
    CASE t = "t" -> << IF v THEN 1 ELSE 0 >>
      [] t \in {"b", "B"} -> BE(1, v)
      [] t \in {"U", "u"} -> BE(2, v)
      [] t \in {"I", "i"} -> BE(4, v)
      [] t \in {"L", "l", "T"} -> BE(8, v)
      [] t = "D" -> << v.scale >> \o BE(4, v.value)
      [] t = "s" -> BE(1, Len(v)) \o v
      [] t = "S" -> BE(4, Len(v)) \o v
      [] t = "A" -> BE(4, Len(v)) \o FlattenSeq([i \in DOMAIN v |-> WriteField(v[i])])
      [] t = "F" -> Serialize(v)
      [] OTHER -> << >>

WriteField(x) ==
    LET t == Picked(x)
    IN IF t = "" THEN << >> ELSE << Letter[t] >> \o WriteTyped(t, x.v)

\* serialize(): the names as short strings, in the order of the hash.
Serialize(table) ==
    LET pairs == SetToSeq(table)
        bytes == FlattenSeq([i \in DOMAIN pairs |->
                     WriteTyped("s", pairs[i][1]) \o WriteField(pairs[i][2])])
    IN BE(4, Len(bytes)) \o bytes

Read(type, r) == Got(Variant(type, r.val), r.rest)

\* readField(): one byte is read into a char, which is signed, the length of a short
\* string too.
ReadField(letter, s) ==
    CASE letter = Letter.t ->
            LET r == ReadSigned(1, s) IN Got(Variant("Bool", r.val > 0), r.rest)
      [] letter \in {Letter.b, Letter.U, Letter.I} ->
            Read("Int", ReadSigned(IF letter = Letter.b THEN 1
                                   ELSE IF letter = Letter.U THEN 2 ELSE 4, s))
      [] letter \in {Letter.B, Letter.u, Letter.i} ->
            Read("UInt", CASE letter = Letter.B -> ReadSigned(1, s)
                           [] letter = Letter.u -> ReadBE(2, s)
                           [] OTHER -> ReadSigned(4, s))
      [] letter = Letter.L -> Read("LongLong", ReadSigned(8, s))
      [] letter = Letter.l -> Read("ULongLong", ReadSigned(8, s))
      [] letter = Letter.T -> Read("DateTime", ReadSigned(8, s))
      [] letter = Letter.D ->
            LET scale == ReadSigned(1, s)
                value == ReadBE(4, scale.rest)
            IN Got(Variant("Decimal", [scale |-> scale.val, value |-> value.val]),
                   value.rest)
      [] letter = Letter.s ->
            LET n == ReadSigned(1, s) IN Read("String", ReadRaw(n.val, n.rest))
      [] letter = Letter.S ->
            LET n == ReadBE(4, s) IN Read("String", ReadRaw(n.val, n.rest))
      [] letter = Letter.A ->
            LET n == ReadSigned(4, s) IN Read("List", ReadItems(n.val, n.rest))
      [] letter = Letter.F ->
            LET n == ReadBE(4, s)
                data == ReadRaw(n.val, n.rest)
            IN Got(Variant("Hash", ReadPairs(data.val, {})), data.rest)
      [] OTHER -> Got(Invalid, s)

ReadItems(n, s) ==
    IF n <= 0 THEN Got(<< >>, s)
    ELSE LET first == ReadField(ReadBE(1, s).val, Drop(s, 1))
             others == ReadItems(n - 1, first.rest)
         IN Got(<< first.val >> \o others.val, others.rest)

\* deserialize(): a name that comes twice keeps its last value.
ReadPairs(s, table) ==
    IF s = << >> THEN table
    ELSE LET name == ReadField(Letter.s, s)
             letter == ReadBE(1, name.rest)
             value == ReadField(letter.val, letter.rest)
         IN ReadPairs(value.rest,
                {p \in table : p[1] # name.val.v} \cup {<< name.val.v, value.val >>})

Deserialize(s) == ReadField(Letter.F, s).val.v

=============================================================================
