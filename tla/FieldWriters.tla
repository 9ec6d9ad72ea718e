---------------------------- MODULE FieldWriters ----------------------------
(***************************************************************************)
(* write-field.ts: the bytes that the writer of a field produces.  A part  *)
(* is one call of a field writer by generated code: a field number, the    *)
(* type of the field and a value (of a repeated field one item, of a map   *)
(* one entry).  A message is a sequence of parts.                          *)
(*                                                                         *)
(* Values are sequences: <<n>> for an integer, the bytes of a string or of *)
(* a fixed-width number, the items of a packed field, <<key, value>> for   *)
(* an entry of a map, the parts of a message.                              *)
(*                                                                         *)
(* The writer of a message is given the writer of its contents, generated  *)
(* code that is made of the writers below.  The module is given it too: an *)
(* instance has Contents for WriteContents, and messages inside messages   *)
(* without end.                                                            *)
(***************************************************************************)
EXTENDS Naturals, Sequences, SequencesExt

CONSTANTS
    Base,              \* payload values of one varint byte: 128 in the code
    WriteContents(_)   \* writeContents of a message in a field

ASSUME BaseAssumption == Base \in Nat \ {0, 1}

VarintType == 0
DoubleType == 1
DelimType == 2
SingleType == 5
WireTypes == {VarintType, DoubleType, DelimType, SingleType}

(* Types of fields; Packed is how a repeated primitive field is written.   *)
Primitive(wt) == [kind |-> "primitive", wt |-> wt]
Optional(type) == [kind |-> "optional", of |-> type]
Maybe(type) == [kind |-> "maybe", of |-> type]
Repeated(type) == [kind |-> "repeated", of |-> type]
Packed(type) == [kind |-> "packed", of |-> type]
Oneof(name, type) == [kind |-> "oneof", name |-> name, of |-> type]
MapOf(key, value) == [kind |-> "map", key |-> key, value |-> value]
Message(fields) == [kind |-> "message", fields |-> fields]

(* The value a primitive has when it is not there. *)
Zero(wt) ==
    CASE wt = VarintType -> <<0>>
      [] wt = DelimType  -> << >>
      [] wt = SingleType -> [i \in 1 .. 4 |-> 0]
      [] wt = DoubleType -> [i \in 1 .. 8 |-> 0]

IsPrimitive(wt, value) ==
    value \in Seq(Nat) /\ (wt # DelimType => Len(value) = Len(Zero(wt)))

(* int32 and uint32 of write-value.ts, for values below 2^28. *)
VarintOf[n \in Nat] ==
    IF n >= Base THEN <<Base + (n % Base)>> \o VarintOf[n \div Base] ELSE <<n>>

Tag(number, wt) == VarintOf[8 * number + wt]

(* What the nesting writer makes of begin, data, end. *)
Delimited(data) == VarintOf[Len(data)] \o data

Data(wt, value) ==
    CASE wt = VarintType -> VarintOf[value[1]]
      [] wt = DelimType  -> Delimited(value)
      [] OTHER           -> value

(* The writer of a primitive; force writes a default value too. *)
WritePrimitive(wt, number, value, force) ==
    IF value = Zero(wt) /\ ~force THEN << >> ELSE Tag(number, wt) \o Data(wt, value)

(* The writers of what a field may have one or many of. *)
WriteItem(type, number, value, force) ==
    CASE type.kind = "primitive" -> WritePrimitive(type.wt, number, value, force)
      [] type.kind = "maybe" ->
            Tag(number, DelimType)
            \o Delimited(WritePrimitive(type.of.wt, 1, value, FALSE))
      [] type.kind = "message" ->
            Tag(number, DelimType) \o Delimited(WriteContents(value))

(* The writer of a field. *)
Write(type, number, value) ==
    CASE type.kind \in {"optional", "repeated"} ->
            WriteItem(type.of, number, value, TRUE)
      [] type.kind = "oneof" ->
            WriteItem(type.of, number, value, FALSE)
      [] type.kind = "packed" ->
            IF value = << >> THEN << >>
            ELSE Tag(number, DelimType) \o Delimited(FlattenSeq(
                     [i \in DOMAIN value |-> Data(type.of.wt, value[i])]))
      [] type.kind = "map" ->
            Tag(number, DelimType) \o Delimited(
                WriteItem(type.key, 1, value[1], FALSE)
                \o WriteItem(type.value, 2, value[2], FALSE))
      [] OTHER -> WriteItem(type, number, value, FALSE)

(* writeContents of a message, made by the code generator. *)
Contents(parts) ==
    FlattenSeq([i \in DOMAIN parts |->
        Write(parts[i].type, parts[i].number, parts[i].value)])

-----------------------------------------------------------------------------
(* What a program may write                                                *)

(* The types of what a field may have one or many of, and those of fields. *)
IsItemType(type) ==
    \/ type.kind = "primitive" /\ type.wt \in WireTypes
    \/ type.kind = "maybe" /\ type.of.kind = "primitive" /\ type.of.wt \in WireTypes
    \/ type.kind = "message"

IsFieldType(type) ==
    \/ IsItemType(type)
    \/ type.kind \in {"repeated", "oneof"} /\ IsItemType(type.of)
    \/ type.kind = "optional" /\ IsItemType(type.of) /\ type.of.kind = "primitive"
    \/ type.kind = "map" /\ IsItemType(type.key) /\ IsItemType(type.value)

(* A number whose varint has no more bytes than a reader takes. *)
Fits(n) == n \in Nat /\ Len(VarintOf[n]) <= 10

IsData(wt, value) ==
    /\ wt \in WireTypes
    /\ IsPrimitive(wt, value)
    /\ wt = VarintType => Fits(value[1])
    /\ wt = DelimType => Fits(Len(value))

IsItemValue(type, value) ==
    /\ IsItemType(type)
    /\ CASE type.kind = "primitive" -> IsData(type.wt, value)
         [] type.kind = "maybe" ->
               /\ IsData(type.of.wt, value)
               /\ IsData(DelimType, WritePrimitive(type.of.wt, 1, value, FALSE))
         [] type.kind = "message" -> IsData(DelimType, WriteContents(value))

IsFieldValue(type, value) ==
    CASE type.kind \in {"optional", "repeated", "oneof"} -> IsItemValue(type.of, value)
      [] type.kind = "packed" ->
            /\ type.of.kind = "primitive"
            /\ value \in Seq(Seq(Nat))
            /\ \A i \in DOMAIN value : IsData(type.of.wt, value[i])
            /\ IsData(DelimType, FlattenSeq(
                   [i \in DOMAIN value |-> Data(type.of.wt, value[i])]))
      [] type.kind = "map" ->
            /\ IsItemValue(type.key, value[1]) /\ IsItemValue(type.value, value[2])
            /\ IsData(DelimType, WriteItem(type.key, 1, value[1], FALSE)
                                 \o WriteItem(type.value, 2, value[2], FALSE))
      [] OTHER -> IsItemValue(type, value)

(* A part that generated code may write. *)
Writable(part) ==
    /\ part.number \in Nat \ {0}
    /\ \A wt \in WireTypes : Fits(8 * part.number + wt)
    /\ IsFieldValue(part.type, part.value)
=============================================================================
