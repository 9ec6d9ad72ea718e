---------------------------- MODULE GeneratedCode ---------------------------
(***************************************************************************)
(* The generator run over a request, and the generated code at work: a     *)
(* message is encoded by the writers that the definition of its type names,*)
(* and decoded by the readers it names.  write-field.ts, field-types.ts,   *)
(* messages.ts, enums.ts, key-converters.ts and customize.ts give the names*)
(* their meaning.                                                          *)
(*                                                                         *)
(* A value of a program is a record with one field that tells its kind:    *)
(*   number, float, decimal, hex, bool, text, bytes, timestamp, duration,  *)
(*   undefined, enum (an instance), enumName and enumNumber (what may be   *)
(*   given in its place), items (an array), map (a Map) and object, both a *)
(*   sequence of entries in the order they are enumerated, surrogate.      *)
(* A message is a function of the names it has a property for, "fields";   *)
(* a decoded one also says which member each oneof holds, "cases".  A      *)
(* string is its bytes, a wire a sequence of bytes.  An object keeps the   *)
(* order its entries were put in; that JavaScript lists the names that look*)
(* like numbers first is not modelled.                                     *)
(***************************************************************************)
EXTENDS Codegen, FloatCodec

CONSTANTS
    Requests,        \* what protoc asks for: sequences of files
    NumberSamples,   \* integers a program puts into fields
    FloatSamples     \* numbers a program puts into float and double fields

VARIABLES
    request,    \* the files of CodeGeneratorRequest
    rendered,   \* the files rendered so far
    plugin,     \* "running", "done" or "thrown"
    exchange    \* the message last encoded, and what became of it

vars == <<request, rendered, plugin, exchange>>

Undefined == [undefined |-> TRUE]
NoNumber == 0      \* writeOne of packed gets no field number

-----------------------------------------------------------------------------
(* What an identifier of a generated file stands for                       *)

Surrogates == GetSurrogates(request)

(* A relative module specifier, seen from the file that has it.            *)
Located(from, path) ==
    LET up == Len(SelectSeq(from, LAMBDA part : part = <<"..">>))
    IN  SubSeq(path, 1, Len(path) - 1 - up) \o SubSeq(from, up + 1, Len(from))

(* The file and the name there: all that a reference may stand for.        *)
Targets(file, id) ==
    IF id.root = Here THEN {[path |-> file.path, is |-> id.path]}
    ELSE {[path |-> Located(import.from, file.path), is |-> id.path] :
             import \in {i \in Range(file.imports) : i.name = id.root}}

Definition(file, id) ==
    LET target == CHOOSE t \in Targets(file, id) : TRUE
        there == CHOOSE f \in Range(rendered) : f.path = target.path
    IN  [file |-> there, def |-> CHOOSE d \in Range(there.defines) : d.is = target.is]

(* A surrogate, from surrogates.ts of the program: a string for a message  *)
(* with a text "value", and a value of its own for one that is absent.     *)
IsSurrogate(id) == id.root = FromSurrogates
DefaultSurrogate == [surrogateDefault |-> TRUE]
EmptySurrogate == [surrogate |-> << >>]
ValueField == <<"value">>
FromSurrogate(v) == [fields |-> ValueField :> [text |-> v.surrogate]]
ToSurrogate(raw) == [surrogate |-> raw.fields[ValueField].text]
RawType(id) ==
    LET name == CHOOSE n \in DOMAIN Surrogates : Surrogates[n] = id.path[1]
        file == CHOOSE f \in Range(rendered) :
                    \E g \in Range(request) : g.path = f.path /\ name \in {t.name : t \in TypesOf(g)}
        package == (CHOOSE g \in Range(request) : g.path = file.path).package
    IN  [file |-> file,
         def |-> CHOOSE d \in Range(file.defines) : package \o d.is = name]

(* The message type behind a reference. *)
TypeOf(file, id) == IF IsSurrogate(id) THEN RawType(id) ELSE Definition(file, id)

-----------------------------------------------------------------------------
(* The writers.  A codec is what TypeCodec makes: how it is wrapped, and   *)
(* the name of a built-in or the identifier of a type.                     *)

WireTypeOf(type) ==
    CASE type \in {"double", "fixed64", "sfixed64"} -> 1
      [] type \in {"string", "bytes"}              -> 2
      [] type \in {"float", "fixed32", "sfixed32"}  -> 5
      [] OTHER                                     -> 0

LengthDelim == 2
NoWireType == -1   \* the codec that a surrogate is given has none

CodecWireType(codec) ==
    CASE codec.wrap \in {"always", "optional"} -> WireTypeOf(codec.of[1])
      [] codec.wrap = "enumeration"            -> 0
      [] codec.wrap = "message" /\ IsSurrogate(codec.of) -> NoWireType
      [] OTHER                                 -> LengthDelim

Tag(number, wireType) ==
    IF number = NoNumber THEN << >> ELSE Varint32(8 * number + wireType)

Delimited(bytes) == Septets(Len(bytes)) \o bytes

Base(variation) == IF variation \in {"hex", "hexpad"} THEN 2 ^ HexBits ELSE 10

IsZero(v) == v = [is |-> "finite", sign |-> 0, n |-> 0]

IsDefault(of, v) ==
    CASE "number" \in DOMAIN v -> v.number = 0
      [] "digits" \in DOMAIN v ->
            LongFromString(v.digits, Base(of[2])) = Words(0, 0)
      [] "float" \in DOMAIN v  -> IsZero(v.float)
      [] "bool" \in DOMAIN v   -> v.bool = 0
      [] "text" \in DOMAIN v   -> v.text = << >>
      [] "bytes" \in DOMAIN v  -> v.bytes = << >>

(* undefined, and the empty string for a long. *)
IsNil(v) == v = Undefined \/ ("digits" \in DOMAIN v /\ v.digits.digits = << >>)

WriteData(of, v) ==
    CASE "number" \in DOMAIN v -> WriteNumber(of[1], v.number)
      [] "digits" \in DOMAIN v -> WriteLong(of[1], LongFromString(v.digits, Base(of[2])))
      [] "float" \in DOMAIN v  ->
            IF of[1] = "float" THEN WriteFloat(v.float) ELSE WriteDouble(v.float)
      [] "bool" \in DOMAIN v   -> WriteNumber("bool", v.bool)
      [] "text" \in DOMAIN v   -> Delimited(v.text)
      [] "bytes" \in DOMAIN v  -> Delimited(v.bytes)

(* makeWriter and makeLongWriter *)
WritePrimitive(of, v, number, force) ==
    IF IsNil(v) \/ (IsDefault(of, v) /\ ~force) THEN << >>
    ELSE Tag(number, WireTypeOf(of[1])) \o WriteData(of, v)

(* timestamp and duration *)
WriteTime(v) ==
    LET time == IF "timestamp" \in DOMAIN v THEN v.timestamp ELSE v.duration
    IN  WritePrimitive(<<"int64", NoFlag>>, [number |-> time.seconds], 1, FALSE)
        \o WritePrimitive(<<"int32", NoFlag>>, [number |-> time.nanos], 2, FALSE)

WriteWrapper(of, v, number) ==
    IF v = Undefined THEN << >>
    ELSE Tag(number, 2) \o Delimited(
            IF of[1] \in {"timestamp", "duration"} THEN WriteTime(v)
            ELSE WritePrimitive(of, v, 1, FALSE))

(* The constructor of an enum: the last of the values that were defined    *)
(* under the name or the number.                                           *)
EnumFrom(values, v) ==
    IF "enum" \in DOMAIN v THEN v
    ELSE LET Fits(i) == IF "enumName" \in DOMAIN v THEN values[i].jsName = v.enumName
                        ELSE values[i].number = v.enumNumber
             last == CHOOSE i \in DOMAIN values :
                        Fits(i) /\ \A j \in i + 1 .. Len(values) : ~Fits(j)
         IN  [enum |-> values[last]]

WriteEnum(values, v, number, force) ==
    IF v = Undefined THEN << >>
    ELSE WritePrimitive(<<"int32", NoFlag>>,
                        [number |-> EnumFrom(values, v).enum.number], number, force)

(* Mutant: Boolean(name) for a bool. *)
MutKeyFromString(of, key) ==
    CASE "digits" \in DOMAIN key /\ of[2] = NoFlag ->
            [number |-> (IF key.digits.negative THEN -1 ELSE 1) * Number(key.digits.digits, 10)]
      [] "boolName" \in DOMAIN key -> [bool |-> 1]
      [] OTHER -> key

(* The key that a property name stands for.                                *)
KeyFromString(of, key) ==
    CASE "digits" \in DOMAIN key /\ of[2] = NoFlag ->
            [number |-> (IF key.digits.negative THEN -1 ELSE 1) * Number(key.digits.digits, 10)]
      [] "boolName" \in DOMAIN key -> [bool |-> IF key.boolName = "true" THEN 1 ELSE 0]
      [] OTHER -> key

RECURSIVE WriteContents(_, _)

(* A message inside a message. *)
WriteMessage(type, v, number) == Tag(number, 2) \o Delimited(WriteContents(type, v))

WriteValue(file, codec, v, number, force) ==
    CASE codec.wrap \in {"always", "optional"} ->
            WritePrimitive(codec.of, v, number, force \/ codec.wrap = "optional")
      [] codec.wrap = "wrapper" -> WriteWrapper(codec.of, v, number)
      [] codec.wrap = "enumeration" ->
            WriteEnum(Definition(file, codec.of).def.values, v, number, force)
      [] codec.wrap = "message" ->
            IF v = (IF IsSurrogate(codec.of) THEN DefaultSurrogate ELSE Undefined) THEN << >>
            ELSE WriteMessage(TypeOf(file, codec.of),
                              IF IsSurrogate(codec.of) THEN FromSurrogate(v) ELSE v, number)

(* The entries of a Map, or those of an object that have a value.          *)
Entries(f, v) ==
    LET present == SelectSeq(v.object, LAMBDA e : e[2] # Undefined)
    IN  IF "map" \in DOMAIN v THEN v.map
        ELSE [i \in DOMAIN present |-> <<KeyFromString(f.key.of, present[i][1]), present[i][2]>>]

(* The key and the value of an entry, or the item of any other field.      *)
WriteItem(file, f, item) ==
    LET number == CASE f.form = "map" -> 2 [] f.form = "packed" -> NoNumber [] OTHER -> f.number
        value == IF f.form = "map" THEN item[2] ELSE item
        Whole(written) ==
            IF f.form # "map" THEN written
            ELSE Tag(f.number, 2) \o Delimited(WritePrimitive(f.key.of, item[1], 1, FALSE) \o written)
    IN  Whole(WriteValue(file, f.value, value, number, f.form \in {"packed", "repeated"}))

(* packed, repeated, map, or the writer alone *)
WriteField(file, f, v) ==
    LET items == CASE f.form = "one" -> <<v>> [] f.form = "map" -> Entries(f, v) [] OTHER -> v.items
        Whole(written) == IF f.form # "packed" \/ items = << >> THEN written
                          ELSE Tag(f.number, 2) \o Delimited(written)
    IN  IF f.form # "one" /\ v = Undefined THEN << >>
        ELSE Whole(FlattenSeq([i \in DOMAIN items |-> WriteItem(file, f, items[i])]))

(* writeContents: each field the message has a property for, and of each   *)
(* oneof the first such member.                                            *)
WriteContents(type, v) ==
    LET Has(f) == f.name \in DOMAIN v.fields
        First(members) == IF members = << >> THEN << >> ELSE <<Head(members)>>
        oneofs == type.def.oneofs
        chosen == SelectSeq(type.def.writes, Has)
                  \o FlattenSeq([k \in DOMAIN oneofs |-> First(SelectSeq(oneofs[k], Has))])
    IN  FlattenSeq([i \in DOMAIN chosen |->
            WriteField(type.file, chosen[i], v.fields[chosen[i].name])])

-----------------------------------------------------------------------------
(* The readers.  A type reads what it wrote: a field is not unknown, its   *)
(* wire type fits, and only the items of a repeated field and the entries  *)
(* of a map come more than once.  MessageDecode has the other cases.       *)

ZeroOf(of) ==
    CASE of[1] \in {"float", "double"} -> [float |-> Finite(0, 0)]
      [] of[1] = "bool"   -> [bool |-> 0]
      [] of[1] = "string" -> [text |-> << >>]
      [] of[1] = "bytes"  -> [bytes |-> << >>]
      [] of[1] \in LongTypes ->
            [digits |-> CASE of[2] = "hexpad"     -> PadHex(Words(0, 0))
                          [] of[2] = "decimalpad" -> PadDecimal(Words(0, 0))
                          [] OTHER                -> String(0, 10)]
      [] OTHER -> [number |-> 0]

ReadSub(bytes) ==
    LET length == ReadVarint32(bytes)
    IN  Result(SubSeq(bytes, length.used + 1, length.used + length.value),
               length.used + length.value)

Rest(bytes, used) == SubSeq(bytes, used + 1, Len(bytes))

(* What was read, as the kind of value that the type has.                  *)
Kinded(of, read) ==
    Result(CASE of[1] = "string" -> [text |-> read.value]
             [] of[1] = "bytes"  -> [bytes |-> read.value]
             [] of[1] = "bool"   -> [bool |-> read.value]
             [] of[1] \in LongTypes -> [digits |-> read.value]
             [] of[1] \in {"float", "double"} -> [float |-> read.value]
             [] OTHER -> [number |-> read.value], read.used)

ReadData(of, bytes) ==
    Kinded(of, CASE of[1] = "float"  -> Result(ReadFloat(bytes), 4)
                 [] of[1] = "double" -> Result(ReadDouble(bytes), 8)
                 [] of[1] \in {"string", "bytes"} -> ReadSub(bytes)
                 [] OTHER -> ReadScalar(of[1], of[2], bytes))

(* The content of a wrapper message: the value it holds so far; of another *)
(* field the tag alone is passed over.                                     *)
RECURSIVE ReadWrapped(_, _, _), ReadTime(_, _)
ReadWrapped(of, bytes, value) ==
    LET tag == ReadVarint32(bytes)
        After(data) == ReadWrapped(of, Rest(bytes, tag.used + data.used), data.value)
    IN  IF bytes = << >> THEN value
        ELSE After(IF tag.value \div 8 = 1 THEN ReadData(of, Rest(bytes, tag.used))
                   ELSE Result(value, 0))

(* parseInt of the decimal string *)
ParseInt(digits) == (IF digits.negative THEN -1 ELSE 1) * Number(digits.digits, 10)

(* readSecondsAndNanos *)
ReadTime(bytes, time) ==
    LET tag == ReadVarint32(bytes)
        isSeconds == tag.value \div 8 = 1
        After(read) ==
            ReadTime(Rest(bytes, tag.used + read.used),
                     IF isSeconds THEN [time EXCEPT !.seconds = ParseInt(read.value)]
                     ELSE [time EXCEPT !.nanos = read.value])
    IN  IF bytes = << >> THEN time
        ELSE After(ReadScalar(IF isSeconds THEN "int64" ELSE "int32", NoFlag, Rest(bytes, tag.used)))

DefVal(file, codec) ==
    CASE codec.wrap = "always" -> ZeroOf(codec.of)
      [] codec.wrap = "enumeration" ->
            EnumFrom(Definition(file, codec.of).def.values, [enumNumber |-> 0])
      [] codec.wrap = "message" /\ IsSurrogate(codec.of) -> DefaultSurrogate
      [] OTHER -> Undefined

(* A key as the name of a property.                                        *)
KeyName(key) ==
    CASE "number" \in DOMAIN key -> [digits |-> String(key.number, 10)]
      [] "bool" \in DOMAIN key   -> [boolName |-> IF key.bool = 1 THEN "true" ELSE "false"]
      [] OTHER -> key

Put(entries, key, value) ==
    IF \E i \in DOMAIN entries : entries[i][1] = key
    THEN [i \in DOMAIN entries |-> IF entries[i][1] = key THEN <<key, value>> ELSE entries[i]]
    ELSE Append(entries, <<key, value>>)

KeyField == <<"key">>
EntryField(number, name, codec) ==
    [number |-> number, name |-> name, form |-> "one", oneof |-> << >>, value |-> codec]

(* The message that the vtable template makes: a slot for each field.      *)
FieldDefault(file, f) ==
    CASE f.form = "map" -> [object |-> << >>]
      [] f.form \in {"packed", "repeated"} -> [items |-> << >>]
      [] OTHER -> DefVal(file, f.value)

Template(file, reads) ==
    [fields |-> [name \in {f.name : f \in Range(reads)} |->
                    FieldDefault(file, CHOOSE f \in Range(reads) : f.name = name)],
     cases |-> [oneof \in {f.oneof : f \in Range(reads)} \ {<< >>} |-> << >>]]

(* A member of a oneof takes the slot of the other members.                *)
SetField(file, reads, message, f, value) ==
    LET dropped == {g \in Range(reads) : f.oneof # << >> /\ g.oneof = f.oneof /\ g # f}
    IN  [fields |-> [name \in DOMAIN message.fields |->
                        IF name = f.name THEN value
                        ELSE IF \E g \in dropped : g.name = name
                        THEN DefVal(file, (CHOOSE g \in dropped : g.name = name).value)
                        ELSE message.fields[name]],
         cases |-> [oneof \in DOMAIN message.cases |->
                        IF oneof = f.oneof THEN f.name ELSE message.cases[oneof]]]

(* maybe: a wrapper, a timestamp or a duration.                            *)
ReadWrapper(of, sub) ==
    LET time == ReadTime(sub.value, [seconds |-> 0, nanos |-> 0])
    IN  Result(CASE of[1] = "timestamp" -> [timestamp |-> time]
                 [] of[1] = "duration"  -> [duration |-> time]
                 [] OTHER -> ReadWrapped(of, sub.value, ZeroOf(of)), sub.used)

ReadEnum(values, read) ==
    Result(EnumFrom(values, [enumNumber |-> read.value]), read.used)

RECURSIVE ReadFields(_, _, _, _)

ReadContents(type, bytes) ==
    ReadFields(type.file, type.def.reads, bytes, Template(type.file, type.def.reads))

ReadMessage(file, id, sub) ==
    LET Of(raw) == IF IsSurrogate(id) THEN ToSurrogate(raw) ELSE raw
    IN  Result(Of(ReadContents(TypeOf(file, id), sub.value)), sub.used)

ReadPlain(file, codec, bytes) ==
    CASE codec.wrap \in {"always", "optional"} -> ReadData(codec.of, bytes)
      [] codec.wrap = "wrapper" -> ReadWrapper(codec.of, ReadSub(bytes))
      [] codec.wrap = "enumeration" ->
            ReadEnum(Definition(file, codec.of).def.values, ReadScalar("int32", NoFlag, bytes))

ReadValue(file, codec, bytes) ==
    IF codec.wrap = "message" THEN ReadMessage(file, codec.of, ReadSub(bytes))
    ELSE ReadPlain(file, codec, bytes)

(* readValue of a codec: that of a message reads all there is.             *)
ReadItem(file, codec, bytes) ==
    IF codec.wrap = "message" THEN ReadMessage(file, codec.of, Result(bytes, Len(bytes)))
    ELSE ReadPlain(file, codec, bytes)

RECURSIVE ReadItems(_, _, _)
ReadItems(file, codec, bytes) ==
    LET Before(item) == <<item.value>> \o ReadItems(file, codec, Rest(bytes, item.used))
    IN  IF bytes = << >> THEN << >> ELSE Before(ReadItem(file, codec, bytes))

(* An entry of a map is read as a message of two fields.                   *)
ReadEntry(file, f, sub, prev) ==
    LET reads == <<EntryField(1, KeyField, f.key), EntryField(2, ValueField, f.value)>>
        Into(record) == Put(prev.object, KeyName(record[KeyField]), record[ValueField])
    IN  Result([object |-> Into(ReadFields(file, reads, sub.value, Template(file, reads)).fields)],
               sub.used)

(* repeated and map add to what was there before; a packed field is all of *)
(* its items.  A surrogate is taken for packed: each message that comes is *)
(* a list of its own, of one item or, if it is empty, of none, and takes   *)
(* the place of what was read before.                                      *)
ReadField(file, f, wireType, bytes, prev) ==
    LET Packed(sub) == Result([items |-> ReadItems(file, f.value, sub.value)], sub.used)
        Added(item) == IF f.form = "one" THEN item
                       ELSE Result([items |-> Append(prev.items, item.value)], item.used)
    IN
    CASE f.form = "map" -> ReadEntry(file, f, ReadSub(bytes), prev)
      [] f.form \in {"packed", "repeated"} /\ CodecWireType(f.value) # LengthDelim
         /\ wireType = LengthDelim ->
            Packed(ReadSub(bytes))
      [] OTHER -> Added(ReadValue(file, f.value, bytes))

ReadFields(file, reads, bytes, message) ==
    LET tag == ReadVarint32(bytes)
        f == CHOOSE f \in Range(reads) : f.number = tag.value \div 8
        After(read) == ReadFields(file, reads, Rest(bytes, tag.used + read.used),
                                  SetField(file, reads, message, f, read.value))
    IN  IF bytes = << >> THEN message
        ELSE After(ReadField(file, f, tag.value % 8, Rest(bytes, tag.used), message.fields[f.name]))

-----------------------------------------------------------------------------
(* What a program may hand to encode                                       *)

InRange(type, n) ==
    CASE type \in {"uint32", "fixed32"} -> 0 <= n /\ n < Word
      [] type \in {"int32", "sint32", "sfixed32"} -> -Sign <= n /\ n < Sign
      [] type \in {"uint64", "fixed64"} -> 0 <= n /\ n < Word * Word
      [] OTHER -> -Word * Sign <= n /\ n < Word * Sign

IsExact(n) == -(2 ^ SafeBits) < n /\ n < 2 ^ SafeBits
Times == {[seconds |-> s, nanos |-> n] : s \in {n \in NumberSamples : IsExact(n)}, n \in {0, 1}}

Scalars(of) ==
    LET numbers == {n \in NumberSamples : InRange(of[1], n)} IN
    CASE of[1] \in {"float", "double"} -> {[float |-> v] : v \in FloatSamples}
      [] of[1] = "bool"      -> {[bool |-> b] : b \in {0, 1}}
      [] of[1] = "string"    -> {[text |-> t] : t \in {<< >>, <<1>>, <<2, More>>}}
      [] of[1] = "bytes"     -> {[bytes |-> t] : t \in {<< >>, <<0>>, <<More, 1>>}}
      [] of[1] = "timestamp" -> {[timestamp |-> t] : t \in Times}
      [] of[1] = "duration"  -> {[duration |-> t] : t \in Times}
      [] of[1] \in LongTypes ->
            {[digits |-> String(n, Base(of[2]))] : n \in numbers}
            \cup {[number |-> n] : n \in {n \in numbers : IsExact(n)}}
            \cup {[digits |-> [negative |-> FALSE, digits |-> << >>]]}
      [] OTHER -> {[number |-> n] : n \in numbers}

(* A field of a message inside a message has one value.                    *)
RECURSIVE Inside(_, _), Samples(_, _)
Inside(file, def) ==
    LET plain == {f \in Range(def.writes) : f.form = "one" /\ f.value.wrap = "always"}
        f == CHOOSE f \in plain : \A g \in plain : f.number <= g.number
        v == CHOOSE v \in Scalars(f.value.of) : ~IsNil(v) /\ ~IsDefault(f.value.of, v)
    IN  {[fields |-> << >>]} \cup (IF plain = {} THEN {} ELSE {[fields |-> f.name :> v]})

Samples(file, codec) ==
    CASE codec.wrap \in {"always", "optional", "wrapper"} -> Scalars(codec.of)
      [] codec.wrap = "enumeration" ->
            UNION {{[enumName |-> v.jsName], [enumNumber |-> v.number], [enum |-> v]} :
                      v \in Range(Definition(file, codec.of).def.values)}
      [] codec.wrap = "message" ->
            IF IsSurrogate(codec.of) THEN {DefaultSurrogate, EmptySurrogate, [surrogate |-> <<1, 2>>]}
            ELSE LET type == Definition(file, codec.of) IN Inside(type.file, type.def)

(* A value that is written even where a default is not.                    *)
Typical(codec, samples) ==
    CHOOSE v \in samples :
        CASE codec.wrap = "enumeration" -> "enumNumber" \in DOMAIN v /\ v.enumNumber # 0
          [] codec.wrap = "message" -> v \notin {DefaultSurrogate, EmptySurrogate, [fields |-> << >>]}
                                       \/ samples = {[fields |-> << >>]}
          [] OTHER -> {"timestamp", "duration"} \cap DOMAIN v # {}
                      \/ (~IsNil(v) /\ ~IsDefault(codec.of, v))

Listed(set) == FoldSet(LAMBDA v, list : Append(list, v), << >>, set)

Lists(values, typical) ==
    {[items |-> << >>]} \cup {[items |-> <<v, typical, v>>] : v \in values}

(* Maps, and objects, of one entry for each key, of one entry or of none.  *)
Maps(entries, byKey) ==
    LET Object(list) == [object |-> [i \in DOMAIN list |-> <<KeyName(list[i][1]), list[i][2]>>]]
    IN  {[map |-> << >>], [map |-> byKey], Object(byKey)}
        \cup {[map |-> <<e>>] : e \in entries} \cup {Object(<<e>>) : e \in entries}

Keys(f, samples) ==
    {k \in samples : ~IsNil(k) /\ ("number" \in DOMAIN k => f.key.of[1] \notin LongTypes)}

FieldSamples(f, samples, keys) ==
    LET all == {v \in samples : ~IsNil(v)}
        typical == Typical(f.value, samples)
        byKey == {<<k, typical>> : k \in keys}
    IN
    (IF f.value.wrap = "message" /\ IsSurrogate(f.value.of) THEN {} ELSE {Undefined})
    \cup
    CASE f.form = "one" -> samples
      [] f.form \in {"packed", "repeated"} -> Lists(all, typical)
      [] f.form = "map" ->
            Maps({<<Typical(f.key, keys), v>> : v \in all} \cup byKey, Listed(byKey))

Members(def) == UNION {Range(members) : members \in Range(def.oneofs)}

(* One property, or all of them and one member of a oneof.                 *)
MessagesOf(fields, members, samples) ==
    LET Full(f) == CHOOSE v \in samples[f] :
                       CASE f.form = "one" -> v = Typical(f.value, samples[f] \ {Undefined})
                         [] f.form = "map" -> "object" \in DOMAIN v /\ Len(v.object) = 1
                         [] OTHER -> "items" \in DOMAIN v /\ Len(v.items) > 0
        All(chosen) == [fields |-> [name \in {f.name : f \in chosen} |->
                                       Full(CHOOSE f \in chosen : f.name = name)]]
    IN  {[fields |-> << >>]}
        \cup UNION {{[fields |-> f.name :> v] : v \in samples[f]} : f \in fields \cup members}
        \cup {All(fields \cup chosen) : chosen \in {{}} \cup {{f} : f \in members}}

Messages(file, def) ==
    LET fields == Range(def.writes)
        Of(f, codec) == IF codec \in DOMAIN f THEN Samples(file, f[codec]) ELSE {}
    IN  MessagesOf(fields, Members(def),
            [f \in fields \cup Members(def) |-> FieldSamples(f, Of(f, "value"), Keys(f, Of(f, "key")))])

-----------------------------------------------------------------------------
(* The steps *)

NoExchange == [step |-> "none"]

Init ==
    /\ request = << >> /\ rendered = << >>
    /\ plugin = "done" /\ exchange = NoExchange

(* protoc starts the plugin.                                               *)
RunPlugin ==
    /\ plugin # "running"
    /\ request' \in Requests
    /\ plugin' = "running" /\ rendered' = << >> /\ exchange' = NoExchange

RECURSIVE FieldsOf(_)
FieldsOf(messages) ==
    UNION {Range(m.fields) \cup FieldsOf(m.nested) : m \in Range(messages)}

Renderable(file) == \A f \in FieldsOf(file.messages) : Implemented(f)

(* The loop of runPlugin.                                                  *)
RenderFile ==
    /\ plugin = "running" /\ Len(rendered) < Len(request)
    /\ LET file == request[Len(rendered) + 1] IN
       /\ Renderable(file)
       /\ rendered' = Append(rendered,
                             RenderProtoFile(file, BuildDeclarationsMap(request), Surrogates))
    /\ UNCHANGED <<request, plugin, exchange>>

(* A throw leaves no file behind.                                          *)
RenderThrows ==
    /\ plugin = "running" /\ Len(rendered) < Len(request)
    /\ ~Renderable(request[Len(rendered) + 1])
    /\ plugin' = "thrown" /\ rendered' = << >>
    /\ UNCHANGED <<request, exchange>>

PluginDone ==
    /\ plugin = "running" /\ Len(rendered) = Len(request)
    /\ plugin' = "done"
    /\ UNCHANGED <<request, rendered, exchange>>

(* encode of a type, of a message in its loose form                        *)
Encode ==
    /\ plugin = "done" /\ exchange = NoExchange
    /\ \E file \in Range(rendered) : \E i \in DOMAIN file.defines :
        LET def == file.defines[i] IN
        /\ def.kind = "message"
        /\ \E value \in Messages(file, def) :
            exchange' = [step |-> "encoded", file |-> file.path, type |-> i, value |-> value,
                         bytes |-> WriteContents([file |-> file, def |-> def], value)]
    /\ UNCHANGED <<request, rendered, plugin>>

FileAt(path) == CHOOSE f \in Range(rendered) : f.path = path
ExchangedDef == FileAt(exchange.file).defines[exchange.type]
ExchangedType == [file |-> FileAt(exchange.file), def |-> ExchangedDef]

(* decode of the same type, for the first and for the second time          *)
Decode ==
    /\ exchange.step \in {"encoded", "reencoded"}
    /\ LET After(message) ==
               IF exchange.step = "encoded" THEN [step |-> "decoded", read |-> message]
               ELSE [step |-> "redecoded", readAgain |-> message]
       IN  exchange' = After(ReadContents(ExchangedType, exchange.bytes)) @@ exchange
    /\ UNCHANGED <<request, rendered, plugin>>

(* What was decoded is handed to encode; it has a property for every field.*)
Reencode ==
    /\ exchange.step = "decoded"
    /\ exchange' = [exchange EXCEPT !.step = "reencoded",
                                    !.bytes = WriteContents(ExchangedType, exchange.read)]
    /\ UNCHANGED <<request, rendered, plugin>>

Forget ==
    /\ exchange.step = "redecoded"
    /\ exchange' = NoExchange
    /\ UNCHANGED <<request, rendered, plugin>>

Next ==
    \/ RunPlugin \/ RenderFile \/ RenderThrows \/ PluginDone
    \/ Encode \/ Decode \/ Reencode \/ Forget

Spec == Init /\ [][Next]_vars
=============================================================================
