--------------------------- MODULE MessageDecode ----------------------------
(***************************************************************************)
(* Decoding a message: messages.ts, field-types.ts, read-value.ts and      *)
(* reader.ts.  One step of the state machine is one turn of the loop of    *)
(* the message reader: it reads a tag and the field behind it.  The fields *)
(* inside an inner message are read within the step of the outer field.    *)
(*                                                                         *)
(* The input was written by the field writers, for a message type that     *)
(* need not be the reader's: the reader may not know a field, or know it   *)
(* with another type.  Messages are cut in pieces: any field may come      *)
(* several times.                                                          *)
(*                                                                         *)
(* A decoded value is a sequence (see FieldWriters); << >> is undefined,   *)
(* and an inner message is <<message>>.                                    *)
(*                                                                         *)
(* The reader of a message field is given the reader of what is inside     *)
(* (message and createMessage of messages.ts), and so is the module: an    *)
(* instance has ReadFields for ReadContents, and the same for what such a  *)
(* message should be and for its type.                                     *)
(***************************************************************************)
EXTENDS FieldWriters, FiniteSetsExt

CONSTANTS
    Fields,       \* number -> type: the fields the reader knows
    PartList,     \* the parts an input is made of
    MaxParts,     \* bound: parts of one input
    ReadContents(_, _, _),    \* the readMessageValue of a message field
    MergeContents(_, _, _),   \* what it should make of the parts inside
    IsContents(_, _)          \* the messages of a type

ASSUME FieldsAssumption ==
    /\ DOMAIN Fields \subseteq Nat
    /\ \A number \in DOMAIN Fields : IsFieldType(Fields[number])
ASSUME PartsAssumption ==
    /\ MaxParts \in Nat
    /\ \A i \in DOMAIN PartList : Writable(PartList[i])

VARIABLES
    parts,      \* the input: indices into PartList
    at,         \* cursor of the reader
    message,    \* [vtable, unknown] of the message being read
    read,       \* number of fields read
    outcome     \* "reading", "done", "throw", "hang"

vars == <<parts, at, message, read, outcome>>

Undefined == << >>

-----------------------------------------------------------------------------
(* reader.ts and read-value.ts.  A result says where the reader is next.   *)

Value(value, next) == [is |-> "value", value |-> value, at |-> next]
Failed(next) == [is |-> "error", value |-> Undefined, at |-> next]
Thrown == [is |-> "throw", value |-> Undefined, at |-> 0]
Hung == [is |-> "hang", value |-> Undefined, at |-> 0]

(* Go on with a value; anything else is the result. *)
Then(result, Continue(_, _)) ==
    IF result.is = "value" THEN Continue(result.value, result.at) ELSE result

(* A block is cut off at the end of the bytes, the cursor is not. *)
Block(bytes, from, length) ==
    Value(SubSeq(bytes, from + 1, Min({from + length, Len(bytes)})), from + length)

(* Bytes without the more-to-come bit; there are none beyond the end.      *)
Terminators(bytes, from, limit) ==
    {i \in from + 1 .. Min({limit, Len(bytes)}) : bytes[i] < Base}

(* The value of the bytes up to last, the lowest bits first. *)
Payload(bytes, from, last) ==
    LET high[k \in 0 .. last - from] ==
            IF k = 0 THEN 0 ELSE (bytes[last + 1 - k] % Base) + Base * high[k - 1]
    IN  high[last - from]

(* varint32 gives up after ten bytes.  Values stay below 2^28 here. *)
Varint(bytes, from) ==
    LET ends == Terminators(bytes, from, from + 10) IN
    IF ends = {} THEN Thrown
    ELSE Value(<<Payload(bytes, from, Min(ends))>>, Min(ends))

(* length-prefixed bytes: string, bytes, sub *)
Delimiter(bytes, from) ==
    Then(Varint(bytes, from), LAMBDA length, next : Block(bytes, next, length[1]))

(* Mutant: 32-bit fields are skipped like 64-bit ones. *)
MutWidthOf(wt) == 8

WidthOf(wt) == IF wt = SingleType THEN 4 ELSE 8

(* The bytes of a fixed-width number are all there in what a writer wrote. *)
ReadPrimitive(wt, bytes, from) ==
    CASE wt = VarintType -> Varint(bytes, from)
      [] wt = DelimType  -> Delimiter(bytes, from)
      [] OTHER           -> Block(bytes, from, WidthOf(wt))

(* The length of a block to skip is that in the last byte of its prefix,   *)
(* which has at most six bytes.                                            *)
SkipDelimiter(bytes, from) ==
    LET last == Min({from + 6} \cup Terminators(bytes, from, from + 6))
        length == IF last > Len(bytes) THEN 0 ELSE bytes[last] % Base
    IN  Block(bytes, from, last + length - from)

(* skip gives the raw bytes; a varint that does not end is read for ever. *)
Skip(bytes, from, wt) ==
    CASE wt = VarintType ->
            LET ends == Terminators(bytes, from, Len(bytes)) IN
            IF ends = {} THEN Hung ELSE Block(bytes, from, Min(ends) - from)
      [] wt \in {SingleType, DoubleType} -> Block(bytes, from, WidthOf(wt))
      [] wt = DelimType -> SkipDelimiter(bytes, from)
      [] OTHER -> Thrown

-----------------------------------------------------------------------------
(* field-types.ts and messages.ts *)

(* Where the values of a type are kept: the members of a oneof share the   *)
(* place of the first of them.                                             *)
Slot(fields, number) ==
    IF fields[number].kind # "oneof" THEN number
    ELSE Min({n \in DOMAIN fields : fields[n].kind = "oneof"
                                    /\ fields[n].name = fields[number].name})

Slots(fields) == {Slot(fields, number) : number \in DOMAIN fields}

(* defVal; maps and repeated fields start empty, the others undefined. *)
DefVal(type) == IF type.kind = "primitive" THEN Zero(type.wt) ELSE << >>

Template(fields) ==
    [vtable |-> [slot \in Slots(fields) |-> DefVal(fields[slot])],
     unknown |-> << >>]

(* The wire type of a type as a field of its own. *)
WireTypeOf(type) ==
    LET core == IF type.kind \in {"optional", "oneof", "repeated"}
                THEN type.of ELSE type
    IN  IF core.kind = "primitive" THEN core.wt ELSE DelimType

(* Mutant: a field of the wrong wire type throws where it is found. *)
MutSkipThenFail(bytes, from, wt) == Thrown

(* A field of the wrong wire type is skipped and reported. *)
SkipThenFail(bytes, from, wt) ==
    Then(Skip(bytes, from, wt), LAMBDA raw, next : Failed(next))

(* Mutant: a member of a oneof is not merged with itself. *)
MutPrevious(slot, number, type) == DefVal(type)

(* What a member of a oneof is merged with. *)
Previous(slot, number, type) ==
    IF slot # Undefined /\ slot[1] = number THEN slot[2] ELSE DefVal(type)

(* An error returned by the reader of a field is thrown. *)
Raise(result) == IF result.is = "error" THEN Thrown ELSE result

(* A reader takes turns until it is at the end of its bytes, at most one   *)
(* for each of them: a turn takes a byte or more.                          *)
Loop(bytes, start, Turn(_, _)) ==
    LET after[n \in 0 .. Len(bytes)] ==
            IF n = 0 THEN Value(start, 0)
            ELSE LET before == after[n - 1] IN
                 IF before.at < Len(bytes) THEN Then(before, Turn) ELSE before
    IN  after[Len(bytes)]

(* The items of a packed field *)
Items(wt, bytes) ==
    Loop(bytes, << >>, LAMBDA items, from :
        Then(ReadPrimitive(wt, bytes, from),
             LAMBDA item, next : Value(Append(items, item), next)))

(* Mutant: a field of any wire type is read. *)
MutReadOrSkip(wt, bytes, from, found) == ReadPrimitive(found, bytes, from)

(* The read of a primitive *)
ReadOrSkip(wt, bytes, from, found) ==
    IF found # wt THEN SkipThenFail(bytes, from, found)
    ELSE ReadPrimitive(wt, bytes, from)

(* The content of a wrapper message; a field it does not know is passed    *)
(* over without its value.                                                 *)
ReadWrapper(wt, bytes, start) ==
    Loop(bytes, start, LAMBDA value, from :
        Then(Varint(bytes, from), LAMBDA tag, next :
            IF tag[1] \div 8 # 1 THEN Value(value, next)
            ELSE Raise(ReadOrSkip(wt, bytes, next, tag[1] % 8))))

(* The reads of what a field may have one or many of: prev is what the     *)
(* field held before.                                                      *)
ReadItem(type, bytes, from, wt, prev) ==
    CASE type.kind = "primitive" -> ReadOrSkip(type.wt, bytes, from, wt)
      [] type.kind = "maybe" ->
            IF wt # DelimType THEN SkipThenFail(bytes, from, wt)
            ELSE Then(Delimiter(bytes, from), LAMBDA content, next :
                     Then(ReadWrapper(type.of.wt, content,
                              IF prev = Undefined THEN DefVal(type.of) ELSE prev),
                          LAMBDA value, end : Value(value, next)))
      [] type.kind = "message" ->
            IF wt # DelimType THEN Failed(from)
            ELSE Then(Delimiter(bytes, from), LAMBDA content, next :
                     Then(ReadContents(type.fields, content,
                              IF prev = Undefined THEN Template(type.fields)
                                                  ELSE prev[1]),
                          LAMBDA inner, end : Value(<<inner>>, next)))

(* An entry replaces that of its key. *)
Put(entries, key, value) ==
    [k \in {key} \cup DOMAIN entries |-> IF k = key THEN value ELSE entries[k]]

(* The read of a field type. *)
Read(type, bytes, from, wt, number, prev) ==
    CASE type.kind = "optional" ->
            ReadItem(type.of, bytes, from, wt, DefVal(type.of))
      [] type.kind = "repeated" ->
            IF wt = DelimType /\ WireTypeOf(type.of) # DelimType
            THEN Then(Delimiter(bytes, from), LAMBDA content, next :
                     Then(Items(type.of.wt, content), LAMBDA items, end :
                         Value(items, next)))
            ELSE LET item == ReadItem(type.of, bytes, from, wt, DefVal(type.of)) IN
                 IF item.is = "error" THEN Value(prev, item.at)
                 ELSE Then(item, LAMBDA value, next : Value(Append(prev, value), next))
      [] type.kind = "oneof" ->
            LET member == ReadItem(type.of, bytes, from, wt,
                                   Previous(prev, number, type.of))
            IN  IF member.is = "error" THEN Value(<<number, "Error">>, member.at)
                ELSE Then(member, LAMBDA value, next : Value(<<number, value>>, next))
      [] type.kind = "map" ->
            Then(ReadItem(Message(<<type.key, type.value>>), bytes, from, wt, Undefined),
                 LAMBDA entry, next :
                     Value(Put(prev, entry[1].vtable[1], entry[1].vtable[2]), next))
      [] OTHER -> ReadItem(type, bytes, from, wt, prev)

(* A field that the reader does not know is kept as it came. *)
Keep(msg, number, raw) == [msg EXCEPT !.unknown = Append(@, <<number, raw>>)]

(* One turn of the loop of makeMessageVTableReader. *)
ReadField(fields, bytes, from, msg) ==
    Then(Varint(bytes, from), LAMBDA tag, next :
        LET number == tag[1] \div 8
            wt == tag[1] % 8
        IN  IF number \notin DOMAIN fields
            THEN Then(Skip(bytes, next, wt), LAMBDA raw, after :
                     Value(Keep(msg, number, raw), after))
            ELSE LET slot == Slot(fields, number) IN
                 Then(Raise(Read(fields[number], bytes, next, wt, number,
                                 msg.vtable[slot])),
                      LAMBDA value, after :
                          Value([msg EXCEPT !.vtable[slot] = value], after)))

(* The loop, for the message inside a field. *)
ReadFields(fields, bytes, msg) ==
    Loop(bytes, msg, LAMBDA new, from : ReadField(fields, bytes, from, new))

-----------------------------------------------------------------------------
(* The decoding of one input *)

Part(i) == PartList[parts[i]]
FirstParts(n) == [i \in 1 .. n |-> Part(i)]
Bytes == Contents(FirstParts(Len(parts)))

(* The pieces of an input all write something, and a packed chunk is the   *)
(* first of its field: the reader of a repeated field forgets what it had. *)
Whole(input) ==
    /\ \A i \in DOMAIN input : Contents(<<PartList[input[i]]>>) # << >>
    /\ \A i, j \in DOMAIN input :
          i < j /\ PartList[input[i]].number = PartList[input[j]].number
          => PartList[input[j]].type.kind # "packed"

Inputs(n) == {input \in [1 .. n -> DOMAIN PartList] : Whole(input)}

Init ==
    /\ \E n \in 0 .. MaxParts : parts \in Inputs(n)
    /\ at = 0
    /\ message = Template(Fields)
    /\ read = 0
    /\ outcome = "reading"

(* A turn of the loop for the outermost message. *)
TakeField ==
    /\ outcome = "reading" /\ at < Len(Bytes)
    /\ LET result == ReadField(Fields, Bytes, at, message) IN
       \/ /\ result.is = "value"
          /\ message' = result.value
          /\ at' = result.at
          /\ read' = read + 1
          /\ UNCHANGED outcome
       \/ /\ result.is # "value"
          /\ outcome' = result.is
          /\ UNCHANGED <<message, at, read>>
    /\ UNCHANGED parts

Finish ==
    /\ outcome = "reading" /\ at >= Len(Bytes)
    /\ outcome' = "done"
    /\ UNCHANGED <<parts, at, message, read>>

Next == TakeField \/ Finish

Spec == Init /\ [][Next]_vars

-----------------------------------------------------------------------------
(* What the message should be: each part is merged into it, by the rules   *)
(* of the protobuf encoding.                                               *)

(* A reader can take the field: it does not know it, or knows it with a    *)
(* wire type that fits, or drops the items of a repeated field that do not.*)
Readable(fields, part) ==
    \/ part.number \notin DOMAIN fields
    \/ fields[part.number].kind = "repeated"
    \/ WireTypeOf(part.type) = WireTypeOf(fields[part.number])

CombineItem(type, old, value) ==
    CASE type.kind = "primitive" -> value
      [] type.kind = "maybe" ->
            IF old # Undefined /\ value = DefVal(type.of) THEN old ELSE value
      [] type.kind = "message" ->
            <<MergeContents(type.fields,
                            IF old = Undefined THEN Template(type.fields) ELSE old[1],
                            value)>>

Combine(type, number, old, value, written) ==
    CASE type.kind = "optional" -> value
      [] type.kind = "repeated" ->
            IF written.kind = "packed" THEN old \o value
            ELSE IF WireTypeOf(written) # WireTypeOf(type) THEN old
            ELSE Append(old, CombineItem(type.of, DefVal(type.of), value))
      [] type.kind = "oneof" ->
            <<number, CombineItem(type.of, IF old # Undefined /\ old[1] = number
                                           THEN old[2] ELSE DefVal(type.of), value)>>
      [] type.kind = "map" ->
            Put(old, CombineItem(type.key, DefVal(type.key), value[1]),
                     CombineItem(type.value, DefVal(type.value), value[2]))
      [] OTHER -> CombineItem(type, old, value)

Merge(fields, msg, part) ==
    LET bytes == Contents(<<part>>)
        tag == Tag(part.number, WireTypeOf(part.type))
        slot == Slot(fields, part.number)
    IN  IF bytes = << >> THEN msg
        ELSE IF part.number \notin DOMAIN fields
        THEN Keep(msg, part.number, SubSeq(bytes, Len(tag) + 1, Len(bytes)))
        ELSE [msg EXCEPT !.vtable[slot] =
                 Combine(fields[part.number], part.number, @, part.value, part.type)]

MergeAll(fields, msg, pieces) ==
    LET merged[n \in 0 .. Len(pieces)] ==
            IF n = 0 THEN msg ELSE Merge(fields, merged[n - 1], pieces[n])
    IN  merged[Len(pieces)]

-----------------------------------------------------------------------------
(* Properties *)

IsItem(type, value) ==
    CASE type.kind = "primitive" -> IsPrimitive(type.wt, value)
      [] type.kind = "maybe" -> value = Undefined \/ IsPrimitive(type.of.wt, value)
      [] type.kind = "message" -> value = Undefined \/ IsContents(type.fields, value[1])

(* A value of the type the message reader declares for the field. *)
IsOf(fields, type, value) ==
    CASE type.kind = "optional" -> value = Undefined \/ IsItem(type.of, value)
      [] type.kind = "repeated" ->
            /\ value \in Seq(Range(value))
            /\ \A i \in DOMAIN value : IsItem(type.of, value[i])
      [] type.kind = "map" ->
            \A key \in DOMAIN value : IsItem(type.key, key) /\ IsItem(type.value, value[key])
      [] type.kind = "oneof" ->
            value = Undefined \/ IsItem(fields[value[1]].of, value[2])
      [] OTHER -> IsItem(type, value)

(* Each slot of a message holds such a value. *)
IsMessage(fields, msg) ==
    /\ DOMAIN msg.vtable = Slots(fields)
    /\ \A slot \in Slots(fields) : IsOf(fields, fields[slot], msg.vtable[slot])

(* Every variable holds values of its type, also in the middle of decoding:*)
(* a field that was not read yet has its default.                          *)
TypeOK ==
    /\ parts \in Seq(DOMAIN PartList)
    /\ at \in Nat /\ read \in 0 .. Len(parts)
    /\ outcome \in {"reading", "done", "throw", "hang"}
    /\ IsMessage(Fields, message)

(* The reader is in step: before each turn of its loop the cursor is at    *)
(* the start of a field, whatever fields it did not know or skipped.       *)
InStep ==
    outcome \in {"reading", "done"} => at = Len(Contents(FirstParts(read)))

(* What was decoded is what was written, merged: a later scalar replaces,  *)
(* items are appended, messages in several pieces are merged, a member of  *)
(* a oneof replaces another, unknown fields are kept as they came.         *)
DecodesParts ==
    outcome \in {"reading", "done"} =>
        message = MergeAll(Fields, Template(Fields), FirstParts(read))

(* Decoding throws exactly on the first field with a wire type that does   *)
(* not fit, and never runs into the end of the bytes.                      *)
ThrowsOnMismatch ==
    /\ \A i \in 1 .. read : Readable(Fields, Part(i))
    /\ outcome = "throw" => read < Len(parts) /\ ~Readable(Fields, Part(read + 1))
    /\ outcome # "hang"
=============================================================================
