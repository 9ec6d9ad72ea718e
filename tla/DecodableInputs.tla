-------------------------- MODULE DecodableInputs --------------------------
(***************************************************************************)
(* What is asked of the input of a message reader, for the theorems about  *)
(* MessageDecode: which parts fit the fields the reader knows, and what    *)
(* the readers of the messages inside are asked for.  The latter is said   *)
(* twice: InputsFit says what they answer, and Nested only that messages   *)
(* inside messages come to an end, from which their answers follow.        *)
(***************************************************************************)
EXTENDS MessageDecode

First(seqs, n) == [i \in 1 .. n |-> seqs[i]]

(* The message after the first n pieces *)
After(fields, msg, pieces, n) == MergeAll(fields, msg, First(pieces, n))

InputPieces(input) == [i \in 1 .. Len(input) |-> PartList[input[i]]]

IsInput(input) == Len(input) \in 0 .. MaxParts /\ input \in Inputs(Len(input))

-----------------------------------------------------------------------------
(* Parts: of the type the reader knows, or with a wire type that does not  *)
(* fit; and a block to skip is short, since skip takes its length from the *)
(* last byte of the prefix only (the run message_long).                    *)

ShortBlock(part) ==
    Len(Contents(<<part>>)) <= Len(Tag(part.number, DelimType)) + Base

Fit(fields, part) ==
    IF part.number \in DOMAIN fields
    THEN LET type == fields[part.number] IN
         \/ part.type = type
         \/ /\ type.kind = "repeated" /\ WireTypeOf(type) # DelimType
            /\ part.type = Packed(type.of)
         \/ /\ WireTypeOf(part.type) # WireTypeOf(type)
            /\ type.kind # "oneof"
            /\ type.kind = "repeated" =>
                  WireTypeOf(part.type) # DelimType /\ type.of.kind # "message"
    ELSE WireTypeOf(part.type) = DelimType => ShortBlock(part)

(* The reader of a message inside makes of it what it should. *)
InnerReads(type, old, value) ==
    type.kind = "message" =>
        LET inner == IF old = Undefined THEN Template(type.fields) ELSE old[1]
            result == ReadContents(type.fields, WriteContents(value), inner)
        IN  /\ result.is = "value"
            /\ result.value = MergeContents(type.fields, inner, value)
            /\ IsContents(type.fields, result.value)

(* An entry of a map is read as a message of two fields. *)
EntryReads(key, value, entry) ==
    LET result == ReadContents(<<key, value>>,
                               WriteItem(key, 1, entry[1], FALSE)
                               \o WriteItem(value, 2, entry[2], FALSE),
                               Template(<<key, value>>))
    IN  /\ result.is = "value"
        /\ result.value.vtable[1] = CombineItem(key, DefVal(key), entry[1])
        /\ result.value.vtable[2] = CombineItem(value, DefVal(value), entry[2])
        /\ IsItem(key, result.value.vtable[1]) /\ IsItem(value, result.value.vtable[2])

(* The messages inside a field that is of the type the reader knows. *)
FieldReads(type, number, old, value) ==
    CASE type.kind = "map" -> EntryReads(type.key, type.value, value)
      [] type.kind \in {"optional", "repeated"} -> InnerReads(type.of, DefVal(type.of), value)
      [] type.kind = "oneof" ->
            InnerReads(type.of, IF old # Undefined /\ old[1] = number
                                THEN old[2] ELSE DefVal(type.of), value)
      [] OTHER -> InnerReads(type, old, value)

PartReads(fields, msg, part) ==
    part.number \in DOMAIN fields /\ part.type = fields[part.number] =>
        FieldReads(part.type, part.number, msg.vtable[Slot(fields, part.number)], part.value)

(* All of it, for the pieces of a message that is read into msg. *)
PiecesFit(fields, msg, pieces) ==
    \A n \in DOMAIN pieces :
        LET before == [i \in 1 .. n - 1 |-> pieces[i]] IN
        /\ Fit(fields, pieces[n])
        /\ (\A i \in 1 .. n - 1 : Readable(fields, pieces[i])) =>
               PartReads(fields, MergeAll(fields, msg, before), pieces[n])

InputsFit ==
    \A length \in 0 .. MaxParts : \A input \in Inputs(length) :
        PiecesFit(Fields, Template(Fields), [i \in 1 .. length |-> PartList[input[i]]])

-----------------------------------------------------------------------------
(* Messages inside messages                                                *)

AreFields(fields) ==
    DOMAIN fields \subseteq Nat /\ \A number \in DOMAIN fields : IsFieldType(fields[number])

(* A message has a place for each field. *)
Shaped(fields, msg) ==
    "vtable" \in DOMAIN msg /\ Slots(fields) \subseteq DOMAIN msg.vtable

(* A packed chunk is the first of its field, here and in what was read     *)
(* before.                                                                 *)
PackedFirst(fields, msg, pieces) ==
    \A n \in DOMAIN pieces :
        pieces[n].type.kind = "packed" /\ pieces[n].number \in DOMAIN fields
            /\ fields[pieces[n].number].kind = "repeated" =>
                /\ msg.vtable[pieces[n].number] = << >>
                /\ \A i \in 1 .. n - 1 : pieces[i].number # pieces[n].number

(* An entry of a map is a message of two fields. *)
EntryPieces(key, value, entry) ==
    <<[number |-> 1, type |-> key, value |-> entry[1]],
      [number |-> 2, type |-> value, value |-> entry[2]]>>

(* What the reader of a message is to do: read these pieces into a message *)
(* of these fields, which holds something already or is a template.        *)
Task(fields, into, pieces) == [fields |-> fields, into |-> into, pieces |-> pieces]

(* The tasks that reading a part gives the readers of the messages inside. *)
InnerTask(type, old, value) ==
    Task(type.fields, IF old = Undefined THEN Template(type.fields) ELSE old[1], value)

EntryTask(key, value, entry) ==
    Task(<<key, value>>, Template(<<key, value>>), EntryPieces(key, value, entry))

ItemTasks(type, old, value) ==
    IF type.kind = "message" THEN {InnerTask(type, old, value)} ELSE {}

FieldTasks(type, number, old, value) ==
    CASE type.kind = "map" -> {EntryTask(type.key, type.value, value)}
      [] type.kind \in {"optional", "repeated"} ->
            ItemTasks(type.of, DefVal(type.of), value)
      [] type.kind = "oneof" ->
            ItemTasks(type.of, IF old # Undefined /\ old[1] = number
                               THEN old[2] ELSE DefVal(type.of), value)
      [] OTHER -> ItemTasks(type, old, value)

PartTasks(fields, msg, part) ==
    IF part.number \in DOMAIN fields /\ part.type = fields[part.number]
    THEN FieldTasks(part.type, part.number,
                    msg.vtable[Slot(fields, part.number)], part.value)
    ELSE {}

(* The pieces fit the fields, and the tasks inside them are among these.   *)
PiecesIn(tasks, fields, msg, pieces) ==
    \A n \in DOMAIN pieces :
        /\ Fit(fields, pieces[n])
        /\ (\A i \in 1 .. n - 1 : Readable(fields, pieces[i])) =>
               PartTasks(fields, After(fields, msg, pieces, n - 1), pieces[n]) \subseteq tasks

(* The operators that the module is given are the module's own here.       *)
Tied(task) ==
    /\ WriteContents(task.pieces) = Contents(task.pieces)
    /\ ReadContents(task.fields, Contents(task.pieces), task.into)
          = ReadFields(task.fields, Contents(task.pieces), task.into)
    /\ MergeContents(task.fields, task.into, task.pieces)
          = MergeAll(task.fields, task.into, task.pieces)
    /\ IsContents(task.fields, MergeAll(task.fields, task.into, task.pieces))
          <=> IsMessage(task.fields, MergeAll(task.fields, task.into, task.pieces))

WellFormed(task) ==
    /\ AreFields(task.fields)
    /\ Shaped(task.fields, task.into) /\ IsMessage(task.fields, task.into)
    /\ Len(task.pieces) \in Nat
    /\ task.pieces = First(task.pieces, Len(task.pieces))
    /\ \A i \in DOMAIN task.pieces :
          Writable(task.pieces[i]) /\ Readable(task.fields, task.pieces[i])
    /\ PackedFirst(task.fields, task.into, task.pieces)

Done(task) ==
    /\ ReadFields(task.fields, Contents(task.pieces), task.into)
          = Value(MergeAll(task.fields, task.into, task.pieces), Len(Contents(task.pieces)))
    /\ IsMessage(task.fields, MergeAll(task.fields, task.into, task.pieces))

(* Tasks whose inner tasks are among them, and less deep.                  *)
Nested(tasks, depth) ==
    /\ depth \in [tasks -> Nat]
    /\ \A task \in tasks :
          /\ Tied(task) /\ WellFormed(task)
          /\ PiecesIn({inner \in tasks : depth[inner] < depth[task]},
                      task.fields, task.into, task.pieces)

(* The tasks inside the inputs are among these. *)
InputsIn(tasks) ==
    \A length \in 0 .. MaxParts : \A input \in Inputs(length) :
        PiecesIn(tasks, Fields, Template(Fields), InputPieces(input))
=============================================================================
