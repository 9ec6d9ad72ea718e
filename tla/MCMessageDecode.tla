--------------------------- MODULE MCMessageDecode --------------------------
(***************************************************************************)
(* Instances of MessageDecode for TLC.  With Base = 8 every tag of a field *)
(* up to 7 takes two bytes, and a length of eight does too.                *)
(***************************************************************************)
EXTENDS DecodableInputs

(* What the module is given for the messages inside: the same that it      *)
(* makes of them for the outermost one.  TLC's coverage follows the value  *)
(* of a constant operator until a LET: without one it has no end here.     *)
InnerContents(pieces) == LET bytes == Contents(pieces) IN bytes
InnerRead(fields, bytes, into) == LET result == ReadFields(fields, bytes, into) IN result
InnerMerge(fields, into, pieces) == LET merged == MergeAll(fields, into, pieces) IN merged
InnerIs(fields, msg) == LET is == IsMessage(fields, msg) IN is

Integer == Primitive(VarintType)
Bytes32 == Primitive(SingleType)
Text == Primitive(DelimType)

MCInner == <<Integer, Maybe(Integer), Repeated(Integer)>>

MCFields ==
    << Integer,
       Text,
       Optional(Integer),
       Maybe(Integer),
       Repeated(Integer),
       Repeated(Message(MCInner)),
       Message(MCInner),
       MapOf(Integer, Text),
       Oneof("choice", Integer),
       Oneof("choice", Message(MCInner)),
       Bytes32 >>

P(number, type, value) == [number |-> number, type |-> type, value |-> value]

(* The first two fields of an inner message, and an item of its third.     *)
Inner(int, maybe) == <<P(1, Integer, <<int>>), P(2, Maybe(Integer), <<maybe>>)>>
InnerItem(item) == <<P(3, Repeated(Integer), <<item>>)>>

(* Parts for the fields the reader knows, with the values that are written *)
(* in one byte, in two, or not at all.                                     *)
MCKnown ==
    << P(1, Integer, <<9>>), P(2, Text, <<1, 9>>),
       P(3, Optional(Integer), <<0>>), P(3, Optional(Integer), <<1>>),
       P(4, Maybe(Integer), <<0>>), P(4, Maybe(Integer), <<9>>),
       P(5, Packed(Integer), <<<<0>>, <<9>>>>), P(5, Repeated(Integer), <<1>>),
       P(6, Repeated(Message(MCInner)), Inner(0, 1)),
       P(7, Message(MCInner), Inner(1, 0)), P(7, Message(MCInner), Inner(0, 1)),
       P(7, Message(MCInner), InnerItem(2)),
       P(8, MapOf(Integer, Text), <<<<1>>, <<2>>>>), P(8, MapOf(Integer, Text), <<<<1>>, << >>>>),
       P(9, Oneof("choice", Integer), <<1>>),
       P(10, Oneof("choice", Message(MCInner)), Inner(1, 0)),
       P(10, Oneof("choice", Message(MCInner)), InnerItem(0)),
       P(11, Bytes32, <<1, 2, 3, 4>>) >>

(* Parts the reader does not know, and known ones with a wire type that    *)
(* does not fit.                                                           *)
MCStrange ==
    << P(15, Integer, <<9>>), P(12, Bytes32, <<1, 2, 3, 4>>),
       P(13, Text, <<1, 2, 3>>), P(14, Primitive(DoubleType), <<1, 2, 3, 4, 5, 6, 7, 8>>),
       P(1, Text, <<1, 2>>), P(4, Bytes32, <<1, 2, 3, 4>>), P(5, Repeated(Bytes32), <<1, 2, 3, 4>>),
       P(7, Integer, <<1>>) >>

MCParts == MCKnown \o MCStrange

(* What the message may be before the last part of an input is read. *)
Befores ==
    {before \in UNION {[1 .. n -> DOMAIN PartList] : n \in 0 .. MaxParts - 1} :
        \A i \in DOMAIN before : Readable(Fields, PartList[before[i]])}

Messages == {MergeAll(Fields, Template(Fields), InputPieces(before)) : before \in Befores}

(* What the theorems ask of the inputs is true of these: the parts fit,    *)
(* and the messages inside are read and merged, whatever came before.      *)
ASSUME PartsFit ==
    PartList = MCParts =>
        \A i \in DOMAIN PartList :
            /\ Fit(Fields, PartList[i])
            /\ \A msg \in Messages : PartReads(Fields, msg, PartList[i])

(* There are tasks as the theorems about messages inside messages ask for. *)
Tasks ==
    UNION {PartTasks(Fields, msg, PartList[i]) : msg \in Messages, i \in DOMAIN PartList}

ASSUME TasksNest == PartList = MCParts => Nested(Tasks, [task \in Tasks |-> 0])

(* A field the reader does not know, of eight bytes. *)
MCLong == <<P(1, Integer, <<9>>), P(13, Text, <<1, 2, 3, 4, 5, 6, 7, 1>>)>>
=============================================================================
